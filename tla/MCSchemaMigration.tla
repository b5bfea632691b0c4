------------------------- MODULE MCSchemaMigration -------------------------
EXTENDS SchemaMigration

CONSTANTS p1, p2, a, h1, h2

Processes2 == {p1, p2}

Empty == [version |-> 0, columns |-> {}, documents |-> {},
          files |-> [path \in Paths |-> NoDocument], texts |-> {}]

(* One file; its document has an algorithm from version 2 on. *)
WithFile(version, columns, algorithm) ==
  LET document == [hash |-> h1, algorithm |-> algorithm] IN
    [version |-> version, columns |-> columns, documents |-> {document},
     files |-> [path \in Paths |-> document],
     texts |-> IF version = currentSchemaVersion THEN {document} ELSE {}]

(* Databases of every version: with the columns an older build made, or,   *)
(* where this build was interrupted, those of its own tables.              *)
Historic ==
  {WithFile(1, columns, unknownAlgorithm) :
     columns \in {Required(1), Required(1) \cup {"modifiedAt", "indexedText"}}}
  \cup {WithFile(version, Required(version), sha256) : version \in 2..7}
  \cup {WithFile(8, Columns, sha256)}

AllDatabases == {Empty} \cup Historic
FreshDatabase == {Empty}
=============================================================================
