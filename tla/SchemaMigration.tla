-------------------------- MODULE SchemaMigration --------------------------
(***************************************************************************)
(* SQLiteStorageService::initialize on a database that several processes   *)
(* share (src/core/storage/sqlite-storage-service.cpp): the first schema,  *)
(* the six migrations after it, and the test of the final version.         *)
(*                                                                         *)
(* Every step changes the database in one BEGIN IMMEDIATE transaction that *)
(* ends with the step's number in user_version.  Whether a step is due is  *)
(* read before that transaction begins.  A process may give up or die at   *)
(* any point; SQLite rolls an open transaction back.                       *)
(*                                                                         *)
(* Columns that belong to one migration are one element of db.columns:     *)
(* "tables" are the tables of version 1, "algorithms" the hash algorithm   *)
(* columns, "identity" the composite key of documents, "metadata" the      *)
(* tables of version 4.                                                    *)
(***************************************************************************)
EXTENDS Integers, Sequences

CONSTANTS
  Processes,
  Paths,
  Hashes,
  Databases,      \* the databases there may be at the start
  ConcurrentFrom  \* bound on the environment: while the version is lower,
                  \* a process begins only when no other one is in initialize

initialSchemaVersion == 1
currentSchemaVersion == 7
Versions == initialSchemaVersion..currentSchemaVersion

Columns == {"tables", "algorithms", "identity", "metadata", "formatVersion",
            "modifiedAt", "indexedText"}

unknownAlgorithm == 0
sha256 == 1
Documents == [hash : Hashes, algorithm : {unknownAlgorithm, sha256}]
NoDocument == [hash |-> "none", algorithm |-> unknownAlgorithm]

(* A version above the current one is a later build's. *)
DatabaseType ==
  [version : Nat, columns : SUBSET Columns, documents : SUBSET Documents,
   files : [Paths -> Documents \cup {NoDocument}],
   texts : SUBSET Documents]  \* documents with an indexed text

(* The foreign key of files, and a text is a column of its document. *)
Consistent(d) ==
  /\ \A path \in Paths : d.files[path] \in d.documents \cup {NoDocument}
  /\ d.texts \subseteq d.documents

(* What each migration adds. *)
Adds == <<{"tables"}, {"algorithms"}, {"identity", "modifiedAt"}, {"metadata"},
          {"formatVersion"}, {"modifiedAt"}, {"indexedText"}>>

Required(version) == UNION {Adds[s] : s \in {v \in Versions : v <= version}}

ASSUME SchemaAssumption ==
  /\ "none" \notin Hashes
  /\ ConcurrentFrom \in Nat
  /\ Databases \subseteq DatabaseType
  /\ \A d \in Databases :
       /\ Consistent(d)
       /\ Required(d.version) \subseteq d.columns
       /\ d.version < currentSchemaVersion => d.texts = {}

VARIABLES
  db,
  pc,    \* where each process is in initialize()
  step,  \* the migration it tests or applies
  seen   \* versionBeforeInitialSchema

vars == <<db, pc, step, seen>>

TypeOK ==
  /\ db \in DatabaseType /\ Consistent(db)
  /\ pc \in [Processes -> {"closed", "initial", "test", "apply", "final",
                        "open"}]
  /\ step \in [Processes -> Versions]
  /\ seen \in [Processes -> Nat]

Init ==
  /\ db \in Databases
  /\ pc = [p \in Processes |-> "closed"]
  /\ step = [p \in Processes |-> initialSchemaVersion]
  /\ seen = [p \in Processes |-> 0]

-----------------------------------------------------------------------------
(* CREATE TABLE IF NOT EXISTS: the version 1 tables of this build also     *)
(* have the columns of versions 6 and 7.                                   *)
CreateTables(d) ==
  IF "tables" \in d.columns THEN d
  ELSE [d EXCEPT !.columns = @ \cup {"tables", "modifiedAt", "indexedText"}]

(* INSERT INTO documents_v3 SELECT ... FROM documents, then files_v3. *)
CopiedByHash(document) == [document EXCEPT !.algorithm = unknownAlgorithm]
Copied(document)       == document

RebuiltBare(columns) == {"tables", "identity", "modifiedAt"}
Rebuilt(columns)     == columns \ {"formatVersion", "indexedText"}

(* applyContentHashIdentityMigration: both tables are copied to new ones   *)
(* that have neither an indexed text nor a format version.                 *)
ApplyContentHashIdentity(d) ==
  [d EXCEPT !.version = 3,
            !.columns = Rebuilt(@) \cup Adds[3],
            !.documents = {Copied(document) : document \in @},
            !.texts = {}]

(* The others add what is missing. *)
AddMissing(d, s) ==
  [d EXCEPT !.version = s, !.columns = @ \cup Adds[s]]

Migrated(d, s) == IF s = 3 THEN ApplyContentHashIdentity(d) ELSE AddMissing(d, s)

-----------------------------------------------------------------------------
InInitialize(p) == pc[p] \in {"initial", "test", "apply", "final"}

(* initialize() opens the database, unless it is open; applyInitialSchema  *)
(* reads the version.                                                      *)
Initialize(p) ==
  /\ ~InInitialize(p)
  /\ db.version >= ConcurrentFrom \/ \A q \in Processes : ~InInitialize(q)
  /\ pc' = [pc EXCEPT ![p] = "initial"]
  /\ seen' = [seen EXCEPT ![p] = db.version]
  /\ UNCHANGED <<db, step>>

AlwaysFirst(p, version)  == initialSchemaVersion
FirstVersion(p, version) == IF seen[p] = 0 THEN initialSchemaVersion ELSE version

InitialSchema(p) ==
  /\ pc[p] = "initial"
  /\ db' = [CreateTables(db) EXCEPT !.version = FirstVersion(p, @)]
  /\ pc' = [pc EXCEPT ![p] = "test"]
  /\ step' = [step EXCEPT ![p] = 2]
  /\ UNCHANGED seen

(* The next test of applyMigrations. *)
GoOn(p) ==
  \/ /\ step[p] < currentSchemaVersion
     /\ step' = [step EXCEPT ![p] = @ + 1]
     /\ pc' = [pc EXCEPT ![p] = "test"]
  \/ /\ step[p] = currentSchemaVersion
     /\ pc' = [pc EXCEPT ![p] = "final"]
     /\ UNCHANGED step

(* schemaVersion(database) < the step's version *)
DueLate(s) == db.version + 1 < s
Due(s)     == db.version < s
StepDue(p) ==
  /\ pc[p] = "test" /\ Due(step[p])
  /\ pc' = [pc EXCEPT ![p] = "apply"]
  /\ UNCHANGED <<db, step, seen>>

StepDone(p) ==
  /\ pc[p] = "test" /\ ~Due(step[p])
  /\ GoOn(p)
  /\ UNCHANGED <<db, seen>>

(* The step's transaction. *)
ApplyStep(p) ==
  /\ pc[p] = "apply"
  /\ step[p] = 3 => "algorithms" \in db.columns
  /\ db' = Migrated(db, step[p])
  /\ GoOn(p)
  /\ UNCHANGED seen

(* The final test; ensureLookupIndexes and the startup recovery change     *)
(* nothing that is modelled here.                                          *)
NotOlder  == db.version >= currentSchemaVersion
Supported == db.version = currentSchemaVersion

Finish(p) ==
  /\ pc[p] = "final" /\ Supported
  /\ pc' = [pc EXCEPT ![p] = "open"]
  /\ UNCHANGED <<db, step, seen>>

(* The final test refuses the database, a statement fails and rolls its    *)
(* transaction back, the process closes the database or dies.              *)
Leave(p) ==
  /\ pc[p] # "closed"
  /\ pc' = [pc EXCEPT ![p] = "closed"]
  /\ UNCHANGED <<db, step, seen>>

(* An open process stores a document; a missing column is an error. *)
StoreDocument(p, path, hash) ==
  LET document == [hash |-> hash, algorithm |-> sha256] IN
    /\ pc[p] = "open" /\ Columns \ {"metadata"} \subseteq db.columns
    /\ db' = [db EXCEPT !.documents = @ \cup {document},
                        !.files[path] = document,
                        !.texts = @ \cup {document}]
    /\ UNCHANGED <<pc, step, seen>>

Next ==
  \E p \in Processes :
    \/ Initialize(p) \/ InitialSchema(p) \/ StepDue(p) \/ StepDone(p)
    \/ ApplyStep(p) \/ Finish(p) \/ Leave(p)
    \/ \E path \in Paths, hash \in Hashes : StoreDocument(p, path, hash)

Spec == Init /\ [][Next]_vars

-----------------------------------------------------------------------------
(* user_version never promises a column that is not there. *)
VersionMeansSchema ==
  db.version \in Versions => Required(db.version) \subseteq db.columns

(* A process that has opened the database finds every column, also while   *)
(* another one is still in initialize().                                   *)
OpenMeansUsable == \A p \in Processes : pc[p] = "open" => db.columns = Columns

(* No migration loses a document or its text, from whatever version it     *)
(* starts and wherever it is interrupted.                                  *)
StoredSurvives ==
  [][/\ db.documents \subseteq db'.documents
     /\ db.texts \subseteq db'.texts]_vars

(* A database of a later build is refused as it is. *)
NewerIsLeftAlone ==
  [][db.version > currentSchemaVersion => UNCHANGED db]_vars

(* "The schema evolves through idempotent migrations" (docs/architecture/  *)
(* storage.md): when everybody has initialized the database, however often *)
(* a step was repeated, nothing is missing.                                *)
SettledMeansComplete ==
  (\A p \in Processes : pc[p] = "open") => db.columns = Columns
=============================================================================
