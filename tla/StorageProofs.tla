--------------------------- MODULE StorageProofs ---------------------------
(***************************************************************************)
(* The migrations are safe for any number of processes, whatever each of   *)
(* them has done when another one acts, if no second process begins while  *)
(* the version is still below 3: the step to version 3 is the only one     *)
(* that takes columns away.  A database of a later build is left as it is  *)
(* without that condition.                                                 *)
(*                                                                         *)
(* The logs keep the newest rows by the clock, because a row that was      *)
(* deleted had as many newer ones in front of it as the limit admits, and  *)
(* these keep any older row out.  A staleness report tells the truth about *)
(* the files in the index where updates of a worktree followed one another.*)
(***************************************************************************)
EXTENDS SchemaMigration, CatalogLog, TLAPS, FiniteSetTheorems, WellFoundedInduction

ColumnsOfVersion == Required(db.version) \subseteq db.columns

(* What a process has passed is there, and stays. *)
PassedIsThere ==
  \A p \in Processes :
    /\ pc[p] \in {"test", "apply"} => Required(step[p] - 1) \subseteq db.columns
    /\ pc[p] \in {"final", "open"} => db.columns = Columns
    /\ pc[p] \in {"test", "apply"} => step[p] >= 2

(* Below version 3 at most one process is at work, and nobody has stored.  *)
AloneBelow3 ==
  db.version < 3 =>
    /\ db.texts = {}
    /\ \A p \in Processes : pc[p] # "open"
    /\ \A p, q \in Processes : InInitialize(p) /\ InInitialize(q) => p = q

(* Nobody opens, or changes, a database of a later build. *)
OpenIsSupported ==
  \A p \in Processes : pc[p] = "open" => db.version <= currentSchemaVersion

(* Only a process that works below version 3 may take the version back     *)
(* below 3, or rebuild the tables.                                         *)
RebuildsOnlyBelow3 ==
  \A p \in Processes :
    /\ pc[p] = "apply" /\ step[p] <= 3 => db.version < 3
    /\ pc[p] = "initial" /\ seen[p] = 0 => db.version < 3

MInv ==
  /\ TypeOK /\ ColumnsOfVersion /\ PassedIsThere /\ AloneBelow3
  /\ OpenIsSupported /\ RebuildsOnlyBelow3

-----------------------------------------------------------------------------
(* What a version requires, step by step. *)
LEMMA RequiredValues ==
  /\ Required(0) = {}
  /\ Required(1) = {"tables"}
  /\ Required(2) = {"tables", "algorithms"}
  /\ Required(7) = Columns
<1>1. Versions = {1, 2, 3, 4, 5, 6, 7}
  BY DEF Versions, initialSchemaVersion, currentSchemaVersion
<1>2. /\ Adds[1] = {"tables"} /\ Adds[2] = {"algorithms"}
      /\ Adds[3] = {"identity", "modifiedAt"} /\ Adds[4] = {"metadata"}
      /\ Adds[5] = {"formatVersion"} /\ Adds[6] = {"modifiedAt"}
      /\ Adds[7] = {"indexedText"}
  BY <1>1 DEF Adds
<1>3. \A v : Required(v) = UNION {Adds[s] : s \in {w \in {1, 2, 3, 4, 5, 6, 7} : w <= v}}
  BY <1>1 DEF Required
<1>4. /\ {w \in {1, 2, 3, 4, 5, 6, 7} : w <= 0} = {}
      /\ {w \in {1, 2, 3, 4, 5, 6, 7} : w <= 1} = {1}
      /\ {w \in {1, 2, 3, 4, 5, 6, 7} : w <= 2} = {1, 2}
      /\ {w \in {1, 2, 3, 4, 5, 6, 7} : w <= 7} = {1, 2, 3, 4, 5, 6, 7}
  OBVIOUS
<1> QED
  BY <1>2, <1>3, <1>4 DEF Columns

LEMMA RequiredStep ==
  ASSUME NEW s \in Versions
  PROVE  Required(s) = Required(s - 1) \cup Adds[s]
<1>1. {v \in Versions : v <= s} = {v \in Versions : v <= s - 1} \cup {s}
  BY DEF Versions, initialSchemaVersion, currentSchemaVersion
<1> QED
  BY <1>1 DEF Required

LEMMA RequiredGrows ==
  ASSUME NEW v \in Int, NEW w \in Int, v <= w
  PROVE  Required(v) \subseteq Required(w)
  BY DEF Required, Versions, initialSchemaVersion, currentSchemaVersion

LEMMA AddsColumns == ASSUME NEW s \in Versions PROVE Adds[s] \subseteq Columns
  BY DEF Adds, Columns, Versions, initialSchemaVersion, currentSchemaVersion

LEMMA RequiredAll ==
  ASSUME NEW v \in Int, v >= 7 PROVE Required(v) = Columns
<1>1. Columns \subseteq Required(v)
  BY RequiredValues, RequiredGrows
<1>2. Required(v) \subseteq Columns
  BY AddsColumns DEF Required
<1> QED
  BY <1>1, <1>2

-----------------------------------------------------------------------------
(* What the columns are after the steps that change them. *)
LEMMA CreateTablesAdds ==
  ASSUME NEW d \in DatabaseType
  PROVE  /\ CreateTables(d) \in DatabaseType
         /\ d.columns \cup {"tables"} \subseteq CreateTables(d).columns
         /\ CreateTables(d).version = d.version
         /\ CreateTables(d).documents = d.documents
         /\ CreateTables(d).files = d.files
         /\ CreateTables(d).texts = d.texts
  BY DEF CreateTables, DatabaseType, Columns

LEMMA MigratedAdds ==
  ASSUME NEW d \in DatabaseType, NEW s \in Versions, Consistent(d)
  PROVE  /\ Migrated(d, s) \in DatabaseType
         /\ Consistent(Migrated(d, s))
         /\ Migrated(d, s).version = s
         /\ Migrated(d, s).documents = d.documents
         /\ s # 3 => /\ Migrated(d, s).columns = d.columns \cup Adds[s]
                     /\ Migrated(d, s).texts = d.texts
         /\ s = 3 => /\ (d.columns \ {"formatVersion", "indexedText"}) \cup Adds[3]
                          \subseteq Migrated(d, s).columns
                     /\ Migrated(d, s).texts = {}
<1>0. s \in Nat /\ Adds[s] \subseteq Columns
  BY AddsColumns DEF Versions, initialSchemaVersion, currentSchemaVersion
<1>1. CASE s # 3
  BY <1>0, <1>1 DEF Migrated, AddMissing, DatabaseType, Consistent
<1>2. CASE s = 3
  <2>1. {Copied(document) : document \in d.documents} = d.documents
    BY DEF Copied
  <2> QED
    BY <1>0, <1>2, <2>1 DEF Migrated, ApplyContentHashIdentity, Rebuilt, DatabaseType, Consistent
<1> QED
  BY <1>1, <1>2

-----------------------------------------------------------------------------
(* The invariant holds at the start and is kept by every step. *)
LEMMA MInit == ASSUME Init PROVE MInv
<1> USE SchemaAssumption
<1>1. TypeOK /\ ColumnsOfVersion
  BY DEF Init, TypeOK, ColumnsOfVersion, Versions, initialSchemaVersion, currentSchemaVersion
<1>2. PassedIsThere /\ OpenIsSupported /\ RebuildsOnlyBelow3
  BY DEF Init, PassedIsThere, OpenIsSupported, RebuildsOnlyBelow3
<1>3. AloneBelow3
  BY DEF Init, AloneBelow3, InInitialize, DatabaseType, currentSchemaVersion
<1> QED
  BY <1>1, <1>2, <1>3 DEF MInv

LEMMA InitializeInv ==
  ASSUME ConcurrentFrom >= 3, MInv, NEW p \in Processes, Initialize(p) PROVE MInv'
<1> USE SchemaAssumption
<1>0. db \in DatabaseType /\ db.version \in Nat
  BY DEF MInv, TypeOK, DatabaseType
<1>1. TypeOK'
  BY <1>0 DEF MInv, TypeOK, Initialize, Consistent
<1>2. ColumnsOfVersion' /\ PassedIsThere' /\ OpenIsSupported'
  BY DEF MInv, TypeOK, ColumnsOfVersion, PassedIsThere, OpenIsSupported, Initialize
<1>3. AloneBelow3'
  BY <1>0 DEF MInv, TypeOK, AloneBelow3, InInitialize, Initialize
<1>4. RebuildsOnlyBelow3'
  BY <1>0 DEF MInv, TypeOK, RebuildsOnlyBelow3, Initialize
<1> QED
  BY <1>1, <1>2, <1>3, <1>4 DEF MInv

LEMMA InitialSchemaInv ==
  ASSUME MInv, NEW p \in Processes, InitialSchema(p) PROVE MInv'
<1>0. db \in DatabaseType /\ db.version \in Nat /\ Consistent(db)
  BY DEF MInv, TypeOK, DatabaseType
<1>1. /\ db' \in DatabaseType /\ Consistent(db')
      /\ db.columns \cup {"tables"} \subseteq db'.columns
      /\ db'.version = FirstVersion(p, db.version)
      /\ db'.documents = db.documents /\ db'.texts = db.texts
  <2>1. db' = [CreateTables(db) EXCEPT !.version = FirstVersion(p, @)]
    BY DEF InitialSchema
  <2>2. FirstVersion(p, db.version) \in Nat
    BY <1>0 DEF FirstVersion, initialSchemaVersion
  <2>3. CreateTables(db) \in DatabaseType
    BY <1>0, CreateTablesAdds
  <2>4. /\ db' \in DatabaseType /\ db'.version = FirstVersion(p, CreateTables(db).version)
        /\ db'.columns = CreateTables(db).columns
        /\ db'.documents = CreateTables(db).documents
        /\ db'.files = CreateTables(db).files /\ db'.texts = CreateTables(db).texts
    BY <2>1, <2>2, <2>3, <1>0, CreateTablesAdds DEF DatabaseType
  <2> QED
    BY <2>4, <1>0, CreateTablesAdds DEF Consistent
<1>2. \/ seen[p] = 0 /\ db'.version = 1 /\ db.version < 3
      \/ db'.version = db.version
  BY <1>1 DEF MInv, RebuildsOnlyBelow3, InitialSchema, FirstVersion, initialSchemaVersion
<1>3. TypeOK'
  BY <1>1 DEF MInv, TypeOK, InitialSchema, Versions, initialSchemaVersion, currentSchemaVersion
<1>4. ColumnsOfVersion'
  BY <1>1, <1>2, RequiredValues DEF MInv, ColumnsOfVersion
<1>5. db'.columns \subseteq Columns
  BY <1>1 DEF DatabaseType
<1>6. PassedIsThere'
  <2> SUFFICES ASSUME NEW q \in Processes
               PROVE /\ pc'[q] \in {"test", "apply"} =>
                          Required(step'[q] - 1) \subseteq db'.columns
                     /\ pc'[q] \in {"final", "open"} => db'.columns = Columns
                     /\ pc'[q] \in {"test", "apply"} => step'[q] >= 2
    BY DEF PassedIsThere
  <2>1. CASE q = p
    <3>1. pc'[q] = "test" /\ step'[q] = 2
      BY <2>1 DEF MInv, TypeOK, InitialSchema, Versions, initialSchemaVersion,
         currentSchemaVersion
    <3>2. Required(2 - 1) \subseteq db'.columns
      BY <1>1, RequiredValues
    <3> QED
      BY <3>1, <3>2
  <2>2. CASE q # p
    <3>1. pc'[q] = pc[q] /\ step'[q] = step[q]
      BY <2>2 DEF MInv, TypeOK, InitialSchema
    <3> QED
      BY <1>1, <1>5, <3>1 DEF MInv, PassedIsThere
  <2> QED
    BY <2>1, <2>2
<1>7. AloneBelow3' /\ OpenIsSupported'
  BY <1>0, <1>1, <1>2 DEF MInv, TypeOK, AloneBelow3, OpenIsSupported, InInitialize,
     InitialSchema, currentSchemaVersion
<1>8. RebuildsOnlyBelow3'
  <2>1. db'.version < 3 \/ db'.version = db.version
    BY <1>2
  <2>2. ASSUME NEW q \in Processes PROVE
          /\ (pc[q] = "apply" /\ step[q] <= 3)' => db.version < 3
          /\ (pc[q] = "initial" /\ seen[q] = 0)' => db.version < 3
    BY DEF MInv, TypeOK, RebuildsOnlyBelow3, InitialSchema
  <2> QED
    BY <2>1, <2>2 DEF RebuildsOnlyBelow3
<1> QED
  BY <1>3, <1>4, <1>6, <1>7, <1>8 DEF MInv

(* Going on to the next test keeps what is known, if the step is there. *)
LEMMA GoOnPasses ==
  ASSUME TypeOK, NEW p \in Processes, GoOn(p), step[p] >= 2,
         Required(step[p]) \subseteq db'.columns, db'.columns \subseteq Columns
  PROVE  /\ pc' \in [Processes -> {"closed", "initial", "test", "apply", "final", "open"}]
         /\ step' \in [Processes -> Versions]
         /\ \A q \in Processes : q # p => pc'[q] = pc[q] /\ step'[q] = step[q]
         /\ pc'[p] \in {"test", "final"}
         /\ pc'[p] = "test" => /\ Required(step'[p] - 1) \subseteq db'.columns
                               /\ step'[p] >= 2
         /\ pc'[p] = "final" => db'.columns = Columns
<1>0. step[p] \in Versions
  BY DEF TypeOK
<1>1. CASE step[p] < currentSchemaVersion
  <2>1. pc' = [pc EXCEPT ![p] = "test"] /\ step' = [step EXCEPT ![p] = step[p] + 1]
    BY <1>0, <1>1 DEF GoOn, Versions, initialSchemaVersion, currentSchemaVersion
  <2>2. step'[p] = step[p] + 1 /\ step[p] + 1 \in Versions /\ (step[p] + 1) - 1 = step[p]
    BY <1>0, <1>1, <2>1 DEF TypeOK, Versions, initialSchemaVersion, currentSchemaVersion
  <2>3. step'[p] >= 2
    BY <1>0, <2>2 DEF Versions, initialSchemaVersion, currentSchemaVersion
  <2> QED
    BY <2>1, <2>2, <2>3 DEF TypeOK
<1>2. CASE step[p] = currentSchemaVersion
  <2>1. pc' = [pc EXCEPT ![p] = "final"] /\ step' = step
    BY <1>2 DEF GoOn, currentSchemaVersion
  <2>2. db'.columns = Columns
    BY <1>2, RequiredValues DEF currentSchemaVersion
  <2> QED
    BY <2>1, <2>2 DEF TypeOK
<1> QED
  BY <1>0, <1>1, <1>2 DEF Versions, initialSchemaVersion, currentSchemaVersion

LEMMA StepDueInv ==
  ASSUME MInv, NEW p \in Processes, StepDue(p) PROVE MInv'
<1>0. db.version \in Nat /\ step[p] \in Nat
  BY DEF MInv, TypeOK, DatabaseType, Versions, initialSchemaVersion, currentSchemaVersion
<1>1. TypeOK'
  BY DEF MInv, TypeOK, StepDue, Consistent
<1>2. ColumnsOfVersion' /\ PassedIsThere' /\ OpenIsSupported'
  BY DEF MInv, TypeOK, ColumnsOfVersion, PassedIsThere, OpenIsSupported, StepDue
<1>3. AloneBelow3'
  BY DEF MInv, TypeOK, AloneBelow3, InInitialize, StepDue
<1>4. RebuildsOnlyBelow3'
  BY <1>0 DEF MInv, TypeOK, RebuildsOnlyBelow3, StepDue, Due
<1> QED
  BY <1>1, <1>2, <1>3, <1>4 DEF MInv

LEMMA StepDoneInv ==
  ASSUME MInv, NEW p \in Processes, StepDone(p) PROVE MInv'
<1>0. /\ db.version \in Nat /\ step[p] \in Nat /\ db.columns \subseteq Columns
      /\ db' = db /\ seen' = seen /\ GoOn(p) /\ pc[p] = "test"
  BY DEF MInv, TypeOK, DatabaseType, Versions, initialSchemaVersion, currentSchemaVersion,
     StepDone
<1>1. step[p] >= 2
  BY <1>0 DEF MInv, PassedIsThere
<1>2. Required(step[p]) \subseteq db'.columns
  <2>1. step[p] <= db.version
    BY <1>0 DEF StepDone, Due
  <2>2. Required(step[p]) \subseteq Required(db.version)
    BY <1>0, <2>1, RequiredGrows
  <2> QED
    BY <1>0, <2>2 DEF MInv, ColumnsOfVersion
<1>3. /\ pc' \in [Processes -> {"closed", "initial", "test", "apply", "final", "open"}]
      /\ step' \in [Processes -> Versions]
      /\ \A q \in Processes : q # p => pc'[q] = pc[q] /\ step'[q] = step[q]
      /\ pc'[p] \in {"test", "final"}
      /\ pc'[p] = "test" => /\ Required(step'[p] - 1) \subseteq db'.columns
                            /\ step'[p] >= 2
      /\ pc'[p] = "final" => db'.columns = Columns
  BY <1>0, <1>1, <1>2, GoOnPasses DEF MInv
<1>4. TypeOK'
  BY <1>0, <1>3 DEF MInv, TypeOK, Consistent
<1>5. ColumnsOfVersion'
  BY <1>0 DEF MInv, ColumnsOfVersion
<1>6. PassedIsThere'
  BY <1>0, <1>3 DEF MInv, PassedIsThere
<1>7. AloneBelow3' /\ OpenIsSupported'
  BY <1>0, <1>3 DEF MInv, AloneBelow3, OpenIsSupported, InInitialize
<1>8. RebuildsOnlyBelow3'
  BY <1>0, <1>3 DEF MInv, RebuildsOnlyBelow3
<1> QED
  BY <1>4, <1>5, <1>6, <1>7, <1>8 DEF MInv

LEMMA ApplyStepInv ==
  ASSUME MInv, NEW p \in Processes, ApplyStep(p) PROVE MInv'
<1>0. /\ db \in DatabaseType /\ Consistent(db) /\ db.version \in Nat
      /\ step[p] \in Versions /\ step[p] \in Nat
      /\ seen' = seen /\ GoOn(p) /\ pc[p] = "apply" /\ db' = Migrated(db, step[p])
  BY DEF MInv, TypeOK, DatabaseType, Versions, initialSchemaVersion, currentSchemaVersion,
     ApplyStep
<1>1. step[p] >= 2 /\ Required(step[p] - 1) \subseteq db.columns
  BY <1>0 DEF MInv, PassedIsThere
<1>2. /\ db' \in DatabaseType /\ Consistent(db') /\ db'.version = step[p]
      /\ db'.columns \subseteq Columns
      /\ step[p] # 3 => /\ db'.columns = db.columns \cup Adds[step[p]]
                        /\ db'.texts = db.texts
      /\ step[p] = 3 => /\ (db.columns \ {"formatVersion", "indexedText"}) \cup Adds[3]
                             \subseteq db'.columns
                        /\ db'.texts = {}
  BY <1>0, MigratedAdds DEF DatabaseType
<1>3. Required(step[p]) \subseteq db'.columns
  <2>1. Required(step[p]) = Required(step[p] - 1) \cup Adds[step[p]]
    BY <1>0, RequiredStep
  <2>2. CASE step[p] # 3
    BY <1>1, <1>2, <2>1, <2>2
  <2>3. CASE step[p] = 3
    <3>1. Required(2) \subseteq db.columns
      BY <1>1, <2>3
    <3> QED
      BY <1>2, <2>1, <2>3, <3>1, RequiredValues
  <2> QED
    BY <2>2, <2>3
<1>4. /\ pc' \in [Processes -> {"closed", "initial", "test", "apply", "final", "open"}]
      /\ step' \in [Processes -> Versions]
      /\ \A q \in Processes : q # p => pc'[q] = pc[q] /\ step'[q] = step[q]
      /\ pc'[p] \in {"test", "final"}
      /\ pc'[p] = "test" => /\ Required(step'[p] - 1) \subseteq db'.columns
                            /\ step'[p] >= 2
      /\ pc'[p] = "final" => db'.columns = Columns
  BY <1>0, <1>1, <1>2, <1>3, GoOnPasses DEF MInv
<1>5. TypeOK'
  BY <1>0, <1>2, <1>4 DEF MInv, TypeOK
<1>6. ColumnsOfVersion'
  BY <1>2, <1>3 DEF ColumnsOfVersion
<1>7. step[p] <= 3 => /\ db.version < 3
                      /\ \A q \in Processes : q # p => pc[q] = "closed"
  <2>1. step[p] <= 3 => db.version < 3
    BY <1>0 DEF MInv, RebuildsOnlyBelow3
  <2> QED
    BY <1>0, <2>1 DEF MInv, TypeOK, AloneBelow3, InInitialize
<1>8. PassedIsThere'
  <2> SUFFICES ASSUME NEW q \in Processes
               PROVE /\ pc'[q] \in {"test", "apply"} =>
                          Required(step'[q] - 1) \subseteq db'.columns
                     /\ pc'[q] \in {"final", "open"} => db'.columns = Columns
                     /\ pc'[q] \in {"test", "apply"} => step'[q] >= 2
    BY DEF PassedIsThere
  <2>1. CASE q = p
    BY <1>4, <2>1
  <2>2. CASE q # p /\ step[p] <= 3
    BY <1>4, <1>7, <2>2
  <2>3. CASE q # p /\ step[p] > 3
    <3>1. db.columns \subseteq db'.columns
      BY <1>2, <2>3, <1>0
    <3> QED
      BY <1>2, <1>4, <2>3, <3>1 DEF MInv, PassedIsThere
  <2> QED
    BY <1>0, <2>1, <2>2, <2>3
<1>9. AloneBelow3'
  <2> SUFFICES ASSUME db'.version < 3
               PROVE  /\ db'.texts = {}
                      /\ \A q \in Processes : pc'[q] # "open"
                      /\ \A q, r \in Processes : InInitialize(q)' /\ InInitialize(r)' => q = r
    BY DEF AloneBelow3
  <2>1. step[p] < 3 /\ db.version < 3
    BY <1>0, <1>2, <1>7
  <2>2. db'.texts = {}
    BY <1>2, <2>1 DEF MInv, AloneBelow3
  <2> QED
    BY <1>0, <1>4, <1>7, <2>1, <2>2 DEF InInitialize
<1>10. RebuildsOnlyBelow3'
  <2> SUFFICES ASSUME NEW q \in Processes
               PROVE /\ pc'[q] = "apply" /\ step'[q] <= 3 => db'.version < 3
                     /\ pc'[q] = "initial" /\ seen'[q] = 0 => db'.version < 3
    BY DEF RebuildsOnlyBelow3
  <2>1. CASE q = p
    BY <1>4, <2>1
  <2>2. CASE q # p
    <3>1. /\ pc[q] = "apply" /\ step[q] <= 3 => db.version < 3
          /\ pc[q] = "initial" /\ seen[q] = 0 => db.version < 3
      BY DEF MInv, RebuildsOnlyBelow3
    <3>2. db.version < 3 => pc[q] # "apply" /\ pc[q] # "initial"
      BY <1>0, <2>2 DEF MInv, AloneBelow3, InInitialize
    <3>3. pc'[q] = pc[q] /\ step'[q] = step[q] /\ seen'[q] = seen[q]
      BY <1>0, <1>4, <2>2
    <3> QED
      BY <3>1, <3>2, <3>3
  <2> QED
    BY <2>1, <2>2
<1>11. OpenIsSupported'
  BY <1>0, <1>2 DEF OpenIsSupported, Versions, initialSchemaVersion, currentSchemaVersion
<1> QED
  BY <1>5, <1>6, <1>8, <1>9, <1>10, <1>11 DEF MInv

LEMMA FinishInv ==
  ASSUME MInv, NEW p \in Processes, Finish(p) PROVE MInv'
<1>0. db.version = 7 /\ pc[p] = "final" /\ db' = db
  BY DEF Finish, Supported, currentSchemaVersion
<1>1. TypeOK'
  BY DEF MInv, TypeOK, Finish, Consistent
<1>2. ColumnsOfVersion' /\ PassedIsThere' /\ OpenIsSupported'
  BY <1>0 DEF MInv, TypeOK, ColumnsOfVersion, PassedIsThere, OpenIsSupported, Finish,
     currentSchemaVersion
<1>3. AloneBelow3' /\ RebuildsOnlyBelow3'
  BY <1>0 DEF MInv, TypeOK, AloneBelow3, RebuildsOnlyBelow3, Finish
<1> QED
  BY <1>1, <1>2, <1>3 DEF MInv

LEMMA LeaveInv ==
  ASSUME MInv, NEW p \in Processes, Leave(p) PROVE MInv'
<1>1. TypeOK'
  BY DEF MInv, TypeOK, Leave, Consistent
<1>2. ColumnsOfVersion' /\ PassedIsThere' /\ OpenIsSupported'
  BY DEF MInv, TypeOK, ColumnsOfVersion, PassedIsThere, OpenIsSupported, Leave
<1>3. AloneBelow3' /\ RebuildsOnlyBelow3'
  BY DEF MInv, TypeOK, AloneBelow3, RebuildsOnlyBelow3, Leave, InInitialize
<1> QED
  BY <1>1, <1>2, <1>3 DEF MInv

LEMMA StoreDocumentInv ==
  ASSUME MInv, NEW p \in Processes, NEW path \in Paths, NEW hash \in Hashes,
         StoreDocument(p, path, hash)
  PROVE  /\ MInv'
         /\ db.documents \subseteq db'.documents /\ db.texts \subseteq db'.texts
         /\ db.version <= currentSchemaVersion \/ UNCHANGED db
<1> DEFINE document == [hash |-> hash, algorithm |-> sha256]
<1>0. /\ db \in DatabaseType /\ Consistent(db) /\ pc[p] = "open" /\ db.columns = Columns
      /\ pc' = pc /\ step' = step /\ seen' = seen
      /\ db' = [db EXCEPT !.documents = db.documents \cup {document},
                          !.files[path] = document,
                          !.texts = db.texts \cup {document}]
  BY DEF MInv, TypeOK, StoreDocument, PassedIsThere
<1>1. document \in Documents
  BY DEF Documents, sha256
<1>2. /\ db'.version = db.version /\ db'.columns = db.columns
      /\ db'.documents = db.documents \cup {document}
      /\ db'.texts = db.texts \cup {document}
      /\ db'.files = [db.files EXCEPT ![path] = document]
      /\ db' \in DatabaseType
  BY <1>0, <1>1 DEF DatabaseType
<1>3. Consistent(db')
  BY <1>0, <1>2 DEF Consistent, DatabaseType
<1>4. TypeOK'
  BY <1>0, <1>2, <1>3 DEF MInv, TypeOK
<1>5. ColumnsOfVersion' /\ PassedIsThere' /\ OpenIsSupported'
  BY <1>0, <1>2 DEF MInv, ColumnsOfVersion, PassedIsThere, OpenIsSupported
<1>6. AloneBelow3' /\ RebuildsOnlyBelow3'
  BY <1>0, <1>2 DEF MInv, AloneBelow3, RebuildsOnlyBelow3, InInitialize
<1>7. db.version <= currentSchemaVersion
  BY <1>0 DEF MInv, OpenIsSupported
<1> QED
  BY <1>2, <1>4, <1>5, <1>6, <1>7 DEF MInv

LEMMA MNext ==
  ASSUME ConcurrentFrom >= 3, MInv, [Next]_vars PROVE MInv'
<1>1. ASSUME NEW p \in Processes,
             \/ Initialize(p) \/ InitialSchema(p) \/ StepDue(p) \/ StepDone(p)
             \/ ApplyStep(p) \/ Finish(p) \/ Leave(p)
             \/ \E path \in Paths, hash \in Hashes : StoreDocument(p, path, hash)
      PROVE  MInv'
  BY <1>1, InitializeInv, InitialSchemaInv, StepDueInv, StepDoneInv, ApplyStepInv, FinishInv,
     LeaveInv, StoreDocumentInv
<1>2. CASE UNCHANGED vars
  BY <1>2 DEF vars, MInv, TypeOK, Consistent, ColumnsOfVersion, PassedIsThere, AloneBelow3,
     OpenIsSupported, RebuildsOnlyBelow3, InInitialize
<1> QED
  BY <1>1, <1>2 DEF Next

LEMMA MAlways ==
  ASSUME ConcurrentFrom >= 3 PROVE Spec => []MInv
<1>1. Init => MInv
  BY MInit
<1>2. MInv /\ [Next]_vars => MInv'
  BY MNext
<1> QED
  BY <1>1, <1>2, PTL DEF Spec

(* The database keeps its types, its foreign key, and texts belong to      *)
(* documents, whatever the processes do.                                   *)
THEOREM MigrationTypeOK ==
  ASSUME ConcurrentFrom >= 3 PROVE Spec => []TypeOK
<1>1. MInv => TypeOK
  BY DEF MInv
<1> QED
  BY <1>1, MAlways, PTL

(* user_version is never ahead of the columns, for any number of processes *)
(* in initialize() at once.                                                *)
THEOREM MigrationVersionMeansSchema ==
  ASSUME ConcurrentFrom >= 3 PROVE Spec => []VersionMeansSchema
<1>1. MInv => VersionMeansSchema
  BY DEF MInv, ColumnsOfVersion, VersionMeansSchema
<1> QED
  BY <1>1, MAlways, PTL

(* No other process takes a column from one that has the database open.    *)
THEOREM MigrationOpenMeansUsable ==
  ASSUME ConcurrentFrom >= 3 PROVE Spec => []OpenMeansUsable
<1>1. MInv => OpenMeansUsable
  BY DEF MInv, PassedIsThere, OpenMeansUsable
<1> QED
  BY <1>1, MAlways, PTL

(* A step of one process changes what is stored only by adding to it.      *)
LEMMA StepKeepsStored ==
  ASSUME MInv, [Next]_vars
  PROVE  db.documents \subseteq db'.documents /\ db.texts \subseteq db'.texts
<1>0. db \in DatabaseType /\ Consistent(db)
  BY DEF MInv, TypeOK
<1>1. ASSUME NEW p \in Processes, InitialSchema(p)
      PROVE  db'.documents = db.documents /\ db'.texts = db.texts
  BY <1>0, <1>1, CreateTablesAdds DEF InitialSchema, DatabaseType
<1>2. ASSUME NEW p \in Processes, ApplyStep(p)
      PROVE  db'.documents = db.documents /\ db.texts \subseteq db'.texts
  <2>1. step[p] \in Versions /\ db' = Migrated(db, step[p])
    BY <1>2 DEF MInv, TypeOK, ApplyStep
  <2>2. step[p] = 3 => db.texts = {}
    BY <1>2 DEF MInv, RebuildsOnlyBelow3, AloneBelow3, ApplyStep
  <2> QED
    BY <1>0, <2>1, <2>2, MigratedAdds
<1>3. ASSUME NEW p \in Processes,
             Initialize(p) \/ StepDue(p) \/ StepDone(p) \/ Finish(p) \/ Leave(p)
      PROVE  db' = db
  BY <1>3 DEF Initialize, StepDue, StepDone, Finish, Leave
<1>4. CASE UNCHANGED vars
  BY <1>4 DEF vars
<1> QED
  BY <1>1, <1>2, <1>3, <1>4, StoreDocumentInv DEF Next

(* No migration loses a document or a text, wherever it is interrupted and *)
(* whatever the other processes do.                                        *)
THEOREM MigrationStoredSurvives ==
  ASSUME ConcurrentFrom >= 3 PROVE Spec => StoredSurvives
<1>1. MInv /\ [Next]_vars =>
        [/\ db.documents \subseteq db'.documents
         /\ db.texts \subseteq db'.texts]_vars
  BY StepKeepsStored
<1> QED
  BY <1>1, MAlways, PTL DEF Spec, StoredSurvives

-----------------------------------------------------------------------------
(* What keeps a later build's database as it is needs no assumption about  *)
(* who runs when: it has the first tables, nobody applies a step to it or  *)
(* has it open, and whoever has read its version did not read 0.           *)
SchemaTypes ==
  /\ db \in DatabaseType
  /\ pc \in [Processes -> {"closed", "initial", "test", "apply", "final", "open"}]
  /\ step \in [Processes -> Versions]
  /\ seen \in [Processes -> Nat]

NewerIsSeen ==
  db.version > currentSchemaVersion =>
    /\ "tables" \in db.columns
    /\ \A p \in Processes :
         /\ pc[p] \notin {"apply", "open"}
         /\ pc[p] = "initial" => seen[p] # 0

NewerInv == SchemaTypes /\ NewerIsSeen

LEMMA NewerInit == ASSUME Init PROVE NewerInv
<1> USE SchemaAssumption
<1>1. SchemaTypes
  BY DEF Init, SchemaTypes, Versions, initialSchemaVersion, currentSchemaVersion
<1>2. ASSUME db.version > currentSchemaVersion PROVE "tables" \in db.columns
  <2>1. db.version \in Int /\ db.version >= 7
    BY <1>1, <1>2 DEF SchemaTypes, DatabaseType, currentSchemaVersion
  <2>2. Required(db.version) \subseteq db.columns
    BY DEF Init
  <2> QED
    BY <2>1, <2>2, RequiredAll DEF Columns
<1>3. NewerIsSeen
  BY <1>2 DEF Init, NewerIsSeen
<1> QED
  BY <1>1, <1>3 DEF NewerInv

LEMMA GoOnTypes ==
  ASSUME SchemaTypes, NEW p \in Processes, GoOn(p)
  PROVE  /\ pc' \in [Processes -> {"closed", "initial", "test", "apply", "final", "open"}]
         /\ step' \in [Processes -> Versions]
         /\ \A q \in Processes : q # p => pc'[q] = pc[q]
         /\ pc'[p] \in {"test", "final"}
  BY DEF SchemaTypes, GoOn, Versions, initialSchemaVersion, currentSchemaVersion

(* No step takes a database to a later build's version, and none changes   *)
(* one that has it.                                                        *)
LEMMA NewerStep ==
  ASSUME NewerInv, [Next]_vars
  PROVE  /\ NewerInv'
         /\ db.version > currentSchemaVersion => UNCHANGED db
<1>0. /\ SchemaTypes /\ NewerIsSeen /\ db \in DatabaseType
      /\ db.version \in Nat /\ currentSchemaVersion = 7
  BY DEF NewerInv, SchemaTypes, DatabaseType, currentSchemaVersion
<1>1. ASSUME NEW p \in Processes, Initialize(p)
      PROVE  NewerInv' /\ UNCHANGED db
  BY <1>0, <1>1 DEF NewerInv, SchemaTypes, NewerIsSeen, Initialize
<1>2. ASSUME NEW p \in Processes, InitialSchema(p)
      PROVE  NewerInv' /\ (db.version > currentSchemaVersion => UNCHANGED db)
  <2>1. db' = [CreateTables(db) EXCEPT !.version = FirstVersion(p, @)]
    BY <1>2 DEF InitialSchema
  <2>2. FirstVersion(p, db.version) \in Nat
    BY <1>0 DEF FirstVersion, initialSchemaVersion
  <2>3. db' \in DatabaseType /\ db'.version = FirstVersion(p, db.version)
    BY <1>0, <2>1, <2>2, CreateTablesAdds DEF DatabaseType
  <2>4. pc' = [pc EXCEPT ![p] = "test"] /\ step' = [step EXCEPT ![p] = 2] /\ seen' = seen
    BY <1>2 DEF InitialSchema
  <2>5. SchemaTypes'
    BY <1>0, <2>3, <2>4 DEF SchemaTypes, Versions, initialSchemaVersion
  <2>6. ASSUME db.version > currentSchemaVersion PROVE db' = db
    <3>1. FirstVersion(p, db.version) = db.version /\ CreateTables(db) = db
      BY <1>0, <1>2, <2>6 DEF NewerIsSeen, InitialSchema, FirstVersion, CreateTables
    <3> QED
      BY <1>0, <2>1, <3>1 DEF DatabaseType
  <2>7. ASSUME db'.version > currentSchemaVersion PROVE db.version > currentSchemaVersion
    BY <1>0, <2>3, <2>7 DEF FirstVersion, initialSchemaVersion
  <2>8. NewerIsSeen'
    BY <1>0, <2>4, <2>6, <2>7 DEF NewerIsSeen, SchemaTypes, currentSchemaVersion
  <2> QED
    BY <2>5, <2>6, <2>8 DEF NewerInv
<1>3. ASSUME NEW p \in Processes, StepDue(p)
      PROVE  NewerInv' /\ UNCHANGED db
  <2>1. db.version <= 7
    BY <1>0, <1>3 DEF StepDue, Due, SchemaTypes, Versions, initialSchemaVersion
  <2> QED
    BY <1>0, <1>3, <2>1 DEF NewerInv, SchemaTypes, NewerIsSeen, StepDue
<1>4. ASSUME NEW p \in Processes, StepDone(p)
      PROVE  NewerInv' /\ UNCHANGED db
  <2>1. db' = db /\ seen' = seen /\ GoOn(p)
    BY <1>4 DEF StepDone
  <2> QED
    BY <1>0, <2>1, GoOnTypes DEF NewerInv, SchemaTypes, NewerIsSeen
<1>5. ASSUME NEW p \in Processes, ApplyStep(p)
      PROVE  NewerInv' /\ db.version <= currentSchemaVersion
  <2>1. /\ db' = Migrated(db, step[p]) /\ seen' = seen /\ GoOn(p)
        /\ step[p] \in Versions /\ pc[p] = "apply"
    BY <1>0, <1>5 DEF ApplyStep, SchemaTypes
  <2>2. db' \in DatabaseType /\ db'.version <= 7
    <3>0. step[p] \in Nat /\ step[p] <= 7 /\ Adds[step[p]] \subseteq Columns
      BY <2>1, AddsColumns DEF Versions, initialSchemaVersion, currentSchemaVersion
    <3>1. CASE step[p] # 3
      BY <1>0, <2>1, <3>0, <3>1 DEF Migrated, AddMissing, DatabaseType
    <3>2. CASE step[p] = 3
      <4>1. {Copied(document) : document \in db.documents} = db.documents
        BY DEF Copied
      <4> QED
        BY <1>0, <2>1, <3>0, <3>2, <4>1
           DEF Migrated, ApplyContentHashIdentity, Rebuilt, DatabaseType
    <3> QED
      BY <3>1, <3>2
  <2>3. db.version <= currentSchemaVersion
    BY <1>0, <2>1 DEF NewerIsSeen
  <2>4. NewerIsSeen'
    BY <1>0, <2>2 DEF NewerIsSeen, DatabaseType, currentSchemaVersion
  <2>5. SchemaTypes'
    BY <1>0, <2>1, <2>2, GoOnTypes DEF SchemaTypes
  <2> QED
    BY <2>3, <2>4, <2>5 DEF NewerInv
<1>6. ASSUME NEW p \in Processes, Finish(p)
      PROVE  NewerInv' /\ UNCHANGED db
  BY <1>0, <1>6 DEF NewerInv, SchemaTypes, NewerIsSeen, Finish, Supported
<1>7. ASSUME NEW p \in Processes, Leave(p)
      PROVE  NewerInv' /\ UNCHANGED db
  BY <1>0, <1>7 DEF NewerInv, SchemaTypes, NewerIsSeen, Leave
<1>8. ASSUME NEW p \in Processes, NEW path \in Paths, NEW hash \in Hashes,
             StoreDocument(p, path, hash)
      PROVE  NewerInv' /\ db.version <= currentSchemaVersion
  <2> DEFINE document == [hash |-> hash, algorithm |-> sha256]
  <2>1. document \in Documents
    BY DEF Documents, sha256
  <2>2. /\ pc[p] = "open" /\ pc' = pc /\ step' = step /\ seen' = seen
        /\ db' = [db EXCEPT !.documents = db.documents \cup {document},
                            !.files[path] = document,
                            !.texts = db.texts \cup {document}]
    BY <1>0, <1>8 DEF StoreDocument
  <2>3. db' \in DatabaseType /\ db'.version = db.version
    BY <1>0, <2>1, <2>2 DEF DatabaseType
  <2>4. db.version <= currentSchemaVersion
    BY <1>0, <2>2 DEF NewerIsSeen
  <2> QED
    BY <1>0, <2>2, <2>3, <2>4 DEF NewerInv, SchemaTypes, NewerIsSeen
<1>9. CASE UNCHANGED vars
  BY <1>0, <1>9 DEF vars, NewerInv, SchemaTypes, NewerIsSeen
<1> QED
  BY <1>0, <1>1, <1>2, <1>3, <1>4, <1>5, <1>6, <1>7, <1>8, <1>9 DEF Next

(* A database that a later build has migrated is left as it is, by every   *)
(* process and even if several of them start at once: no table is created, *)
(* no version is set back, no step applies (initialize, applyMigrations,   *)
(* the test of the final version).                                         *)
THEOREM MigrationNewerIsLeftAlone == Spec => NewerIsLeftAlone
<1>1. Init => NewerInv
  BY NewerInit
<1>2. NewerInv /\ [Next]_vars => NewerInv'
  BY NewerStep
<1>3. NewerInv /\ [Next]_vars =>
        [db.version > currentSchemaVersion => UNCHANGED db]_vars
  BY NewerStep
<1> QED
  BY <1>1, <1>2, <1>3, PTL DEF Spec, NewerIsLeftAlone

-----------------------------------------------------------------------------
(* The logs: deleting what the limit does not admit, after every insertion,*)
(* leaves what a single deletion at the end would leave.                   *)
Rows == [id : Nat, at : Nat]

NewerThan(rows, row) == {other \in rows : Newer(other, row)}

LEMMA NewerOrders ==
  ASSUME NEW a \in Rows, NEW b \in Rows, NEW c \in Rows
  PROVE  /\ ~Newer(a, a)
         /\ Newer(a, b) /\ Newer(b, c) => Newer(a, c)
  BY DEF Rows, Newer

(* The rows in front of a newest row are newest rows, so it has the same   *)
(* rows in front of it whether the others are there or not.                *)
LEMMA NewestAreInFront ==
  ASSUME NEW S \in SUBSET Rows, IsFiniteSet(S), NEW limit \in Nat,
         NEW row \in NewestRows(S, limit)
  PROVE  NewerThan(NewestRows(S, limit), row) = NewerThan(S, row)
<1> SUFFICES ASSUME NEW other \in S, Newer(other, row)
             PROVE  other \in NewestRows(S, limit)
  BY DEF NewerThan, NewestRows
<1>1. NewerThan(S, other) \subseteq NewerThan(S, row)
  <2> SUFFICES ASSUME NEW c \in S, Newer(c, other) PROVE Newer(c, row)
    BY DEF NewerThan
  <2> QED
    BY NewerOrders DEF NewestRows
<1>2. IsFiniteSet(NewerThan(S, row)) /\ Cardinality(NewerThan(S, row)) < limit
  BY FS_Subset DEF NewerThan, NewestRows
<1>3. /\ Cardinality(NewerThan(S, other)) <= Cardinality(NewerThan(S, row))
      /\ Cardinality(NewerThan(S, row)) \in Nat /\ Cardinality(NewerThan(S, other)) \in Nat
  BY <1>1, <1>2, FS_Subset, FS_CardinalityType
<1>4. Cardinality(NewerThan(S, other)) < limit
  BY <1>2, <1>3
<1> QED
  BY <1>4 DEF NewerThan, NewestRows

(* A shorter list of newest rows can be read from a longer one.            *)
LEMMA NewestOfNewest ==
  ASSUME NEW S \in SUBSET Rows, IsFiniteSet(S), NEW limit \in Nat, NEW fewer \in 0..limit
  PROVE  NewestRows(NewestRows(S, limit), fewer) = NewestRows(S, fewer)
<1> DEFINE K == NewestRows(S, limit)
<1>1. ASSUME NEW row \in K PROVE NewerThan(K, row) = NewerThan(S, row)
  BY NewestAreInFront
<1>2. NewestRows(S, fewer) \subseteq K
  <2> SUFFICES ASSUME NEW row \in S, Cardinality(NewerThan(S, row)) < fewer
               PROVE  Cardinality(NewerThan(S, row)) < limit
    BY DEF NewestRows, NewerThan
  <2>1. Cardinality(NewerThan(S, row)) \in Nat
    BY FS_Subset, FS_CardinalityType DEF NewerThan
  <2> QED
    BY <2>1
<1>3. K \subseteq S
  BY DEF NewestRows
<1>4. \A row : row \in NewestRows(K, fewer) <=>
                 row \in K /\ Cardinality(NewerThan(K, row)) < fewer
  BY DEF NewestRows, NewerThan
<1>5. \A row : row \in NewestRows(S, fewer) <=>
                 row \in S /\ Cardinality(NewerThan(S, row)) < fewer
  BY DEF NewestRows, NewerThan
<1> HIDE DEF K
<1> QED
  BY <1>1, <1>2, <1>3, <1>4, <1>5 DEF K

(* If a row that was deleted is newer than one to be inserted, there are   *)
(* as many newest rows as the limit admits, and all of them are newer.     *)
LEMMA DeletedMeansFull ==
  ASSUME NEW S \in SUBSET Rows, IsFiniteSet(S), NEW limit \in Nat, NEW row \in Rows,
         NEW deleted \in S \ NewestRows(S, limit), Newer(deleted, row)
  PROVE  ~(Cardinality(NewerThan(NewestRows(S, limit), row)) < limit)
<1> DEFINE K == NewestRows(S, limit)
           Place(r) == Cardinality(NewerThan(S, r))
           D == {r \in S \ K : Newer(r, row)}
           Places == {Place(r) : r \in D}
<1>0. ASSUME NEW r \in Rows PROVE IsFiniteSet(NewerThan(S, r)) /\ Place(r) \in Nat
  BY FS_Subset, FS_CardinalityType DEF NewerThan
<1>1. Places \in SUBSET Nat /\ Places # {}
  BY <1>0
<1>2. PICK least \in Places : \A n \in Places : <<n, least>> \notin OpToRel(<, Nat)
  BY <1>1, NatLessThanWellFounded, WFMin
<1>3. PICK first \in D : least = Place(first)
  OBVIOUS
<1>4. ASSUME NEW other \in S, Newer(other, first) PROVE other \in NewerThan(K, row)
  <2>1. Newer(other, row)
    BY <1>4, NewerOrders
  <2>2. Place(other) < Place(first)
    <3>1. NewerThan(S, other) \subseteq NewerThan(S, first)
      <4> SUFFICES ASSUME NEW c \in S, Newer(c, other) PROVE Newer(c, first)
        BY DEF NewerThan
      <4> QED
        BY <1>4, NewerOrders
    <3>2. other \in NewerThan(S, first) /\ other \notin NewerThan(S, other)
      BY <1>4, NewerOrders DEF NewerThan
    <3> QED
      BY <1>0, <3>1, <3>2, FS_Subset
  <2>3. other \in K
    <3> SUFFICES ASSUME other \notin K PROVE FALSE
      OBVIOUS
    <3>1. Place(other) \in Places
      BY <2>1
    <3> QED
      BY <1>1, <1>2, <1>3, <2>2, <3>1 DEF OpToRel
  <2> QED
    BY <2>1, <2>3 DEF NewerThan
<1>5. NewerThan(S, first) \subseteq NewerThan(K, row)
  BY <1>4 DEF NewerThan
<1>6. ~(Place(first) < limit)
  BY DEF NewestRows, NewerThan
<1>7. IsFiniteSet(NewerThan(K, row))
  BY FS_Subset DEF NewerThan, NewestRows
<1>8. /\ Place(first) <= Cardinality(NewerThan(K, row))
      /\ Place(first) \in Nat /\ Cardinality(NewerThan(K, row)) \in Nat
  BY <1>5, <1>7, FS_Subset, FS_CardinalityType
<1> HIDE DEF K, Place
<1>9. ~(Cardinality(NewerThan(K, row)) < limit)
  BY <1>6, <1>8
<1> QED
  BY <1>9 DEF K

LEMMA RetentionIsExact ==
  ASSUME NEW S \in SUBSET Rows, IsFiniteSet(S), NEW limit \in Nat, NEW row \in Rows
  PROVE  NewestRows(NewestRows(S, limit) \cup {row}, limit) = NewestRows(S \cup {row}, limit)
<1> DEFINE K == NewestRows(S, limit)
           T == S \cup {row}
<1>0. K \subseteq S /\ IsFiniteSet(K) /\ IsFiniteSet(T) /\ IsFiniteSet(K \cup {row})
  BY FS_Subset, FS_AddElement DEF NewestRows
<1>1. \A r : r \in K <=> r \in S /\ Cardinality(NewerThan(S, r)) < limit
  BY DEF NewestRows, NewerThan
<1>2. \A r : r \in NewestRows(K \cup {row}, limit) <=>
               r \in K \cup {row} /\ Cardinality(NewerThan(K \cup {row}, r)) < limit
  BY DEF NewestRows, NewerThan
<1>3. \A r : r \in NewestRows(T, limit) <=> r \in T /\ Cardinality(NewerThan(T, r)) < limit
  BY DEF NewestRows, NewerThan
<1>4. ASSUME NEW r \in Rows
      PROVE  /\ IsFiniteSet(NewerThan(S, r)) /\ IsFiniteSet(NewerThan(T, r))
             /\ IsFiniteSet(NewerThan(K \cup {row}, r))
             /\ NewerThan(S, r) \subseteq NewerThan(T, r)
             /\ NewerThan(K \cup {row}, r) \subseteq NewerThan(T, r)
  BY <1>0, FS_Subset DEF NewerThan
<1>5. ASSUME NEW r \in NewestRows(T, limit) PROVE r \in NewestRows(K \cup {row}, limit)
  <2>1. r \in T /\ r \in Rows /\ Cardinality(NewerThan(T, r)) < limit
    BY <1>3
  <2>2. /\ Cardinality(NewerThan(S, r)) <= Cardinality(NewerThan(T, r))
        /\ Cardinality(NewerThan(K \cup {row}, r)) <= Cardinality(NewerThan(T, r))
        /\ Cardinality(NewerThan(S, r)) \in Nat
        /\ Cardinality(NewerThan(T, r)) \in Nat
        /\ Cardinality(NewerThan(K \cup {row}, r)) \in Nat
    BY <1>4, <2>1, FS_Subset, FS_CardinalityType
  <2>3. Cardinality(NewerThan(S, r)) < limit /\ Cardinality(NewerThan(K \cup {row}, r)) < limit
    BY <2>1, <2>2
  <2> QED
    BY <1>1, <1>2, <2>1, <2>3
<1>6. ASSUME NEW r \in NewestRows(K \cup {row}, limit) PROVE r \in NewestRows(T, limit)
  <2>0. r \in K \cup {row} /\ r \in Rows /\ Cardinality(NewerThan(K \cup {row}, r)) < limit
    BY <1>0, <1>2
  <2>1. NewerThan(S, r) \subseteq K
    <3>1. CASE r \in K
      BY <3>1, NewestAreInFront DEF NewerThan
    <3>2. CASE r = row
      <4> SUFFICES ASSUME NEW deleted \in S \ K, Newer(deleted, row) PROVE FALSE
        BY <3>2 DEF NewerThan
      <4>1. ~(Cardinality(NewerThan(K, row)) < limit)
        BY DeletedMeansFull
      <4>2. NewerThan(K, row) \subseteq NewerThan(K \cup {row}, row)
        BY DEF NewerThan
      <4>3. /\ Cardinality(NewerThan(K, row)) <= Cardinality(NewerThan(K \cup {row}, row))
            /\ Cardinality(NewerThan(K, row)) \in Nat
            /\ Cardinality(NewerThan(K \cup {row}, row)) \in Nat
        BY <1>4, <4>2, FS_Subset, FS_CardinalityType
      <4> HIDE DEF K
      <4> QED
        BY <2>0, <3>2, <4>1, <4>3
    <3> QED
      BY <2>0, <3>1, <3>2
  <2>2. NewerThan(T, r) = NewerThan(K \cup {row}, r)
    BY <1>0, <2>1 DEF NewerThan
  <2> QED
    BY <1>0, <1>3, <2>0, <2>2
<1> QED
  BY <1>5, <1>6

LogTypes ==
  /\ clock \in Nat
  /\ head \in [Roots -> Heads]
  /\ worktrees \in [Roots -> Heads \cup {NoHead}]
  /\ indexed \in [Roots -> Heads \cup {NoHead}]
  /\ generations \subseteq [id : Nat, at : Nat, root : Roots, head : Heads]
  /\ logged \in [Logs -> SUBSET Rows]
  /\ recorded \in [Logs -> SUBSET Rows]
  /\ lastId \in [Logs \cup {"generations"} -> Nat]
  /\ updater \in [Updaters ->
       [phase : {"idle", "rows", "collecting", "publishing"}, root : Roots \cup {NoHead},
        head : Heads \cup {NoHead}, found : Heads \cup {NoHead}, created : Nat]]
  /\ report \in [state : {"none", "missing", "fresh", "stale"}, root : Roots \cup {NoHead}]

RetentionKept ==
  \A l \in Logs :
    /\ IsFiniteSet(recorded[l])
    /\ logged[l] = NewestRows(recorded[l], RetentionLimit)

GenerationsNumbered == \A g \in generations : g.id <= lastId["generations"]

(* An update that is past the row of its worktree has left one there.      *)
UpdateKnown(u, rows) ==
  /\ u.phase # "idle" => u.root \in Roots /\ u.head \in Heads
  /\ u.phase = "publishing" => u.found \in Heads
  /\ u.phase \in {"collecting", "publishing"} => rows[u.root] # NoHead

UpdatesKnown == \A p \in Updaters : UpdateKnown(updater[p], worktrees)

IndexedIsPublished ==
  \A r \in Roots :
    /\ indexed[r] # NoHead => worktrees[r] # NoHead
    /\ Generations(r) = {} => indexed[r] = NoHead

(* Updates that followed one another left their generations in the order   *)
(* of the clock, and the last one is what the files are of.                *)
LastIsIndexed(r) ==
  \E g \in Generations(r) :
    /\ g.head = indexed[r]
    /\ \A other \in Generations(r) \ {g} : other.id < g.id /\ other.at <= g.at

UpdatesFollow == \A r \in Roots \ overtaken : Generations(r) = {} \/ LastIsIndexed(r)

ReportIsOfNow ==
  report.state # "none" => report.root \in Roots /\ report.state = staleness(report.root)

IndexedInv ==
  /\ LogTypes /\ GenerationsNumbered /\ UpdatesKnown /\ IndexedIsPublished /\ UpdatesFollow
  /\ ReportIsOfNow

LEMMA LogsInit == ASSUME LogInit PROVE RetentionKept /\ IndexedInv
<1> USE LogAssumption
<1>1. LogTypes
  BY DEF LogInit, LogTypes, Resting, NoReport
<1>2. RetentionKept
  <2>1. NewestRows({}, RetentionLimit) = {}
    BY DEF NewestRows
  <2> QED
    BY <2>1, FS_EmptySet DEF LogInit, RetentionKept
<1>3. GenerationsNumbered /\ IndexedIsPublished /\ UpdatesFollow /\ ReportIsOfNow
  BY DEF LogInit, GenerationsNumbered, IndexedIsPublished, UpdatesFollow, ReportIsOfNow,
     NoReport, Generations
<1>4. UpdatesKnown
  BY DEF LogInit, UpdatesKnown, UpdateKnown, Resting
<1> QED
  BY <1>1, <1>2, <1>3, <1>4 DEF IndexedInv

(* Every insertion is followed by its deletion in one transaction.         *)
LEMMA RetentionStep ==
  ASSUME LogTypes, RetentionKept, [LogNext]_logVars
  PROVE  RetentionKept'
<1> USE LogAssumption
<1>1. ASSUME NEW l \in Logs, Record(l) PROVE RetentionKept'
  <2> DEFINE row == [id |-> lastId[l] + 1, at |-> clock]
  <2>1. row \in Rows
    BY DEF LogTypes, Rows
  <2>2. /\ logged' = [logged EXCEPT ![l] = NewestRows(logged[l] \cup {row}, RetentionLimit)]
        /\ recorded' = [recorded EXCEPT ![l] = recorded[l] \cup {row}]
    BY <1>1 DEF Record, deleteRowsBeyondRetention
  <2> HIDE DEF row
  <2>3. PICK x : x = row
    OBVIOUS
  <2> SUFFICES ASSUME NEW k \in Logs
               PROVE  /\ IsFiniteSet(recorded'[k])
                      /\ logged'[k] = NewestRows(recorded'[k], RetentionLimit)
    BY DEF RetentionKept
  <2>4. CASE k # l
    BY <2>2, <2>4 DEF RetentionKept, LogTypes
  <2>5. CASE k = l
    <3>1. /\ recorded[l] \in SUBSET Rows /\ IsFiniteSet(recorded[l])
          /\ logged[l] = NewestRows(recorded[l], RetentionLimit)
      BY DEF RetentionKept, LogTypes
    <3>2. NewestRows(logged[l] \cup {row}, RetentionLimit)
            = NewestRows(recorded[l] \cup {row}, RetentionLimit)
      BY <2>1, <3>1, RetentionIsExact
    <3>3. /\ logged'[l] = NewestRows(logged[l] \cup {row}, RetentionLimit)
          /\ recorded'[l] = recorded[l] \cup {row}
      BY <2>2 DEF LogTypes
    <3>4. IsFiniteSet(recorded[l] \cup {row})
      BY <3>1, FS_AddElement
    <3> QED
      BY <2>5, <3>2, <3>3, <3>4
  <2> QED
    BY <2>4, <2>5
<1>2. ASSUME logged' = logged, recorded' = recorded PROVE RetentionKept'
  BY <1>2 DEF RetentionKept
<1>3. CASE UNCHANGED logVars
  BY <1>2, <1>3 DEF logVars
<1> QED
  BY <1>1, <1>2, <1>3 DEF LogNext, readWorktree, upsertWorktree, Collect, Publish, UpdaterDies,
     Rebuild, Report, SetClock, MoveHead, Quietly

-----------------------------------------------------------------------------
(* The newest generation by the clock is the last one published, where     *)
(* updates followed one another.                                           *)
LEMMA LatestIsIndexed ==
  ASSUME LogTypes, UpdatesFollow, NEW r \in Roots \ overtaken, Generations(r) # {}
  PROVE  Latest(r).head = indexed[r]
<1>1. PICK g \in Generations(r) :
        /\ g.head = indexed[r]
        /\ \A other \in Generations(r) \ {g} : other.id < g.id /\ other.at <= g.at
  BY DEF UpdatesFollow, LastIsIndexed
<1>2. \A other \in Generations(r) : other.id \in Nat /\ other.at \in Nat
  BY DEF LogTypes, Generations
<1>3. \A other \in Generations(r) \ {g} : Newer(g, other) /\ ~Newer(other, g)
  BY <1>1, <1>2 DEF Newer
<1>4. /\ Latest(r) \in Generations(r)
      /\ \A other \in Generations(r) \ {Latest(r)} : Newer(Latest(r), other)
  BY <1>3 DEF Latest
<1>5. Latest(r) = g
  BY <1>3, <1>4
<1> QED
  BY <1>1, <1>5

(* A step that leaves the catalog and HEAD alone.                          *)
LEMMA SameCatalog ==
  ASSUME IndexedInv, UNCHANGED <<worktrees, indexed, generations>>,
         overtaken \subseteq overtaken', lastId'["generations"] >= lastId["generations"],
         LogTypes', UpdatesKnown',
         ReportIsOfNow'
  PROVE  IndexedInv'
<1>1. \A r : Generations(r)' = Generations(r)
  BY DEF Generations
<1>2. IndexedIsPublished'
  BY <1>1 DEF IndexedInv, IndexedIsPublished
<1>3. GenerationsNumbered'
  <2>1. /\ lastId'["generations"] \in Nat /\ lastId["generations"] \in Nat
        /\ \A g \in generations : g.id \in Nat
    BY DEF IndexedInv, LogTypes
  <2> QED
    BY <2>1 DEF IndexedInv, GenerationsNumbered
<1>4. UpdatesFollow'
  BY <1>1 DEF IndexedInv, UpdatesFollow, LastIsIndexed
<1> QED
  BY <1>2, <1>3, <1>4 DEF IndexedInv

LEMMA NoReportIsOfNow == ASSUME report' = NoReport PROVE ReportIsOfNow'
  BY DEF ReportIsOfNow, NoReport

LEMMA RecordIndexed ==
  ASSUME IndexedInv, NEW l \in Logs, Record(l) PROVE IndexedInv'
<1> DEFINE row == [id |-> lastId[l] + 1, at |-> clock]
<1>0. row \in Rows /\ lastId[l] \in Nat /\ row.id = lastId[l] + 1
  BY DEF IndexedInv, LogTypes, Rows
<1>1. /\ logged' = [logged EXCEPT ![l] = NewestRows(logged[l] \cup {row}, RetentionLimit)]
      /\ recorded' = [recorded EXCEPT ![l] = recorded[l] \cup {row}]
      /\ lastId' = [lastId EXCEPT ![l] = row.id]
      /\ report' = NoReport
      /\ UNCHANGED <<clock, head, worktrees, indexed, generations, updater, overtaken>>
  BY DEF Record, deleteRowsBeyondRetention
<1>2. NewestRows(logged[l] \cup {row}, RetentionLimit) \subseteq logged[l] \cup {row}
  BY DEF NewestRows
<1> HIDE DEF row
<1>3. LogTypes'
  <2>1. logged' \in [Logs -> SUBSET Rows] /\ recorded' \in [Logs -> SUBSET Rows]
    BY <1>0, <1>1, <1>2 DEF IndexedInv, LogTypes
  <2>2. lastId' \in [Logs \cup {"generations"} -> Nat]
    BY <1>0, <1>1 DEF IndexedInv, LogTypes
  <2> QED
    BY <1>1, <2>1, <2>2 DEF IndexedInv, LogTypes, NoReport
<1>4. UpdatesKnown'
  BY <1>1 DEF IndexedInv, UpdatesKnown, UpdateKnown
<1>5. lastId'["generations"] >= lastId["generations"]
  BY <1>0, <1>1 DEF IndexedInv, LogTypes
<1> QED
  BY <1>1, <1>3, <1>4, <1>5, NoReportIsOfNow, SameCatalog

LEMMA ReadWorktreeIndexed ==
  ASSUME IndexedInv, NEW p \in Updaters, NEW r \in Roots, readWorktree(p, r) PROVE IndexedInv'
<1> DEFINE begun == [Resting EXCEPT !.phase = "rows", !.root = r, !.head = head[r]]
<1>1. /\ updater' = [updater EXCEPT ![p] = begun]
      /\ overtaken \subseteq overtaken' /\ report' = NoReport
      /\ UNCHANGED <<worktrees, indexed, generations, lastId, clock, head, logged, recorded>>
  BY DEF readWorktree, Quietly
<1>2. /\ begun.phase = "rows" /\ begun.root \in Roots /\ begun.head \in Heads
      /\ begun \in [phase : {"idle", "rows", "collecting", "publishing"},
                    root : Roots \cup {NoHead}, head : Heads \cup {NoHead},
                    found : Heads \cup {NoHead}, created : Nat]
  BY DEF Resting, IndexedInv, LogTypes
<1> HIDE DEF begun
<1>3. LogTypes'
  BY <1>1, <1>2 DEF IndexedInv, LogTypes, NoReport
<1>4. UpdatesKnown'
  <2> SUFFICES ASSUME NEW q \in Updaters PROVE UpdateKnown(updater'[q], worktrees')
    BY DEF UpdatesKnown
  <2>1. CASE q = p
    BY <1>1, <1>2, <2>1 DEF IndexedInv, LogTypes, UpdateKnown
  <2>2. CASE q # p
    BY <1>1, <2>2 DEF IndexedInv, LogTypes, UpdatesKnown, UpdateKnown
  <2> QED
    BY <2>1, <2>2
<1> QED
  BY <1>1, <1>3, <1>4, NoReportIsOfNow, SameCatalog DEF IndexedInv, LogTypes

LEMMA UpsertWorktreeIndexed ==
  ASSUME IndexedInv, NEW p \in Updaters, upsertWorktree(p) PROVE IndexedInv'
<1> USE LogAssumption
<1>1. /\ updater[p].phase = "rows"
      /\ worktrees' = [worktrees EXCEPT ![updater[p].root] = updater[p].head]
      /\ updater' = [updater EXCEPT ![p] = [updater[p] EXCEPT !.phase = "collecting"]]
      /\ report' = NoReport
      /\ UNCHANGED <<indexed, generations, lastId, overtaken, clock, head, logged, recorded>>
  BY DEF upsertWorktree, Quietly
<1>2. updater[p].root \in Roots /\ updater[p].head \in Heads
  BY <1>1 DEF IndexedInv, UpdatesKnown, UpdateKnown
<1>3. LogTypes'
  <2>1. worktrees' \in [Roots -> Heads \cup {NoHead}]
    BY <1>1, <1>2 DEF IndexedInv, LogTypes
  <2>2. updater' \in [Updaters ->
          [phase : {"idle", "rows", "collecting", "publishing"}, root : Roots \cup {NoHead},
           head : Heads \cup {NoHead}, found : Heads \cup {NoHead}, created : Nat]]
    BY <1>1 DEF IndexedInv, LogTypes
  <2> QED
    BY <1>1, <2>1, <2>2 DEF IndexedInv, LogTypes, NoReport
<1>4. \A r \in Roots : worktrees[r] # NoHead => worktrees'[r] # NoHead
  BY <1>1, <1>2 DEF IndexedInv, LogTypes
<1>5. worktrees'[updater[p].root] # NoHead
  BY <1>1, <1>2 DEF IndexedInv, LogTypes
<1>6. UpdatesKnown'
  <2> SUFFICES ASSUME NEW q \in Updaters PROVE UpdateKnown(updater'[q], worktrees')
    BY DEF UpdatesKnown
  <2>1. CASE q = p
    <3>1. /\ updater'[p].phase = "collecting" /\ updater'[p].root = updater[p].root
          /\ updater'[p].head = updater[p].head
      BY <1>1 DEF IndexedInv, LogTypes
    <3> QED
      BY <1>2, <1>5, <2>1, <3>1 DEF UpdateKnown
  <2>2. CASE q # p
    <3>1. updater'[q] = updater[q] /\ UpdateKnown(updater[q], worktrees)
      BY <1>1, <2>2 DEF IndexedInv, LogTypes, UpdatesKnown
    <3> QED
      BY <1>4, <3>1 DEF UpdateKnown
  <2> QED
    BY <2>1, <2>2
<1>7. \A r : Generations(r)' = Generations(r)
  BY <1>1 DEF Generations
<1>8. IndexedIsPublished' /\ UpdatesFollow' /\ GenerationsNumbered'
  BY <1>1, <1>4, <1>7 DEF IndexedInv, IndexedIsPublished, UpdatesFollow, LastIsIndexed,
     GenerationsNumbered
<1> QED
  BY <1>1, <1>3, <1>6, <1>8, NoReportIsOfNow DEF IndexedInv

LEMMA CollectIndexed ==
  ASSUME IndexedInv, NEW p \in Updaters, Collect(p) PROVE IndexedInv'
<1> DEFINE u == updater[p]
           found == [u EXCEPT !.phase = "publishing", !.found = head[u.root], !.created = clock]
<1>1. /\ u.phase = "collecting"
      /\ updater' = [updater EXCEPT ![p] = found] \/ updater' = [updater EXCEPT ![p] = Resting]
      /\ report' = NoReport
      /\ UNCHANGED <<worktrees, indexed, generations, lastId, overtaken, clock, head, logged,
                     recorded>>
  BY DEF Collect, Quietly
<1>2. u.root \in Roots /\ u.head \in Heads /\ worktrees[u.root] # NoHead
  BY <1>1 DEF IndexedInv, UpdatesKnown, UpdateKnown
<1>3. /\ found.phase = "publishing" /\ found.root = u.root /\ found.head = u.head
      /\ found.found = head[u.root] /\ found.found \in Heads
      /\ found \in [phase : {"idle", "rows", "collecting", "publishing"},
                    root : Roots \cup {NoHead}, head : Heads \cup {NoHead},
                    found : Heads \cup {NoHead}, created : Nat]
  BY <1>2 DEF IndexedInv, LogTypes
<1>4. \E x : updater' = [updater EXCEPT ![p] = x] /\ (x = found \/ x = Resting)
  BY <1>1
<1> HIDE DEF u, found
<1>5. PICK x : updater' = [updater EXCEPT ![p] = x] /\ (x = found \/ x = Resting)
  BY <1>4
<1>6. /\ x \in [phase : {"idle", "rows", "collecting", "publishing"},
                root : Roots \cup {NoHead}, head : Heads \cup {NoHead},
                found : Heads \cup {NoHead}, created : Nat]
      /\ UpdateKnown(x, worktrees)
  BY <1>2, <1>3, <1>5 DEF Resting, UpdateKnown
<1>7. LogTypes'
  BY <1>1, <1>5, <1>6 DEF IndexedInv, LogTypes, NoReport
<1>8. UpdatesKnown'
  <2> SUFFICES ASSUME NEW q \in Updaters PROVE UpdateKnown(updater'[q], worktrees')
    BY DEF UpdatesKnown
  <2>1. UpdateKnown(updater'[q], worktrees)
    BY <1>5, <1>6 DEF IndexedInv, LogTypes, UpdatesKnown
  <2> QED
    BY <1>1, <2>1 DEF UpdateKnown
<1> QED
  BY <1>1, <1>7, <1>8, NoReportIsOfNow, SameCatalog DEF IndexedInv, LogTypes

LEMMA UpdaterDiesIndexed ==
  ASSUME IndexedInv, NEW p \in Updaters, UpdaterDies(p) PROVE IndexedInv'
<1>1. /\ updater' = [updater EXCEPT ![p] = Resting] /\ report' = NoReport
      /\ UNCHANGED <<worktrees, indexed, generations, lastId, overtaken, clock, head, logged,
                     recorded>>
  BY DEF UpdaterDies, Quietly
<1>2. LogTypes'
  BY <1>1 DEF IndexedInv, LogTypes, NoReport, Resting
<1>3. UpdatesKnown'
  <2> SUFFICES ASSUME NEW q \in Updaters PROVE UpdateKnown(updater'[q], worktrees')
    BY DEF UpdatesKnown
  <2>1. UpdateKnown(updater'[q], worktrees)
    BY <1>1 DEF IndexedInv, LogTypes, UpdatesKnown, UpdateKnown, Resting
  <2> QED
    BY <1>1, <2>1 DEF UpdateKnown
<1> QED
  BY <1>1, <1>2, <1>3, NoReportIsOfNow, SameCatalog DEF IndexedInv, LogTypes

(* A publication is later, by the clock too, than those before it, or its  *)
(* worktree counts as overtaken.                                           *)
LEMMA PublishIndexed ==
  ASSUME IndexedInv, NEW p \in Updaters, Publish(p) PROVE IndexedInv'
<1> USE LogAssumption
<1> DEFINE u == updater[p]
           generation == [id |-> lastId["generations"] + 1, at |-> u.created,
                          root |-> u.root, head |-> u.head]
           late == \/ Overtakes(p, u.root) \/ u.found # u.head
                   \/ \E g \in Generations(u.root) : g.at > u.created
<1>1. /\ u.phase = "publishing"
      /\ generations' = generations \cup {generation}
      /\ lastId' = [lastId EXCEPT !["generations"] = generation.id]
      /\ indexed' = [indexed EXCEPT ![u.root] = u.found]
      /\ overtaken' = IF late THEN overtaken \cup {u.root} ELSE overtaken
      /\ updater' = [updater EXCEPT ![p] = Resting]
      /\ report' = NoReport
      /\ UNCHANGED <<worktrees, clock, head, logged, recorded>>
  BY DEF Publish, Quietly
<1>2. /\ u.root \in Roots /\ u.head \in Heads /\ u.found \in Heads /\ u.created \in Nat
      /\ worktrees[u.root] # NoHead
  BY <1>1 DEF IndexedInv, UpdatesKnown, UpdateKnown, LogTypes
<1>3. /\ lastId["generations"] \in Nat
      /\ generation.id = lastId["generations"] + 1 /\ generation.at = u.created
      /\ generation.root = u.root /\ generation.head = u.head
      /\ generation \in [id : Nat, at : Nat, root : Roots, head : Heads]
  BY <1>2 DEF IndexedInv, LogTypes
<1> HIDE DEF u, generation, late
<1>4. LogTypes'
  <2>1. /\ generations' \subseteq [id : Nat, at : Nat, root : Roots, head : Heads]
        /\ lastId' \in [Logs \cup {"generations"} -> Nat]
        /\ indexed' \in [Roots -> Heads \cup {NoHead}]
    BY <1>1, <1>2, <1>3 DEF IndexedInv, LogTypes
  <2>2. updater' \in [Updaters ->
          [phase : {"idle", "rows", "collecting", "publishing"}, root : Roots \cup {NoHead},
           head : Heads \cup {NoHead}, found : Heads \cup {NoHead}, created : Nat]]
    BY <1>1 DEF IndexedInv, LogTypes, Resting
  <2> QED
    BY <1>1, <2>1, <2>2 DEF IndexedInv, LogTypes, NoReport
<1>5. UpdatesKnown'
  <2> SUFFICES ASSUME NEW q \in Updaters PROVE UpdateKnown(updater'[q], worktrees')
    BY DEF UpdatesKnown
  <2>1. UpdateKnown(updater'[q], worktrees)
    BY <1>1 DEF IndexedInv, LogTypes, UpdatesKnown, UpdateKnown, Resting
  <2> QED
    BY <1>1, <2>1 DEF UpdateKnown
<1>6. GenerationsNumbered'
  <2>1. lastId'["generations"] = lastId["generations"] + 1
    BY <1>1, <1>3 DEF IndexedInv, LogTypes
  <2>2. \A g \in generations : g.id \in Nat /\ g.id <= lastId["generations"]
    BY DEF IndexedInv, LogTypes, GenerationsNumbered
  <2> SUFFICES ASSUME NEW g \in generations' PROVE g.id <= lastId'["generations"]
    BY DEF GenerationsNumbered
  <2> QED
    BY <1>1, <1>3, <2>1, <2>2
<1>7. PICK root \in Roots : root = u.root
  BY <1>2
<1>8. /\ Generations(root)' = Generations(root) \cup {generation}
      /\ \A r \in Roots : r # root => Generations(r)' = Generations(r)
  <2>1. \A r : Generations(r)' = {g \in generations' : g.root = r}
    BY DEF Generations
  <2>2. \A r : Generations(r) = {g \in generations : g.root = r}
    BY DEF Generations
  <2>3. generation.root = root /\ generations' = generations \cup {generation}
    BY <1>1, <1>3, <1>7
  <2> QED
    BY <2>1, <2>2, <2>3
<1>9. /\ indexed'[root] = u.found
      /\ \A r \in Roots : r # root => indexed'[r] = indexed[r]
  BY <1>1, <1>2, <1>7 DEF IndexedInv, LogTypes
<1>10. IndexedIsPublished'
  <2> SUFFICES ASSUME NEW r \in Roots
               PROVE  /\ indexed'[r] # NoHead => worktrees[r] # NoHead
                      /\ Generations(r)' = {} => indexed'[r] = NoHead
    BY <1>1 DEF IndexedIsPublished
  <2>1. CASE r = root
    BY <1>2, <1>7, <1>8, <2>1
  <2>2. CASE r # root
    BY <1>8, <1>9, <2>2 DEF IndexedInv, IndexedIsPublished
  <2> QED
    BY <2>1, <2>2
<1>11. ASSUME root \notin overtaken'
       PROVE  \E g \in Generations(root)' :
                /\ g.head = indexed'[root]
                /\ \A other \in Generations(root)' \ {g} : other.id < g.id /\ other.at <= g.at
  <2>1. ~late
    BY <1>1, <1>7, <1>11
  <2>2. u.found = u.head /\ \A g \in Generations(root) : ~(g.at > u.created)
    BY <1>7, <2>1 DEF late
  <2>3. \A g \in Generations(root) :
          g.id \in Nat /\ g.at \in Nat /\ g.id <= lastId["generations"]
    BY DEF IndexedInv, LogTypes, GenerationsNumbered, Generations
  <2>4. \A g \in Generations(root) : g.id < generation.id /\ g.at <= generation.at
    BY <1>2, <1>3, <2>2, <2>3
  <2>5. generation.head = indexed'[root]
    BY <1>3, <1>9, <2>2
  <2> QED
    BY <1>8, <2>4, <2>5
<1>12. UpdatesFollow'
  <2> SUFFICES ASSUME NEW r \in Roots \ overtaken'
               PROVE  \/ Generations(r)' = {}
                      \/ \E g \in Generations(r)' :
                           /\ g.head = indexed'[r]
                           /\ \A other \in Generations(r)' \ {g} :
                                other.id < g.id /\ other.at <= g.at
    BY DEF UpdatesFollow, LastIsIndexed
  <2>1. CASE r = root
    BY <1>11, <2>1
  <2>2. CASE r # root
    <3>1. r \notin overtaken
      BY <1>1
    <3> QED
      BY <1>8, <1>9, <2>2, <3>1 DEF IndexedInv, UpdatesFollow, LastIsIndexed
  <2> QED
    BY <2>1, <2>2
<1> QED
  BY <1>1, <1>4, <1>5, <1>6, <1>10, <1>12, NoReportIsOfNow DEF IndexedInv

LEMMA RebuildIndexed == ASSUME IndexedInv, Rebuild PROVE IndexedInv'
<1>1. /\ generations' = {} /\ indexed' = [r \in Roots |-> NoHead] /\ report' = NoReport
      /\ UNCHANGED <<clock, head, worktrees, logged, lastId, updater, recorded, overtaken>>
  BY DEF Rebuild
<1>2. LogTypes' /\ UpdatesKnown'
  BY <1>1 DEF IndexedInv, LogTypes, UpdatesKnown, UpdateKnown, NoReport
<1>3. GenerationsNumbered' /\ IndexedIsPublished' /\ UpdatesFollow'
  BY <1>1 DEF GenerationsNumbered, IndexedIsPublished, UpdatesFollow, Generations
<1> QED
  BY <1>1, <1>2, <1>3, NoReportIsOfNow DEF IndexedInv

LEMMA ReportIndexed == ASSUME IndexedInv, NEW r \in Roots, Report(r) PROVE IndexedInv'
<1>1. /\ report' = [state |-> staleness(r), root |-> r]
      /\ UNCHANGED <<clock, head, worktrees, indexed, generations, logged, lastId, updater,
                     recorded, overtaken>>
  BY DEF Report
<1>2. staleness(r) \in {"missing", "fresh", "stale"}
  BY DEF staleness, Verdict
<1>3. LogTypes' /\ UpdatesKnown'
  BY <1>1, <1>2 DEF IndexedInv, LogTypes, UpdatesKnown, UpdateKnown
<1>4. \A s : /\ Generations(s)' = Generations(s) /\ staleness(s)' = staleness(s)
  BY <1>1 DEF Generations, staleness, Verdict, Published, Latest
<1>5. ReportIsOfNow'
  BY <1>1, <1>4 DEF ReportIsOfNow
<1> QED
  BY <1>1, <1>3, <1>5, SameCatalog DEF IndexedInv, LogTypes

LEMMA ClockIndexed == ASSUME IndexedInv, SetClock PROVE IndexedInv'
<1> USE LogAssumption
<1>1. /\ clock' \in Nat /\ report' = NoReport
      /\ UNCHANGED <<head, worktrees, indexed, generations, logged, lastId, updater,
                     recorded, overtaken>>
  BY DEF SetClock, IndexedInv, LogTypes
<1>2. LogTypes' /\ UpdatesKnown'
  BY <1>1 DEF IndexedInv, LogTypes, UpdatesKnown, UpdateKnown, NoReport
<1> QED
  BY <1>1, <1>2, NoReportIsOfNow, SameCatalog DEF IndexedInv, LogTypes

LEMMA HeadIndexed == ASSUME IndexedInv, NEW r \in Roots, MoveHead(r) PROVE IndexedInv'
<1> USE LogAssumption
<1>1. /\ head' \in [Roots -> Heads] /\ report' = NoReport
      /\ UNCHANGED <<clock, worktrees, indexed, generations, logged, lastId, updater,
                     recorded, overtaken>>
  BY DEF MoveHead, IndexedInv, LogTypes
<1>2. LogTypes' /\ UpdatesKnown'
  BY <1>1 DEF IndexedInv, LogTypes, UpdatesKnown, UpdateKnown, NoReport
<1> QED
  BY <1>1, <1>2, NoReportIsOfNow, SameCatalog DEF IndexedInv, LogTypes

LEMMA LogsNext ==
  ASSUME RetentionKept, IndexedInv, [LogNext]_logVars
  PROVE  RetentionKept' /\ IndexedInv'
<1>1. RetentionKept'
  BY RetentionStep DEF IndexedInv
<1>2. CASE LogNext
  <2>1. ASSUME NEW p \in Updaters, NEW r \in Roots, readWorktree(p, r) PROVE IndexedInv'
    BY <2>1, ReadWorktreeIndexed
  <2>2. ASSUME NEW p \in Updaters,
               upsertWorktree(p) \/ Collect(p) \/ Publish(p) \/ UpdaterDies(p)
        PROVE  IndexedInv'
    BY <2>2, UpsertWorktreeIndexed, CollectIndexed, PublishIndexed, UpdaterDiesIndexed
  <2>3. ASSUME NEW l \in Logs, Record(l) PROVE IndexedInv'
    BY <2>3, RecordIndexed
  <2>4. ASSUME NEW r \in Roots, Report(r) PROVE IndexedInv'
    BY <2>4, ReportIndexed
  <2>5. ASSUME NEW r \in Roots, MoveHead(r) PROVE IndexedInv'
    BY <2>5, HeadIndexed
  <2>6. ASSUME SetClock \/ Rebuild PROVE IndexedInv'
    BY <2>6, ClockIndexed, RebuildIndexed
  <2> QED
    BY <1>1, <1>2, <2>1, <2>2, <2>3, <2>4, <2>5, <2>6 DEF LogNext
<1>3. CASE UNCHANGED logVars
  <2>0. UNCHANGED <<worktrees, indexed, generations>> /\ overtaken' = overtaken
    BY <1>3 DEF logVars
  <2>1. LogTypes' /\ UpdatesKnown'
    BY <1>3 DEF logVars, IndexedInv, LogTypes, UpdatesKnown, UpdateKnown
  <2>2. \A r : /\ Generations(r)' = Generations(r) /\ staleness(r)' = staleness(r)
    BY <1>3 DEF logVars, Generations, staleness, Verdict, Published, Latest
  <2>3. ReportIsOfNow'
    BY <1>3, <2>2 DEF logVars, IndexedInv, ReportIsOfNow
  <2>4. lastId'["generations"] >= lastId["generations"]
    BY <1>3 DEF logVars, IndexedInv, LogTypes
  <2> QED
    BY <1>1, <2>0, <2>1, <2>3, <2>4, SameCatalog
<1> QED
  BY <1>1, <1>2, <1>3

LEMMA LogsAlways == LogSpec => [](RetentionKept /\ IndexedInv)
<1>1. LogInit => RetentionKept /\ IndexedInv
  BY LogsInit
<1>2. RetentionKept /\ IndexedInv /\ [LogNext]_logVars => (RetentionKept /\ IndexedInv)'
  BY LogsNext
<1> QED
  BY <1>1, <1>2, PTL DEF LogSpec

(* The search history and the metrics hold the newest rows ever recorded,  *)
(* and any shorter list of recent rows is right as well, for any limit and *)
(* any readings of the clock (recordSearch, recordIndexingMetric,          *)
(* deleteRowsBeyondRetention).                                             *)
THEOREM StorageNewestRowsAreKept == LogSpec => []NewestRowsAreKept
<1>1. RetentionKept /\ IndexedInv => NewestRowsAreKept
  <2> SUFFICES ASSUME RetentionKept, IndexedInv, NEW l \in Logs,
                      NEW limit \in 0..RetentionLimit
               PROVE  NewestRows(logged[l], limit) = NewestRows(recorded[l], limit)
    BY DEF NewestRowsAreKept, RetentionKept
  <2>1. /\ recorded[l] \in SUBSET Rows /\ IsFiniteSet(recorded[l])
        /\ logged[l] = NewestRows(recorded[l], RetentionLimit) /\ RetentionLimit \in Nat
    BY LogAssumption DEF RetentionKept, IndexedInv, LogTypes
  <2> QED
    BY <2>1, NewestOfNewest
<1> QED
  BY <1>1, LogsAlways, PTL

(* A report that calls an index fresh, or missing, is right about the      *)
(* files that a search would see, for any processes, worktrees and         *)
(* commits, as long as the updates of the worktree followed one another    *)
(* (staleness, latestGenerationForRoot, publishGeneration).                *)
THEOREM StorageFreshIndexIsOfThisHead == LogSpec => []FreshIndexIsOfThisHead
<1>1. RetentionKept /\ IndexedInv => FreshIndexIsOfThisHead
  <2> SUFFICES ASSUME IndexedInv, report.state # "none", report.root \notin overtaken
               PROVE  /\ report.state = "fresh"   => indexed[report.root] = head[report.root]
                      /\ report.state = "missing" => indexed[report.root] = NoHead
    BY DEF FreshIndexIsOfThisHead
  <2> DEFINE r == report.root
  <2>1. r \in Roots \ overtaken /\ report.state = staleness(r)
    BY DEF IndexedInv, ReportIsOfNow
  <2>2. CASE ~Published(r)
    <3>1. report.state = "missing"
      BY <2>1, <2>2 DEF staleness, Verdict
    <3>2. indexed[r] = NoHead
      BY <2>1, <2>2 DEF Published, IndexedInv, IndexedIsPublished
    <3> QED
      BY <3>1, <3>2
  <2>3. CASE Published(r)
    <3>1. Latest(r).head = indexed[r]
      BY <2>1, <2>3, LatestIsIndexed DEF IndexedInv, Published
    <3>2. report.state = IF indexed[r] = head[r] THEN "fresh" ELSE "stale"
      BY <2>1, <2>3, <3>1 DEF staleness, Verdict
    <3> QED
      BY <3>2
  <2> QED
    BY <2>2, <2>3
<1> QED
  BY <1>1, LogsAlways, PTL
=============================================================================
