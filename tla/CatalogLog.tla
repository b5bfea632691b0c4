----------------------------- MODULE CatalogLog -----------------------------
(***************************************************************************)
(* The tables of SQLiteStorageService that grow with time and are asked    *)
(* for their newest rows: search_history, indexing_metrics and generations *)
(* (src/core/storage/sqlite-storage-service.cpp), with the index updates   *)
(* that add a generation and the staleness report that reads the latest    *)
(* one (src/core/index/persistent-index-service.cpp).                      *)
(*                                                                         *)
(* Time is what the system clock says, and it may be set back.  An update  *)
(* reads HEAD, upserts the repository and the worktree, collects the files *)
(* and takes the time before it waits for the transaction that publishes;  *)
(* several processes do so with a connection each.                         *)
(***************************************************************************)
EXTENDS Naturals, FiniteSets

CONSTANTS
  Updaters,         \* processes that index
  Roots,            \* worktrees
  Heads,            \* commits
  Logs,             \* the search history and one log per metric name
  Times,            \* readings of the clock
  RetentionLimit,
  MaxLogOperations  \* bound: rows recorded, commits, updates begun

NoHead == "none"

ASSUME LogAssumption ==
  /\ Times \subseteq Nat /\ RetentionLimit \in Nat
  /\ Heads # {} /\ NoHead \notin Heads

VARIABLES
  clock,
  head,          \* HEAD of each worktree
  worktrees,     \* HEAD in the row of each worktree, or NoHead
  indexed,       \* HEAD at the time the visible files of each were collected
  generations,   \* published generations
  logged,        \* rows of search_history and indexing_metrics
  lastId,        \* AUTOINCREMENT of each table: no id is given twice
  updater,       \* what each process is doing
  report,        \* the last staleness report
  logOperations,
  recorded,      \* history: every row ever recorded
  overtaken      \* history: worktrees whose updates did not follow one
                 \* another, by the clock and with HEAD at rest

logVars == <<clock, head, worktrees, indexed, generations, logged, lastId, updater,
             report, logOperations, recorded, overtaken>>

Resting  == [phase |-> "idle", root |-> NoHead, head |-> NoHead,
             found |-> NoHead, created |-> 0]
NoReport == [state |-> "none", root |-> NoHead]

LogInit ==
  /\ clock \in Times /\ \A t \in Times : t <= clock   \* so that it can be set back
  /\ head = [r \in Roots |-> CHOOSE h \in Heads : TRUE]
  /\ worktrees = [r \in Roots |-> NoHead] /\ indexed = [r \in Roots |-> NoHead]
  /\ generations = {} /\ logged = [l \in Logs |-> {}]
  /\ lastId = [table \in Logs \cup {"generations"} |-> 0]
  /\ updater = [p \in Updaters |-> Resting] /\ report = NoReport
  /\ logOperations = 0 /\ recorded = [l \in Logs |-> {}] /\ overtaken = {}

CountOperation == logOperations < MaxLogOperations /\ logOperations' = logOperations + 1

-----------------------------------------------------------------------------
(* ORDER BY time DESC, id DESC. *)
Newer(row, other) == row.at > other.at \/ (row.at = other.at /\ row.id > other.id)

(* The rows that LIMIT leaves of a table in this order.  As the order is   *)
(* total, a list of recent rows is known by the rows that are in it.       *)
NewestRows(rows, limit) ==
  {row \in rows : Cardinality({other \in rows : Newer(other, row)}) < limit}

deleteOldestIds(rows) ==
  {row \in rows : Cardinality({other \in rows : other.id > row.id}) < RetentionLimit}

deleteRowsBeyondRetention(rows) == NewestRows(rows, RetentionLimit)

(* recordSearch and recordIndexingMetric: the insertion and the deletion   *)
(* of what exceeds the limit are one transaction.                          *)
Record(l) ==
  /\ CountOperation
  /\ LET row == [id |-> lastId[l] + 1, at |-> clock] IN
       /\ logged' = [logged EXCEPT ![l] = deleteRowsBeyondRetention(@ \cup {row})]
       /\ lastId' = [lastId EXCEPT ![l] = row.id]
       /\ recorded' = [recorded EXCEPT ![l] = @ \cup {row}]
  /\ report' = NoReport
  /\ UNCHANGED <<clock, head, worktrees, indexed, generations, updater, overtaken>>

-----------------------------------------------------------------------------
(* One index update. *)
Quietly(p) == UNCHANGED <<clock, head, logged, recorded>> /\ report' = NoReport

Overtakes(p, r) == \E q \in Updaters \ {p} : updater[q].phase # "idle" /\ updater[q].root = r

readWorktree(p, r) ==
  /\ updater[p].phase = "idle" /\ CountOperation
  /\ updater' = [updater EXCEPT ![p] = [Resting EXCEPT !.phase = "rows", !.root = r,
                                                       !.head = head[r]]]
  /\ overtaken' = IF Overtakes(p, r) THEN overtaken \cup {r} ELSE overtaken
  /\ UNCHANGED <<worktrees, indexed, generations, lastId>> /\ Quietly(p)

(* upsertRepository does not matter here. *)
upsertWorktree(p) ==
  /\ updater[p].phase = "rows"
  /\ worktrees' = [worktrees EXCEPT ![updater[p].root] = updater[p].head]
  /\ updater' = [updater EXCEPT ![p].phase = "collecting"]
  /\ UNCHANGED <<indexed, generations, lastId, logOperations, overtaken>> /\ Quietly(p)

(* The files are those of the HEAD of now; the update may also be          *)
(* cancelled or run out of its memory budget, and then publishes nothing.  *)
Collect(p) ==
  /\ updater[p].phase = "collecting"
  /\ \/ updater' = [updater EXCEPT ![p] = [@ EXCEPT !.phase = "publishing",
                       !.found = head[updater[p].root], !.created = clock]]
     \/ updater' = [updater EXCEPT ![p] = Resting]
  /\ UNCHANGED <<worktrees, indexed, generations, lastId, logOperations, overtaken>>
  /\ Quietly(p)

Generations(r) == {g \in generations : g.root = r}

(* publishGeneration: one transaction. *)
Publish(p) ==
  /\ updater[p].phase = "publishing"
  /\ LET u == updater[p]
         generation == [id |-> lastId["generations"] + 1, at |-> u.created,
                        root |-> u.root, head |-> u.head]
     IN  /\ generations' = generations \cup {generation}
         /\ lastId' = [lastId EXCEPT !["generations"] = generation.id]
         /\ indexed' = [indexed EXCEPT ![u.root] = u.found]
         /\ overtaken' =
              IF \/ Overtakes(p, u.root) \/ u.found # u.head
                 \/ \E g \in Generations(u.root) : g.at > u.created
              THEN overtaken \cup {u.root} ELSE overtaken
  /\ updater' = [updater EXCEPT ![p] = Resting]
  /\ UNCHANGED <<worktrees, logOperations>> /\ Quietly(p)

(* A process dies; an open transaction is rolled back.                     *)
UpdaterDies(p) ==
  /\ updater[p].phase # "idle"
  /\ updater' = [updater EXCEPT ![p] = Resting]
  /\ UNCHANGED <<worktrees, indexed, generations, lastId, logOperations, overtaken>>
  /\ Quietly(p)

(* rebuildIndexCatalog: the rows of worktrees and repositories stay. *)
Rebuild ==
  /\ CountOperation /\ generations # {}
  /\ generations' = {} /\ indexed' = [r \in Roots |-> NoHead]
  /\ report' = NoReport
  /\ UNCHANGED <<clock, head, worktrees, logged, lastId, updater, recorded, overtaken>>

Published(r) == worktrees[r] # NoHead /\ Generations(r) # {}

Latest(r) == CHOOSE g \in Generations(r) : \A other \in Generations(r) \ {g} : Newer(g, other)

Verdict(r, commit) ==
  IF ~Published(r) THEN "missing" ELSE IF commit = head[r] THEN "fresh" ELSE "stale"

stalenessOfWorktree(r) == Verdict(r, worktrees[r])

(* latestGenerationForRoot, joined with the row of the worktree. *)
staleness(r) == Verdict(r, Latest(r).head)

Report(r) ==
  /\ report' = [state |-> staleness(r), root |-> r]
  /\ UNCHANGED <<clock, head, worktrees, indexed, generations, logged, lastId, updater,
                 logOperations, recorded, overtaken>>

-----------------------------------------------------------------------------
(* Outside the program. *)
SetClock ==
  /\ CountOperation /\ clock' \in Times \ {clock} /\ report' = NoReport
  /\ UNCHANGED <<head, worktrees, indexed, generations, logged, lastId, updater,
                 recorded, overtaken>>

MoveHead(r) ==
  /\ CountOperation /\ \E h \in Heads \ {head[r]} : head' = [head EXCEPT ![r] = h]
  /\ report' = NoReport
  /\ UNCHANGED <<clock, worktrees, indexed, generations, logged, lastId, updater,
                 recorded, overtaken>>

LogNext ==
  \/ \E l \in Logs : Record(l)
  \/ \E p \in Updaters : \/ \E r \in Roots : readWorktree(p, r)
                         \/ upsertWorktree(p) \/ Collect(p) \/ Publish(p) \/ UpdaterDies(p)
  \/ \E r \in Roots : Report(r) \/ MoveHead(r)
  \/ Rebuild \/ SetClock

LogSpec == LogInit /\ [][LogNext]_logVars

-----------------------------------------------------------------------------
(* The search history and every metric hold exactly the newest rows ever   *)
(* recorded, and any list of recent rows, up to the limit, is what it      *)
(* would be if nothing had been deleted, also when the clock steps back    *)
(* between two of them.                                                    *)
NewestRowsAreKept ==
  \A l \in Logs :
    /\ logged[l] = NewestRows(recorded[l], RetentionLimit)
    /\ \A limit \in 0..RetentionLimit :
         NewestRows(logged[l], limit) = NewestRows(recorded[l], limit)

(* "fresh" is true: the files that a search of the index sees were those   *)
(* of the current HEAD, unless updates of the worktree overlapped, the     *)
(* clock was set back between two of them or HEAD moved during one.        *)
FreshIndexIsOfThisHead ==
  report.state # "none" /\ report.root \notin overtaken =>
    /\ report.state = "fresh"   => indexed[report.root] = head[report.root]
    /\ report.state = "missing" => indexed[report.root] = NoHead
=============================================================================
