------------------------- MODULE DirectSearchProofs -------------------------
(***************************************************************************)
(* For any number of workers, files, limits and queue sizes, the engine    *)
(* implements SequentialSearch: what it delivers, and how the call ends,   *)
(* is what a search of one file after the other would have given.  The     *)
(* calling thread never waits in submit() while the search goes on, the    *)
(* memory of the accepted results stays within the budget, and once the    *)
(* caller has cancelled, no more is delivered than what was held back for  *)
(* context lines at that moment and the rest of one chunk of one file, or  *)
(* the one event a worker had in its hands.                                *)
(*                                                                         *)
(* The reason for all of it is the order: files are submitted, taken and   *)
(* published in the order of the scanner, a file is published to its end   *)
(* only after a worker has taken it, and so the files no worker has taken  *)
(* are among the files in flight, of which there are at most               *)
(* maximumInFlightTasks, the capacity of the pool's task queue.            *)
(***************************************************************************)
EXTENDS DirectSearch, TLAPS, FiniteSetTheorems

Publishing == pc \in {"publish", "pop"}

CurrentMeansPublishing ==
  /\ Publishing => current \in FileIds
  /\ pc \in {"scan", "submit", "ahead", "sync", "flush", "drain"} => current = None

(* The scanner is inside its callback: nextFile is a file.  A synchronous  *)
(* search offers what it found, and without context lines at once.         *)
InFile == pc \in {"sync", "flush"}

InCallback ==
  /\ pc \in {"submit", "ahead"} \/ InFile \/ (Publishing /\ resume = "ahead") =>
       nextFile \in FileIds
  /\ InFile => taken <= at /\ at <= Len(files[nextFile].results)
  /\ ~HoldsBack => /\ pc = "sync" => at <= taken + 1
                   /\ pc = "flush" => at = taken

Busy(w) == worker[w].state \in {"searching", "closing"}
BusyWorkersHaveFiles == \A w \in Workers : Busy(w) => worker[w].file \in FileIds

FewInFlight ==
  /\ Len(tasks) <= MaximumInFlight
  /\ pc # "submit" => Len(tasks) < MaximumInFlight
  /\ pc = "submit" => tasks # <<>>
  /\ InFile => tasks = <<>>

(* Files in flight that were submitted, and the first file that no worker  *)
(* has taken.                                                              *)
Submitted  == IF pc = "submit" THEN Len(tasks) - 1 ELSE Len(tasks)
FirstUntaken == nextFile - Len(poolQueue)

ScannerOrder ==
  /\ \A i \in 1..Len(poolQueue) : poolQueue[i] = FirstUntaken - 1 + i
  /\ \A i \in 1..Len(tasks) : tasks[i] = nextFile - 1 - Submitted + i
  /\ current # None => current = nextFile - 1 - Submitted
  /\ current = None => Len(poolQueue) <= Submitted
  /\ current # None => Len(poolQueue) <= Submitted + 1

(* Nothing happens to a file before a worker takes it. *)
UntakenUntouched ==
  /\ \A f \in FileIds : f >= FirstUntaken => events[f] = <<>> /\ ~eventsClosed[f]
  /\ \A w \in Workers : Busy(w) => worker[w].file < FirstUntaken

(* What waits in the event queue of a file is the file's own: matches that *)
(* it has, and its completion.                                             *)
EventsBelong ==
  \A f \in FileIds : \A k \in 1..Len(events[f]) :
    /\ events[f][k].file = f
    /\ events[f][k].at = None \/ events[f][k].at \in 1..Len(files[f].results)

SInv ==
  /\ TypeOK
  /\ EventsBelong
  /\ CurrentMeansPublishing
  /\ InCallback
  /\ BusyWorkersHaveFiles
  /\ FewInFlight
  /\ ~stop => ScannerOrder /\ UntakenUntouched

USE DEF InFile, syncVars, cancelVars

-----------------------------------------------------------------------------
LEMMA MaximumInFlightPositive == MaximumInFlight \in Nat \ {0}
<1>1. WorkerCount \in Nat /\ WorkerCount # 0
  BY EngineAssumption, FS_CardinalityType, FS_EmptySet DEF WorkerCount
<1>2. \A m, n \in Nat \ {0} : m * n \in Nat \ {0}
  OBVIOUS
<1> QED
  BY <1>1, <1>2, EngineAssumption DEF MaximumInFlight

(* Taking the first element of a sequence. *)
LEMMA SequenceEnds ==
  ASSUME NEW S, NEW s \in Seq(S), s # <<>>
  PROVE  /\ Len(s) \in Nat \ {0} /\ Head(s) \in S /\ Head(s) = s[1]
         /\ Tail(s) \in Seq(S) /\ Len(Tail(s)) = Len(s) - 1
         /\ \A i \in 1..(Len(s) - 1) : Tail(s)[i] = s[i + 1]
<1>1. Len(s) \in Nat \ {0} /\ \A i \in 1..Len(s) : s[i] \in S
  OBVIOUS
<1>2. /\ Head(s) \in S /\ Head(s) = s[1]
      /\ Tail(s) \in Seq(S) /\ Len(Tail(s)) = Len(s) - 1
  OBVIOUS
<1>3. \A i \in 1..(Len(s) - 1) : Tail(s)[i] = s[i + 1]
  OBVIOUS
<1> QED
  BY <1>1, <1>2, <1>3

LEMMA SequenceAppend ==
  ASSUME NEW S, NEW s \in Seq(S), NEW e \in S
  PROVE  /\ Append(s, e) \in Seq(S) /\ Len(Append(s, e)) = Len(s) + 1
         /\ Len(s) \in Nat
         /\ \A i \in 1..Len(s) : Append(s, e)[i] = s[i]
         /\ Append(s, e)[Len(s) + 1] = e
OBVIOUS

(* The matches of a file have a size. *)
LEMMA MatchSize ==
  ASSUME files \in Worlds, NEW f \in FileIds
  PROVE  /\ Len(files[f].results) \in Nat
         /\ \A i \in 1..Len(files[f].results) : files[f].results[i].bytes \in Nat
<1>1. files[f] \in [results : Seq([bytes : Nat, chunk : Nat]),
                    ending : Endings, big : BOOLEAN]
  BY InputAssumption DEF Worlds
<1> DEFINE results == files[f].results
           Match   == [bytes : Nat, chunk : Nat]
<1>2. results \in Seq(Match)
  BY <1>1
<1>3. \A m \in Match : m.bytes \in Nat
  OBVIOUS
<1> HIDE DEF results, Match
<1>4. Len(results) \in Nat /\ \A i \in 1..Len(results) : results[i] \in Match
  BY <1>2
<1> QED
  BY <1>3, <1>4 DEF results

(* What became of a result of bytes bytes: k where the sink took it, r     *)
(* where the search ends in front of it.                                   *)
Offered(result, bytes, k, r) ==
  Accept(result, bytes, k) \/ Reject(bytes, r) \/ SinkThrows(bytes)

(* publishResult keeps the types of what it writes, and the budget.        *)
LEMMA PublishResultType ==
  ASSUME TypeOK, NEW result \in FileIds \X Nat, NEW bytes \in Nat, NEW k, NEW r,
         Offered(result, bytes, k, r)
  PROVE  /\ stop' \in BOOLEAN /\ continueSearch' \in BOOLEAN
         /\ delivered' \in Seq(FileIds \X Nat)
         /\ resultBytes' \in Nat
         /\ MemoryBudget = 0 \/ resultBytes' <= MemoryBudget
         /\ flags' \subseteq Flags
         /\ late' \subseteq FileIds \X Nat
         /\ pc' \in {k, r, "join"}
         /\ stop => stop'
<1>1. resultBytes \in Nat /\ MemoryBudget \in Nat
  BY InputAssumption DEF TypeOK
<1>2. CASE Accept(result, bytes, k)
  <2>1. delivered' \in Seq(FileIds \X Nat)
    BY <1>2 DEF Accept, TypeOK
  <2>2. resultBytes' = resultBytes + bytes /\ FitsBudget(resultBytes, bytes)
    BY <1>2 DEF Accept, Budgeted
  <2>3. resultBytes' \in Nat /\ (MemoryBudget = 0 \/ resultBytes' <= MemoryBudget)
    BY <1>1, <2>2 DEF FitsBudget
  <2> QED
    BY <1>2, <2>1, <2>3 DEF Accept, TypeOK
<1>3. CASE Reject(bytes, r)
  BY <1>3 DEF Reject, TypeOK, Flags, outputVars
<1>4. CASE SinkThrows(bytes)
  BY <1>4 DEF SinkThrows, TypeOK, Flags, outputVars
<1> QED
  BY <1>2, <1>3, <1>4 DEF Offered

-----------------------------------------------------------------------------
(* Steps that touch neither the files in flight nor the pool. *)
LEMMA ControlStep ==
  ASSUME SInv, TypeOK', CurrentMeansPublishing', InCallback', stop => stop',
         UNCHANGED <<files, nextFile, tasks, current, poolQueue, worker, events,
                     eventsClosed>>,
         pc' = "submit" <=> pc = "submit",
         InFile' => tasks = <<>>
  PROVE  SInv'
<1>1. EventsBelong' /\ BusyWorkersHaveFiles'
  BY DEF SInv, EventsBelong, BusyWorkersHaveFiles, Busy
<1>2. FewInFlight'
  BY DEF SInv, FewInFlight, MaximumInFlight
<1>3. ~stop' => ScannerOrder' /\ UntakenUntouched'
  BY DEF SInv, ScannerOrder, UntakenUntouched, Submitted, FirstUntaken, Busy
<1> QED
  BY <1>1, <1>2, <1>3 DEF SInv

(* The deque shows its front file to the thread that publishes. *)
LEMMA PublishFrontStep ==
  ASSUME SInv, NEW k \in {"ahead", "drain"}, pc = k, tasks # <<>>,
         PublishFront(tasks, k),
         UNCHANGED <<files, scanVars, syncVars, continueSearch, poolVars, worker,
                     events, eventsClosed, stop, cancelVars, outputVars, flags>>
  PROVE  SInv'
<1>1. /\ Len(tasks) \in Nat \ {0} /\ Head(tasks) \in FileIds /\ Head(tasks) = tasks[1]
      /\ Tail(tasks) \in Seq(FileIds) /\ Len(Tail(tasks)) = Len(tasks) - 1
      /\ \A i \in 1..(Len(tasks) - 1) : Tail(tasks)[i] = tasks[i + 1]
  BY SequenceEnds DEF SInv, TypeOK
<1>2. /\ current' = Head(tasks) /\ tasks' = Tail(tasks) /\ resume' = k
      /\ pc' = "publish" /\ current = None
      /\ UNCHANGED <<nextFile, poolQueue>>
  BY DEF PublishFront, SInv, CurrentMeansPublishing, scanVars, poolVars
<1>3. TypeOK'
  BY <1>1, <1>2 DEF SInv, TypeOK, scanVars, poolVars, outputVars
<1>4. CurrentMeansPublishing' /\ InCallback'
  BY <1>1, <1>2 DEF SInv, CurrentMeansPublishing, InCallback, Publishing
<1>5. EventsBelong' /\ BusyWorkersHaveFiles'
  BY DEF SInv, EventsBelong, BusyWorkersHaveFiles, Busy
<1>6. FewInFlight'
  BY <1>1, <1>2, MaximumInFlightPositive DEF SInv, FewInFlight, MaximumInFlight, WorkerCount
<1>7. ~stop' => ScannerOrder' /\ UntakenUntouched'
  <2> SUFFICES ASSUME ~stop PROVE ScannerOrder' /\ UntakenUntouched'
    OBVIOUS
  <2>1. nextFile \in Int /\ Len(poolQueue) \in Nat
    BY DEF SInv, TypeOK
  <2>2. Submitted = Len(tasks) /\ Submitted' = Len(tasks) - 1
    BY <1>1, <1>2 DEF Submitted
  <2>3. FirstUntaken' = FirstUntaken
    BY <1>2 DEF FirstUntaken
  <2>4. ScannerOrder'
    <3>1. ScannerOrder
      BY DEF SInv
    <3>2. \A i \in 1..Len(poolQueue') : poolQueue'[i] = FirstUntaken' - 1 + i
      BY <1>2, <2>3, <3>1 DEF ScannerOrder
    <3>3. \A i \in 1..Len(tasks') : tasks'[i] = nextFile' - 1 - Submitted' + i
      BY <1>1, <1>2, <2>1, <2>2, <3>1 DEF ScannerOrder
    <3>4. current' = nextFile' - 1 - Submitted'
      BY <1>1, <1>2, <2>1, <2>2, <3>1 DEF ScannerOrder
    <3>5. Len(poolQueue') <= Submitted' + 1 /\ current' # None
      BY <1>1, <1>2, <2>1, <2>2, <3>1 DEF ScannerOrder, None, FileIds
    <3> QED
      BY <3>2, <3>3, <3>4, <3>5 DEF ScannerOrder
  <2>5. UntakenUntouched'
    BY <2>3 DEF SInv, UntakenUntouched, Busy
  <2> QED
    BY <2>4, <2>5
<1> QED
  BY <1>3, <1>4, <1>5, <1>6, <1>7 DEF SInv

-----------------------------------------------------------------------------
(* The scanner. *)
LEMMA ScanParallelInv == ASSUME SInv, ScanParallel PROVE SInv'
<1>1. /\ pc = "scan" /\ pc' = "submit" /\ nextFile \in FileIds /\ current = None
      /\ tasks' = Append(tasks, nextFile)
      /\ UNCHANGED <<nextFile, current, poolQueue, stop, events, eventsClosed, worker,
                     files>>
  BY DEF ScanParallel, SInv, TypeOK, CurrentMeansPublishing, FileIds, scanVars, poolVars
<1>2. /\ tasks' \in Seq(FileIds) /\ Len(tasks') = Len(tasks) + 1 /\ Len(tasks) \in Nat
      /\ \A i \in 1..Len(tasks) : tasks'[i] = tasks[i]
      /\ tasks'[Len(tasks) + 1] = nextFile
  BY <1>1, SequenceAppend DEF SInv, TypeOK
<1>3. TypeOK'
  BY <1>1, <1>2 DEF SInv, TypeOK, ScanParallel, scanVars, poolVars, outputVars
<1>4. CurrentMeansPublishing' /\ InCallback'
  BY <1>1 DEF CurrentMeansPublishing, InCallback, Publishing
<1>5. EventsBelong' /\ BusyWorkersHaveFiles'
  BY <1>1 DEF SInv, EventsBelong, BusyWorkersHaveFiles, Busy
<1>6. FewInFlight'
  <2>1. Len(tasks) < MaximumInFlight
    BY <1>1 DEF SInv, FewInFlight
  <2>2. Len(tasks') <= MaximumInFlight /\ tasks' # <<>>
    BY <1>2, <2>1, MaximumInFlightPositive
  <2> QED
    BY <1>1, <2>2 DEF FewInFlight, MaximumInFlight, WorkerCount
<1>7. ~stop' => ScannerOrder' /\ UntakenUntouched'
  <2> SUFFICES ASSUME ~stop PROVE ScannerOrder' /\ UntakenUntouched'
    BY <1>1
  <2>1. nextFile \in Int /\ Len(poolQueue) \in Nat
    BY DEF SInv, TypeOK
  <2>2. Submitted = Len(tasks) /\ Submitted' = Len(tasks)
    BY <1>1, <1>2 DEF Submitted
  <2>3. FirstUntaken' = FirstUntaken
    BY <1>1 DEF FirstUntaken
  <2>4. ScannerOrder'
    BY <1>1, <1>2, <2>1, <2>2, <2>3 DEF SInv, ScannerOrder, None
  <2>5. UntakenUntouched'
    BY <1>1, <2>3 DEF SInv, UntakenUntouched, Busy
  <2> QED
    BY <2>4, <2>5
<1> QED
  BY <1>3, <1>4, <1>5, <1>6, <1>7 DEF SInv

LEMMA ScanOtherInv ==
  ASSUME SInv, ScanSynchronous \/ ScanEnds \/ (PublishLoop /\ ~stop) PROVE SInv'
<1>1. TypeOK'
  <2>1. CASE ScanSynchronous
    BY <2>1 DEF SInv, TypeOK, ScanSynchronous, poolVars, scanVars, outputVars
  <2>2. CASE ScanEnds
    BY <2>2 DEF SInv, TypeOK, ScanEnds, poolVars, scanVars, outputVars
  <2>3. CASE PublishLoop /\ ~stop
    BY <2>3 DEF SInv, TypeOK, PublishLoop, poolVars, scanVars, outputVars
  <2> QED
    BY <2>1, <2>2, <2>3
<1>2. CurrentMeansPublishing' /\ InCallback'
  BY DEF SInv, TypeOK, CurrentMeansPublishing, InCallback, Publishing, FileIds,
         ScanSynchronous, ScanEnds, PublishLoop, poolVars, scanVars
<1> QED
  BY <1>1, <1>2, ControlStep DEF ScanSynchronous, ScanEnds, PublishLoop, poolVars, scanVars

(* The pool takes the file that ScanParallel put at the back of the deque. *)
LEMMA SubmitInv == ASSUME SInv, Submit PROVE SInv'
<1>1. /\ pc = "submit" /\ nextFile \in FileIds /\ current = None /\ ~stop
      /\ tasks # <<>> /\ Len(poolQueue) < MaximumInFlight
      /\ poolQueue' = Append(poolQueue, nextFile) /\ nextFile' = nextFile + 1
      /\ UNCHANGED <<stop, events, eventsClosed, worker, files>>
  BY DEF Submit, SInv, TypeOK, CurrentMeansPublishing, InCallback, FewInFlight, PoolCapacity
<1>2. /\ poolQueue' \in Seq(FileIds) /\ Len(poolQueue') = Len(poolQueue) + 1
      /\ Len(poolQueue) \in Nat
      /\ \A i \in 1..Len(poolQueue) : poolQueue'[i] = poolQueue[i]
      /\ poolQueue'[Len(poolQueue) + 1] = nextFile
  BY <1>1, SequenceAppend DEF SInv, TypeOK
<1>3. /\ Len(tasks) \in Nat \ {0} /\ Head(tasks) \in FileIds /\ Head(tasks) = tasks[1]
      /\ Tail(tasks) \in Seq(FileIds) /\ Len(Tail(tasks)) = Len(tasks) - 1
      /\ \A i \in 1..(Len(tasks) - 1) : Tail(tasks)[i] = tasks[i + 1]
  BY <1>1, SequenceEnds DEF SInv, TypeOK
<1>4. \/ /\ current' = Head(tasks) /\ tasks' = Tail(tasks)
         /\ resume' = "scan" /\ pc' = "publish"
      \/ /\ UNCHANGED <<current, tasks, resume>> /\ pc' = "scan"
         /\ Len(tasks) < MaximumInFlight
  <2>1. ~(Len(tasks) >= MaximumInFlight) => Len(tasks) < MaximumInFlight
    BY <1>3, MaximumInFlightPositive
  <2> QED
    BY <2>1 DEF Submit, PublishFront
<1>5. Len(poolQueue') <= MaximumInFlight /\ nextFile' \in 1..(NumFiles + 1)
  BY <1>1, <1>2, MaximumInFlightPositive, InputAssumption DEF FileIds
<1>6. TypeOK'
  <2>1. /\ pc' \in {"scan", "publish"} /\ resume' \in {"scan", "ahead", "drain"}
        /\ tasks' \in Seq(FileIds) /\ current' \in FileIds \cup {None}
        /\ publishedInitial' \in BOOLEAN
    BY <1>1, <1>3, <1>4 DEF SInv, TypeOK, Submit
  <2> QED
    BY <1>1, <1>2, <1>5, <2>1
    DEF SInv, TypeOK, Submit, outputVars, MaximumInFlight, WorkerCount
<1>7. CurrentMeansPublishing' /\ InCallback'
  BY <1>1, <1>3, <1>4 DEF CurrentMeansPublishing, InCallback, Publishing
<1>8. EventsBelong' /\ BusyWorkersHaveFiles'
  BY <1>1 DEF SInv, EventsBelong, BusyWorkersHaveFiles, Busy
<1>9. FewInFlight'
  <2>1. Len(tasks) <= MaximumInFlight
    BY DEF SInv, FewInFlight
  <2>2. Len(tasks') < MaximumInFlight /\ Len(tasks') <= MaximumInFlight
    BY <1>3, <1>4, <2>1, MaximumInFlightPositive
  <2> QED
    BY <1>4, <2>2 DEF FewInFlight, MaximumInFlight, WorkerCount
<1>10. ScannerOrder' /\ UntakenUntouched'
  <2>1. nextFile \in Int /\ ScannerOrder /\ UntakenUntouched
    BY <1>1 DEF SInv, FileIds
  <2>2. Submitted = Len(tasks) - 1 /\ Submitted' = Len(tasks')
    BY <1>1, <1>4 DEF Submitted
  <2>3. FirstUntaken' = FirstUntaken /\ FirstUntaken = nextFile - Len(poolQueue)
    BY <1>1, <1>2, <2>1 DEF FirstUntaken
  <2>4. \A i \in 1..Len(poolQueue') : poolQueue'[i] = FirstUntaken' - 1 + i
    <3>1. ASSUME NEW i \in 1..Len(poolQueue') PROVE poolQueue'[i] = FirstUntaken - 1 + i
      <4>1. CASE i \in 1..Len(poolQueue)
        BY <1>2, <4>1, <2>1 DEF ScannerOrder
      <4>2. CASE i = Len(poolQueue) + 1
        BY <1>2, <4>2, <2>1, <2>3
      <4> QED
        BY <1>2, <4>1, <4>2
    <3> QED
      BY <2>3, <3>1
  <2>5. /\ \A i \in 1..Len(tasks') : tasks'[i] = nextFile' - 1 - Submitted' + i
        /\ current' # None => current' = nextFile' - 1 - Submitted'
    <3>1. \A i \in 1..Len(tasks) : tasks[i] = nextFile - Len(tasks) + i
      BY <1>3, <2>1, <2>2 DEF ScannerOrder
    <3>2. CASE UNCHANGED <<current, tasks>>
      BY <1>1, <1>3, <2>1, <2>2, <3>1, <3>2
    <3>3. CASE current' = Head(tasks) /\ tasks' = Tail(tasks)
      <4>1. \A i \in 1..(Len(tasks) - 1) : tasks'[i] = nextFile - Len(tasks) + i + 1
        BY <1>3, <2>1, <3>1, <3>3
      <4>2. current' = nextFile - Len(tasks) + 1
        BY <1>3, <3>1, <3>3
      <4>3. Submitted' = Len(tasks) - 1 /\ Len(tasks') = Len(tasks) - 1
        BY <1>3, <2>2, <3>3
      <4> QED
        BY <1>1, <1>3, <2>1, <4>1, <4>2, <4>3
    <3> QED
      BY <1>4, <3>2, <3>3
  <2>6. /\ current' = None => Len(poolQueue') <= Submitted'
        /\ current' # None => Len(poolQueue') <= Submitted' + 1
    BY <1>1, <1>2, <1>3, <1>4, <2>1, <2>2 DEF ScannerOrder, None, FileIds
  <2>7. UntakenUntouched'
    BY <1>1, <2>1, <2>3 DEF UntakenUntouched, Busy
  <2> QED
    BY <2>4, <2>5, <2>6, <2>7 DEF ScannerOrder
<1> QED
  BY <1>6, <1>7, <1>8, <1>9, <1>10 DEF SInv

(* A refused submission takes the file off the deque again; the search is  *)
(* stopped.                                                                *)
LEMMA SubmitRefusedInv == ASSUME SInv, SubmitRefused PROVE SInv'
<1>1. TypeOK'
  BY DEF SInv, TypeOK, FewInFlight, SubmitRefused, poolVars, scanVars, outputVars
<1>2. CurrentMeansPublishing' /\ InCallback'
  BY DEF SInv, CurrentMeansPublishing, InCallback, Publishing, SubmitRefused
<1>3. EventsBelong' /\ BusyWorkersHaveFiles'
  BY DEF SInv, EventsBelong, BusyWorkersHaveFiles, Busy, SubmitRefused, poolVars
<1>4. FewInFlight'
  BY MaximumInFlightPositive DEF SInv, TypeOK, FewInFlight, SubmitRefused
<1>5. stop'
  BY DEF SubmitRefused
<1> QED
  BY <1>1, <1>2, <1>3, <1>4, <1>5 DEF SInv

LEMMA AheadInv == ASSUME SInv, Ahead PROVE SInv'
<1>1. CASE tasks # <<>>
  BY <1>1, PublishFrontStep DEF Ahead, scanVars, poolVars, outputVars
<1>2. CASE tasks = <<>>
  <2>1. TypeOK'
    BY <1>2 DEF SInv, TypeOK, Ahead, poolVars, scanVars, outputVars
  <2>2. CurrentMeansPublishing' /\ InCallback'
    BY <1>2 DEF SInv, CurrentMeansPublishing, InCallback, Publishing, Ahead, scanVars
  <2> QED
    BY <1>2, <2>1, <2>2, ControlStep DEF Ahead, scanVars, poolVars
<1> QED
  BY <1>1, <1>2

LEMMA DrainInv == ASSUME SInv, Drain PROVE SInv'
<1>1. CASE tasks # <<>>
  BY <1>1, PublishFrontStep DEF Drain, scanVars, poolVars, outputVars
<1>2. CASE tasks = <<>>
  <2>1. TypeOK'
    BY <1>2 DEF SInv, TypeOK, Drain, poolVars, scanVars, outputVars
  <2>2. CurrentMeansPublishing' /\ InCallback'
    BY <1>2 DEF SInv, CurrentMeansPublishing, InCallback, Publishing, Drain, scanVars
  <2> QED
    BY <1>2, <2>1, <2>2, ControlStep DEF Drain, scanVars, poolVars
<1> QED
  BY <1>1, <1>2

-----------------------------------------------------------------------------
(* publishFileTask.  A step that takes an event from the queue of the file *)
(* being published, or finds it closed, shows that a worker took the file. *)
LEMMA CurrentWasTaken ==
  ASSUME SInv, ~stop, Publishing, events[current] # <<>> \/ eventsClosed[current]
  PROVE  Len(poolQueue) <= Submitted
<1>1. current \in FileIds /\ current # None /\ nextFile \in Int /\ Len(poolQueue) \in Nat
      /\ Len(tasks) \in Nat
  BY DEF SInv, TypeOK, CurrentMeansPublishing, None, FileIds
<1>2. current < FirstUntaken
  BY <1>1 DEF SInv, UntakenUntouched, FirstUntaken, FileIds
<1>3. current = nextFile - 1 - Submitted
  BY <1>1 DEF SInv, ScannerOrder
<1>4. Submitted \in Int
  BY <1>1 DEF Submitted
<1> QED
  BY <1>1, <1>2, <1>3, <1>4 DEF FirstUntaken

(* The event queue of one file loses its first event. *)
LEMMA TakeEventType ==
  ASSUME SInv, pc = "pop", events[current] # <<>>, TakeEvent, UNCHANGED files
  PROVE  /\ events' \in [FileIds -> Seq(Event)] /\ EventsBelong'
         /\ current \in FileIds /\ Head(events[current]) \in Event
         /\ Head(events[current]).file = current
         /\ Head(events[current]).at = None
              \/ Head(events[current]).at \in 1..Len(files[current].results)
         /\ \A f \in FileIds : events[f] = <<>> => events'[f] = <<>>
<1>1. current \in FileIds /\ events \in [FileIds -> Seq(Event)]
  BY DEF SInv, TypeOK, CurrentMeansPublishing, Publishing
<1> DEFINE s == events[current]
<1>2. s \in Seq(Event) /\ s # <<>>
  BY <1>1
<1>3. /\ Len(s) \in Nat \ {0} /\ Head(s) \in Event /\ Head(s) = s[1]
      /\ Tail(s) \in Seq(Event) /\ Len(Tail(s)) = Len(s) - 1
      /\ \A i \in 1..(Len(s) - 1) : Tail(s)[i] = s[i + 1]
  <2> HIDE DEF s
  <2> QED
    BY <1>2, SequenceEnds
<1>4. events' = [events EXCEPT ![current] = Tail(s)]
  BY DEF TakeEvent
<1>5. \A k \in 1..Len(s) :
        /\ s[k].file = current
        /\ s[k].at = None \/ s[k].at \in 1..Len(files[current].results)
  BY <1>1 DEF SInv, EventsBelong
<1> HIDE DEF s
<1>6. EventsBelong'
  <2> SUFFICES ASSUME NEW f \in FileIds, NEW k \in 1..Len(events'[f])
               PROVE  /\ events'[f][k].file = f
                      /\ events'[f][k].at = None
                           \/ events'[f][k].at \in 1..Len(files[f].results)
    BY DEF EventsBelong
  <2>1. CASE f = current
    <3>1. events'[f] = Tail(s)
      BY <1>1, <1>4, <2>1
    <3>2. k \in 1..(Len(s) - 1)
      BY <1>3, <3>1
    <3>3. k + 1 \in 1..Len(s) /\ events'[f][k] = s[k + 1]
      BY <1>3, <3>1, <3>2
    <3> QED
      BY <1>5, <2>1, <3>3
  <2>2. CASE f # current
    <3>1. events'[f] = events[f]
      BY <1>1, <1>4, <2>2
    <3> QED
      BY <3>1 DEF SInv, EventsBelong
  <2> QED
    BY <2>1, <2>2
<1>7. /\ Head(s).file = current
      /\ Head(s).at = None \/ Head(s).at \in 1..Len(files[current].results)
  <2>1. 1 \in 1..Len(s)
    BY <1>3
  <2> QED
    BY <1>3, <1>5, <2>1
<1> QED
  BY <1>1, <1>3, <1>4, <1>6, <1>7 DEF s

LEMMA PublishLoopInv == ASSUME SInv, PublishLoop PROVE SInv'
<1>1. CASE ~stop
  BY <1>1, ScanOtherInv
<1>2. CASE stop
  <2>1. TypeOK'
    BY <1>2 DEF SInv, TypeOK, PublishLoop, poolVars, scanVars, outputVars
  <2>2. CurrentMeansPublishing' /\ InCallback'
    BY <1>2 DEF CurrentMeansPublishing, InCallback, Publishing, PublishLoop
  <2>3. EventsBelong' /\ BusyWorkersHaveFiles' /\ FewInFlight'
    BY <1>2 DEF SInv, EventsBelong, BusyWorkersHaveFiles, Busy, FewInFlight,
                MaximumInFlight, WorkerCount, PublishLoop
  <2> QED
    BY <1>2, <2>1, <2>2, <2>3 DEF SInv, PublishLoop
<1> QED
  BY <1>1, <1>2

(* The end of a file task, with or without its completion. *)
LEMMA EndOfFileTask ==
  ASSUME SInv, pc = "pop", current' = None, pc' \in {"join", resume},
         ~stop' => ~stop, ~stop' => events[current] # <<>> \/ eventsClosed[current],
         TypeOK', EventsBelong',
         \A f \in FileIds : events[f] = <<>> => events'[f] = <<>>,
         UNCHANGED <<resume, nextFile, tasks, poolQueue, worker, eventsClosed>>
  PROVE  SInv'
<1>1. resume \in {"scan", "ahead", "drain"}
  BY DEF SInv, TypeOK
<1>2. CurrentMeansPublishing' /\ InCallback'
  BY <1>1 DEF SInv, CurrentMeansPublishing, InCallback, Publishing
<1>3. BusyWorkersHaveFiles' /\ FewInFlight'
  BY <1>1 DEF SInv, BusyWorkersHaveFiles, Busy, FewInFlight, MaximumInFlight, WorkerCount
<1>4. ASSUME ~stop' PROVE ScannerOrder' /\ UntakenUntouched'
  <2>1. Len(poolQueue) <= Submitted
    BY <1>4, CurrentWasTaken DEF Publishing
  <2>2. Submitted' = Submitted /\ FirstUntaken' = FirstUntaken
    BY <1>1 DEF Submitted, FirstUntaken
  <2>3. ScannerOrder /\ UntakenUntouched
    BY <1>4 DEF SInv
  <2> QED
    BY <2>1, <2>2, <2>3 DEF ScannerOrder, UntakenUntouched, Busy
<1> QED
  BY <1>2, <1>3, <1>4 DEF SInv

LEMMA PopEmptyInv == ASSUME SInv, PopEmpty PROVE SInv'
<1>1. TypeOK'
  BY DEF SInv, TypeOK, PopEmpty, poolVars, scanVars, outputVars
<1>2. EventsBelong'
  BY DEF SInv, EventsBelong, PopEmpty
<1> QED
  BY <1>1, <1>2, EndOfFileTask DEF PopEmpty, poolVars, scanVars

LEMMA PopCompletionInv == ASSUME SInv, PopCompletion PROVE SInv'
<1>1. /\ pc = "pop" /\ events[current] # <<>> /\ TakeEvent
      /\ UNCHANGED <<files, resume, nextFile, publishedInitial, tasks,
                     poolQueue, poolClosed, poolStop, worker, eventsClosed,
                     syncVars, cancelVars, delivered, resultBytes, late>>
      /\ current' = None /\ pc' \in {"join", resume}
      /\ stop => stop'
      /\ flags' \subseteq flags \cup Flags /\ continueSearch' \in BOOLEAN
  BY DEF PopCompletion, scanVars, poolVars, outputVars, Flags, RequestStopIf
<1>2. events' \in [FileIds -> Seq(Event)] /\ EventsBelong'
      /\ \A f \in FileIds : events[f] = <<>> => events'[f] = <<>>
  BY <1>1, TakeEventType
<1>3. stop' \in BOOLEAN
  BY DEF PopCompletion, RequestStopIf
<1>4. TypeOK'
  <2>1. TypeOK
    BY DEF SInv
  <2>2. flags' \subseteq Flags
    BY <1>1, <2>1 DEF TypeOK
  <2>3. pc' \in {"scan", "submit", "ahead", "sync", "flush", "drain", "publish", "pop",
                 "join", "returned"}
    BY <1>1, <2>1 DEF TypeOK
  <2> QED
    BY <1>1, <1>2, <1>3, <2>1, <2>2, <2>3 DEF TypeOK, MaximumInFlight, WorkerCount
<1>5. ~stop' => ~stop
  BY <1>1
<1> QED
  BY <1>1, <1>2, <1>4, <1>5, EndOfFileTask

LEMMA PopResultInv == ASSUME SInv, PopResult PROVE SInv'
<1> DEFINE event == Head(events[current])
<1>1. /\ pc = "pop" /\ events[current] # <<>> /\ TakeEvent
      /\ UNCHANGED <<files, resume, nextFile, publishedInitial, tasks, current, poolQueue,
                     poolClosed, poolStop, worker, eventsClosed, syncVars, cancelVars>>
      /\ event.at # None
      /\ Offered(<<event.file, event.at>>, MatchBytes(event.file, event.at),
                 "publish", "join")
  BY DEF PopResult, Offered, scanVars, poolVars
<1>2. /\ events' \in [FileIds -> Seq(Event)] /\ EventsBelong'
      /\ current \in FileIds
      /\ event.file = current /\ event.at \in 1..Len(files[current].results)
      /\ \A f \in FileIds : events[f] = <<>> => events'[f] = <<>>
  BY <1>1, TakeEventType
<1>3. /\ stop' \in BOOLEAN /\ continueSearch' \in BOOLEAN
      /\ delivered' \in Seq(FileIds \X Nat)
      /\ resultBytes' \in Nat
      /\ MemoryBudget = 0 \/ resultBytes' <= MemoryBudget
      /\ flags' \subseteq Flags
      /\ late' \subseteq FileIds \X Nat
      /\ pc' \in {"publish", "join"}
      /\ stop => stop'
  <2>1. TypeOK
    BY DEF SInv
  <2> DEFINE i == event.at
  <2>2. Offered(<<current, i>>, MatchBytes(current, i), "publish", "join")
    BY <1>1, <1>2
  <2>3. i \in 1..Len(files[current].results)
    BY <1>2
  <2> HIDE DEF event, i
  <2>4. <<current, i>> \in FileIds \X Nat /\ MatchBytes(current, i) \in Nat
    BY <1>2, <2>1, <2>3, MatchSize DEF TypeOK, MatchBytes
  <2> QED
    BY <2>1, <2>2, <2>4, PublishResultType
<1>4. TypeOK'
  BY <1>1, <1>2, <1>3 DEF SInv, TypeOK, MaximumInFlight, WorkerCount
<1>5. CurrentMeansPublishing' /\ InCallback'
  BY <1>1, <1>2, <1>3 DEF SInv, CurrentMeansPublishing, InCallback, Publishing
<1>6. BusyWorkersHaveFiles' /\ FewInFlight'
  BY <1>1, <1>3 DEF SInv, BusyWorkersHaveFiles, Busy, FewInFlight, MaximumInFlight, WorkerCount
<1>7. ASSUME ~stop' PROVE ScannerOrder' /\ UntakenUntouched'
  <2>1. ScannerOrder /\ UntakenUntouched
    BY <1>3, <1>7 DEF SInv
  <2>2. Submitted' = Submitted /\ FirstUntaken' = FirstUntaken
    BY <1>1, <1>3 DEF Submitted, FirstUntaken
  <2>3. ScannerOrder'
    BY <1>1, <2>1, <2>2 DEF ScannerOrder
  <2>4. UntakenUntouched'
    BY <1>1, <1>2, <2>1, <2>2 DEF UntakenUntouched, Busy
  <2> QED
    BY <2>3, <2>4
<1> QED
  BY <1>2, <1>4, <1>5, <1>6, <1>7 DEF SInv

-----------------------------------------------------------------------------
(* searchFileSynchronously, and the end of the search.                     *)
LEMMA SyncFacts ==
  ASSUME SInv, InFile
  PROVE  /\ nextFile \in FileIds /\ current = None /\ tasks = <<>>
         /\ at \in Nat /\ taken \in Nat /\ taken <= at
         /\ Len(files[nextFile].results) \in Nat
         /\ at <= Len(files[nextFile].results)
<1>1. nextFile \in FileIds /\ files \in Worlds
  BY DEF SInv, InCallback, TypeOK
<1>2. Len(files[nextFile].results) \in Nat
  BY <1>1, MatchSize
<1> QED
  BY <1>1, <1>2 DEF SInv, InCallback, CurrentMeansPublishing, FewInFlight, TypeOK

(* The first match the sink does not have, with all its memory or emptied. *)
LEMMA NextOffered ==
  ASSUME SInv, InFile, taken < at
  PROVE  /\ taken + 1 \in 1..Len(files[nextFile].results) /\ taken + 1 <= at
         /\ <<nextFile, taken + 1>> \in FileIds \X Nat
         /\ MatchBytes(nextFile, taken + 1) \in Nat /\ EmptiedBytes \in Nat
<1>1. taken + 1 \in 1..Len(files[nextFile].results) /\ taken + 1 <= at
  BY SyncFacts
<1>2. files \in Worlds
  BY DEF SInv, TypeOK
<1> QED
  BY <1>1, <1>2, SyncFacts, MatchSize, EngineAssumption DEF MatchBytes

LEMMA SyncFindInv == ASSUME SInv, SyncFind PROVE SInv'
<1>1. /\ pc = "sync" /\ pc' = "sync" /\ at' = at + 1 /\ HasMatch(files[nextFile], at)
      /\ taken < at => HoldsBack
      /\ UNCHANGED <<files, resume, nextFile, publishedInitial, taken, verdict, movedFrom,
                     emptied, tasks, current, continueSearch, poolQueue, poolClosed,
                     poolStop, worker, events, eventsClosed, stop, cancelled, held,
                     delivered, resultBytes, late, flags>>
  BY DEF SyncFind, scanVars, poolVars, outputVars
<1>2. /\ nextFile \in FileIds /\ tasks = <<>> /\ at \in Nat /\ taken \in Nat /\ taken <= at
      /\ Len(files[nextFile].results) \in Nat
  BY <1>1, SyncFacts
<1>3. at + 1 <= Len(files[nextFile].results)
  BY <1>1, <1>2 DEF HasMatch
<1>4. TypeOK'
  BY <1>1, <1>2 DEF SInv, TypeOK, MaximumInFlight, WorkerCount
<1>5. CurrentMeansPublishing'
  BY <1>1 DEF SInv, CurrentMeansPublishing, Publishing
<1>6. InCallback'
  BY <1>1, <1>2, <1>3 DEF InCallback, Publishing
<1> QED
  BY <1>1, <1>2, <1>4, <1>5, <1>6, ControlStep

(* A match is offered, while the file is read or when it is left. *)
LEMMA OfferInv ==
  ASSUME SInv, InFile, taken < at, NEW bytes \in Nat, NEW r \in {"flush", "join"},
         Offered(<<nextFile, taken + 1>>, bytes, pc, r), pc = "flush" => r = "join",
         r = "flush" => HoldsBack,
         taken' = taken \/ (taken' = taken + 1 /\ Accept(<<nextFile, taken + 1>>, bytes, pc)),
         pc' = "sync" => taken' = taken + 1,
         pc' = "flush" /\ pc = "flush" => taken' = taken + 1,
         movedFrom' \in Nat, verdict' \in {"continue", "halt", "end"},
         emptied' \subseteq FileIds \X Nat,
         UNCHANGED <<files, resume, scanVars, at, tasks, current, poolVars, worker,
                     events, eventsClosed, cancelVars>>
  PROVE  SInv'
<1>1. /\ nextFile \in FileIds /\ tasks = <<>> /\ at \in Nat /\ taken \in Nat /\ taken + 1 <= at
      /\ Len(files[nextFile].results) \in Nat /\ at <= Len(files[nextFile].results)
      /\ <<nextFile, taken + 1>> \in FileIds \X Nat
  BY SyncFacts, NextOffered
<1>2. /\ stop' \in BOOLEAN /\ continueSearch' \in BOOLEAN
      /\ delivered' \in Seq(FileIds \X Nat)
      /\ resultBytes' \in Nat
      /\ MemoryBudget = 0 \/ resultBytes' <= MemoryBudget
      /\ flags' \subseteq Flags
      /\ late' \subseteq FileIds \X Nat
      /\ pc' \in {pc, r, "join"}
      /\ stop => stop'
  <2>1. TypeOK
    BY DEF SInv
  <2> QED
    BY <1>1, <2>1, PublishResultType
<1>3. pc' \in {"sync", "flush", "join"}
  BY <1>2
<1>4. /\ taken' \in Nat /\ taken' <= at
      /\ UNCHANGED <<files, resume, nextFile, publishedInitial, at, tasks, current,
                     poolQueue, poolClosed, poolStop, worker, events, eventsClosed,
                     cancelled, held>>
  BY <1>1 DEF scanVars, poolVars
<1>5. TypeOK'
  BY <1>2, <1>3, <1>4 DEF SInv, TypeOK, MaximumInFlight, WorkerCount
<1>6. CurrentMeansPublishing'
  BY <1>3, <1>4 DEF SInv, CurrentMeansPublishing, Publishing
<1>7. InCallback'
  <2>1. ~HoldsBack => /\ pc' = "sync" => at <= taken' + 1
                      /\ pc' = "flush" => at = taken'
    BY <1>1, <1>2 DEF SInv, InCallback
  <2> QED
    BY <1>1, <1>3, <1>4, <2>1 DEF InCallback, Publishing
<1>8. pc' # "submit" /\ pc # "submit"
  BY <1>3
<1> QED
  BY <1>1, <1>2, <1>4, <1>5, <1>6, <1>7, <1>8, ControlStep

LEMMA SyncPublishInv == ASSUME SInv, SyncPublish PROVE SInv'
<1> DEFINE bytes == MatchBytes(nextFile, taken + 1)
           stays == HoldsBack /\ ~InPath(nextFile, taken + 1)
           back  == IF stays THEN "flush" ELSE "join"
<1>1. /\ pc = "sync" /\ taken < at
      /\ UNCHANGED <<files, resume, scanVars, at, emptied, tasks, current, poolVars,
                     worker, events, eventsClosed, cancelVars>>
      /\ \/ /\ Accept(<<nextFile, taken + 1>>, bytes, "sync") /\ pc' = "sync"
            /\ taken' = taken + 1 /\ UNCHANGED <<verdict, movedFrom>>
         \/ /\ Reject(bytes, back) /\ pc' = back /\ verdict' = "end"
            /\ movedFrom' \in {movedFrom, taken + 1} /\ UNCHANGED taken
         \/ SinkThrows(bytes) /\ pc' = "join" /\ UNCHANGED <<taken, verdict, movedFrom>>
  BY DEF SyncPublish, Accept, Reject, SinkThrows
<1>2. /\ bytes \in Nat /\ taken \in Nat /\ movedFrom \in Nat
      /\ verdict \in {"continue", "halt", "end"} /\ emptied \subseteq FileIds \X Nat
  BY <1>1, SyncFacts, NextOffered DEF SInv, TypeOK
<1>3. back \in {"flush", "join"} /\ (back = "flush" => HoldsBack)
  OBVIOUS
<1> HIDE DEF bytes, back
<1>4. Offered(<<nextFile, taken + 1>>, bytes, pc, back)
  BY <1>1 DEF Offered
<1>5. /\ movedFrom' \in Nat /\ verdict' \in {"continue", "halt", "end"}
      /\ emptied' \subseteq FileIds \X Nat
      /\ taken' = taken \/ (taken' = taken + 1 /\ Accept(<<nextFile, taken + 1>>, bytes, pc))
      /\ pc' = "sync" => taken' = taken + 1
  BY <1>1, <1>2, <1>3
<1> QED
  BY <1>1, <1>2, <1>3, <1>4, <1>5, OfferInv

LEMMA FlushResultInv == ASSUME SInv, FlushResult PROVE SInv'
<1> DEFINE again == movedFrom = taken + 1
           bytes == IF again THEN EmptiedBytes ELSE MatchBytes(nextFile, taken + 1)
<1>1. /\ pc = "flush" /\ taken < at
      /\ UNCHANGED <<files, resume, scanVars, at, verdict, movedFrom, tasks, current,
                     poolVars, worker, events, eventsClosed, cancelVars>>
      /\ \/ /\ Accept(<<nextFile, taken + 1>>, bytes, "flush") /\ pc' = "flush"
            /\ taken' = taken + 1
            /\ emptied' \subseteq emptied \cup {<<nextFile, taken + 1>>}
         \/ Reject(bytes, "join") /\ pc' = "join" /\ UNCHANGED <<taken, emptied>>
         \/ SinkThrows(bytes) /\ pc' = "join" /\ UNCHANGED <<taken, emptied>>
  BY DEF FlushResult, Accept, Reject, SinkThrows
<1>2. /\ bytes \in Nat /\ taken \in Nat /\ movedFrom \in Nat
      /\ <<nextFile, taken + 1>> \in FileIds \X Nat
      /\ verdict \in {"continue", "halt", "end"} /\ emptied \subseteq FileIds \X Nat
  BY <1>1, SyncFacts, NextOffered DEF SInv, TypeOK
<1> HIDE DEF bytes
<1>3. Offered(<<nextFile, taken + 1>>, bytes, pc, "join")
  BY <1>1 DEF Offered
<1>4. /\ movedFrom' \in Nat /\ verdict' \in {"continue", "halt", "end"}
      /\ emptied' \subseteq FileIds \X Nat
      /\ taken' = taken \/ (taken' = taken + 1 /\ Accept(<<nextFile, taken + 1>>, bytes, pc))
      /\ pc' = "flush" => taken' = taken + 1
      /\ pc' # "sync"
  BY <1>1, <1>2
<1> QED
  BY <1>1, <1>2, <1>3, <1>4, OfferInv

LEMMA EndReadingInv ==
  ASSUME SInv, SyncStopped \/ SyncOverLimit \/ SyncEnds PROVE SInv'
<1>1. /\ pc = "sync" /\ pc' = "flush" /\ Settled
      /\ verdict' \in {"continue", "halt", "end"}
      /\ UNCHANGED <<files, resume, nextFile, publishedInitial, at, taken, movedFrom,
                     emptied, tasks, current, continueSearch, poolQueue, poolClosed,
                     poolStop, worker, events, eventsClosed, stop, cancelled, held,
                     delivered, resultBytes, late>>
      /\ flags' \subseteq flags \cup {"limitReached"}
  BY DEF SyncStopped, SyncOverLimit, SayLimitReached, SyncEnds, EndReading, scanVars,
         poolVars, outputVars
<1>2. TypeOK'
  BY <1>1 DEF SInv, TypeOK, Flags, MaximumInFlight, WorkerCount
<1>3. CurrentMeansPublishing'
  BY <1>1 DEF SInv, CurrentMeansPublishing, Publishing
<1>4. InCallback'
  BY <1>1, SyncFacts DEF SInv, InCallback, Publishing, Settled
<1>5. tasks = <<>>
  BY <1>1, SyncFacts
<1> QED
  BY <1>1, <1>2, <1>3, <1>4, <1>5, ControlStep

(* The file is left: its reading threw, or everything found is delivered. *)
LEMMA FileLeftInv == ASSUME SInv, SyncThrows \/ FileDone PROVE SInv'
<1>1. /\ nextFile \in FileIds /\ current = None /\ tasks = <<>> /\ InFile
      /\ UNCHANGED <<files, resume, at, taken, verdict, movedFrom, emptied, tasks, current,
                     publishedInitial, poolQueue, poolClosed, poolStop, worker, events,
                     eventsClosed, cancelled, held, delivered, resultBytes, late>>
      /\ continueSearch' \in BOOLEAN /\ flags' \subseteq flags \cup Flags
      /\ stop' \in BOOLEAN
      /\ stop => stop'
      /\ \/ pc' = "scan" /\ nextFile' = nextFile + 1
         \/ pc' = "join" /\ nextFile' = nextFile
  <2>1. /\ nextFile \in FileIds /\ current = None /\ tasks = <<>> /\ InFile
        /\ stop \in BOOLEAN /\ continueSearch \in BOOLEAN
    BY SyncFacts DEF SyncThrows, FileDone, SInv, TypeOK
  <2>2. \/ /\ pc' = "scan" /\ nextFile' = nextFile + 1
           /\ UNCHANGED <<stop, continueSearch, flags>>
        \/ /\ pc' = "join" /\ nextFile' = nextFile
           /\ flags' \subseteq flags \cup {"halted", "failed"}
           /\ stop' \in {stop, TRUE} /\ continueSearch' = FALSE
    BY DEF SyncThrows, FileDone, scanVars
  <2>3. UNCHANGED <<files, resume, at, taken, verdict, movedFrom, emptied, tasks, current,
                    publishedInitial, poolQueue, poolClosed, poolStop, worker, events,
                    eventsClosed, cancelled, held, delivered, resultBytes, late>>
    BY DEF SyncThrows, FileDone, scanVars, poolVars, outputVars
  <2> QED
    BY <2>1, <2>2, <2>3 DEF Flags
<1>2. nextFile \in Nat /\ nextFile' \in 1..(NumFiles + 1)
  BY <1>1, InputAssumption DEF FileIds
<1>3. TypeOK'
  BY <1>1, <1>2 DEF SInv, TypeOK, MaximumInFlight, WorkerCount
<1>4. CurrentMeansPublishing' /\ InCallback'
  BY <1>1 DEF CurrentMeansPublishing, InCallback, Publishing
<1>5. EventsBelong' /\ BusyWorkersHaveFiles'
  BY <1>1 DEF SInv, EventsBelong, BusyWorkersHaveFiles, Busy
<1>6. FewInFlight'
  BY <1>1 DEF SInv, FewInFlight, MaximumInFlight, WorkerCount
<1>7. ASSUME ~stop' PROVE ScannerOrder' /\ UntakenUntouched'
  <2>1. ScannerOrder /\ UntakenUntouched /\ Len(poolQueue) \in Nat
    BY <1>1, <1>7 DEF SInv, TypeOK
  <2>2. Len(tasks) = 0 /\ Submitted = 0 /\ Submitted' = 0
    BY <1>1 DEF Submitted
  <2>3. Len(poolQueue) = 0
    BY <1>1, <2>1, <2>2 DEF ScannerOrder
  <2>4. FirstUntaken = nextFile /\ FirstUntaken' = nextFile' /\ nextFile <= nextFile'
    <3>1. nextFile \in Int /\ nextFile' \in Int /\ nextFile <= nextFile'
      BY <1>1, <1>2, InputAssumption
    <3>2. Len(poolQueue) = 0 /\ Len(poolQueue') = 0
      BY <1>1, <2>3
    <3>3. FirstUntaken = nextFile
      BY <3>1, <3>2 DEF FirstUntaken
    <3>4. FirstUntaken' = nextFile'
      <4>1. FirstUntaken' = nextFile' - Len(poolQueue')
        BY DEF FirstUntaken
      <4>2. FirstUntaken' = nextFile' - 0
        BY <3>2, <4>1
      <4>3. \A n \in Int : n - 0 = n
        OBVIOUS
      <4>4. nextFile' \in Int
        BY <3>1
      <4>5. nextFile' - 0 = nextFile'
        BY <4>3, <4>4
      <4> QED
        BY <4>2, <4>5
    <3> QED
      BY <3>1, <3>3, <3>4
  <2>5. ScannerOrder'
    BY <1>1, <2>2, <2>3 DEF ScannerOrder
  <2>6. \A f \in FileIds : f >= FirstUntaken' => events[f] = <<>> /\ ~eventsClosed[f]
    BY <1>1, <1>2, <2>1, <2>4 DEF UntakenUntouched, FileIds
  <2>7. \A w \in Workers : Busy(w) => worker[w].file < FirstUntaken'
    BY <1>1, <1>2, <2>1, <2>4 DEF UntakenUntouched, FileIds, SInv, BusyWorkersHaveFiles
  <2> QED
    BY <1>1, <2>5, <2>6, <2>7 DEF UntakenUntouched, Busy
<1> QED
  BY <1>3, <1>4, <1>5, <1>6, <1>7 DEF SInv

LEMMA OtherStepsInv ==
  ASSUME SInv, ShutPool \/ Joined \/ Cancel \/ Returned \/ UNCHANGED vars
  PROVE  SInv'
<1>1. TypeOK'
  <2>1. CASE ShutPool
    BY <2>1 DEF SInv, TypeOK, ShutPool, scanVars, outputVars
  <2>2. CASE Joined
    BY <2>2 DEF SInv, TypeOK, Joined, poolVars, scanVars, outputVars
  <2>3. CASE Cancel
    <3>1. held' \subseteq FileIds \X Nat
      <4>1. held' = Pending
        BY <2>3 DEF Cancel
      <4>2. CASE InFile
        <5>1. nextFile \in FileIds /\ taken \in Nat /\ at \in Nat
          BY <4>2, SyncFacts
        <5>2. \A i \in (taken + 1)..at : i \in Nat
          BY <5>1
        <5> QED
          BY <4>1, <5>1, <5>2 DEF Pending
      <4>3. CASE ~InFile
        BY <4>1, <4>3 DEF Pending
      <4> QED
        BY <4>2, <4>3
    <3> QED
      BY <2>3, <3>1 DEF SInv, TypeOK, Cancel, poolVars, scanVars, outputVars
  <2>4. CASE UNCHANGED vars
    BY <2>4 DEF SInv, TypeOK, vars
  <2> QED
    BY <2>1, <2>2, <2>3, <2>4 DEF Returned
<1>2. CurrentMeansPublishing' /\ InCallback'
  BY DEF SInv, CurrentMeansPublishing, InCallback, Publishing, ShutPool, Joined, Cancel,
         Returned, vars, scanVars
<1>3. InFile' => tasks = <<>>
  BY DEF SInv, FewInFlight, ShutPool, Joined, Cancel, Returned, vars
<1> QED
  BY <1>1, <1>2, <1>3, ControlStep
  DEF ShutPool, Joined, Cancel, Returned, vars, poolVars, scanVars

-----------------------------------------------------------------------------
(* The workers. *)
LEMMA TakeTaskInv == ASSUME SInv, NEW w \in Workers, TakeTask(w) PROVE SInv'
<1>1. /\ Len(poolQueue) \in Nat \ {0} /\ Head(poolQueue) \in FileIds
      /\ Head(poolQueue) = poolQueue[1]
      /\ Tail(poolQueue) \in Seq(FileIds) /\ Len(Tail(poolQueue)) = Len(poolQueue) - 1
      /\ \A i \in 1..(Len(poolQueue) - 1) : Tail(poolQueue)[i] = poolQueue[i + 1]
  BY SequenceEnds DEF SInv, TypeOK, TakeTask
<1>2. /\ worker' = [worker EXCEPT ![w] = [state |-> "searching", file |-> Head(poolQueue), at |-> 0]]
      /\ poolQueue' = Tail(poolQueue)
      /\ UNCHANGED <<files, pc, resume, nextFile, publishedInitial, at, taken, tasks,
                     current, events, eventsClosed, stop>>
  BY DEF TakeTask, mainVars, scanVars
<1>3. nextFile \in Int /\ worker \in [Workers -> [state : {"idle", "searching", "closing", "exited"},
                                                file : FileIds \cup {None}, at : Nat]]
  BY DEF SInv, TypeOK
<1>4. TypeOK'
  <2>1. Len(poolQueue') <= MaximumInFlight
    BY <1>1, <1>2, MaximumInFlightPositive DEF SInv, TypeOK
  <2>2. worker' \in [Workers -> [state : {"idle", "searching", "closing", "exited"},
                                 file : FileIds \cup {None}, at : Nat]]
    BY <1>1, <1>2, <1>3
  <2> QED
    BY <1>1, <1>2, <2>1, <2>2
    DEF SInv, TypeOK, TakeTask, mainVars, scanVars, outputVars, MaximumInFlight, WorkerCount
<1>5. CurrentMeansPublishing' /\ InCallback' /\ EventsBelong'
  BY <1>2 DEF SInv, CurrentMeansPublishing, InCallback, Publishing, EventsBelong
<1>6. BusyWorkersHaveFiles'
  BY <1>1, <1>2, <1>3 DEF SInv, BusyWorkersHaveFiles, Busy
<1>7. FewInFlight'
  BY <1>2 DEF SInv, FewInFlight, MaximumInFlight, WorkerCount
<1>8. ASSUME ~stop' PROVE ScannerOrder' /\ UntakenUntouched'
  <2>1. ScannerOrder /\ UntakenUntouched
    BY <1>2, <1>8 DEF SInv
  <2>2. Submitted' = Submitted /\ FirstUntaken' = FirstUntaken + 1 /\ FirstUntaken \in Int
    BY <1>1, <1>2, <1>3 DEF Submitted, FirstUntaken
  <2>3. Head(poolQueue) = FirstUntaken
    BY <1>1, <1>3, <2>1 DEF ScannerOrder, FirstUntaken
  <2>4. \A i \in 1..Len(poolQueue') : poolQueue'[i] = FirstUntaken' - 1 + i
    BY <1>1, <1>2, <2>1, <2>2 DEF ScannerOrder
  <2>5. /\ current = None => Len(poolQueue') <= Submitted
        /\ current # None => Len(poolQueue') <= Submitted + 1
    <3>1. Submitted \in Int
      BY DEF SInv, TypeOK, Submitted
    <3> QED
      BY <1>1, <1>2, <2>1, <3>1 DEF ScannerOrder
  <2>6. ScannerOrder'
    BY <1>2, <2>1, <2>2, <2>4, <2>5 DEF ScannerOrder
  <2>7. \A f \in FileIds : f >= FirstUntaken' => events[f] = <<>> /\ ~eventsClosed[f]
    BY <2>1, <2>2 DEF UntakenUntouched, FileIds
  <2>8. \A v \in Workers : Busy(v)' => worker'[v].file < FirstUntaken'
    <3> SUFFICES ASSUME NEW v \in Workers, Busy(v)' PROVE worker'[v].file < FirstUntaken'
      OBVIOUS
    <3>1. CASE v = w
      BY <1>2, <1>3, <2>2, <2>3, <3>1
    <3>2. CASE v # w
      <4>1. worker'[v] = worker[v] /\ Busy(v) /\ worker[v].file \in Int
        BY <1>2, <1>3, <3>2 DEF Busy, SInv, BusyWorkersHaveFiles, FileIds
      <4> QED
        BY <2>1, <2>2, <4>1 DEF UntakenUntouched
    <3> QED
      BY <3>1, <3>2
  <2> QED
    BY <1>2, <2>6, <2>7, <2>8 DEF UntakenUntouched
<1> QED
  BY <1>4, <1>5, <1>6, <1>7, <1>8 DEF SInv

(* A worker that keeps its file, or lets it go, and writes to the event    *)
(* queue of its own file only.                                             *)
LEMMA WorkerStep ==
  ASSUME SInv, NEW w \in Workers,
         UNCHANGED <<mainVars, poolQueue>>,
         worker' \in [Workers -> [state : {"idle", "searching", "closing", "exited"},
                                  file : FileIds \cup {None}, at : Nat]],
         \A v \in Workers : Busy(v)' => Busy(v) /\ worker'[v].file = worker[v].file,
         events' \in [FileIds -> Seq(Event)], eventsClosed' \in [FileIds -> BOOLEAN],
         EventsBelong',
         \A f \in FileIds : events'[f] # events[f] \/ eventsClosed'[f] # eventsClosed[f]
                            => Busy(w) /\ f = worker[w].file
  PROVE  SInv'
<1>1. TypeOK'
  BY DEF SInv, TypeOK, mainVars, scanVars, outputVars, MaximumInFlight, WorkerCount
<1>2. CurrentMeansPublishing' /\ InCallback' /\ FewInFlight'
  BY DEF SInv, CurrentMeansPublishing, InCallback, Publishing, FewInFlight, mainVars, scanVars,
         MaximumInFlight, WorkerCount
<1>3. BusyWorkersHaveFiles'
  BY DEF SInv, BusyWorkersHaveFiles
<1>4. ASSUME ~stop' PROVE ScannerOrder' /\ UntakenUntouched'
  <2>1. ScannerOrder /\ UntakenUntouched
    BY <1>4 DEF SInv, mainVars
  <2>2. Submitted' = Submitted /\ FirstUntaken' = FirstUntaken /\ FirstUntaken \in Int
    BY DEF Submitted, FirstUntaken, mainVars, scanVars, SInv, TypeOK
  <2>3. ScannerOrder'
    BY <2>1, <2>2 DEF ScannerOrder, mainVars, scanVars
  <2>4. \A v \in Workers : Busy(v)' => worker'[v].file < FirstUntaken'
    BY <2>1, <2>2 DEF UntakenUntouched
  <2>5. ASSUME NEW f \in FileIds, f >= FirstUntaken PROVE events'[f] = <<>> /\ ~eventsClosed'[f]
    <3>1. events[f] = <<>> /\ ~eventsClosed[f]
      BY <2>1, <2>5 DEF UntakenUntouched
    <3>2. Busy(w) => worker[w].file \in Int /\ worker[w].file < FirstUntaken
      BY <2>1 DEF SInv, BusyWorkersHaveFiles, UntakenUntouched, FileIds
    <3>3. ~(Busy(w) /\ f = worker[w].file)
      BY <2>2, <2>5, <3>2 DEF FileIds
    <3>4. events'[f] = events[f] /\ eventsClosed'[f] = eventsClosed[f]
      BY <3>3
    <3> QED
      BY <3>1, <3>4
  <2> QED
    BY <2>2, <2>3, <2>4, <2>5 DEF UntakenUntouched
<1> QED
  BY <1>1, <1>2, <1>3, <1>4 DEF SInv

(* A worker appends an event of its own file. *)
LEMMA PushEventStep ==
  ASSUME SInv, NEW w \in Workers, Busy(w), NEW event \in Event,
         PushEvent(worker[w].file, event), event.file = worker[w].file,
         event.at = None \/ event.at \in 1..Len(files[worker[w].file].results),
         UNCHANGED <<mainVars, poolQueue, eventsClosed>>,
         worker' \in [Workers -> [state : {"idle", "searching", "closing", "exited"},
                                  file : FileIds \cup {None}, at : Nat]],
         \A v \in Workers : Busy(v)' => Busy(v) /\ worker'[v].file = worker[v].file
  PROVE  SInv'
<1> DEFINE f == worker[w].file
<1>1. /\ f \in FileIds /\ events \in [FileIds -> Seq(Event)]
      /\ eventsClosed \in [FileIds -> BOOLEAN]
  BY DEF SInv, TypeOK, BusyWorkersHaveFiles
<1>2. events' = [events EXCEPT ![f] = Append(events[f], event)] /\ files' = files
  BY DEF PushEvent, mainVars
<1>3. /\ Append(events[f], event) \in Seq(Event)
      /\ Len(Append(events[f], event)) = Len(events[f]) + 1
      /\ Len(events[f]) \in Nat
      /\ \A i \in 1..Len(events[f]) : Append(events[f], event)[i] = events[f][i]
      /\ Append(events[f], event)[Len(events[f]) + 1] = event
  <2>1. events[f] \in Seq(Event)
    BY <1>1
  <2> HIDE DEF f
  <2> QED
    BY <2>1, SequenceAppend
<1> HIDE DEF f
<1>4. EventsBelong'
  <2> SUFFICES ASSUME NEW g \in FileIds, NEW k \in 1..Len(events'[g])
               PROVE  /\ events'[g][k].file = g
                      /\ events'[g][k].at = None
                           \/ events'[g][k].at \in 1..Len(files[g].results)
    BY <1>2 DEF EventsBelong
  <2>1. CASE g # f
    <3>1. events'[g] = events[g]
      BY <1>1, <1>2, <2>1
    <3> QED
      BY <3>1 DEF SInv, EventsBelong
  <2>2. CASE g = f
    <3>1. events'[f] = Append(events[f], event)
      BY <1>1, <1>2
    <3>2. CASE k \in 1..Len(events[f])
      <4>1. events'[f][k] = events[f][k]
        BY <1>3, <3>1, <3>2
      <4> QED
        BY <1>1, <2>2, <3>2, <4>1 DEF SInv, EventsBelong
    <3>3. CASE k = Len(events[f]) + 1
      <4>1. events'[f][k] = event
        BY <1>3, <3>1, <3>3
      <4> QED
        BY <2>2, <4>1 DEF f
    <3>4. k \in 1..(Len(events[f]) + 1)
      BY <1>3, <2>2, <3>1
    <3> QED
      BY <1>3, <3>2, <3>3, <3>4
  <2> QED
    BY <2>1, <2>2
<1>5. events' \in [FileIds -> Seq(Event)] /\ eventsClosed' \in [FileIds -> BOOLEAN]
  BY <1>1, <1>2, <1>3
<1>6. \A g \in FileIds : events'[g] # events[g] \/ eventsClosed'[g] # eventsClosed[g]
                         => Busy(w) /\ g = worker[w].file
  BY <1>1, <1>2 DEF f
<1> QED
  BY <1>4, <1>5, <1>6, WorkerStep

LEMMA EmitInv ==
  ASSUME SInv, NEW w \in Workers, EmitResult(w) \/ EmitCompletion(w) PROVE SInv'
<1> DEFINE f == worker[w].file
           i == worker[w].at
<1>1. /\ worker \in [Workers -> [state : {"idle", "searching", "closing", "exited"},
                                 file : FileIds \cup {None}, at : Nat]]
      /\ files \in Worlds
  BY DEF SInv, TypeOK
<1>2. worker[w].state = "searching" /\ Busy(w) /\ f \in FileIds /\ i \in Nat
  BY <1>1 DEF EmitResult, EmitCompletion, Busy, SInv, BusyWorkersHaveFiles
<1>3. Len(files[f].results) \in Nat
  BY <1>1, <1>2, MatchSize
<1>4. CASE EmitResult(w)
  <2>1. i + 1 \in 1..Len(files[f].results)
    BY <1>2, <1>3, <1>4 DEF EmitResult, HasMatch
  <2>2. ResultEvent(f, i + 1) \in Event /\ ResultEvent(f, i + 1).file = f
        /\ ResultEvent(f, i + 1).at = i + 1
    BY <1>2 DEF ResultEvent, Event
  <2>3. worker' = [worker EXCEPT ![w].at = i + 1]
    BY <1>4 DEF EmitResult
  <2>4. /\ worker' \in [Workers -> [state : {"idle", "searching", "closing", "exited"},
                                    file : FileIds \cup {None}, at : Nat]]
        /\ \A v \in Workers : Busy(v)' => Busy(v) /\ worker'[v].file = worker[v].file
    BY <1>1, <1>2, <2>3 DEF Busy
  <2>5. /\ PushEvent(f, ResultEvent(f, i + 1))
        /\ UNCHANGED <<mainVars, poolQueue, eventsClosed>>
    BY <1>4 DEF EmitResult
  <2> QED
    BY <1>2, <2>1, <2>2, <2>4, <2>5, PushEventStep
<1>5. CASE EmitCompletion(w)
  <2>1. PICK continues, limit, failure \in BOOLEAN :
          PushEvent(f, Completion(f, continues, limit, failure))
    BY <1>5 DEF EmitCompletion, Throws, OverLimit, OverPerFile
  <2> DEFINE event == Completion(f, continues, limit, failure)
  <2>2. event \in Event /\ event.file = f /\ event.at = None
    BY <1>2 DEF Completion, Event, None
  <2>3. worker' = [worker EXCEPT ![w].state = "closing"]
    BY <1>5 DEF EmitCompletion
  <2>4. /\ worker' \in [Workers -> [state : {"idle", "searching", "closing", "exited"},
                                    file : FileIds \cup {None}, at : Nat]]
        /\ \A v \in Workers : Busy(v)' => Busy(v) /\ worker'[v].file = worker[v].file
    BY <1>1, <1>2, <2>3 DEF Busy
  <2>5. UNCHANGED <<mainVars, poolQueue, eventsClosed>>
    BY <1>5 DEF EmitCompletion
  <2> HIDE DEF event
  <2>6. PushEvent(f, event)
    BY <2>1 DEF event
  <2> QED
    BY <1>2, <2>2, <2>4, <2>5, <2>6, PushEventStep
<1> QED
  BY <1>4, <1>5

LEMMA WorkerEndsInv ==
  ASSUME SInv, NEW w \in Workers, Exit(w) \/ Abandon(w) \/ CloseEvents(w) PROVE SInv'
<1>1. /\ worker \in [Workers -> [state : {"idle", "searching", "closing", "exited"},
                                 file : FileIds \cup {None}, at : Nat]]
      /\ events \in [FileIds -> Seq(Event)] /\ eventsClosed \in [FileIds -> BOOLEAN]
  BY DEF SInv, TypeOK
<1>2. UNCHANGED <<mainVars, poolQueue, events, files>>
  BY DEF Exit, Abandon, CloseEvents, mainVars
<1>3. EventsBelong'
  BY <1>2 DEF SInv, EventsBelong
<1>4. CASE Exit(w) \/ Abandon(w)
  <2>0. \/ worker[w].state = "searching" /\ worker' = [worker EXCEPT ![w].state = "closing"]
        \/ worker' = [worker EXCEPT ![w].state = "exited"]
    BY <1>4 DEF Exit, Abandon
  <2>1. /\ worker' \in [Workers -> [state : {"idle", "searching", "closing", "exited"},
                                    file : FileIds \cup {None}, at : Nat]]
        /\ \A v \in Workers : Busy(v)' => Busy(v) /\ worker'[v].file = worker[v].file
    <3>1. /\ worker' = [worker EXCEPT ![w].state = worker'[w].state]
          /\ worker'[w].state \in {"closing", "exited"}
          /\ worker'[w].state = "closing" => worker[w].state = "searching"
      BY <1>1, <2>0
    <3>2. worker' \in [Workers -> [state : {"idle", "searching", "closing", "exited"},
                                    file : FileIds \cup {None}, at : Nat]]
      BY <1>1, <3>1
    <3>3. ASSUME NEW v \in Workers, Busy(v)' PROVE Busy(v) /\ worker'[v].file = worker[v].file
      <4>1. worker'[v].state \in {"searching", "closing"}
        BY <3>3 DEF Busy
      <4>2. CASE v = w
        BY <1>1, <3>1, <4>1, <4>2 DEF Busy
      <4>3. CASE v # w
        <5>1. worker'[v] = worker[v]
          BY <1>1, <3>1, <4>3
        <5> QED
          BY <4>1, <5>1 DEF Busy
      <4> QED
        BY <4>2, <4>3
    <3> QED
      BY <3>2, <3>3
  <2>2. UNCHANGED eventsClosed
    BY <1>4 DEF Exit, Abandon
  <2> QED
    BY <1>1, <1>2, <1>3, <2>1, <2>2, WorkerStep
<1>5. CASE CloseEvents(w)
  <2>1. Busy(w) /\ worker' = [worker EXCEPT ![w] = Idle]
        /\ eventsClosed' = [eventsClosed EXCEPT ![worker[w].file] = TRUE]
    BY <1>5 DEF CloseEvents, Busy
  <2>2. /\ worker' \in [Workers -> [state : {"idle", "searching", "closing", "exited"},
                                    file : FileIds \cup {None}, at : Nat]]
        /\ \A v \in Workers : Busy(v)' => Busy(v) /\ worker'[v].file = worker[v].file
    BY <1>1, <2>1 DEF Busy, Idle
  <2>3. /\ eventsClosed' \in [FileIds -> BOOLEAN]
        /\ \A f \in FileIds : events'[f] # events[f] \/ eventsClosed'[f] # eventsClosed[f]
                               => Busy(w) /\ f = worker[w].file
    BY <1>1, <1>2, <2>1
  <2> QED
    BY <1>1, <1>2, <1>3, <2>2, <2>3, WorkerStep
<1> QED
  BY <1>4, <1>5

-----------------------------------------------------------------------------
LEMMA SearchInit == Init => SInv
<1> SUFFICES ASSUME Init PROVE SInv
  OBVIOUS
<1>1. TypeOK
  <2>1. MemoryBudget = 0 \/ 0 <= MemoryBudget
    BY InputAssumption
  <2>2. 1 \in 1..(NumFiles + 1)
    BY InputAssumption
  <2>3. worker \in [Workers -> [state : {"idle", "searching", "closing", "exited"},
                                file : FileIds \cup {None}, at : Nat]]
    BY DEF Init, Idle, None
  <2>4. /\ tasks \in Seq(FileIds) /\ poolQueue \in Seq(FileIds)
        /\ delivered \in Seq(FileIds \X Nat) /\ events \in [FileIds -> Seq(Event)]
    BY DEF Init
  <2>5. Len(poolQueue) <= MaximumInFlight
    BY MaximumInFlightPositive DEF Init
  <2>6. resultBytes \in Nat /\ (MemoryBudget = 0 \/ resultBytes <= MemoryBudget)
    BY <2>1 DEF Init
  <2>7. /\ files \in Worlds /\ pc = "scan" /\ resume = "scan"
        /\ nextFile \in 1..(NumFiles + 1) /\ at \in Nat /\ taken \in Nat
        /\ verdict \in {"continue", "halt", "end"} /\ movedFrom \in Nat
        /\ emptied \subseteq FileIds \X Nat /\ held \subseteq FileIds \X Nat
        /\ current \in FileIds \cup {None}
        /\ publishedInitial \in BOOLEAN /\ continueSearch \in BOOLEAN
        /\ poolClosed \in BOOLEAN /\ poolStop \in BOOLEAN
        /\ eventsClosed \in [FileIds -> BOOLEAN]
        /\ stop \in BOOLEAN /\ cancelled \in BOOLEAN
        /\ flags \subseteq Flags /\ late \subseteq FileIds \X Nat
    BY <2>2 DEF Init, None
  <2> QED
    BY <2>3, <2>4, <2>5, <2>6, <2>7 DEF TypeOK
<1>2. EventsBelong /\ CurrentMeansPublishing /\ InCallback /\ BusyWorkersHaveFiles
  BY DEF Init, EventsBelong, CurrentMeansPublishing, InCallback, Publishing,
         BusyWorkersHaveFiles, Busy, Idle
<1>3. FewInFlight
  BY MaximumInFlightPositive DEF Init, FewInFlight
<1>4. ScannerOrder /\ UntakenUntouched
  BY DEF Init, ScannerOrder, UntakenUntouched, FirstUntaken, Submitted, Busy, Idle, None
<1> QED
  BY <1>1, <1>2, <1>3, <1>4 DEF SInv

LEMMA SearchNext == SInv /\ [Next]_vars => SInv'
<1> SUFFICES ASSUME SInv, [Next]_vars PROVE SInv'
  OBVIOUS
<1>1. CASE CallingThread
  <2>1. CASE ScanParallel
    BY <2>1, ScanParallelInv
  <2>2. CASE ScanSynchronous \/ ScanEnds
    BY <2>2, ScanOtherInv
  <2>3. CASE Submit
    BY <2>3, SubmitInv
  <2>4. CASE SubmitRefused
    BY <2>4, SubmitRefusedInv
  <2>5. CASE Ahead
    BY <2>5, AheadInv
  <2>6. CASE Drain
    BY <2>6, DrainInv
  <2>7. CASE PublishLoop
    BY <2>7, PublishLoopInv, ScanOtherInv
  <2>8. CASE PopEmpty
    BY <2>8, PopEmptyInv
  <2>9. CASE PopResult
    BY <2>9, PopResultInv
  <2>10. CASE PopCompletion
    BY <2>10, PopCompletionInv
  <2>11. CASE SyncFind \/ SyncPublish
    BY <2>11, SyncFindInv, SyncPublishInv
  <2>12. CASE SyncStopped \/ SyncOverLimit \/ SyncEnds
    BY <2>12, EndReadingInv
  <2>13. CASE FlushResult
    BY <2>13, FlushResultInv
  <2>14. CASE SyncThrows \/ FileDone
    BY <2>14, FileLeftInv
  <2>15. CASE ShutPool \/ Joined
    BY <2>15, OtherStepsInv
  <2> QED
    BY <1>1, <2>1, <2>2, <2>3, <2>4, <2>5, <2>6, <2>7, <2>8, <2>9, <2>10, <2>11, <2>12,
       <2>13, <2>14, <2>15
    DEF CallingThread
<1>2. ASSUME NEW w \in Workers, WorkerThread(w) PROVE SInv'
  BY <1>2, TakeTaskInv, EmitInv, WorkerEndsInv DEF WorkerThread
<1> QED
  BY <1>1, <1>2, OtherStepsInv DEF Next

LEMMA SearchInvariant == Spec => []SInv
BY SearchInit, SearchNext, PTL DEF Spec

(* Every part of the search keeps its shape: the task queue never exceeds  *)
(* its capacity, and the memory of the results the sink accepted never     *)
(* exceeds the query's budget (publishResult,                              *)
(* searchResultFitsMemoryBudget).                                          *)
THEOREM SearchTypeOK == Spec => []TypeOK
<1>1. SInv => TypeOK
  BY DEF SInv
<1> QED
  BY <1>1, SearchInvariant, PTL

(* submit() finds room whenever the search goes on (the callback of the    *)
(* scanner, WorkerPool::submit), so the calling thread, which alone        *)
(* empties the event queues, never waits for a worker that waits for it.   *)
THEOREM SearchSubmitNeverBlocks == Spec => []SubmitNeverBlocks
<1>1. SInv => SubmitNeverBlocks
  <2> SUFFICES ASSUME SInv, pc = "submit", ~stop PROVE Len(poolQueue) < PoolCapacity
    BY DEF SubmitNeverBlocks
  <2>1. Len(poolQueue) <= Len(tasks) - 1
    BY DEF SInv, CurrentMeansPublishing, ScannerOrder, Submitted
  <2>2. Len(tasks) <= MaximumInFlight /\ Len(tasks) \in Nat /\ Len(poolQueue) \in Nat
    BY DEF SInv, FewInFlight, TypeOK
  <2> QED
    BY <2>1, <2>2, MaximumInFlightPositive DEF PoolCapacity
<1> QED
  BY <1>1, SearchInvariant, PTL

-----------------------------------------------------------------------------
(* Cancellation.  Only a result that pop had already returned, what a      *)
(* synchronous search held back, and the rest of the chunk that it is in,  *)
(* come late: every loop looks at the token before it waits again, and the *)
(* reader looks at it where a chunk begins.                                *)
InSequence == pc = "ahead" \/ InFile \/ (Publishing /\ resume = "ahead")

SameChunk(r, s) ==
  /\ r[1] = s[1]
  /\ files[r[1]].results[r[2]].chunk = files[s[1]].results[s[2]].chunk

(* Found, and not with the sink. *)
Coming == IF InFile THEN {<<nextFile, i>> : i \in (taken + 1)..at} ELSE {}

LateInv ==
  /\ cancelled => stop
  /\ late # {} => cancelled
  /\ pc \in {"pop", "ahead"} => late = {}
  /\ InSequence => ~shouldSearchFileInParallel(nextFile)
  /\ cancelled /\ InFile => \A r \in (late \cup Coming) \ held :
       at # 0 /\ SameChunk(r, <<nextFile, at>>)
  /\ CancellationIsPrompt

LEMMA LateInit == Init => LateInv
BY DEF Init, LateInv, CancellationIsPrompt, InSequence, Publishing

(* Steps after which no more results of a synchronous search are published *)
(* than before.                                                            *)
LEMMA NothingLater ==
  ASSUME LateInv, UNCHANGED <<files, late>>, stop => stop', cancelled' => stop',
         UNCHANGED cancelVars \/ (late = {} /\ cancelled' /\ held' = Coming),
         pc' \in {"pop", "ahead"} => late = {},
         InSequence' => InSequence /\ UNCHANGED nextFile,
         InFile' => \/ late = {} /\ Coming' = {}
                    \/ InFile /\ UNCHANGED <<at, Coming>>
  PROVE  LateInv'
<1>1. CancellationIsPrompt'
  BY DEF LateInv, CancellationIsPrompt, shouldSearchFileInParallel
<1>2. InSequence' => ~shouldSearchFileInParallel(nextFile)'
  BY DEF LateInv, shouldSearchFileInParallel
<1>3. ASSUME cancelled', InFile', NEW r \in (late' \cup Coming') \ held'
      PROVE  at' # 0 /\ SameChunk(r, <<nextFile, at>>)'
  <2>1. InFile /\ UNCHANGED <<at, Coming, nextFile>>
    BY <1>3 DEF InSequence
  <2>2. cancelled /\ held' = held
    BY <1>3, <2>1
  <2>3. r \in (late \cup Coming) \ held
    BY <1>3, <2>1, <2>2
  <2>4. at # 0 /\ SameChunk(r, <<nextFile, at>>)
    BY <2>1, <2>2, <2>3 DEF LateInv
  <2> QED
    BY <2>1, <2>4 DEF SameChunk
<1>4. late' # {} => cancelled'
  BY DEF LateInv
<1> QED
  BY <1>1, <1>2, <1>3, <1>4 DEF LateInv

(* A result taken from an event queue: none was late before, so it is the  *)
(* only one.                                                               *)
LEMMA LateFromQueue == ASSUME SInv, LateInv, PopResult PROVE LateInv'
<1>1. /\ pc = "pop" /\ late = {} /\ UNCHANGED <<files, nextFile, resume, cancelled, held>>
  BY DEF PopResult, LateInv, scanVars
<1> DEFINE result == <<Head(events[current]).file, Head(events[current]).at>>
           bytes  == MatchBytes(Head(events[current]).file, Head(events[current]).at)
<1>2. Accept(result, bytes, "publish") \/ Reject(bytes, "join") \/ SinkThrows(bytes)
  BY DEF PopResult
<1> HIDE DEF result, bytes
<1>3. /\ stop => stop'
      /\ pc' \in {"publish", "join"}
      /\ late' = {} \/ (cancelled /\ late' = {result})
  BY <1>1, <1>2 DEF Accept, Reject, SinkThrows, outputVars
<1>4. CancellationIsPrompt'
  BY <1>3 DEF CancellationIsPrompt
<1>5. InSequence' => ~shouldSearchFileInParallel(nextFile)'
  BY <1>1, <1>3 DEF LateInv, InSequence, Publishing, shouldSearchFileInParallel
<1> QED
  BY <1>1, <1>3, <1>4, <1>5 DEF LateInv

(* A match found after the cancellation is in the chunk of the one before. *)
LEMMA LateFound == ASSUME SInv, LateInv, SyncFind PROVE LateInv'
<1> DEFINE next == <<nextFile, at + 1>>
<1>1. /\ pc = "sync" /\ pc' = "sync" /\ HasMatch(files[nextFile], at)
      /\ stop => ~AtChunk(nextFile, at)
      /\ at' = at + 1
      /\ UNCHANGED <<files, nextFile, taken, late, resume, stop, cancelled, held>>
  BY DEF SyncFind, scanVars, outputVars
<1>2. at \in Nat /\ taken \in Nat /\ Len(files[nextFile].results) \in Nat
  BY <1>1, SyncFacts
<1>3. Coming' = {<<nextFile, i>> : i \in (taken + 1)..(at + 1)}
  BY <1>1 DEF Coming
<1>4. Coming' \subseteq Coming \cup {next}
  BY <1>1, <1>2, <1>3 DEF Coming
<1>5. ASSUME cancelled PROVE \A r \in (late' \cup Coming') \ held' : SameChunk(r, next)
  <2>1. ~AtChunk(nextFile, at)
    BY <1>1, <1>5 DEF LateInv
  <2>2. Chunk(nextFile, at + 1) = Chunk(nextFile, at)
    BY <2>1 DEF AtChunk
  <2>3. SameChunk(next, next)
    BY DEF SameChunk
  <2>4. ASSUME NEW r \in (late \cup Coming) \ held PROVE SameChunk(r, next)
    <3>1. at # 0 /\ SameChunk(r, <<nextFile, at>>)
      BY <1>1, <1>5 DEF LateInv
    <3>2. files[nextFile].results[at + 1].chunk = files[nextFile].results[at].chunk
      BY <1>2, <2>2, <3>1 DEF Chunk
    <3> QED
      BY <1>1, <3>1, <3>2 DEF SameChunk
  <2> QED
    BY <1>1, <1>4, <2>3, <2>4
<1>6. CancellationIsPrompt'
  BY <1>1 DEF LateInv, CancellationIsPrompt, shouldSearchFileInParallel
<1>7. InSequence' => ~shouldSearchFileInParallel(nextFile)'
  BY <1>1 DEF LateInv, InSequence, shouldSearchFileInParallel
<1>8. cancelled' /\ InFile' => \A r \in (late' \cup Coming') \ held' :
        at' # 0 /\ SameChunk(r, <<nextFile, at>>)'
  BY <1>1, <1>2, <1>5 DEF SameChunk
<1>9. (cancelled' => stop') /\ (late' # {} => cancelled')
      /\ (pc' \in {"pop", "ahead"} => late' = {})
  BY <1>1 DEF LateInv
<1> QED
  BY <1>6, <1>7, <1>8, <1>9 DEF LateInv

(* A match of the file in sequence is offered: it was already found. *)
LEMMA LateOffered ==
  ASSUME SInv, LateInv, SyncPublish \/ FlushResult PROVE LateInv'
<1> DEFINE next == <<nextFile, taken + 1>>
<1>1. /\ InFile /\ taken < at
      /\ UNCHANGED <<files, nextFile, at, resume, cancelled, held>>
  BY DEF SyncPublish, FlushResult, scanVars
<1>2. /\ pc' \in {"sync", "flush", "join"} /\ (stop => stop')
      /\ \/ /\ taken' = taken + 1
            /\ late' = late \/ (cancelled /\ late' = late \cup {next})
         \/ taken' = taken /\ late' = late
  BY <1>1 DEF SyncPublish, FlushResult, Accept, Reject, SinkThrows, outputVars
<1>3. at \in Nat /\ taken \in Nat
  BY <1>1, SyncFacts
<1>4. next \in Coming /\ Coming' \subseteq Coming
  BY <1>1, <1>2, <1>3 DEF Coming
<1>5. late' \cup Coming' \subseteq late \cup Coming
  BY <1>2, <1>4
<1>6. cancelled => \A r \in (late' \cup Coming') \ held' :
        at' # 0 /\ SameChunk(r, <<nextFile, at>>)'
  BY <1>1, <1>5 DEF LateInv, SameChunk
<1>7. CancellationIsPrompt'
  <2>1. ~shouldSearchFileInParallel(nextFile)
    BY <1>1 DEF LateInv, InSequence
  <2>2. CASE late' = late
    BY <1>1, <2>2 DEF LateInv, CancellationIsPrompt, shouldSearchFileInParallel
  <2>3. CASE cancelled
    <3>1. \A r, s \in late' \ held' :
            SameChunk(r, s)' /\ ~shouldSearchFileInParallel(r[1])'
      BY <1>1, <1>6, <2>1, <2>3 DEF SameChunk, shouldSearchFileInParallel
    <3> QED
      BY <3>1 DEF CancellationIsPrompt, SameChunk
  <2> QED
    BY <1>2, <2>2, <2>3
<1>8. InSequence' => ~shouldSearchFileInParallel(nextFile)'
  BY <1>1, <1>2 DEF LateInv, InSequence, Publishing, shouldSearchFileInParallel
<1>9. (cancelled' => stop') /\ (late' # {} => cancelled')
      /\ (pc' \in {"pop", "ahead"} => late' = {})
  BY <1>1, <1>2 DEF LateInv
<1> QED
  BY <1>1, <1>6, <1>7, <1>8, <1>9 DEF LateInv

(* The caller cancels: what is found and cannot wait for context lines is  *)
(* one result at most.                                                     *)
LEMMA LateCancel == ASSUME SInv, LateInv, Cancel PROVE LateInv'
<1>1. /\ late = {} /\ cancelled' /\ stop' /\ held' = Pending
      /\ UNCHANGED <<files, pc, resume, nextFile, at, taken, late>>
  BY DEF Cancel, LateInv, scanVars, outputVars
<1>2. InSequence' = InSequence /\ Coming' = Coming
  BY <1>1 DEF InSequence, Publishing, Coming
<1>3. CASE HoldsBack \/ Coming = {}
  <2>1. Pending = Coming \/ Coming = {}
    BY <1>3 DEF Pending, Coming
  <2>2. CancellationIsPrompt'
    BY <1>1 DEF CancellationIsPrompt
  <2> QED
    BY <1>1, <1>2, <2>1, <2>2 DEF LateInv, shouldSearchFileInParallel
<1>4. CASE ~HoldsBack /\ Coming # {}
  <2>1. InFile /\ at \in Nat /\ taken \in Nat /\ taken <= at /\ at <= taken + 1
    BY <1>4, SyncFacts DEF Coming, SInv, InCallback
  <2>2. \A r \in Coming : r = <<nextFile, at>> /\ at # 0
    BY <2>1 DEF Coming
  <2>3. \A r \in Coming : at # 0 /\ SameChunk(r, <<nextFile, at>>)'
    BY <1>1, <2>2 DEF SameChunk
  <2>4. CancellationIsPrompt'
    BY <1>1 DEF CancellationIsPrompt
  <2> QED
    BY <1>1, <1>2, <2>3, <2>4 DEF LateInv, shouldSearchFileInParallel
<1> QED
  BY <1>3, <1>4

LEMMA LateNext == SInv /\ LateInv /\ [Next]_vars => LateInv'
<1> SUFFICES ASSUME SInv, LateInv, [Next]_vars PROVE LateInv'
  OBVIOUS
<1> USE DEF scanVars, outputVars, Publishing, InSequence
<1>1. CASE ScanParallel \/ ScanEnds \/ SubmitRefused \/ Drain \/ ShutPool \/ Joined
  BY <1>1, NothingLater
  DEF ScanParallel, ScanEnds, SubmitRefused, Drain, PublishFront, ShutPool, Joined, LateInv
<1>2. CASE ScanSynchronous
  <2>1. ~stop /\ late = {} /\ pc' = "ahead" /\ ~shouldSearchFileInParallel(nextFile)
    BY <1>2 DEF ScanSynchronous, LateInv
  <2> QED
    BY <1>2, <2>1
    DEF ScanSynchronous, LateInv, CancellationIsPrompt, shouldSearchFileInParallel
<1>3. CASE Submit
  BY <1>3, NothingLater DEF Submit, PublishFront, LateInv
<1>4. CASE Ahead
  <2>1. pc' = "sync" => Coming' = {}
    BY <1>4 DEF Ahead, PublishFront, Coming
  <2> QED
    BY <1>4, <2>1, NothingLater DEF Ahead, PublishFront, LateInv
<1>5. CASE PublishLoop \/ PopEmpty
  BY <1>5, NothingLater DEF PublishLoop, PopEmpty, LateInv, SInv, TypeOK
<1>6. CASE PopCompletion
  BY <1>6, NothingLater DEF PopCompletion, RequestStopIf, LateInv, SInv, TypeOK
<1>7. CASE PopResult
  BY <1>7, LateFromQueue
<1>8. CASE SyncFind \/ SyncPublish \/ FlushResult
  BY <1>8, LateFound, LateOffered
<1>9. CASE SyncStopped \/ SyncOverLimit \/ SyncEnds
  <2>1. /\ pc = "sync" /\ pc' = "flush" /\ UNCHANGED <<nextFile, at, taken>>
        /\ UNCHANGED <<files, late, stop, cancelled, held>>
    BY <1>9 DEF SyncStopped, SyncOverLimit, SyncEnds, EndReading
  <2>2. Coming' = Coming
    BY <2>1 DEF Coming
  <2> QED
    BY <2>1, <2>2, NothingLater DEF LateInv
<1>10. CASE SyncThrows \/ FileDone
  BY <1>10, NothingLater DEF SyncThrows, FileDone, LateInv
<1>11. ASSUME NEW w \in Workers, WorkerThread(w) PROVE LateInv'
  <2>1. UNCHANGED mainVars
    BY <1>11 DEF WorkerThread, TakeTask, Exit, EmitResult, EmitCompletion, Abandon,
                 CloseEvents
  <2>2. Coming' = Coming
    BY <2>1 DEF mainVars, Coming
  <2> QED
    BY <2>1, <2>2, NothingLater DEF mainVars, LateInv
<1>12. CASE Cancel
  BY <1>12, LateCancel
<1>13. CASE UNCHANGED vars
  <2>1. Coming' = Coming
    BY <1>13 DEF vars, Coming
  <2> QED
    BY <1>13, <2>1, NothingLater DEF vars, LateInv
<1> QED
  BY <1>1, <1>2, <1>3, <1>4, <1>5, <1>6, <1>7, <1>8, <1>9, <1>10, <1>11, <1>12, <1>13
  DEF Next, CallingThread, Returned

(* After the caller's cancellation at most the rest of one chunk of one    *)
(* file is delivered beyond what a synchronous search held back for its    *)
(* context lines at that moment (flushPending releases it after the reader *)
(* has seen the stop), and at most one result when the file was given to a *)
(* worker (publishFileTask, searchFileSynchronously, and the token test of *)
(* the text reader).                                                       *)
THEOREM SearchCancellationIsPrompt == Spec => []CancellationIsPrompt
<1>1. LateInv => CancellationIsPrompt
  BY DEF LateInv
<1> QED
  BY <1>1, LateInit, LateNext, SearchInit, SearchNext, PTL DEF Spec

-----------------------------------------------------------------------------
(* The parallel search is the sequential one.  At every moment what has    *)
(* been delivered is a beginning of what is promised: everything of the    *)
(* files before the one that is due, and the first matches of that one.    *)
Searching == pc \notin {"join", "returned"}

(* How far file f has been delivered, if it is the last one that was.      *)
Published(f) ==
  IF delivered # <<>> /\ delivered[Len(delivered)][1] = f
  THEN delivered[Len(delivered)][2] ELSE 0

Delivered == {delivered[k] : k \in 1..Len(delivered)}
UpTo(f, i) ==
  {r \in FileIds \X (Nat \ {0}) :
     IF r[1] = f THEN r[2] <= i ELSE r[1] < f /\ r[2] <= Promise!ShownCount(r[1])}

(* The matches of a file are found one by one. *)
Possible(f, i) == i = 0 \/ (f \in FileIds /\ HasMatch(files[f], i - 1))

DeliveredUpTo(f) ==
  /\ \A g \in FileIds : g < f => ~Promise!EndsSearch(g)
  /\ Delivered = UpTo(f, Published(f))
  /\ Published(f) \in 0..Len(delivered)
  /\ Possible(f, Published(f))

DeliveredBefore(f) == DeliveredUpTo(f) /\ Published(f) = 0

(* The file whose results come next. *)
Due == IF current # None THEN current ELSE nextFile - Submitted

DeliveredInOrder ==
  /\ InFile => /\ DeliveredUpTo(nextFile) /\ taken = Published(nextFile)
                /\ Possible(nextFile, at)
  /\ pc = "ahead" /\ tasks = <<>> => DeliveredBefore(nextFile)
  /\ pc = "pop" => DeliveredUpTo(current)
  /\ ~stop /\ Publishing =>
       /\ DeliveredUpTo(current)
       /\ current >= FirstUntaken => Published(current) = 0
  /\ ~stop /\ pc \in {"scan", "submit", "ahead", "drain"} => DeliveredBefore(Due)
  /\ Len(delivered) <= ResultLimit

(* The event queue of a file holds the next matches of the file, and then  *)
(* its completion.                                                         *)
CompletionOf(file, f, i) ==
  LET finished == i = Len(file.results)
      throws   == Throws(file, i)
  IN  Completion(f,
        throws \/ (finished /\ file.ending = "continue") \/ OverPerFile(file, i),
        OverLimit(file, i),
        throws)

EventOf(file, f, i, event) ==
  \/ HasMatch(file, i) /\ event = ResultEvent(f, i + 1)
  \/ /\ Throws(file, i) \/ ~HasMatch(file, i)
     /\ i = 0 \/ (f \in FileIds /\ HasMatch(file, i - 1))
     /\ event = CompletionOf(file, f, i)

NextEvent(f, i, event) == EventOf(files[f], f, i, event)

QueueInOrder(f) ==
  \A k \in 1..Len(events[f]) :
    /\ NextEvent(f, Published(f) + k - 1, events[f][k])
    /\ k < Len(events[f]) => events[f][k].at # None

Completed(f) == events[f] # <<>> /\ events[f][Len(events[f])].at = None

QueuesInOrder ==
  \A f \in FileIds : f >= Due =>
    QueueInOrder(f) /\ (eventsClosed[f] => Completed(f))

WorkerInStep(w) ==
  LET f == worker[w].file IN
    /\ worker[w].state = "searching" =>
         /\ worker[w].at = Published(f) + Len(events[f])
         /\ Possible(f, worker[w].at) /\ ~Completed(f)
    /\ worker[w].state = "closing" => Completed(f)

WorkersInStep ==
  /\ \A w \in Workers : Busy(w) /\ worker[w].file >= Due => WorkerInStep(w)
  /\ \A v, w \in Workers : Busy(v) /\ Busy(w) /\ v # w => worker[v].file # worker[w].file

(* What makes an outcome true, as far as the files and the deliveries say. *)
Grounds(how) ==
  CASE how = "limit"    -> Promise!More /\ Len(delivered) = ResultLimit
    [] how = "memory"   -> /\ Promise!More /\ Len(delivered) < ResultLimit
                           /\ ~Promise!UpcomingFits
    [] how = "complete" -> ~Promise!More /\ \A f \in FileIds : ~Promise!EndsSearch(f)
    [] how = "halted"   -> ~Promise!More /\ Promise!EndedBy("stop")
    [] how = "failed"   -> /\ Promise!EndedBy("throw")
                           /\ ~Promise!More \/ Promise!LostInThrow

(* What the caller will be told is true.  While a file is left, the limit  *)
(* may have been seen before the results in front of it are with the sink. *)
FlagsAreTrue ==
  /\ Searching /\ pc # "flush" => flags = {} /\ movedFrom = 0 /\ emptied = {}
  /\ "failed" \in flags => Grounds("failed") /\ flags = {"failed"}
  /\ "limitReached" \in flags =>
       \/ Grounds("limit") \/ TurnedDown
       \/ pc = "flush" /\ OverLimit(files[nextFile], at)
  /\ "memoryLimitReached" \in flags =>
       Grounds("memory") \/ emptied # {} \/ "refused" \in flags
  /\ "halted" \in flags => Grounds("halted") /\ flags = {"halted"}
  /\ stop /\ flags = {} => cancelled
  /\ ~Searching /\ flags = {} /\ ~cancelled => Grounds("complete")
  /\ ~stop /\ (pc = "drain" \/ (Publishing /\ resume = "drain")) =>
       nextFile = NumFiles + 1

(* While a file is left: a result is offered a second time only after it   *)
(* was turned down, what follows it only once it was taken, and the file   *)
(* has been read as far as the verdict says.                               *)
Releasing ==
  pc = "flush" =>
    /\ flags \cap {"failed", "halted", "sinkThrew"} = {}
    /\ movedFrom # 0 => HoldsBack /\ (TurnedDown \/ Len(delivered) >= ResultLimit)
    /\ TurnedDown => movedFrom = taken + 1 \/ emptied # {}
    /\ emptied # {} =>
         TurnedDown /\ movedFrom <= taken /\ \A r \in emptied : r[1] = nextFile
    /\ verdict # "end" =>
         /\ flags = {} /\ movedFrom = 0 /\ at = Promise!ShownCount(nextFile)
         /\ verdict = "continue" <=> ~Promise!EndsSearch(nextFile)
         /\ verdict = "halt" => files[nextFile].ending = "stop"
    /\ verdict = "end" => flags # {} \/ cancelled

OrderInv ==
  /\ DeliveredInOrder
  /\ pc = "pop" => QueueInOrder(current)
  /\ ~stop /\ Searching => QueuesInOrder /\ WorkersInStep
  /\ FlagsAreTrue
  /\ Releasing

(* What is shown of a file, and how the search of a file in which i        *)
(* matches were found may go on.                                           *)
LEMMA FileLimits ==
  ASSUME files \in Worlds, NEW f \in FileIds, NEW i \in Nat, Possible(f, i)
  PROVE  /\ Promise!ShownCount(f) \in Nat /\ i <= Promise!ShownCount(f)
         /\ HasMatch(files[f], i) => i < Promise!ShownCount(f)
         /\ i < Promise!ShownCount(f) => HasMatch(files[f], i) \/ OverLimit(files[f], i)
         /\ OverPerFile(files[f], i) =>
              /\ Promise!CutShort(f) /\ i = Promise!ShownCount(f)
              /\ i # Len(files[f].results) /\ ~OverLimit(files[f], i)
         /\ i = Len(files[f].results) =>
              /\ ~Promise!CutShort(f) /\ i = Promise!ShownCount(f)
              /\ ~OverLimit(files[f], i)
         /\ OverLimit(files[f], i) =>
              i = ResultLimit /\ i < Promise!ShownCount(f) /\ i # Len(files[f].results)
         /\ \/ HasMatch(files[f], i) \/ OverLimit(files[f], i)
            \/ OverPerFile(files[f], i) \/ i = Len(files[f].results)
<1> DEFINE n == Len(files[f].results)
<1>1. n \in Nat /\ ResultLimit \in Nat \ {0} /\ PerFileLimit \in Nat \ {0}
  BY MatchSize, InputAssumption
<1>2. /\ Promise!CutShort(f) <=> PerFileLimit < n /\ PerFileLimit < ResultLimit
      /\ Promise!ShownCount(f) = IF Promise!CutShort(f) THEN PerFileLimit ELSE n
  BY <1>1 DEF Promise!CutShort, Promise!ShownCount, Promise!OverPerFile
<1>3. /\ HasMatch(files[f], i) <=> i < n /\ i < ResultLimit /\ i < PerFileLimit
      /\ OverLimit(files[f], i) <=> i < n /\ i >= ResultLimit
      /\ OverPerFile(files[f], i) <=> i < n /\ i < ResultLimit /\ i >= PerFileLimit
      /\ i = 0 \/ (i - 1 < n /\ i - 1 < ResultLimit /\ i - 1 < PerFileLimit)
  BY DEF HasMatch, OverLimit, OverPerFile, Possible
<1> HIDE DEF n
<1>4. /\ i <= n /\ i <= ResultLimit /\ i <= PerFileLimit
  BY <1>1, <1>3
<1>5. Promise!ShownCount(f) \in Nat /\ i <= Promise!ShownCount(f)
  BY <1>1, <1>2, <1>4
<1>6. /\ HasMatch(files[f], i) => i < Promise!ShownCount(f)
      /\ i < Promise!ShownCount(f) => HasMatch(files[f], i) \/ OverLimit(files[f], i)
  BY <1>1, <1>2, <1>3, <1>4
<1>7. /\ OverPerFile(files[f], i) =>
           /\ Promise!CutShort(f) /\ i = Promise!ShownCount(f)
           /\ i # n /\ ~OverLimit(files[f], i)
      /\ i = n =>
           /\ ~Promise!CutShort(f) /\ i = Promise!ShownCount(f)
           /\ ~OverLimit(files[f], i)
  BY <1>1, <1>2, <1>3, <1>4
<1>8. /\ OverLimit(files[f], i) =>
           i = ResultLimit /\ i < Promise!ShownCount(f) /\ i # n
      /\ \/ HasMatch(files[f], i) \/ OverLimit(files[f], i)
         \/ OverPerFile(files[f], i) \/ i = n
  BY <1>1, <1>2, <1>3, <1>4
<1> QED
  BY <1>5, <1>6, <1>7, <1>8 DEF n

(* What is promised, file by file. *)
LEMMA PromisedFileByFile ==
  ASSUME files \in Worlds
  PROVE  /\ \A f \in FileIds : Promise!ShownCount(f) \in Nat
         /\ \A r : r \in Promise!Promised <=>
              /\ r \in FileIds \X (Nat \ {0})
              /\ r[2] <= Promise!ShownCount(r[1])
              /\ \A g \in FileIds : g < r[1] => ~Promise!EndsSearch(g)
<1>1. \A f \in FileIds : Promise!ShownCount(f) \in Nat
  BY FileLimits DEF Possible
<1>2. \A f \in FileIds : Promise!Reached(f) <=>
        \A g \in FileIds : g < f => ~Promise!EndsSearch(g)
  BY InputAssumption DEF FileIds, Promise!Reached
<1>3. ASSUME NEW r
      PROVE  r \in Promise!Promised <=>
               \E f \in FileIds : Promise!Reached(f) /\
                  \E i \in 1..Promise!ShownCount(f) : r = <<f, i>>
  BY DEF Promise!Promised, Promise!FileIds, FileIds
<1>4. ASSUME NEW r, r \in Promise!Promised
      PROVE  /\ r \in FileIds \X (Nat \ {0})
             /\ r[2] <= Promise!ShownCount(r[1])
             /\ \A g \in FileIds : g < r[1] => ~Promise!EndsSearch(g)
  <2>1. PICK f \in FileIds :
          Promise!Reached(f) /\ \E i \in 1..Promise!ShownCount(f) : r = <<f, i>>
    BY <1>3, <1>4
  <2>2. PICK i \in 1..Promise!ShownCount(f) : r = <<f, i>>
    BY <2>1
  <2>3. i \in Nat \ {0} /\ i <= Promise!ShownCount(f)
    BY <1>1
  <2> QED
    BY <1>2, <2>1, <2>2, <2>3
<1>5. ASSUME NEW r \in FileIds \X (Nat \ {0}), r[2] <= Promise!ShownCount(r[1]),
             \A g \in FileIds : g < r[1] => ~Promise!EndsSearch(g)
      PROVE  r \in Promise!Promised
  <2>1. r = <<r[1], r[2]>> /\ r[1] \in FileIds /\ r[2] \in Nat \ {0}
    OBVIOUS
  <2>2. r[2] \in 1..Promise!ShownCount(r[1])
    BY <1>1, <1>5, <2>1
  <2> QED
    BY <1>2, <1>3, <1>5, <2>1, <2>2
<1> QED
  BY <1>1, <1>4, <1>5

(* The last result delivered is one of them. *)
LEMMA LastDelivered ==
  ASSUME delivered \in Seq(FileIds \X Nat), NEW f \in Nat, DeliveredUpTo(f)
  PROVE  /\ Published(f) \in Nat
         /\ \A g \in Nat : g > f => Published(g) = 0
<1>1. Len(delivered) \in Nat /\ Published(f) \in 0..Len(delivered)
  BY DEF DeliveredUpTo
<1>2. ASSUME NEW g \in Nat, g > f PROVE Published(g) = 0
  <2>1. CASE delivered = <<>>
    BY <2>1 DEF Published
  <2>2. CASE delivered # <<>>
    <3>1. delivered[Len(delivered)] \in Delivered
      BY <1>1, <2>2 DEF Delivered
    <3>2. /\ delivered[Len(delivered)][1] \in FileIds
          /\ ~(delivered[Len(delivered)][1] > f)
      <4> DEFINE r == delivered[Len(delivered)]
      <4>1. r \in UpTo(f, Published(f))
        BY <3>1 DEF DeliveredUpTo
      <4> HIDE DEF r
      <4>2. r[1] \in FileIds /\ (r[1] = f \/ r[1] < f)
        BY <4>1 DEF UpTo
      <4>3. r[1] \in Nat
        BY <4>2 DEF FileIds
      <4> QED
        BY <4>2, <4>3 DEF r
    <3> QED
      BY <1>2, <3>2 DEF Published
  <2> QED
    BY <2>1, <2>2
<1> QED
  BY <1>1, <1>2

(* The next match of the file that is due is the next result promised. *)
LEMMA UpcomingIs ==
  ASSUME files \in Worlds, NEW f \in FileIds, DeliveredUpTo(f),
         Published(f) < Promise!ShownCount(f)
  PROVE  Promise!More /\ Promise!Upcoming = <<f, Published(f) + 1>>
<1> DEFINE p == Published(f)
           x == <<f, p + 1>>
<1>1. /\ p \in Nat /\ f \in Nat /\ Promise!ShownCount(f) \in Nat
      /\ Delivered = UpTo(f, p)
      /\ \A g \in FileIds : g < f => ~Promise!EndsSearch(g)
  BY PromisedFileByFile DEF DeliveredUpTo, FileIds
<1>2. Promise!Missing = Promise!Promised \ Delivered
  BY DEF Promise!Missing, Delivered
<1> HIDE DEF p
<1>3. x \in Promise!Missing
  <2>1. x \in Promise!Promised
    <3>1. x \in FileIds \X (Nat \ {0}) /\ x[1] = f /\ x[2] = p + 1
      BY <1>1
    <3>2. x[2] <= Promise!ShownCount(x[1])
      BY <1>1 DEF p
    <3> QED
      BY <1>1, <3>1, <3>2, PromisedFileByFile
  <2>2. x \notin UpTo(f, p)
    BY <1>1 DEF UpTo
  <2> QED
    BY <1>1, <1>2, <2>1, <2>2
<1>4. \A r \in Promise!Missing : x = r \/ Promise!Before(x, r)
  <2> SUFFICES ASSUME NEW r \in Promise!Missing PROVE x = r \/ Promise!Before(x, r)
    OBVIOUS
  <2>1. /\ r \in FileIds \X (Nat \ {0}) /\ r \notin UpTo(f, p)
        /\ r[2] <= Promise!ShownCount(r[1])
    BY <1>1, <1>2, PromisedFileByFile
  <2>2. r[1] \in Nat /\ r[2] \in Nat /\ r = <<r[1], r[2]>>
    BY <2>1 DEF FileIds
  <2>3. IF r[1] = f THEN r[2] > p ELSE r[1] > f
    BY <1>1, <2>1, <2>2 DEF UpTo
  <2>4. CASE r[1] = f
    <3>1. r[2] = p + 1 \/ p + 1 < r[2]
      BY <1>1, <2>2, <2>3, <2>4
    <3> QED
      BY <2>2, <2>4, <3>1 DEF Promise!Before
  <2>5. CASE r[1] # f
    BY <1>1, <2>2, <2>3, <2>5 DEF Promise!Before
  <2> QED
    BY <2>4, <2>5
<1>5. Promise!Upcoming = x
  <2>1. \A r \in Promise!Missing : Promise!Before(r, x) => r = x
    <3> SUFFICES ASSUME NEW r \in Promise!Missing, Promise!Before(r, x) PROVE r = x
      OBVIOUS
    <3>1. r \in FileIds \X (Nat \ {0})
      BY <1>2, PromisedFileByFile
    <3>2. r[1] \in Nat /\ r[2] \in Nat
      BY <3>1 DEF FileIds
    <3>3. ~Promise!Before(x, r)
      BY <1>1, <3>2 DEF Promise!Before
    <3> QED
      BY <1>4, <3>3
  <2>2. \A r \in Promise!Missing :
          (\A s \in Promise!Missing : r = s \/ Promise!Before(r, s)) => r = x
    BY <1>3, <2>1
  <2> HIDE DEF x
  <2> QED
    BY <1>3, <1>4, <2>2 DEF Promise!Upcoming
<1> QED
  BY <1>3, <1>5 DEF Promise!More, p

(* A file that ends the search, delivered to its end. *)
LEMMA NothingMissing ==
  ASSUME files \in Worlds, NEW f \in FileIds, DeliveredUpTo(f),
         Published(f) = Promise!ShownCount(f), Promise!EndsSearch(f)
  PROVE  ~Promise!More /\ Promise!EndedBy(files[f].ending)
<1>1. f \in Nat /\ Delivered = UpTo(f, Promise!ShownCount(f))
      /\ \A g \in FileIds : g < f => ~Promise!EndsSearch(g)
  BY DEF DeliveredUpTo, FileIds
<1>2. \A r \in Promise!Promised : r \in Delivered
  <2> SUFFICES ASSUME NEW r \in Promise!Promised PROVE r \in Delivered
    OBVIOUS
  <2>1. /\ r \in FileIds \X (Nat \ {0})
        /\ r[2] <= Promise!ShownCount(r[1])
        /\ \A g \in FileIds : g < r[1] => ~Promise!EndsSearch(g)
    BY PromisedFileByFile
  <2>2. r[1] \in Nat /\ ~(f < r[1])
    BY <2>1 DEF FileIds
  <2> QED
    BY <1>1, <2>1, <2>2 DEF UpTo
<1>3. ~Promise!More
  BY <1>2 DEF Promise!More, Promise!Missing, Delivered
<1>4. Promise!Reached(f)
  BY <1>1, InputAssumption DEF Promise!Reached, FileIds
<1> QED
  BY <1>3, <1>4 DEF Promise!EndedBy, Promise!FileIds, FileIds

(* A file that does not end the search, delivered to its end. *)
LEMMA NextFileIsDue ==
  ASSUME files \in Worlds, delivered \in Seq(FileIds \X Nat),
         NEW f \in FileIds, DeliveredUpTo(f),
         Published(f) = Promise!ShownCount(f), ~Promise!EndsSearch(f)
  PROVE  DeliveredBefore(f + 1)
<1>1. f \in Nat /\ Delivered = UpTo(f, Promise!ShownCount(f))
      /\ \A g \in FileIds : g < f => ~Promise!EndsSearch(g)
  BY DEF DeliveredUpTo, FileIds
<1>2. Published(f + 1) = 0
  BY <1>1, LastDelivered
<1>3. UpTo(f, Promise!ShownCount(f)) = UpTo(f + 1, 0)
  <2> SUFFICES ASSUME NEW r \in FileIds \X (Nat \ {0})
               PROVE  r \in UpTo(f, Promise!ShownCount(f)) <=> r \in UpTo(f + 1, 0)
    BY DEF UpTo
  <2>1. r[1] \in Nat /\ r[2] \in Nat \ {0}
    BY DEF FileIds
  <2>2. CASE r[1] = f
    BY <1>1, <2>1, <2>2 DEF UpTo
  <2>3. CASE r[1] = f + 1
    BY <1>1, <2>1, <2>3 DEF UpTo
  <2>4. CASE r[1] # f /\ r[1] # f + 1
    BY <1>1, <2>1, <2>4 DEF UpTo
  <2> QED
    BY <2>2, <2>3, <2>4
<1>4. \A g \in FileIds : g < f + 1 => ~Promise!EndsSearch(g)
  <2> SUFFICES ASSUME NEW g \in FileIds, g < f + 1 PROVE ~Promise!EndsSearch(g)
    OBVIOUS
  <2>1. g = f \/ g < f
    BY <1>1 DEF FileIds
  <2> QED
    BY <1>1, <2>1
<1>5. 0 \in 0..Len(delivered)
  OBVIOUS
<1> QED
  BY <1>1, <1>2, <1>3, <1>4, <1>5 DEF DeliveredBefore, DeliveredUpTo, Possible

(* Every file delivered to its end. *)
LEMMA AllDelivered ==
  ASSUME files \in Worlds, DeliveredBefore(NumFiles + 1)
  PROVE  Grounds("complete")
<1>1. \A f \in FileIds : f < NumFiles + 1
  BY InputAssumption DEF FileIds
<1>2. \A f \in FileIds : ~Promise!EndsSearch(f)
  BY <1>1 DEF DeliveredBefore, DeliveredUpTo
<1>3. \A r \in Promise!Promised : r \in Delivered
  <2> SUFFICES ASSUME NEW r \in Promise!Promised PROVE r \in UpTo(NumFiles + 1, 0)
    BY DEF DeliveredBefore, DeliveredUpTo
  <2>1. /\ r \in FileIds \X (Nat \ {0})
        /\ r[2] <= Promise!ShownCount(r[1])
    BY PromisedFileByFile
  <2>2. r[1] \in FileIds /\ r[1] # NumFiles + 1
    BY <2>1, InputAssumption DEF FileIds
  <2> QED
    BY <1>1, <2>1, <2>2 DEF UpTo
<1>4. ~Promise!More
  BY <1>3 DEF Promise!More, Promise!Missing, Delivered
<1> QED
  BY <1>2, <1>4 DEF Grounds

(* The sink takes the next match of the file that is due. *)
LEMMA DeliverNext ==
  ASSUME delivered \in Seq(FileIds \X Nat), NEW f \in FileIds, DeliveredUpTo(f),
         HasMatch(files[f], Published(f)),
         delivered' = Append(delivered, <<f, Published(f) + 1>>), files' = files
  PROVE  /\ DeliveredUpTo(f)' /\ Published(f)' = Published(f) + 1
         /\ \A g \in Nat : g > f => Published(g)' = 0 /\ Published(g) = 0
<1> DEFINE p == Published(f)
           x == <<f, p + 1>>
<1>1. /\ p \in Nat /\ p <= Len(delivered) /\ Len(delivered) \in Nat /\ f \in Nat
      /\ Delivered = UpTo(f, p)
      /\ \A g \in FileIds : g < f => ~Promise!EndsSearch(g)
  BY DEF DeliveredUpTo, FileIds
<1>0. x \in FileIds \X Nat
  BY <1>1
<1>2. /\ delivered' \in Seq(FileIds \X Nat)
      /\ Len(delivered') = Len(delivered) + 1
      /\ \A i \in 1..Len(delivered) : delivered'[i] = delivered[i]
      /\ delivered'[Len(delivered) + 1] = x
  BY <1>0, SequenceAppend
<1>3. delivered' # <<>> /\ delivered'[Len(delivered')] = x
  BY <1>1, <1>2
<1>4. Published(f)' = p + 1
  <2>1. Published(f)' = IF delivered' # <<>> /\ delivered'[Len(delivered')][1] = f
                        THEN delivered'[Len(delivered')][2] ELSE 0
    BY DEF Published
  <2> HIDE DEF p
  <2> QED
    BY <1>3, <2>1
<1>5. \A g \in Nat : g > f => Published(g)' = 0 /\ Published(g) = 0
  <2>1. \A g \in Nat : g > f => Published(g) = 0
    BY <1>1, LastDelivered
  <2>2. ASSUME NEW g \in Nat, g > f PROVE Published(g)' = 0
    <3>1. delivered'[Len(delivered')][1] # g
      BY <1>1, <1>3, <2>2
    <3> QED
      BY <3>1 DEF Published
  <2> QED
    BY <2>1, <2>2
<1>6. Delivered' = UpTo(f, Published(f))'
  <2>1. Delivered' = Delivered \cup {x}
    <3>1. \A r : r \in Delivered' <=> \E k \in 1..Len(delivered') : delivered'[k] = r
      BY DEF Delivered
    <3>2. \A r : r \in Delivered <=> \E k \in 1..Len(delivered) : delivered[k] = r
      BY DEF Delivered
    <3>3. \A r \in Delivered : r \in Delivered'
      BY <1>1, <1>2, <3>1, <3>2
    <3>4. x \in Delivered'
      BY <1>1, <1>2, <3>1
    <3>5. \A r \in Delivered' : r \in Delivered \/ r = x
      <4> SUFFICES ASSUME NEW k \in 1..Len(delivered')
                   PROVE  delivered'[k] \in Delivered \/ delivered'[k] = x
        BY <3>1
      <4>1. k \in 1..Len(delivered) \/ k = Len(delivered) + 1
        BY <1>1, <1>2
      <4> QED
        BY <1>2, <3>2, <4>1
    <3> QED
      BY <3>3, <3>4, <3>5
  <2>2. UpTo(f, p + 1) = UpTo(f, p) \cup {x}
    <3>1. x \in FileIds \X (Nat \ {0})
      BY <1>1
    <3>2. \A r \in FileIds \X (Nat \ {0}) : r = <<r[1], r[2]>> /\ r[2] \in Nat
      OBVIOUS
    <3>3. \A n \in Nat : n <= p + 1 <=> n <= p \/ n = p + 1
      BY <1>1
    <3> HIDE DEF p
    <3>4. ASSUME NEW r \in FileIds \X (Nat \ {0})
          PROVE  r \in UpTo(f, p + 1) <=> r \in UpTo(f, p) \/ r = x
      <4>1. CASE r[1] = f
        <5>1. r = x <=> r[2] = p + 1
          BY <3>2, <4>1
        <5> QED
          BY <3>2, <3>3, <4>1, <5>1 DEF UpTo
      <4>2. CASE r[1] # f
        <5>1. r # x
          BY <4>2
        <5> QED
          BY <4>2, <5>1 DEF UpTo
      <4> QED
        BY <4>1, <4>2
    <3>5. UpTo(f, p + 1) \subseteq FileIds \X (Nat \ {0})
          /\ UpTo(f, p) \subseteq FileIds \X (Nat \ {0})
      BY DEF UpTo
    <3> QED
      BY <3>1, <3>4, <3>5
  <2>3. \A g : Promise!ShownCount(g)' = Promise!ShownCount(g)
    BY DEF Promise!ShownCount, Promise!CutShort
  <2>4. UpTo(f, Published(f))' = {r \in FileIds \X (Nat \ {0}) :
          IF r[1] = f THEN r[2] <= Published(f)'
          ELSE r[1] < f /\ r[2] <= Promise!ShownCount(r[1])'}
    BY DEF UpTo
  <2> QED
    <3>1. UpTo(f, Published(f))' = UpTo(f, p + 1)
      <4> HIDE DEF p
      <4> QED
        BY <1>4, <2>3, <2>4 DEF UpTo
    <3> HIDE DEF p
    <3> QED
      BY <1>1, <2>1, <2>2, <3>1
<1>7. Published(f)' \in 0..Len(delivered')
  <2> HIDE DEF p
  <2> QED
    BY <1>1, <1>2, <1>4
<1>8. Possible(f, Published(f))'
  <2>1. HasMatch(files'[f], Published(f)' - 1)
    <3>1. Published(f)' - 1 = Published(f)
      BY <1>1, <1>4
    <3> QED
      BY <3>1
  <2> QED
    BY <2>1 DEF Possible
<1>9. \A g \in FileIds : g < f => ~Promise!EndsSearch(g)'
  BY <1>1 DEF Promise!EndsSearch, Promise!CutShort
<1> QED
  BY <1>4, <1>5, <1>6, <1>7, <1>8, <1>9 DEF DeliveredUpTo

(* What depends on the files and on what has been delivered only. *)
LEMMA SameDelivered ==
  ASSUME UNCHANGED <<files, delivered>>
  PROVE  /\ \A f : DeliveredUpTo(f)' <=> DeliveredUpTo(f)
         /\ \A f : DeliveredBefore(f)' <=> DeliveredBefore(f)
         /\ \A f : Published(f)' = Published(f)
<1>1. \A f : Published(f)' = Published(f)
  BY DEF Published
<1>2. \A f : Promise!EndsSearch(f)' <=> Promise!EndsSearch(f)
  BY DEF Promise!EndsSearch, Promise!CutShort
<1>3. \A f, i : UpTo(f, i)' = UpTo(f, i)
  BY DEF UpTo, Promise!ShownCount, Promise!CutShort
<1>4. Delivered' = Delivered
  BY DEF Delivered
<1>5. \A f, i : Possible(f, i)' <=> Possible(f, i)
  BY DEF Possible
<1>6. ASSUME NEW f PROVE DeliveredUpTo(f)' <=> DeliveredUpTo(f)
  <2>1. UpTo(f, Published(f))' = UpTo(f, Published(f))
    BY <1>1 DEF UpTo, Promise!ShownCount, Promise!CutShort
  <2>2. Possible(f, Published(f))' <=> Possible(f, Published(f))
    BY <1>1 DEF Possible
  <2> QED
    BY <1>1, <1>2, <1>4, <2>1, <2>2 DEF DeliveredUpTo
<1> QED
  BY <1>1, <1>6 DEF DeliveredBefore

LEMMA SameGrounds ==
  ASSUME UNCHANGED <<files, delivered, resultBytes>>, NEW how
  PROVE  Grounds(how)' <=> Grounds(how)
<1>1. /\ Promise!Missing' = Promise!Missing
      /\ \A f : Promise!EndsSearch(f)' <=> Promise!EndsSearch(f)
      /\ \A r : Promise!Bytes(r)' = Promise!Bytes(r)
  BY DEF Promise!Missing, Promise!Promised, Promise!ShownCount, Promise!CutShort,
         Promise!Reached, Promise!EndsSearch, Promise!Bytes
<1>2. (Promise!More' <=> Promise!More) /\ Promise!Upcoming' = Promise!Upcoming
  BY <1>1 DEF Promise!More, Promise!Upcoming
<1>3. Promise!UpcomingFits' <=> Promise!UpcomingFits
  BY <1>1, <1>2 DEF Promise!UpcomingFits, Promise!Bytes
<1>4. \A e : Promise!EndedBy(e)' <=> Promise!EndedBy(e)
  BY <1>1 DEF Promise!EndedBy, Promise!Reached
<1>5. Promise!LostInThrow' <=> Promise!LostInThrow
  BY <1>1 DEF Promise!LostInThrow, Promise!Reached
<1> QED
  BY <1>1, <1>2, <1>3, <1>4, <1>5 DEF Grounds

LEMMA GroundsAre ==
  /\ Grounds("limit") <=> Promise!More /\ Len(delivered) = ResultLimit
  /\ Grounds("memory") <=>
       Promise!More /\ Len(delivered) < ResultLimit /\ ~Promise!UpcomingFits
  /\ Grounds("complete") <=>
       ~Promise!More /\ \A f \in FileIds : ~Promise!EndsSearch(f)
  /\ Grounds("halted") <=> ~Promise!More /\ Promise!EndedBy("stop")
  /\ Grounds("failed") <=>
       Promise!EndedBy("throw") /\ (~Promise!More \/ Promise!LostInThrow)
BY DEF Grounds

(* The types of what the order is stated about. *)
LEMMA OrderTypes ==
  ASSUME SInv
  PROVE  /\ files \in Worlds /\ delivered \in Seq(FileIds \X Nat)
         /\ nextFile \in Nat /\ nextFile \in 1..(NumFiles + 1)
         /\ Len(tasks) \in Nat /\ Submitted \in Int /\ Due \in Int
         /\ current \in Nat /\ (current # None <=> current \in FileIds)
         /\ Len(poolQueue) \in Nat
         /\ Len(delivered) \in Nat
<1>1. /\ files \in Worlds /\ delivered \in Seq(FileIds \X Nat)
      /\ nextFile \in Nat /\ nextFile \in 1..(NumFiles + 1)
      /\ Len(tasks) \in Nat /\ Len(poolQueue) \in Nat /\ Len(delivered) \in Nat
      /\ current \in FileIds \cup {None}
  BY DEF SInv, TypeOK
<1>2. current \in Nat /\ (current # None <=> current \in FileIds)
  BY <1>1 DEF FileIds, None
<1>3. Submitted \in Int
  BY <1>1 DEF Submitted
<1> QED
  BY <1>1, <1>2, <1>3 DEF Due

(* The event queues stay in order when the calling thread only goes on to  *)
(* a later file.                                                           *)
LEMMA QueuesStep ==
  ASSUME SInv, SInv', OrderInv, Searching, ~stop, Due' >= Due,
         UNCHANGED <<files, delivered, eventsClosed, worker>>,
         \A f \in FileIds : f >= Due' => events'[f] = events[f]
  PROVE  (QueuesInOrder /\ WorkersInStep)'
<1>1. QueuesInOrder /\ WorkersInStep
  BY DEF OrderInv
<1>2. Due \in Int /\ Due' \in Int /\ Due' >= Due
  <2>1. /\ nextFile' \in Int /\ Len(tasks') \in Int /\ current' \in Int
    BY DEF SInv, TypeOK, FileIds, None
  <2>2. Submitted' \in Int
    BY <2>1 DEF Submitted
  <2> QED
    BY <2>1, <2>2, OrderTypes DEF Due
<1>3. \A f : Published(f)' = Published(f)
  BY SameDelivered
<1>4. \A f, i : Possible(f, i)' <=> Possible(f, i)
  BY DEF Possible
<1>5. \A f \in FileIds : f >= Due' => (QueueInOrder(f)' <=> QueueInOrder(f))
  BY <1>3 DEF QueueInOrder, NextEvent
<1>6. \A f \in FileIds : f >= Due' => (Completed(f)' <=> Completed(f))
  BY DEF Completed
<1>7. QueuesInOrder'
  <2>1. \A f \in FileIds : f >= Due' => f >= Due
    BY <1>2 DEF FileIds
  <2> QED
    BY <1>1, <1>5, <1>6, <2>1 DEF QueuesInOrder
<1>8. WorkersInStep'
  <2>1. \A w \in Workers : Busy(w)' <=> Busy(w)
    BY DEF Busy
  <2>2. ASSUME NEW w, worker[w].file \in FileIds, worker[w].file >= Due'
        PROVE  WorkerInStep(w)' <=> WorkerInStep(w)
    BY <1>3, <2>2 DEF WorkerInStep, Completed, Possible
  <2>3. ASSUME NEW w \in Workers, Busy(w)', worker'[w].file >= Due' PROVE WorkerInStep(w)'
    <3>1. Busy(w) /\ worker[w].file \in FileIds
      BY <2>1, <2>3 DEF SInv, BusyWorkersHaveFiles
    <3>2. worker[w].file >= Due
      BY <1>2, <2>3, <3>1 DEF FileIds
    <3> QED
      BY <1>1, <2>2, <2>3, <3>1, <3>2 DEF WorkersInStep
  <2>4. \A v, w \in Workers : Busy(v)' /\ Busy(w)' /\ v # w => worker'[v].file # worker'[w].file
    BY <1>1, <2>1 DEF WorkersInStep
  <2> QED
    BY <2>3, <2>4 DEF WorkersInStep
<1> QED
  BY <1>7, <1>8

(* What the caller will be told stays true. *)
LEMMA FlagsStep ==
  ASSUME OrderInv,
         UNCHANGED <<files, delivered, resultBytes, flags, movedFrom, emptied>>,
         stop => stop', cancelled => cancelled', stop' => stop \/ cancelled',
         Searching' /\ pc' # "flush" => Searching /\ pc # "flush",
         pc = "flush" => pc' = "flush" /\ UNCHANGED <<nextFile, at>>,
         Searching /\ ~Searching' /\ ~cancelled' => Grounds("complete"),
         ~stop' /\ (pc' = "drain" \/ (Publishing' /\ resume' = "drain")) =>
           nextFile' = NumFiles + 1
  PROVE  FlagsAreTrue'
<1>1. FlagsAreTrue
  BY DEF OrderInv
<1>2. \A how : Grounds(how)' <=> Grounds(how)
  BY SameGrounds
<1>3. ~Searching' /\ flags' = {} /\ ~cancelled' => Grounds("complete")
  BY <1>1 DEF FlagsAreTrue
<1>4. stop' /\ flags' = {} => cancelled'
  BY <1>1 DEF FlagsAreTrue
<1>5. /\ "failed" \in flags' => Grounds("failed")' /\ flags' = {"failed"}
      /\ "memoryLimitReached" \in flags' =>
           Grounds("memory")' \/ emptied' # {} \/ "refused" \in flags'
      /\ "halted" \in flags' => Grounds("halted")' /\ flags' = {"halted"}
  BY <1>1, <1>2 DEF FlagsAreTrue
<1>6. "limitReached" \in flags' =>
        \/ Grounds("limit")' \/ TurnedDown'
        \/ pc' = "flush" /\ OverLimit(files'[nextFile'], at')
  <2>1. "limitReached" \in flags =>
          \/ Grounds("limit") \/ TurnedDown
          \/ pc = "flush" /\ OverLimit(files[nextFile], at)
    BY <1>1 DEF FlagsAreTrue
  <2>2. TurnedDown' <=> TurnedDown
    BY DEF TurnedDown
  <2>3. pc = "flush" /\ OverLimit(files[nextFile], at) =>
          pc' = "flush" /\ OverLimit(files'[nextFile'], at')
    OBVIOUS
  <2> QED
    BY <1>2, <2>1, <2>2, <2>3
<1>7. Searching' /\ pc' # "flush" => flags' = {} /\ movedFrom' = 0 /\ emptied' = {}
  BY <1>1 DEF FlagsAreTrue
<1> QED
  BY <1>2, <1>3, <1>4, <1>5, <1>6, <1>7 DEF FlagsAreTrue

(* Steps of the calling thread that publish nothing. *)
LEMMA ControlOrder ==
  ASSUME SInv, SInv', OrderInv, Searching, pc # "flush", pc' # "flush",
         UNCHANGED <<files, delivered, resultBytes, flags, events, eventsClosed, worker,
                     cancelled, stop, movedFrom, emptied>>,
         ~stop /\ Searching' => Due' >= Due,
         DeliveredInOrder',
         pc' = "pop" => ~stop /\ Due' = current',
         ~Searching' /\ ~cancelled => Grounds("complete"),
         ~stop /\ (pc' = "drain" \/ (Publishing' /\ resume' = "drain")) =>
           nextFile' = NumFiles + 1
  PROVE  OrderInv'
<1>1. FlagsAreTrue'
  BY FlagsStep
<1>2. ~stop' /\ Searching' => (QueuesInOrder /\ WorkersInStep)'
  BY QueuesStep
<1>3. pc' = "pop" => QueueInOrder(current)'
  <2> SUFFICES ASSUME pc' = "pop" PROVE QueueInOrder(current)'
    OBVIOUS
  <2>1. current' \in FileIds /\ Searching'
    BY DEF SInv, CurrentMeansPublishing, Publishing, Searching
  <2>2. QueuesInOrder' /\ current' >= Due'
    BY <1>2, <2>1 DEF FileIds
  <2> QED
    BY <2>1, <2>2 DEF QueuesInOrder
<1>4. Releasing'
  BY DEF Releasing
<1> QED
  BY <1>1, <1>2, <1>3, <1>4 DEF OrderInv

(* The front of the files in flight is the file that is due. *)
LEMMA FrontIsDue ==
  ASSUME SInv, ~stop, tasks # <<>>, current = None
  PROVE  Head(tasks) = Due /\ Head(tasks) \in FileIds
<1>1. /\ Len(tasks) \in Nat \ {0} /\ Head(tasks) \in FileIds /\ Head(tasks) = tasks[1]
      /\ 1 \in 1..Len(tasks)
  BY SequenceEnds DEF SInv, TypeOK
<1>2. Head(tasks) = nextFile - 1 - Submitted + 1
  BY <1>1 DEF SInv, ScannerOrder
<1>3. nextFile \in Int /\ Submitted \in Int
  BY OrderTypes
<1> QED
  BY <1>1, <1>2, <1>3 DEF Due

LEMMA PublishFrontOrder ==
  ASSUME SInv, SInv', OrderInv, NEW k \in {"ahead", "drain"}, pc = k, tasks # <<>>,
         PublishFront(tasks, k),
         UNCHANGED <<files, scanVars, verdict, movedFrom, emptied, continueSearch,
                     poolVars, worker, events, eventsClosed, stop, cancelVars, outputVars,
                     flags>>
  PROVE  OrderInv'
<1>1. /\ current' = Head(tasks) /\ current = None /\ Searching /\ Searching'
      /\ pc' = "publish" /\ resume' = k /\ nextFile' = nextFile
      /\ UNCHANGED <<files, delivered, resultBytes, flags, events, eventsClosed, worker,
                     cancelled, stop, movedFrom, emptied>>
  BY DEF PublishFront, SInv, CurrentMeansPublishing, Searching, outputVars, scanVars
<1>2. ~stop => Due' = Due /\ current' = Due /\ DeliveredBefore(Due)
  <2> SUFFICES ASSUME ~stop PROVE Due' = Due /\ current' = Due /\ DeliveredBefore(Due)
    OBVIOUS
  <2>1. Head(tasks) = Due /\ Head(tasks) \in FileIds
    BY <1>1, FrontIsDue
  <2>2. Due' = current'
    BY <1>1, <2>1 DEF Due, FileIds, None
  <2>3. DeliveredBefore(Due)
    BY DEF OrderInv, DeliveredInOrder
  <2> QED
    BY <1>1, <2>1, <2>2, <2>3
<1>3. \A f : DeliveredBefore(f)' <=> DeliveredBefore(f)
  BY <1>1, SameDelivered
<1>4. DeliveredInOrder'
  <2>1. ~stop => DeliveredUpTo(current)' /\ Published(current)' = 0
    BY <1>2, <1>3 DEF DeliveredBefore
  <2>2. Len(delivered') <= ResultLimit
    BY <1>1 DEF OrderInv, DeliveredInOrder
  <2> QED
    BY <1>1, <2>1, <2>2 DEF DeliveredInOrder
<1>5. ~stop /\ resume' = "drain" => nextFile' = NumFiles + 1
  BY <1>1 DEF OrderInv, FlagsAreTrue
<1>6. ~stop => Due' >= Due
  BY <1>2, OrderTypes
<1> QED
  BY <1>1, <1>4, <1>5, <1>6, ControlOrder DEF Publishing

LEMMA ScanOrder ==
  ASSUME SInv, SInv', OrderInv, ScanParallel \/ ScanSynchronous \/ ScanEnds
  PROVE  OrderInv'
<1>1. /\ pc = "scan" /\ pc' \in {"submit", "ahead", "drain"} /\ current = None
      /\ nextFile' = nextFile /\ current' = current /\ Searching /\ Searching'
      /\ UNCHANGED <<files, delivered, resultBytes, flags, events, eventsClosed, worker,
                     cancelled, stop, movedFrom, emptied>>
  BY DEF ScanParallel, ScanSynchronous, ScanEnds, SInv, CurrentMeansPublishing, Searching,
         outputVars, scanVars
<1>2. Due' = Due /\ Due \in Int
  <2>1. Submitted' = Submitted
    <3>1. CASE ScanParallel
      <4>1. /\ Len(tasks') = Len(tasks) + 1 /\ Len(tasks) \in Nat /\ pc' = "submit"
        <5>1. nextFile \in FileIds /\ tasks' = Append(tasks, nextFile) /\ tasks \in Seq(FileIds)
          BY <3>1 DEF ScanParallel, SInv, TypeOK, FileIds
        <5> QED
          BY <3>1, <5>1, SequenceAppend DEF ScanParallel
      <4> QED
        BY <1>1, <4>1 DEF Submitted
    <3>2. CASE ScanSynchronous \/ ScanEnds
      BY <3>2 DEF ScanSynchronous, ScanEnds, Submitted
    <3> QED
      BY <1>1, <3>1, <3>2
  <2> QED
    BY <1>1, <2>1, OrderTypes DEF Due
<1>3. \A f : DeliveredBefore(f)' <=> DeliveredBefore(f)
  BY <1>1, SameDelivered
<1>4. ~stop => DeliveredBefore(Due)
  BY <1>1 DEF OrderInv, DeliveredInOrder
<1>5. DeliveredInOrder'
  <2>1. ~stop => DeliveredBefore(Due)'
    BY <1>2, <1>3, <1>4
  <2>2. pc' = "ahead" /\ tasks' = <<>> => DeliveredBefore(nextFile)'
    <3> SUFFICES ASSUME pc' = "ahead", tasks' = <<>> PROVE DeliveredBefore(nextFile)'
      OBVIOUS
    <3>1. ~stop /\ tasks = <<>>
      BY DEF ScanParallel, ScanSynchronous, ScanEnds
    <3>2. Due = nextFile
      BY <1>1, <3>1, OrderTypes DEF Due, Submitted
    <3> QED
      BY <1>1, <1>3, <1>4, <3>1, <3>2
  <2>3. Len(delivered') <= ResultLimit
    BY <1>1 DEF OrderInv, DeliveredInOrder
  <2> QED
    BY <1>1, <2>1, <2>2, <2>3 DEF DeliveredInOrder, Publishing
<1>6. ~stop /\ pc' = "drain" => nextFile' = NumFiles + 1
  BY <1>1, OrderTypes, InputAssumption DEF ScanParallel, ScanSynchronous, ScanEnds
<1>7. Due' >= Due
  BY <1>2
<1> QED
  BY <1>1, <1>5, <1>6, <1>7, ControlOrder DEF Publishing

LEMMA SubmitOrder == ASSUME SInv, SInv', OrderInv, Submit PROVE OrderInv'
<1>1. /\ pc = "submit" /\ ~stop /\ ~stop' /\ current = None /\ tasks # <<>>
      /\ Searching /\ Searching'
      /\ UNCHANGED <<files, delivered, resultBytes, flags, events, eventsClosed, worker,
                     cancelled, stop, movedFrom, emptied>>
      /\ nextFile' = nextFile + 1
      /\ \/ current' = Head(tasks) /\ pc' = "publish" /\ resume' = "scan"
         \/ UNCHANGED <<current, tasks>> /\ pc' = "scan"
  BY DEF Submit, PublishFront, SInv, CurrentMeansPublishing, FewInFlight, Searching, outputVars
<1>2. Head(tasks) = Due /\ Head(tasks) \in FileIds /\ Due \in Int
  BY <1>1, FrontIsDue, OrderTypes
<1>3. Due' = Due
  <2>1. CASE current' = Head(tasks)
    BY <1>2, <2>1 DEF Due, FileIds, None
  <2>2. CASE UNCHANGED <<current, tasks>> /\ pc' = "scan"
    <3>1. Submitted' = Len(tasks) /\ Submitted = Len(tasks) - 1
      BY <1>1, <2>2 DEF Submitted
    <3> QED
      BY <1>1, <2>2, <3>1, OrderTypes DEF Due
  <2> QED
    BY <1>1, <2>1, <2>2
<1>4. DeliveredBefore(Due) /\ DeliveredUpTo(Due)
  BY <1>1 DEF OrderInv, DeliveredInOrder, DeliveredBefore
<1>5. DeliveredBefore(Due)' /\ DeliveredUpTo(Due)'
  BY <1>1, <1>3, <1>4, SameDelivered
<1>6. DeliveredInOrder'
  <2>1. pc' = "publish" => DeliveredUpTo(current)' /\ Published(current)' = 0
    <3>1. pc' = "publish" => current' = Due'
      BY <1>1, <1>2, <1>3
    <3> QED
      BY <1>5, <3>1 DEF DeliveredBefore
  <2>2. Len(delivered') <= ResultLimit
    BY <1>1 DEF OrderInv, DeliveredInOrder
  <2> QED
    BY <1>1, <1>5, <2>1, <2>2 DEF DeliveredInOrder, Publishing
<1>7. Due' >= Due
  BY <1>2, <1>3
<1> QED
  BY <1>1, <1>6, <1>7, ControlOrder DEF Publishing

LEMMA SubmitRefusedOrder == ASSUME SInv, SInv', OrderInv, SubmitRefused PROVE OrderInv'
<1>1. /\ stop /\ pc = "submit" /\ pc' = "drain"
      /\ UNCHANGED <<files, delivered, resultBytes, flags, events, eventsClosed, worker,
                     cancelled, stop, movedFrom, emptied>>
  BY DEF SubmitRefused, outputVars
<1>2. DeliveredInOrder'
  BY <1>1 DEF DeliveredInOrder, OrderInv
<1> QED
  BY <1>1, <1>2, ControlOrder DEF Searching

LEMMA AheadOrder == ASSUME SInv, SInv', OrderInv, Ahead PROVE OrderInv'
<1>1. CASE tasks # <<>>
  BY <1>1, PublishFrontOrder DEF Ahead, scanVars, poolVars, outputVars
<1>2. CASE tasks = <<>>
  <2>1. /\ pc = "ahead" /\ pc' = "sync" /\ at' = 0 /\ taken' = 0 /\ current = None
        /\ Searching /\ Searching'
        /\ UNCHANGED <<files, delivered, resultBytes, flags, events, eventsClosed, worker,
                       cancelled, stop, current, tasks, nextFile, movedFrom,
                       emptied>>
    BY <1>2 DEF Ahead, SInv, CurrentMeansPublishing, Searching, outputVars, scanVars
  <2>2. DeliveredUpTo(nextFile) /\ Published(nextFile) = 0
    BY <1>2, <2>1 DEF OrderInv, DeliveredInOrder, DeliveredBefore
  <2>3. DeliveredUpTo(nextFile)' /\ Published(nextFile)' = 0
    BY <2>1, <2>2, SameDelivered
  <2>4. DeliveredInOrder'
    BY <2>1, <2>3 DEF DeliveredInOrder, OrderInv, Publishing, Possible
  <2>5. Due' >= Due
    <3>1. Due' = Due
      BY <2>1 DEF Due, Submitted
    <3> QED
      BY <3>1, OrderTypes
  <2> QED
    BY <2>1, <2>4, <2>5, ControlOrder DEF Publishing
<1> QED
  BY <1>1, <1>2

LEMMA DrainOrder == ASSUME SInv, SInv', OrderInv, Drain PROVE OrderInv'
<1>1. CASE tasks # <<>>
  BY <1>1, PublishFrontOrder DEF Drain, scanVars, poolVars, outputVars
<1>2. CASE tasks = <<>>
  <2>1. /\ pc = "drain" /\ pc' = "join" /\ current = None
        /\ Searching /\ ~Searching'
        /\ UNCHANGED <<files, delivered, resultBytes, flags, events, eventsClosed, worker,
                       cancelled, stop, movedFrom, emptied>>
    BY <1>2 DEF Drain, SInv, CurrentMeansPublishing, Searching, outputVars, scanVars
  <2>2. ASSUME ~cancelled PROVE Grounds("complete")
    <3>1. ~stop
      BY <2>1, <2>2 DEF OrderInv, FlagsAreTrue
    <3>2. Due = NumFiles + 1
      BY <1>2, <2>1, <3>1, OrderTypes DEF OrderInv, FlagsAreTrue, Due, Submitted
    <3>3. DeliveredBefore(NumFiles + 1)
      BY <2>1, <3>1, <3>2 DEF OrderInv, DeliveredInOrder
    <3> QED
      BY <3>3, AllDelivered, OrderTypes
  <2>3. DeliveredInOrder'
    BY <2>1 DEF DeliveredInOrder, OrderInv, Publishing
  <2> QED
    BY <2>1, <2>2, <2>3, ControlOrder DEF Publishing
<1> QED
  BY <1>1, <1>2

(* The loop of publishFileTask. *)
LEMMA PublishLoopOrder == ASSUME SInv, SInv', OrderInv, PublishLoop PROVE OrderInv'
<1>1. /\ pc = "publish" /\ Searching /\ current \in FileIds
      /\ UNCHANGED <<files, delivered, resultBytes, flags, events, eventsClosed, worker,
                     cancelled, stop, resume, nextFile, movedFrom, emptied>>
  BY DEF PublishLoop, Searching, outputVars, scanVars, SInv, CurrentMeansPublishing, Publishing
<1>2. CASE ~stop
  <2>1. /\ pc' = "pop" /\ current' = current /\ Searching' /\ current' # None
    BY <1>1, <1>2 DEF PublishLoop, Searching, FileIds, None
  <2>2. Due' = Due /\ Due = current
    BY <2>1 DEF Due
  <2>3. DeliveredUpTo(current)' /\ (current' >= FirstUntaken' => Published(current)' = 0)
    <3>1. FirstUntaken' = FirstUntaken
      BY DEF PublishLoop, FirstUntaken, scanVars, poolVars
    <3> QED
      BY <1>1, <1>2, <2>1, <3>1, SameDelivered DEF OrderInv, DeliveredInOrder, Publishing
  <2>4. DeliveredInOrder'
    BY <1>1, <2>1, <2>3 DEF DeliveredInOrder, OrderInv, Publishing
  <2>5. ~stop /\ resume' = "drain" => nextFile' = NumFiles + 1
    BY <1>1 DEF OrderInv, FlagsAreTrue, Publishing
  <2>6. Due' >= Due /\ Due' = current'
    BY <2>1, <2>2, OrderTypes
  <2> QED
    BY <1>1, <1>2, <2>1, <2>4, <2>5, <2>6, ControlOrder DEF Publishing
<1>3. CASE stop
  <2>1. pc' = "join" /\ ~Searching'
    BY <1>1, <1>3 DEF PublishLoop, Searching
  <2>2. cancelled
    BY <1>1, <1>3 DEF OrderInv, FlagsAreTrue
  <2>3. DeliveredInOrder'
    BY <1>1, <1>3, <2>1 DEF DeliveredInOrder, OrderInv, Publishing
  <2> QED
    BY <1>1, <1>3, <2>1, <2>2, <2>3, ControlOrder DEF Publishing
<1> QED
  BY <1>2, <1>3

(* While the search goes on, an event queue is closed only behind its      *)
(* completion, so pop never comes back with empty hands.                   *)
LEMMA PopEmptyOrder == ASSUME SInv, SInv', OrderInv, PopEmpty PROVE OrderInv'
<1>1. /\ pc = "pop" /\ Searching /\ current \in FileIds /\ current # None
      /\ events[current] = <<>> /\ (stop \/ eventsClosed[current])
      /\ UNCHANGED <<files, delivered, resultBytes, flags, events, eventsClosed, worker,
                     cancelled, stop, resume, nextFile, movedFrom, emptied>>
  BY DEF PopEmpty, Searching, outputVars, scanVars, SInv, CurrentMeansPublishing, Publishing,
         FileIds, None
<1>2. stop
  <2> SUFFICES ASSUME ~stop PROVE FALSE
    OBVIOUS
  <2>1. Due = current /\ current >= current
    BY <1>1 DEF Due, FileIds
  <2>2. Completed(current)
    BY <1>1, <2>1 DEF OrderInv, QueuesInOrder
  <2> QED
    BY <1>1, <2>2 DEF Completed
<1>3. pc' = "join" /\ ~Searching' /\ cancelled
  BY <1>1, <1>2 DEF PopEmpty, Searching, OrderInv, FlagsAreTrue
<1>4. DeliveredInOrder'
  BY <1>1, <1>2, <1>3 DEF DeliveredInOrder, OrderInv, Publishing
<1> QED
  BY <1>1, <1>2, <1>3, <1>4, ControlOrder DEF Publishing

(* The end of the search, the cancellation, and steps that change nothing. *)
LEMMA OtherOrder ==
  ASSUME SInv, SInv', OrderInv, ShutPool \/ Joined \/ Cancel \/ UNCHANGED vars
  PROVE  OrderInv'
<1>1. /\ UNCHANGED <<files, delivered, resultBytes, flags, events, eventsClosed, worker,
                     resume, nextFile, at, taken, movedFrom, emptied, verdict, tasks, current,
                     poolQueue>>
      /\ Searching' <=> Searching
      /\ \/ UNCHANGED <<pc, stop, cancelled>>
         \/ ~Searching /\ ~Searching' /\ UNCHANGED <<stop, cancelled>>
         \/ stop' /\ cancelled' /\ UNCHANGED pc
  BY DEF ShutPool, Joined, Cancel, vars, Searching, outputVars, scanVars, poolVars
<1>2. (stop => stop') /\ (cancelled => cancelled') /\ (stop' => stop \/ cancelled')
  BY <1>1
<1>3. \A f : /\ DeliveredUpTo(f)' <=> DeliveredUpTo(f)
             /\ DeliveredBefore(f)' <=> DeliveredBefore(f)
             /\ Published(f)' = Published(f)
  BY <1>1, SameDelivered
<1>10. Possible(nextFile, at)' <=> Possible(nextFile, at)
  BY <1>1 DEF Possible
<1>4. Due' = Due \/ ~Searching' \/ stop'
  BY <1>1 DEF Due, Submitted
<1>5. DeliveredInOrder'
  <2>1. CASE ~Searching'
    BY <1>1, <2>1 DEF Searching, DeliveredInOrder, OrderInv, Publishing
  <2>2. CASE Searching'
    <3>1. pc' = pc
      BY <1>1, <2>2
    <3>2. ~stop' => Due' = Due
      BY <1>1, <1>4, <2>2
    <3>3. FirstUntaken' = FirstUntaken
      BY <1>1 DEF FirstUntaken
    <3> QED
      BY <1>1, <1>2, <1>3, <1>10, <3>1, <3>2, <3>3
      DEF DeliveredInOrder, OrderInv, Publishing
  <2> QED
    BY <2>1, <2>2
<1>6. FlagsAreTrue'
  <2>1. ~stop' /\ (pc' = "drain" \/ (Publishing' /\ resume' = "drain")) =>
          nextFile' = NumFiles + 1
    BY <1>1, <1>2 DEF OrderInv, FlagsAreTrue, Publishing, Searching
  <2>2. /\ Searching' /\ pc' # "flush" => Searching /\ pc # "flush"
        /\ pc = "flush" => pc' = "flush"
    BY <1>1 DEF Searching
  <2> QED
    BY <1>1, <1>2, <2>1, <2>2, FlagsStep
<1>7. ~stop' /\ Searching' => (QueuesInOrder /\ WorkersInStep)'
  <2> SUFFICES ASSUME ~stop', Searching' PROVE (QueuesInOrder /\ WorkersInStep)'
    OBVIOUS
  <2>1. Due' >= Due /\ ~stop /\ Searching
    BY <1>1, <1>2, <1>4, OrderTypes
  <2> QED
    BY <1>1, <2>1, QueuesStep
<1>8. pc' = "pop" => QueueInOrder(current)'
  <2> SUFFICES ASSUME pc' = "pop" PROVE QueueInOrder(current)'
    OBVIOUS
  <2>1. pc = "pop" /\ QueueInOrder(current)
    BY <1>1 DEF Searching, OrderInv
  <2> QED
    BY <1>1, <1>3, <2>1 DEF QueueInOrder, NextEvent
<1>9. Releasing'
  <2> SUFFICES ASSUME pc' = "flush" PROVE Releasing'
    BY DEF Releasing
  <2>1. pc = "flush" /\ Releasing
    BY <1>1 DEF Searching, OrderInv
  <2>2. /\ TurnedDown' <=> TurnedDown
        /\ Promise!ShownCount(nextFile)' = Promise!ShownCount(nextFile)
        /\ Promise!EndsSearch(nextFile)' <=> Promise!EndsSearch(nextFile)
    BY <1>1 DEF TurnedDown, Promise!ShownCount, Promise!EndsSearch, Promise!CutShort
  <2> QED
    BY <1>1, <1>2, <2>1, <2>2 DEF Releasing
<1> QED
  BY <1>5, <1>6, <1>7, <1>8, <1>9 DEF OrderInv

-----------------------------------------------------------------------------
(* publishResult is given the next result promised: the sink takes it, or  *)
(* the search ends in front of it and says why.                            *)
Sayings == {"limitReached", "memoryLimitReached", "refused", "sinkThrew"}

LEMMA PublishOrder ==
  ASSUME SInv, DeliveredInOrder, NEW f \in FileIds, DeliveredUpTo(f),
         HasMatch(files[f], Published(f)), NEW bytes, NEW k, NEW r,
         Offered(<<f, Published(f) + 1>>, bytes, k, r), files' = files
  PROVE  /\ Promise!More /\ Promise!Upcoming = <<f, Published(f) + 1>>
         /\ \/ /\ Accept(<<f, Published(f) + 1>>, bytes, k)
               /\ pc' = k /\ UNCHANGED <<stop, flags>>
               /\ DeliveredUpTo(f)' /\ Published(f)' = Published(f) + 1
               /\ \A g \in Nat : g > f => Published(g)' = 0 /\ Published(g) = 0
               /\ Len(delivered) < ResultLimit /\ Len(delivered') <= ResultLimit
            \/ /\ UNCHANGED <<delivered, resultBytes>> /\ pc' \in {r, "join"}
               /\ \E said \in Sayings :
                    /\ flags' = flags \cup {said}
                    /\ IF said = "sinkThrew" THEN pc' = "join" ELSE stop'
                    /\ said = "limitReached" => Grounds("limit")
                    /\ said = "memoryLimitReached" => Len(delivered) < ResultLimit
                    /\ said = "memoryLimitReached"
                         /\ bytes = MatchBytes(f, Published(f) + 1) => Grounds("memory")
<1> DEFINE x == <<f, Published(f) + 1>>
<1>1. /\ files \in Worlds /\ delivered \in Seq(FileIds \X Nat) /\ Len(delivered) \in Nat
      /\ Published(f) \in Nat /\ Published(f) \in 0..Len(delivered)
      /\ Possible(f, Published(f))
  BY OrderTypes DEF DeliveredUpTo
<1>2. Len(delivered) <= ResultLimit /\ ResultLimit \in Nat
  BY InputAssumption DEF DeliveredInOrder
<1>3. Published(f) < Promise!ShownCount(f)
  BY <1>1, FileLimits
<1>4. Promise!More /\ Promise!Upcoming = x
  BY <1>1, <1>3, UpcomingIs
<1>5. CASE Accept(x, bytes, k)
  <2>1. /\ pc' = k /\ UNCHANGED <<stop, flags>>
        /\ Len(delivered) < ResultLimit /\ delivered' = Append(delivered, x)
    BY <1>5 DEF Accept
  <2>2. /\ DeliveredUpTo(f)' /\ Published(f)' = Published(f) + 1
        /\ \A g \in Nat : g > f => Published(g)' = 0 /\ Published(g) = 0
    BY <1>1, <2>1, DeliverNext
  <2>3. x \in FileIds \X Nat
    BY <1>1
  <2>4. Len(delivered') = Len(delivered) + 1
    BY <1>1, <2>1, <2>3, SequenceAppend
  <2>5. Len(delivered') <= ResultLimit
    BY <1>1, <1>2, <2>1, <2>4
  <2> QED
    BY <1>4, <1>5, <2>1, <2>2, <2>5
<1>6. CASE Reject(bytes, r)
  <2>1. /\ pc' = r /\ UNCHANGED <<delivered, resultBytes>> /\ stop'
        /\ \/ flags' = flags \cup {"limitReached"} /\ Len(delivered) >= ResultLimit
           \/ /\ flags' = flags \cup {"memoryLimitReached"}
              /\ Len(delivered) < ResultLimit /\ ~Budgeted(bytes)
           \/ flags' = flags \cup {"refused"}
    BY <1>6 DEF Reject, outputVars
  <2>2. CASE flags' = flags \cup {"limitReached"} /\ Len(delivered) >= ResultLimit
    <3>1. Len(delivered) = ResultLimit
      BY <1>1, <1>2, <2>2
    <3>2. Grounds("limit")
      BY <1>4, <3>1, GroundsAre
    <3> HIDE DEF x
    <3> QED
      BY <1>4, <2>1, <2>2, <3>2 DEF Sayings, x
  <2>3. CASE /\ flags' = flags \cup {"memoryLimitReached"}
             /\ Len(delivered) < ResultLimit /\ ~Budgeted(bytes)
    <3>1. Promise!Bytes(x) = MatchBytes(f, Published(f) + 1)
      BY DEF Promise!Bytes, MatchBytes
    <3>2. bytes = MatchBytes(f, Published(f) + 1) => ~Promise!UpcomingFits
      <4> HIDE DEF x
      <4> QED
        BY <1>4, <2>3, <3>1
        DEF Budgeted, Promise!UpcomingFits, FitsBudget, Promise!FitsBudget
    <3>3. bytes = MatchBytes(f, Published(f) + 1) => Grounds("memory")
      BY <1>4, <2>3, <3>2, GroundsAre
    <3> QED
      BY <1>4, <2>1, <2>3, <3>3 DEF Sayings
  <2>4. CASE flags' = flags \cup {"refused"}
    BY <1>4, <2>1, <2>4 DEF Sayings
  <2> QED
    BY <2>1, <2>2, <2>3, <2>4
<1>7. CASE SinkThrows(bytes)
  <2>1. /\ pc' = "join" /\ UNCHANGED <<delivered, resultBytes>>
        /\ flags' = flags \cup {"sinkThrew"}
    BY <1>7 DEF SinkThrows, outputVars
  <2> QED
    BY <1>4, <2>1 DEF Sayings
<1> QED
  BY <1>5, <1>6, <1>7 DEF Offered

(* What the caller will be told, after a result was turned down. *)
LEMMA FlagsAfterRefusal ==
  ASSUME OrderInv, flags \cap {"failed", "halted"} = {}, pc' \in {"join", "flush"},
         UNCHANGED <<files, delivered, resultBytes, emptied>>,
         NEW said \in Sayings, flags' = flags \cup {said},
         said = "limitReached" => Grounds("limit"),
         said = "memoryLimitReached" =>
           Grounds("memory") \/ emptied # {} \/ "refused" \in flags
  PROVE  FlagsAreTrue' /\ (TurnedDown' <=> TurnedDown \/ said # "limitReached")
<1>1. FlagsAreTrue
  BY DEF OrderInv
<1>2. \A how : Grounds(how)' <=> Grounds(how)
  BY SameGrounds
<1>3. /\ said \in Sayings /\ said # "failed" /\ said # "halted"
      /\ "failed" \notin flags' /\ "halted" \notin flags' /\ flags' # {}
  BY DEF Sayings
<1>4. TurnedDown' <=> TurnedDown \/ said # "limitReached"
  BY DEF TurnedDown, Sayings
<1>5. "limitReached" \in flags' => Grounds("limit")' \/ TurnedDown'
  BY <1>2, <1>4
<1>6. "memoryLimitReached" \in flags' =>
        Grounds("memory")' \/ emptied' # {} \/ "refused" \in flags'
  BY <1>1, <1>2 DEF FlagsAreTrue
<1>7. pc' # "drain" /\ ~Publishing' /\ (Searching' => pc' = "flush")
  BY DEF Publishing, Searching
<1>8. FlagsAreTrue'
  BY <1>3, <1>5, <1>6, <1>7 DEF FlagsAreTrue
<1> QED
  BY <1>4, <1>8

(* The front event of the file being published. *)
LEMMA FrontEvent ==
  ASSUME SInv, OrderInv, pc = "pop", events[current] # <<>>
  PROVE  LET event == Head(events[current])  p == Published(current) IN
         /\ current \in FileIds /\ DeliveredUpTo(current) /\ p \in Nat
         /\ NextEvent(current, p, event)
         /\ event.at # None =>
              HasMatch(files[current], p) /\ event.file = current /\ event.at = p + 1
         /\ event.at = None =>
              /\ Throws(files[current], p) \/ ~HasMatch(files[current], p)
              /\ Possible(current, p)
              /\ event = CompletionOf(files[current], current, p)
<1> DEFINE event == Head(events[current])
           p == Published(current)
<1>1. current \in FileIds /\ events[current] \in Seq(Event) /\ DeliveredUpTo(current)
  BY DEF SInv, TypeOK, CurrentMeansPublishing, Publishing, OrderInv, DeliveredInOrder
<1>2. /\ Len(events[current]) \in Nat \ {0} /\ event = events[current][1]
      /\ 1 \in 1..Len(events[current])
  BY <1>1, SequenceEnds
<1>3. p \in Nat
  BY <1>1, LastDelivered, OrderTypes DEF FileIds
<1>4. NextEvent(current, p + 1 - 1, event)
  BY <1>2 DEF OrderInv, QueueInOrder
<1>5. NextEvent(current, p, event)
  <2>1. p + 1 - 1 = p
    BY <1>3
  <2> QED
    BY <1>4, <2>1
<1> HIDE DEF p, event
<1>6. p + 1 # None
  BY <1>3 DEF None
<1>7. \/ HasMatch(files[current], p) /\ event.at = p + 1 /\ event.file = current
      \/ /\ Throws(files[current], p) \/ ~HasMatch(files[current], p)
         /\ Possible(current, p)
         /\ event = CompletionOf(files[current], current, p) /\ event.at = None
  <2>1. /\ ResultEvent(current, p + 1).at = p + 1
        /\ ResultEvent(current, p + 1).file = current
        /\ CompletionOf(files[current], current, p).at = None
    BY DEF ResultEvent, CompletionOf, Completion
  <2> QED
    BY <1>1, <1>5, <2>1 DEF NextEvent, EventOf, Possible
<1> QED
  BY <1>1, <1>3, <1>5, <1>6, <1>7 DEF p, event

(* The event queues after the front event of current has been taken.       *)
LEMMA TakenEvent ==
  ASSUME SInv, pc = "pop", events[current] # <<>>, TakeEvent
  PROVE  /\ \A f \in FileIds : f # current => events'[f] = events[f]
         /\ events[current] \in Seq(Event) /\ events'[current] = Tail(events[current])
         /\ Len(events[current]) \in Nat \ {0}
         /\ Len(events'[current]) = Len(events[current]) - 1
         /\ \A i \in 1..(Len(events[current]) - 1) : events'[current][i] = events[current][i + 1]
<1>1. current \in FileIds /\ events \in [FileIds -> Seq(Event)]
  BY DEF SInv, TypeOK, CurrentMeansPublishing, Publishing
<1>2. /\ \A f \in FileIds : f # current => events'[f] = events[f]
      /\ events'[current] = Tail(events[current])
  BY <1>1 DEF TakeEvent
<1>3. /\ Len(events[current]) \in Nat \ {0}
      /\ Len(Tail(events[current])) = Len(events[current]) - 1
      /\ \A i \in 1..(Len(events[current]) - 1) :
           Tail(events[current])[i] = events[current][i + 1]
  BY <1>1, SequenceEnds
<1> QED
  BY <1>1, <1>2, <1>3

(* The event queues after a result of current was taken from its queue and *)
(* delivered.                                                              *)
LEMMA QueuesAfterResult ==
  ASSUME SInv, SInv', OrderInv, ~stop, pc = "pop", pc' = "publish",
         events[current] # <<>>, Head(events[current]).at # None, TakeEvent,
         Published(current)' = Published(current) + 1,
         \A g \in Nat : g > current => Published(g)' = 0 /\ Published(g) = 0,
         UNCHANGED <<files, current, eventsClosed, worker>>
  PROVE  (QueuesInOrder /\ WorkersInStep)'
<1> DEFINE p == Published(current)
           n == Len(events[current])
<1>1. current \in FileIds /\ current # None /\ current \in Nat /\ p \in Nat
  BY FrontEvent DEF FileIds, None
<1>2. Due = current /\ Due' = current
  BY <1>1 DEF Due
<1>3. QueuesInOrder /\ WorkersInStep
  BY DEF OrderInv, Searching
<1>4. /\ \A f \in FileIds : f # current => events'[f] = events[f]
      /\ n \in Nat \ {0} /\ Len(events'[current]) = n - 1
      /\ \A i \in 1..(n - 1) : events'[current][i] = events[current][i + 1]
      /\ Head(events[current]) = events[current][1]
      /\ events'[current] \in Seq(Event)
  BY <1>1, TakenEvent, SequenceEnds
<1> HIDE DEF p, n
<1>5. \A f, i : Possible(f, i)' <=> Possible(f, i)
  BY DEF Possible
<1>6. \A f \in FileIds : Completed(f)' <=> Completed(f)
  <2> SUFFICES ASSUME NEW f \in FileIds PROVE Completed(f)' <=> Completed(f)
    OBVIOUS
  <2>1. CASE f # current
    BY <1>4, <2>1 DEF Completed
  <2>2. CASE f = current
    <3>1. CASE n = 1
      <4>1. ~Completed(current)
        BY <1>4, <3>1 DEF Completed, n
      <4>2. events'[current] = <<>>
        BY <1>4, <3>1
      <4> QED
        BY <2>2, <4>1, <4>2 DEF Completed
    <3>2. CASE n # 1
      <4>1. n - 1 \in 1..(n - 1) /\ Len(events'[current]) = n - 1 /\ n - 1 + 1 = n
        BY <1>4, <3>2
      <4>2. events'[current][n - 1] = events[current][n]
        BY <1>4, <4>1
      <4>3. events'[current] # <<>>
        BY <1>4, <4>1
      <4> QED
        BY <2>2, <4>1, <4>2, <4>3 DEF Completed, n
    <3> QED
      BY <3>1, <3>2
  <2> QED
    BY <2>1, <2>2
<1>7. ASSUME NEW f \in FileIds, f >= current PROVE QueueInOrder(f)'
  <2>1. CASE f # current
    <3>1. f > current /\ f \in Nat
      BY <1>1, <1>7, <2>1 DEF FileIds
    <3>2. Published(f)' = Published(f) /\ events'[f] = events[f] /\ QueueInOrder(f)
      BY <1>2, <1>3, <1>4, <1>7, <2>1, <3>1 DEF QueuesInOrder
    <3> QED
      BY <3>2 DEF QueueInOrder, NextEvent
  <2>2. CASE f = current
    <3>1. QueueInOrder(current)
      BY <1>2, <1>3, <1>7, <2>2 DEF QueuesInOrder
    <3>2. ASSUME NEW k \in 1..Len(events'[current])
          PROVE  /\ NextEvent(current, p + k, events'[current][k])
                 /\ k < Len(events'[current]) => events'[current][k].at # None
      <4>1. k \in 1..(n - 1) /\ k + 1 \in 1..n /\ p + (k + 1) - 1 = p + k
        BY <1>1, <1>4
      <4>2. NextEvent(current, p + (k + 1) - 1, events[current][k + 1])
        BY <3>1, <4>1 DEF QueueInOrder, n, p
      <4>3. k < Len(events'[current]) => events[current][k + 1].at # None
        <5>1. k < Len(events'[current]) => k + 1 < n
          BY <1>4, <4>1
        <5> QED
          BY <3>1, <4>1, <5>1 DEF QueueInOrder, n
      <4> QED
        BY <1>4, <4>1, <4>2, <4>3
    <3>3. ASSUME NEW k \in 1..Len(events'[current])
          PROVE  NextEvent(current, Published(current) + k - 1, events[current][k])'
      <4>1. Published(current)' + k - 1 = p + k /\ k \in Nat
        BY <1>1, <1>4 DEF p
      <4>2. NextEvent(current, p + k, events'[current][k])
        BY <3>2
      <4>3. (NextEvent(current, Published(current) + k - 1, events[current][k]))' <=>
              NextEvent(current, p + k, events'[current][k])
        BY <4>1 DEF NextEvent
      <4> QED
        BY <4>2, <4>3
    <3> QED
      BY <2>2, <3>2, <3>3 DEF QueueInOrder
  <2> QED
    BY <2>1, <2>2
<1>8. QueuesInOrder'
  BY <1>2, <1>3, <1>6, <1>7 DEF QueuesInOrder
<1>9. WorkersInStep'
  <2>1. \A w \in Workers : Busy(w)' <=> Busy(w)
    BY DEF Busy
  <2>2. ASSUME NEW w \in Workers, Busy(w), worker[w].file >= current PROVE WorkerInStep(w)'
    <3> DEFINE f == worker[w].file
    <3>1. f \in FileIds /\ WorkerInStep(w)
      BY <1>2, <1>3, <2>2 DEF SInv, BusyWorkersHaveFiles, WorkersInStep
    <3>2. ASSUME NEW g \in FileIds, g >= current
          PROVE  Published(g)' + Len(events'[g]) = Published(g) + Len(events[g])
      <4>1. CASE g = current
        <5>1. p + 1 + (n - 1) = p + n
          BY <1>1, <1>4
        <5> QED
          BY <1>4, <4>1, <5>1 DEF n, p
      <4>2. CASE g # current
        <5>1. g > current /\ g \in Nat
          BY <1>1, <3>2, <4>2 DEF FileIds
        <5> QED
          BY <1>4, <4>2, <5>1
      <4> QED
        BY <4>1, <4>2
    <3>3. Published(f)' + Len(events'[f]) = Published(f) + Len(events[f])
      BY <2>2, <3>1, <3>2
    <3> QED
      BY <1>5, <1>6, <3>1, <3>3 DEF WorkerInStep, Possible
  <2> QED
    BY <1>2, <1>3, <2>1, <2>2 DEF WorkersInStep
<1> QED
  BY <1>8, <1>9

LEMMA PopResultOrder == ASSUME SInv, SInv', OrderInv, PopResult PROVE OrderInv'
<1> DEFINE event == Head(events[current])
           bytes == MatchBytes(event.file, event.at)
<1>1. /\ pc = "pop" /\ events[current] # <<>> /\ event.at # None /\ TakeEvent
      /\ Offered(<<event.file, event.at>>, bytes, "publish", "join")
      /\ UNCHANGED <<files, resume, nextFile, tasks, current, poolQueue, worker, eventsClosed,
                     cancelled, movedFrom, emptied>>
  BY DEF PopResult, Offered, scanVars, poolVars
<1>2. /\ current \in FileIds /\ DeliveredUpTo(current)
      /\ HasMatch(files[current], Published(current))
      /\ event.file = current /\ event.at = Published(current) + 1
  BY <1>1, FrontEvent
<1>3. /\ Offered(<<current, Published(current) + 1>>, bytes, "publish", "join")
      /\ bytes = MatchBytes(current, Published(current) + 1)
  BY <1>1, <1>2
<1>6. Searching /\ flags = {} /\ movedFrom = 0 /\ emptied = {} /\ DeliveredInOrder
  BY <1>1 DEF Searching, OrderInv, FlagsAreTrue
<1> HIDE DEF event, bytes
<1>4. CASE /\ pc' = "publish" /\ UNCHANGED <<stop, flags>>
           /\ DeliveredUpTo(current)' /\ Published(current)' = Published(current) + 1
           /\ \A g \in Nat : g > current => Published(g)' = 0 /\ Published(g) = 0
           /\ Len(delivered') <= ResultLimit
  <2>1. ~stop => (QueuesInOrder /\ WorkersInStep)'
    BY <1>1, <1>4, QueuesAfterResult DEF event
  <2>2. ~stop => current' < FirstUntaken'
    <3>1. ~stop => current < FirstUntaken
      <4>1. nextFile \in Int /\ Len(poolQueue) \in Int /\ current \in Int
        BY OrderTypes
      <4> QED
        BY <1>1, <1>2, <4>1 DEF SInv, UntakenUntouched, FirstUntaken
    <3> QED
      BY <1>1, <3>1 DEF FirstUntaken
  <2>3. ~stop => ~(current' >= FirstUntaken')
    <3>1. nextFile' \in Int /\ Len(poolQueue') \in Int /\ current' \in Int
      BY <1>1, OrderTypes
    <3> QED
      BY <2>2, <3>1 DEF FirstUntaken
  <2>4. DeliveredUpTo(current)'
    BY <1>4
  <2>5. DeliveredInOrder'
    BY <1>4, <2>3, <2>4 DEF DeliveredInOrder, Publishing
  <2>6. FlagsAreTrue'
    BY <1>1, <1>4, <1>6 DEF FlagsAreTrue, OrderInv, Searching, Publishing
  <2> QED
    BY <1>4, <2>1, <2>5, <2>6 DEF OrderInv, Searching, Releasing
<1>5. ASSUME UNCHANGED <<delivered, resultBytes>>, pc' = "join",
             NEW said \in Sayings, flags' = flags \cup {said},
             said = "limitReached" => Grounds("limit"),
             said = "memoryLimitReached" => Grounds("memory")
      PROVE  OrderInv'
  <2>1. DeliveredInOrder'
    BY <1>5 DEF DeliveredInOrder, OrderInv, Publishing
  <2>2. FlagsAreTrue'
    BY <1>1, <1>5, <1>6, FlagsAfterRefusal
  <2> QED
    BY <1>5, <2>1, <2>2 DEF OrderInv, Searching, Releasing
<1> QED
  BY <1>1, <1>2, <1>3, <1>4, <1>5, <1>6, PublishOrder

(* What a file that throws was holding back is lost, and nothing else.     *)
LEMMA ThrowLoses ==
  ASSUME files \in Worlds, NEW f \in FileIds, DeliveredUpTo(f),
         Promise!EndsSearch(f), files[f].ending = "throw",
         HoldsBack \/ Published(f) = Promise!ShownCount(f)
  PROVE  Grounds("failed")
<1>1. f \in Nat /\ Delivered = UpTo(f, Published(f))
      /\ \A g \in FileIds : g < f => ~Promise!EndsSearch(g)
  BY DEF DeliveredUpTo, FileIds
<1>2. Promise!Reached(f)
  BY <1>1, InputAssumption DEF Promise!Reached, FileIds
<1>3. Promise!EndedBy("throw")
  BY <1>2 DEF Promise!EndedBy, Promise!FileIds, FileIds
<1>4. CASE Published(f) = Promise!ShownCount(f)
  BY <1>3, <1>4, NothingMissing, GroundsAre
<1>5. CASE HoldsBack
  <2>1. ASSUME NEW r \in Promise!Missing PROVE r[1] = f
    <3>1. /\ r \in FileIds \X (Nat \ {0}) /\ r \notin Delivered
          /\ r[2] <= Promise!ShownCount(r[1])
          /\ \A g \in FileIds : g < r[1] => ~Promise!EndsSearch(g)
      BY PromisedFileByFile DEF Promise!Missing, Delivered
    <3>2. r[1] \in Nat /\ ~(f < r[1])
      BY <3>1 DEF FileIds
    <3> QED
      BY <1>1, <3>1, <3>2 DEF UpTo
  <2>2. Promise!LostInThrow
    BY <1>2, <1>5, <2>1 DEF Promise!LostInThrow, Promise!FileIds, FileIds
  <2> QED
    BY <1>3, <2>2, GroundsAre
<1> QED
  BY <1>4, <1>5

(* How the search of a file ends, once its matches have been delivered. *)
LEMMA FileEnds ==
  ASSUME SInv, OrderInv, NEW f \in FileIds, DeliveredUpTo(f)
  PROVE  LET i == Published(f)  file == files[f] IN
         /\ OverLimit(file, i) => Grounds("limit")
         /\ i = Len(file.results) /\ file.ending = "stop" => Grounds("halted")
         /\ Throws(file, i) => Grounds("failed")
         /\ OverPerFile(file, i) \/ (i = Len(file.results) /\ file.ending = "continue")
              => DeliveredBefore(f + 1)
<1> DEFINE i == Published(f)
<1>1. /\ files \in Worlds /\ delivered \in Seq(FileIds \X Nat) /\ Len(delivered) \in Nat
      /\ i \in 0..Len(delivered) /\ i \in Nat /\ Possible(f, i)
      /\ Len(delivered) <= ResultLimit /\ ResultLimit \in Nat
  BY OrderTypes, InputAssumption DEF DeliveredUpTo, OrderInv, DeliveredInOrder
<1>2. OverLimit(files[f], i) => Grounds("limit")
  <2> SUFFICES ASSUME OverLimit(files[f], i) PROVE Grounds("limit")
    OBVIOUS
  <2>1. i = ResultLimit /\ i < Promise!ShownCount(f)
    BY <1>1, FileLimits
  <2>2. Promise!More
    BY <1>1, <2>1, UpcomingIs
  <2> HIDE DEF i
  <2>3. Len(delivered) = ResultLimit
    BY <1>1, <2>1
  <2> QED
    BY <2>2, <2>3, GroundsAre
<1>3. i = Len(files[f].results) => i = Promise!ShownCount(f) /\ ~Promise!CutShort(f)
  BY <1>1, FileLimits
<1>4. ASSUME i = Len(files[f].results), files[f].ending # "continue"
      PROVE  ~Promise!More /\ Promise!EndedBy(files[f].ending)
  <2>1. Promise!EndsSearch(f)
    BY <1>3, <1>4 DEF Promise!EndsSearch
  <2> QED
    BY <1>1, <1>3, <1>4, <2>1, NothingMissing
<1>5. OverPerFile(files[f], i) => Promise!CutShort(f) /\ i = Promise!ShownCount(f)
  BY <1>1, FileLimits
<1>6. OverPerFile(files[f], i) \/ (i = Len(files[f].results) /\ files[f].ending = "continue")
        => DeliveredBefore(f + 1)
  <2> SUFFICES ASSUME OverPerFile(files[f], i)
                        \/ (i = Len(files[f].results) /\ files[f].ending = "continue")
               PROVE  DeliveredBefore(f + 1)
    OBVIOUS
  <2>1. i = Promise!ShownCount(f) /\ ~Promise!EndsSearch(f)
    BY <1>3, <1>5 DEF Promise!EndsSearch
  <2> QED
    BY <1>1, <2>1, NextFileIsDue
<1>7. Throws(files[f], i) => Grounds("failed")
  <2> SUFFICES ASSUME Throws(files[f], i) PROVE Grounds("failed")
    OBVIOUS
  <2>1. ~Promise!CutShort(f) /\ files[f].ending = "throw"
    BY <1>1, MatchSize, InputAssumption DEF Throws, Promise!CutShort, Promise!OverPerFile
  <2>2. Promise!EndsSearch(f)
    BY <2>1 DEF Promise!EndsSearch
  <2>3. HoldsBack \/ i = Promise!ShownCount(f)
    BY <2>1 DEF Throws, Promise!ShownCount
  <2> QED
    BY <1>1, <2>1, <2>2, <2>3, ThrowLoses
<1> QED
  BY <1>2, <1>4, <1>6, <1>7, GroundsAre

(* The completion of the file being published. *)
LEMMA PopCompletionOrder == ASSUME SInv, SInv', OrderInv, PopCompletion PROVE OrderInv'
<1> DEFINE event == Head(events[current])
           ends  == event.failure \/ ~event.continueSearch
           p     == Published(current)
           file  == files[current]
<1>1. /\ pc = "pop" /\ events[current] # <<>> /\ event.at = None /\ TakeEvent
      /\ current' = None
      /\ UNCHANGED <<files, resume, nextFile, tasks, poolQueue, worker, eventsClosed,
                     cancelled, delivered, resultBytes, movedFrom, emptied>>
      /\ flags' = flags
           \cup (IF event.failure THEN {"failed"} ELSE {})
           \cup (IF event.limitReached THEN {"limitReached"} ELSE {})
           \cup (IF ~event.continueSearch /\ ~event.limitReached THEN {"halted"} ELSE {})
      /\ stop' = (stop \/ ends) /\ pc' = IF ends \/ stop THEN "join" ELSE resume
  BY DEF PopCompletion, RequestStopIf, scanVars, poolVars, outputVars
<1>2. /\ current \in FileIds /\ current # None /\ DeliveredUpTo(current) /\ p \in Nat
      /\ Throws(file, p) \/ ~HasMatch(file, p)
      /\ Possible(current, p) /\ event = CompletionOf(file, current, p)
  BY <1>1, FrontEvent DEF FileIds, None
<1>3. /\ files \in Worlds /\ flags = {} /\ movedFrom = 0 /\ emptied = {} /\ Searching
      /\ Len(delivered) <= ResultLimit
      /\ stop => cancelled
      /\ file.ending \in {"continue", "stop", "throw"}
  <2>1. files \in Worlds /\ Searching
    BY <1>1, OrderTypes DEF Searching
  <2>2. file \in [results : Seq([bytes : Nat, chunk : Nat]), ending : Endings, big : BOOLEAN]
    BY <1>2, <2>1, InputAssumption DEF Worlds
  <2> QED
    BY <1>1, <2>1, <2>2 DEF Endings, OrderInv, FlagsAreTrue, DeliveredInOrder
<1>4. /\ event.continueSearch <=>
           \/ Throws(file, p) \/ (p = Len(file.results) /\ file.ending = "continue")
           \/ OverPerFile(file, p)
      /\ event.limitReached <=> OverLimit(file, p)
      /\ event.failure <=> Throws(file, p)
  <2> DEFINE goesOn == \/ Throws(file, p)
                       \/ (p = Len(file.results) /\ file.ending = "continue")
                       \/ OverPerFile(file, p)
             limit  == OverLimit(file, p)
             throws == Throws(file, p)
  <2>1. event = Completion(current, goesOn, limit, throws)
    BY <1>2 DEF CompletionOf
  <2> HIDE DEF goesOn, limit, throws, event
  <2>2. event.continueSearch = goesOn /\ event.limitReached = limit /\ event.failure = throws
    BY <2>1 DEF Completion
  <2>3. goesOn \in BOOLEAN /\ limit \in BOOLEAN /\ throws \in BOOLEAN
    BY DEF goesOn, limit, throws, OverLimit, OverPerFile, Throws
  <2> QED
    BY <2>2, <2>3 DEF goesOn, limit, throws
<1>5. /\ \/ Throws(file, p) \/ OverLimit(file, p) \/ OverPerFile(file, p)
         \/ p = Len(file.results)
      /\ p = Len(file.results) => ~OverLimit(file, p) /\ ~OverPerFile(file, p)
      /\ OverLimit(file, p) => ~OverPerFile(file, p)
      /\ Throws(file, p) => ~OverLimit(file, p) /\ ~OverPerFile(file, p)
  <2>1. Throws(file, p) => ~OverLimit(file, p) /\ ~OverPerFile(file, p)
    BY <1>2, <1>3, MatchSize, InputAssumption DEF Throws, OverLimit, OverPerFile
  <2> QED
    BY <1>2, <1>3, <2>1, FileLimits
<1>6. /\ OverLimit(file, p) => Grounds("limit")
      /\ p = Len(file.results) /\ file.ending = "stop" => Grounds("halted")
      /\ Throws(file, p) => Grounds("failed")
      /\ OverPerFile(file, p) \/ (p = Len(file.results) /\ file.ending = "continue")
           => DeliveredBefore(current + 1)
  BY <1>2, FileEnds
<1>10. p = Len(file.results) /\ file.ending = "throw" => Throws(file, p)
  <2>1. Possible(current, p) => Len(file.results) = 0 \/ p # Len(file.results)
          \/ (Len(file.results) <= ResultLimit /\ Len(file.results) <= PerFileLimit)
    BY <1>2, <1>3, MatchSize, InputAssumption DEF Possible, HasMatch
  <2>2. Len(file.results) \in Nat
    BY <1>2, <1>3, MatchSize
  <2> QED
    BY <1>2, <2>1, <2>2, InputAssumption DEF Throws
<1> HIDE DEF event, p, file
<1>7. /\ event.failure => Grounds("failed")
      /\ event.limitReached => Grounds("limit")
      /\ ~event.continueSearch /\ ~event.limitReached => Grounds("halted")
      /\ ~ends => DeliveredBefore(current + 1)
      /\ event.failure => event.continueSearch /\ ~event.limitReached
  BY <1>3, <1>4, <1>5, <1>6, <1>10
<1>8. CASE ends \/ stop
  <2>1. pc' = "join"
    BY <1>1, <1>8
  <2>2. FlagsAreTrue'
    <3>1. \A how : Grounds(how)' <=> Grounds(how)
      BY <1>1, SameGrounds
    <3>2. flags' = {} => ~ends
      BY <1>1
    <3>3. flags' = {} => cancelled'
      BY <1>1, <1>3, <1>8, <3>2
    <3>4. /\ "failed" \in flags' => Grounds("failed")' /\ flags' = {"failed"}
          /\ "limitReached" \in flags' => Grounds("limit")'
          /\ "halted" \in flags' => Grounds("halted")' /\ flags' = {"halted"}
          /\ "memoryLimitReached" \notin flags'
      <4>1. CASE event.failure
        BY <1>1, <1>3, <1>7, <3>1, <4>1
      <4>2. CASE ~event.failure
        BY <1>1, <1>3, <1>7, <3>1, <4>2
      <4> QED
        BY <4>1, <4>2
    <3> QED
      BY <2>1, <3>3, <3>4 DEF FlagsAreTrue, Searching, Publishing
  <2>3. DeliveredInOrder'
    BY <1>1, <1>3, <2>1 DEF DeliveredInOrder, Publishing
  <2> QED
    BY <2>1, <2>2, <2>3 DEF OrderInv, Searching, Releasing
<1>9. CASE ~ends /\ ~stop
  <2>1. /\ pc' = resume /\ ~stop' /\ flags' = {} /\ Searching'
        /\ pc' \in {"scan", "ahead", "drain"}
    <3>1. ~event.failure /\ event.continueSearch
      BY <1>9
    <3>2. ~event.limitReached
      BY <1>4, <1>5, <3>1
    <3>3. resume \in {"scan", "ahead", "drain"}
      BY DEF SInv, TypeOK
    <3>4. flags' = {}
      BY <1>1, <1>3, <3>1, <3>2
    <3> QED
      BY <1>1, <1>9, <3>3, <3>4 DEF Searching
  <2>2. Due = current /\ Due' = current + 1
    <3>1. current = nextFile - 1 - Submitted
      BY <1>2, <1>9 DEF SInv, ScannerOrder
    <3>2. Submitted' = Submitted
      BY <1>1, <2>1 DEF Submitted
    <3> QED
      BY <1>1, <1>2, <3>1, <3>2, OrderTypes DEF Due
  <2>3. DeliveredBefore(Due)'
    <3>1. DeliveredBefore(current + 1)
      BY <1>7, <1>9
    <3> QED
      BY <1>1, <2>2, <3>1, SameDelivered
  <2>4. pc' = "ahead" /\ tasks' = <<>> => Due' = nextFile'
    BY <1>1, <2>1, OrderTypes DEF Due, Submitted
  <2>5. DeliveredInOrder'
    BY <1>1, <1>3, <2>1, <2>3, <2>4 DEF DeliveredInOrder, Publishing
  <2>6. FlagsAreTrue'
    <3>1. pc' = "drain" => nextFile' = NumFiles + 1
      BY <1>1, <1>9, <2>1 DEF OrderInv, FlagsAreTrue, Publishing
    <3> QED
      BY <1>1, <1>3, <2>1, <3>1 DEF FlagsAreTrue, Publishing
  <2>7. (QueuesInOrder /\ WorkersInStep)'
    <3>1. Due' >= Due
      BY <1>2, <2>2 DEF FileIds
    <3>2. \A f \in FileIds : f >= Due' => events'[f] = events[f]
      <4>1. \A f \in FileIds : f >= current + 1 => f # current
        BY <1>2 DEF FileIds
      <4> QED
        BY <1>1, <2>2, <4>1, TakenEvent
    <3> QED
      BY <1>1, <1>3, <1>9, <3>1, <3>2, QueuesStep
  <2> QED
    BY <2>1, <2>5, <2>6, <2>7 DEF OrderInv, Releasing
<1> QED
  BY <1>8, <1>9

(* searchFileSynchronously.  Nothing is in flight meanwhile. *)
LEMMA InSync ==
  ASSUME SInv, OrderInv, InFile
  PROVE  /\ nextFile \in FileIds /\ DeliveredUpTo(nextFile) /\ taken = Published(nextFile)
         /\ at \in Nat /\ taken \in Nat /\ taken <= at /\ Possible(nextFile, at)
         /\ taken < at => HasMatch(files[nextFile], taken)
         /\ Searching /\ tasks = <<>> /\ current = None
         /\ Due = nextFile /\ Len(delivered) <= ResultLimit
         /\ pc = "sync" => flags = {} /\ movedFrom = 0 /\ emptied = {}
         /\ stop /\ flags = {} => cancelled
<1>1. /\ nextFile \in FileIds /\ current = None /\ tasks = <<>> /\ Searching
      /\ at \in Nat /\ taken \in Nat /\ taken <= at
      /\ Len(files[nextFile].results) \in Nat
  BY SyncFacts DEF Searching
<1>2. Due = nextFile
  BY <1>1, OrderTypes DEF Due, Submitted
<1>3. Possible(nextFile, at)
  BY DEF OrderInv, DeliveredInOrder
<1>4. taken < at => HasMatch(files[nextFile], taken)
  BY <1>1, <1>3, InputAssumption DEF Possible, HasMatch
<1> QED
  BY <1>1, <1>2, <1>3, <1>4 DEF OrderInv, DeliveredInOrder, FlagsAreTrue

(* What is delivered of nextFile does not concern the event queues. *)
LEMMA InFileDelivers ==
  ASSUME SInv, OrderInv, InFile, ~stop,
         UNCHANGED <<files, pc, nextFile, tasks, current, worker, events, eventsClosed>>,
         \A g \in Nat : g > nextFile => Published(g)' = 0 /\ Published(g) = 0
  PROVE  (QueuesInOrder /\ WorkersInStep)'
<1>1. /\ nextFile \in FileIds /\ Searching /\ tasks = <<>> /\ current = None /\ Due = nextFile
  BY InSync
<1>2. Due' = nextFile /\ nextFile \in Nat
  BY <1>1, OrderTypes DEF Due, Submitted, FileIds
<1>3. QueuesInOrder /\ WorkersInStep
  BY <1>1 DEF OrderInv
<1>4. /\ events[nextFile] = <<>> /\ ~eventsClosed[nextFile]
      /\ \A w \in Workers : Busy(w) => worker[w].file < nextFile
  <2>1. Len(poolQueue) = 0
    <3>1. Len(poolQueue) <= Submitted
      BY <1>1 DEF SInv, ScannerOrder
    <3>2. Submitted = 0
      BY <1>1 DEF Submitted
    <3> QED
      BY <3>1, <3>2, OrderTypes
  <2>2. FirstUntaken = nextFile
    BY <1>2, <2>1 DEF FirstUntaken
  <2> QED
    BY <1>1, <1>2, <2>2 DEF SInv, UntakenUntouched
<1>5. ASSUME NEW f \in FileIds, f >= nextFile
      PROVE  /\ QueueInOrder(f)' /\ Completed(f)' = Completed(f)
  <2>1. CASE f = nextFile
    BY <1>4, <2>1 DEF QueueInOrder, Completed
  <2>2. CASE f # nextFile
    <3>1. f > nextFile /\ f \in Nat
      BY <1>2, <1>5, <2>2 DEF FileIds
    <3>2. Published(f)' = Published(f)
      BY <3>1
    <3>3. QueueInOrder(f)
      BY <1>1, <1>3, <1>5 DEF QueuesInOrder
    <3> QED
      BY <3>2, <3>3 DEF QueueInOrder, NextEvent, Completed
  <2> QED
    BY <2>1, <2>2
<1>6. QueuesInOrder'
  BY <1>1, <1>2, <1>3, <1>5 DEF QueuesInOrder
<1>7. WorkersInStep'
  <2>1. ASSUME NEW w \in Workers, Busy(w)' PROVE ~(worker'[w].file >= Due')
    <3>1. Busy(w) /\ worker[w].file \in FileIds
      BY <2>1 DEF Busy, SInv, BusyWorkersHaveFiles
    <3>2. worker[w].file < nextFile /\ worker[w].file \in Nat
      BY <1>4, <3>1 DEF FileIds
    <3> QED
      BY <1>2, <3>2
  <2> QED
    BY <1>3, <2>1 DEF WorkersInStep, Busy
<1> QED
  BY <1>6, <1>7

LEMMA SyncFindOrder == ASSUME SInv, SInv', OrderInv, SyncFind PROVE OrderInv'
<1>1. /\ pc = "sync" /\ pc' = "sync" /\ HasMatch(files[nextFile], at) /\ at' = at + 1
      /\ UNCHANGED <<files, resume, nextFile, taken, movedFrom, emptied, tasks, current,
                     worker, events, eventsClosed, stop, cancelled, delivered, resultBytes,
                     flags>>
  BY DEF SyncFind, scanVars, outputVars
<1>2. /\ nextFile \in FileIds /\ DeliveredUpTo(nextFile) /\ taken = Published(nextFile)
      /\ at \in Nat /\ Searching /\ Len(delivered) <= ResultLimit
  BY <1>1, InSync
<1>3. DeliveredInOrder'
  <2>1. DeliveredUpTo(nextFile)' /\ taken' = Published(nextFile)'
    BY <1>1, <1>2, SameDelivered
  <2>2. Possible(nextFile, at)'
    <3>1. at' - 1 = at
      BY <1>1, <1>2
    <3> QED
      BY <1>1, <1>2, <3>1 DEF Possible
  <2> QED
    BY <1>1, <1>2, <2>1, <2>2 DEF DeliveredInOrder, Publishing
<1>4. FlagsAreTrue'
  BY <1>1, <1>2, FlagsStep DEF Publishing, Searching
<1>5. ~stop' => (QueuesInOrder /\ WorkersInStep)'
  <2>1. Due' = Due /\ Due \in Int
    BY <1>1, OrderTypes DEF Due, Submitted
  <2>2. Due' >= Due
    BY <2>1
  <2> QED
    BY <1>1, <1>2, <2>2, QueuesStep
<1> QED
  BY <1>1, <1>3, <1>4, <1>5 DEF OrderInv, Releasing

LEMMA SyncPublishOrder == ASSUME SInv, SInv', OrderInv, SyncPublish PROVE OrderInv'
<1> DEFINE bytes == MatchBytes(nextFile, taken + 1)
           stays == HoldsBack /\ ~InPath(nextFile, taken + 1)
           r     == IF stays THEN "flush" ELSE "join"
<1>1. /\ pc = "sync" /\ taken < at
      /\ Offered(<<nextFile, taken + 1>>, bytes, "sync", r)
      /\ UNCHANGED <<files, resume, nextFile, at, emptied, tasks, current, worker, events,
                     eventsClosed, cancelled>>
  BY DEF SyncPublish, Offered, scanVars
<1>2. /\ pc' = "sync" => taken' = taken + 1 /\ UNCHANGED <<verdict, movedFrom>>
      /\ pc' = "flush" => HoldsBack /\ movedFrom' = taken + 1 /\ verdict' = "end"
      /\ pc' # "sync" => taken' = taken
  <2>1. CASE /\ Accept(<<nextFile, taken + 1>>, bytes, "sync")
             /\ taken' = taken + 1
             /\ UNCHANGED <<verdict, movedFrom>>
    BY <2>1 DEF Accept
  <2>2. CASE /\ Reject(bytes, r)
             /\ movedFrom' = IF stays THEN taken + 1 ELSE movedFrom
             /\ verdict' = "end" /\ UNCHANGED taken
    BY <2>2 DEF Reject
  <2>3. CASE SinkThrows(bytes) /\ UNCHANGED <<taken, verdict, movedFrom>>
    BY <2>3 DEF SinkThrows
  <2> QED
    BY <2>1, <2>2, <2>3 DEF SyncPublish
<1>3. /\ nextFile \in FileIds /\ DeliveredUpTo(nextFile) /\ taken = Published(nextFile)
      /\ HasMatch(files[nextFile], taken) /\ taken \in Nat /\ Possible(nextFile, at)
      /\ Searching /\ tasks = <<>> /\ current = None /\ DeliveredInOrder
      /\ flags = {} /\ movedFrom = 0 /\ emptied = {} /\ (stop => cancelled)
  BY <1>1, InSync DEF OrderInv
<1>4. /\ r \in {"flush", "join"} /\ (Possible(nextFile, at)' <=> Possible(nextFile, at))
      /\ bytes = MatchBytes(nextFile, Published(nextFile) + 1)
  BY <1>1, <1>3 DEF Possible
<1> HIDE DEF bytes, stays, r
<1>5. CASE /\ pc' = "sync" /\ UNCHANGED <<stop, flags>>
           /\ DeliveredUpTo(nextFile)' /\ Published(nextFile)' = Published(nextFile) + 1
           /\ \A g \in Nat : g > nextFile => Published(g)' = 0 /\ Published(g) = 0
           /\ Len(delivered') <= ResultLimit
  <2>1. DeliveredInOrder'
    BY <1>1, <1>2, <1>3, <1>4, <1>5 DEF DeliveredInOrder, Publishing
  <2>2. FlagsAreTrue'
    BY <1>1, <1>2, <1>3, <1>5 DEF FlagsAreTrue, Searching, Publishing
  <2>3. ~stop => (QueuesInOrder /\ WorkersInStep)'
    BY <1>1, <1>5, InFileDelivers
  <2> QED
    BY <1>5, <2>1, <2>2, <2>3 DEF OrderInv, Searching, Releasing
<1>6. ASSUME UNCHANGED <<delivered, resultBytes>>, pc' \in {"flush", "join"},
             NEW said \in Sayings, flags' = flags \cup {said},
             IF said = "sinkThrew" THEN pc' = "join" ELSE stop',
             said = "limitReached" => Grounds("limit"),
             said = "memoryLimitReached" => Grounds("memory")
      PROVE  OrderInv'
  <2>1. DeliveredInOrder'
    <3>1. DeliveredUpTo(nextFile)' /\ taken' = Published(nextFile)'
      BY <1>1, <1>2, <1>3, <1>6, SameDelivered
    <3>2. Len(delivered') <= ResultLimit
      BY <1>3, <1>6 DEF DeliveredInOrder
    <3> QED
      BY <1>3, <1>4, <1>6, <3>1, <3>2 DEF DeliveredInOrder, Publishing
  <2>2. FlagsAreTrue' /\ (TurnedDown' <=> TurnedDown \/ said # "limitReached")
    BY <1>1, <1>3, <1>6, FlagsAfterRefusal
  <2>3. Releasing'
    <3> SUFFICES ASSUME pc' = "flush" PROVE Releasing'
      BY DEF Releasing
    <3>1. flags' = {said} /\ emptied' = {} /\ said # "sinkThrew"
      BY <1>1, <1>3, <1>6
    <3>2. flags' \cap {"failed", "halted", "sinkThrew"} = {}
      BY <3>1 DEF Sayings
    <3>3. TurnedDown' \/ Len(delivered') >= ResultLimit
      <4>1. CASE said = "limitReached"
        BY <1>6, <4>1, GroundsAre, InputAssumption
      <4> QED
        BY <2>2, <4>1
    <3> QED
      BY <1>2, <3>1, <3>2, <3>3 DEF Releasing
  <2>4. ~(~stop' /\ Searching')
    BY <1>6 DEF Searching
  <2> QED
    BY <1>6, <2>1, <2>2, <2>3, <2>4 DEF OrderInv
<1>7. Offered(<<nextFile, Published(nextFile) + 1>>, bytes, "sync", r)
  BY <1>1, <1>3
<1> QED
  BY <1>1, <1>3, <1>4, <1>5, <1>6, <1>7, PublishOrder

(* flushPending offers what is pending, a result that was moved from too.  *)
LEMMA FlushResultOrder == ASSUME SInv, SInv', OrderInv, FlushResult PROVE OrderInv'
<1> DEFINE again == movedFrom = taken + 1
           bytes == IF again THEN EmptiedBytes ELSE MatchBytes(nextFile, taken + 1)
<1>1. /\ pc = "flush" /\ taken < at
      /\ Offered(<<nextFile, taken + 1>>, bytes, "flush", "join")
      /\ UNCHANGED <<files, resume, nextFile, at, verdict, movedFrom, tasks, current, worker,
                     events, eventsClosed, cancelled>>
  BY DEF FlushResult, Offered, scanVars
<1>2. /\ pc' = "flush" => /\ taken' = taken + 1
                           /\ emptied' = IF again THEN emptied \cup {<<nextFile, taken + 1>>}
                                         ELSE emptied
      /\ pc' # "flush" => UNCHANGED <<taken, emptied>>
  <2>1. CASE /\ Accept(<<nextFile, taken + 1>>, bytes, "flush")
             /\ taken' = taken + 1
             /\ emptied' = IF again THEN emptied \cup {<<nextFile, taken + 1>>} ELSE emptied
    BY <2>1 DEF Accept
  <2>2. CASE Reject(bytes, "join") /\ UNCHANGED <<taken, emptied>>
    BY <2>2 DEF Reject
  <2>3. CASE SinkThrows(bytes) /\ UNCHANGED <<taken, emptied>>
    BY <2>3 DEF SinkThrows
  <2> QED
    BY <2>1, <2>2, <2>3 DEF FlushResult
<1>3. /\ nextFile \in FileIds /\ DeliveredUpTo(nextFile) /\ taken = Published(nextFile)
      /\ HasMatch(files[nextFile], taken) /\ taken \in Nat /\ Possible(nextFile, at)
      /\ Searching /\ tasks = <<>> /\ current = None /\ DeliveredInOrder
      /\ Releasing /\ FlagsAreTrue
  BY <1>1, InSync DEF OrderInv
<1>4. /\ flags \cap {"failed", "halted", "sinkThrew"} = {}
      /\ movedFrom # 0 => HoldsBack /\ (TurnedDown \/ Len(delivered) >= ResultLimit)
      /\ TurnedDown => movedFrom = taken + 1 \/ emptied # {}
      /\ emptied # {} =>
           TurnedDown /\ movedFrom <= taken /\ \A r \in emptied : r[1] = nextFile
      /\ again => movedFrom # 0
  BY <1>1, <1>3 DEF Releasing
<1>5. Possible(nextFile, at)' <=> Possible(nextFile, at)
  BY <1>1 DEF Possible
<1>6. /\ ResultLimit \in Nat /\ Len(delivered) \in Nat /\ movedFrom \in Nat
      /\ ~again => bytes = MatchBytes(nextFile, Published(nextFile) + 1)
  BY <1>3, InputAssumption, OrderTypes DEF SInv, TypeOK
<1> HIDE DEF bytes
<1>7. CASE /\ pc' = "flush" /\ UNCHANGED <<stop, flags>>
           /\ DeliveredUpTo(nextFile)' /\ Published(nextFile)' = Published(nextFile) + 1
           /\ \A g \in Nat : g > nextFile => Published(g)' = 0 /\ Published(g) = 0
           /\ Len(delivered) < ResultLimit /\ Len(delivered') <= ResultLimit
  <2>1. DeliveredInOrder'
    BY <1>1, <1>2, <1>3, <1>5, <1>7 DEF DeliveredInOrder, Publishing
  <2>2. (TurnedDown' <=> TurnedDown) /\ (again => TurnedDown)
    <3>1. ~(Len(delivered) >= ResultLimit)
      BY <1>6, <1>7
    <3> QED
      BY <1>4, <1>7, <3>1 DEF TurnedDown
  <2>3. TurnedDown => emptied' # {}
    BY <1>2, <1>4, <1>7
  <2>4. FlagsAreTrue'
    <3>1. "limitReached" \in flags =>
            TurnedDown \/ OverLimit(files[nextFile], at)
      <4>1. ~Grounds("limit")
        BY <1>6, <1>7, GroundsAre
      <4> QED
        BY <1>3, <4>1 DEF FlagsAreTrue
    <3>2. "memoryLimitReached" \in flags => emptied' # {}
      BY <2>3 DEF TurnedDown
    <3>3. "failed" \notin flags /\ "halted" \notin flags
      BY <1>4
    <3>4. stop /\ flags = {} => cancelled
      BY <1>3 DEF FlagsAreTrue
    <3>5. Searching' /\ ~Publishing'
      BY <1>7 DEF Searching, Publishing
    <3> QED
      BY <1>1, <1>7, <2>2, <3>1, <3>2, <3>3, <3>4, <3>5 DEF FlagsAreTrue
  <2>5. Releasing'
    <3>1. flags' \cap {"failed", "halted", "sinkThrew"} = {}
      BY <1>4, <1>7
    <3>2. movedFrom' # 0 => HoldsBack /\ TurnedDown'
      <4>1. ~(Len(delivered) >= ResultLimit)
        BY <1>6, <1>7
      <4> QED
        BY <1>1, <1>4, <2>2, <4>1
    <3>3. emptied' # {} =>
            TurnedDown' /\ movedFrom' <= taken' /\ \A r \in emptied' : r[1] = nextFile'
      <4>1. CASE again
        <5>1. emptied = {}
          BY <1>3, <1>4, <1>6, <4>1
        <5>2. movedFrom' <= taken'
          BY <1>1, <1>2, <1>3, <1>7, <4>1
        <5> QED
          BY <1>1, <1>2, <1>7, <2>2, <4>1, <5>1, <5>2
      <4>2. CASE ~again
        BY <1>1, <1>2, <1>3, <1>4, <1>6, <1>7, <2>2, <4>2
      <4> QED
        BY <4>1, <4>2
    <3>4. verdict' # "end" =>
            /\ flags' = {} /\ movedFrom' = 0 /\ (at = Promise!ShownCount(nextFile))'
            /\ (verdict = "continue" <=> ~Promise!EndsSearch(nextFile))'
            /\ (verdict = "halt" => files[nextFile].ending = "stop")'
      <4>1. /\ Promise!ShownCount(nextFile)' = Promise!ShownCount(nextFile)
            /\ Promise!EndsSearch(nextFile)' <=> Promise!EndsSearch(nextFile)
        BY <1>1 DEF Promise!ShownCount, Promise!EndsSearch, Promise!CutShort
      <4> QED
        BY <1>1, <1>3, <1>7, <4>1 DEF Releasing
    <3>5. verdict' = "end" => flags' # {} \/ cancelled'
      BY <1>1, <1>3, <1>7 DEF Releasing
    <3> QED
      BY <2>2, <2>3, <3>1, <3>2, <3>3, <3>4, <3>5 DEF Releasing
  <2>6. ~stop => (QueuesInOrder /\ WorkersInStep)'
    BY <1>1, <1>7, InFileDelivers
  <2> QED
    BY <1>7, <2>1, <2>4, <2>5, <2>6 DEF OrderInv
<1>8. ASSUME UNCHANGED <<delivered, resultBytes>>, pc' = "join",
             NEW said \in Sayings, flags' = flags \cup {said},
             said = "limitReached" => Grounds("limit"),
             said = "memoryLimitReached" => Len(delivered) < ResultLimit,
             said = "memoryLimitReached" /\ ~again => Grounds("memory")
      PROVE  OrderInv'
  <2>1. DeliveredInOrder'
    BY <1>3, <1>8 DEF DeliveredInOrder, Publishing
  <2>2. said = "memoryLimitReached" =>
          Grounds("memory") \/ emptied # {} \/ "refused" \in flags
    <3> SUFFICES ASSUME said = "memoryLimitReached", again
                 PROVE  Grounds("memory") \/ emptied # {} \/ "refused" \in flags
      BY <1>8
    <3>1. TurnedDown
      BY <1>4, <1>6, <1>8
    <3>2. "refused" \in flags \/ "memoryLimitReached" \in flags
      BY <1>4, <3>1 DEF TurnedDown
    <3> QED
      BY <1>3, <3>2 DEF FlagsAreTrue
  <2>3. FlagsAreTrue'
    BY <1>1, <1>2, <1>4, <1>8, <2>2, FlagsAfterRefusal
  <2> QED
    BY <1>8, <2>1, <2>3 DEF OrderInv, Searching, Releasing
<1>9. Offered(<<nextFile, Published(nextFile) + 1>>, bytes, "flush", "join")
  BY <1>1, <1>3
<1> QED
  BY <1>1, <1>3, <1>6, <1>7, <1>8, <1>9, PublishOrder

(* The reading ends: at a limit, at a stop, or at the end of the file. *)
LEMMA EndReadingOrder ==
  ASSUME SInv, SInv', OrderInv, SyncStopped \/ SyncOverLimit \/ SyncEnds PROVE OrderInv'
<1> DEFINE file == files[nextFile]
<1>1. /\ pc = "sync" /\ pc' = "flush"
      /\ UNCHANGED <<files, resume, nextFile, at, taken, movedFrom, emptied, tasks, current,
                     worker, events, eventsClosed, stop, cancelled, delivered, resultBytes>>
  BY DEF SyncStopped, SyncOverLimit, SyncEnds, EndReading, scanVars, outputVars
<1>2. \/ stop /\ verdict' = "end" /\ flags' = flags
      \/ /\ OverLimit(file, at) /\ verdict' = "end"
         /\ flags' = flags \cup {"limitReached"}
      \/ /\ OverPerFile(file, at) \/ (at = Len(file.results) /\ file.ending = "continue")
         /\ verdict' = "continue" /\ flags' = flags
      \/ /\ at = Len(file.results) /\ file.ending = "stop"
         /\ verdict' = "halt" /\ flags' = flags
  BY DEF SyncStopped, SyncOverLimit, SyncEnds, EndReading, SayLimitReached
<1>3. /\ nextFile \in FileIds /\ DeliveredUpTo(nextFile) /\ taken = Published(nextFile)
      /\ at \in Nat /\ Possible(nextFile, at) /\ Searching /\ Len(delivered) <= ResultLimit
      /\ flags = {} /\ movedFrom = 0 /\ emptied = {} /\ (stop => cancelled)
      /\ files \in Worlds
  BY <1>1, InSync, OrderTypes
<1>4. /\ OverPerFile(file, at) => Promise!CutShort(nextFile) /\ at = Promise!ShownCount(nextFile)
      /\ at = Len(file.results) =>
           ~Promise!CutShort(nextFile) /\ at = Promise!ShownCount(nextFile)
  BY <1>3, FileLimits
<1>5. DeliveredInOrder'
  <2>1. DeliveredUpTo(nextFile)' /\ taken' = Published(nextFile)'
    BY <1>1, <1>3, SameDelivered
  <2>2. Possible(nextFile, at)'
    BY <1>1, <1>3 DEF Possible
  <2> QED
    BY <1>1, <1>3, <2>1, <2>2 DEF DeliveredInOrder, Publishing
<1>6. flags' \in {{}, {"limitReached"}} /\ ("limitReached" \in flags' => OverLimit(file, at))
  BY <1>2, <1>3
<1>7. FlagsAreTrue'
  <2>1. stop' /\ flags' = {} => cancelled'
    BY <1>1, <1>3
  <2> QED
    BY <1>1, <1>6, <2>1 DEF FlagsAreTrue, Searching, Publishing
<1>8. Releasing'
  <2>1. flags' \cap {"failed", "halted", "sinkThrew"} = {} /\ ~TurnedDown'
    BY <1>6 DEF TurnedDown
  <2>2. /\ Promise!ShownCount(nextFile)' = Promise!ShownCount(nextFile)
        /\ Promise!EndsSearch(nextFile)' <=> Promise!EndsSearch(nextFile)
    BY <1>1 DEF Promise!ShownCount, Promise!EndsSearch, Promise!CutShort
  <2>3. verdict' # "end" =>
          /\ flags' = {} /\ at = Promise!ShownCount(nextFile)
          /\ verdict' = "continue" <=> ~Promise!EndsSearch(nextFile)
          /\ verdict' = "halt" => file.ending = "stop"
    BY <1>2, <1>3, <1>4 DEF Promise!EndsSearch
  <2>4. verdict' = "end" => flags' # {} \/ cancelled'
    BY <1>1, <1>2, <1>3
  <2> QED
    BY <1>1, <1>3, <2>1, <2>2, <2>3, <2>4 DEF Releasing
<1>9. ~stop' => (QueuesInOrder /\ WorkersInStep)'
  <2>1. Due' = Due /\ Due \in Int
    BY <1>1, OrderTypes DEF Due, Submitted
  <2>2. Due' >= Due
    BY <2>1
  <2> QED
    BY <1>1, <1>3, <2>2, QueuesStep
<1> QED
  BY <1>1, <1>5, <1>7, <1>8, <1>9 DEF OrderInv

LEMMA SyncThrowsOrder == ASSUME SInv, SInv', OrderInv, SyncThrows PROVE OrderInv'
<1>1. /\ pc = "sync" /\ pc' = "join" /\ Settled
      /\ at = Len(files[nextFile].results) /\ files[nextFile].ending = "throw"
      /\ flags' = flags \cup {"failed"}
      /\ UNCHANGED <<files, delivered, resultBytes, cancelled>>
  BY DEF SyncThrows, outputVars
<1>2. /\ nextFile \in FileIds /\ DeliveredUpTo(nextFile) /\ taken = Published(nextFile)
      /\ at \in Nat /\ Possible(nextFile, at) /\ flags = {} /\ files \in Worlds
      /\ Len(delivered) <= ResultLimit
  BY <1>1, InSync, OrderTypes
<1>3. ~Promise!CutShort(nextFile) /\ at = Promise!ShownCount(nextFile)
  BY <1>1, <1>2, FileLimits
<1>4. Grounds("failed")
  BY <1>1, <1>2, <1>3, ThrowLoses DEF Promise!EndsSearch, Settled
<1>5. FlagsAreTrue'
  <2>1. Grounds("failed")' /\ flags' = {"failed"}
    BY <1>1, <1>2, <1>4, SameGrounds
  <2> QED
    BY <1>1, <2>1 DEF FlagsAreTrue, Searching, Publishing
<1>6. DeliveredInOrder'
  BY <1>1, <1>2 DEF DeliveredInOrder, Publishing
<1> QED
  BY <1>1, <1>5, <1>6 DEF OrderInv, Searching, Releasing

(* The file is left. *)
LEMMA FileDoneOrder == ASSUME SInv, SInv', OrderInv, FileDone PROVE OrderInv'
<1>1. /\ pc = "flush" /\ taken = at
      /\ UNCHANGED <<files, delivered, resultBytes, movedFrom, emptied, verdict, tasks, current,
                     worker, events, eventsClosed, cancelled>>
      /\ \/ /\ verdict = "continue" /\ pc' = "scan" /\ nextFile' = nextFile + 1
            /\ UNCHANGED <<stop, flags>>
         \/ /\ verdict # "continue" /\ pc' = "join"
            /\ flags' = flags \cup (IF verdict = "halt" THEN {"halted"} ELSE {})
  BY DEF FileDone, outputVars
<1>2. /\ nextFile \in FileIds /\ DeliveredUpTo(nextFile) /\ taken = Published(nextFile)
      /\ Searching /\ tasks = <<>> /\ current = None /\ files \in Worlds
      /\ delivered \in Seq(FileIds \X Nat) /\ Due = nextFile
      /\ Len(delivered) <= ResultLimit /\ (stop /\ flags = {} => cancelled)
      /\ verdict \in {"continue", "halt", "end"} /\ Releasing /\ FlagsAreTrue
  BY <1>1, InSync, OrderTypes DEF OrderInv, SInv, TypeOK
<1>3. \A how : Grounds(how)' <=> Grounds(how)
  BY <1>1, SameGrounds
<1>4. CASE verdict = "continue"
  <2>1. flags = {} /\ movedFrom = 0 /\ emptied = {}
    BY <1>1, <1>2, <1>4 DEF Releasing, TurnedDown
  <2>2. DeliveredBefore(nextFile + 1)
    BY <1>1, <1>2, <1>4, NextFileIsDue DEF Releasing
  <2>3. Due' = nextFile + 1 /\ Due' >= Due
    BY <1>1, <1>2, <1>4, OrderTypes DEF Due, Submitted
  <2>4. DeliveredBefore(Due)'
    BY <1>1, <2>2, <2>3, SameDelivered
  <2>5. DeliveredInOrder'
    BY <1>1, <1>2, <1>4, <2>4 DEF DeliveredInOrder, Publishing
  <2>6. FlagsAreTrue'
    BY <1>1, <1>2, <1>4, <2>1 DEF FlagsAreTrue, Searching, Publishing
  <2>7. ~stop => (QueuesInOrder /\ WorkersInStep)'
    BY <1>1, <1>2, <1>4, <2>3, QueuesStep
  <2> QED
    BY <1>1, <1>4, <2>5, <2>6, <2>7 DEF OrderInv, Releasing
<1>5. CASE verdict = "halt"
  <2>1. flags' = {"halted"} /\ pc' = "join"
    BY <1>1, <1>2, <1>5 DEF Releasing
  <2>2. Grounds("halted")
    BY <1>1, <1>2, <1>5, NothingMissing, GroundsAre DEF Releasing
  <2>3. FlagsAreTrue'
    BY <1>3, <2>1, <2>2 DEF FlagsAreTrue, Searching, Publishing
  <2>4. DeliveredInOrder'
    BY <1>1, <1>2, <2>1 DEF DeliveredInOrder, Publishing
  <2> QED
    BY <2>1, <2>3, <2>4 DEF OrderInv, Searching, Releasing
<1>6. CASE verdict = "end"
  <2>1. /\ flags' = flags /\ pc' = "join" /\ (flags # {} \/ cancelled)
        /\ "failed" \notin flags /\ "halted" \notin flags
    BY <1>1, <1>2, <1>6 DEF Releasing
  <2>2. "limitReached" \in flags => Grounds("limit") \/ TurnedDown
    BY <1>1, <1>2, FileEnds DEF FlagsAreTrue
  <2>3. TurnedDown' <=> TurnedDown
    BY <2>1 DEF TurnedDown
  <2>4. "memoryLimitReached" \in flags' =>
          Grounds("memory")' \/ emptied' # {} \/ "refused" \in flags'
    BY <1>1, <1>2, <1>3, <2>1 DEF FlagsAreTrue
  <2>5. FlagsAreTrue'
    BY <1>1, <1>3, <2>1, <2>2, <2>3, <2>4 DEF FlagsAreTrue, Searching, Publishing
  <2>6. DeliveredInOrder'
    BY <1>1, <1>2, <2>1 DEF DeliveredInOrder, Publishing
  <2> QED
    BY <2>1, <2>5, <2>6 DEF OrderInv, Searching, Releasing
<1> QED
  BY <1>2, <1>4, <1>5, <1>6

-----------------------------------------------------------------------------
(* The workers.  They touch the event queues only, each the one of the     *)
(* file it searches.                                                       *)
LEMMA WorkerOrder ==
  ASSUME SInv, SInv', OrderInv, UNCHANGED mainVars,
         stop => UNCHANGED events, FirstUntaken' >= FirstUntaken,
         ~stop /\ Searching => (QueuesInOrder /\ WorkersInStep)'
  PROVE  OrderInv'
<1>1. UNCHANGED <<files, pc, resume, nextFile, at, taken, verdict, movedFrom, emptied, tasks,
                  current, stop, cancelled, delivered, resultBytes, flags>>
  BY DEF mainVars, scanVars, outputVars
<1>2. \A f : /\ DeliveredUpTo(f)' <=> DeliveredUpTo(f)
             /\ DeliveredBefore(f)' <=> DeliveredBefore(f)
             /\ Published(f)' = Published(f)
  BY <1>1, SameDelivered
<1>3. Due' = Due
  BY <1>1 DEF Due, Submitted
<1>4. DeliveredInOrder'
  <2>1. current' >= FirstUntaken' => current >= FirstUntaken
    <3>1. nextFile' \in Int /\ Len(poolQueue') \in Int
      BY DEF SInv, TypeOK
    <3>2. FirstUntaken \in Int /\ FirstUntaken' \in Int /\ current \in Int
      BY <3>1, OrderTypes DEF FirstUntaken
    <3> QED
      BY <1>1, <3>2
  <2> QED
    BY <1>1, <1>2, <1>3, <2>1 DEF DeliveredInOrder, OrderInv, Publishing, Possible
<1>5. FlagsAreTrue'
  BY <1>1, FlagsStep DEF OrderInv, FlagsAreTrue, Searching, Publishing
<1>6. pc' = "pop" => QueueInOrder(current)'
  <2> SUFFICES ASSUME pc' = "pop" PROVE QueueInOrder(current)'
    OBVIOUS
  <2>1. Searching /\ current \in FileIds /\ current # None /\ QueueInOrder(current)
    BY <1>1 DEF Searching, SInv, CurrentMeansPublishing, Publishing, OrderInv, FileIds, None
  <2>2. CASE stop
    BY <1>1, <1>2, <2>1, <2>2 DEF QueueInOrder, NextEvent
  <2>3. CASE ~stop
    <3>1. Due' = current' /\ current' \in FileIds /\ current' >= current'
      BY <1>1, <1>3, <2>1 DEF Due, FileIds
    <3> QED
      BY <2>1, <2>3, <3>1 DEF QueuesInOrder
  <2> QED
    BY <2>2, <2>3
<1>7. Searching' <=> Searching
  BY <1>1 DEF Searching
<1>8. Releasing'
  <2>1. /\ TurnedDown' <=> TurnedDown
        /\ Promise!ShownCount(nextFile)' = Promise!ShownCount(nextFile)
        /\ Promise!EndsSearch(nextFile)' <=> Promise!EndsSearch(nextFile)
    BY <1>1 DEF TurnedDown, Promise!ShownCount, Promise!EndsSearch, Promise!CutShort
  <2> QED
    BY <1>1, <2>1 DEF OrderInv, Releasing
<1> QED
  BY <1>1, <1>4, <1>5, <1>6, <1>7, <1>8 DEF OrderInv

(* While the search goes on, there is a file that is due, and nothing is   *)
(* delivered of the files behind it.                                       *)
LEMMA DueDelivered ==
  ASSUME SInv, OrderInv, ~stop, Searching
  PROVE  /\ DeliveredUpTo(Due) /\ Due \in Nat
         /\ \A f \in FileIds : f >= Due => Published(f) \in Nat
         /\ \A f \in FileIds : f > Due => Published(f) = 0
<1>1. DeliveredUpTo(Due) /\ Due \in Nat
  <2>1. CASE current # None
    <3>1. Publishing /\ Due = current /\ current \in Nat
      BY <2>1, OrderTypes
      DEF Searching, SInv, TypeOK, CurrentMeansPublishing, Publishing, Due
    <3> QED
      BY <3>1 DEF OrderInv, DeliveredInOrder
  <2>2. CASE InFile
    BY <2>2, InSync, OrderTypes
  <2>3. CASE current = None /\ ~InFile
    <3>1. pc \in {"scan", "submit", "ahead", "drain"}
      BY <2>3 DEF Searching, SInv, TypeOK, CurrentMeansPublishing, Publishing, None, FileIds
    <3>2. DeliveredUpTo(Due)
      BY <3>1 DEF OrderInv, DeliveredInOrder, DeliveredBefore
    <3>3. CASE tasks # <<>>
      BY <2>3, <3>2, <3>3, FrontIsDue DEF FileIds
    <3>4. CASE tasks = <<>>
      BY <2>3, <3>1, <3>2, <3>4, OrderTypes DEF Due, Submitted, SInv, FewInFlight
    <3> QED
      BY <3>3, <3>4
  <2> QED
    BY <2>1, <2>2, <2>3
<1>2. Published(Due) \in Nat /\ \A g \in Nat : g > Due => Published(g) = 0
  BY <1>1, LastDelivered, OrderTypes
<1>3. \A f \in FileIds : f \in Nat /\ (f >= Due => f = Due \/ f > Due)
  BY <1>1 DEF FileIds
<1> QED
  BY <1>1, <1>2, <1>3

(* Nothing is delivered of a file that no worker has taken. *)
LEMMA UntakenUnpublished ==
  ASSUME SInv, OrderInv, ~stop, Searching, poolQueue # <<>>,
         NEW f \in FileIds, f >= FirstUntaken, f >= Due
  PROVE  Published(f) = 0
<1>1. f \in Nat /\ Due \in Int /\ Len(poolQueue) \in Nat \ {0} /\ nextFile \in Nat
      /\ Submitted \in Int
  <2>1. Len(poolQueue) # 0
    BY DEF SInv, TypeOK
  <2> QED
    BY <2>1, OrderTypes DEF FileIds
<1>2. ~InFile
  <2>1. InFile => Submitted = 0 /\ current = None
    BY DEF SInv, FewInFlight, CurrentMeansPublishing, Submitted
  <2> QED
    BY <1>1, <2>1 DEF SInv, ScannerOrder
<1>3. f > Due => Published(f) = 0
  BY DueDelivered
<1>4. ASSUME f = Due PROVE Published(f) = 0
  <2>1. CASE current = None
    <3>1. pc \in {"scan", "submit", "ahead", "drain"}
      BY <1>2, <2>1
      DEF Searching, SInv, TypeOK, CurrentMeansPublishing, Publishing, None, FileIds
    <3> QED
      BY <1>4, <3>1 DEF OrderInv, DeliveredInOrder, DeliveredBefore
  <2>2. CASE current # None
    <3>1. Publishing /\ Due = current
      BY <2>2 DEF Searching, SInv, TypeOK, CurrentMeansPublishing, Publishing, Due
    <3> QED
      BY <1>4, <3>1 DEF OrderInv, DeliveredInOrder
  <2> QED
    BY <2>1, <2>2
<1> QED
  BY <1>1, <1>3, <1>4

LEMMA TakeTaskOrder ==
  ASSUME SInv, SInv', OrderInv, NEW w \in Workers, TakeTask(w) PROVE OrderInv'
<1>1. /\ poolQueue # <<>> /\ UNCHANGED <<mainVars, events, eventsClosed>>
      /\ worker' = [worker EXCEPT ![w] =
                      [state |-> "searching", file |-> Head(poolQueue), at |-> 0]]
      /\ poolQueue' = Tail(poolQueue) /\ ~Busy(w)
  BY DEF TakeTask, Busy
<1>2. /\ Len(poolQueue) \in Nat \ {0} /\ Head(poolQueue) \in FileIds
      /\ Head(poolQueue) = poolQueue[1] /\ 1 \in 1..Len(poolQueue)
      /\ Len(poolQueue') = Len(poolQueue) - 1
  BY <1>1, SequenceEnds DEF SInv, TypeOK
<1>3. nextFile' = nextFile /\ nextFile \in Int /\ FirstUntaken' = FirstUntaken + 1
      /\ FirstUntaken \in Int
  BY <1>1, <1>2, OrderTypes DEF FirstUntaken, mainVars, scanVars
<1>4. ASSUME ~stop, Searching PROVE (QueuesInOrder /\ WorkersInStep)'
  <2>0. PICK f \in FileIds : f = Head(poolQueue)
    BY <1>2
  <2>1. f = FirstUntaken
    BY <1>2, <1>3, <1>4, <2>0 DEF SInv, ScannerOrder
  <2>2. /\ events[f] = <<>> /\ ~eventsClosed[f]
        /\ \A v \in Workers : Busy(v) => worker[v].file < f
    BY <1>2, <1>3, <1>4, <2>1 DEF SInv, UntakenUntouched
  <2>3. f >= Due => Published(f) = 0
    BY <1>1, <1>2, <1>3, <1>4, <2>1, UntakenUnpublished
  <2>4. UNCHANGED <<files, delivered, pc, nextFile, tasks, current, events, eventsClosed>>
    BY <1>1 DEF mainVars, scanVars, outputVars
  <2>5. Due' = Due
    BY <2>4 DEF Due, Submitted
  <2>6. \A g : Published(g)' = Published(g)
    BY <2>4, SameDelivered
  <2>7. QueuesInOrder /\ WorkersInStep
    BY <1>4 DEF OrderInv
  <2>8. QueuesInOrder'
    BY <2>4, <2>5, <2>6, <2>7
    DEF QueuesInOrder, QueueInOrder, NextEvent, Completed
  <2>9. /\ worker'[w] = [state |-> "searching", file |-> f, at |-> 0]
        /\ \A v \in Workers : v # w => worker'[v] = worker[v]
    BY <1>1, <2>0 DEF SInv, TypeOK
  <2>10. WorkersInStep'
    <3>1. ASSUME NEW v \in Workers, Busy(v)', worker'[v].file >= Due' PROVE WorkerInStep(v)'
      <4>1. CASE v = w
        <5>1. Published(f)' = 0
          BY <2>3, <2>5, <2>6, <2>9, <3>1, <4>1
        <5>2. worker'[v].file = f /\ worker'[v].at = 0 /\ worker'[v].state = "searching"
          BY <2>9, <4>1
        <5>3. events'[f] = <<>>
          BY <2>2, <2>4
        <5> QED
          BY <5>1, <5>2, <5>3 DEF WorkerInStep, Completed, Possible
      <4>2. CASE v # w
        <5>1. worker'[v] = worker[v]
          BY <2>9, <4>2
        <5>2. Busy(v) /\ worker[v].file >= Due
          BY <2>5, <3>1, <5>1 DEF Busy
        <5>3. WorkerInStep(v)
          BY <2>7, <5>2 DEF WorkersInStep
        <5>4. Published(worker[v].file)' = Published(worker[v].file)
          BY <2>4, <5>1 DEF Published
        <5> QED
          BY <2>4, <5>1, <5>3, <5>4 DEF WorkerInStep, Completed, Possible
      <4> QED
        BY <4>1, <4>2
    <3>2. ASSUME NEW u \in Workers, NEW v \in Workers, Busy(u)', Busy(v)', u # v
          PROVE  worker'[u].file # worker'[v].file
      <4>1. \A x \in Workers : x # w /\ Busy(x)' =>
              worker'[x].file = worker[x].file /\ Busy(x) /\ worker[x].file < f
        BY <2>2, <2>9 DEF Busy
      <4>2. \A x \in Workers : x # w /\ Busy(x)' => worker'[x].file # f
        <5>1. \A x \in Workers : Busy(x) => worker[x].file \in FileIds
          BY DEF SInv, BusyWorkersHaveFiles
        <5> QED
          BY <4>1, <5>1 DEF FileIds
      <4>3. CASE u = w
        BY <2>9, <3>2, <4>2, <4>3
      <4>4. CASE v = w
        BY <2>9, <3>2, <4>2, <4>4
      <4>5. CASE u # w /\ v # w
        BY <2>7, <3>2, <4>1, <4>5 DEF WorkersInStep
      <4> QED
        BY <4>3, <4>4, <4>5
    <3> QED
      BY <3>1, <3>2 DEF WorkersInStep
  <2> QED
    BY <2>8, <2>10
<1>5. FirstUntaken' >= FirstUntaken
  BY <1>3
<1> QED
  BY <1>1, <1>4, <1>5, WorkerOrder

(* A worker puts the next event of its file into the queue of the file. *)
LEMMA EmitOrder ==
  ASSUME SInv, SInv', OrderInv, NEW w \in Workers, EmitResult(w) \/ EmitCompletion(w)
  PROVE  OrderInv'
<1>1. /\ worker \in [Workers -> [state : {"idle", "searching", "closing", "exited"},
                                 file : FileIds \cup {None}, at : Nat]]
      /\ files \in Worlds /\ events \in [FileIds -> Seq(Event)]
      /\ events' \in [FileIds -> Seq(Event)]
  BY DEF SInv, TypeOK
<1>2. /\ worker[w].state = "searching" /\ Busy(w) /\ worker[w].file \in FileIds
      /\ worker[w].at \in Nat
  BY <1>1 DEF EmitResult, EmitCompletion, Busy, SInv, BusyWorkersHaveFiles
<1>3. PICK f \in FileIds, i \in Nat : f = worker[w].file /\ i = worker[w].at
  BY <1>2
<1>4. PICK event :
        /\ events' = [events EXCEPT ![f] = Append(@, event)] /\ ~stop
        /\ UNCHANGED <<mainVars, poolQueue, eventsClosed>>
        /\ \/ /\ HasMatch(files[f], i) /\ event = ResultEvent(f, i + 1)
              /\ worker' = [worker EXCEPT ![w].at = i + 1]
           \/ /\ Throws(files[f], i) \/ ~HasMatch(files[f], i)
              /\ event = CompletionOf(files[f], f, i)
              /\ worker' = [worker EXCEPT ![w].state = "closing"]
  <2>1. CASE EmitResult(w)
    BY <1>3, <2>1 DEF EmitResult, PushEvent
  <2>2. CASE EmitCompletion(w)
    <3>1. /\ PushEvent(f, CompletionOf(files[f], f, i))
          /\ Throws(files[f], i) \/ ~HasMatch(files[f], i)
          /\ worker' = [worker EXCEPT ![w].state = "closing"]
          /\ UNCHANGED <<mainVars, poolQueue, eventsClosed>>
      BY <1>3, <2>2 DEF EmitCompletion, CompletionOf
    <3> QED
      BY <3>1 DEF PushEvent
  <2> QED
    BY <2>1, <2>2
<1>5. /\ worker'[w].file = f /\ \A v \in Workers : v # w => worker'[v] = worker[v]
      /\ \/ /\ HasMatch(files[f], i) /\ event.at = i + 1
            /\ worker'[w].state = "searching" /\ worker'[w].at = i + 1
         \/ event.at = None /\ worker'[w].state = "closing"
  <2>1. ResultEvent(f, i + 1).at = i + 1 /\ CompletionOf(files[f], f, i).at = None
    BY DEF ResultEvent, CompletionOf, Completion
  <2> QED
    BY <1>1, <1>2, <1>3, <1>4, <2>1
<1>6. /\ Len(events[f]) \in Nat /\ Len(events'[f]) = Len(events[f]) + 1
      /\ \A k \in 1..Len(events[f]) : events'[f][k] = events[f][k]
      /\ events'[f][Len(events[f]) + 1] = event
      /\ \A g \in FileIds : g # f => events'[g] = events[g]
  <2>1. events[f] \in Seq(Event) /\ events'[f] = Append(events[f], event)
        /\ \A g \in FileIds : g # f => events'[g] = events[g]
    BY <1>1, <1>4
  <2>2. event \in Event
    <3>1. events'[f][Len(events[f]) + 1] = event /\ Len(events'[f]) = Len(events[f]) + 1
      BY <2>1
    <3>2. Len(events[f]) + 1 \in 1..Len(events'[f])
      BY <2>1, <3>1
    <3> QED
      BY <1>1, <3>1, <3>2
  <2> QED
    BY <2>1, <2>2, SequenceAppend
<1>7. ASSUME ~stop, Searching PROVE (QueuesInOrder /\ WorkersInStep)'
  <2>1. UNCHANGED <<files, delivered, pc, nextFile, tasks, current, eventsClosed>>
    BY <1>4 DEF mainVars, scanVars, outputVars
  <2>2. Due' = Due
    BY <2>1 DEF Due, Submitted
  <2>3. \A g : Published(g)' = Published(g)
    BY <2>1, SameDelivered
  <2>4. QueuesInOrder /\ WorkersInStep
    BY <1>7 DEF OrderInv
  <2>5. f >= Due => /\ i = Published(f) + Len(events[f]) /\ Possible(f, i)
                    /\ ~Completed(f) /\ QueueInOrder(f) /\ ~eventsClosed[f]
    BY <1>2, <1>3, <2>4 DEF WorkersInStep, WorkerInStep, QueuesInOrder
  <2>6. ASSUME f >= Due, NEW k \in 1..Len(events'[f])
        PROVE  /\ NextEvent(f, Published(f) + k - 1, events'[f][k])
               /\ k < Len(events'[f]) => events'[f][k].at # None
    <3>1. CASE k \in 1..Len(events[f])
      <4>1. events'[f][k] = events[f][k] /\ NextEvent(f, Published(f) + k - 1, events[f][k])
        BY <1>6, <2>5, <2>6, <3>1 DEF QueueInOrder
      <4>2. k = Len(events[f]) => events[f][k].at # None
        <5>1. k = Len(events[f]) => events[f] # <<>>
          BY <3>1
        <5> QED
          BY <2>5, <2>6, <5>1 DEF Completed
      <4>3. k # Len(events[f]) => events[f][k].at # None
        <5>1. k # Len(events[f]) => k < Len(events[f])
          BY <1>6, <3>1
        <5> QED
          BY <2>5, <2>6, <3>1, <5>1 DEF QueueInOrder
      <4> QED
        BY <4>1, <4>2, <4>3
    <3>2. CASE k = Len(events[f]) + 1
      <4>1. Published(f) + k - 1 = i /\ ~(k < Len(events'[f]))
        <5>1. Published(f) \in Nat
          BY <1>7, <2>6, DueDelivered
        <5> QED
          BY <1>6, <2>5, <2>6, <3>2, <5>1
      <4>2. NextEvent(f, i, event)
        BY <1>4, <2>5, <2>6 DEF NextEvent, EventOf, Possible
      <4> QED
        BY <1>6, <3>2, <4>1, <4>2
    <3> QED
      BY <1>6, <3>1, <3>2
  <2>7. ASSUME NEW g \in FileIds, g >= Due' PROVE QueueInOrder(g)'
    <3>1. CASE g = f
      <4>1. Published(f)' = Published(f)
        BY <2>3
      <4>2. ASSUME NEW k \in 1..Len(events'[f])
            PROVE  NextEvent(f, Published(f) + k - 1, events[f][k])'
        <5>1. NextEvent(f, Published(f) + k - 1, events'[f][k])
          BY <2>2, <2>6, <2>7, <3>1
        <5> QED
          BY <2>1, <4>1, <5>1 DEF NextEvent
      <4> QED
        BY <2>2, <2>6, <2>7, <3>1, <4>2 DEF QueueInOrder
    <3>2. CASE g # f
      <4>1. QueueInOrder(g) /\ events'[g] = events[g] /\ Published(g)' = Published(g)
        BY <1>6, <2>2, <2>3, <2>4, <2>7, <3>2 DEF QueuesInOrder
      <4> QED
        BY <2>1, <4>1 DEF QueueInOrder, NextEvent
    <3> QED
      BY <3>1, <3>2
  <2>8. ASSUME NEW g \in FileIds, g >= Due', eventsClosed'[g] PROVE Completed(g)'
    <3>1. g # f /\ Completed(g)
      BY <2>1, <2>2, <2>4, <2>5, <2>8 DEF QueuesInOrder
    <3> QED
      BY <1>6, <3>1 DEF Completed
  <2>9. ASSUME NEW v \in Workers, Busy(v)', worker'[v].file >= Due' PROVE WorkerInStep(v)'
    <3>1. CASE v = w
      <4>1. events'[f] # <<>> /\ events'[f][Len(events'[f])] = event
        BY <1>6
      <4>2. Published(f)' = Published(f) /\ f >= Due
        BY <1>5, <2>2, <2>3, <2>9, <3>1
      <4>3. i + 1 # None /\ i + 1 - 1 = i
        BY DEF None
      <4>4. CASE /\ HasMatch(files[f], i) /\ event.at = i + 1
                 /\ worker'[w].state = "searching" /\ worker'[w].at = i + 1
        <5>1. Possible(f, i + 1)' /\ ~Completed(f)'
          BY <2>1, <4>1, <4>3, <4>4 DEF Possible, Completed
        <5>2. i + 1 = Published(f)' + Len(events'[f])
          <6>1. i = Published(f) + Len(events[f])
            BY <2>5, <4>2
          <6>2. Published(f) \in Nat
            BY <1>7, <4>2, DueDelivered
          <6> QED
            BY <1>6, <4>2, <6>1, <6>2
        <5> QED
          BY <1>5, <3>1, <4>4, <5>1, <5>2 DEF WorkerInStep, Completed, Possible
      <4>5. CASE event.at = None /\ worker'[w].state = "closing"
        BY <1>5, <3>1, <4>1, <4>5 DEF WorkerInStep, Completed
      <4> QED
        BY <1>5, <4>4, <4>5
    <3>2. CASE v # w
      <4>1. worker'[v] = worker[v] /\ Busy(v) /\ worker[v].file \in FileIds
        BY <1>5, <2>9, <3>2 DEF Busy, SInv, BusyWorkersHaveFiles
      <4>2. worker[v].file # f /\ WorkerInStep(v)
        BY <1>2, <1>3, <2>2, <2>4, <2>9, <3>2, <4>1 DEF WorkersInStep
      <4>3. events'[worker[v].file] = events[worker[v].file]
        BY <1>6, <4>1, <4>2
      <4>4. Published(worker[v].file)' = Published(worker[v].file)
        BY <2>1, <4>1 DEF Published
      <4> QED
        BY <2>1, <4>1, <4>2, <4>3, <4>4 DEF WorkerInStep, Completed, Possible
    <3> QED
      BY <3>1, <3>2
  <2>10. \A u, v \in Workers : Busy(u)' /\ Busy(v)' /\ u # v =>
           worker'[u].file # worker'[v].file
    <3>1. \A v \in Workers : Busy(v)' => Busy(v) /\ worker'[v].file = worker[v].file
      BY <1>2, <1>3, <1>5 DEF Busy
    <3> QED
      BY <2>4, <3>1 DEF WorkersInStep
  <2> QED
    BY <2>7, <2>8, <2>9, <2>10 DEF QueuesInOrder, WorkersInStep
<1>8. FirstUntaken' >= FirstUntaken
  <2>1. FirstUntaken' = FirstUntaken /\ FirstUntaken \in Int
    BY <1>4, OrderTypes DEF FirstUntaken, mainVars, scanVars
  <2> QED
    BY <2>1
<1> QED
  BY <1>4, <1>7, <1>8, WorkerOrder

LEMMA WorkerEndsOrder ==
  ASSUME SInv, SInv', OrderInv, NEW w \in Workers, Exit(w) \/ Abandon(w) \/ CloseEvents(w)
  PROVE  OrderInv'
<1>1. UNCHANGED <<mainVars, poolQueue, events>>
  BY DEF Exit, Abandon, CloseEvents
<1>2. worker \in [Workers -> [state : {"idle", "searching", "closing", "exited"},
                              file : FileIds \cup {None}, at : Nat]]
  BY DEF SInv, TypeOK
<1>3. ASSUME ~stop, Searching PROVE (QueuesInOrder /\ WorkersInStep)'
  <2>1. UNCHANGED <<files, delivered, pc, nextFile, tasks, current, events>>
    BY <1>1 DEF mainVars, scanVars, outputVars
  <2>2. Due' = Due
    BY <2>1 DEF Due, Submitted
  <2>3. \A g : Published(g)' = Published(g)
    BY <2>1, SameDelivered
  <2>4. QueuesInOrder /\ WorkersInStep
    BY <1>3 DEF OrderInv
  <2>5. /\ ~Busy(w)' /\ \A v \in Workers : v # w => worker'[v] = worker[v]
        /\ \A f \in FileIds : eventsClosed'[f] =>
             eventsClosed[f] \/ (worker[w].state = "closing" /\ worker[w].file = f)
    <3>1. CASE Exit(w)
      BY <1>2, <3>1 DEF Exit, Busy
    <3>2. CASE CloseEvents(w)
      <4>1. eventsClosed \in [FileIds -> BOOLEAN]
        BY DEF SInv, TypeOK
      <4> QED
        BY <1>2, <3>2, <4>1 DEF CloseEvents, Busy, Idle
    <3> QED
      BY <1>3, <3>1, <3>2 DEF Abandon
  <2>6. ASSUME NEW f \in FileIds, f >= Due' PROVE QueueInOrder(f)'
    <3>1. QueueInOrder(f)
      BY <2>2, <2>4, <2>6 DEF QueuesInOrder
    <3> QED
      BY <2>1, <2>3, <3>1 DEF QueueInOrder, NextEvent
  <2>7. ASSUME NEW f \in FileIds, f >= Due', eventsClosed'[f] PROVE Completed(f)'
    <3>1. Completed(f)
      BY <2>2, <2>4, <2>5, <2>7 DEF QueuesInOrder, WorkersInStep, WorkerInStep, Busy
    <3> QED
      BY <2>1, <3>1 DEF Completed
  <2>8. ASSUME NEW v \in Workers, Busy(v)', worker'[v].file >= Due' PROVE WorkerInStep(v)'
    <3>1. worker'[v] = worker[v] /\ Busy(v)
      BY <2>5, <2>8 DEF Busy
    <3>2. WorkerInStep(v)
      BY <2>2, <2>4, <2>8, <3>1 DEF WorkersInStep
    <3>3. Published(worker[v].file)' = Published(worker[v].file)
      BY <2>1, <3>1 DEF Published
    <3> QED
      BY <2>1, <3>1, <3>2, <3>3 DEF WorkerInStep, Completed, Possible
  <2>9. \A u, v \in Workers : Busy(u)' /\ Busy(v)' /\ u # v =>
          worker'[u].file # worker'[v].file
    <3>1. \A v \in Workers : Busy(v)' => Busy(v) /\ worker'[v] = worker[v]
      BY <2>5 DEF Busy
    <3> QED
      BY <2>4, <3>1 DEF WorkersInStep
  <2> QED
    BY <2>6, <2>7, <2>8, <2>9 DEF QueuesInOrder, WorkersInStep
<1>4. FirstUntaken' >= FirstUntaken
  <2>1. FirstUntaken' = FirstUntaken /\ FirstUntaken \in Int
    BY <1>1, OrderTypes DEF FirstUntaken, mainVars, scanVars
  <2> QED
    BY <2>1
<1> QED
  BY <1>1, <1>3, <1>4, WorkerOrder

-----------------------------------------------------------------------------
LEMMA OrderInit == Init => OrderInv
<1> SUFFICES ASSUME Init PROVE OrderInv
  OBVIOUS
<1>1. /\ pc = "scan" /\ delivered = <<>> /\ nextFile = 1 /\ tasks = <<>> /\ current = None
      /\ flags = {} /\ ~stop /\ files \in Worlds /\ movedFrom = 0 /\ emptied = {}
      /\ events = [f \in FileIds |-> <<>>] /\ eventsClosed = [f \in FileIds |-> FALSE]
      /\ \A w \in Workers : ~Busy(w)
  BY DEF Init, Busy, Idle
<1>2. Due = 1 /\ \A f : Published(f) = 0
  BY <1>1 DEF Due, Submitted, Published
<1>3. DeliveredBefore(1)
  <2>1. Delivered = {}
    BY <1>1 DEF Delivered
  <2>2. UpTo(1, 0) = {}
    <3> SUFFICES ASSUME NEW r \in UpTo(1, 0) PROVE FALSE
      OBVIOUS
    <3>1. r[1] \in FileIds /\ r[2] \in Nat \ {0} /\ (IF r[1] = 1 THEN r[2] <= 0 ELSE r[1] < 1)
      BY DEF UpTo
    <3> QED
      BY <3>1 DEF FileIds
  <2>3. \A g \in FileIds : ~(g < 1)
    BY DEF FileIds
  <2>4. 0 \in 0..Len(delivered)
    BY <1>1
  <2> QED
    BY <1>2, <2>1, <2>2, <2>3, <2>4 DEF DeliveredBefore, DeliveredUpTo, Possible
<1>4. DeliveredInOrder
  <2>1. Len(delivered) <= ResultLimit
    BY <1>1, InputAssumption
  <2> QED
    BY <1>1, <1>2, <1>3, <2>1 DEF DeliveredInOrder, Publishing
<1>5. QueuesInOrder /\ WorkersInStep
  BY <1>1 DEF QueuesInOrder, WorkersInStep, QueueInOrder
<1>6. FlagsAreTrue
  BY <1>1 DEF FlagsAreTrue, Searching, Publishing
<1> QED
  BY <1>1, <1>4, <1>5, <1>6 DEF OrderInv, Releasing

LEMMA OrderNext == SInv /\ SInv' /\ OrderInv /\ [Next]_vars => OrderInv'
<1> SUFFICES ASSUME SInv, SInv', OrderInv, [Next]_vars PROVE OrderInv'
  OBVIOUS
<1>1. CASE CallingThread
  <2>1. CASE ScanParallel \/ ScanSynchronous \/ ScanEnds
    BY <2>1, ScanOrder
  <2>2. CASE Submit
    BY <2>2, SubmitOrder
  <2>3. CASE SubmitRefused
    BY <2>3, SubmitRefusedOrder
  <2>4. CASE Ahead
    BY <2>4, AheadOrder
  <2>5. CASE Drain
    BY <2>5, DrainOrder
  <2>6. CASE PublishLoop
    BY <2>6, PublishLoopOrder
  <2>7. CASE PopEmpty
    BY <2>7, PopEmptyOrder
  <2>8. CASE PopResult
    BY <2>8, PopResultOrder
  <2>9. CASE PopCompletion
    BY <2>9, PopCompletionOrder
  <2>10. CASE SyncFind
    BY <2>10, SyncFindOrder
  <2>11. CASE SyncPublish
    BY <2>11, SyncPublishOrder
  <2>12. CASE SyncStopped \/ SyncOverLimit \/ SyncEnds
    BY <2>12, EndReadingOrder
  <2>13. CASE SyncThrows
    BY <2>13, SyncThrowsOrder
  <2>14. CASE FlushResult
    BY <2>14, FlushResultOrder
  <2>15. CASE FileDone
    BY <2>15, FileDoneOrder
  <2>16. CASE ShutPool \/ Joined
    BY <2>16, OtherOrder
  <2> QED
    BY <1>1, <2>1, <2>2, <2>3, <2>4, <2>5, <2>6, <2>7, <2>8, <2>9, <2>10, <2>11, <2>12, <2>13,
       <2>14, <2>15, <2>16
    DEF CallingThread
<1>2. ASSUME NEW w \in Workers, WorkerThread(w) PROVE OrderInv'
  BY <1>2, TakeTaskOrder, EmitOrder, WorkerEndsOrder DEF WorkerThread
<1> QED
  BY <1>1, <1>2, OtherOrder DEF Next, Returned

(* A result that the sink takes is the next one of the sequential search,  *)
(* and one that it does not take is turned down there too.                 *)
LEMMA OfferIsSequential ==
  ASSUME SInv, DeliveredInOrder, pc # "returned", NEW f \in FileIds, DeliveredUpTo(f),
         HasMatch(files[f], Published(f)), NEW bytes,
         NEW k, k # "returned", NEW r, r # "returned",
         Offered(<<f, Published(f) + 1>>, bytes, k, r), files' = files
  PROVE  /\ Promise!More /\ Promise!Upcoming = <<f, Published(f) + 1>>
         /\ \/ /\ Promise!HandOver(bytes) /\ pc' = k
               /\ Len(delivered) < ResultLimit
            \/ /\ pc' \in {r, "join"}
               /\ UNCHANGED emptied =>
                    Promise!TurnDown \/ UNCHANGED Promise!seqVars
<1> DEFINE x == <<f, Published(f) + 1>>
<1>1. Promise!More /\ Promise!Upcoming = x
  BY PublishOrder
<1>2. CASE Accept(x, bytes, k)
  <2>1. /\ Len(delivered) < ResultLimit /\ Budgeted(bytes)
        /\ delivered' = Append(delivered, x) /\ resultBytes' = resultBytes + bytes
        /\ pc' = k /\ flags' = flags
    BY <1>2 DEF Accept
  <2>2. Outcome = "running" /\ Outcome' = "running"
    BY <2>1 DEF Outcome
  <2>3. TurnedDown' = TurnedDown
    BY <2>1 DEF TurnedDown
  <2>4. Promise!FitsBudget(resultBytes, bytes)
    BY <2>1 DEF Budgeted, FitsBudget, Promise!FitsBudget
  <2> HIDE DEF x
  <2>5. Promise!HandOver(bytes)
    BY <1>1, <2>1, <2>2, <2>3, <2>4 DEF Promise!HandOver
  <2> QED
    BY <1>1, <2>1, <2>5 DEF x
<1>3. CASE Reject(bytes, r) \/ SinkThrows(bytes)
  <2>1. /\ UNCHANGED <<delivered, resultBytes>> /\ pc' \in {r, "join"}
        /\ flags \subseteq flags'
    BY <1>3 DEF Reject, SinkThrows, outputVars
  <2>2. Outcome = "running" /\ Outcome' = "running"
    BY <2>1 DEF Outcome
  <2>3. TurnedDown \in BOOLEAN /\ TurnedDown' \in BOOLEAN /\ (TurnedDown => TurnedDown')
    BY <2>1 DEF TurnedDown
  <2>4. TurnedDown' = TRUE \/ TurnedDown' = TurnedDown
    BY <2>3
  <2>5. UNCHANGED emptied => Promise!TurnDown \/ UNCHANGED Promise!seqVars
    BY <1>1, <2>1, <2>2, <2>4 DEF Promise!TurnDown, Promise!seqVars
  <2> HIDE DEF x
  <2> QED
    BY <1>1, <2>1, <2>5 DEF x
<1> QED
  BY <1>2, <1>3 DEF Offered

LEMMA PopResultIsSequential ==
  ASSUME SInv, OrderInv, PopResult PROVE Promise!SeqNext \/ UNCHANGED Promise!seqVars
<1> DEFINE event == Head(events[current])
           bytes == MatchBytes(event.file, event.at)
<1>1. /\ pc = "pop" /\ events[current] # <<>> /\ event.at # None
      /\ Offered(<<event.file, event.at>>, bytes, "publish", "join")
      /\ files' = files /\ emptied' = emptied
  BY DEF PopResult, Offered
<1>2. /\ current \in FileIds /\ DeliveredUpTo(current)
      /\ HasMatch(files[current], Published(current))
      /\ event.file = current /\ event.at = Published(current) + 1
  BY <1>1, FrontEvent
<1>3. ~TurnedDown /\ DeliveredInOrder
  BY <1>1 DEF OrderInv, FlagsAreTrue, Searching, TurnedDown
<1>4. /\ Offered(<<current, Published(current) + 1>>, bytes, "publish", "join")
      /\ bytes = Promise!Bytes(<<current, Published(current) + 1>>)
  BY <1>1, <1>2 DEF Promise!Bytes, MatchBytes
<1> HIDE DEF event, bytes
<1>5. /\ Promise!Upcoming = <<current, Published(current) + 1>>
      /\ \/ Promise!HandOver(bytes) \/ Promise!TurnDown \/ UNCHANGED Promise!seqVars
  BY <1>1, <1>2, <1>3, <1>4, OfferIsSequential
<1>6. CASE Promise!HandOver(bytes)
  <2>1. bytes = Promise!Bytes(Promise!Upcoming)
    BY <1>4, <1>5
  <2>2. Promise!HandOver(Promise!Bytes(Promise!Upcoming))
    BY <1>6, <2>1
  <2> QED
    BY <1>1, <1>3, <2>2 DEF Promise!Deliver, Promise!SeqNext
<1> QED
  BY <1>5, <1>6 DEF Promise!SeqNext

LEMMA SyncPublishIsSequential ==
  ASSUME SInv, OrderInv, SyncPublish PROVE Promise!SeqNext \/ UNCHANGED Promise!seqVars
<1> DEFINE bytes == MatchBytes(nextFile, taken + 1)
           r == IF HoldsBack /\ ~InPath(nextFile, taken + 1) THEN "flush" ELSE "join"
<1>1. /\ pc = "sync" /\ taken < at
      /\ Offered(<<nextFile, taken + 1>>, bytes, "sync", r)
      /\ files' = files /\ emptied' = emptied /\ r # "returned"
  BY DEF SyncPublish, Offered
<1>2. /\ nextFile \in FileIds /\ DeliveredUpTo(nextFile) /\ taken = Published(nextFile)
      /\ HasMatch(files[nextFile], taken) /\ flags = {} /\ DeliveredInOrder
  BY <1>1, InSync DEF OrderInv
<1>3. ~TurnedDown
  BY <1>2 DEF TurnedDown
<1>4. /\ Offered(<<nextFile, Published(nextFile) + 1>>, bytes, "sync", r)
      /\ bytes = Promise!Bytes(<<nextFile, Published(nextFile) + 1>>)
  BY <1>1, <1>2 DEF Promise!Bytes, MatchBytes
<1> HIDE DEF bytes, r
<1>5. /\ Promise!Upcoming = <<nextFile, Published(nextFile) + 1>>
      /\ \/ Promise!HandOver(bytes) \/ Promise!TurnDown \/ UNCHANGED Promise!seqVars
  BY <1>1, <1>2, <1>4, OfferIsSequential
<1>6. CASE Promise!HandOver(bytes)
  <2>1. bytes = Promise!Bytes(Promise!Upcoming)
    BY <1>4, <1>5
  <2>2. Promise!HandOver(Promise!Bytes(Promise!Upcoming))
    BY <1>6, <2>1
  <2> QED
    BY <1>1, <1>3, <2>2 DEF Promise!Deliver, Promise!SeqNext
<1> QED
  BY <1>5, <1>6 DEF Promise!SeqNext

(* What a file held back follows a result that was turned down only behind *)
(* that result, emptied.                                                   *)
LEMMA FlushResultIsSequential ==
  ASSUME SInv, OrderInv, FlushResult PROVE Promise!SeqNext \/ UNCHANGED Promise!seqVars
<1> DEFINE again == movedFrom = taken + 1
           bytes == IF again THEN EmptiedBytes ELSE MatchBytes(nextFile, taken + 1)
           x     == <<nextFile, Published(nextFile) + 1>>
<1>1. /\ pc = "flush" /\ taken < at
      /\ Offered(<<nextFile, taken + 1>>, bytes, "flush", "join")
      /\ files' = files
  BY DEF FlushResult, Offered
<1>2. /\ pc' = "flush" => emptied' = IF again THEN emptied \cup {<<nextFile, taken + 1>>}
                                     ELSE emptied
      /\ pc' # "flush" => emptied' = emptied
  <2>1. CASE /\ Accept(<<nextFile, taken + 1>>, bytes, "flush")
             /\ taken' = taken + 1
             /\ emptied' = IF again THEN emptied \cup {<<nextFile, taken + 1>>} ELSE emptied
    BY <2>1 DEF Accept
  <2>2. CASE Reject(bytes, "join") /\ UNCHANGED <<taken, emptied>>
    BY <2>2 DEF Reject
  <2>3. CASE SinkThrows(bytes) /\ UNCHANGED <<taken, emptied>>
    BY <2>3 DEF SinkThrows
  <2> QED
    BY <2>1, <2>2, <2>3 DEF FlushResult
<1>3. /\ nextFile \in FileIds /\ DeliveredUpTo(nextFile) /\ taken = Published(nextFile)
      /\ HasMatch(files[nextFile], taken) /\ taken \in Nat /\ DeliveredInOrder
  BY <1>1, InSync DEF OrderInv
<1>4. /\ movedFrom # 0 => HoldsBack /\ (TurnedDown \/ Len(delivered) >= ResultLimit)
      /\ TurnedDown => again \/ emptied # {}
      /\ emptied # {} => movedFrom <= taken /\ \A r \in emptied : r[1] = nextFile
      /\ again => movedFrom # 0
      /\ movedFrom \in Nat /\ Len(delivered) \in Nat /\ ResultLimit \in Nat
  BY <1>1, <1>3, OrderTypes, InputAssumption DEF OrderInv, Releasing, SInv, TypeOK
<1>5. /\ Offered(x, bytes, "flush", "join")
      /\ ~again => bytes = Promise!Bytes(x)
  BY <1>1, <1>3 DEF Promise!Bytes, MatchBytes
<1>6. /\ Promise!Upcoming = x
      /\ \/ Promise!HandOver(bytes) /\ pc' = "flush" /\ Len(delivered) < ResultLimit
         \/ /\ pc' = "join"
            /\ UNCHANGED emptied => Promise!TurnDown \/ UNCHANGED Promise!seqVars
  <2> HIDE DEF bytes
  <2> QED
    BY <1>1, <1>3, <1>5, OfferIsSequential
<1>7. ASSUME Promise!HandOver(bytes), pc' = "flush", Len(delivered) < ResultLimit
      PROVE  Promise!SeqNext
  <2>1. CASE again
    <3>1. HoldsBack /\ TurnedDown
      BY <1>4, <1>7, <2>1
    <3>2. emptied = {}
      BY <1>3, <1>4, <2>1
    <3>3. emptied' = {Promise!Upcoming}
      BY <1>2, <1>3, <1>6, <1>7, <2>1, <3>2
    <3>4. Promise!HandOver(EmptiedBytes)
      BY <1>7, <2>1
    <3> QED
      BY <3>1, <3>2, <3>3, <3>4 DEF Promise!DeliverEmptied, Promise!SeqNext
  <2>2. CASE ~again
    <3>1. bytes = Promise!Bytes(Promise!Upcoming)
      BY <1>5, <1>6, <2>2
    <3>2. Promise!HandOver(Promise!Bytes(Promise!Upcoming))
      BY <1>7, <3>1
    <3>3. emptied' = emptied
      BY <1>2, <1>7, <2>2
    <3>4. TurnedDown => \E r \in emptied : r[1] = Promise!Upcoming[1]
      BY <1>4, <1>6, <2>2
    <3> QED
      BY <3>2, <3>3, <3>4 DEF Promise!Deliver, Promise!SeqNext
  <2> QED
    BY <2>1, <2>2
<1> HIDE DEF bytes, again, x
<1> QED
  BY <1>2, <1>6, <1>7 DEF Promise!SeqNext

(* The search returns, and what it says is true. *)
LEMMA JoinedEnds == ASSUME SInv, OrderInv, Joined PROVE Promise!End
<1>1. /\ pc = "join" /\ pc' = "returned" /\ UNCHANGED <<files, delivered, resultBytes, emptied>>
      /\ flags' = flags /\ cancelled' = cancelled
  BY DEF Joined, outputVars
<1>2. Outcome = "running" /\ TurnedDown' = TurnedDown
  BY <1>1 DEF Outcome, TurnedDown
<1>3. FlagsAreTrue /\ ~Searching /\ pc # "flush"
  BY <1>1 DEF OrderInv, Searching
<1>4. flags \subseteq Flags
  BY DEF SInv, TypeOK
<1>5. \/ Outcome' = "failed" /\ "failed" \in flags
      \/ Outcome' = "stopped"
      \/ Outcome' = "memory" /\ "memoryLimitReached" \in flags /\ "refused" \notin flags
      \/ Outcome' = "limit" /\ "limitReached" \in flags /\ ~TurnedDown
      \/ Outcome' = "halted" /\ "halted" \in flags
      \/ Outcome' = "complete" /\ flags = {} /\ ~cancelled
  <2>1. \/ flags = {} \/ "failed" \in flags \/ "limitReached" \in flags
        \/ "memoryLimitReached" \in flags \/ "halted" \in flags
        \/ flags \cap {"refused", "sinkThrew"} # {}
    BY <1>4 DEF Flags
  <2> QED
    BY <1>1, <2>1 DEF Outcome, TurnedDown
<1>6. CASE Outcome' = "failed" /\ "failed" \in flags
  <2>1. Grounds("failed") /\ ~TurnedDown
    BY <1>3, <1>6 DEF FlagsAreTrue, TurnedDown
  <2>2. Promise!MayEnd("failed")
    BY <2>1, GroundsAre DEF Promise!MayEnd
  <2> QED
    BY <1>1, <1>2, <1>6, <2>2 DEF Promise!End
<1>7. CASE Outcome' = "stopped"
  <2>1. Promise!MayEnd("stopped")
    BY DEF Promise!MayEnd
  <2> QED
    BY <1>1, <1>2, <1>7, <2>1 DEF Promise!End
<1>8. CASE Outcome' = "memory" /\ "memoryLimitReached" \in flags /\ "refused" \notin flags
  <2>1. Grounds("memory") \/ emptied # {}
    BY <1>3, <1>8 DEF FlagsAreTrue
  <2>2. Promise!MayEnd("memory")
    BY <2>1, GroundsAre DEF Promise!MayEnd
  <2> QED
    BY <1>1, <1>2, <1>8, <2>2 DEF Promise!End
<1>9. CASE Outcome' = "limit" /\ "limitReached" \in flags /\ ~TurnedDown
  <2>1. Grounds("limit")
    BY <1>3, <1>9 DEF FlagsAreTrue
  <2>2. Promise!MayEnd("limit")
    BY <2>1, GroundsAre DEF Promise!MayEnd
  <2> QED
    BY <1>1, <1>2, <1>9, <2>2 DEF Promise!End
<1>10. CASE Outcome' = "halted" /\ "halted" \in flags
  <2>1. Grounds("halted") /\ ~TurnedDown
    BY <1>3, <1>10 DEF FlagsAreTrue, TurnedDown
  <2>2. Promise!MayEnd("halted")
    BY <2>1, GroundsAre DEF Promise!MayEnd
  <2> QED
    BY <1>1, <1>2, <1>10, <2>2 DEF Promise!End
<1>11. CASE Outcome' = "complete" /\ flags = {} /\ ~cancelled
  <2>1. Grounds("complete") /\ ~TurnedDown
    BY <1>3, <1>11 DEF FlagsAreTrue, TurnedDown
  <2>2. Promise!MayEnd("complete")
    BY <2>1, GroundsAre DEF Promise!MayEnd, Promise!FileIds, FileIds
  <2> QED
    BY <1>1, <1>2, <1>11, <2>2 DEF Promise!End
<1> QED
  BY <1>5, <1>6, <1>7, <1>8, <1>9, <1>10, <1>11

LEMMA StepIsSequential ==
  SInv /\ OrderInv /\ [Next]_vars => [Promise!SeqNext]_(Promise!seqVars)
<1> SUFFICES ASSUME SInv, OrderInv, [Next]_vars
             PROVE  Promise!SeqNext \/ UNCHANGED Promise!seqVars
  BY DEF Promise!seqVars
<1>1. ASSUME UNCHANGED <<files, delivered, resultBytes, emptied>>, pc # "returned",
             pc' # "returned",
             flags' = flags \/ \E more \in SUBSET {"failed", "halted", "limitReached"} :
                                 flags' = flags \cup more
      PROVE  UNCHANGED Promise!seqVars
  <2>1. TurnedDown' = TurnedDown
    BY <1>1 DEF TurnedDown
  <2>2. Outcome' = Outcome
    BY <1>1 DEF Outcome
  <2> QED
    BY <1>1, <2>1, <2>2 DEF Promise!seqVars
<1>2. CASE PopResult
  BY <1>2, PopResultIsSequential
<1>3. CASE SyncPublish
  BY <1>3, SyncPublishIsSequential
<1>4. CASE FlushResult
  BY <1>4, FlushResultIsSequential
<1>5. CASE Joined
  BY <1>5, JoinedEnds DEF Promise!SeqNext
<1>6. CASE \/ ScanParallel \/ ScanSynchronous \/ ScanEnds \/ Submit \/ SubmitRefused \/ Ahead
           \/ Drain \/ PublishLoop \/ PopEmpty \/ SyncFind \/ ShutPool \/ Cancel
  <2>1. /\ UNCHANGED <<files, delivered, resultBytes, emptied>> /\ pc # "returned"
        /\ pc' # "returned" /\ flags' = flags
    <3>1. resume # "returned"
      BY DEF SInv, TypeOK
    <3> QED
      BY <1>6, <3>1
      DEF ScanParallel, ScanSynchronous, ScanEnds, Submit, SubmitRefused, Ahead, Drain,
          PublishFront, PublishLoop, PopEmpty, SyncFind, ShutPool, Cancel, outputVars
  <2> QED
    BY <1>1, <2>1
<1>7. CASE SyncStopped \/ SyncOverLimit \/ SyncEnds \/ SyncThrows \/ FileDone
  <2>1. /\ UNCHANGED <<files, delivered, resultBytes, emptied>> /\ pc # "returned"
        /\ pc' # "returned"
        /\ \/ flags' = flags \/ flags' = flags \cup {"limitReached"}
           \/ flags' = flags \cup {"failed"} \/ flags' = flags \cup {"halted"}
    BY <1>7
    DEF SyncStopped, SyncOverLimit, SyncEnds, SyncThrows, FileDone, EndReading,
        SayLimitReached, outputVars
  <2>2. /\ {"limitReached"} \in SUBSET {"failed", "halted", "limitReached"}
        /\ {"failed"} \in SUBSET {"failed", "halted", "limitReached"}
        /\ {"halted"} \in SUBSET {"failed", "halted", "limitReached"}
    OBVIOUS
  <2> QED
    BY <1>1, <2>1, <2>2
<1>8. CASE PopCompletion
  <2> DEFINE event == Head(events[current])
             more == (IF event.failure THEN {"failed"} ELSE {})
                       \cup (IF event.limitReached THEN {"limitReached"} ELSE {})
                       \cup (IF ~event.continueSearch /\ ~event.limitReached
                             THEN {"halted"} ELSE {})
  <2>1. /\ UNCHANGED <<files, delivered, resultBytes, emptied>> /\ pc = "pop"
        /\ pc' \in {"join", resume} /\ flags' = flags \cup more
    BY <1>8 DEF PopCompletion, outputVars
  <2>2. more \in SUBSET {"failed", "halted", "limitReached"}
    OBVIOUS
  <2>3. resume # "returned"
    BY DEF SInv, TypeOK
  <2> HIDE DEF more
  <2> QED
    BY <1>1, <2>1, <2>2, <2>3
<1>9. ASSUME NEW w \in Workers, WorkerThread(w) PROVE UNCHANGED Promise!seqVars
  <2>1. UNCHANGED mainVars
    BY <1>9 DEF WorkerThread, TakeTask, Exit, EmitResult, EmitCompletion, Abandon, CloseEvents
  <2> QED
    BY <2>1 DEF mainVars, outputVars, Outcome, TurnedDown, Promise!seqVars
<1>10. CASE UNCHANGED vars
  BY <1>10 DEF vars, outputVars, Outcome, TurnedDown, Promise!seqVars
<1> QED
  BY <1>2, <1>3, <1>4, <1>5, <1>6, <1>7, <1>8, <1>9, <1>10 DEF Next, CallingThread, Returned

(* Whatever the number of workers, the sink receives the results that a    *)
(* single thread would find, in the order of the scanner, and the search   *)
(* ends with an outcome that is true of what was delivered: a limit stands *)
(* in front of a result that exceeds it, an error or an early end behind   *)
(* everything that precedes it, and a search that says none of these and   *)
(* was not cancelled has delivered everything (publishFileTask,            *)
(* searchFileSynchronously, publishResult, publishMatches, flushPending).  *)
(* With and without context lines; the exceptions are in SequentialSearch, *)
(* by name: with them a refused result may be delivered a second time,     *)
(* emptied, before the held-back results of its file (DeliverEmptied,      *)
(* Deliver), a file that throws loses what it held back (LostInThrow), and *)
(* with or without them exactly resultLimit matches are "complete".        *)
THEOREM SearchImplementsSequentialSearch == Spec => ImplementsSequentialSearch
<1>1. Init => Promise!SeqInit
  BY DEF Init, Promise!SeqInit, Outcome, TurnedDown, Worlds, FileIds, Promise!Worlds,
         Promise!FileIds
<1>2. SInv /\ [Next]_vars => SInv'
  BY SearchNext
<1> QED
  BY <1>1, <1>2, SearchInit, OrderInit, OrderNext, StepIsSequential, PTL
  DEF Spec, ImplementsSequentialSearch, Promise!SeqSpec
=============================================================================
