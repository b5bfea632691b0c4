---------------------------- MODULE FileWatchers ----------------------------
(***************************************************************************)
(* The file watchers (src/core/filesystem/*-file-watcher.cpp) and the      *)
(* indexing service that reconciles the index with their batches           *)
(* (src/app/services/indexing-service.cpp).                                *)
(*                                                                         *)
(* A path has a version, 0 while it does not exist, and a stamp: what      *)
(* stat() tells of it, which a change may leave as it was.  What a batch   *)
(* carries matters only in that it is empty or not: reconcile() then runs  *)
(* a full update, which here sees the whole tree at one moment.            *)
(*                                                                         *)
(* The caller polls, reconciles and keeps in mind, as the summary tells    *)
(* it, that a batch was not reconciled ("owed").                           *)
(***************************************************************************)
EXTENDS Naturals, FiniteSets, SequencesExt

CONSTANTS
  WatchedPaths,      \* in the order of a directory walk, parents first
  ParentOf,          \* the directory of each, or Top
  WatchedDirectories,\* which of them are directories
  Backends,          \* subset of {"polling", "linux", "windows", "macos"}
  EventQueueSize,    \* of the kernel
  MaxDiskChanges     \* bound

TopDirectory == "root"
Everything == ToSet(WatchedPaths)

ASSUME WatcherAssumption ==
  /\ WatchedPaths \in Seq(STRING) /\ TopDirectory \notin Everything
  /\ ParentOf \in [Everything -> Everything \cup {TopDirectory}]
  /\ WatchedDirectories \subseteq Everything
  /\ Backends \subseteq {"polling", "linux", "windows", "macos"}
  /\ EventQueueSize \in Nat \ {0} /\ MaxDiskChanges \in Nat

VARIABLES
  backend, disk, stamps, diskChanges,
  watches,       \* linux: the directories with a watch, as the kernel has them
  kernelQueue,   \* events the watcher has not read, "overflow" among them
  inFlight,      \* macos: there are events on their way to the callback
  reading,       \* windows: ReadDirectoryChangesW was called once
  entries,       \* polling: the stamps of the last snapshot
  poll,          \* phase of the call, with what it has gathered
  quiet,         \* the last poll found nothing, and nothing changed since
  paused, owed,
  indexedDisk,   \* what the last complete update saw
  missed         \* history: paths whose change the backend could not see

watcherVars == <<backend, disk, stamps, diskChanges, watches, kernelQueue, inFlight,
                 reading, entries, poll, quiet, paused, owed, indexedDisk, missed>>

worldVars   == <<disk, stamps, diskChanges>>
kernelVars  == <<watches, kernelQueue, inFlight, reading>>
serviceState == <<paused, owed, indexedDisk>>

NotPolling == [phase |-> "no", events |-> 0, rescan |-> FALSE, todo |-> <<>>,
               seen |-> {}, touched |-> FALSE]
Nothing == [p \in Everything |-> 0]

WatcherInitOf(aBackend) ==
  /\ backend = aBackend
  /\ disk = Nothing /\ stamps = Nothing /\ diskChanges = 0
  /\ watches = {TopDirectory} /\ kernelQueue = <<>> /\ inFlight = FALSE
  /\ reading = FALSE /\ entries = {}
  /\ poll = NotPolling /\ quiet = FALSE
  /\ paused = FALSE /\ owed = FALSE /\ indexedDisk = Nothing /\ missed = {}

WatcherInit == \E aBackend \in Backends : WatcherInitOf(aBackend)

-----------------------------------------------------------------------------
(* The disk changes, and the kernel tells the watcher. *)
There(p) == IF p = TopDirectory THEN TRUE ELSE disk[p] # 0

Post(event) ==
  kernelQueue' =
    IF Len(kernelQueue) < EventQueueSize THEN Append(kernelQueue, event)
    ELSE IF Last(kernelQueue) = "overflow" THEN kernelQueue
    ELSE Append(kernelQueue, "overflow")

(* p is what has changed in its directory; below are the paths that have   *)
(* changed with it.                                                        *)
Told(p, below) ==
  /\ CASE backend = "linux" ->
            /\ IF ParentOf[p] \in watches THEN Post(p) ELSE UNCHANGED kernelQueue
            /\ missed' = IF ParentOf[p] \in watches THEN missed \ below
                         ELSE missed \cup below
            /\ UNCHANGED inFlight
       [] backend = "windows" ->
            /\ IF reading THEN Post(p) ELSE UNCHANGED kernelQueue
            /\ missed' = IF reading THEN missed \ below ELSE missed \cup below
            /\ UNCHANGED inFlight
       [] backend = "macos" ->
            /\ inFlight' = TRUE /\ UNCHANGED <<kernelQueue, missed>>
       [] backend = "polling" ->
            /\ missed' = missed \cup {q \in below : stamps'[q] = stamps[q]}
            /\ UNCHANGED <<kernelQueue, inFlight>>
  /\ diskChanges < MaxDiskChanges /\ diskChanges' = diskChanges + 1
  /\ quiet' = FALSE /\ poll' = [poll EXCEPT !.touched = TRUE]
  /\ UNCHANGED <<backend, reading, entries, serviceState>>

Subtree(p) ==   \* of a tree three levels deep
  LET Below(S) == {q \in Everything : ParentOf[q] \in S}
  IN  {p} \cup Below({p}) \cup Below(Below({p}))

(* A coarse clock and an equal size leave the stamp of a file as it was.   *)
WriteFile(p) ==
  /\ p \notin WatchedDirectories /\ There(p)
  /\ disk' = [disk EXCEPT ![p] = diskChanges + 1]
  /\ stamps' \in {[stamps EXCEPT ![p] = diskChanges + 1]}
                 \cup IF backend = "polling" THEN {stamps} ELSE {}
  /\ UNCHANGED watches
  /\ Told(p, {p})

Appear(p, paths) ==
  /\ There(ParentOf[p]) /\ ~There(p)
  /\ disk'   = [q \in Everything |-> IF q \in paths THEN diskChanges + 1 ELSE disk[q]]
  /\ stamps' = [q \in Everything |-> IF q \in paths THEN diskChanges + 1 ELSE stamps[q]]
  /\ UNCHANGED watches
  /\ Told(p, paths)

Create(p) == Appear(p, {p})
MoveIn(p) == p \in WatchedDirectories /\ Appear(p, Subtree(p))   \* with content

(* The kernel drops the watch of a directory that is removed. *)
Vanish(p) ==
  /\ There(p)
  /\ disk'   = [q \in Everything |-> IF q \in Subtree(p) THEN 0 ELSE disk[q]]
  /\ stamps' = [q \in Everything |-> IF q \in Subtree(p) THEN 0 ELSE stamps[q]]
  /\ watches' = watches \ Subtree(p)
  /\ Told(p, Subtree(p))

-----------------------------------------------------------------------------
(* poll(). *)
BeginPoll ==
  /\ poll.phase = "no" /\ ~owed
  /\ poll' = [NotPolling EXCEPT !.phase = "reading",
                !.todo = IF backend = "polling" THEN WatchedPaths ELSE <<>>]
  /\ reading' = TRUE
  /\ UNCHANGED <<backend, worldVars, watches, kernelQueue, inFlight, entries, quiet,
                 serviceState, missed>>

ReturnEvents(events, rescan) ==
  /\ poll' = [NotPolling EXCEPT !.phase = "returned", !.events = events]
  /\ quiet' = (events = 0 /\ ~poll.touched /\ ~inFlight)

Return(events, rescan) ==
  /\ poll' = [NotPolling EXCEPT !.phase = "returned", !.events = events,
                                !.rescan = rescan]
  /\ quiet' = (events = 0 /\ ~rescan /\ ~poll.touched /\ ~inFlight)

PollUnchanged == UNCHANGED <<backend, worldVars, reading, serviceState>>

(* A stop, or a watcher whose native handle is not available. *)
PollStopped ==
  /\ poll.phase = "reading"
  /\ Return(0, TRUE)
  /\ kernelQueue' \in {kernelQueue} \cup IF backend = "windows" THEN {<<>>} ELSE {}
  /\ UNCHANGED <<watches, inFlight, entries, missed>> /\ PollUnchanged

(* Linux: events are read until there are none.  Only the creation of a    *)
(* directory adds a watch, to that directory alone, if it is still there.  *)
LinuxEvent ==
  /\ backend = "linux" /\ poll.phase = "reading" /\ kernelQueue # <<>>
  /\ LET event == Head(kernelQueue) IN
       IF event = "overflow"
       THEN /\ kernelQueue' \in {Tail(kernelQueue), <<>>}   \* the rest of the buffer
            /\ Return(poll.events, TRUE) /\ UNCHANGED watches
       ELSE /\ kernelQueue' = Tail(kernelQueue)
            /\ poll' = [poll EXCEPT !.events = 1]
            /\ watches' = IF event \in WatchedDirectories /\ There(event)
                          THEN watches \cup {event} ELSE watches
            /\ UNCHANGED quiet
  /\ UNCHANGED <<inFlight, entries, missed>> /\ PollUnchanged

LinuxEnd ==
  /\ backend = "linux" /\ poll.phase = "reading" /\ kernelQueue = <<>>
  /\ Return(poll.events, FALSE)
  /\ UNCHANGED <<watches, kernelQueue, inFlight, entries, missed>> /\ PollUnchanged

(* Windows: one buffer of events, or zero bytes when it has overflowed.    *)
WindowsEvents ==
  /\ backend = "windows" /\ poll.phase = "reading" /\ kernelQueue # <<>>
  /\ kernelQueue' = <<>>
  /\ IF Last(kernelQueue) = "overflow" THEN Return(0, TRUE) ELSE Return(1, FALSE)
  /\ UNCHANGED <<watches, inFlight, entries, missed>> /\ PollUnchanged

WindowsTimeout ==
  /\ backend = "windows" /\ poll.phase = "reading" /\ kernelQueue = <<>>
  /\ poll' = [poll EXCEPT !.phase = "cancelling"]
  /\ UNCHANGED <<watches, kernelQueue, inFlight, entries, quiet, missed>>
  /\ PollUnchanged

(* What completed the read before CancelIoEx is not looked at. *)
WindowsCancel ==
  /\ backend = "windows" /\ poll.phase = "cancelling"
  /\ kernelQueue' = <<>>
  /\ Return(0, FALSE)
  /\ missed' = IF kernelQueue = <<>> THEN missed ELSE Everything
  /\ UNCHANGED <<watches, inFlight, entries>> /\ PollUnchanged

(* macOS: the callback appends to the pending batch (kernelQueue) under    *)
(* the lock that poll() takes; dropped events come as one that asks for a  *)
(* rescan.                                                                 *)
MacosCallback ==
  /\ backend = "macos" /\ inFlight
  /\ inFlight' = FALSE
  /\ kernelQueue' \in {<<"event">>, <<"overflow">>}
       \cup IF kernelQueue = <<>> THEN {} ELSE {kernelQueue}
  /\ kernelQueue = <<"overflow">> => kernelQueue' = kernelQueue
  /\ UNCHANGED <<backend, worldVars, watches, reading, entries, poll, quiet,
                 serviceState, missed>>

MacosTake ==
  /\ backend = "macos" /\ poll.phase = "reading"
  /\ kernelQueue' = <<>>
  /\ Return(Len(kernelQueue), kernelQueue = <<"overflow">>)
  /\ UNCHANGED <<watches, inFlight, entries, missed>> /\ PollUnchanged

(* Polling: the walk meets the paths one by one; a directory that vanishes *)
(* just before it is opened ends it.                                       *)
PollingVisit ==
  /\ backend = "polling" /\ poll.phase = "reading" /\ poll.todo # <<>>
  /\ LET p == Head(poll.todo) IN
       poll' = [poll EXCEPT !.todo = Tail(@),
                  !.seen = IF There(p) THEN @ \cup {<<p, stamps[p]>>} ELSE @]
  /\ UNCHANGED <<watches, kernelQueue, inFlight, entries, quiet, missed>>
  /\ PollUnchanged

PollingWalkFails ==
  /\ backend = "polling" /\ poll.phase = "reading" /\ poll.todo # <<>>
  /\ \E entry \in poll.seen : entry[1] \in WatchedDirectories /\ ~There(entry[1])
  /\ poll' = [poll EXCEPT !.todo = <<>>]
  /\ UNCHANGED <<watches, kernelQueue, inFlight, entries, quiet, missed>>
  /\ PollUnchanged

PollingEnd ==
  /\ backend = "polling" /\ poll.phase = "reading" /\ poll.todo = <<>>
  /\ entries' = poll.seen
  /\ Return(IF poll.seen = entries THEN 0 ELSE 1, FALSE)
  /\ UNCHANGED <<watches, kernelQueue, inFlight, missed>> /\ PollUnchanged

-----------------------------------------------------------------------------
(* DefaultIndexingService. *)
Updated ==
  /\ indexedDisk' = disk
  /\ missed' = IF backend # "polling" THEN {}
               ELSE {p \in Everything : <<p, stamps[p]>> \notin entries /\ There(p)}
  /\ owed' = FALSE

Reconciled == UNCHANGED <<backend, worldVars, kernelVars, entries, paused>>

reconcile ==
  /\ poll.phase = "returned" /\ poll' = NotPolling
  /\ \/ ~paused /\ poll.events = 0 /\ ~poll.rescan /\ UNCHANGED <<indexedDisk, missed, owed>>
     \/ ~paused /\ (poll.events > 0 \/ poll.rescan) /\ Updated
     \/ (* paused, cancelled, out of memory, or no Git overlay *)
        /\ (paused \/ poll.events > 0 \/ poll.rescan)
        /\ owed' = TRUE /\ UNCHANGED <<indexedDisk, missed>>
  /\ UNCHANGED quiet /\ Reconciled

requestManualReindex ==
  /\ poll.phase = "no" /\ owed /\ ~paused
  /\ Updated
  /\ UNCHANGED <<poll, quiet>> /\ Reconciled

pauseOrResume ==
  /\ paused' = ~paused
  /\ UNCHANGED <<backend, worldVars, kernelVars, entries, poll, quiet, owed,
                 indexedDisk, missed>>

WatcherNext ==
  \/ \E p \in Everything : WriteFile(p) \/ Create(p) \/ MoveIn(p) \/ Vanish(p)
  \/ BeginPoll \/ PollStopped
  \/ LinuxEvent \/ LinuxEnd
  \/ WindowsEvents \/ WindowsTimeout \/ WindowsCancel
  \/ MacosCallback \/ MacosTake
  \/ PollingVisit \/ PollingWalkFails \/ PollingEnd
  \/ reconcile \/ requestManualReindex \/ pauseOrResume

WatcherSpec == WatcherInit /\ [][WatcherNext]_watcherVars

-----------------------------------------------------------------------------
(* After a poll that reports nothing the index is up to date: every change *)
(* of a path was reported by an earlier batch that is reconciled, also     *)
(* when the queue overflowed, the walk failed or a poll was stopped.       *)
(* Except for what the backend cannot see (missed): with polling, a change *)
(* that leaves the stamp, and the removal of what the index saw but the    *)
(* last walk did not (it appeared meanwhile, or the walk was stopped); on  *)
(* Linux, what happens in a directory that has no watch yet; on Windows,   *)
(* what happens before the first poll or between a timeout and its         *)
(* cancellation.  On macOS events may still be under way, and the poll is  *)
(* then not a quiet one.                                                   *)
QuietPollMeansUpToDate ==
  quiet /\ ~owed =>
    \A p \in Everything \ missed : indexedDisk[p] = disk[p]
=============================================================================
