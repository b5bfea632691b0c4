------------------------- MODULE FileWatchersProofs -------------------------
(***************************************************************************)
(* A poll that reports nothing means that the index is up to date, for any *)
(* tree and any number of changes, on every platform and in every          *)
(* interleaving of the changes with the poll and the reconciliation.       *)
(*                                                                         *)
(* The argument: a path that the backend could see change, and whose       *)
(* change the index has not seen, is signalled somewhere: in the kernel's  *)
(* queue, in an event on its way, in the batch of this poll, in what the   *)
(* caller owes, or - the polling watcher has no queue - by the difference  *)
(* between the path and the entries of the last walk.  That difference can *)
(* be lost only if the entries know less of the path than the index does,  *)
(* which is why they may not.                                              *)
(***************************************************************************)
EXTENDS FileWatchers, TLAPS, SequenceTheorems

PollRecord ==
  [phase : {"no", "reading", "cancelling", "returned"}, events : Nat, rescan : BOOLEAN,
   todo : Seq(Everything), seen : SUBSET (Everything \X Nat), touched : BOOLEAN]

(* What a queue of the kernel, or the pending batch, may hold. *)
Events == Everything \cup {"overflow", "event"}

WatcherTypeOK ==
  /\ backend \in {"polling", "linux", "windows", "macos"}
  /\ disk \in [Everything -> Nat] /\ stamps \in [Everything -> Nat] /\ diskChanges \in Nat
  /\ kernelQueue \in Seq(Events) /\ inFlight \in BOOLEAN
  /\ entries \subseteq Everything \X Nat
  /\ poll \in PollRecord
  /\ owed \in BOOLEAN /\ quiet \in BOOLEAN
  /\ indexedDisk \in [Everything -> Nat]

(* Only the Linux watcher gathers events before it returns. *)
PollInv ==
  /\ poll.phase = "no" => poll.events = 0 /\ ~poll.rescan
  /\ poll.phase \in {"reading", "cancelling"} =>
       ~poll.rescan /\ (backend # "linux" => poll.events = 0)

(* No stamp is newer than the last change. *)
StampsInv ==
  /\ \A p \in Everything :
       (disk[p] = 0 <=> stamps[p] = 0) /\ stamps[p] <= diskChanges
  /\ \A entry \in entries \cup poll.seen : entry[2] <= diskChanges

(* A set of entries that says of a path what is true of it. *)
Matches(found, p) ==
  IF There(p) THEN <<p, stamps[p]>> \in found ELSE \A s \in Nat : <<p, s>> \notin found

(* What a walk that nothing has disturbed has seen is still so. *)
WalkInv ==
  backend = "polling" /\ poll.phase = "reading" /\ ~poll.touched =>
    /\ \A entry \in poll.seen : There(entry[1]) /\ entry[2] = stamps[entry[1]]
    /\ \A p \in Everything :
         p \in ToSet(poll.todo) \/ ~There(p) \/ <<p, stamps[p]>> \in poll.seen

(* The batch of this poll, the caller or the kernel asks for an update. *)
Signalled ==
  \/ owed \/ poll.events > 0 \/ poll.rescan
  \/ backend # "polling" /\ (kernelQueue # <<>> \/ inFlight)

Known(p) ==
  indexedDisk[p] = disk[p] \/ Signalled \/ (backend = "polling" /\ ~Matches(entries, p))

KnownInv == \A p \in Everything : p \notin missed => Known(p)

(* The entries know of every path that the index has. *)
EntriesInv ==
  backend = "polling" =>
    \A p \in Everything :
      p \notin missed /\ indexedDisk[p] # 0 =>
        Signalled \/ \E s \in Nat : <<p, s>> \in entries

QuietInv ==
  quiet =>
    /\ poll.events = 0 /\ ~poll.rescan
    /\ backend # "polling" => kernelQueue = <<>> /\ ~inFlight
    /\ backend = "polling" => \A p \in Everything : Matches(entries, p)

WatcherInvariant ==
  WatcherTypeOK /\ PollInv /\ StampsInv /\ WalkInv /\ KnownInv /\ EntriesInv /\ QuietInv

-----------------------------------------------------------------------------
(* Sequences. *)
LEMMA HeadAndTail ==
  ASSUME NEW S, NEW s \in Seq(S), s # <<>>
  PROVE  /\ Head(s) \in S /\ Tail(s) \in Seq(S)
         /\ ToSet(s) = {Head(s)} \cup ToSet(Tail(s))
<1>1. /\ Len(s) \in Nat /\ Len(s) > 0 /\ 1 \in 1..Len(s) /\ DOMAIN s = 1..Len(s)
      /\ \A i \in 1..Len(s) : s[i] \in S
  OBVIOUS
<1>2. /\ Head(s) = s[1] /\ Tail(s) \in Seq(S) /\ Len(Tail(s)) = Len(s) - 1
      /\ DOMAIN Tail(s) = 1..(Len(s) - 1)
      /\ \A i \in 1..(Len(s) - 1) : Tail(s)[i] = s[i + 1]
  OBVIOUS
<1>3. \A i \in 1..Len(s) : i = 1 \/ (i - 1 \in 1..(Len(s) - 1) /\ (i - 1) + 1 = i)
  BY <1>1
<1>4. \A i \in 1..(Len(s) - 1) : i + 1 \in 1..Len(s)
  BY <1>1
<1> HIDE DEF ToSet
<1>5. ASSUME NEW x \in ToSet(s) PROVE x \in {Head(s)} \cup ToSet(Tail(s))
  <2>1. PICK i \in 1..Len(s) : s[i] = x
    BY <1>1, <1>5 DEF ToSet
  <2>2. i = 1 \/ (i - 1 \in 1..(Len(s) - 1) /\ Tail(s)[i - 1] = x)
    BY <1>2, <1>3, <2>1
  <2> QED
    BY <1>2, <2>1, <2>2 DEF ToSet
<1>6. ASSUME NEW x \in {Head(s)} \cup ToSet(Tail(s)) PROVE x \in ToSet(s)
  BY <1>1, <1>2, <1>4, <1>6 DEF ToSet
<1> QED
  BY <1>1, <1>2, <1>5, <1>6

LEMMA AppendedNotEmpty ==
  ASSUME NEW S, NEW s \in Seq(S), NEW e \in S
  PROVE  Append(s, e) \in Seq(S) /\ Append(s, e) # <<>>
<1>1. /\ Append(s, e) \in Seq(S) /\ Len(s) \in Nat /\ Len(Append(s, e)) = Len(s) + 1
  OBVIOUS
<1>2. Len(s) + 1 # 0 /\ Len(<<>>) = 0
  BY <1>1
<1> QED
  BY <1>1, <1>2

LEMMA Posted ==
  ASSUME NEW event \in Events, kernelQueue \in Seq(Events), Post(event)
  PROVE  kernelQueue' \in Seq(Events) /\ kernelQueue' # <<>>
<1>1. /\ Append(kernelQueue, event) \in Seq(Events) /\ Append(kernelQueue, event) # <<>>
      /\ Append(kernelQueue, "overflow") \in Seq(Events)
      /\ Append(kernelQueue, "overflow") # <<>>
  <2>1. "overflow" \in Events
    BY DEF Events
  <2> QED
    BY <2>1, AppendedNotEmpty
<1>2. Len(kernelQueue) \in Nat /\ EventQueueSize \in Nat /\ EventQueueSize > 0
  BY WatcherAssumption
<1>3. ~(Len(kernelQueue) < EventQueueSize) => kernelQueue # <<>>
  BY <1>2
<1> QED
  BY <1>1, <1>3 DEF Post

LEMMA WatchedPathsAre ==
  /\ ToSet(WatchedPaths) = Everything
  /\ WatchedPaths \in Seq(Everything)
  /\ \A p \in Everything : There(p) <=> disk[p] # 0
<1>1. WatchedPaths \in Seq(STRING) /\ TopDirectory \notin Everything
  BY WatcherAssumption
<1>2. /\ Len(WatchedPaths) \in Nat /\ DOMAIN WatchedPaths = 1..Len(WatchedPaths)
      /\ WatchedPaths = [i \in 1..Len(WatchedPaths) |-> WatchedPaths[i]]
      /\ \A i \in 1..Len(WatchedPaths) : WatchedPaths[i] \in STRING
  BY <1>1
<1>3. \A i \in 1..Len(WatchedPaths) : WatchedPaths[i] \in Everything
  BY <1>2 DEF Everything, ToSet
<1>4. WatchedPaths \in Seq(Everything)
  BY <1>2, <1>3
<1> QED
  BY <1>1, <1>2, <1>4 DEF Everything, ToSet, There

(* The fields of the poll record. *)
LEMMA PollFields ==
  ASSUME WatcherTypeOK
  PROVE  /\ poll.phase \in {"no", "reading", "cancelling", "returned"} /\ poll.events \in Nat
         /\ poll.rescan \in BOOLEAN /\ poll.todo \in Seq(Everything)
         /\ poll.seen \subseteq Everything \X Nat /\ poll.touched \in BOOLEAN
BY DEF WatcherTypeOK, PollRecord

-----------------------------------------------------------------------------
(* A change of the disk: the paths that change are signalled, or missed.   *)
Changes(below) ==
  /\ disk' \in [Everything -> Nat] /\ stamps' \in [Everything -> Nat]
  /\ \A q \in Everything \ below : disk'[q] = disk[q] /\ stamps'[q] = stamps[q]
  /\ \A q \in below \cap Everything :
       \/ disk'[q] # 0 /\ stamps'[q] = diskChanges + 1
       \/ disk'[q] = 0 /\ stamps'[q] = 0
       \/ disk'[q] # 0 /\ disk[q] # 0 /\ stamps'[q] = stamps[q]

LEMMA ToldStep ==
  ASSUME WatcherInvariant, NEW p \in Everything, NEW below, Changes(below), Told(p, below)
  PROVE  WatcherInvariant'
<1>1. /\ WatcherTypeOK /\ PollInv /\ StampsInv /\ KnownInv /\ EntriesInv
  BY DEF WatcherInvariant
<1>2. /\ diskChanges' = diskChanges + 1 /\ quiet' = FALSE
      /\ poll' = [poll EXCEPT !.touched = TRUE]
      /\ UNCHANGED <<backend, entries, owed, indexedDisk>>
  BY DEF Told, serviceState
<1>3. /\ poll' \in PollRecord /\ poll'.phase = poll.phase /\ poll'.events = poll.events
      /\ poll'.rescan = poll.rescan /\ poll'.touched /\ poll'.seen = poll.seen
  BY <1>1, <1>2 DEF WatcherTypeOK, PollRecord
<1>4. diskChanges \in Nat /\ diskChanges + 1 \in Nat /\ kernelQueue \in Seq(Events)
      /\ inFlight \in BOOLEAN /\ p \in Events
  BY <1>1 DEF WatcherTypeOK, Events
<1>5. /\ kernelQueue' \in Seq(Events) /\ inFlight' \in BOOLEAN
      /\ backend = "polling" =>
           missed' = missed \cup {q \in below : stamps'[q] = stamps[q]}
      /\ backend # "polling" =>
           \/ kernelQueue' # <<>> \/ inFlight'
           \/ missed' = missed \cup below /\ kernelQueue' = kernelQueue /\ inFlight' = inFlight
  <2>1. CASE backend = "linux"
    BY <1>4, <2>1, Posted DEF Told
  <2>2. CASE backend = "windows"
    BY <1>4, <2>2, Posted DEF Told
  <2>3. CASE backend = "macos"
    BY <1>4, <2>3 DEF Told
  <2>4. CASE backend = "polling"
    BY <1>4, <2>4 DEF Told
  <2> QED
    BY <1>1, <2>1, <2>2, <2>3, <2>4 DEF WatcherTypeOK
<1>6. WatcherTypeOK'
  BY <1>1, <1>2, <1>3, <1>4, <1>5 DEF WatcherTypeOK, Changes
<1>7. PollInv'
  BY <1>1, <1>2, <1>3 DEF PollInv
<1>8. StampsInv'
  <2>1. \A n \in Nat : n <= diskChanges => n <= diskChanges + 1
    BY <1>4
  <2>2. \A entry \in entries \cup poll.seen : entry[2] \in Nat /\ entry[2] <= diskChanges
    BY <1>1, PollFields DEF StampsInv, WatcherTypeOK
  <2>3. ASSUME NEW q \in Everything
        PROVE  (disk'[q] = 0 <=> stamps'[q] = 0) /\ stamps'[q] <= diskChanges + 1
    <3>1. (disk[q] = 0 <=> stamps[q] = 0) /\ stamps[q] <= diskChanges /\ stamps[q] \in Nat
      BY <1>1 DEF StampsInv, WatcherTypeOK
    <3>2. diskChanges + 1 # 0 /\ diskChanges + 1 <= diskChanges + 1 /\ 0 <= diskChanges + 1
      BY <1>4
    <3> QED
      BY <2>1, <3>1, <3>2 DEF Changes
  <2> QED
    BY <1>2, <1>3, <2>1, <2>2, <2>3 DEF StampsInv
<1>9. WalkInv'
  BY <1>3 DEF WalkInv
<1>10. QuietInv'
  BY <1>2 DEF QuietInv
<1>11. Signalled /\ backend = "polling" => Signalled'
  BY <1>2, <1>3 DEF Signalled
<1>12. KnownInv' /\ EntriesInv'
  <2>1. CASE backend # "polling"
    <3>1. CASE kernelQueue' # <<>> \/ inFlight'
      BY <1>2, <2>1, <3>1 DEF KnownInv, EntriesInv, Known, Signalled
    <3>2. CASE missed' = missed \cup below /\ kernelQueue' = kernelQueue /\ inFlight' = inFlight
      <4>1. Signalled => Signalled'
        BY <1>2, <1>3, <3>2 DEF Signalled
      <4>2. ASSUME NEW q \in Everything, q \notin missed' PROVE Known(q)'
        <5>1. q \notin missed /\ disk'[q] = disk[q]
          BY <3>2, <4>2 DEF Changes
        <5>2. Known(q)
          BY <1>1, <5>1 DEF KnownInv
        <5> QED
          BY <1>2, <2>1, <4>1, <5>1, <5>2 DEF Known
      <4> QED
        BY <1>2, <2>1, <4>2 DEF KnownInv, EntriesInv
    <3> QED
      BY <1>5, <2>1, <3>1, <3>2
  <2>2. CASE backend = "polling"
    <3>1. ASSUME NEW q \in Everything, q \notin missed'
          PROVE  /\ q \notin missed
                 /\ q \in below => stamps'[q] # stamps[q]
      BY <1>5, <2>2, <3>1
    <3>2. EntriesInv'
      BY <1>1, <1>2, <1>11, <2>2, <3>1 DEF EntriesInv
    <3>3. ASSUME NEW q \in Everything, q \notin missed' PROVE Known(q)'
      <4>1. CASE q \notin below
        <5>1. disk'[q] = disk[q] /\ stamps'[q] = stamps[q] /\ q \notin missed
          BY <3>1, <3>3, <4>1 DEF Changes
        <5>2. Known(q)
          BY <1>1, <5>1 DEF KnownInv
        <5>3. Matches(entries, q)' <=> Matches(entries, q)
          BY <1>2, <5>1 DEF Matches, There
        <5> QED
          BY <1>2, <1>11, <2>2, <5>1, <5>2, <5>3 DEF Known
      <4>2. CASE q \in below /\ stamps'[q] = diskChanges + 1 /\ disk'[q] # 0
        <5>1. <<q, diskChanges + 1>> \notin entries
          <6>1. ~(diskChanges + 1 <= diskChanges)
            BY <1>4
          <6> QED
            BY <1>1, <6>1 DEF StampsInv
        <5>2. There(q)'
          BY <4>2 DEF There
        <5>3. ~Matches(entries, q)'
          BY <1>2, <4>2, <5>1, <5>2 DEF Matches
        <5> QED
          BY <1>2, <2>2, <5>3 DEF Known
      <4>3. CASE q \in below /\ disk'[q] = 0
        <5>1. CASE indexedDisk[q] = 0
          BY <1>2, <4>3, <5>1 DEF Known
        <5>2. CASE indexedDisk[q] # 0
          <6>1. Signalled \/ \E s \in Nat : <<q, s>> \in entries
            BY <1>1, <2>2, <3>1, <3>3, <5>2 DEF EntriesInv
          <6>2. ~There(q)'
            BY <4>3, WatcherAssumption DEF There
          <6> QED
            BY <1>2, <1>11, <2>2, <6>1, <6>2 DEF Known, Matches
        <5> QED
          BY <5>1, <5>2
      <4> QED
        BY <3>1, <3>3, <4>1, <4>2, <4>3 DEF Changes
    <3> QED
      BY <3>2, <3>3 DEF KnownInv
  <2> QED
    BY <2>1, <2>2
<1> QED
  BY <1>6, <1>7, <1>8, <1>9, <1>10, <1>12 DEF WatcherInvariant

LEMMA WriteFileStep ==
  ASSUME WatcherInvariant, NEW p \in Everything, WriteFile(p) PROVE WatcherInvariant'
<1>1. WatcherTypeOK /\ StampsInv
  BY DEF WatcherInvariant
<1>2. /\ There(p) /\ disk' = [disk EXCEPT ![p] = diskChanges + 1]
      /\ stamps' = [stamps EXCEPT ![p] = diskChanges + 1] \/ stamps' = stamps
      /\ Told(p, {p})
  BY DEF WriteFile
<1>3. diskChanges + 1 \in Nat /\ diskChanges + 1 # 0 /\ disk[p] # 0
  BY <1>1, <1>2, WatchedPathsAre DEF WatcherTypeOK
<1>4. Changes({p})
  BY <1>1, <1>2, <1>3 DEF WatcherTypeOK, Changes
<1> QED
  BY <1>2, <1>4, ToldStep

LEMMA AppearStep ==
  ASSUME WatcherInvariant, NEW p \in Everything, NEW paths, Appear(p, paths)
  PROVE  WatcherInvariant'
<1>1. WatcherTypeOK /\ StampsInv
  BY DEF WatcherInvariant
<1>2. /\ disk' = [q \in Everything |-> IF q \in paths THEN diskChanges + 1 ELSE disk[q]]
      /\ stamps' = [q \in Everything |-> IF q \in paths THEN diskChanges + 1 ELSE stamps[q]]
      /\ Told(p, paths)
  BY DEF Appear
<1>3. diskChanges + 1 \in Nat /\ diskChanges + 1 # 0
  BY <1>1 DEF WatcherTypeOK
<1>4. Changes(paths)
  BY <1>1, <1>2, <1>3 DEF WatcherTypeOK, Changes
<1> QED
  BY <1>2, <1>4, ToldStep

LEMMA VanishStep ==
  ASSUME WatcherInvariant, NEW p \in Everything, Vanish(p) PROVE WatcherInvariant'
<1>1. WatcherTypeOK /\ StampsInv
  BY DEF WatcherInvariant
<1> DEFINE below == Subtree(p)
<1>2. /\ disk' = [q \in Everything |-> IF q \in below THEN 0 ELSE disk[q]]
      /\ stamps' = [q \in Everything |-> IF q \in below THEN 0 ELSE stamps[q]]
      /\ Told(p, below)
  BY DEF Vanish
<1> HIDE DEF below
<1>3. Changes(below)
  BY <1>1, <1>2 DEF WatcherTypeOK, Changes
<1> QED
  BY <1>2, <1>3, ToldStep

-----------------------------------------------------------------------------
(* A step of the poll that neither the disk nor the caller notices.        *)
PollStep ==
  /\ UNCHANGED <<backend, disk, stamps, diskChanges, owed, indexedDisk>>
  /\ kernelQueue' \in Seq(Events) /\ inFlight' \in BOOLEAN /\ quiet' \in BOOLEAN
  /\ entries' \subseteq Everything \X Nat /\ poll' \in PollRecord

LEMMA PollStepTypes == ASSUME WatcherTypeOK, PollStep PROVE WatcherTypeOK'
BY DEF WatcherTypeOK, PollStep

LEMMA NotPollingFields ==
  /\ NotPolling \in PollRecord /\ NotPolling.phase = "no" /\ NotPolling.events = 0
  /\ NotPolling.rescan = FALSE /\ NotPolling.seen = {} /\ NotPolling.touched = FALSE
  /\ NotPolling.todo = <<>>
<1>1. <<>> \in Seq(Everything) /\ {} \subseteq Everything \X Nat /\ 0 \in Nat
  OBVIOUS
<1> QED
  BY <1>1 DEF NotPolling, PollRecord

LEMMA Returned ==
  ASSUME NEW events, NEW rescan, Return(events, rescan)
  PROVE  /\ poll'.phase = "returned" /\ poll'.events = events /\ poll'.rescan = rescan
         /\ poll'.seen = {}
         /\ quiet' => events = 0
         /\ quiet' => ~rescan
BY DEF Return, NotPolling

LEMMA EmptyQueue == <<>> \in Seq(Events)
OBVIOUS

(* The poll returns, and what was signalled still is. *)
LEMMA ReturnStep ==
  ASSUME WatcherInvariant, NEW events \in Nat, NEW rescan \in BOOLEAN, Return(events, rescan),
         UNCHANGED <<backend, disk, stamps, diskChanges, owed, indexedDisk, inFlight>>,
         kernelQueue' \in Seq(Events), entries' \subseteq Everything \X Nat,
         \A entry \in entries' : entry[2] <= diskChanges,
         \A p \in Everything : p \notin missed' => Known(p)',
         EntriesInv',
         quiet' => /\ backend # "polling" => kernelQueue' = <<>>
                   /\ backend = "polling" => \A p \in Everything : Matches(entries', p)
  PROVE  WatcherInvariant'
<1>1. /\ WatcherTypeOK /\ StampsInv
  BY DEF WatcherInvariant
<1>2. /\ poll' = [NotPolling EXCEPT !.phase = "returned", !.events = events,
                                    !.rescan = rescan]
      /\ quiet' = (events = 0 /\ ~rescan /\ ~poll.touched /\ ~inFlight)
  BY DEF Return
<1>3. /\ poll' \in PollRecord /\ poll'.phase = "returned" /\ poll'.events = events
      /\ poll'.rescan = rescan /\ poll'.seen = {}
  BY <1>2, NotPollingFields DEF PollRecord
<1>4. quiet' \in BOOLEAN
  BY <1>2
<1>5. WatcherTypeOK'
  BY <1>1, <1>3, <1>4 DEF WatcherTypeOK
<1>6. PollInv' /\ WalkInv'
  BY <1>3 DEF PollInv, WalkInv
<1>7. StampsInv'
  BY <1>1, <1>3 DEF StampsInv
<1>8. KnownInv'
  BY DEF KnownInv
<1>9. QuietInv'
  <2>1. \A p \in Everything : Matches(entries, p)' <=> Matches(entries', p)
    BY DEF Matches, There
  <2> QED
    BY <1>2, <1>3, <2>1 DEF QuietInv
<1> QED
  BY <1>5, <1>6, <1>7, <1>8, <1>9 DEF WatcherInvariant

(* Where a batch asks for an update, everything is known. *)
LEMMA SignalledIsKnown ==
  ASSUME Signalled'
  PROVE  (\A p \in Everything : p \notin missed' => Known(p)') /\ EntriesInv'
BY DEF Known, EntriesInv

LEMMA PollStoppedStep == ASSUME WatcherInvariant, PollStopped PROVE WatcherInvariant'
<1>1. WatcherTypeOK /\ StampsInv
  BY DEF WatcherInvariant
<1>2. /\ Return(0, TRUE) /\ (kernelQueue' = kernelQueue \/ kernelQueue' = <<>>)
      /\ UNCHANGED <<backend, disk, stamps, diskChanges, owed, indexedDisk, inFlight,
                     entries, missed>>
  BY DEF PollStopped, PollUnchanged, worldVars, serviceState
<1>3. kernelQueue' \in Seq(Events) /\ entries' \subseteq Everything \X Nat
      /\ \A entry \in entries' : entry[2] <= diskChanges
  BY <1>1, <1>2, EmptyQueue DEF WatcherTypeOK, StampsInv
<1>4. poll'.rescan = TRUE /\ ~quiet'
  BY <1>2, Returned
<1>5. Signalled' /\ ~quiet'
  BY <1>4 DEF Signalled
<1> QED
  BY <1>2, <1>3, <1>5, ReturnStep, SignalledIsKnown

LEMMA LinuxEndStep == ASSUME WatcherInvariant, LinuxEnd PROVE WatcherInvariant'
<1>1. WatcherTypeOK /\ StampsInv /\ PollInv /\ KnownInv
  BY DEF WatcherInvariant
<1>2. /\ backend = "linux" /\ poll.phase = "reading" /\ kernelQueue = <<>>
      /\ Return(poll.events, FALSE)
      /\ UNCHANGED <<backend, disk, stamps, diskChanges, owed, indexedDisk, inFlight,
                     entries, missed, kernelQueue>>
  BY DEF LinuxEnd, PollUnchanged, worldVars, serviceState
<1>3. kernelQueue' \in Seq(Events) /\ entries' \subseteq Everything \X Nat
      /\ poll.events \in Nat /\ \A entry \in entries' : entry[2] <= diskChanges
  BY <1>1, <1>2, PollFields DEF WatcherTypeOK, StampsInv
<1>4. poll'.events = poll.events /\ ~poll.rescan
  BY <1>1, <1>2, Returned DEF PollInv
<1>5. \A p \in Everything : p \notin missed' => Known(p)'
  BY <1>1, <1>2, <1>4 DEF KnownInv, Known, Signalled
<1>6. EntriesInv'
  BY <1>2 DEF EntriesInv
<1> QED
  BY <1>2, <1>3, <1>5, <1>6, ReturnStep

(* Reading one event of Linux. *)
LEMMA LinuxEventStep == ASSUME WatcherInvariant, LinuxEvent PROVE WatcherInvariant'
<1>1. WatcherTypeOK /\ StampsInv /\ PollInv /\ KnownInv /\ QuietInv
  BY DEF WatcherInvariant
<1>2. /\ backend = "linux" /\ poll.phase = "reading" /\ kernelQueue # <<>>
      /\ UNCHANGED <<backend, disk, stamps, diskChanges, owed, indexedDisk, inFlight,
                     entries, missed>>
      /\ kernelQueue' \in {Tail(kernelQueue), <<>>}
      /\ \/ Return(poll.events, TRUE)
         \/ poll' = [poll EXCEPT !.events = 1] /\ quiet' = quiet
  BY DEF LinuxEvent, PollUnchanged, worldVars, serviceState
<1>3. kernelQueue' \in Seq(Events) /\ entries' \subseteq Everything \X Nat
      /\ poll.events \in Nat /\ \A entry \in entries' : entry[2] <= diskChanges
  <2>1. kernelQueue \in Seq(Events) /\ kernelQueue # <<>>
    BY <1>1, <1>2 DEF WatcherTypeOK
  <2>2. Tail(kernelQueue) \in Seq(Events)
    BY <2>1, HeadAndTail
  <2> QED
    BY <1>1, <1>2, <2>2, EmptyQueue, PollFields DEF WatcherTypeOK, StampsInv
<1>4. CASE Return(poll.events, TRUE)
  <2>1. poll'.rescan = TRUE /\ ~quiet'
    BY <1>4, Returned
  <2>2. Signalled' /\ ~quiet'
    BY <2>1 DEF Signalled
  <2> QED
    BY <1>2, <1>3, <1>4, <2>2, ReturnStep, SignalledIsKnown
<1>5. CASE poll' = [poll EXCEPT !.events = 1] /\ quiet' = quiet
  <2>1. /\ poll' \in PollRecord /\ poll'.events = 1 /\ poll'.phase = poll.phase
        /\ poll'.rescan = poll.rescan /\ poll'.seen = poll.seen
    BY <1>1, <1>5 DEF WatcherTypeOK, PollRecord
  <2>2. ~quiet'
    BY <1>1, <1>2, <1>5 DEF QuietInv
  <2>3. Signalled'
    BY <2>1 DEF Signalled
  <2>4. WatcherTypeOK'
    BY <1>1, <1>2, <1>3, <1>5, <2>1 DEF WatcherTypeOK
  <2>5. PollInv' /\ WalkInv' /\ QuietInv'
    BY <1>1, <1>2, <2>1, <2>2 DEF PollInv, WalkInv, QuietInv
  <2>6. StampsInv'
    BY <1>1, <1>2, <2>1 DEF StampsInv
  <2> QED
    BY <2>3, <2>4, <2>5, <2>6, SignalledIsKnown DEF WatcherInvariant, KnownInv
<1> QED
  BY <1>2, <1>4, <1>5

LEMMA WindowsEventsStep == ASSUME WatcherInvariant, WindowsEvents PROVE WatcherInvariant'
<1>1. WatcherTypeOK /\ StampsInv
  BY DEF WatcherInvariant
<1>2. /\ backend = "windows" /\ kernelQueue' = <<>>
      /\ Return(0, TRUE) \/ Return(1, FALSE)
      /\ UNCHANGED <<backend, disk, stamps, diskChanges, owed, indexedDisk, inFlight,
                     entries, missed>>
  BY DEF WindowsEvents, PollUnchanged, worldVars, serviceState
<1>3. kernelQueue' \in Seq(Events) /\ entries' \subseteq Everything \X Nat
      /\ \A entry \in entries' : entry[2] <= diskChanges
  BY <1>1, <1>2 DEF WatcherTypeOK, StampsInv
<1>4. CASE Return(0, TRUE)
  <2>1. poll'.rescan = TRUE /\ ~quiet'
    BY <1>4, Returned
  <2> QED
    BY <1>2, <1>3, <1>4, <2>1, ReturnStep, SignalledIsKnown DEF Signalled
<1>5. CASE Return(1, FALSE)
  <2>1. poll'.events = 1 /\ (quiet' => 1 = 0)
    BY <1>5, Returned
  <2>2. Signalled' /\ ~quiet'
    BY <2>1 DEF Signalled
  <2>3. 1 \in Nat /\ FALSE \in BOOLEAN
    OBVIOUS
  <2> QED
    BY <1>2, <1>3, <1>5, <2>2, <2>3, ReturnStep, SignalledIsKnown
<1> QED
  BY <1>2, <1>4, <1>5

(* What CancelIoEx throws away is missed. *)
LEMMA WindowsCancelStep == ASSUME WatcherInvariant, WindowsCancel PROVE WatcherInvariant'
<1>1. WatcherTypeOK /\ StampsInv /\ PollInv /\ KnownInv
  BY DEF WatcherInvariant
<1>2. /\ backend = "windows" /\ poll.phase = "cancelling" /\ kernelQueue' = <<>>
      /\ Return(0, FALSE)
      /\ missed' = IF kernelQueue = <<>> THEN missed ELSE Everything
      /\ UNCHANGED <<backend, disk, stamps, diskChanges, owed, indexedDisk, inFlight, entries>>
  BY DEF WindowsCancel, PollUnchanged, worldVars, serviceState
<1>3. kernelQueue' \in Seq(Events) /\ entries' \subseteq Everything \X Nat
      /\ \A entry \in entries' : entry[2] <= diskChanges
  BY <1>1, <1>2 DEF WatcherTypeOK, StampsInv
<1>4. poll.events = 0 /\ ~poll.rescan
  BY <1>1, <1>2 DEF PollInv
<1>5. \A p \in Everything : p \notin missed' => Known(p)'
  BY <1>1, <1>2, <1>4 DEF KnownInv, Known, Signalled
<1>6. EntriesInv'
  BY <1>2 DEF EntriesInv
<1> QED
  BY <1>2, <1>3, <1>5, <1>6, ReturnStep

LEMMA MacosTakeStep == ASSUME WatcherInvariant, MacosTake PROVE WatcherInvariant'
<1>1. WatcherTypeOK /\ StampsInv /\ PollInv /\ KnownInv
  BY DEF WatcherInvariant
<1> DEFINE n == Len(kernelQueue)
           overflow == kernelQueue = <<"overflow">>
<1>2. /\ backend = "macos" /\ poll.phase = "reading" /\ kernelQueue' = <<>>
      /\ Return(n, overflow)
      /\ UNCHANGED <<backend, disk, stamps, diskChanges, owed, indexedDisk, inFlight,
                     entries, missed>>
  BY DEF MacosTake, PollUnchanged, worldVars, serviceState
<1>3. kernelQueue' \in Seq(Events) /\ entries' \subseteq Everything \X Nat
      /\ \A entry \in entries' : entry[2] <= diskChanges
  BY <1>1, <1>2 DEF WatcherTypeOK, StampsInv
<1>4. /\ n \in Nat /\ overflow \in BOOLEAN
      /\ kernelQueue # <<>> => n > 0
  <2>1. kernelQueue \in Seq(Events)
    BY <1>1 DEF WatcherTypeOK
  <2> QED
    BY <2>1
<1> HIDE DEF n, overflow
<1>5. poll.events = 0 /\ ~poll.rescan /\ poll'.events = n
  BY <1>1, <1>2, Returned DEF PollInv
<1>6. \A p \in Everything : p \notin missed' => Known(p)'
  BY <1>1, <1>2, <1>4, <1>5 DEF KnownInv, Known, Signalled
<1>7. EntriesInv'
  BY <1>2 DEF EntriesInv
<1> QED
  BY <1>2, <1>3, <1>4, <1>6, <1>7, ReturnStep

-----------------------------------------------------------------------------
(* A step inside a poll, or of the kernel, after which no less is          *)
(* signalled than before.                                                  *)
LEMMA WithinPollStep ==
  ASSUME WatcherInvariant,
         UNCHANGED <<backend, disk, stamps, diskChanges, owed, indexedDisk, entries, missed,
                     quiet>>,
         kernelQueue' \in Seq(Events), inFlight' \in BOOLEAN, poll' \in PollRecord,
         poll'.events = poll.events, poll'.rescan = poll.rescan,
         PollInv', WalkInv', Signalled => Signalled',
         backend # "polling" /\ kernelQueue = <<>> /\ ~inFlight =>
           kernelQueue' = <<>> /\ ~inFlight',
         \A entry \in poll'.seen : entry[2] <= diskChanges
  PROVE  WatcherInvariant'
<1>1. /\ WatcherTypeOK /\ StampsInv /\ KnownInv /\ EntriesInv /\ QuietInv
  BY DEF WatcherInvariant
<1>2. WatcherTypeOK'
  BY <1>1 DEF WatcherTypeOK
<1>3. StampsInv'
  BY <1>1 DEF StampsInv
<1>4. \A p \in Everything : Matches(entries, p)' <=> Matches(entries, p)
  BY DEF Matches, There
<1>5. KnownInv'
  BY <1>1, <1>4 DEF KnownInv, Known
<1>6. EntriesInv'
  BY <1>1 DEF EntriesInv
<1>7. QuietInv'
  BY <1>1, <1>4 DEF QuietInv
<1> QED
  BY <1>2, <1>3, <1>5, <1>6, <1>7 DEF WatcherInvariant

LEMMA BeginPollStep == ASSUME WatcherInvariant, BeginPoll PROVE WatcherInvariant'
<1>1. /\ WatcherTypeOK /\ PollInv
  BY DEF WatcherInvariant
<1> DEFINE todo == IF backend = "polling" THEN WatchedPaths ELSE <<>>
<1>2. /\ poll.phase = "no" /\ poll' = [NotPolling EXCEPT !.phase = "reading", !.todo = todo]
      /\ UNCHANGED <<backend, disk, stamps, diskChanges, owed, indexedDisk, entries, missed,
                     quiet, kernelQueue, inFlight>>
  BY DEF BeginPoll, worldVars, serviceState
<1>3. /\ todo \in Seq(Everything)
      /\ backend = "polling" => ToSet(todo) = Everything
  <2>1. <<>> \in Seq(Everything)
    OBVIOUS
  <2> QED
    BY <2>1, WatchedPathsAre
<1> HIDE DEF todo
<1>4. /\ poll' \in PollRecord /\ poll'.events = 0 /\ poll'.rescan = FALSE
      /\ poll'.phase = "reading" /\ poll'.seen = {} /\ poll'.todo = todo
  BY <1>2, <1>3, NotPollingFields DEF PollRecord
<1>5. poll.events = 0 /\ poll.rescan = FALSE
  BY <1>1, <1>2, PollFields DEF PollInv
<1>6. Signalled => Signalled'
  BY <1>2, <1>4, <1>5 DEF Signalled
<1>7. PollInv' /\ WalkInv'
  BY <1>2, <1>3, <1>4 DEF PollInv, WalkInv
<1>8. kernelQueue' \in Seq(Events) /\ inFlight' \in BOOLEAN
  BY <1>1, <1>2 DEF WatcherTypeOK
<1> QED
  BY <1>2, <1>4, <1>5, <1>6, <1>7, <1>8, WithinPollStep

LEMMA WindowsTimeoutStep == ASSUME WatcherInvariant, WindowsTimeout PROVE WatcherInvariant'
<1>1. /\ WatcherTypeOK /\ PollInv /\ StampsInv
  BY DEF WatcherInvariant
<1>2. /\ poll.phase = "reading" /\ poll' = [poll EXCEPT !.phase = "cancelling"]
      /\ UNCHANGED <<backend, disk, stamps, diskChanges, owed, indexedDisk, entries, missed,
                     quiet, kernelQueue, inFlight>>
  BY DEF WindowsTimeout, PollUnchanged, worldVars, serviceState
<1>3. /\ poll' \in PollRecord /\ poll'.events = poll.events /\ poll'.rescan = poll.rescan
      /\ poll'.phase = "cancelling" /\ poll'.seen = poll.seen
  BY <1>1, <1>2 DEF WatcherTypeOK, PollRecord
<1>4. Signalled => Signalled'
  BY <1>2, <1>3 DEF Signalled
<1>5. PollInv' /\ WalkInv'
  BY <1>1, <1>2, <1>3 DEF PollInv, WalkInv
<1>6. /\ kernelQueue' \in Seq(Events) /\ inFlight' \in BOOLEAN
      /\ \A entry \in poll'.seen : entry[2] <= diskChanges
  BY <1>1, <1>2, <1>3 DEF WatcherTypeOK, StampsInv
<1> QED
  BY <1>2, <1>3, <1>4, <1>5, <1>6, WithinPollStep

LEMMA MacosCallbackStep == ASSUME WatcherInvariant, MacosCallback PROVE WatcherInvariant'
<1>1. /\ WatcherTypeOK /\ PollInv /\ StampsInv /\ WalkInv
  BY DEF WatcherInvariant
<1>2. /\ backend = "macos" /\ inFlight /\ inFlight' = FALSE
      /\ \/ kernelQueue' = <<"event">> \/ kernelQueue' = <<"overflow">>
         \/ kernelQueue # <<>> /\ kernelQueue' = kernelQueue
      /\ UNCHANGED <<backend, disk, stamps, diskChanges, owed, indexedDisk, entries, missed,
                     quiet, poll>>
  BY DEF MacosCallback, worldVars, serviceState
<1>3. /\ <<"event">> \in Seq(Events) /\ <<"event">> # <<>>
      /\ <<"overflow">> \in Seq(Events) /\ <<"overflow">> # <<>>
  <2>1. "event" \in Events /\ "overflow" \in Events
    BY DEF Events
  <2> QED
    BY <2>1
<1>4. kernelQueue' \in Seq(Events) /\ kernelQueue' # <<>>
  BY <1>1, <1>2, <1>3 DEF WatcherTypeOK
<1>5. Signalled'
  BY <1>2, <1>4 DEF Signalled
<1>6. PollInv' /\ WalkInv'
  BY <1>1, <1>2 DEF PollInv, WalkInv
<1>7. /\ poll' \in PollRecord /\ inFlight' \in BOOLEAN
      /\ \A entry \in poll'.seen : entry[2] <= diskChanges
  BY <1>1, <1>2 DEF WatcherTypeOK, StampsInv
<1> QED
  BY <1>2, <1>4, <1>5, <1>6, <1>7, WithinPollStep

(* The polling watcher sees one more path. *)
LEMMA PollingVisitStep == ASSUME WatcherInvariant, PollingVisit PROVE WatcherInvariant'
<1>1. /\ WatcherTypeOK /\ PollInv /\ StampsInv /\ WalkInv
  BY DEF WatcherInvariant
<1> DEFINE p == Head(poll.todo)
           seen == IF There(p) THEN poll.seen \cup {<<p, stamps[p]>>} ELSE poll.seen
<1>2. /\ backend = "polling" /\ poll.phase = "reading" /\ poll.todo # <<>>
      /\ poll' = [poll EXCEPT !.todo = Tail(@), !.seen = seen]
      /\ UNCHANGED <<backend, disk, stamps, diskChanges, owed, indexedDisk, entries, missed,
                     quiet, kernelQueue, inFlight>>
  BY DEF PollingVisit, PollUnchanged, worldVars, serviceState
<1>3. /\ p \in Everything /\ Tail(poll.todo) \in Seq(Everything)
      /\ ToSet(poll.todo) = {p} \cup ToSet(Tail(poll.todo))
  BY <1>1, <1>2, PollFields, HeadAndTail
<1> HIDE DEF p
<1>4. seen \subseteq Everything \X Nat /\ \A entry \in seen : entry[2] <= diskChanges
  <2>1. <<p, stamps[p]>> \in Everything \X Nat /\ stamps[p] <= diskChanges
    BY <1>1, <1>3 DEF WatcherTypeOK, StampsInv
  <2>2. poll.seen \subseteq Everything \X Nat
          /\ \A entry \in poll.seen : entry[2] <= diskChanges
    BY <1>1, PollFields DEF StampsInv
  <2>3. \A entry \in seen : entry \in poll.seen \/ entry = <<p, stamps[p]>>
    OBVIOUS
  <2> HIDE DEF seen
  <2> QED
    BY <2>1, <2>2, <2>3
<1>5. \/ There(p) /\ seen = poll.seen \cup {<<p, stamps[p]>>}
      \/ ~There(p) /\ seen = poll.seen
  OBVIOUS
<1> HIDE DEF seen
<1>6. /\ poll' \in PollRecord /\ poll'.events = poll.events /\ poll'.rescan = poll.rescan
      /\ poll'.phase = poll.phase /\ poll'.seen = seen /\ poll'.todo = Tail(poll.todo)
      /\ poll'.touched = poll.touched
  BY <1>1, <1>2, <1>3, <1>4 DEF WatcherTypeOK, PollRecord
<1>7. Signalled => Signalled'
  BY <1>2, <1>6 DEF Signalled
<1>8. PollInv'
  BY <1>1, <1>2, <1>6 DEF PollInv
<1>9. WalkInv'
  <2> SUFFICES ASSUME ~poll.touched
               PROVE  /\ \A entry \in seen : There(entry[1]) /\ entry[2] = stamps[entry[1]]
                      /\ \A q \in Everything :
                           q \in ToSet(poll'.todo) \/ ~There(q) \/ <<q, stamps[q]>> \in seen
    BY <1>2, <1>6 DEF WalkInv, There
  <2>1. /\ \A entry \in poll.seen : There(entry[1]) /\ entry[2] = stamps[entry[1]]
        /\ \A q \in Everything :
             q \in ToSet(poll.todo) \/ ~There(q) \/ <<q, stamps[q]>> \in poll.seen
    BY <1>1, <1>2 DEF WalkInv
  <2>2. \A q \in Everything : q \in ToSet(poll.todo) => q = p \/ q \in ToSet(poll'.todo)
    BY <1>3, <1>6
  <2> QED
    BY <1>5, <2>1, <2>2
<1>10. kernelQueue' \in Seq(Events) /\ inFlight' \in BOOLEAN
  BY <1>1, <1>2 DEF WatcherTypeOK
<1> QED
  BY <1>2, <1>4, <1>6, <1>7, <1>8, <1>9, <1>10, WithinPollStep

(* The walk can fail only where something was removed meanwhile.           *)
LEMMA PollingWalkFailsStep ==
  ASSUME WatcherInvariant, PollingWalkFails PROVE WatcherInvariant'
<1>1. /\ WatcherTypeOK /\ PollInv /\ StampsInv /\ WalkInv
  BY DEF WatcherInvariant
<1>2. /\ backend = "polling" /\ poll.phase = "reading"
      /\ \E entry \in poll.seen : ~There(entry[1])
      /\ poll' = [poll EXCEPT !.todo = <<>>]
      /\ UNCHANGED <<backend, disk, stamps, diskChanges, owed, indexedDisk, entries, missed,
                     quiet, kernelQueue, inFlight>>
  BY DEF PollingWalkFails, PollUnchanged, worldVars, serviceState
<1>3. /\ poll' \in PollRecord /\ poll'.events = poll.events /\ poll'.rescan = poll.rescan
      /\ poll'.phase = poll.phase /\ poll'.seen = poll.seen
      /\ poll'.touched = poll.touched
  BY <1>1, <1>2, NotPollingFields DEF WatcherTypeOK, PollRecord
<1>4. poll.touched
  BY <1>1, <1>2 DEF WalkInv
<1>5. Signalled => Signalled'
  BY <1>2, <1>3 DEF Signalled
<1>6. PollInv' /\ WalkInv'
  BY <1>1, <1>2, <1>3, <1>4 DEF PollInv, WalkInv
<1>7. /\ kernelQueue' \in Seq(Events) /\ inFlight' \in BOOLEAN
      /\ \A entry \in poll'.seen : entry[2] <= diskChanges
  BY <1>1, <1>2, <1>3 DEF WatcherTypeOK, StampsInv
<1> QED
  BY <1>2, <1>3, <1>5, <1>6, <1>7, WithinPollStep

(* The entries of a walk that found what the last one had found are those  *)
(* of the last one; otherwise the batch is not empty.                      *)
LEMMA PollingEndStep == ASSUME WatcherInvariant, PollingEnd PROVE WatcherInvariant'
<1>1. /\ WatcherTypeOK /\ PollInv /\ StampsInv /\ WalkInv /\ KnownInv /\ EntriesInv
  BY DEF WatcherInvariant
<1> DEFINE events == IF poll.seen = entries THEN 0 ELSE 1
<1>2. /\ backend = "polling" /\ poll.phase = "reading" /\ poll.todo = <<>>
      /\ entries' = poll.seen /\ Return(events, FALSE)
      /\ UNCHANGED <<backend, disk, stamps, diskChanges, owed, indexedDisk, inFlight,
                     kernelQueue, missed>>
  BY DEF PollingEnd, PollUnchanged, worldVars, serviceState
<1>3. /\ events \in Nat
      /\ events = 0 => entries' = entries
      /\ events = 0 \/ events > 0
  BY <1>2
<1> HIDE DEF events
<1>4. kernelQueue' \in Seq(Events) /\ entries' \subseteq Everything \X Nat
      /\ \A entry \in entries' : entry[2] <= diskChanges
  BY <1>1, <1>2, PollFields DEF WatcherTypeOK, StampsInv
<1>5. /\ poll.events = 0 /\ ~poll.rescan /\ poll'.events = events
      /\ quiet' => ~poll.touched
  BY <1>1, <1>2, Returned DEF PollInv, Return
<1>6. CASE events > 0
  <2>1. Signalled'
    BY <1>5, <1>6 DEF Signalled
  <2>2. ~quiet'
    <3>1. quiet' => events = 0
      BY <1>2, Returned
    <3> QED
      BY <1>3, <1>6, <3>1
  <2> QED
    BY <1>2, <1>3, <1>4, <2>1, <2>2, ReturnStep, SignalledIsKnown
<1>7. CASE events = 0
  <2>1. entries' = entries
    BY <1>3, <1>7
  <2>2. Signalled => Signalled'
    BY <1>2, <1>5 DEF Signalled
  <2>3. \A p \in Everything : Matches(entries, p)' <=> Matches(entries, p)
    BY <1>2, <2>1 DEF Matches, There
  <2>4. \A p \in Everything : p \notin missed' => Known(p)'
    BY <1>1, <1>2, <2>2, <2>3 DEF KnownInv, Known
  <2>5. EntriesInv'
    BY <1>1, <1>2, <2>1, <2>2 DEF EntriesInv
  <2>6. quiet' => \A p \in Everything : Matches(entries', p)
    <3> SUFFICES ASSUME quiet', NEW p \in Everything PROVE Matches(poll.seen, p)
      BY <1>2
    <3>1. /\ \A entry \in poll.seen : There(entry[1]) /\ entry[2] = stamps[entry[1]]
          /\ p \in ToSet(poll.todo) \/ ~There(p) \/ <<p, stamps[p]>> \in poll.seen
      BY <1>1, <1>2, <1>5 DEF WalkInv
    <3>2. p \notin ToSet(poll.todo)
      BY <1>2 DEF ToSet
    <3> QED
      BY <3>1, <3>2 DEF Matches
  <2> QED
    BY <1>2, <1>3, <1>4, <2>4, <2>5, <2>6, ReturnStep
<1> QED
  BY <1>3, <1>6, <1>7

-----------------------------------------------------------------------------
(* The indexing service. *)

(* An update sees all of the disk; what the entries do not know of it is   *)
(* missed. *)
LEMMA UpdatedStep ==
  ASSUME WatcherInvariant, Updated,
         UNCHANGED <<backend, disk, stamps, diskChanges, entries, kernelQueue, inFlight, quiet>>,
         poll' = NotPolling \/ (poll.phase = "no" /\ poll' = poll)
  PROVE  WatcherInvariant'
<1>1. /\ WatcherTypeOK /\ PollInv /\ StampsInv /\ WalkInv /\ QuietInv
  BY DEF WatcherInvariant
<1>2. /\ indexedDisk' = disk /\ owed' = FALSE
      /\ backend = "polling" =>
           missed' = {p \in Everything : <<p, stamps[p]>> \notin entries /\ There(p)}
  BY DEF Updated
<1>3. /\ poll' \in PollRecord /\ poll'.phase = "no" /\ poll'.events = 0 /\ ~poll'.rescan
      /\ poll'.seen \subseteq poll.seen
  BY <1>1, NotPollingFields DEF PollInv, WatcherTypeOK
<1>4. WatcherTypeOK'
  BY <1>1, <1>2, <1>3 DEF WatcherTypeOK
<1>5. PollInv' /\ WalkInv'
  BY <1>3 DEF PollInv, WalkInv
<1>6. StampsInv'
  BY <1>1, <1>3 DEF StampsInv
<1>7. KnownInv'
  BY <1>2 DEF KnownInv, Known
<1>8. EntriesInv'
  <2> SUFFICES ASSUME backend = "polling", NEW p \in Everything, p \notin missed', disk[p] # 0
               PROVE  \E s \in Nat : <<p, s>> \in entries
    BY <1>2 DEF EntriesInv
  <2>1. <<p, stamps[p]>> \in entries
    BY <1>2, WatchedPathsAre
  <2>2. stamps[p] \in Nat
    BY <1>1 DEF WatcherTypeOK
  <2> QED
    BY <2>1, <2>2
<1>9. QuietInv'
  <2>1. \A p \in Everything : Matches(entries, p)' <=> Matches(entries, p)
    BY DEF Matches, There
  <2> QED
    BY <1>1, <1>3, <2>1 DEF QuietInv
<1> QED
  BY <1>4, <1>5, <1>6, <1>7, <1>8, <1>9 DEF WatcherInvariant

(* A batch that is not reconciled is owed. *)
LEMMA BatchStep ==
  ASSUME WatcherInvariant, poll' = NotPolling,
         UNCHANGED <<backend, disk, stamps, diskChanges, entries, kernelQueue, inFlight, quiet,
                     indexedDisk, missed>>,
         owed' \in BOOLEAN, Signalled => Signalled'
  PROVE  WatcherInvariant'
<1>1. /\ WatcherTypeOK /\ StampsInv /\ KnownInv /\ EntriesInv /\ QuietInv
  BY DEF WatcherInvariant
<1>2. /\ poll' \in PollRecord /\ poll'.phase = "no" /\ poll'.events = 0 /\ ~poll'.rescan
      /\ poll'.seen = {}
  BY NotPollingFields
<1>3. WatcherTypeOK'
  BY <1>1, <1>2 DEF WatcherTypeOK
<1>4. PollInv' /\ WalkInv' /\ StampsInv'
  BY <1>1, <1>2 DEF PollInv, WalkInv, StampsInv
<1>5. \A p \in Everything : Matches(entries, p)' <=> Matches(entries, p)
  BY DEF Matches, There
<1>6. KnownInv' /\ EntriesInv' /\ QuietInv'
  BY <1>1, <1>2, <1>5 DEF KnownInv, Known, EntriesInv, QuietInv
<1> QED
  BY <1>3, <1>4, <1>6 DEF WatcherInvariant

LEMMA ReconcileStep == ASSUME WatcherInvariant, reconcile PROVE WatcherInvariant'
<1>1. /\ poll' = NotPolling
      /\ UNCHANGED <<backend, disk, stamps, diskChanges, entries, kernelQueue, inFlight, quiet>>
      /\ \/ poll.events = 0 /\ ~poll.rescan /\ UNCHANGED <<indexedDisk, missed, owed>>
         \/ Updated
         \/ owed' = TRUE /\ UNCHANGED <<indexedDisk, missed>>
  BY DEF reconcile, Reconciled, worldVars, kernelVars
<1>2. CASE poll.events = 0 /\ ~poll.rescan /\ UNCHANGED <<indexedDisk, missed, owed>>
  <2>1. Signalled => Signalled'
    BY <1>1, <1>2 DEF Signalled
  <2>2. owed' \in BOOLEAN
    BY <1>2 DEF WatcherInvariant, WatcherTypeOK
  <2> QED
    BY <1>1, <1>2, <2>1, <2>2, BatchStep
<1>3. CASE Updated
  BY <1>1, <1>3, UpdatedStep
<1>4. CASE owed' = TRUE /\ UNCHANGED <<indexedDisk, missed>>
  <2>1. Signalled'
    BY <1>4 DEF Signalled
  <2> QED
    BY <1>1, <1>4, <2>1, BatchStep
<1> QED
  BY <1>1, <1>2, <1>3, <1>4

LEMMA WatcherInitially == WatcherInit => WatcherInvariant
<1> SUFFICES ASSUME NEW aBackend \in Backends, WatcherInitOf(aBackend)
             PROVE  WatcherInvariant
  BY DEF WatcherInit
<1>1. /\ backend \in {"polling", "linux", "windows", "macos"}
      /\ disk = Nothing /\ stamps = Nothing /\ diskChanges = 0 /\ kernelQueue = <<>>
      /\ inFlight = FALSE /\ entries = {} /\ poll = NotPolling /\ quiet = FALSE
      /\ owed = FALSE /\ indexedDisk = Nothing
  BY WatcherAssumption DEF WatcherInitOf
<1>2. Nothing \in [Everything -> Nat] /\ \A p \in Everything : Nothing[p] = 0
  BY DEF Nothing
<1>3. WatcherTypeOK
  BY <1>1, <1>2, NotPollingFields, EmptyQueue DEF WatcherTypeOK
<1>4. PollInv /\ WalkInv
  BY <1>1, NotPollingFields DEF PollInv, WalkInv
<1>5. StampsInv
  BY <1>1, <1>2, NotPollingFields DEF StampsInv
<1>6. KnownInv /\ EntriesInv /\ QuietInv
  BY <1>1, <1>2 DEF KnownInv, Known, EntriesInv, QuietInv
<1> QED
  BY <1>3, <1>4, <1>5, <1>6 DEF WatcherInvariant

(* What the invariant speaks of does not change. *)
LEMMA UnseenStep ==
  ASSUME WatcherInvariant,
         UNCHANGED <<backend, disk, stamps, diskChanges, entries, kernelQueue, inFlight, quiet,
                     indexedDisk, missed, owed, poll>>
  PROVE  WatcherInvariant'
BY DEF WatcherInvariant, WatcherTypeOK, PollInv, StampsInv, WalkInv, KnownInv, Known,
       Signalled, Matches, There, EntriesInv, QuietInv

LEMMA WatcherNextStep ==
  WatcherInvariant /\ [WatcherNext]_watcherVars => WatcherInvariant'
<1> SUFFICES ASSUME WatcherInvariant, [WatcherNext]_watcherVars PROVE WatcherInvariant'
  OBVIOUS
<1>1. ASSUME NEW p \in Everything, WriteFile(p) \/ Create(p) \/ MoveIn(p) \/ Vanish(p)
      PROVE  WatcherInvariant'
  BY <1>1, WriteFileStep, AppearStep, VanishStep DEF Create, MoveIn
<1>2. CASE BeginPoll
  BY <1>2, BeginPollStep
<1>3. CASE PollStopped
  BY <1>3, PollStoppedStep
<1>4. CASE LinuxEvent
  BY <1>4, LinuxEventStep
<1>5. CASE LinuxEnd
  BY <1>5, LinuxEndStep
<1>6. CASE WindowsEvents
  BY <1>6, WindowsEventsStep
<1>7. CASE WindowsTimeout
  BY <1>7, WindowsTimeoutStep
<1>8. CASE WindowsCancel
  BY <1>8, WindowsCancelStep
<1>9. CASE MacosCallback
  BY <1>9, MacosCallbackStep
<1>10. CASE MacosTake
  BY <1>10, MacosTakeStep
<1>11. CASE PollingVisit
  BY <1>11, PollingVisitStep
<1>12. CASE PollingWalkFails
  BY <1>12, PollingWalkFailsStep
<1>13. CASE PollingEnd
  BY <1>13, PollingEndStep
<1>14. CASE reconcile
  BY <1>14, ReconcileStep
<1>15. CASE requestManualReindex
  BY <1>15, UpdatedStep DEF requestManualReindex, Reconciled, worldVars, kernelVars
<1>16. CASE pauseOrResume
  BY <1>16, UnseenStep DEF pauseOrResume, worldVars, kernelVars
<1>17. CASE UNCHANGED watcherVars
  BY <1>17, UnseenStep DEF watcherVars
<1> QED
  BY <1>1, <1>2, <1>3, <1>4, <1>5, <1>6, <1>7, <1>8, <1>9, <1>10, <1>11, <1>12, <1>13,
     <1>14, <1>15, <1>16, <1>17 DEF WatcherNext

-----------------------------------------------------------------------------
(* For any tree, any number of changes and each of the four backends:      *)
(* after a poll that reports nothing, and while nothing is owed, the index *)
(* has every path as it is, but for what the backend cannot see (poll of   *)
(* the four watchers, and reconcile).                                      *)
THEOREM WatcherQuietMeansUpToDate == WatcherSpec => []QuietPollMeansUpToDate
<1>1. WatcherInvariant => QuietPollMeansUpToDate
  <2> SUFFICES ASSUME WatcherInvariant, quiet, ~owed, NEW p \in Everything \ missed
               PROVE  indexedDisk[p] = disk[p]
    BY DEF QuietPollMeansUpToDate
  <2>1. Known(p)
    BY DEF WatcherInvariant, KnownInv
  <2>2. /\ poll.events = 0 /\ ~poll.rescan
        /\ backend # "polling" => kernelQueue = <<>> /\ ~inFlight
        /\ backend = "polling" => Matches(entries, p)
    BY DEF WatcherInvariant, QuietInv
  <2> QED
    BY <2>1, <2>2 DEF Known, Signalled
<1>2. WatcherInit => WatcherInvariant
  BY WatcherInitially
<1>3. WatcherInvariant /\ [WatcherNext]_watcherVars => WatcherInvariant'
  BY WatcherNextStep
<1> QED
  BY <1>1, <1>2, <1>3, PTL DEF WatcherSpec
=============================================================================
