-------------------------- MODULE FileSearchProofs --------------------------
(***************************************************************************)
(* For any file and any limits: the results of a file come out in order,   *)
(* each with the lines that surround it in its segment, and none is left   *)
(* behind.                                                                 *)
(*                                                                         *)
(* All three rest on the pending results being a queue, which the code     *)
(* does not say: publishReadyPending looks at every entry and removes      *)
(* from the middle.  But an entry that waits for fewer lines stands before *)
(* one that waits for more, so that what is ready is always at the front,  *)
(* and how long an entry waits is how much context it still lacks.         *)
(***************************************************************************)
EXTENDS FileSearch, TLAPS, SequenceTheorems

Places == {"match", "read", "segment", "context", "path", "flush", "done"}
Over   == {"flush", "done"}

ResultRecord ==
  [line : Nat, match : Nat, before : Seq(Nat), context : Seq(Nat), emptied : BOOLEAN]
Waiting == [result : ResultRecord, remaining : Nat]

FileTypeOK ==
  /\ searched \in SearchedFiles
  /\ pc \in Places /\ line \in 0..Lines /\ match \in Nat
  /\ previousContext \in Seq(Nat) /\ pending \in Seq(Waiting)
  /\ scanned \in Nat /\ fileMatches \in Nat
  /\ published \in Seq(ResultRecord)

(* Where the code is, and what that means for the pending results. *)
PlacesInv ==
  /\ pc \in {"segment", "context"} => line > 0 /\ match = 0
  /\ pc = "segment" => Opens(line)
  /\ pc = "context" => ~Opens(line)
  /\ pc = "path" => line = 0
  /\ pc \in {"segment", "path", "flush"} =>
       scanned = 0 /\ \A i \in 1..Len(pending) : pending[i].remaining = 0
  /\ pc = "match" /\ match > 0 => ~Releasing
  /\ pc = "read" /\ line = 0 => pending = <<>>
  /\ searched.contextAfter = 0 => pending = <<>>

(* The pending results are a queue. *)
Queue(entries, wait) ==
  /\ \A i, j \in 1..Len(entries) : i < j => entries[i].remaining <= entries[j].remaining
  /\ \A i \in 1..Len(entries) : entries[i].remaining <= wait

QueueInv ==
  /\ Queue(pending, searched.contextAfter)
  /\ \A i \in 1..Len(pending) : i <= scanned => pending[i].remaining > 0

(* Published and pending results are in order, up to a match of a line. *)
Reached(r, l, m) == r.line < l \/ (r.line = l /\ r.match <= m)

InOrder(results, entries) ==
  /\ \A i, j \in 1..Len(results) : i < j => PublishedBefore(results[i], results[j])
  /\ \A i, j \in 1..Len(entries) :
       i < j => PublishedBefore(entries[i].result, entries[j].result)
  /\ \A i \in 1..Len(results), j \in 1..Len(entries) :
       PublishedBefore(results[i], entries[j].result)

AllReached(results, entries, l, m) ==
  /\ \A i \in 1..Len(results) : Reached(results[i], l, m)
  /\ \A i \in 1..Len(entries) : Reached(entries[i].result, l, m)

OrderInv == InOrder(published, pending) /\ AllReached(published, pending, line, match)

CountInv ==
  /\ Len(published) + Len(pending) <= fileMatches /\ fileMatches <= ResultLimit
  /\ "refused" \notin flags /\ "memoryLimitReached" \notin flags =>
       /\ Len(published) + Len(pending) = fileMatches
       /\ pc = "done" => pending = <<>>

(* The segments of a file. *)
TextIn(file, l)  == IF l = 0 THEN file.path ELSE file.lines[l]
OpensIn(file, l) == TextIn(file, l).opensSegment
FirstIn(file, l) == l = 1 \/ OpensIn(file, l)
LastIn(file, l)  == l = Len(file.lines) \/ OpensIn(file, l + 1)

(* The lines up to the last one, as many as are kept. *)
KeptBefore(file, kept, last) ==
  LET n == Len(kept)
  IN  /\ n <= last /\ n <= file.contextBefore
      /\ kept = [k \in 1..n |-> last - n + k]
      /\ \A k \in (last - n + 2)..last : ~OpensIn(file, k)
      /\ n < file.contextBefore => FirstIn(file, last - n + 1)

BeforeInv ==
  /\ pc \in {"match", "path"} /\ line = 0 => previousContext = <<>>
  /\ pc = "match" /\ line > 0 =>
       /\ KeptBefore(searched, previousContext, line - 1)
       /\ previousContext # <<>> => ~Opens(line)
  /\ pc = "read" => KeptBefore(searched, previousContext, line)
  /\ pc \in {"segment", "context"} => KeptBefore(searched, previousContext, line - 1)

(* What a result carries, whether it is all that it should carry, and what *)
(* a pending one still lacks when the file is read up to a line.           *)
CarriesBefore(file, r) ==
  LET n == Len(r.before)
  IN  /\ r.before = [k \in 1..n |-> r.line - n - 1 + k]
      /\ \A k \in (r.line - n + 1)..r.line : ~OpensIn(file, k)
      /\ n < file.contextBefore => FirstIn(file, r.line - n)

CarriesAfter(file, r) ==
  LET n == Len(r.context)
  IN  /\ n <= file.contextAfter
      /\ r.context = [k \in 1..n |-> r.line + k]
      /\ \A k \in 1..n : ~OpensIn(file, r.line + k)

Carries(file, r) ==
  IF r.line = 0 THEN r.before = <<>> /\ r.context = <<>>
  ELSE CarriesBefore(file, r) /\ CarriesAfter(file, r)

Complete(file, r) ==
  Len(r.context) = file.contextAfter \/ LastIn(file, r.line + Len(r.context))

Lacks(file, entry, last) ==
  LET n == Len(entry.result.context)
  IN  /\ entry.remaining = file.contextAfter - n
      /\ n < file.contextAfter => entry.result.line + n = last

Surrounded(file, r, last, over) ==
  ~r.emptied =>
    /\ Carries(file, r)
    /\ r.line > 0 => Complete(file, r) \/ (over /\ r.line + Len(r.context) = last)

Growing(file, entry, last) ==
  ~entry.result.emptied /\ Carries(file, entry.result) /\ Lacks(file, entry, last)

ContextInv ==
  /\ \A i \in 1..Len(published) : Surrounded(searched, published[i], line, pc \in Over)
  /\ \A i \in 1..Len(pending) : pending[i].result.line = 0 => line = 0
  /\ pc \in {"match", "read"} =>
       \A i \in 1..Len(pending) : Growing(searched, pending[i], line)
  /\ pc = "context" => \A i \in 1..Len(pending) : Growing(searched, pending[i], line - 1)
  /\ pc \in {"segment", "path", "flush"} =>
       \A i \in 1..Len(pending) :
         Surrounded(searched, pending[i].result, line, pc \in Over)

FileInvariant ==
  FileTypeOK /\ PlacesInv /\ QueueInv /\ OrderInv /\ CountInv /\ BeforeInv /\ ContextInv

-----------------------------------------------------------------------------
(* Sequences. *)
LEMMA RemovedFirst ==
  ASSUME NEW S, NEW s \in Seq(S), Len(s) > 0
  PROVE  /\ RemoveAt(s, 1) \in Seq(S) /\ Len(s) \in Nat
         /\ Len(RemoveAt(s, 1)) = Len(s) - 1
         /\ \A i \in 1..Len(RemoveAt(s, 1)) :
              i + 1 \in 1..Len(s) /\ RemoveAt(s, 1)[i] = s[i + 1]
<1> DEFINE none == SubSeq(s, 1, 0)
           rest == SubSeq(s, 2, Len(s))
<1>1. RemoveAt(s, 1) = none \o rest
  BY DEF RemoveAt
<1>2. none \in Seq(S) /\ Len(none) = 0
  OBVIOUS
<1>3. /\ Len(s) \in Nat /\ rest \in Seq(S) /\ Len(rest) = Len(s) - 1
      /\ \A i \in 1..(Len(s) - 1) : rest[i] = s[i + 1]
  <2>1. Len(s) \in Nat /\ 2 \in 1..(Len(s) + 1) /\ Len(s) \in (2 - 1)..Len(s)
    OBVIOUS
  <2>2. /\ rest \in Seq(S) /\ Len(rest) = IF 2 <= Len(s) THEN Len(s) - 2 + 1 ELSE 0
        /\ \A i \in 1..(Len(s) - 2 + 1) : rest[i] = s[2 + i - 1]
    BY <2>1, SubSeqProperties
  <2>3. /\ (IF 2 <= Len(s) THEN Len(s) - 2 + 1 ELSE 0) = Len(s) - 1
        /\ Len(s) - 2 + 1 = Len(s) - 1
        /\ \A i \in 1..(Len(s) - 1) : 2 + i - 1 = i + 1
    <3>1. \A n \in Nat : n > 0 =>
            /\ (IF 2 <= n THEN n - 2 + 1 ELSE 0) = n - 1 /\ n - 2 + 1 = n - 1
            /\ \A i \in 1..(n - 1) : 2 + i - 1 = i + 1
      OBVIOUS
    <3>2. Len(s) \in Nat /\ Len(s) > 0
      BY <2>1
    <3> HIDE DEF rest
    <3> QED
      BY <3>1, <3>2
  <2> QED
    BY <2>1, <2>2, <2>3
<1>4. \A i \in 1..Len(rest) : rest[i] = s[i + 1] /\ i + 1 \in 1..Len(s)
  BY <1>3
<1> HIDE DEF none, rest
<1>5. /\ none \o rest \in Seq(S) /\ Len(none \o rest) = Len(rest)
      /\ \A i \in 1..Len(none \o rest) : (none \o rest)[i] = rest[i]
  BY <1>2, <1>3
<1> QED
  BY <1>1, <1>3, <1>4, <1>5

LEMMA Appended ==
  ASSUME NEW S, NEW s \in Seq(S), NEW e \in S
  PROVE  /\ Append(s, e) \in Seq(S) /\ Len(s) \in Nat
         /\ Len(Append(s, e)) = Len(s) + 1
         /\ \A i \in 1..Len(s) : Append(s, e)[i] = s[i]
         /\ Append(s, e)[Len(s) + 1] = e
         /\ \A i \in 1..Len(Append(s, e)) :
              \/ i \in 1..Len(s) /\ Append(s, e)[i] = s[i]
              \/ i = Len(s) + 1 /\ Append(s, e)[i] = e
<1>1. /\ Append(s, e) \in Seq(S) /\ Len(s) \in Nat
      /\ Len(Append(s, e)) = Len(s) + 1
      /\ \A i \in 1..Len(s) : Append(s, e)[i] = s[i]
      /\ Append(s, e)[Len(s) + 1] = e
  OBVIOUS
<1> QED
  BY <1>1

LEMMA EmptyOnes == \A S : \A s \in Seq(S) : Len(s) \in Nat /\ (Len(s) = 0 <=> s = <<>>)
OBVIOUS

LEMMA SmallerOf ==
  ASSUME NEW m \in Nat, NEW n \in Nat
  PROVE  Min({m, n}) = IF m <= n THEN m ELSE n
<1> DEFINE least == IF m <= n THEN m ELSE n
<1>1. least \in {m, n} /\ \A y \in {m, n} : least <= y
  OBVIOUS
<1>2. \A x \in {m, n} : (\A y \in {m, n} : x <= y) => x = least
  OBVIOUS
<1> QED
  BY <1>1, <1>2 DEF Min

LEMMA EntryTypes ==
  ASSUME NEW entry \in Waiting
  PROVE  /\ entry.remaining \in Nat /\ entry.result \in ResultRecord
         /\ entry.result.line \in Nat /\ entry.result.match \in Nat
         /\ entry.result.before \in Seq(Nat) /\ entry.result.context \in Seq(Nat)
         /\ entry.result.emptied \in BOOLEAN
BY DEF Waiting, ResultRecord

LEMMA FileTypes ==
  ASSUME FileTypeOK
  PROVE  /\ searched.contextAfter \in Nat /\ searched.contextBefore \in Nat
         /\ Lines \in Nat /\ line \in Nat /\ line <= Lines
         /\ Len(pending) \in Nat /\ Len(published) \in Nat /\ fileMatches \in Nat
         /\ DOMAIN pending = 1..Len(pending) /\ DOMAIN published = 1..Len(published)
         /\ \A i \in 1..Len(pending) : pending[i] \in Waiting
         /\ \A i \in 1..Len(published) : published[i] \in ResultRecord
<1>1. searched \in [path : LineKinds, lines : Seq(LineKinds), readStatus : ReadStatuses,
                    target : {"content", "fileName", "contentAndFileName"},
                    contextBefore : Nat, contextAfter : Nat]
  BY FileAssumption DEF FileTypeOK
<1>2. searched.lines \in Seq(LineKinds) /\ searched.contextAfter \in Nat
        /\ searched.contextBefore \in Nat
  BY <1>1
<1>3. Lines \in Nat
  BY <1>2 DEF Lines
<1> QED
  BY <1>2, <1>3 DEF FileTypeOK

(* Two results in order. *)
LEMMA BeforeAndReached ==
  ASSUME NEW r \in ResultRecord, NEW l \in Nat, NEW m \in Nat, Reached(r, l, m),
         NEW s, s.line = l, s.match = m + 1
  PROVE  PublishedBefore(r, s)
<1>1. r.line \in Nat /\ r.match \in Nat
  BY DEF ResultRecord
<1> QED
  BY <1>1 DEF Reached, PublishedBefore

LEMMA ReachedFurther ==
  ASSUME NEW r \in ResultRecord, NEW l \in Nat, NEW m \in Nat, Reached(r, l, m)
  PROVE  Reached(r, l, m + 1) /\ Reached(r, l + 1, 0)
<1>1. r.line \in Nat /\ r.match \in Nat
  BY DEF ResultRecord
<1> QED
  BY <1>1 DEF Reached

(* What is the same for entries with the same results. *)
SameResults(entries, others) ==
  /\ Len(others) = Len(entries)
  /\ \A i \in 1..Len(entries) : others[i].result.line = entries[i].result.line
                                  /\ others[i].result.match = entries[i].result.match

LEMMA OrderOfSame ==
  ASSUME NEW results \in Seq(ResultRecord), NEW entries \in Seq(Waiting),
         NEW others \in Seq(Waiting), SameResults(entries, others),
         InOrder(results, entries), NEW l, NEW m, AllReached(results, entries, l, m)
  PROVE  InOrder(results, others) /\ AllReached(results, others, l, m)
<1>1. Len(others) = Len(entries)
  BY DEF SameResults
<1>2. ASSUME NEW i \in 1..Len(entries)
      PROVE  /\ \A r : PublishedBefore(r, others[i].result)
                        <=> PublishedBefore(r, entries[i].result)
             /\ \A r : PublishedBefore(others[i].result, r)
                        <=> PublishedBefore(entries[i].result, r)
             /\ Reached(others[i].result, l, m) <=> Reached(entries[i].result, l, m)
  BY DEF SameResults, PublishedBefore, Reached
<1>3. InOrder(results, others)
  BY <1>1, <1>2 DEF InOrder
<1>4. AllReached(results, others, l, m)
  BY <1>1, <1>2 DEF AllReached
<1> QED
  BY <1>3, <1>4

LEMMA OrderOfReleased ==
  ASSUME NEW results \in Seq(ResultRecord), NEW entries \in Seq(Waiting), Len(entries) > 0,
         InOrder(results, entries), NEW l, NEW m, AllReached(results, entries, l, m)
  PROVE  LET after == Append(results, entries[1].result)
             rest  == RemoveAt(entries, 1)
         IN  InOrder(after, rest) /\ AllReached(after, rest, l, m)
<1> DEFINE after == Append(results, entries[1].result)
           rest  == RemoveAt(entries, 1)
<1>1. Len(entries) \in Nat /\ 1 \in 1..Len(entries)
  OBVIOUS
<1>2. entries[1] \in Waiting /\ entries[1].result \in ResultRecord
  BY <1>1, EntryTypes
<1>3. /\ Len(results) \in Nat /\ Len(after) = Len(results) + 1
      /\ \A i \in 1..Len(after) :
           \/ i \in 1..Len(results) /\ after[i] = results[i]
           \/ i = Len(results) + 1 /\ after[i] = entries[1].result
  BY <1>2, Appended
<1>4. /\ Len(rest) = Len(entries) - 1
      /\ \A i \in 1..Len(rest) : i + 1 \in 1..Len(entries) /\ rest[i] = entries[i + 1]
  BY RemovedFirst
<1> HIDE DEF after, rest
<1>5. \A i, j \in 1..Len(after) : i < j => PublishedBefore(after[i], after[j])
  <2> SUFFICES ASSUME NEW i \in 1..Len(after), NEW j \in 1..Len(after), i < j
               PROVE  PublishedBefore(after[i], after[j])
    OBVIOUS
  <2>1. i \in 1..Len(results) /\ after[i] = results[i]
    BY <1>3
  <2> QED
    BY <1>1, <1>3, <2>1 DEF InOrder
<1>6. \A i, j \in 1..Len(rest) : i < j => PublishedBefore(rest[i].result, rest[j].result)
  <2> SUFFICES ASSUME NEW i \in 1..Len(rest), NEW j \in 1..Len(rest), i < j
               PROVE  PublishedBefore(rest[i].result, rest[j].result)
    OBVIOUS
  <2>1. i + 1 < j + 1
    BY <1>1, <1>4
  <2> QED
    BY <1>4, <2>1 DEF InOrder
<1>7. \A i \in 1..Len(after), j \in 1..Len(rest) : PublishedBefore(after[i], rest[j].result)
  <2> SUFFICES ASSUME NEW i \in 1..Len(after), NEW j \in 1..Len(rest)
               PROVE  PublishedBefore(after[i], rest[j].result)
    OBVIOUS
  <2>1. 1 < j + 1
    BY <1>1, <1>4
  <2> QED
    BY <1>1, <1>3, <1>4, <2>1 DEF InOrder
<1>8. AllReached(after, rest, l, m)
  BY <1>1, <1>3, <1>4 DEF AllReached
<1> QED
  BY <1>5, <1>6, <1>7, <1>8 DEF InOrder, after, rest

LEMMA QueueOfReleased ==
  ASSUME NEW entries \in Seq(Waiting), Len(entries) > 0, NEW wait, Queue(entries, wait)
  PROVE  Queue(RemoveAt(entries, 1), wait)
<1> DEFINE rest == RemoveAt(entries, 1)
<1>1. /\ Len(entries) \in Nat /\ Len(rest) = Len(entries) - 1
      /\ \A i \in 1..Len(rest) : i + 1 \in 1..Len(entries) /\ rest[i] = entries[i + 1]
  BY RemovedFirst
<1> HIDE DEF rest
<1>2. \A i, j \in 1..Len(rest) : i < j => i + 1 < j + 1
  BY <1>1
<1> QED
  BY <1>1, <1>2 DEF Queue, rest

-----------------------------------------------------------------------------
(* An entry that is ready is the first one. *)
LEMMA ReadyIsFirst ==
  ASSUME FileTypeOK, QueueInv, Releasing, pending[scanned + 1].remaining = 0
  PROVE  scanned = 0 /\ Len(pending) > 0 /\ 1 \in 1..Len(pending)
         /\ pending[1].remaining = 0 /\ pending[1] \in Waiting
<1>1. /\ scanned \in Nat /\ Len(pending) \in Nat /\ scanned < Len(pending)
      /\ \A i \in 1..Len(pending) : pending[i] \in Waiting
  BY FileTypes DEF Releasing, FileTypeOK
<1>2. 1 \in 1..Len(pending) /\ scanned + 1 \in 1..Len(pending) /\ Len(pending) > 0
  BY <1>1
<1>3. pending[1].remaining \in Nat /\ pending[scanned + 1].remaining \in Nat
  BY <1>1, <1>2, EntryTypes
<1>4. pending[1].remaining = 0
  <2>1. CASE scanned = 0
    BY <2>1
  <2>2. CASE scanned > 0
    <3>1. 1 < scanned + 1
      BY <1>1, <2>2
    <3>2. pending[1].remaining <= pending[scanned + 1].remaining
      BY <1>2, <3>1 DEF QueueInv, Queue
    <3> QED
      BY <1>3, <3>2
  <2> QED
    BY <1>1, <2>1, <2>2
<1>5. ~(1 <= scanned)
  BY <1>2, <1>4 DEF QueueInv
<1> QED
  BY <1>1, <1>2, <1>4, <1>5

(* The first entry is complete where it may be published. *)
LEMMA FirstIsSurrounded ==
  ASSUME FileTypeOK, PlacesInv, ContextInv, AllReached(published, pending, line, match),
         Len(pending) > 0, pending[1].remaining = 0,
         pc \in {"segment", "match", "path", "flush"}
  PROVE  Surrounded(searched, pending[1].result, line, pc \in Over)
<1>1. 1 \in 1..Len(pending)
  BY FileTypes
<1>2. CASE pc = "match"
  <2>1. Growing(searched, pending[1], line)
    BY <1>1, <1>2 DEF ContextInv
  <2>2. /\ pending[1].result.context \in Seq(Nat) /\ searched.contextAfter \in Nat
    BY <1>1, FileTypes, EntryTypes
  <2>3. Len(pending[1].result.context) \in Nat
    BY <2>2
  <2>4. searched.contextAfter - Len(pending[1].result.context) = 0
    BY <2>1 DEF Growing, Lacks
  <2>5. Len(pending[1].result.context) = searched.contextAfter
    BY <2>2, <2>3, <2>4
  <2> QED
    BY <2>1, <2>5 DEF Growing, Surrounded, Complete
<1>3. CASE pc \in {"segment", "path", "flush"}
  BY <1>1, <1>3 DEF ContextInv
<1> QED
  BY <1>2, <1>3

(* A result is taken by the sink.                                          *)
LEMMA ReleaseStep ==
  ASSUME FileInvariant, pc \in {"segment", "match", "path", "flush"}, Release,
         UNCHANGED <<givenVars, line, match, fileMatches>>
  PROVE  FileInvariant'
<1>1. /\ FileTypeOK /\ PlacesInv /\ QueueInv /\ OrderInv /\ CountInv /\ BeforeInv
      /\ ContextInv
  BY DEF FileInvariant
<1>2. /\ scanned = 0 /\ Len(pending) > 0 /\ 1 \in 1..Len(pending)
      /\ pending[1].remaining = 0 /\ pending[1] \in Waiting
  BY <1>1, ReadyIsFirst DEF Release
<1> DEFINE first == pending[1].result
<1>3. /\ pending' = RemoveAt(pending, 1) /\ published' = Append(published, first)
      /\ flags' = flags /\ scanned' = scanned /\ pc' = pc /\ line' = line
      /\ match' = match /\ fileMatches' = fileMatches /\ searched' = searched
      /\ previousContext' = previousContext
  BY <1>2 DEF Release, Erase, Take, givenVars
<1>4. pending \in Seq(Waiting) /\ published \in Seq(ResultRecord) /\ first \in ResultRecord
  BY <1>1, <1>2, EntryTypes DEF FileTypeOK
<1>5. /\ pending' \in Seq(Waiting) /\ Len(pending) \in Nat /\ Len(pending') = Len(pending) - 1
      /\ \A i \in 1..Len(pending') : i + 1 \in 1..Len(pending) /\ pending'[i] = pending[i + 1]
  BY <1>2, <1>3, <1>4, RemovedFirst
<1>6. /\ published' \in Seq(ResultRecord) /\ Len(published) \in Nat
      /\ Len(published') = Len(published) + 1
      /\ \A i \in 1..Len(published') :
           \/ i \in 1..Len(published) /\ published'[i] = published[i]
           \/ i = Len(published) + 1 /\ published'[i] = first
  BY <1>3, <1>4, Appended
<1>7. Surrounded(searched, first, line, pc \in Over)
  BY <1>1, <1>2, FirstIsSurrounded DEF OrderInv
<1>8. InOrder(published', pending') /\ AllReached(published', pending', line, match)
  BY <1>1, <1>2, <1>3, <1>4, OrderOfReleased DEF OrderInv
<1>9. Queue(pending', searched.contextAfter)
  BY <1>1, <1>2, <1>3, <1>4, QueueOfReleased DEF QueueInv
<1> HIDE DEF first
<1>10. FileTypeOK'
  BY <1>1, <1>3, <1>5, <1>6 DEF FileTypeOK, Lines
<1>11. PlacesInv'
  <2>1. /\ pending # <<>> /\ pc # "read"
        /\ \A i \in 1..Len(pending') : pc \in {"segment", "path", "flush"}
              => pending'[i].remaining = 0
    BY <1>1, <1>2, <1>4, <1>5, EmptyOnes DEF PlacesInv
  <2>2. pc = "match" => ~(match > 0)
    BY <1>1 DEF PlacesInv, Release
  <2> QED
    BY <1>1, <1>2, <1>3, <2>1, <2>2 DEF PlacesInv, Opens, Text
<1>12. QueueInv'
  <2>1. \A i \in 1..Len(pending') : ~(i <= 0)
    BY <1>5
  <2> QED
    BY <1>2, <1>3, <1>9, <2>1 DEF QueueInv
<1>13. OrderInv'
  BY <1>3, <1>8 DEF OrderInv
<1>14. CountInv'
  <2>1. Len(published') + Len(pending') = Len(published) + Len(pending)
    BY <1>5, <1>6
  <2>2. pc # "done"
    OBVIOUS
  <2> QED
    BY <1>1, <1>3, <2>1, <2>2 DEF CountInv
<1>15. BeforeInv'
  BY <1>1, <1>3 DEF BeforeInv, Opens, Text
<1>16. ContextInv'
  <2>1. \A i \in 1..Len(published') : Surrounded(searched, published'[i], line, pc \in Over)
    BY <1>1, <1>6, <1>7 DEF ContextInv
  <2>2. /\ \A i \in 1..Len(pending') : pending'[i].result.line = 0 => line = 0
        /\ pc = "match" => \A i \in 1..Len(pending') : Growing(searched, pending'[i], line)
        /\ pc \in {"segment", "path", "flush"} =>
             \A i \in 1..Len(pending') :
               Surrounded(searched, pending'[i].result, line, pc \in Over)
    BY <1>1, <1>5 DEF ContextInv
  <2> QED
    BY <1>3, <2>1, <2>2 DEF ContextInv
<1> QED
  BY <1>10, <1>11, <1>12, <1>13, <1>14, <1>15, <1>16 DEF FileInvariant

(* A result is refused: the reading is over. *)
LEMMA ReleaseRefusedStep ==
  ASSUME FileInvariant, pc \in {"segment", "match", "path", "flush"},
         NEW k \in Over, ReleaseRefused(k),
         UNCHANGED <<givenVars, line, match, fileMatches>>
  PROVE  FileInvariant'
<1>1. /\ FileTypeOK /\ PlacesInv /\ QueueInv /\ OrderInv /\ CountInv /\ BeforeInv
      /\ ContextInv
  BY DEF FileInvariant
<1>2. /\ scanned = 0 /\ Len(pending) > 0 /\ 1 \in 1..Len(pending)
      /\ pending[1].remaining = 0 /\ pending[1] \in Waiting
  BY <1>1, ReadyIsFirst DEF ReleaseRefused
<1>3. /\ pending' = [AllReady EXCEPT ![1].result = Emptied(@)]
      /\ published' = published /\ scanned' = 0 /\ pc' = k /\ line' = line
      /\ match' = match /\ fileMatches' = fileMatches /\ searched' = searched
      /\ previousContext' = previousContext
  BY <1>2 DEF ReleaseRefused, Refuse, givenVars
<1>4. pending \in Seq(Waiting) /\ published \in Seq(ResultRecord) /\ k \in Places /\ k # "match"
      /\ k # "read" /\ k # "segment" /\ k # "context" /\ k # "path"
  BY <1>1 DEF FileTypeOK, Over, Places
<1>5. /\ pending' \in Seq(Waiting) /\ Len(pending') = Len(pending) /\ Len(pending) \in Nat
      /\ \A i \in 1..Len(pending) :
           /\ pending'[i].remaining = 0
           /\ pending'[i].result.line = pending[i].result.line
           /\ pending'[i].result.match = pending[i].result.match
           /\ pending'[i].result.emptied \/ pending'[i].result = pending[i].result
  <2> DEFINE refused(i) == [result |-> Emptied(pending[i].result), remaining |-> 0]
             kept(i)    == [result |-> pending[i].result, remaining |-> 0]
  <2>1. /\ Len(pending) \in Nat /\ DOMAIN pending = 1..Len(pending)
        /\ \A i \in 1..Len(pending) : pending[i] \in Waiting
    BY <1>1, FileTypes
  <2>2. AllReady = [i \in 1..Len(pending) |-> kept(i)]
    BY <2>1 DEF AllReady, Waiting
  <2>3. \A i \in 1..Len(pending) :
          /\ kept(i) \in Waiting /\ kept(i).remaining = 0 /\ kept(i).result = pending[i].result
          /\ refused(i) \in Waiting /\ refused(i).remaining = 0 /\ refused(i).result.emptied
          /\ refused(i).result.line = pending[i].result.line
          /\ refused(i).result.match = pending[i].result.match
    <3> SUFFICES ASSUME NEW i \in 1..Len(pending)
                 PROVE  /\ kept(i) \in Waiting /\ kept(i).remaining = 0
                        /\ kept(i).result = pending[i].result
                        /\ refused(i) \in Waiting /\ refused(i).remaining = 0
                        /\ refused(i).result.emptied
                        /\ refused(i).result.line = pending[i].result.line
                        /\ refused(i).result.match = pending[i].result.match
      OBVIOUS
    <3>1. pending[i].result \in ResultRecord
      BY <2>1, EntryTypes
    <3>2. /\ Emptied(pending[i].result) \in ResultRecord
          /\ Emptied(pending[i].result).emptied
          /\ Emptied(pending[i].result).line = pending[i].result.line
          /\ Emptied(pending[i].result).match = pending[i].result.match
      <4>1. <<>> \in Seq(Nat)
        OBVIOUS
      <4> DEFINE r == pending[i].result
      <4>2. r \in ResultRecord
        BY <3>1
      <4> HIDE DEF r
      <4>3. /\ Emptied(r) \in ResultRecord /\ Emptied(r).emptied
            /\ Emptied(r).line = r.line /\ Emptied(r).match = r.match
        BY <4>1, <4>2 DEF Emptied, ResultRecord
      <4> QED
        BY <4>3 DEF r
    <3> QED
      BY <3>1, <3>2 DEF Waiting
  <2>7. [kept(1) EXCEPT !.result = Emptied(@)] = refused(1)
    OBVIOUS
  <2>8. AllReady[1] = kept(1)
    BY <1>2, <2>2
  <2> HIDE DEF refused, kept
  <2>9. pending' = [AllReady EXCEPT ![1] = refused(1)]
    BY <1>3, <2>7, <2>8
  <2>4. pending' = [i \in 1..Len(pending) |-> IF i = 1 THEN refused(i) ELSE kept(i)]
    BY <1>2, <2>2, <2>9
  <2>5. \A i \in 1..Len(pending) : pending'[i] = IF i = 1 THEN refused(i) ELSE kept(i)
    BY <2>4
  <2>6. pending' \in Seq(Waiting) /\ Len(pending') = Len(pending)
    BY <2>1, <2>3, <2>4
  <2> QED
    BY <2>1, <2>3, <2>5, <2>6
<1>6. SameResults(pending, pending')
  BY <1>5 DEF SameResults
<1>7. InOrder(published, pending') /\ AllReached(published, pending', line, match)
  BY <1>1, <1>4, <1>5, <1>6, OrderOfSame DEF OrderInv
<1>8. FileTypeOK'
  BY <1>1, <1>3, <1>4, <1>5 DEF FileTypeOK, Lines
<1>9. PlacesInv'
  <2>1. searched.contextAfter # 0
    <3>1. pending # <<>>
      BY <1>2, <1>4, EmptyOnes
    <3> QED
      BY <1>1, <3>1 DEF PlacesInv
  <2> QED
    BY <1>3, <1>4, <1>5, <2>1 DEF PlacesInv
<1>10. QueueInv'
  <2>1. 0 <= searched.contextAfter
    BY <1>1, FileTypes
  <2>2. \A i \in 1..Len(pending') : ~(i <= 0) /\ pending'[i].remaining = 0
    BY <1>5
  <2> QED
    BY <1>3, <2>1, <2>2 DEF QueueInv, Queue
<1>11. OrderInv'
  BY <1>3, <1>7 DEF OrderInv
<1>12. CountInv'
  <2>1. Len(published) < ResultLimit
    <3>1. /\ Len(published) + Len(pending) <= fileMatches /\ fileMatches <= ResultLimit
          /\ Len(published) \in Nat /\ Len(pending) \in Nat /\ fileMatches \in Nat
      BY <1>1, FileTypes DEF CountInv
    <3>2. ResultLimit \in Nat
      BY InputAssumption
    <3> QED
      BY <1>2, <3>1, <3>2
  <2>2. \/ flags' = flags \cup {"memoryLimitReached"}
        \/ flags' = flags \cup {"refused"}
    <3>1. \/ Len(published) >= ResultLimit
          \/ flags' = flags \cup {"memoryLimitReached"} \/ flags' = flags \cup {"refused"}
      BY DEF ReleaseRefused, Refuse
    <3>2. ~(Len(published) >= ResultLimit)
      <4>1. Len(published) \in Nat /\ ResultLimit \in Nat
        BY <1>1, FileTypes, InputAssumption
      <4> QED
        BY <2>1, <4>1
    <3> QED
      BY <3>1, <3>2
  <2> QED
    BY <1>1, <1>3, <1>5, <2>2 DEF CountInv
<1>13. BeforeInv'
  BY <1>3, <1>4 DEF BeforeInv
<1>14. ContextInv'
  <2>1. ASSUME NEW i \in 1..Len(published)
        PROVE  Surrounded(searched, published[i], line, TRUE)
    BY <1>1 DEF ContextInv, Surrounded
  <2>2. ASSUME NEW i \in 1..Len(pending)
        PROVE  Surrounded(searched, pending[i].result, line, TRUE)
    <3>1. CASE pc = "match"
      <4>1. Growing(searched, pending[i], line)
        BY <1>1, <3>1 DEF ContextInv
      <4>2. pending[i] \in Waiting /\ pending[i].result.context \in Seq(Nat)
              /\ searched.contextAfter \in Nat /\ pending[i].result.line \in Nat
        BY <1>1, FileTypes, EntryTypes
      <4>3. Len(pending[i].result.context) \in Nat
        BY <4>2
      <4>4. pending[i].remaining \in Nat
        BY <4>2, EntryTypes
      <4>5. Len(pending[i].result.context) <= searched.contextAfter
        BY <4>1, <4>2, <4>3, <4>4 DEF Growing, Lacks
      <4>6. \/ Len(pending[i].result.context) = searched.contextAfter
            \/ Len(pending[i].result.context) < searched.contextAfter
        BY <4>2, <4>3, <4>5
      <4> QED
        BY <4>1, <4>6 DEF Growing, Lacks, Surrounded, Complete
    <3>2. CASE pc \in {"segment", "path", "flush"}
      BY <1>1, <3>2 DEF ContextInv, Surrounded
    <3> QED
      BY <3>1, <3>2
  <2>3. \A i \in 1..Len(pending') : Surrounded(searched, pending'[i].result, line, TRUE)
    <3> SUFFICES ASSUME NEW i \in 1..Len(pending')
                 PROVE  Surrounded(searched, pending'[i].result, line, TRUE)
      OBVIOUS
    <3>1. CASE pending'[i].result.emptied
      BY <3>1 DEF Surrounded
    <3>2. CASE pending'[i].result = pending[i].result
      BY <1>5, <2>2, <3>2
    <3> QED
      BY <1>5, <3>1, <3>2
  <2>4. \A i \in 1..Len(pending') : pending'[i].result.line = 0 => line = 0
    BY <1>1, <1>5 DEF ContextInv
  <2>5. (k \in Over) = TRUE
    OBVIOUS
  <2> QED
    BY <1>3, <1>4, <2>1, <2>3, <2>4, <2>5 DEF ContextInv
<1> QED
  BY <1>8, <1>9, <1>10, <1>11, <1>12, <1>13, <1>14 DEF FileInvariant

-----------------------------------------------------------------------------
(* All that is pending made ready: the same results, none of which waits. *)
LEMMA AllReadyEntries ==
  ASSUME FileTypeOK
  PROVE  /\ AllReady \in Seq(Waiting) /\ Len(AllReady) = Len(pending)
         /\ \A i \in 1..Len(pending) :
              AllReady[i].remaining = 0 /\ AllReady[i].result = pending[i].result
<1> DEFINE ready(i) == [result |-> pending[i].result, remaining |-> 0]
<1>1. /\ Len(pending) \in Nat /\ DOMAIN pending = 1..Len(pending)
      /\ \A i \in 1..Len(pending) : pending[i] \in Waiting
  BY FileTypes
<1>2. AllReady = [i \in 1..Len(pending) |-> ready(i)]
  BY <1>1 DEF AllReady, Waiting
<1>3. \A i \in 1..Len(pending) :
        ready(i) \in Waiting /\ ready(i).remaining = 0 /\ ready(i).result = pending[i].result
  BY <1>1, EntryTypes DEF Waiting
<1> HIDE DEF ready
<1> QED
  BY <1>1, <1>2, <1>3

LEMMA AllReadyStep ==
  ASSUME FileInvariant, pending' = AllReady, scanned' = 0, published' = published,
         searched' = searched
  PROVE  /\ pending' \in Seq(Waiting) /\ Len(pending') = Len(pending) /\ Len(pending) \in Nat
         /\ \A i \in 1..Len(pending) :
              pending'[i].remaining = 0 /\ pending'[i].result = pending[i].result
         /\ QueueInv'
         /\ InOrder(published', pending') /\ AllReached(published', pending', line, match)
         /\ pending = <<>> => pending' = <<>>
<1>1. /\ FileTypeOK /\ OrderInv
  BY DEF FileInvariant
<1>2. /\ pending' \in Seq(Waiting) /\ Len(pending') = Len(pending) /\ Len(pending) \in Nat
      /\ \A i \in 1..Len(pending) :
           pending'[i].remaining = 0 /\ pending'[i].result = pending[i].result
  BY <1>1, AllReadyEntries, FileTypes
<1>3. QueueInv'
  <2>1. 0 <= searched.contextAfter
    BY <1>1, FileTypes
  <2>2. \A i \in 1..Len(pending') : ~(i <= 0) /\ pending'[i].remaining = 0
    BY <1>2
  <2> QED
    BY <2>1, <2>2 DEF QueueInv, Queue
<1>4. SameResults(pending, pending')
  BY <1>2 DEF SameResults
<1>5. InOrder(published', pending') /\ AllReached(published', pending', line, match)
  <2>1. pending \in Seq(Waiting) /\ published \in Seq(ResultRecord)
    BY <1>1 DEF FileTypeOK
  <2> QED
    BY <1>1, <1>2, <1>4, <2>1, OrderOfSame DEF OrderInv
<1>6. pending = <<>> => pending' = <<>>
  <2>1. pending \in Seq(Waiting)
    BY <1>1 DEF FileTypeOK
  <2> QED
    BY <1>2, <2>1, EmptyOnes
<1> QED
  BY <1>2, <1>3, <1>5, <1>6

(* An entry that grew as far as the file was read has all that it can get. *)
LEMMA GrowingIsSurrounded ==
  ASSUME FileTypeOK, ContextInv, pc \in {"match", "read"}, NEW i \in 1..Len(pending)
  PROVE  /\ Surrounded(searched, pending[i].result, line, TRUE)
         /\ LastIn(searched, line) => Surrounded(searched, pending[i].result, line, FALSE)
         /\ pending[i].result.line = 0 => Surrounded(searched, pending[i].result, line, FALSE)
<1>1. Growing(searched, pending[i], line)
  BY DEF ContextInv
<1>2. pending[i] \in Waiting /\ pending[i].result.context \in Seq(Nat)
        /\ searched.contextAfter \in Nat /\ pending[i].result.line \in Nat
  BY FileTypes, EntryTypes
<1>3. Len(pending[i].result.context) \in Nat
  BY <1>2
<1>4. pending[i].remaining \in Nat
  BY <1>2, EntryTypes
<1>5. Len(pending[i].result.context) <= searched.contextAfter
  BY <1>1, <1>2, <1>3, <1>4 DEF Growing, Lacks
<1>6. \/ Len(pending[i].result.context) = searched.contextAfter
      \/ Len(pending[i].result.context) < searched.contextAfter
  BY <1>2, <1>3, <1>5
<1> QED
  BY <1>1, <1>2, <1>6 DEF Growing, Lacks, Surrounded, Complete

(* A reading that ends, for whatever reason, leaves all that is pending    *)
(* ready for the final flushPending. *)
LEMMA StopReadingStep ==
  ASSUME FileInvariant, pc \in {"match", "read"}, pc' = "flush", pending' = AllReady,
         scanned' = 0, UNCHANGED <<searched, previousContext, line, published>>,
         match' \in Nat, match <= match', fileMatches' \in Nat, CountInv'
  PROVE  FileInvariant'
<1>1. /\ FileTypeOK /\ PlacesInv /\ QueueInv /\ OrderInv /\ CountInv /\ BeforeInv
      /\ ContextInv
  BY DEF FileInvariant
<1>2. /\ pending' \in Seq(Waiting) /\ Len(pending') = Len(pending) /\ Len(pending) \in Nat
      /\ \A i \in 1..Len(pending) :
           pending'[i].remaining = 0 /\ pending'[i].result = pending[i].result
      /\ QueueInv'
      /\ InOrder(published', pending') /\ AllReached(published', pending', line, match)
      /\ pending = <<>> => pending' = <<>>
  BY AllReadyStep
<1>3. FileTypeOK'
  BY <1>1, <1>2 DEF FileTypeOK, Lines, Places
<1>4. PlacesInv'
  BY <1>1, <1>2 DEF PlacesInv
<1>5. OrderInv'
  <2>1. AllReached(published', pending', line, match')
    <3>1. ASSUME NEW r \in ResultRecord, Reached(r, line, match) PROVE Reached(r, line, match')
      <4>1. r.match \in Nat /\ match \in Nat
        BY <1>1 DEF ResultRecord, FileTypeOK
      <4> QED
        BY <3>1, <4>1 DEF Reached
    <3>2. /\ \A i \in 1..Len(published') : published'[i] \in ResultRecord
          /\ \A i \in 1..Len(pending') : pending'[i].result \in ResultRecord
      BY <1>1, <1>2, FileTypes, EntryTypes
    <3> QED
      BY <1>2, <3>1, <3>2 DEF AllReached
  <2> QED
    BY <1>2, <2>1 DEF OrderInv
<1>6. BeforeInv'
  BY DEF BeforeInv
<1>7. ContextInv'
  <2>1. \A i \in 1..Len(published) : Surrounded(searched, published[i], line, TRUE)
    BY <1>1 DEF ContextInv, Surrounded
  <2>2. \A i \in 1..Len(pending') :
          /\ Surrounded(searched, pending'[i].result, line, TRUE)
          /\ pending'[i].result.line = 0 => line = 0
    BY <1>1, <1>2, GrowingIsSurrounded DEF ContextInv
  <2>3. (pc' \in Over) = TRUE
    BY DEF Over
  <2> QED
    BY <2>1, <2>2, <2>3 DEF ContextInv
<1> QED
  BY <1>2, <1>3, <1>4, <1>5, <1>6, <1>7 DEF FileInvariant

(* The reading reaches its end, or the token. *)
LEMMA EndOfFileStep == ASSUME FileInvariant, EndOfFile PROVE FileInvariant'
<1>1. /\ pc = "read" /\ pc' = "flush" /\ pending' = AllReady /\ scanned' = 0
      /\ UNCHANGED <<searched, previousContext, line, match, fileMatches, published, flags>>
  BY DEF EndOfFile, StopReading, givenVars, outputVars
<1>2. CountInv' /\ match' \in Nat /\ match <= match' /\ fileMatches' \in Nat
  <2>1. FileTypeOK /\ CountInv /\ match \in Nat /\ fileMatches \in Nat
    BY DEF FileInvariant, FileTypeOK
  <2>2. Len(pending') = Len(pending)
    BY <1>1, <2>1, AllReadyEntries
  <2> QED
    BY <1>1, <2>1, <2>2 DEF CountInv
<1> QED
  BY <1>1, <1>2, StopReadingStep

(* The matcher gives up on the line. *)
LEMMA GiveUpStep == ASSUME FileInvariant, GiveUp PROVE FileInvariant'
<1>1. /\ pc = "match" /\ pc' = "flush" /\ pending' = AllReady /\ scanned' = 0
      /\ UNCHANGED <<searched, previousContext, line, match, fileMatches, published, flags>>
  BY DEF GiveUp, StopReading, givenVars, outputVars
<1>2. CountInv' /\ match' \in Nat /\ match <= match' /\ fileMatches' \in Nat
  <2>1. FileTypeOK /\ CountInv /\ match \in Nat /\ fileMatches \in Nat
    BY DEF FileInvariant, FileTypeOK
  <2>2. Len(pending') = Len(pending)
    BY <1>1, <2>1, AllReadyEntries
  <2> QED
    BY <1>1, <2>1, <2>2 DEF CountInv
<1> QED
  BY <1>1, <1>2, StopReadingStep

(* The match is over a limit. *)
LEMMA OverLimitsStep == ASSUME FileInvariant, OverLimits PROVE FileInvariant'
<1>1. /\ pc = "match" /\ pc' = "flush" /\ pending' = AllReady /\ scanned' = 0
      /\ UNCHANGED <<searched, previousContext, line, match, fileMatches, published>>
      /\ "refused" \notin flags' /\ "memoryLimitReached" \notin flags' =>
           "refused" \notin flags /\ "memoryLimitReached" \notin flags
  BY DEF OverLimits, AtMatch, StopReading, givenVars
<1>2. CountInv' /\ match' \in Nat /\ match <= match' /\ fileMatches' \in Nat
  <2>1. FileTypeOK /\ CountInv /\ match \in Nat /\ fileMatches \in Nat
    BY DEF FileInvariant, FileTypeOK
  <2>2. Len(pending') = Len(pending)
    BY <1>1, <2>1, AllReadyEntries
  <2> QED
    BY <1>1, <2>1, <2>2 DEF CountInv
<1> QED
  BY <1>1, <1>2, StopReadingStep

(* publishReadyPending passes an entry that still waits. *)
LEMMA KeepWaitingStep ==
  ASSUME FileInvariant, KeepWaiting, UNCHANGED <<givenVars, line, match, fileMatches>>
  PROVE  FileInvariant'
<1>1. /\ FileTypeOK /\ PlacesInv /\ QueueInv /\ OrderInv /\ CountInv /\ BeforeInv
      /\ ContextInv
  BY DEF FileInvariant
<1>2. /\ scanned' = scanned + 1
      /\ UNCHANGED <<searched, previousContext, pc, line, match, pending, fileMatches,
                     published, flags>>
  BY DEF KeepWaiting, givenVars, outputVars
<1>3. /\ scanned \in Nat /\ Len(pending) \in Nat /\ scanned < Len(pending)
      /\ scanned + 1 \in 1..Len(pending) /\ pending[scanned + 1].remaining > 0
  <2>1. /\ scanned \in Nat /\ Len(pending) \in Nat /\ scanned < Len(pending)
    BY <1>1, FileTypes DEF KeepWaiting, Releasing, FileTypeOK
  <2> QED
    BY <2>1 DEF KeepWaiting
<1>4. pc \notin {"segment", "path", "flush"}
  <2>1. ~(pending[scanned + 1].remaining = 0)
    BY <1>3
  <2> QED
    BY <1>1, <1>3, <2>1 DEF PlacesInv
<1>5. FileTypeOK'
  BY <1>1, <1>2 DEF FileTypeOK, Lines
<1>6. PlacesInv'
  <2>1. pc = "match" => ~(match > 0)
    BY <1>1 DEF PlacesInv, KeepWaiting
  <2> QED
    BY <1>1, <1>2, <1>4, <2>1 DEF PlacesInv, Opens, Text
<1>7. QueueInv'
  <2>1. \A i \in 1..Len(pending) : i <= scanned + 1 => i <= scanned \/ i = scanned + 1
    BY <1>3
  <2> QED
    BY <1>1, <1>2, <1>3, <2>1 DEF QueueInv
<1> QED
  BY <1>1, <1>2, <1>5, <1>6, <1>7
  DEF FileInvariant, OrderInv, CountInv, BeforeInv, ContextInv, Opens, Text

-----------------------------------------------------------------------------
(* The next line: what waits for the lines of this segment has all that    *)
(* the segment has when the line opens another.                            *)
LEMMA NextLineStep == ASSUME FileInvariant, NextLine PROVE FileInvariant'
<1>1. /\ FileTypeOK /\ PlacesInv /\ QueueInv /\ OrderInv /\ CountInv /\ BeforeInv
      /\ ContextInv
  BY DEF FileInvariant
<1>2. /\ pc = "read" /\ line' = line + 1 /\ match' = 0 /\ scanned' = 0
      /\ line < Lines
      /\ UNCHANGED <<searched, previousContext, fileMatches, published, flags>>
      /\ \/ Opens(line + 1) /\ pc' = "segment" /\ pending' = AllReady
         \/ ~Opens(line + 1) /\ pc' = "context" /\ pending' = pending
  BY DEF NextLine, givenVars, outputVars, OpensSegment, Opens
<1>3. /\ searched.contextAfter \in Nat /\ Lines \in Nat /\ line \in Nat /\ line <= Lines
      /\ line + 1 \in 0..Lines /\ line + 1 > 0 /\ line + 1 # 0 /\ (line + 1) - 1 = line
      /\ line + 1 # 1 \/ line = 0
  <2>1. Lines \in Nat /\ line \in Nat /\ searched.contextAfter \in Nat /\ line < Lines
    BY <1>1, <1>2, FileTypes
  <2> QED
    BY <2>1
<1>4. /\ pending' \in Seq(Waiting) /\ Len(pending') = Len(pending) /\ Len(pending) \in Nat
      /\ \A i \in 1..Len(pending) : pending'[i].result = pending[i].result
      /\ pc' = "segment" => \A i \in 1..Len(pending) : pending'[i].remaining = 0
      /\ QueueInv'
      /\ InOrder(published', pending') /\ AllReached(published', pending', line, match)
      /\ pending = <<>> => pending' = <<>>
  <2>1. CASE pending' = AllReady
    BY <1>2, <2>1, AllReadyStep
  <2>2. CASE pc' = "context" /\ pending' = pending
    <3>1. Len(pending) \in Nat /\ pending \in Seq(Waiting)
      BY <1>1, FileTypes DEF FileTypeOK
    <3>2. QueueInv'
      <4>1. \A i \in 1..Len(pending) : ~(i <= 0)
        BY <3>1
      <4> QED
        BY <1>1, <1>2, <2>2, <4>1 DEF QueueInv
    <3> QED
      BY <1>1, <1>2, <2>2, <3>1, <3>2 DEF OrderInv
  <2> QED
    BY <1>2, <2>1, <2>2
<1>5. FileTypeOK'
  <2>1. pc' \in Places /\ Lines' = Lines
    BY <1>2 DEF Places, Lines
  <2> QED
    BY <1>1, <1>2, <1>3, <1>4, <2>1 DEF FileTypeOK
<1>6. PlacesInv'
  BY <1>1, <1>2, <1>3, <1>4 DEF PlacesInv, Opens, Text
<1>7. OrderInv'
  <2>1. AllReached(published', pending', line', match')
    <3>1. ASSUME NEW r \in ResultRecord, Reached(r, line, match)
          PROVE  Reached(r, line + 1, 0)
      BY <1>1, <1>3, <3>1, ReachedFurther DEF FileTypeOK
    <3>2. /\ \A i \in 1..Len(published') : published'[i] \in ResultRecord
          /\ \A i \in 1..Len(pending') : pending'[i].result \in ResultRecord
      BY <1>1, <1>2, <1>4, FileTypes, EntryTypes
    <3> QED
      BY <1>2, <1>4, <3>1, <3>2 DEF AllReached
  <2> QED
    BY <1>4, <2>1 DEF OrderInv
<1>8. CountInv'
  <2>1. pc' # "done"
    BY <1>2
  <2> QED
    BY <1>1, <1>2, <1>4, <2>1 DEF CountInv
<1>9. BeforeInv'
  BY <1>1, <1>2, <1>3 DEF BeforeInv
<1>10. ContextInv'
  <2>1. (pc \in Over) = FALSE /\ (pc' \in Over) = FALSE
    BY <1>2 DEF Over
  <2>2. \A i \in 1..Len(published) : Surrounded(searched, published[i], line + 1, FALSE)
    BY <1>1, <2>1 DEF ContextInv, Surrounded
  <2>3. \A i \in 1..Len(pending) : pending[i].result.line # 0
    <3> SUFFICES ASSUME NEW i \in 1..Len(pending), pending[i].result.line = 0 PROVE FALSE
      OBVIOUS
    <3>1. line = 0
      BY <1>1 DEF ContextInv
    <3>2. pending = <<>>
      BY <1>1, <1>2, <3>1 DEF PlacesInv
    <3> QED
      BY <3>2
  <2>4. CASE pc' = "segment"
    <3>1. LastIn(searched, line)
      BY <1>2, <1>3, <2>4 DEF LastIn, OpensIn, TextIn, Opens, Text
    <3>2. \A i \in 1..Len(pending) : Surrounded(searched, pending[i].result, line, FALSE)
      BY <1>1, <1>2, <3>1, GrowingIsSurrounded
    <3>3. \A i \in 1..Len(pending') :
            Surrounded(searched, pending'[i].result, line + 1, FALSE)
      BY <1>4, <3>2 DEF Surrounded
    <3> QED
      BY <1>2, <1>4, <2>1, <2>2, <2>3, <2>4, <3>3 DEF ContextInv
  <2>5. CASE pc' = "context"
    <3>1. pending' = pending
      BY <1>2, <2>5
    <3>2. \A i \in 1..Len(pending) : Growing(searched, pending[i], line)
      BY <1>1, <1>2 DEF ContextInv
    <3> QED
      BY <1>2, <1>3, <2>1, <2>2, <2>3, <2>5, <3>1, <3>2 DEF ContextInv
  <2> QED
    BY <1>2, <2>4, <2>5
<1> QED
  BY <1>4, <1>5, <1>6, <1>7, <1>8, <1>9, <1>10 DEF FileInvariant

(* One line of context more for an entry that waits.                       *)
Grown(entry, l) ==
  [entry EXCEPT !.remaining = @ - 1, !.result.context = Append(@, l)]

LEMMA GrownEntry ==
  ASSUME NEW entry \in Waiting, NEW l \in Nat, NEW file, file.contextAfter \in Nat,
         Growing(file, entry, l - 1), ~OpensIn(file, l), entry.result.line # 0,
         entry.remaining # 0, NEW grown, grown = Grown(entry, l)
  PROVE  grown \in Waiting /\ grown.remaining = entry.remaining - 1
         /\ grown.result.line = entry.result.line /\ grown.result.match = entry.result.match
         /\ Growing(file, grown, l)
<1> DEFINE r == entry.result
           n == Len(r.context)
           c == Append(r.context, l)
           g == [r EXCEPT !.context = c]
<1>1. /\ r \in ResultRecord /\ entry.remaining \in Nat /\ r.line \in Nat
      /\ r.context \in Seq(Nat) /\ entry.remaining - 1 \in Nat
  BY EntryTypes
<1>2. /\ c \in Seq(Nat) /\ n \in Nat /\ Len(c) = n + 1
      /\ \A i \in 1..n : c[i] = r.context[i]
      /\ c[n + 1] = l
  BY <1>1, Appended
<1>3. grown = [result |-> g, remaining |-> entry.remaining - 1]
  BY DEF Grown, Waiting
<1> HIDE DEF c
<1>4. /\ g \in ResultRecord /\ g.line = r.line /\ g.match = r.match /\ g.before = r.before
      /\ g.context = c /\ g.emptied = r.emptied
  <2>1. r \in ResultRecord
    BY <1>1
  <2> HIDE DEF r
  <2> QED
    BY <1>2, <2>1 DEF ResultRecord
<1>5. /\ ~r.emptied /\ Carries(file, r) /\ CarriesBefore(file, r) /\ CarriesAfter(file, r)
      /\ entry.remaining = file.contextAfter - n
      /\ n < file.contextAfter => r.line + n = l - 1
  BY DEF Growing, Lacks, Carries
<1> HIDE DEF r, n, g
<1>6. n < file.contextAfter /\ r.line + (n + 1) = l /\ n + 1 <= file.contextAfter
      /\ entry.remaining - 1 = file.contextAfter - (n + 1)
  <2>1. \A left, wait, first \in Nat :
          left # 0 /\ left = wait - n /\ (n < wait => first + n = l - 1)
            => n < wait /\ first + (n + 1) = l /\ n + 1 <= wait /\ left - 1 = wait - (n + 1)
    BY <1>2
  <2> QED
    BY <1>1, <1>5, <2>1
<1>7. CarriesAfter(file, g)
  <2>1. r.context = [k \in 1..n |-> r.line + k] /\ \A k \in 1..n : ~OpensIn(file, r.line + k)
    BY <1>5 DEF CarriesAfter, n
  <2>2. \A k \in 1..(n + 1) : (k \in 1..n /\ c[k] = r.line + k) \/ (k = n + 1 /\ c[k] = r.line + k)
    BY <1>2, <1>6, <2>1
  <2>3. c = [k \in 1..(n + 1) |-> r.line + k]
    <3>1. c = [k \in 1..(n + 1) |-> c[k]]
      BY <1>2
    <3> QED
      BY <2>2, <3>1
  <2>4. \A k \in 1..(n + 1) : ~OpensIn(file, r.line + k)
    BY <1>2, <1>6, <2>1, <2>2
  <2> QED
    BY <1>2, <1>4, <1>6, <2>3, <2>4 DEF CarriesAfter
<1>8. CarriesBefore(file, g)
  BY <1>4, <1>5 DEF CarriesBefore
<1>9. grown.result = g /\ grown.remaining = entry.remaining - 1
  BY <1>3
<1>10. grown \in Waiting
  BY <1>1, <1>3, <1>4 DEF Waiting
<1>12. Lacks(file, grown, l)
  BY <1>2, <1>4, <1>6, <1>9 DEF Lacks
<1>11. g.line # 0
  BY <1>4 DEF r
<1> QED
  BY <1>4, <1>5, <1>7, <1>8, <1>9, <1>10, <1>11, <1>12 DEF Growing, Carries, r

(* The line is attached to what waits for it.                              *)
LEMMA WithContextEntries ==
  ASSUME FileInvariant, pc = "context", pending' = WithContext, NEW i \in 1..Len(pending)
  PROVE  /\ pending'[i] \in Waiting
         /\ pending'[i].result.line = pending[i].result.line
         /\ pending'[i].result.match = pending[i].result.match
         /\ pending'[i].remaining =
              IF pending[i].remaining = 0 THEN 0 ELSE pending[i].remaining - 1
         /\ pending[i].result.line # 0 /\ Growing(searched, pending'[i], line)
<1>1. FileTypeOK /\ PlacesInv /\ ContextInv
  BY DEF FileInvariant
<1>2. /\ pending[i] \in Waiting /\ line \in Nat /\ searched.contextAfter \in Nat
      /\ DOMAIN pending = 1..Len(pending) /\ line > 0 /\ line # 0
  BY <1>1, FileTypes DEF PlacesInv
<1>3. WithContext = [j \in DOMAIN pending |->
                       IF pending[j].remaining = 0 THEN pending[j] ELSE Grown(pending[j], line)]
  BY Zenon DEF WithContext, Grown
<1>4. pending'[i] = IF pending[i].remaining = 0 THEN pending[i] ELSE Grown(pending[i], line)
  BY <1>2, <1>3
<1>5. /\ pending[i].result.line # 0 /\ Growing(searched, pending[i], line - 1)
      /\ ~OpensIn(searched, line)
  BY <1>1, <1>2 DEF ContextInv, PlacesInv, Opens, Text, OpensIn, TextIn
<1>6. CASE pending[i].remaining = 0
  <2>1. Lacks(searched, pending[i], line)
    <3>1. /\ pending[i].result.context \in Seq(Nat)
          /\ pending[i].remaining = searched.contextAfter - Len(pending[i].result.context)
      BY <1>2, <1>5, EntryTypes DEF Growing, Lacks
    <3>2. Len(pending[i].result.context) \in Nat
      BY <3>1
    <3>3. ~(Len(pending[i].result.context) < searched.contextAfter)
      BY <1>2, <1>6, <3>1, <3>2
    <3> QED
      BY <3>1, <3>3 DEF Lacks
  <2> QED
    BY <1>2, <1>4, <1>5, <1>6, <2>1 DEF Growing
<1>7. CASE pending[i].remaining # 0
  BY <1>2, <1>4, <1>5, <1>7, GrownEntry
<1> QED
  BY <1>6, <1>7

LEMMA AttachContextStep == ASSUME FileInvariant, AttachContext PROVE FileInvariant'
<1>1. /\ FileTypeOK /\ PlacesInv /\ QueueInv /\ OrderInv /\ CountInv /\ BeforeInv
      /\ ContextInv
  BY DEF FileInvariant
<1>2. /\ pc \in {"segment", "context"}
      /\ pc = "segment" => ~Releasing
      /\ previousContext' = IF pc = "segment" THEN <<>> ELSE previousContext
      /\ scanned' = 0 /\ pending' = WithContext /\ pc' = "match"
      /\ UNCHANGED <<searched, line, match, fileMatches, published, flags>>
  BY DEF AttachContext, outputVars
<1>3. /\ line > 0 /\ line # 0 /\ match = 0 /\ line \in Nat /\ Len(pending) \in Nat
      /\ pending \in Seq(Waiting) /\ DOMAIN pending = 1..Len(pending)
      /\ pc = "segment" => Opens(line)
      /\ pc = "context" => ~Opens(line)
  BY <1>1, <1>2, FileTypes DEF PlacesInv, FileTypeOK
<1>4. pc = "segment" => Len(pending) = 0
  BY <1>1, <1>2, <1>3 DEF PlacesInv, Releasing
<1>5. Len(pending') = Len(pending) /\ pending' \in Seq(Waiting)
  <2>1. \A i \in 1..Len(pending) : pending'[i] \in Waiting
    BY <1>2, <1>3, <1>4, WithContextEntries
  <2>2. pending' = [i \in 1..Len(pending) |-> pending'[i]]
    BY <1>2, <1>3, Zenon DEF WithContext
  <2> QED
    BY <1>3, <2>1, <2>2
<1>6. \A i \in 1..Len(pending) :
        /\ pending'[i].result.line = pending[i].result.line
        /\ pending'[i].result.match = pending[i].result.match
        /\ pending'[i].remaining =
             IF pending[i].remaining = 0 THEN 0 ELSE pending[i].remaining - 1
        /\ pending[i].result.line # 0 /\ Growing(searched, pending'[i], line)
  BY <1>2, <1>3, <1>4, WithContextEntries
<1>7. FileTypeOK'
  <2>1. previousContext' \in Seq(Nat) /\ pc' \in Places /\ Lines' = Lines
    BY <1>1, <1>2 DEF FileTypeOK, Places, Lines
  <2> QED
    BY <1>1, <1>2, <1>5, <2>1 DEF FileTypeOK
<1>8. PlacesInv'
  <2>1. pending = <<>> => pending' = <<>>
    BY <1>3, <1>5, EmptyOnes
  <2> QED
    BY <1>1, <1>2, <1>3, <2>1 DEF PlacesInv
<1>9. QueueInv'
  <2>1. \A i \in 1..Len(pending) : pending[i].remaining \in Nat
    BY <1>1, FileTypes, EntryTypes
  <2>2. searched.contextAfter \in Nat
    BY <1>1, FileTypes
  <2>3. \A i, j \in 1..Len(pending) : i < j => pending'[i].remaining <= pending'[j].remaining
    <3> SUFFICES ASSUME NEW i \in 1..Len(pending), NEW j \in 1..Len(pending), i < j
                 PROVE  pending'[i].remaining <= pending'[j].remaining
      OBVIOUS
    <3>1. pending[i].remaining <= pending[j].remaining
      BY <1>1 DEF QueueInv, Queue
    <3> QED
      BY <1>6, <2>1, <3>1
  <2>4. \A i \in 1..Len(pending) : pending'[i].remaining <= searched.contextAfter
    <3> SUFFICES ASSUME NEW i \in 1..Len(pending)
                 PROVE  pending'[i].remaining <= searched.contextAfter
      OBVIOUS
    <3>1. pending[i].remaining <= searched.contextAfter
      BY <1>1 DEF QueueInv, Queue
    <3> QED
      BY <1>6, <2>1, <2>2, <3>1
  <2>5. \A i \in 1..Len(pending') : ~(i <= 0)
    BY <1>3, <1>5
  <2> QED
    BY <1>2, <1>5, <2>3, <2>4, <2>5 DEF QueueInv, Queue
<1>10. OrderInv'
  <2>1. SameResults(pending, pending')
    BY <1>5, <1>6 DEF SameResults
  <2>2. published \in Seq(ResultRecord)
    BY <1>1 DEF FileTypeOK
  <2> QED
    BY <1>1, <1>2, <1>3, <1>5, <2>1, <2>2, OrderOfSame DEF OrderInv
<1>11. CountInv'
  <2>1. pc' # "done"
    BY <1>2
  <2> QED
    BY <1>1, <1>2, <1>5, <2>1 DEF CountInv
<1>12. BeforeInv'
  <2>1. KeptBefore(searched, <<>>, line - 1) \/ pc # "segment"
    <3> SUFFICES ASSUME pc = "segment" PROVE KeptBefore(searched, <<>>, line - 1)
      OBVIOUS
    <3>1. OpensIn(searched, line) /\ searched.contextBefore \in Nat
      BY <1>1, <1>3, FileTypes DEF Opens, Text, OpensIn, TextIn
    <3>2. line - 1 \in Nat /\ line - 1 - 0 + 1 = line /\ 1..0 = {}
          /\ (line - 1 - 0 + 2)..(line - 1) = {}
      BY <1>3
    <3>3. Len(<<>>) = 0 /\ <<>> = [k \in 1..0 |-> line - 1 - 0 + k]
      BY <3>2
    <3> QED
      BY <3>1, <3>2, <3>3 DEF KeptBefore, FirstIn
  <2>2. pc = "context" => KeptBefore(searched, previousContext, line - 1)
    BY <1>1 DEF BeforeInv
  <2> QED
    BY <1>2, <1>3, <2>1, <2>2 DEF BeforeInv, Opens, Text
<1>13. ContextInv'
  <2>1. (pc \in Over) = FALSE /\ (pc' \in Over) = FALSE
    BY <1>2 DEF Over
  <2> QED
    BY <1>1, <1>2, <1>5, <1>6, <2>1 DEF ContextInv
<1> QED
  BY <1>7, <1>8, <1>9, <1>10, <1>11, <1>12, <1>13 DEF FileInvariant

-----------------------------------------------------------------------------
(* A new result carries the lines directly before it.                      *)
LEMMA NewResult ==
  ASSUME FileInvariant, pc = "match", NEW r, r = Result(line, match + 1)
  PROVE  /\ r \in ResultRecord /\ r.line = line /\ r.match = match + 1
         /\ r.context = <<>> /\ ~r.emptied
         /\ Carries(searched, r)
<1>1. /\ FileTypeOK /\ BeforeInv
  BY DEF FileInvariant
<1>2. /\ line \in Nat /\ match \in Nat /\ match + 1 \in Nat /\ previousContext \in Seq(Nat)
      /\ <<>> \in Seq(Nat) /\ Len(previousContext) \in Nat
      /\ searched.contextBefore \in Nat /\ searched.contextAfter \in Nat
  <2>1. line \in Nat /\ searched.contextBefore \in Nat /\ searched.contextAfter \in Nat
    BY <1>1, FileTypes
  <2>2. match \in Nat /\ previousContext \in Seq(Nat)
    BY <1>1 DEF FileTypeOK
  <2> QED
    BY <2>1, <2>2
<1>3. /\ r \in ResultRecord /\ r.line = line /\ r.match = match + 1
      /\ r.before = previousContext /\ r.context = <<>> /\ r.emptied = FALSE
  BY <1>2 DEF Result, ResultRecord
<1>4. CASE line = 0
  <2>1. previousContext = <<>>
    BY <1>1, <1>4 DEF BeforeInv
  <2> QED
    BY <1>3, <1>4, <2>1 DEF Carries
<1>5. CASE line # 0
  <2> DEFINE n == Len(previousContext)
  <2>1. line > 0 /\ n \in Nat
    BY <1>2, <1>5
  <2>2. /\ KeptBefore(searched, previousContext, line - 1)
        /\ previousContext # <<>> => ~Opens(line)
    BY <1>1, <2>1 DEF BeforeInv
  <2>3. /\ previousContext = [k \in 1..n |-> line - 1 - n + k]
        /\ \A k \in (line - 1 - n + 2)..(line - 1) : ~OpensIn(searched, k)
        /\ n < searched.contextBefore => FirstIn(searched, line - 1 - n + 1)
    BY <2>2 DEF KeptBefore
  <2>4. n # 0 => ~OpensIn(searched, line)
    BY <2>2 DEF Opens, Text, OpensIn, TextIn
  <2> HIDE DEF n
  <2>5. CarriesBefore(searched, r)
    <3>1. line - 1 - n + 1 = line - n /\ \A k \in 1..n : line - 1 - n + k = line - n - 1 + k
      BY <1>2, <2>1
    <3>2. previousContext = [k \in 1..n |-> line - n - 1 + k]
      BY <2>3, <3>1
    <3>3. ASSUME NEW k \in (line - n + 1)..line PROVE ~OpensIn(searched, k)
      <4>1. k \in (line - 1 - n + 2)..(line - 1) \/ (k = line /\ n # 0)
        BY <1>2, <2>1
      <4> QED
        BY <2>3, <2>4, <4>1
    <3>4. n < searched.contextBefore => FirstIn(searched, line - n)
      BY <2>3, <3>1
    <3>5. Len(r.before) = n /\ r.before = previousContext /\ r.line = line
      BY <1>3 DEF n
    <3> QED
      BY <3>2, <3>3, <3>4, <3>5 DEF CarriesBefore
  <2>6. CarriesAfter(searched, r)
    <3>1. 1..0 = {} /\ 0 <= searched.contextAfter
      BY <1>2
    <3>2. Len(<<>>) = 0 /\ <<>> = [k \in 1..0 |-> line + k]
      BY <3>1
    <3> QED
      BY <1>3, <3>1, <3>2 DEF CarriesAfter
  <2> QED
    BY <1>3, <1>5, <2>5, <2>6 DEF Carries
<1> QED
  BY <1>3, <1>4, <1>5

(* It comes after all that was found before it.                            *)
LEMMA NewResultOrder ==
  ASSUME FileInvariant, pc = "match", NEW r, r = Result(line, match + 1)
  PROVE  /\ \A i \in 1..Len(published) :
              PublishedBefore(published[i], r) /\ Reached(published[i], line, match + 1)
         /\ \A i \in 1..Len(pending) :
              /\ PublishedBefore(pending[i].result, r)
              /\ Reached(pending[i].result, line, match + 1)
         /\ Reached(r, line, match + 1)
<1>1. /\ FileTypeOK /\ OrderInv
  BY DEF FileInvariant
<1>2. /\ line \in Nat /\ match \in Nat
      /\ \A i \in 1..Len(published) : published[i] \in ResultRecord
      /\ \A i \in 1..Len(pending) : pending[i].result \in ResultRecord
  BY <1>1, FileTypes, EntryTypes DEF FileTypeOK
<1>3. r.line = line /\ r.match = match + 1
  BY NewResult
<1>4. ASSUME NEW old \in ResultRecord, Reached(old, line, match)
      PROVE  PublishedBefore(old, r) /\ Reached(old, line, match + 1)
  BY <1>2, <1>3, <1>4, BeforeAndReached, ReachedFurther
<1>5. Reached(r, line, match + 1)
  BY <1>2, <1>3 DEF Reached
<1> QED
  BY <1>1, <1>2, <1>4, <1>5 DEF OrderInv, AllReached

(* A match within the limits, with no context after it to wait for: the    *)
(* sink takes it ...                                                       *)
LEMMA MatchTakenStep ==
  ASSUME FileInvariant, PublishMatch, searched.contextAfter = 0,
         Take(Result(line, match + 1)), NextMatch
  PROVE  FileInvariant'
<1>1. /\ FileTypeOK /\ PlacesInv /\ QueueInv /\ OrderInv /\ CountInv /\ BeforeInv
      /\ ContextInv
  BY DEF FileInvariant
<1> DEFINE r == Result(line, match + 1)
<1>2. /\ pc = "match" /\ match' = match + 1 /\ fileMatches' = fileMatches + 1
      /\ published' = Append(published, r) /\ fileMatches < ResultLimit
      /\ match = 0 => ~Releasing
      /\ UNCHANGED <<searched, previousContext, line, pending, scanned, pc, flags>>
  BY DEF PublishMatch, AtMatch, WithinLimits, Take, NextMatch, givenVars
<1>3. /\ r \in ResultRecord /\ r.line = line /\ r.match = match + 1
      /\ r.context = <<>> /\ ~r.emptied /\ Carries(searched, r)
  BY <1>2, NewResult
<1>4. /\ \A i \in 1..Len(published) :
           PublishedBefore(published[i], r) /\ Reached(published[i], line, match + 1)
      /\ Reached(r, line, match + 1)
  BY <1>2, NewResultOrder
<1> HIDE DEF r
<1>5. pending = <<>> /\ Len(pending) = 0
  BY <1>1 DEF PlacesInv
<1>6. published \in Seq(ResultRecord) /\ match \in Nat /\ fileMatches \in Nat
  BY <1>1 DEF FileTypeOK
<1>7. /\ published' \in Seq(ResultRecord) /\ Len(published) \in Nat
      /\ Len(published') = Len(published) + 1
      /\ \A i \in 1..Len(published') :
           \/ i \in 1..Len(published) /\ published'[i] = published[i]
           \/ i = Len(published) + 1 /\ published'[i] = r
  BY <1>2, <1>3, <1>6, Appended
<1>8. FileTypeOK'
  BY <1>1, <1>2, <1>6, <1>7 DEF FileTypeOK, Lines
<1>9. PlacesInv'
  <2>1. ~Releasing
    BY <1>1, <1>5 DEF Releasing, FileTypeOK
  <2> QED
    BY <1>1, <1>2, <1>5, <2>1 DEF PlacesInv, Releasing
<1>10. QueueInv'
  BY <1>1, <1>2 DEF QueueInv
<1>11. OrderInv'
  <2>1. ASSUME NEW i \in 1..Len(published'), NEW j \in 1..Len(published'), i < j
        PROVE  PublishedBefore(published'[i], published'[j])
    <3>1. i \in 1..Len(published) /\ published'[i] = published[i]
      BY <1>7, <2>1
    <3> QED
      BY <1>1, <1>4, <1>7, <2>1, <3>1 DEF OrderInv, InOrder
  <2>2. \A i \in 1..Len(published') : Reached(published'[i], line, match + 1)
    BY <1>4, <1>7
  <2>3. 1..Len(pending') = {}
    BY <1>2, <1>5
  <2>4. line' = line /\ match' = match + 1
    BY <1>2
  <2> QED
    BY <2>1, <2>2, <2>3, <2>4 DEF OrderInv, InOrder, AllReached
<1>12. CountInv'
  <2>1. /\ Len(published) + Len(pending) <= fileMatches /\ fileMatches <= ResultLimit
        /\ "refused" \notin flags /\ "memoryLimitReached" \notin flags =>
             Len(published) + Len(pending) = fileMatches
    BY <1>1 DEF CountInv
  <2>2. \A p, q, n \in Nat : p + q <= n => (p + 1) + q <= n + 1
    OBVIOUS
  <2>3. ResultLimit \in Nat
    BY InputAssumption
  <2>4. /\ (Len(published) + 1) + Len(pending) <= fileMatches + 1
        /\ fileMatches + 1 <= ResultLimit
        /\ Len(published) + Len(pending) = fileMatches
             => (Len(published) + 1) + Len(pending) = fileMatches + 1
    BY <1>2, <1>5, <1>6, <1>7, <2>1, <2>2, <2>3
  <2> QED
    BY <1>2, <1>7, <2>1, <2>4 DEF CountInv
<1>13. BeforeInv'
  BY <1>1, <1>2 DEF BeforeInv, Opens, Text
<1>14. ContextInv'
  <2>1. Surrounded(searched, r, line, pc \in Over)
    <3>1. Len(<<>>) = 0
      OBVIOUS
    <3> QED
      BY <1>3, <3>1 DEF Surrounded, Complete
  <2>2. \A i \in 1..Len(published') : Surrounded(searched, published'[i], line, pc \in Over)
    BY <1>1, <1>7, <2>1 DEF ContextInv
  <2> QED
    BY <1>1, <1>2, <2>2 DEF ContextInv
<1> QED
  BY <1>8, <1>9, <1>10, <1>11, <1>12, <1>13, <1>14 DEF FileInvariant

(* ... or refuses it, which ends the reading. *)
LEMMA MatchRefusedStep ==
  ASSUME FileInvariant, PublishMatch, searched.contextAfter = 0,
         Refuse(Result(line, match + 1)), StopSearch
  PROVE  FileInvariant'
<1>1. /\ FileTypeOK /\ PlacesInv /\ CountInv
  BY DEF FileInvariant
<1>2. /\ pc = "match" /\ match' = match + 1 /\ fileMatches' = fileMatches + 1
      /\ fileMatches < ResultLimit /\ pc' = "flush" /\ pending' = AllReady /\ scanned' = 0
      /\ UNCHANGED <<searched, previousContext, line, published>>
  BY DEF PublishMatch, AtMatch, WithinLimits, Refuse, StopSearch, StopReading, givenVars
<1>3. /\ match \in Nat /\ fileMatches \in Nat /\ Len(published) \in Nat /\ ResultLimit \in Nat
      /\ pending = <<>> /\ Len(pending) = 0
  BY <1>1, FileTypes, InputAssumption DEF FileTypeOK, PlacesInv
<1>4. /\ match' \in Nat /\ match <= match' /\ fileMatches' \in Nat
      /\ fileMatches' <= ResultLimit
  BY <1>2, <1>3
<1>5. Len(published) <= fileMatches /\ Len(published) < ResultLimit
  BY <1>1, <1>2, <1>3 DEF CountInv
<1>6. \/ flags' = flags \cup {"memoryLimitReached"}
      \/ flags' = flags \cup {"refused"}
  <2>1. \/ Len(published) >= ResultLimit
        \/ flags' = flags \cup {"memoryLimitReached"} \/ flags' = flags \cup {"refused"}
    BY DEF Refuse
  <2>2. ~(Len(published) >= ResultLimit)
    BY <1>3, <1>5
  <2> QED
    BY <2>1, <2>2
<1>7. Len(pending') = 0
  BY <1>1, <1>2, <1>3, AllReadyEntries
<1>8. CountInv'
  <2>1. Len(published') + Len(pending') <= fileMatches'
    BY <1>2, <1>3, <1>5, <1>7
  <2> QED
    BY <1>4, <1>6, <2>1 DEF CountInv
<1> QED
  BY <1>2, <1>4, <1>8, StopReadingStep

(* One that waits for context joins the queue at its end.                  *)
LEMMA MatchHeldStep ==
  ASSUME FileInvariant, PublishMatch, searched.contextAfter > 0,
         NEW entry, entry = [result |-> Result(line, match + 1),
                             remaining |-> searched.contextAfter],
         pending' = Append(pending, entry), scanned' = Len(pending'),
         UNCHANGED <<pc, stopped, stop, outputVars>>
  PROVE  FileInvariant'
<1>1. /\ FileTypeOK /\ PlacesInv /\ QueueInv /\ OrderInv /\ CountInv /\ BeforeInv
      /\ ContextInv
  BY DEF FileInvariant
<1> DEFINE r == Result(line, match + 1)
<1>2. /\ pc = "match" /\ match' = match + 1 /\ fileMatches' = fileMatches + 1
      /\ fileMatches < ResultLimit
      /\ match = 0 => ~Releasing
      /\ UNCHANGED <<searched, previousContext, line, pc, published, flags>>
  BY DEF PublishMatch, AtMatch, WithinLimits, givenVars, outputVars
<1>3. /\ r \in ResultRecord /\ r.line = line /\ r.match = match + 1
      /\ r.context = <<>> /\ ~r.emptied /\ Carries(searched, r)
  BY <1>2, NewResult
<1>4. /\ \A i \in 1..Len(published) :
           PublishedBefore(published[i], r) /\ Reached(published[i], line, match + 1)
      /\ \A i \in 1..Len(pending) :
           PublishedBefore(pending[i].result, r) /\ Reached(pending[i].result, line, match + 1)
      /\ Reached(r, line, match + 1)
  BY <1>2, NewResultOrder
<1>5. entry = [result |-> r, remaining |-> searched.contextAfter]
  OBVIOUS
<1> HIDE DEF r
<1>6. /\ pending \in Seq(Waiting) /\ Len(pending) \in Nat /\ Len(published) \in Nat
      /\ match \in Nat /\ fileMatches \in Nat /\ scanned \in Nat /\ line \in Nat
      /\ searched.contextAfter \in Nat
      /\ \A i \in 1..Len(pending) : pending[i].remaining \in Nat
  BY <1>1, FileTypes, EntryTypes DEF FileTypeOK
<1>7. entry \in Waiting /\ entry.result = r /\ entry.remaining = searched.contextAfter
  BY <1>3, <1>5, <1>6 DEF Waiting
<1>8. /\ pending' \in Seq(Waiting) /\ Len(pending') = Len(pending) + 1
      /\ \A i \in 1..Len(pending') :
           \/ i \in 1..Len(pending) /\ pending'[i] = pending[i]
           \/ i = Len(pending) + 1 /\ pending'[i] = entry
  BY <1>6, <1>7, Appended
<1>9. FileTypeOK'
  <2>1. scanned' \in Nat /\ match' \in Nat /\ fileMatches' \in Nat
    BY <1>2, <1>6, <1>8
  <2> QED
    BY <1>1, <1>2, <1>8, <2>1 DEF FileTypeOK, Lines
<1>10. PlacesInv'
  <2>1. ~(scanned' < Len(pending')) /\ searched.contextAfter # 0
    BY <1>6, <1>8
  <2> QED
    BY <1>1, <1>2, <2>1 DEF PlacesInv, Releasing
<1>11. QueueInv'
  <2>1. \A i \in 1..Len(pending) : pending[i].remaining > 0
    <3>1. ~Releasing
      <4>1. match = 0 \/ match > 0
        BY <1>6
      <4> QED
        BY <1>1, <1>2, <4>1 DEF PlacesInv
    <3>2. \A i \in 1..Len(pending) : i <= scanned
      BY <1>6, <3>1 DEF Releasing
    <3> QED
      BY <1>1, <3>2 DEF QueueInv
  <2>2. \A i \in 1..Len(pending) : pending[i].remaining <= searched.contextAfter
    BY <1>1 DEF QueueInv, Queue
  <2>3. \A i \in 1..Len(pending') :
          pending'[i].remaining > 0 /\ pending'[i].remaining <= searched.contextAfter
    BY <1>6, <1>7, <1>8, <2>1, <2>2
  <2>4. ASSUME NEW i \in 1..Len(pending'), NEW j \in 1..Len(pending'), i < j
        PROVE  pending'[i].remaining <= pending'[j].remaining
    <3>1. i \in 1..Len(pending) /\ pending'[i] = pending[i]
      BY <1>6, <1>8, <2>4
    <3>2. CASE j \in 1..Len(pending) /\ pending'[j] = pending[j]
      BY <1>1, <2>4, <3>1, <3>2 DEF QueueInv, Queue
    <3>3. CASE pending'[j] = entry
      BY <1>7, <2>2, <3>1, <3>3
    <3> QED
      BY <1>8, <3>2, <3>3
  <2> QED
    BY <1>2, <2>3, <2>4 DEF QueueInv, Queue
<1>12. OrderInv'
  <2>1. ASSUME NEW i \in 1..Len(pending'), NEW j \in 1..Len(pending'), i < j
        PROVE  PublishedBefore(pending'[i].result, pending'[j].result)
    <3>1. i \in 1..Len(pending) /\ pending'[i] = pending[i]
      BY <1>6, <1>8, <2>1
    <3> QED
      BY <1>1, <1>4, <1>7, <1>8, <2>1, <3>1 DEF OrderInv, InOrder
  <2>2. \A i \in 1..Len(published), j \in 1..Len(pending') :
          PublishedBefore(published[i], pending'[j].result)
    BY <1>1, <1>4, <1>7, <1>8 DEF OrderInv, InOrder
  <2>3. \A i \in 1..Len(pending') : Reached(pending'[i].result, line, match + 1)
    BY <1>4, <1>7, <1>8
  <2>4. line' = line /\ match' = match + 1 /\ published' = published
    BY <1>2
  <2> QED
    BY <1>1, <1>4, <2>1, <2>2, <2>3, <2>4 DEF OrderInv, InOrder, AllReached
<1>13. CountInv'
  <2>1. /\ Len(published) + Len(pending) <= fileMatches /\ fileMatches <= ResultLimit
        /\ "refused" \notin flags /\ "memoryLimitReached" \notin flags =>
             Len(published) + Len(pending) = fileMatches
    BY <1>1 DEF CountInv
  <2>2. \A p, q, n \in Nat :
          /\ p + q <= n => p + (q + 1) <= n + 1
          /\ p + q = n => p + (q + 1) = n + 1
    OBVIOUS
  <2>3. ResultLimit \in Nat
    BY InputAssumption
  <2>4. /\ Len(published) + (Len(pending) + 1) <= fileMatches + 1
        /\ fileMatches + 1 <= ResultLimit
        /\ Len(published) + Len(pending) = fileMatches
             => Len(published) + (Len(pending) + 1) = fileMatches + 1
    BY <1>2, <1>6, <2>1, <2>2, <2>3
  <2> QED
    BY <1>2, <1>8, <2>1, <2>4 DEF CountInv
<1>14. BeforeInv'
  BY <1>1, <1>2 DEF BeforeInv, Opens, Text
<1>15. ContextInv'
  <2>1. Growing(searched, entry, line)
    <3>1. Len(<<>>) = 0 /\ searched.contextAfter - 0 = searched.contextAfter
          /\ line + 0 = line
      BY <1>6
    <3>2. Lacks(searched, entry, line)
      BY <1>3, <1>7, <3>1 DEF Lacks
    <3> QED
      BY <1>3, <1>7, <3>2 DEF Growing
  <2>2. \A i \in 1..Len(pending') :
          /\ Growing(searched, pending'[i], line)
          /\ pending'[i].result.line = 0 => line = 0
    BY <1>1, <1>2, <1>3, <1>7, <1>8, <2>1 DEF ContextInv
  <2> QED
    BY <1>1, <1>2, <2>2 DEF ContextInv
<1> QED
  BY <1>9, <1>10, <1>11, <1>12, <1>13, <1>14, <1>15 DEF FileInvariant

LEMMA PublishMatchStep == ASSUME FileInvariant, PublishMatch PROVE FileInvariant'
<1>1. CASE searched.contextAfter = 0 /\ Take(Result(line, match + 1)) /\ NextMatch
  BY <1>1, MatchTakenStep
<1>2. CASE searched.contextAfter = 0 /\ Refuse(Result(line, match + 1)) /\ StopSearch
  BY <1>2, MatchRefusedStep
<1>3. CASE /\ searched.contextAfter > 0
           /\ pending' = Append(pending, [result |-> Result(line, match + 1),
                                          remaining |-> searched.contextAfter])
           /\ scanned' = Len(pending')
           /\ UNCHANGED <<pc, stopped, stop, outputVars>>
  BY <1>3, MatchHeldStep
<1> QED
  BY <1>1, <1>2, <1>3 DEF PublishMatch

-----------------------------------------------------------------------------
(* The last lines before the next one: the line itself, and what was kept. *)
LEMMA KeptWithLine ==
  ASSUME FileTypeOK, line > 0, KeptBefore(searched, previousContext, line - 1),
         previousContext # <<>> => ~OpensIn(searched, line)
  PROVE  WithLine \in Seq(Nat) /\ KeptBefore(searched, WithLine, line)
<1> DEFINE n == Len(previousContext)
           all == Append(previousContext, line)
           wanted == searched.contextBefore
           kept == IF n + 1 <= wanted THEN n + 1 ELSE wanted
           after == SubSeq(all, (n + 1) - kept + 1, n + 1)
<1>1. /\ line \in Nat /\ wanted \in Nat /\ previousContext \in Seq(Nat) /\ n \in Nat
  BY FileTypes DEF FileTypeOK
<1>2. /\ all \in Seq(Nat) /\ Len(all) = n + 1
      /\ \A k \in 1..n : all[k] = previousContext[k]
      /\ all[n + 1] = line
  BY <1>1, Appended
<1>3. /\ n <= line - 1 /\ previousContext = [k \in 1..n |-> line - 1 - n + k]
      /\ \A k \in (line - 1 - n + 2)..(line - 1) : ~OpensIn(searched, k)
      /\ n < wanted => FirstIn(searched, line - 1 - n + 1)
      /\ n # 0 => ~OpensIn(searched, line)
  <2>1. n # 0 => previousContext # <<>>
    BY <1>1, EmptyOnes
  <2> QED
    BY <2>1 DEF KeptBefore
<1>4. Min({Len(all), wanted}) = kept
  BY <1>1, <1>2, SmallerOf
<1>5. WithLine = after
  BY <1>2, <1>4 DEF WithLine
<1> HIDE DEF n, all, wanted
<1>6. /\ kept \in Nat /\ kept <= n + 1 /\ kept <= wanted /\ kept <= line
      /\ kept < wanted => kept = n + 1
      /\ (n + 1) - kept + 1 \in 1..(n + 2)
  BY <1>1, <1>3
<1> HIDE DEF kept
<1>7. \A k \in 1..(n + 1) : all[k] = line - 1 - n + k
  <2> SUFFICES ASSUME NEW k \in 1..(n + 1) PROVE all[k] = line - 1 - n + k
    OBVIOUS
  <2>1. k \in 1..n \/ k = n + 1
    BY <1>1
  <2>2. k \in 1..n => previousContext[k] = line - 1 - n + k
    BY <1>3
  <2>3. line - 1 - n + (n + 1) = line
    BY <1>1
  <2> QED
    BY <1>2, <2>1, <2>2, <2>3
<1>8. /\ after \in Seq(Nat) /\ Len(after) = kept
      /\ \A k \in 1..kept : after[k] = line - kept + k
  <2> DEFINE from == (n + 1) - kept + 1
  <2>1. /\ from \in 1..(n + 2) /\ n + 1 \in Nat
        /\ (n + 1) - from + 1 = kept
        /\ from <= n + 1 <=> kept > 0
        /\ \A k \in 1..kept : from + k - 1 \in 1..(n + 1)
                                /\ line - 1 - n + (from + k - 1) = line - kept + k
    BY <1>1, <1>6
  <2>2. after = SubSeq(all, from, n + 1)
    OBVIOUS
  <2> HIDE DEF from, after
  <2>3. from \in Int /\ n + 1 \in Int /\ \A k \in from..(n + 1) : all[k] \in Nat
    <3>1. \A k \in from..(n + 1) : k \in 1..(n + 1)
      BY <1>1, <2>1
    <3>2. \A k \in 1..(n + 1) : all[k] \in Nat
      BY <1>2
    <3> QED
      BY <2>1, <3>1, <3>2
  <2>4. /\ after \in Seq(Nat)
        /\ Len(after) = IF from <= n + 1 THEN (n + 1) - from + 1 ELSE 0
        /\ \A k \in 1..((n + 1) - from + 1) : after[k] = all[from + k - 1]
    BY <2>2, <2>3, SubSeqProperties
  <2>5. Len(after) = kept
    BY <1>6, <2>1, <2>4
  <2>6. \A k \in 1..kept : after[k] = line - kept + k
    BY <1>7, <2>1, <2>4
  <2> QED
    BY <2>4, <2>5, <2>6
<1> HIDE DEF after
<1>9. after = [k \in 1..kept |-> line - kept + k]
  <2>1. after = [k \in 1..kept |-> after[k]]
    BY <1>8
  <2> QED
    BY <1>8, <2>1
<1>10. \A k \in (line - kept + 2)..line : ~OpensIn(searched, k)
  <2> SUFFICES ASSUME NEW k \in (line - kept + 2)..line PROVE ~OpensIn(searched, k)
    OBVIOUS
  <2>1. k \in (line - 1 - n + 2)..(line - 1) \/ (k = line /\ n # 0)
    BY <1>1, <1>6
  <2> QED
    BY <1>3, <2>1
<1>11. kept < wanted => FirstIn(searched, line - kept + 1)
  <2> SUFFICES ASSUME kept < wanted PROVE FirstIn(searched, line - kept + 1)
    OBVIOUS
  <2>1. n < wanted /\ line - 1 - n + 1 = line - kept + 1
    BY <1>1, <1>6
  <2> QED
    BY <1>3, <2>1
<1> QED
  BY <1>5, <1>6, <1>8, <1>9, <1>10, <1>11 DEF KeptBefore, wanted

LEMMA LineDoneStep == ASSUME FileInvariant, LineDone PROVE FileInvariant'
<1>1. /\ FileTypeOK /\ PlacesInv /\ QueueInv /\ OrderInv /\ CountInv /\ BeforeInv
      /\ ContextInv
  BY DEF FileInvariant
<1>2. /\ pc = "match" /\ line > 0 /\ previousContext' = WithLine /\ pc' = "read"
      /\ UNCHANGED <<searched, line, match, pending, scanned, fileMatches, published, flags>>
  BY DEF LineDone, AtMatch, outputVars
<1>3. line # 0
  BY <1>1, <1>2, FileTypes
<1>4. previousContext' \in Seq(Nat) /\ KeptBefore(searched, previousContext', line)
  BY <1>1, <1>2, KeptWithLine DEF BeforeInv, Opens, Text, OpensIn, TextIn
<1>5. FileTypeOK'
  BY <1>1, <1>2, <1>4 DEF FileTypeOK, Lines, Places
<1>6. PlacesInv'
  BY <1>1, <1>2, <1>3 DEF PlacesInv
<1>7. QueueInv' /\ OrderInv' /\ BeforeInv'
  BY <1>1, <1>2, <1>4 DEF QueueInv, OrderInv, BeforeInv
<1>8. CountInv'
  BY <1>1, <1>2 DEF CountInv
<1>9. ContextInv'
  BY <1>1, <1>2 DEF ContextInv, Over
<1> QED
  BY <1>5, <1>6, <1>7, <1>8, <1>9 DEF FileInvariant

(* The results of the path wait for nothing. *)
LEMMA PathDoneStep == ASSUME FileInvariant, PathDone PROVE FileInvariant'
<1>1. /\ FileTypeOK /\ PlacesInv /\ QueueInv /\ OrderInv /\ CountInv /\ BeforeInv
      /\ ContextInv
  BY DEF FileInvariant
<1>2. /\ pc = "match" /\ line = 0 /\ pc' = "path" /\ pending' = AllReady /\ scanned' = 0
      /\ UNCHANGED <<searched, previousContext, line, match, fileMatches, published, flags>>
  BY DEF PathDone, AtMatch, givenVars, outputVars
<1>3. /\ pending' \in Seq(Waiting) /\ Len(pending') = Len(pending) /\ Len(pending) \in Nat
      /\ \A i \in 1..Len(pending) :
           pending'[i].remaining = 0 /\ pending'[i].result = pending[i].result
      /\ QueueInv'
      /\ InOrder(published', pending') /\ AllReached(published', pending', line, match)
      /\ pending = <<>> => pending' = <<>>
  BY <1>2, AllReadyStep
<1>4. FileTypeOK'
  BY <1>1, <1>2, <1>3 DEF FileTypeOK, Lines, Places
<1>5. PlacesInv'
  BY <1>1, <1>2, <1>3 DEF PlacesInv
<1>6. OrderInv'
  BY <1>2, <1>3 DEF OrderInv
<1>7. CountInv'
  BY <1>1, <1>2, <1>3 DEF CountInv
<1>8. BeforeInv'
  BY <1>1, <1>2 DEF BeforeInv
<1>9. ContextInv'
  <2>1. \A i \in 1..Len(pending) : pending[i].result.line = 0
    <3> SUFFICES ASSUME NEW i \in 1..Len(pending) PROVE pending[i].result.line = 0
      OBVIOUS
    <3>1. pending[i].result.line \in Nat
      BY <1>1, FileTypes, EntryTypes
    <3>2. Reached(pending[i].result, 0, match)
      BY <1>1, <1>2 DEF OrderInv, AllReached
    <3> QED
      BY <3>1, <3>2 DEF Reached
  <2>2. \A i \in 1..Len(pending) : Surrounded(searched, pending[i].result, line, FALSE)
    BY <1>1, <1>2, <2>1, GrowingIsSurrounded
  <2>3. (pc \in Over) = FALSE /\ (pc' \in Over) = FALSE
    BY <1>2 DEF Over
  <2>4. \A i \in 1..Len(published) : Surrounded(searched, published[i], line, FALSE)
    BY <1>1, <2>3 DEF ContextInv
  <2> QED
    BY <1>2, <1>3, <2>2, <2>3, <2>4 DEF ContextInv
<1> QED
  BY <1>3, <1>4, <1>5, <1>6, <1>7, <1>8, <1>9 DEF FileInvariant

(* A flush that released all it was given. *)
LEMMA FlushedStep ==
  ASSUME FileInvariant, pc \in {"path", "flush"}, ~Releasing,
         pc' = "done" \/ (pc = "path" /\ pc' = "read"),
         flags \subseteq flags',
         UNCHANGED <<searched, previousContext, line, match, pending, scanned, fileMatches,
                     published>>
  PROVE  FileInvariant'
<1>1. /\ FileTypeOK /\ PlacesInv /\ QueueInv /\ OrderInv /\ CountInv /\ BeforeInv
      /\ ContextInv
  BY DEF FileInvariant
<1>2. pending \in Seq(Waiting) /\ Len(pending) \in Nat /\ line \in Nat
  BY <1>1, FileTypes DEF FileTypeOK
<1>3. Len(pending) = 0 /\ pending = <<>> /\ 1..Len(pending) = {}
  <2>1. scanned = 0
    BY <1>1 DEF PlacesInv
  <2>2. Len(pending) = 0
    BY <1>2, <2>1 DEF Releasing
  <2> QED
    BY <1>2, <2>2, EmptyOnes
<1>4. FileTypeOK'
  BY <1>1 DEF FileTypeOK, Lines, Places
<1>5. PlacesInv'
  BY <1>1, <1>3 DEF PlacesInv
<1>6. QueueInv' /\ OrderInv'
  BY <1>1 DEF QueueInv, OrderInv
<1>7. CountInv'
  <2>1. "refused" \notin flags' /\ "memoryLimitReached" \notin flags'
           => "refused" \notin flags /\ "memoryLimitReached" \notin flags
    OBVIOUS
  <2> QED
    BY <1>1, <1>3, <2>1 DEF CountInv
<1>8. BeforeInv'
  <2>1. pc' = "read" => KeptBefore(searched, previousContext, line)
    <3> SUFFICES ASSUME pc' = "read" PROVE KeptBefore(searched, previousContext, line)
      OBVIOUS
    <3>1. line = 0 /\ previousContext = <<>> /\ searched.contextBefore \in Nat
      BY <1>1, FileTypes DEF PlacesInv, BeforeInv
    <3>2. 0 - 0 + 1 = 1 /\ 1..0 = {} /\ (0 - 0 + 2)..0 = {}
      OBVIOUS
    <3>3. Len(<<>>) = 0 /\ <<>> = [k \in 1..0 |-> 0 - 0 + k]
      BY <3>2
    <3> QED
      BY <3>1, <3>2, <3>3 DEF KeptBefore, FirstIn
  <2> QED
    BY <2>1 DEF BeforeInv
<1>9. ContextInv'
  <2>1. \A i \in 1..Len(published) : Surrounded(searched, published[i], line, pc' \in Over)
    BY <1>1 DEF ContextInv, Surrounded, Over
  <2> QED
    BY <1>3, <2>1 DEF ContextInv
<1> QED
  BY <1>4, <1>5, <1>6, <1>7, <1>8, <1>9 DEF FileInvariant

-----------------------------------------------------------------------------
(* What the invariant speaks of does not change.                           *)
LEMMA QuietStep ==
  ASSUME FileInvariant,
         UNCHANGED <<searched, pc, line, match, previousContext, pending, scanned,
                     fileMatches, published, flags>>
  PROVE  FileInvariant'
BY DEF FileInvariant, FileTypeOK, PlacesInv, QueueInv, OrderInv, CountInv, BeforeInv,
       ContextInv, Releasing, Lines, Opens, Text

LEMMA FileInitially == ASSUME Init PROVE FileInvariant
<1>1. PICK given \in SearchedFiles : FileInit(given)
  BY DEF Init
<1>2. /\ searched \in SearchedFiles /\ pc \in {"match", "read"} /\ line = 0 /\ match = 0
      /\ previousContext = <<>> /\ pending = <<>> /\ scanned = 0 /\ fileMatches = 0
      /\ published = <<>> /\ flags = {}
  BY <1>1 DEF FileInit
<1>3. /\ Lines \in Nat /\ searched.contextBefore \in Nat /\ searched.contextAfter \in Nat
  <2>1. searched \in [path : LineKinds, lines : Seq(LineKinds), readStatus : ReadStatuses,
                      target : {"content", "fileName", "contentAndFileName"},
                      contextBefore : Nat, contextAfter : Nat]
    BY <1>2, FileAssumption
  <2>2. searched.lines \in Seq(LineKinds)
    BY <2>1
  <2> QED
    BY <2>1, <2>2 DEF Lines
<1>4. /\ Len(pending) = 0 /\ Len(published) = 0 /\ 1..0 = {} /\ 0 + 0 = 0 /\ 0 <= 0
      /\ pending \in Seq(Waiting) /\ published \in Seq(ResultRecord)
      /\ previousContext \in Seq(Nat)
  BY <1>2
<1>5. FileTypeOK
  <2>1. pc \in Places /\ 0 \in 0..Lines
    BY <1>2, <1>3 DEF Places
  <2> QED
    BY <1>2, <1>4, <2>1 DEF FileTypeOK
<1>6. PlacesInv
  BY <1>2 DEF PlacesInv
<1>7. QueueInv /\ OrderInv
  BY <1>4 DEF QueueInv, Queue, OrderInv, InOrder, AllReached
<1>8. CountInv
  <2>1. 0 <= ResultLimit
    BY InputAssumption
  <2> QED
    BY <1>2, <1>4, <2>1 DEF CountInv
<1>9. BeforeInv
  <2>1. 0 - 0 + 1 = 1 /\ (0 - 0 + 2)..0 = {}
    OBVIOUS
  <2>2. Len(<<>>) = 0 /\ <<>> = [k \in 1..0 |-> 0 - 0 + k]
    BY <1>4
  <2>3. KeptBefore(searched, <<>>, 0)
    BY <1>3, <1>4, <2>1, <2>2 DEF KeptBefore, FirstIn
  <2> QED
    BY <1>2, <2>3 DEF BeforeInv
<1>10. ContextInv
  BY <1>4 DEF ContextInv
<1> QED
  BY <1>5, <1>6, <1>7, <1>8, <1>9, <1>10 DEF FileInvariant

LEMMA FileNext == FileInvariant /\ [Next]_vars => FileInvariant'
<1> SUFFICES ASSUME FileInvariant, [Next]_vars PROVE FileInvariant'
  OBVIOUS
<1>1. CASE NextLine
  BY <1>1, NextLineStep
<1>2. CASE EndOfFile
  BY <1>2, EndOfFileStep
<1>3. CASE SegmentFlush
  <2>1. "flush" \in Over
    BY DEF Over
  <2> QED
    BY <1>3, <2>1, KeepWaitingStep, ReleaseStep, ReleaseRefusedStep DEF SegmentFlush
<1>4. CASE AttachContext
  BY <1>4, AttachContextStep
<1>5. CASE ContextFlush
  <2>1. "flush" \in Over
    BY DEF Over
  <2> QED
    BY <1>5, <2>1, KeepWaitingStep, ReleaseStep, ReleaseRefusedStep DEF ContextFlush
<1>6. CASE GiveUp
  BY <1>6, GiveUpStep
<1>7. CASE OverLimits
  BY <1>7, OverLimitsStep
<1>8. CASE PublishMatch
  BY <1>8, PublishMatchStep
<1>9. CASE LineDone
  BY <1>9, LineDoneStep
<1>10. CASE PathDone
  BY <1>10, PathDoneStep
<1>11. CASE PathFlush
  <2>1. "done" \in Over /\ pc = "path"
    BY <1>11 DEF Over, PathFlush
  <2>2. CASE /\ ~Releasing
             /\ pc' = IF SearchesContent(searched.target) THEN "read" ELSE "done"
             /\ UNCHANGED <<pending, scanned, stopped, stop, outputVars>>
    <3>1. UNCHANGED <<searched, previousContext, line, match, pending, scanned, fileMatches,
                      published, flags>>
      BY <1>11, <2>2 DEF PathFlush, givenVars, outputVars
    <3> QED
      BY <2>1, <2>2, <3>1, FlushedStep
  <2> QED
    BY <1>11, <2>1, <2>2, ReleaseStep, ReleaseRefusedStep DEF PathFlush
<1>12. CASE FinalFlush
  <2>1. "done" \in Over /\ pc = "flush"
    BY <1>12 DEF Over, FinalFlush
  <2>2. CASE /\ ~Releasing /\ pc' = "done"
             /\ flags' = flags \cup ReadSummaryFlags
             /\ UNCHANGED <<pending, scanned, stopped, stop, published, resultBytes>>
    <3>1. /\ UNCHANGED <<searched, previousContext, line, match, pending, scanned,
                         fileMatches, published>>
          /\ flags \subseteq flags'
      BY <1>12, <2>2 DEF FinalFlush, givenVars
    <3> QED
      BY <2>1, <2>2, <3>1, FlushedStep
  <2> QED
    BY <1>12, <2>1, <2>2, ReleaseStep, ReleaseRefusedStep DEF FinalFlush
<1>13. CASE Cancel
  BY <1>13, QuietStep DEF Cancel, givenVars, outputVars
<1>14. CASE UNCHANGED vars
  BY <1>14, QuietStep DEF vars, givenVars, outputVars
<1> QED
  BY <1>1, <1>2, <1>3, <1>4, <1>5, <1>6, <1>7, <1>8, <1>9, <1>10, <1>11, <1>12, <1>13,
     <1>14 DEF Next, Done

LEMMA FileInductive == Spec => []FileInvariant
<1>1. Init => FileInvariant
  BY FileInitially
<1>2. FileInvariant /\ [Next]_vars => FileInvariant'
  BY FileNext
<1> QED
  BY <1>1, <1>2, PTL DEF Spec

-----------------------------------------------------------------------------
(* For any file, context and limits, the sink gets the results of a file   *)
(* in the order of its lines and of the matches of a line, though          *)
(* publishReadyPending takes them out of the middle of the pending ones.   *)
THEOREM FileResultsAreInOrder == Spec => []PublishedInOrder
<1>1. FileInvariant => PublishedInOrder
  <2> SUFFICES ASSUME FileInvariant PROVE PublishedInOrder
    OBVIOUS
  <2>1. DOMAIN published = 1..Len(published)
    BY FileTypes DEF FileInvariant
  <2> QED
    BY <2>1 DEF FileInvariant, OrderInv, InOrder, PublishedInOrder
<1> QED
  BY <1>1, FileInductive, PTL

(* For any file, context and limits, a published result that was not       *)
(* moved from carries the lines before and after it in its segment, as     *)
(* many as the query asks for unless the segment or the reading ends.      *)
THEOREM FileContextSurrounds == Spec => []ContextIsWhatSurrounds
<1>1. FileInvariant => ContextIsWhatSurrounds
  <2> SUFFICES ASSUME FileInvariant, NEW i \in DOMAIN published, ~published[i].emptied
               PROVE  IF published[i].line = 0
                      THEN published[i].before = <<>> /\ published[i].context = <<>>
                      ELSE LinesBefore(published[i]) /\ LinesAfter(published[i])
    BY DEF ContextIsWhatSurrounds
  <2> DEFINE r == published[i]
             n == Len(r.context)
  <2>1. /\ i \in 1..Len(published) /\ r \in ResultRecord
        /\ searched.contextAfter \in Nat /\ Lines \in Nat
    BY FileTypes DEF FileInvariant
  <2>2. r.line \in Nat /\ r.context \in Seq(Nat) /\ r.before \in Seq(Nat)
    BY <2>1 DEF ResultRecord
  <2>3. n \in Nat /\ Len(r.before) \in Nat
    BY <2>2
  <2>4. /\ Carries(searched, r)
        /\ r.line > 0 => Complete(searched, r) \/ r.line + n = line
    BY <2>1 DEF FileInvariant, ContextInv, Surrounded
  <2>5. /\ \A l : OpensIn(searched, l) <=> Opens(l)
        /\ \A l : FirstIn(searched, l) <=> FirstOfSegment(l)
        /\ \A l : LastIn(searched, l) <=> LastOfSegment(l)
    BY DEF OpensIn, TextIn, Opens, Text, FirstIn, FirstOfSegment, LastIn, LastOfSegment, Lines
  <2> HIDE DEF r
  <2>6. CASE r.line = 0
    BY <2>4, <2>6 DEF Carries, r
  <2>7. CASE r.line # 0
    <3>1. CarriesBefore(searched, r) /\ CarriesAfter(searched, r) /\ r.line > 0
      BY <2>2, <2>4, <2>7 DEF Carries
    <3>2. LinesBefore(r)
      BY <2>5, <3>1 DEF CarriesBefore, LinesBefore
    <3>3. LinesAfter(r)
      <4>1. n = searched.contextAfter \/ LastOfSegment(r.line + n) \/ r.line + n = line
        BY <2>4, <2>5, <3>1 DEF Complete
      <4>2. n < searched.contextAfter => n # searched.contextAfter
        BY <2>1, <2>3
      <4> QED
        BY <2>5, <3>1, <4>1, <4>2 DEF CarriesAfter, LinesAfter
    <3> QED
      BY <2>7, <3>2, <3>3 DEF r
  <2> QED
    BY <2>6, <2>7
<1> QED
  BY <1>1, FileInductive, PTL

(* For any file, context and limits, a search of a file that no sink       *)
(* refused ends with every match it counted published: none is left among  *)
(* the pending ones, whichever way the reading ended.                      *)
THEOREM FileHoldsNothingBack == Spec => []NothingHeldBackAtEnd
<1>1. FileInvariant => NothingHeldBackAtEnd
  <2> SUFFICES ASSUME FileInvariant, pc = "done", "refused" \notin flags,
                      "memoryLimitReached" \notin flags
               PROVE  pending = <<>> /\ Len(published) = fileMatches
    BY DEF NothingHeldBackAtEnd
  <2>1. pending = <<>> /\ Len(published) + Len(pending) = fileMatches
    BY DEF FileInvariant, CountInv
  <2>2. Len(pending) = 0 /\ Len(published) \in Nat
    BY <2>1, FileTypes DEF FileInvariant
  <2> QED
    BY <2>1, <2>2
<1> QED
  BY <1>1, FileInductive, PTL
=============================================================================
