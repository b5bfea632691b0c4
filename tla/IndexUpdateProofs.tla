-------------------------- MODULE IndexUpdateProofs --------------------------
(***************************************************************************)
(* For any number of paths, contents and updaters: an undisturbed update   *)
(* makes the index show the working tree, whatever disturbed ones left     *)
(* before it or leave beside it, every row has its document, and a text    *)
(* that visible files share is not lost.                                   *)
(*                                                                         *)
(* The first rests on the times.  A time is given to one content of a path *)
(* only, so a row, a document or a file being hashed that carries the      *)
(* file's present time also carries its present content, even if its hash  *)
(* was taken long after its time; that is what makes a row reusable.       *)
(***************************************************************************)
EXTENDS IndexUpdate, TLAPS, FiniteSetTheorems

FileRecord      == [path : Paths, mtime : Nat]
CandidateRecord == [path : Paths, mtime : Nat, status : Statuses]
DocumentRecord  == [path : Paths, hash : Contents, text : Contents \cup {NoText},
                    mtime : Nat, status : Statuses, deleted : BOOLEAN]
RowRecord       == [hash : Contents \cup {Absent}, mtime : Nat, status : Statuses,
                    deleted : BOOLEAN]
UpdaterRecord   ==
  [pc : {"idle", "scan", "lookup", "hash", "extract"}, scanned : Seq(FileRecord),
   next : Nat \ {0}, candidates : Seq(CandidateRecord), hash : Contents \cup {Absent},
   docs : Seq(DocumentRecord), quiet : BOOLEAN, unhashed : SUBSET Paths]

IndexTypeOK ==
  /\ head \in Trees /\ index \in Trees /\ disk \in Trees
  /\ mtime \in [Paths -> Nat] /\ clock \in Nat
  /\ rows \in [Paths -> RowRecord]
  /\ documents \in [Contents -> Contents \cup {NoText, NotStored}]
  /\ updater \in [Updaters -> UpdaterRecord]
  /\ settled \in BOOLEAN /\ unhashed \in SUBSET Paths

(* What a hash and a time say of a path: at this time, this content. *)
Known(p, time, hash) ==
  time <= clock /\ (mtime[p] = time /\ disk[p] # Absent => hash = disk[p])

HiddenNow == Hidden(workingTreeOverlay(head, index, disk))

InProgress(s) == s.pc \in {"lookup", "hash", "extract"}
Current(s)    == s.candidates[s.next]

(* What an updater knows of the times, disturbed or not. *)
TimesOf(s) ==
  /\ \A i \in 1..Len(s.scanned) : s.scanned[i].mtime <= clock
  /\ \A i \in 1..Len(s.candidates) : s.candidates[i].mtime <= clock
  /\ \A j \in 1..Len(s.docs) :
       ~s.docs[j].deleted => Known(s.docs[j].path, s.docs[j].mtime, s.docs[j].hash)
  /\ s.pc \in {"hash", "extract"} =>
       s.next \in 1..Len(s.candidates) /\ Current(s).status # "deleted"
  /\ s.pc = "extract" =>
       s.hash # Absent /\ Known(Current(s).path, Current(s).mtime, s.hash)

(* What an undisturbed updater knows of the working tree. *)
OnDisk(file) == disk[file.path] # Absent /\ file.mtime = mtime[file.path]

ScannedSoFar(s) ==
  /\ \A i \in 1..Len(s.scanned) : OnDisk(s.scanned[i])
  /\ s.pc = "scan" => \A p \in Paths :
       p < s.next /\ disk[p] # Absent => \E i \in 1..Len(s.scanned) : s.scanned[i].path = p

CandidatesCover(s) ==
  /\ \A i \in 1..Len(s.candidates) :
       IF s.candidates[i].status = "deleted" THEN s.candidates[i].path \in HiddenNow
       ELSE OnDisk(s.candidates[i])
  /\ InProgress(s) => \A p \in Paths : disk[p] # Absent =>
       \E i \in 1..Len(s.candidates) :
         s.candidates[i].path = p /\ s.candidates[i].status # "deleted"

DocumentsSoFar(s) ==
  /\ \A j \in 1..Len(s.docs) :
       IF s.docs[j].deleted THEN s.docs[j].path \in HiddenNow
       ELSE s.docs[j].hash = disk[s.docs[j].path]
  /\ InProgress(s) => \A i \in 1..Len(s.candidates) :
       i < s.next /\ s.candidates[i].status # "deleted" =>
         \/ s.candidates[i].path \in s.unhashed
         \/ \E j \in 1..Len(s.docs) :
              s.docs[j].path = s.candidates[i].path /\ ~s.docs[j].deleted
  /\ s.pc = "extract" => s.hash = disk[Current(s).path]

QuietOf(s) == s.quiet => ScannedSoFar(s) /\ CandidatesCover(s) /\ DocumentsSoFar(s)

RowsKnown ==
  /\ \A p \in Paths : mtime[p] <= clock
  /\ \A p \in Paths : rows[p].hash # Absent /\ ~rows[p].deleted =>
       Known(p, rows[p].mtime, rows[p].hash)

RowsStored == \A p \in Paths : rows[p].hash # Absent => documents[rows[p].hash] # NotStored

RowsSettled ==
  settled /\ ~Recreated => \A p \in Paths :
    IF disk[p] = Absent THEN rows[p].deleted
    ELSE \/ rows[p].hash = disk[p] /\ ~rows[p].deleted
         \/ p \in unhashed /\ rows[p].deleted

UpdatersInv == \A u \in Updaters : TimesOf(updater[u]) /\ QuietOf(updater[u])

IndexInvariant ==
  IndexTypeOK /\ UpdatersInv /\ RowsKnown /\ RowsStored /\ RowsSettled

-----------------------------------------------------------------------------
(* A set of numbers with a bound has a greatest one. *)
LEMMA GreatestIndex ==
  ASSUME NEW n \in Nat, NEW S \in SUBSET (0..n), S # {}
  PROVE  Max(S) \in S
<1> DEFINE T == {n - x : x \in S}
<1>1. T \subseteq Nat /\ T # {}
  <2>1. \A x \in S : n - x \in Nat
    OBVIOUS
  <2> QED
    BY <2>1
<1>2. PICK least \in T : \A y \in T : <<y, least>> \notin OpToRel(<, Nat)
  BY <1>1, NatLessThanWellFounded, WFMin
<1>3. \A y \in T : ~(y < least)
  BY <1>1, <1>2 DEF OpToRel
<1>4. PICK greatest \in S : least = n - greatest
  OBVIOUS
<1>5. \A y \in S : greatest >= y
  <2> TAKE y \in S
  <2>1. n - y \in T
    OBVIOUS
  <2>2. ~(n - y < least)
    BY <1>3, <2>1
  <2> QED
    BY <1>4, <2>2
<1> QED
  BY <1>5 DEF Max

LEMMA Concatenation ==
  ASSUME NEW S, NEW s \in Seq(S), NEW t \in Seq(S)
  PROVE  /\ s \o t \in Seq(S) /\ Len(s) \in Nat /\ Len(t) \in Nat
         /\ Len(s \o t) = Len(s) + Len(t)
         /\ \A i \in 1..Len(s) : i \in 1..Len(s \o t) /\ (s \o t)[i] = s[i]
         /\ \A i \in 1..Len(s \o t) :
              \/ i \in 1..Len(s) /\ (s \o t)[i] = s[i]
              \/ i - Len(s) \in 1..Len(t) /\ (s \o t)[i] = t[i - Len(s)]
<1>1. /\ s \o t \in Seq(S) /\ Len(s) \in Nat /\ Len(t) \in Nat
      /\ Len(s \o t) = Len(s) + Len(t)
  OBVIOUS
<1>2. \A i \in 1..Len(s \o t) :
        (s \o t)[i] = IF i <= Len(s) THEN s[i] ELSE t[i - Len(s)]
  OBVIOUS
<1> QED
  BY <1>1, <1>2

LEMMA Appended ==
  ASSUME NEW S, NEW s \in Seq(S), NEW e \in S
  PROVE  /\ Append(s, e) \in Seq(S) /\ Len(s) \in Nat
         /\ Len(Append(s, e)) = Len(s) + 1
         /\ \A i \in 1..Len(s) : i \in 1..Len(Append(s, e)) /\ Append(s, e)[i] = s[i]
         /\ Len(s) + 1 \in 1..Len(Append(s, e)) /\ Append(s, e)[Len(s) + 1] = e
         /\ \A i \in 1..Len(Append(s, e)) :
              \/ i \in 1..Len(s) /\ Append(s, e)[i] = s[i]
              \/ i = Len(s) + 1 /\ Append(s, e)[i] = e
<1>1. /\ Append(s, e) \in Seq(S) /\ Len(s) \in Nat
      /\ Len(Append(s, e)) = Len(s) + 1
      /\ \A i \in 1..Len(s) : Append(s, e)[i] = s[i]
      /\ Append(s, e)[Len(s) + 1] = e
  OBVIOUS
<1> QED
  BY <1>1

LEMMA EmptySequence == \A S : <<>> \in Seq(S) /\ Len(<<>>) = 0
OBVIOUS

(* The sequence of a finite set. *)
LEMMA SequenceOfSet ==
  ASSUME NEW S, IsFiniteSet(S)
  PROVE  /\ SetToSeq(S) \in Seq(S)
         /\ \A i \in 1..Len(SetToSeq(S)) : SetToSeq(S)[i] \in S
<1>1. Cardinality(S) \in Nat /\ ExistsBijection(1..Cardinality(S), S)
  BY FS_CardinalityType
<1>2. \E f \in [1..Cardinality(S) -> S] : IsInjective(f)
  BY <1>1 DEF ExistsBijection, Bijection, Injection, IsInjective
<1>3. SetToSeq(S) \in [1..Cardinality(S) -> S]
  BY <1>2 DEF SetToSeq
<1>4. SetToSeq(S) \in Seq(S)
  BY <1>1, <1>3
<1> QED
  BY <1>4

-----------------------------------------------------------------------------
(* The candidates that the overlay and the scanned files give. *)
LEMMA PathsFinite == IsFiniteSet(Paths) /\ NumPaths \in Nat /\ Paths \subseteq Nat
BY OverlayAssumption, FS_Interval DEF Paths

LEMMA OverlayShape ==
  ASSUME NEW h, NEW i, NEW d, NEW overlay, overlay = workingTreeOverlay(h, i, d)
  PROVE  /\ DOMAIN overlay \subseteq Paths
         /\ \A e \in DOMAIN overlay : overlay[e].status \in Statuses
<1> DEFINE listed  == {p \in Paths : \/ StatusEntry(h, i, d, p).head_to_index # {}
                                     \/ StatusEntry(h, i, d, p).index_to_workdir # {}}
<1>1. overlay = [p \in listed |-> OverlayEntry(StatusEntry(h, i, d, p))]
  BY DEF workingTreeOverlay
<1>2. \A entry : OverlayEntry(entry).status \in Statuses
  <2>1. \A entry : OverlayEntry(entry).status = mapStatus(entry)
    BY DEF OverlayEntry
  <2>2. \A entry : mapStatus(entry) \in Statuses
    BY DEF mapStatus, Statuses
  <2> QED
    BY <2>1, <2>2
<1> QED
  BY <1>1, <1>2

LEMMA StatusOfShown ==
  ASSUME NEW overlay, DOMAIN overlay \subseteq Paths,
         \A e \in DOMAIN overlay : overlay[e].status \in Statuses, NEW p
  PROVE  statusOf(overlay, p) \in Statuses \ {"deleted"}
<1> DEFINE shown == {e \in DOMAIN overlay :
                       overlay[e].path = p /\ overlay[e].status # "deleted"}
<1>1. shown \subseteq 0..NumPaths
  BY OverlayAssumption DEF Paths
<1>2. shown # {} => Max(shown) \in shown
  BY <1>1, PathsFinite, GreatestIndex
<1>3. statusOf(overlay, p) = IF shown = {} THEN "clean" ELSE overlay[Max(shown)].status
  BY DEF statusOf
<1> QED
  BY <1>2, <1>3 DEF Statuses

LEMMA HiddenPaths ==
  ASSUME NEW overlay
  PROVE  Hidden(overlay) \subseteq Paths /\ IsFiniteSet(Hidden(overlay))
<1>1. Hidden(overlay) \subseteq Paths
  BY DEF Hidden, HiddenBy
<1> QED
  BY <1>1, PathsFinite, FS_Subset

CandidatesFit(scanned, overlay, all) ==
  /\ all \in Seq(CandidateRecord)
  /\ \A k \in 1..Len(scanned) : \E c \in 1..Len(all) :
       all[c].path = scanned[k].path /\ all[c].status # "deleted"
  /\ \A c \in 1..Len(all) :
       \/ /\ all[c].status = "deleted" /\ all[c].path \in Hidden(overlay)
          /\ all[c].mtime = 0
       \/ /\ all[c].status # "deleted"
          /\ \E k \in 1..Len(scanned) :
               all[c].path = scanned[k].path /\ all[c].mtime = scanned[k].mtime

LEMMA CandidatesOf ==
  ASSUME NEW scanned \in Seq(FileRecord), NEW h, NEW i, NEW d,
         NEW overlay, overlay = workingTreeOverlay(h, i, d),
         NEW all, all = buildOverlayIndexCandidates(scanned, overlay)
  PROVE  CandidatesFit(scanned, overlay, all)
<1> DEFINE hidden     == SetToSeq(Hidden(overlay))
           files      == [k \in DOMAIN scanned |->
                            [path |-> scanned[k].path, mtime |-> scanned[k].mtime,
                             status |-> statusOf(overlay, scanned[k].path)]]
           tombstones == [k \in DOMAIN hidden |->
                            [path |-> hidden[k], mtime |-> 0, status |-> "deleted"]]
<1>1. all = files \o tombstones
  BY DEF buildOverlayIndexCandidates
<1>2. /\ hidden \in Seq(Hidden(overlay)) /\ Hidden(overlay) \subseteq Paths
      /\ \A k \in 1..Len(hidden) : hidden[k] \in Hidden(overlay)
  BY HiddenPaths, SequenceOfSet
<1>3. \A p : statusOf(overlay, p) \in Statuses \ {"deleted"}
  BY OverlayShape, StatusOfShown
<1>4. /\ files \in Seq(CandidateRecord) /\ Len(files) = Len(scanned)
      /\ \A k \in 1..Len(files) :
           files[k].path = scanned[k].path /\ files[k].mtime = scanned[k].mtime
             /\ files[k].status # "deleted"
  <2>1. /\ Len(scanned) \in Nat /\ DOMAIN scanned = 1..Len(scanned)
        /\ \A k \in 1..Len(scanned) : scanned[k] \in FileRecord
    OBVIOUS
  <2>2. \A k \in 1..Len(scanned) :
          [path |-> scanned[k].path, mtime |-> scanned[k].mtime,
           status |-> statusOf(overlay, scanned[k].path)] \in CandidateRecord
    BY <1>3, <2>1 DEF FileRecord, CandidateRecord
  <2>3. files \in Seq(CandidateRecord) /\ Len(files) = Len(scanned)
    BY <2>1, <2>2
  <2> QED
    BY <1>3, <2>1, <2>3
<1>5. /\ tombstones \in Seq(CandidateRecord)
      /\ \A k \in 1..Len(tombstones) :
           tombstones[k].path \in Hidden(overlay) /\ tombstones[k].mtime = 0
             /\ tombstones[k].status = "deleted"
  <2>1. /\ Len(hidden) \in Nat /\ DOMAIN hidden = 1..Len(hidden)
    BY <1>2
  <2> HIDE DEF hidden
  <2>2. \A k \in 1..Len(hidden) :
          [path |-> hidden[k], mtime |-> 0, status |-> "deleted"] \in CandidateRecord
    BY <1>2 DEF CandidateRecord, Statuses
  <2>3. tombstones \in Seq(CandidateRecord) /\ Len(tombstones) = Len(hidden)
    BY <2>1, <2>2
  <2> QED
    BY <1>2, <2>1, <2>3
<1> HIDE DEF files, tombstones, hidden
<1>6. /\ all \in Seq(CandidateRecord) /\ Len(files) \in Nat
      /\ \A k \in 1..Len(files) : k \in 1..Len(all) /\ all[k] = files[k]
      /\ \A c \in 1..Len(all) :
           \/ c \in 1..Len(files) /\ all[c] = files[c]
           \/ c - Len(files) \in 1..Len(tombstones) /\ all[c] = tombstones[c - Len(files)]
  BY <1>1, <1>4, <1>5, Concatenation
<1>7. \A k \in 1..Len(scanned) : \E c \in 1..Len(all) :
        all[c].path = scanned[k].path /\ all[c].status # "deleted"
  BY <1>4, <1>6
<1>8. \A c \in 1..Len(all) :
        \/ /\ all[c].status = "deleted" /\ all[c].path \in Hidden(overlay)
           /\ all[c].mtime = 0
        \/ /\ all[c].status # "deleted"
           /\ \E k \in 1..Len(scanned) :
                all[c].path = scanned[k].path /\ all[c].mtime = scanned[k].mtime
  <2> TAKE c \in 1..Len(all)
  <2>1. CASE c \in 1..Len(files) /\ all[c] = files[c]
    <3>1. c \in 1..Len(scanned)
      BY <1>4, <2>1
    <3> QED
      BY <1>4, <2>1, <3>1
  <2>2. CASE /\ c - Len(files) \in 1..Len(tombstones)
             /\ all[c] = tombstones[c - Len(files)]
    BY <1>5, <2>2
  <2> QED
    BY <1>6, <2>1, <2>2
<1> QED
  BY <1>6, <1>7, <1>8 DEF CandidatesFit

(* What a publication makes of the documents. *)
LEMMA PublishedRow ==
  ASSUME NEW docs \in Seq(DocumentRecord), NEW p \in Paths
  PROVE  \/ RowOf(docs, p) = NoRow /\ \A j \in 1..Len(docs) : docs[j].path # p
         \/ \E j \in 1..Len(docs) :
              /\ docs[j].path = p
              /\ RowOf(docs, p) =
                   [hash |-> docs[j].hash, mtime |-> docs[j].mtime,
                    status |-> docs[j].status, deleted |-> docs[j].deleted]
<1> DEFINE mine == {j \in DOMAIN docs : docs[j].path = p}
<1>1. Len(docs) \in Nat /\ DOMAIN docs = 1..Len(docs)
  OBVIOUS
<1>2. mine \subseteq 0..Len(docs)
  BY <1>1
<1>3. mine # {} => Max(mine) \in mine
  BY <1>1, <1>2, GreatestIndex
<1>4. RowOf(docs, p) =
        IF mine = {} THEN NoRow
        ELSE [hash |-> docs[Max(mine)].hash, mtime |-> docs[Max(mine)].mtime,
              status |-> docs[Max(mine)].status, deleted |-> docs[Max(mine)].deleted]
  BY DEF RowOf
<1> QED
  BY <1>1, <1>3, <1>4

LEMMA PublishedText ==
  ASSUME IndexTypeOK, NEW docs \in Seq(DocumentRecord), NEW hash \in Contents
  PROVE  /\ StoredText(docs, hash) \in Contents \cup {NoText, NotStored}
         /\ (\E j \in 1..Len(docs) : docs[j].hash = hash)
              => StoredText(docs, hash) # NotStored
         /\ documents[hash] \in Contents => StoredText(docs, hash) \in Contents
<1> DEFINE mine  == {j \in DOMAIN docs : docs[j].hash = hash}
           texts == {j \in mine : docs[j].text # NoText}
<1>1. /\ Len(docs) \in Nat /\ DOMAIN docs = 1..Len(docs)
      /\ \A j \in 1..Len(docs) : docs[j] \in DocumentRecord
  OBVIOUS
<1>2. texts \subseteq 0..Len(docs)
  BY <1>1
<1>3. texts # {} => Max(texts) \in texts
  BY <1>1, <1>2, GreatestIndex
<1>4. texts # {} => docs[Max(texts)].text \in Contents
  BY <1>1, <1>3 DEF DocumentRecord
<1>5. documents[hash] \in Contents \cup {NoText, NotStored}
  BY DEF IndexTypeOK
<1>6. NoText # NotStored /\ NoText \notin Contents /\ NotStored \notin Contents
  BY UpdateAssumption DEF NoText, NotStored
<1>7. StoredText(docs, hash) =
        CASE texts # {} -> docs[Max(texts)].text
          [] texts = {} /\ mine # {} /\ documents[hash] = NotStored -> NoText
          [] OTHER -> documents[hash]
  BY DEF StoredText
<1>8. (\E j \in 1..Len(docs) : docs[j].hash = hash) => mine # {}
  BY <1>1
<1> HIDE DEF mine, texts
<1> QED
  BY <1>4, <1>5, <1>6, <1>7, <1>8

-----------------------------------------------------------------------------
(* A step of one updater, during which the worktree stays as it is. *)
LEMMA RecordOfUpdater ==
  ASSUME IndexTypeOK, NEW u \in Updaters
  PROVE  /\ updater[u] \in UpdaterRecord
         /\ updater[u].pc \in {"idle", "scan", "lookup", "hash", "extract"}
         /\ updater[u].scanned \in Seq(FileRecord)
         /\ updater[u].candidates \in Seq(CandidateRecord)
         /\ updater[u].docs \in Seq(DocumentRecord)
         /\ updater[u].next \in Nat \ {0} /\ updater[u].hash \in Contents \cup {Absent}
         /\ updater[u].quiet \in BOOLEAN /\ updater[u].unhashed \in SUBSET Paths
<1>1. updater[u] \in UpdaterRecord
  BY DEF IndexTypeOK
<1> QED
  BY <1>1 DEF UpdaterRecord

Phases   == {"idle", "scan", "lookup", "hash", "extract"}
Positive == Nat \ {0}

LEMMA UpdaterFields ==
  ASSUME NEW s \in UpdaterRecord
  PROVE  DOMAIN s = {"pc", "scanned", "next", "candidates", "hash", "docs", "quiet",
                     "unhashed"}
BY DEF UpdaterRecord

(* Each step leaves a record of the type. *)
LEMMA ChangedUpdater ==
  ASSUME NEW s \in UpdaterRecord
  PROVE  /\ [s EXCEPT !.quiet = FALSE] \in UpdaterRecord
         /\ \A pc \in Phases :
              /\ [s EXCEPT !.pc = pc] \in UpdaterRecord
              /\ \A hash \in Contents : [s EXCEPT !.pc = pc, !.hash = hash] \in UpdaterRecord
         /\ \A next \in Positive, scanned \in Seq(FileRecord) :
              [s EXCEPT !.next = next, !.scanned = scanned] \in UpdaterRecord
         /\ \A pc \in Phases, next \in Positive :
              /\ [s EXCEPT !.pc = pc, !.next = next] \in UpdaterRecord
              /\ \A unread \in SUBSET Paths :
                   [s EXCEPT !.unhashed = unread, !.pc = pc, !.next = next]
                     \in UpdaterRecord
              /\ \A candidates \in Seq(CandidateRecord) :
                   [s EXCEPT !.pc = pc, !.next = next, !.candidates = candidates]
                     \in UpdaterRecord
              /\ \A docs \in Seq(DocumentRecord) :
                   [s EXCEPT !.docs = docs, !.pc = pc, !.next = next] \in UpdaterRecord
<1> DEFINE F == Seq(FileRecord)
           C == Seq(CandidateRecord)
           H == Contents \cup {Absent}
           D == Seq(DocumentRecord)
           U == SUBSET Paths
<1>1. UpdaterRecord = [pc : Phases, scanned : F, next : Positive, candidates : C, hash : H,
                       docs : D, quiet : BOOLEAN, unhashed : U]
  BY DEF UpdaterRecord, Phases, Positive
<1>2. Contents \subseteq H
  OBVIOUS
<1> HIDE DEF F, C, H, D, U
<1>3. \A pc \in Phases : \A hash \in Contents :
        [s EXCEPT !.pc = pc, !.hash = hash] \in UpdaterRecord
  BY <1>1, <1>2
<1>4. [s EXCEPT !.quiet = FALSE] \in UpdaterRecord
  BY <1>1
<1>5. \A pc \in Phases : [s EXCEPT !.pc = pc] \in UpdaterRecord
  BY <1>1
<1>6. \A next \in Positive, scanned \in F :
        [s EXCEPT !.next = next, !.scanned = scanned] \in UpdaterRecord
  BY <1>1
<1>7. \A pc \in Phases, next \in Positive :
        /\ [s EXCEPT !.pc = pc, !.next = next] \in UpdaterRecord
        /\ \A unread \in U :
             [s EXCEPT !.unhashed = unread, !.pc = pc, !.next = next] \in UpdaterRecord
        /\ \A candidates \in C :
             [s EXCEPT !.pc = pc, !.next = next, !.candidates = candidates] \in UpdaterRecord
        /\ \A docs \in D :
             [s EXCEPT !.docs = docs, !.pc = pc, !.next = next] \in UpdaterRecord
  BY <1>1
<1> QED
  BY <1>3, <1>4, <1>5, <1>6, <1>7 DEF F, C, D, U

LEMMA CurrentCandidate ==
  ASSUME IndexTypeOK, NEW u \in Updaters,
         updater[u].next \in 1..Len(updater[u].candidates)
  PROVE  /\ Candidate(u) = Current(updater[u])
         /\ Candidate(u) = updater[u].candidates[updater[u].next]
         /\ Candidate(u) \in CandidateRecord
         /\ Candidate(u).path \in Paths /\ Candidate(u).mtime \in Nat
         /\ Candidate(u).status \in Statuses
<1>1. updater[u].candidates \in Seq(CandidateRecord)
  BY RecordOfUpdater
<1>2. updater[u].candidates[updater[u].next] \in CandidateRecord
  BY <1>1
<1> QED
  BY <1>2 DEF Candidate, Current, CandidateRecord

LEMMA UpdaterStep ==
  ASSUME IndexTypeOK, UpdatersInv, UNCHANGED treeVars,
         NEW u \in Updaters, NEW s \in UpdaterRecord, TimesOf(s), QuietOf(s),
         updater' = [updater EXCEPT ![u] = s]
  PROVE  UpdatersInv' /\ updater' \in [Updaters -> UpdaterRecord]
<1>1. updater \in [Updaters -> UpdaterRecord]
  BY DEF IndexTypeOK
<1>2. /\ head' = head /\ index' = index /\ disk' = disk /\ mtime' = mtime
      /\ clock' = clock
  BY DEF treeVars
<1>3. \A v \in Updaters :
        TimesOf(updater'[v]) /\ QuietOf(updater'[v])
  BY <1>1 DEF UpdatersInv
<1>4. HiddenNow' = HiddenNow
  BY <1>2 DEF HiddenNow
<1>5. \A v \in Updaters : TimesOf(updater[v])'
  BY <1>2, <1>3 DEF TimesOf, Known, Current
<1>6. \A v \in Updaters : QuietOf(updater[v])'
  BY <1>2, <1>3, <1>4
  DEF QuietOf, ScannedSoFar, CandidatesCover, DocumentsSoFar, OnDisk, InProgress, Current
<1> QED
  BY <1>1, <1>5, <1>6 DEF UpdatersInv

LEMMA IdleIsFine ==
  /\ IdleUpdater \in UpdaterRecord /\ TimesOf(IdleUpdater) /\ QuietOf(IdleUpdater)
  /\ LET started == [IdleUpdater EXCEPT !.pc = "scan"] IN
       started \in UpdaterRecord /\ TimesOf(started) /\ QuietOf(started)
<1>1. IdleUpdater \in UpdaterRecord
  <2>1. /\ <<>> \in Seq(FileRecord) /\ <<>> \in Seq(CandidateRecord)
        /\ <<>> \in Seq(DocumentRecord) /\ 1 \in Nat \ {0}
    BY EmptySequence
  <2> QED
    BY <2>1, Zenon DEF IdleUpdater, UpdaterRecord
<1>2. [IdleUpdater EXCEPT !.pc = "scan"] \in UpdaterRecord
  BY <1>1, Zenon DEF UpdaterRecord
<1>3. \A s : (/\ s.pc \in {"idle", "scan"} /\ s.scanned = <<>> /\ s.candidates = <<>>
              /\ s.docs = <<>> /\ s.next = 1) => TimesOf(s) /\ QuietOf(s)
  <2> SUFFICES ASSUME NEW s, s.pc \in {"idle", "scan"}, s.scanned = <<>>,
                      s.candidates = <<>>, s.docs = <<>>, s.next = 1
               PROVE  TimesOf(s) /\ QuietOf(s)
    OBVIOUS
  <2>1. \A n : n \in 1..0 => FALSE
    OBVIOUS
  <2>2. Len(s.scanned) = 0 /\ Len(s.candidates) = 0 /\ Len(s.docs) = 0
    BY EmptySequence
  <2>3. \A p \in Paths : ~(p < 1)
    BY OverlayAssumption DEF Paths
  <2> QED
    BY <2>1, <2>2, <2>3
    DEF TimesOf, QuietOf, ScannedSoFar, CandidatesCover, DocumentsSoFar, InProgress
<1>4. \A s \in {IdleUpdater, [IdleUpdater EXCEPT !.pc = "scan"]} :
        /\ s.pc \in {"idle", "scan"} /\ s.scanned = <<>> /\ s.candidates = <<>>
        /\ s.docs = <<>> /\ s.next = 1
  BY DEF IdleUpdater
<1> HIDE DEF IdleUpdater
<1> QED
  BY <1>1, <1>2, <1>3, <1>4

LEMMA StartStep ==
  ASSUME IndexTypeOK, UpdatersInv, NEW u \in Updaters, Start(u) \/ Abandon(u)
  PROVE  UpdatersInv' /\ updater' \in [Updaters -> UpdaterRecord]
BY IdleIsFine, UpdaterStep DEF Start, Abandon

(* A path of the worktree is looked at. *)
LEMMA ScanFileStep ==
  ASSUME IndexTypeOK, UpdatersInv, RowsKnown, NEW u \in Updaters, ScanFile(u)
  PROVE  UpdatersInv' /\ updater' \in [Updaters -> UpdaterRecord]
<1> DEFINE old  == updater[u]
           p    == old.next
           file == [path |-> p, mtime |-> mtime[p]]
           list == IF disk[p] = Absent THEN old.scanned ELSE Append(old.scanned, file)
           s    == [old EXCEPT !.next = p + 1, !.scanned = list]
<1>1. /\ old \in UpdaterRecord /\ old.scanned \in Seq(FileRecord) /\ p \in Nat \ {0}
      /\ old.pc = "scan" /\ p \in Paths
  BY RecordOfUpdater, OverlayAssumption DEF ScanFile, Scanned, Paths
<1>2. updater' = [updater EXCEPT ![u] = s]
  BY DEF ScanFile, IndexTypeOK
<1>3. file \in FileRecord /\ mtime[p] <= clock
  BY <1>1 DEF FileRecord, IndexTypeOK, RowsKnown
<1>4. list \in Seq(FileRecord)
  BY <1>1, <1>3, Appended
<1>5. /\ s \in UpdaterRecord
      /\ s.pc = "scan" /\ s.next = p + 1 /\ s.scanned = list
      /\ s.candidates = old.candidates /\ s.docs = old.docs /\ s.quiet = old.quiet
      /\ s.unhashed = old.unhashed
  <2> DEFINE following == p + 1
  <2>1. following \in Positive /\ following = p + 1
    BY <1>1 DEF Positive
  <2>2. s = [old EXCEPT !.next = following, !.scanned = list]
    OBVIOUS
  <2> HIDE DEF list, old, s, following
  <2> QED
    BY <1>1, <1>4, <2>1, <2>2, ChangedUpdater, UpdaterFields
<1>6. \A i \in 1..Len(list) :
        \/ i \in 1..Len(old.scanned) /\ list[i] = old.scanned[i]
        \/ disk[p] # Absent /\ list[i] = file
  BY <1>1, <1>3, Appended
<1>7. /\ \A i \in 1..Len(old.scanned) : i \in 1..Len(list) /\ list[i] = old.scanned[i]
      /\ disk[p] # Absent => \E i \in 1..Len(list) : list[i] = file
  BY <1>1, <1>3, Appended
<1>8. file.path = p /\ file.mtime = mtime[p]
  OBVIOUS
<1>9. TimesOf(old) /\ QuietOf(old)
  BY DEF UpdatersInv
<1>10. UNCHANGED treeVars
  BY DEF ScanFile
<1> HIDE DEF s, list, file
<1>11. TimesOf(s)
  BY <1>3, <1>5, <1>6, <1>8, <1>9 DEF TimesOf
<1>12. QuietOf(s)
  <2> SUFFICES ASSUME old.quiet
               PROVE  ScannedSoFar(s) /\ CandidatesCover(s) /\ DocumentsSoFar(s)
    BY <1>5 DEF QuietOf
  <2>1. ScannedSoFar(old) /\ CandidatesCover(old) /\ DocumentsSoFar(old)
    BY <1>9 DEF QuietOf
  <2>2. \A i \in 1..Len(list) : OnDisk(list[i])
    BY <1>6, <1>8, <2>1 DEF ScannedSoFar, OnDisk
  <2>3. \A q \in Paths : q < p + 1 => q < p \/ q = p
    <3>1. \A n \in Nat, q \in Nat : q < n + 1 => q < n \/ q = n
      OBVIOUS
    <3> QED
      BY <1>1, <3>1, PathsFinite
  <2>4. \A q \in Paths : q < p + 1 /\ disk[q] # Absent =>
          \E i \in 1..Len(list) : list[i].path = q
    BY <1>1, <1>7, <1>8, <2>1, <2>3 DEF ScannedSoFar
  <2> QED
    BY <1>1, <1>5, <2>1, <2>2, <2>4
    DEF ScannedSoFar, CandidatesCover, DocumentsSoFar, InProgress
<1> QED
  BY <1>2, <1>5, <1>10, <1>11, <1>12, UpdaterStep

(* The overlay is read: every file on disk is a candidate. *)
LEMMA ReadOverlayStep ==
  ASSUME IndexTypeOK, UpdatersInv, NEW u \in Updaters, ReadOverlay(u)
  PROVE  UpdatersInv' /\ updater' \in [Updaters -> UpdaterRecord]
<1> DEFINE old == updater[u]
           all == buildOverlayIndexCandidates(old.scanned,
                                              workingTreeOverlay(head, index, disk))
           s   == [old EXCEPT !.pc = "lookup", !.next = 1, !.candidates = all]
<1>1. /\ old \in UpdaterRecord /\ old.scanned \in Seq(FileRecord)
      /\ old.pc = "scan" /\ old.next > NumPaths /\ old.next \in Nat
  BY RecordOfUpdater DEF ReadOverlay, Scanned
<1>2. updater' = [updater EXCEPT ![u] = s]
  BY DEF ReadOverlay, IndexTypeOK
<1>3. /\ all \in Seq(CandidateRecord)
      /\ \A k \in 1..Len(old.scanned) : \E c \in 1..Len(all) :
           all[c].path = old.scanned[k].path /\ all[c].status # "deleted"
      /\ \A c \in 1..Len(all) :
           \/ all[c].status = "deleted" /\ all[c].path \in HiddenNow /\ all[c].mtime = 0
           \/ /\ all[c].status # "deleted"
              /\ \E k \in 1..Len(old.scanned) :
                   all[c].path = old.scanned[k].path /\ all[c].mtime = old.scanned[k].mtime
  <2> DEFINE overlay == workingTreeOverlay(head, index, disk)
  <2>1. HiddenNow = Hidden(overlay)
    BY DEF HiddenNow
  <2>2. old.scanned \in Seq(FileRecord)
    BY <1>1
  <2>3. overlay = workingTreeOverlay(head, index, disk)
    OBVIOUS
  <2>4. all = buildOverlayIndexCandidates(old.scanned, overlay)
    OBVIOUS
  <2> HIDE DEF old, overlay, all
  <2>5. CandidatesFit(old.scanned, overlay, all)
    BY <2>2, <2>3, <2>4, CandidatesOf
  <2> QED
    BY <2>1, <2>5 DEF CandidatesFit
<1>4. TimesOf(old) /\ QuietOf(old) /\ UNCHANGED treeVars
  BY DEF UpdatersInv, ReadOverlay
<1> HIDE DEF all
<1>5. /\ s \in UpdaterRecord
      /\ s.pc = "lookup" /\ s.next = 1 /\ s.scanned = old.scanned
      /\ s.candidates = all /\ s.docs = old.docs /\ s.quiet = old.quiet
      /\ s.unhashed = old.unhashed
  <2> DEFINE first == 1
  <2>1. s = [old EXCEPT !.pc = "lookup", !.next = first, !.candidates = all]
    OBVIOUS
  <2>2. "lookup" \in Phases /\ first \in Positive /\ first = 1
    BY DEF Phases, Positive
  <2> HIDE DEF old, s, first
  <2> QED
    BY <1>1, <1>3, <2>1, <2>2, ChangedUpdater, UpdaterFields
<1> HIDE DEF s
<1>6. TimesOf(s)
  <2>1. 0 <= clock
    BY DEF IndexTypeOK
  <2>2. \A k \in 1..Len(old.scanned) : old.scanned[k].mtime <= clock
    BY <1>4 DEF TimesOf
  <2>3. \A c \in 1..Len(all) : all[c].mtime <= clock
    BY <1>3, <2>1, <2>2
  <2> QED
    BY <1>4, <1>5, <2>3 DEF TimesOf
<1>7. QuietOf(s)
  <2> SUFFICES ASSUME old.quiet
               PROVE  ScannedSoFar(s) /\ CandidatesCover(s) /\ DocumentsSoFar(s)
    BY <1>5 DEF QuietOf
  <2>1. ScannedSoFar(old) /\ CandidatesCover(old) /\ DocumentsSoFar(old)
    BY <1>4 DEF QuietOf
  <2>2. \A p \in Paths : p < old.next
    BY <1>1, OverlayAssumption DEF Paths
  <2>3. CandidatesCover(s)
    <3>1. \A c \in 1..Len(all) :
            IF all[c].status = "deleted" THEN all[c].path \in HiddenNow ELSE OnDisk(all[c])
      <4>1. \A k \in 1..Len(old.scanned) : OnDisk(old.scanned[k])
        BY <2>1 DEF ScannedSoFar
      <4>2. ASSUME NEW c \in 1..Len(all), all[c].status # "deleted"
            PROVE  OnDisk(all[c])
        <5>1. PICK k \in 1..Len(old.scanned) :
                all[c].path = old.scanned[k].path /\ all[c].mtime = old.scanned[k].mtime
          BY <1>3, <4>2
        <5> QED
          BY <4>1, <5>1 DEF OnDisk
      <4> QED
        BY <1>3, <4>2
    <3>2. ASSUME NEW p \in Paths, disk[p] # Absent
          PROVE  \E i \in 1..Len(all) : all[i].path = p /\ all[i].status # "deleted"
      <4>1. PICK k \in 1..Len(old.scanned) : old.scanned[k].path = p
        BY <1>1, <2>1, <2>2, <3>2 DEF ScannedSoFar
      <4> QED
        BY <1>3, <4>1
    <3> QED
      BY <1>5, <3>1, <3>2 DEF CandidatesCover
  <2>4. DocumentsSoFar(s)
    <3>1. \A i \in 1..Len(all) : ~(i < 1)
      BY <1>3
    <3> QED
      BY <1>5, <2>1, <3>1 DEF DocumentsSoFar
  <2> QED
    BY <1>5, <2>1, <2>3, <2>4 DEF ScannedSoFar
<1> QED
  BY <1>2, <1>4, <1>5, <1>6, <1>7, UpdaterStep

(* A document is kept, and the next candidate is looked at. *)
LEMMA RetainStep ==
  ASSUME IndexTypeOK, UpdatersInv, UNCHANGED treeVars, NEW u \in Updaters,
         InProgress(updater[u]), updater[u].next \in 1..Len(updater[u].candidates),
         NEW document \in DocumentRecord, Retain(u, document),
         document.path = Candidate(u).path,
         document.deleted <=> Candidate(u).status = "deleted",
         ~document.deleted => Known(document.path, document.mtime, document.hash),
         updater[u].quiet /\ ~document.deleted => document.hash = disk[document.path]
  PROVE  UpdatersInv' /\ updater' \in [Updaters -> UpdaterRecord]
<1> DEFINE old == updater[u]
           all == Append(old.docs, document)
           s   == [old EXCEPT !.docs = all, !.pc = "lookup", !.next = old.next + 1]
<1>1. /\ old \in UpdaterRecord /\ old.docs \in Seq(DocumentRecord)
      /\ old.next \in Nat \ {0} /\ old.candidates \in Seq(CandidateRecord)
  BY RecordOfUpdater
<1>2. updater' = [updater EXCEPT ![u] = s]
  BY DEF Retain, IndexTypeOK
<1>3. /\ all \in Seq(DocumentRecord)
      /\ \A j \in 1..Len(old.docs) : j \in 1..Len(all) /\ all[j] = old.docs[j]
      /\ \E j \in 1..Len(all) : all[j] = document
      /\ \A j \in 1..Len(all) :
           (j \in 1..Len(old.docs) /\ all[j] = old.docs[j]) \/ all[j] = document
  BY <1>1, Appended
<1>4. TimesOf(old) /\ QuietOf(old)
  BY DEF UpdatersInv
<1> HIDE DEF all
<1>5. /\ s \in UpdaterRecord
      /\ s.pc = "lookup" /\ s.next = old.next + 1 /\ s.scanned = old.scanned
      /\ s.candidates = old.candidates /\ s.docs = all /\ s.quiet = old.quiet
      /\ s.unhashed = old.unhashed
  <2> DEFINE following == old.next + 1
  <2>1. following \in Positive /\ following = old.next + 1
    BY <1>1 DEF Positive
  <2>2. s = [old EXCEPT !.docs = all, !.pc = "lookup", !.next = following]
    OBVIOUS
  <2>3. "lookup" \in Phases
    BY DEF Phases
  <2> HIDE DEF old, s, following
  <2> QED
    BY <1>1, <1>3, <2>1, <2>2, <2>3, ChangedUpdater, UpdaterFields
<1> HIDE DEF s
<1>6. TimesOf(s)
  BY <1>3, <1>4, <1>5 DEF TimesOf
<1>7. QuietOf(s)
  <2> SUFFICES ASSUME old.quiet
               PROVE  ScannedSoFar(s) /\ CandidatesCover(s) /\ DocumentsSoFar(s)
    BY <1>5 DEF QuietOf
  <2>1. ScannedSoFar(old) /\ CandidatesCover(old) /\ DocumentsSoFar(old)
    BY <1>4 DEF QuietOf
  <2>2. document.deleted => document.path \in HiddenNow
    BY <2>1, CurrentCandidate DEF CandidatesCover
  <2>3. \A j \in 1..Len(all) :
          IF all[j].deleted THEN all[j].path \in HiddenNow
          ELSE all[j].hash = disk[all[j].path]
    BY <1>3, <2>1, <2>2 DEF DocumentsSoFar
  <2>4. ASSUME NEW i \in 1..Len(old.candidates), i < old.next + 1,
               old.candidates[i].status # "deleted"
        PROVE  \/ old.candidates[i].path \in old.unhashed
               \/ \E j \in 1..Len(all) :
                    all[j].path = old.candidates[i].path /\ ~all[j].deleted
    <3>1. i < old.next \/ i = old.next
      BY <1>1, <2>4
    <3>2. CASE i < old.next
      <4>1. \/ old.candidates[i].path \in old.unhashed
            \/ \E j \in 1..Len(old.docs) :
                 old.docs[j].path = old.candidates[i].path /\ ~old.docs[j].deleted
        BY <2>1, <2>4, <3>2 DEF DocumentsSoFar
      <4> QED
        BY <1>3, <4>1
    <3>3. CASE i = old.next
      <4>1. PICK j \in 1..Len(all) : all[j] = document
        BY <1>3
      <4>2. document.path = old.candidates[i].path /\ ~document.deleted
        BY <2>4, <3>3, CurrentCandidate
      <4> QED
        BY <4>1, <4>2
    <3> QED
      BY <3>1, <3>2, <3>3
  <2>5. DocumentsSoFar(s)
    BY <1>5, <2>3, <2>4 DEF DocumentsSoFar
  <2> QED
    BY <1>5, <2>1, <2>5 DEF ScannedSoFar, CandidatesCover, InProgress
<1> QED
  BY <1>2, <1>5, <1>6, <1>7, UpdaterStep

(* A candidate is passed over: only a tombstone, if nothing disturbs. *)
LEMMA SkipStep ==
  ASSUME IndexTypeOK, UpdatersInv, UNCHANGED treeVars, NEW u \in Updaters,
         InProgress(updater[u]), updater[u].next \in 1..Len(updater[u].candidates),
         Skip(u), updater[u].quiet => Candidate(u).status = "deleted"
  PROVE  UpdatersInv' /\ updater' \in [Updaters -> UpdaterRecord]
<1> DEFINE old == updater[u]
           s   == [old EXCEPT !.pc = "lookup", !.next = old.next + 1]
<1>1. /\ old \in UpdaterRecord /\ old.next \in Nat \ {0}
      /\ old.candidates \in Seq(CandidateRecord)
  BY RecordOfUpdater
<1>2. updater' = [updater EXCEPT ![u] = s]
  BY DEF Skip, IndexTypeOK
<1>3. TimesOf(old) /\ QuietOf(old)
  BY DEF UpdatersInv
<1>4. /\ s \in UpdaterRecord
      /\ s.pc = "lookup" /\ s.next = old.next + 1 /\ s.scanned = old.scanned
      /\ s.candidates = old.candidates /\ s.docs = old.docs /\ s.quiet = old.quiet
      /\ s.unhashed = old.unhashed
  <2> DEFINE following == old.next + 1
  <2>1. following \in Positive /\ following = old.next + 1
    BY <1>1 DEF Positive
  <2>2. s = [old EXCEPT !.pc = "lookup", !.next = following]
    OBVIOUS
  <2>3. "lookup" \in Phases
    BY DEF Phases
  <2> HIDE DEF old, s, following
  <2> QED
    BY <1>1, <2>1, <2>2, <2>3, ChangedUpdater, UpdaterFields
<1> HIDE DEF s
<1>5. TimesOf(s)
  BY <1>3, <1>4 DEF TimesOf
<1>6. QuietOf(s)
  <2> SUFFICES ASSUME old.quiet
               PROVE  ScannedSoFar(s) /\ CandidatesCover(s) /\ DocumentsSoFar(s)
    BY <1>4 DEF QuietOf
  <2>1. ScannedSoFar(old) /\ CandidatesCover(old) /\ DocumentsSoFar(old)
    BY <1>3 DEF QuietOf
  <2>2. \A i \in 1..Len(old.candidates) :
          i < old.next + 1 /\ old.candidates[i].status # "deleted" => i < old.next
    <3>1. old.candidates[old.next].status = "deleted"
      BY CurrentCandidate
    <3>2. \A i \in 1..Len(old.candidates) : i < old.next + 1 => i < old.next \/ i = old.next
      BY <1>1
    <3> QED
      BY <3>1, <3>2
  <2>3. DocumentsSoFar(s)
    BY <1>4, <2>1, <2>2 DEF DocumentsSoFar
  <2> QED
    BY <1>4, <2>1, <2>3 DEF ScannedSoFar, CandidatesCover, InProgress
<1> QED
  BY <1>2, <1>4, <1>5, <1>6, UpdaterStep

(* A candidate is left out, and remembered as one that was not hashed. *)
LEMMA LeaveOutStep ==
  ASSUME IndexTypeOK, UpdatersInv, UNCHANGED treeVars, NEW u \in Updaters,
         InProgress(updater[u]), updater[u].next \in 1..Len(updater[u].candidates),
         LeaveOut(u)
  PROVE  UpdatersInv' /\ updater' \in [Updaters -> UpdaterRecord]
<1> DEFINE old == updater[u]
           all == old.unhashed \cup {Candidate(u).path}
           s   == [old EXCEPT !.unhashed = all, !.pc = "lookup", !.next = old.next + 1]
<1>1. /\ old \in UpdaterRecord /\ old.next \in Nat \ {0}
      /\ old.candidates \in Seq(CandidateRecord) /\ all \in SUBSET Paths
      /\ old.unhashed \subseteq all /\ Candidate(u).path \in all
  BY RecordOfUpdater, CurrentCandidate
<1>2. updater' = [updater EXCEPT ![u] = s]
  BY DEF LeaveOut, IndexTypeOK
<1>3. TimesOf(old) /\ QuietOf(old)
  BY DEF UpdatersInv
<1>4. /\ s \in UpdaterRecord
      /\ s.pc = "lookup" /\ s.next = old.next + 1 /\ s.scanned = old.scanned
      /\ s.candidates = old.candidates /\ s.docs = old.docs /\ s.quiet = old.quiet
      /\ s.unhashed = all
  <2> DEFINE following == old.next + 1
  <2>1. following \in Positive /\ following = old.next + 1
    BY <1>1 DEF Positive
  <2>2. s = [old EXCEPT !.unhashed = all, !.pc = "lookup", !.next = following]
    OBVIOUS
  <2>3. "lookup" \in Phases
    BY DEF Phases
  <2> HIDE DEF old, s, all, following
  <2> QED
    BY <1>1, <2>1, <2>2, <2>3, ChangedUpdater, UpdaterFields
<1> HIDE DEF s, all
<1>5. TimesOf(s)
  BY <1>3, <1>4 DEF TimesOf
<1>6. QuietOf(s)
  <2> SUFFICES ASSUME old.quiet
               PROVE  ScannedSoFar(s) /\ CandidatesCover(s) /\ DocumentsSoFar(s)
    BY <1>4 DEF QuietOf
  <2>1. ScannedSoFar(old) /\ CandidatesCover(old) /\ DocumentsSoFar(old)
    BY <1>3 DEF QuietOf
  <2>2. ASSUME NEW i \in 1..Len(old.candidates), i < old.next + 1,
               old.candidates[i].status # "deleted"
        PROVE  \/ old.candidates[i].path \in all
               \/ \E j \in 1..Len(old.docs) :
                    old.docs[j].path = old.candidates[i].path /\ ~old.docs[j].deleted
    <3>1. CASE i < old.next
      BY <1>1, <2>1, <2>2, <3>1 DEF DocumentsSoFar
    <3>2. CASE i = old.next
      BY <1>1, <3>2, CurrentCandidate
    <3> QED
      BY <1>1, <2>2, <3>1, <3>2
  <2>3. DocumentsSoFar(s)
    BY <1>4, <2>1, <2>2 DEF DocumentsSoFar
  <2> QED
    BY <1>4, <2>1, <2>3 DEF ScannedSoFar, CandidatesCover, InProgress
<1> QED
  BY <1>2, <1>4, <1>5, <1>6, UpdaterStep

LEMMA AtItsCandidate ==
  ASSUME IndexTypeOK, NEW u \in Updaters, NEW pc \in {"lookup", "hash", "extract"},
         AtCandidate(u, pc)
  PROVE  /\ updater[u].pc = pc /\ InProgress(updater[u])
         /\ updater[u].next \in 1..Len(updater[u].candidates)
<1>1. /\ updater[u].next \in Nat \ {0} /\ updater[u].next <= Len(updater[u].candidates)
      /\ updater[u].candidates \in Seq(CandidateRecord) /\ updater[u].pc = pc
  BY RecordOfUpdater DEF AtCandidate
<1>2. Len(updater[u].candidates) \in Nat
  BY <1>1
<1> QED
  BY <1>1, <1>2 DEF InProgress

LEMMA MadeDocument ==
  ASSUME NEW candidate \in CandidateRecord, NEW time \in Nat, NEW hash \in Contents,
         NEW text \in Contents \cup {NoText}
  PROVE  LET document == MakeDocument(candidate, time, hash, text) IN
           /\ document \in DocumentRecord
           /\ document.path = candidate.path /\ document.hash = hash
           /\ document.mtime = time /\ document.text = text
           /\ document.deleted <=> candidate.status = "deleted"
BY DEF MakeDocument, CandidateRecord, DocumentRecord

LEMMA FoundDocument ==
  ASSUME IndexTypeOK, NEW p \in Paths, findDocument(p).hash # Absent
  PROVE  /\ findDocument(p) = rows[p] /\ rows[p] \in RowRecord
         /\ rows[p].hash \in Contents /\ rows[p].mtime \in Nat
<1>1. rows[p] \in RowRecord
  BY DEF IndexTypeOK
<1>2. findDocument(p) = rows[p]
  BY DEF findDocument, NoRow
<1> QED
  BY <1>1, <1>2 DEF RowRecord

(* The path of a tombstone. *)
LEMMA LookupDeletedStep ==
  ASSUME IndexTypeOK, UpdatersInv, NEW u \in Updaters, LookupDeleted(u)
  PROVE  UpdatersInv' /\ updater' \in [Updaters -> UpdaterRecord]
<1> DEFINE row      == findDocument(Candidate(u).path)
           document == MakeDocument(Candidate(u), row.mtime, row.hash, NoText)
<1>1. /\ updater[u].pc = "lookup" /\ InProgress(updater[u])
      /\ updater[u].next \in 1..Len(updater[u].candidates)
  BY AtItsCandidate DEF LookupDeleted
<1>2. /\ Candidate(u) \in CandidateRecord /\ Candidate(u).path \in Paths
      /\ Candidate(u).status = "deleted" /\ UNCHANGED treeVars
  BY <1>1, CurrentCandidate DEF LookupDeleted
<1>3. CASE row.hash # Absent /\ Retain(u, document)
  <2>1. row.hash \in Contents /\ row.mtime \in Nat
    BY <1>2, <1>3, FoundDocument
  <2>2. /\ document \in DocumentRecord /\ document.path = Candidate(u).path
        /\ document.deleted /\ (document.deleted <=> Candidate(u).status = "deleted")
    BY <1>2, <2>1, MadeDocument
  <2> HIDE DEF document
  <2> QED
    BY <1>1, <1>2, <1>3, <2>2, RetainStep
<1>4. CASE row.hash = Absent /\ Skip(u)
  BY <1>1, <1>2, <1>4, SkipStep
<1> QED
  BY <1>3, <1>4 DEF LookupDeleted

(* A row with the time of the candidate has the content of that time. *)
LEMMA LookupReusesStep ==
  ASSUME IndexTypeOK, UpdatersInv, RowsKnown, NEW u \in Updaters, LookupReuses(u)
  PROVE  UpdatersInv' /\ updater' \in [Updaters -> UpdaterRecord]
<1> DEFINE p        == Candidate(u).path
           row      == findDocument(p)
           document == MakeDocument(Candidate(u), Candidate(u).mtime, row.hash, NoText)
<1>1. /\ updater[u].pc = "lookup" /\ InProgress(updater[u])
      /\ updater[u].next \in 1..Len(updater[u].candidates)
  BY AtItsCandidate DEF LookupReuses
<1>2. /\ Candidate(u) \in CandidateRecord /\ p \in Paths /\ Candidate(u).mtime \in Nat
      /\ Candidate(u) = updater[u].candidates[updater[u].next]
      /\ Candidate(u).status # "deleted" /\ UNCHANGED treeVars
  BY <1>1, CurrentCandidate DEF LookupReuses
<1>3. /\ row.hash # Absent /\ ~row.deleted /\ row.mtime = Candidate(u).mtime
      /\ Retain(u, document)
  BY DEF LookupReuses, canReuseCatalogDocument
<1>4. row = rows[p] /\ row.hash \in Contents
  BY <1>2, <1>3, FoundDocument
<1>5. Known(p, Candidate(u).mtime, row.hash)
  BY <1>2, <1>3, <1>4 DEF RowsKnown
<1>6. updater[u].quiet => row.hash = disk[p]
  <2>1. updater[u].quiet => CandidatesCover(updater[u])
    BY DEF UpdatersInv, QuietOf
  <2>2. updater[u].quiet => OnDisk(Candidate(u))
    BY <1>1, <1>2, <2>1 DEF CandidatesCover
  <2> QED
    BY <1>5, <2>2 DEF OnDisk, Known
<1> HIDE DEF row, p
<1>7. /\ document \in DocumentRecord /\ document.path = Candidate(u).path
      /\ document.hash = row.hash /\ document.mtime = Candidate(u).mtime
      /\ ~document.deleted /\ (document.deleted <=> Candidate(u).status = "deleted")
  BY <1>2, <1>4, MadeDocument
<1> HIDE DEF document
<1> QED
  BY <1>1, <1>2, <1>3, <1>5, <1>6, <1>7, RetainStep DEF p

LEMMA LookupMissesStep ==
  ASSUME IndexTypeOK, UpdatersInv, NEW u \in Updaters, LookupMisses(u)
  PROVE  UpdatersInv' /\ updater' \in [Updaters -> UpdaterRecord]
<1> DEFINE old == updater[u]
           s   == [old EXCEPT !.pc = "hash"]
<1>1. old.pc = "lookup" /\ InProgress(old) /\ old.next \in 1..Len(old.candidates)
  BY AtItsCandidate DEF LookupMisses
<1>2. Current(old).status # "deleted" /\ UNCHANGED treeVars /\ old \in UpdaterRecord
  BY <1>1, CurrentCandidate, RecordOfUpdater DEF LookupMisses
<1>3. updater' = [updater EXCEPT ![u] = s]
  BY DEF LookupMisses, IndexTypeOK
<1>4. TimesOf(old) /\ QuietOf(old)
  BY DEF UpdatersInv
<1>5. /\ s \in UpdaterRecord
      /\ s.pc = "hash" /\ s.next = old.next /\ s.scanned = old.scanned
      /\ s.candidates = old.candidates /\ s.docs = old.docs /\ s.quiet = old.quiet
      /\ s.unhashed = old.unhashed
  <2>1. s = [old EXCEPT !.pc = "hash"] /\ "hash" \in Phases
    BY DEF Phases
  <2> HIDE DEF old, s
  <2> QED
    BY <1>2, <2>1, ChangedUpdater, UpdaterFields
<1> HIDE DEF s
<1>6. TimesOf(s)
  BY <1>1, <1>2, <1>4, <1>5 DEF TimesOf, Current
<1>7. QuietOf(s)
  BY <1>1, <1>4, <1>5 DEF QuietOf, ScannedSoFar, CandidatesCover, DocumentsSoFar, InProgress
<1> QED
  BY <1>2, <1>3, <1>5, <1>6, <1>7, UpdaterStep

(* The hash is that of the present content, whatever the time says. *)
LEMMA HashFileStep ==
  ASSUME IndexTypeOK, UpdatersInv, NEW u \in Updaters, HashFile(u)
  PROVE  UpdatersInv' /\ updater' \in [Updaters -> UpdaterRecord]
<1> DEFINE old     == updater[u]
           content == disk[Candidate(u).path]
           s       == [old EXCEPT !.pc = "extract", !.hash = content]
<1>1. old.pc = "hash" /\ InProgress(old) /\ old.next \in 1..Len(old.candidates)
  BY AtItsCandidate DEF HashFile
<1>2. /\ Candidate(u) = Current(old) /\ Candidate(u) = old.candidates[old.next]
      /\ Candidate(u).path \in Paths
      /\ UNCHANGED treeVars /\ old \in UpdaterRecord
  BY <1>1, CurrentCandidate, RecordOfUpdater DEF HashFile
<1>3. TimesOf(old) /\ QuietOf(old)
  BY DEF UpdatersInv
<1>4. /\ Current(old).status # "deleted" /\ Current(old).mtime <= clock
      /\ old.quiet => OnDisk(Current(old))
  <2>1. Current(old).status # "deleted" /\ Current(old).mtime <= clock
    BY <1>1, <1>3 DEF TimesOf, Current
  <2>2. old.quiet => CandidatesCover(old)
    BY <1>3 DEF QuietOf
  <2> QED
    BY <1>1, <2>1, <2>2 DEF CandidatesCover, Current
<1>5. CASE content # Absent /\ updater' = [updater EXCEPT ![u].pc = "extract", ![u].hash = content]
  <2>1. updater' = [updater EXCEPT ![u] = s]
    BY <1>5 DEF IndexTypeOK
  <2>2. content \in Contents
    BY <1>2, <1>5 DEF IndexTypeOK, Trees
  <2>3. /\ s \in UpdaterRecord
        /\ s.pc = "extract" /\ s.next = old.next /\ s.scanned = old.scanned
        /\ s.candidates = old.candidates /\ s.docs = old.docs /\ s.hash = content
        /\ s.quiet = old.quiet /\ s.unhashed = old.unhashed
    <3>1. s = [old EXCEPT !.pc = "extract", !.hash = content] /\ "extract" \in Phases
      BY DEF Phases
    <3> HIDE DEF old, s, content
    <3> QED
      BY <1>2, <2>2, <3>1, ChangedUpdater, UpdaterFields
  <2> HIDE DEF s
  <2>4. Current(s) = Current(old)
    BY <2>3 DEF Current
  <2>5. Known(Current(s).path, Current(s).mtime, s.hash)
    BY <1>2, <1>4, <2>3, <2>4 DEF Known
  <2>6. TimesOf(s)
    BY <1>1, <1>3, <1>4, <1>5, <2>3, <2>4, <2>5 DEF TimesOf
  <2>7. QuietOf(s)
    <3>1. s.hash = disk[Current(s).path]
      BY <1>2, <2>3, <2>4
    <3> SUFFICES ASSUME old.quiet
                 PROVE  ScannedSoFar(s) /\ CandidatesCover(s) /\ DocumentsSoFar(s)
      BY <2>3 DEF QuietOf
    <3>2. ScannedSoFar(old) /\ CandidatesCover(old) /\ DocumentsSoFar(old)
      BY <1>3 DEF QuietOf
    <3>3. InProgress(s) /\ s.pc # "scan"
      BY <2>3 DEF InProgress
    <3>4. ScannedSoFar(s) /\ CandidatesCover(s)
      BY <1>1, <2>3, <3>2, <3>3 DEF ScannedSoFar, CandidatesCover
    <3>5. DocumentsSoFar(s)
      BY <1>1, <2>3, <3>1, <3>2, <3>3 DEF DocumentsSoFar
    <3> QED
      BY <3>4, <3>5
  <2> QED
    BY <1>2, <2>1, <2>3, <2>6, <2>7, UpdaterStep
<1>6. CASE LeaveOut(u)
  BY <1>1, <1>2, <1>6, LeaveOutStep
<1> QED
  BY <1>5, <1>6 DEF HashFile

LEMMA ExtractTextStep ==
  ASSUME IndexTypeOK, UpdatersInv, NEW u \in Updaters, ExtractText(u)
  PROVE  UpdatersInv' /\ updater' \in [Updaters -> UpdaterRecord]
<1> DEFINE old == updater[u]
<1>1. old.pc = "extract" /\ InProgress(old) /\ old.next \in 1..Len(old.candidates)
  BY AtItsCandidate DEF ExtractText
<1>2. /\ Candidate(u) = Current(old) /\ Candidate(u) \in CandidateRecord
      /\ Candidate(u).path \in Paths /\ Candidate(u).mtime \in Nat /\ UNCHANGED treeVars
  BY <1>1, CurrentCandidate DEF ExtractText
<1>3. TimesOf(old) /\ QuietOf(old)
  BY DEF UpdatersInv
<1>4. /\ Candidate(u).status # "deleted" /\ old.hash # Absent
      /\ Known(Candidate(u).path, Candidate(u).mtime, old.hash)
      /\ old.quiet => old.hash = disk[Candidate(u).path]
  BY <1>1, <1>2, <1>3 DEF TimesOf, QuietOf, DocumentsSoFar
<1>5. old.hash \in Contents
  BY <1>4, RecordOfUpdater
<1>6. disk[Candidate(u).path] \in Contents \cup {Absent}
  BY <1>2 DEF IndexTypeOK, Trees
<1>7. PICK text \in readIndexedText(disk[Candidate(u).path]) :
        Retain(u, MakeDocument(Candidate(u), Candidate(u).mtime, old.hash, text))
  BY DEF ExtractText
<1>8. text \in Contents \cup {NoText}
  BY <1>6 DEF readIndexedText
<1> DEFINE document == MakeDocument(Candidate(u), Candidate(u).mtime, old.hash, text)
<1>9. /\ document \in DocumentRecord /\ document.path = Candidate(u).path
      /\ document.hash = old.hash /\ document.mtime = Candidate(u).mtime
      /\ ~document.deleted /\ (document.deleted <=> Candidate(u).status = "deleted")
  BY <1>2, <1>4, <1>5, <1>8, MadeDocument
<1> HIDE DEF document
<1> QED
  BY <1>1, <1>2, <1>4, <1>7, <1>9, RetainStep DEF document

-----------------------------------------------------------------------------
(* A publication.  After an undisturbed update the last document of a path *)
(* on disk has its content: it cannot be a tombstone, as no path on disk   *)
(* is hidden.                                                              *)
LEMMA PublishStep ==
  ASSUME IndexInvariant, NEW u \in Updaters, Publish(u)
  PROVE  IndexInvariant'
<1> DEFINE old  == updater[u]
           docs == old.docs
<1>1. IndexTypeOK /\ UpdatersInv /\ RowsKnown
  BY DEF IndexInvariant
<1>2. /\ old.pc = "lookup" /\ old.next > Len(old.candidates) /\ InProgress(old)
      /\ rows' = [p \in Paths |-> RowOf(docs, p)]
      /\ documents' = [hash \in Contents |-> StoredText(docs, hash)]
      /\ settled' = old.quiet /\ updater' = [updater EXCEPT ![u] = IdleUpdater]
      /\ unhashed' = IF old.quiet THEN old.unhashed ELSE {}
      /\ UNCHANGED treeVars
  BY DEF Publish, publishGeneration, InProgress
<1>3. /\ docs \in Seq(DocumentRecord) /\ old.quiet \in BOOLEAN
      /\ old.unhashed \in SUBSET Paths
      /\ old.candidates \in Seq(CandidateRecord) /\ old.next \in Nat
  BY <1>1, RecordOfUpdater
<1>4. /\ head' = head /\ index' = index /\ disk' = disk /\ mtime' = mtime
      /\ clock' = clock
  BY <1>2 DEF treeVars
<1>5. TimesOf(old) /\ QuietOf(old)
  BY <1>1 DEF UpdatersInv
<1>6. UpdatersInv' /\ updater' \in [Updaters -> UpdaterRecord]
  BY <1>1, <1>2, IdleIsFine, UpdaterStep
<1>7. \A j \in 1..Len(docs) :
        /\ docs[j] \in DocumentRecord /\ docs[j].path \in Paths
        /\ docs[j].hash \in Contents /\ docs[j].mtime \in Nat
        /\ docs[j].status \in Statuses /\ docs[j].deleted \in BOOLEAN
  <2>1. \A j \in 1..Len(docs) : docs[j] \in DocumentRecord
    BY <1>3
  <2> HIDE DEF docs
  <2> QED
    BY <2>1 DEF DocumentRecord
<1>8. \A p \in Paths :
        \/ rows'[p] = NoRow /\ \A j \in 1..Len(docs) : docs[j].path # p
        \/ \E j \in 1..Len(docs) :
             /\ docs[j].path = p
             /\ rows'[p] = [hash |-> docs[j].hash, mtime |-> docs[j].mtime,
                            status |-> docs[j].status, deleted |-> docs[j].deleted]
  <2> HIDE DEF docs
  <2> QED
    BY <1>2, <1>3, PublishedRow
<1>9. NoRow \in RowRecord /\ NoRow.hash = Absent /\ NoRow.deleted
  BY DEF NoRow, RowRecord, Statuses
<1> HIDE DEF docs
<1>10. rows' \in [Paths -> RowRecord]
  <2>1. \A p \in Paths : rows'[p] \in RowRecord
    <3> TAKE p \in Paths
    <3>1. CASE rows'[p] = NoRow
      BY <1>9, <3>1
    <3>2. ASSUME NEW j \in 1..Len(docs),
                 rows'[p] = [hash |-> docs[j].hash, mtime |-> docs[j].mtime,
                             status |-> docs[j].status, deleted |-> docs[j].deleted]
          PROVE  rows'[p] \in RowRecord
      BY <1>7, <3>2 DEF RowRecord
    <3> QED
      BY <1>8, <3>1, <3>2
  <2> QED
    BY <1>2, <2>1
<1>11. /\ documents' \in [Contents -> Contents \cup {NoText, NotStored}]
       /\ \A j \in 1..Len(docs) : documents'[docs[j].hash] # NotStored
  BY <1>1, <1>2, <1>3, <1>7, PublishedText
<1>12. IndexTypeOK'
  BY <1>1, <1>2, <1>3, <1>4, <1>6, <1>10, <1>11 DEF IndexTypeOK
<1>13. RowsKnown'
  <2>1. ASSUME NEW p \in Paths, rows'[p].hash # Absent, ~rows'[p].deleted
        PROVE  Known(p, rows'[p].mtime, rows'[p].hash)
    <3>1. PICK j \in 1..Len(docs) :
            /\ docs[j].path = p
            /\ rows'[p] = [hash |-> docs[j].hash, mtime |-> docs[j].mtime,
                           status |-> docs[j].status, deleted |-> docs[j].deleted]
      BY <1>8, <1>9, <2>1
    <3> QED
      BY <1>5, <2>1, <3>1 DEF TimesOf, docs
  <2> QED
    BY <1>1, <1>4, <2>1 DEF RowsKnown, Known
<1>14. RowsStored'
  <2>1. ASSUME NEW p \in Paths, rows'[p].hash # Absent
        PROVE  documents'[rows'[p].hash] # NotStored
    <3>1. PICK j \in 1..Len(docs) :
            rows'[p] = [hash |-> docs[j].hash, mtime |-> docs[j].mtime,
                        status |-> docs[j].status, deleted |-> docs[j].deleted]
      BY <1>8, <1>9, <2>1
    <3>2. rows'[p].hash = docs[j].hash
      BY <3>1
    <3> QED
      BY <1>11, <3>2
  <2> QED
    BY <2>1 DEF RowsStored
<1>15. RowsSettled'
  <2> SUFFICES ASSUME old.quiet, ~Recreated, NEW p \in Paths
               PROVE  IF disk[p] = Absent THEN rows'[p].deleted
                      ELSE \/ rows'[p].hash = disk[p] /\ ~rows'[p].deleted
                           \/ p \in old.unhashed /\ rows'[p].deleted
    BY <1>2, <1>4 DEF RowsSettled, Recreated
  <2>1. CandidatesCover(old) /\ DocumentsSoFar(old)
    BY <1>5 DEF QuietOf
  <2>2. p \in HiddenNow => disk[p] = Absent
    BY DEF Recreated, HiddenNow
  <2>3. \A j \in 1..Len(docs) :
          IF docs[j].deleted THEN docs[j].path \in HiddenNow
          ELSE docs[j].hash = disk[docs[j].path]
    BY <2>1 DEF DocumentsSoFar, docs
  <2>4. CASE disk[p] = Absent
    <3>1. Absent \notin Contents
      BY OverlayAssumption
    <3>2. \A j \in 1..Len(docs) : docs[j].path = p => docs[j].deleted
      BY <1>7, <2>3, <2>4, <3>1
    <3>3. CASE rows'[p] = NoRow
      BY <1>9, <2>4, <3>3
    <3>4. ASSUME NEW j \in 1..Len(docs), docs[j].path = p,
                 rows'[p] = [hash |-> docs[j].hash, mtime |-> docs[j].mtime,
                             status |-> docs[j].status, deleted |-> docs[j].deleted]
          PROVE  rows'[p].deleted
      BY <3>2, <3>4
    <3> QED
      BY <1>8, <2>4, <3>3, <3>4
  <2>5. CASE disk[p] # Absent
    <3>1. PICK i \in 1..Len(old.candidates) :
            old.candidates[i].path = p /\ old.candidates[i].status # "deleted"
      BY <1>2, <2>1, <2>5 DEF CandidatesCover
    <3>2. i < old.next
      BY <1>2, <1>3
    <3>3. p \in old.unhashed \/ \E j \in 1..Len(docs) : docs[j].path = p
      BY <1>2, <2>1, <3>1, <3>2 DEF DocumentsSoFar, docs
    <3>4. ASSUME NEW j \in 1..Len(docs), docs[j].path = p,
                 rows'[p] = [hash |-> docs[j].hash, mtime |-> docs[j].mtime,
                             status |-> docs[j].status, deleted |-> docs[j].deleted]
          PROVE  rows'[p].hash = disk[p] /\ ~rows'[p].deleted
      <4>1. ~docs[j].deleted /\ docs[j].hash = disk[p]
        BY <2>2, <2>3, <2>5, <3>4
      <4> QED
        BY <3>4, <4>1
    <3>5. CASE rows'[p] = NoRow /\ \A j \in 1..Len(docs) : docs[j].path # p
      BY <1>9, <2>5, <3>3, <3>5
    <3> QED
      BY <1>8, <2>5, <3>4, <3>5
  <2> QED
    BY <2>4, <2>5
<1> QED
  BY <1>6, <1>12, <1>13, <1>14, <1>15 DEF IndexInvariant

(* The steps of an updater before its publication. *)
LEMMA UpdateStep ==
  ASSUME IndexInvariant, NEW u \in Updaters, Update(u)
  PROVE  IndexInvariant'
<1>1. IndexTypeOK /\ UpdatersInv /\ RowsKnown /\ RowsStored /\ RowsSettled
  BY DEF IndexInvariant
<1>2. CASE Publish(u)
  BY <1>2, PublishStep
<1>3. CASE \/ Start(u) \/ ScanFile(u) \/ ReadOverlay(u)
           \/ LookupDeleted(u) \/ LookupReuses(u) \/ LookupMisses(u)
           \/ HashFile(u) \/ ExtractText(u) \/ Abandon(u)
  <2>1. UpdatersInv' /\ updater' \in [Updaters -> UpdaterRecord]
    BY <1>1, <1>3, StartStep, ScanFileStep, ReadOverlayStep, LookupDeletedStep,
       LookupReusesStep, LookupMissesStep, HashFileStep, ExtractTextStep
  <2>2. UNCHANGED <<treeVars, storeVars, history>>
    BY <1>3 DEF Start, ScanFile, ReadOverlay, LookupDeleted, LookupReuses, LookupMisses,
                HashFile, ExtractText, Abandon
  <2>3. /\ head' = head /\ index' = index /\ disk' = disk /\ mtime' = mtime
        /\ clock' = clock /\ rows' = rows /\ documents' = documents
        /\ settled' = settled /\ unhashed' = unhashed
    BY <2>2 DEF treeVars, storeVars, history
  <2>4. IndexTypeOK'
    BY <1>1, <2>1, <2>3 DEF IndexTypeOK
  <2>5. RowsKnown' /\ RowsStored' /\ RowsSettled'
    BY <1>1, <2>3 DEF RowsKnown, Known, RowsStored, RowsSettled, Recreated
  <2> QED
    BY <2>1, <2>4, <2>5 DEF IndexInvariant
<1> QED
  BY <1>2, <1>3 DEF Update

(* A change of the worktree gives the path a time nothing has yet: a path  *)
(* with a time of before has its content of before.                        *)
NewTimes ==
  /\ head' \in Trees /\ index' \in Trees /\ disk' \in Trees /\ mtime' \in [Paths -> Nat]
  /\ \A p \in Paths : mtime'[p] <= clock + 1
  /\ \A p \in Paths : mtime'[p] <= clock /\ disk'[p] # Absent =>
       mtime'[p] = mtime[p] /\ disk'[p] = disk[p]

LEMMA ChangeGivesNewTimes ==
  ASSUME IndexTypeOK, RowsKnown, Change
  PROVE  NewTimes
<1>1. clock \in Nat /\ clock + 1 \in Nat /\ ~(clock + 1 <= clock) /\ clock + 1 <= clock + 1
  BY DEF IndexTypeOK
<1>2. /\ head \in Trees /\ index \in Trees /\ disk \in Trees /\ mtime \in [Paths -> Nat]
      /\ \A p \in Paths : mtime[p] <= clock + 1
  <2>1. \A n \in Nat : n <= clock => n <= clock + 1
    BY <1>1
  <2> QED
    BY <2>1 DEF IndexTypeOK, RowsKnown
<1> DEFINE T == clock + 1
<1>3. T \in Nat /\ ~(T <= clock) /\ T <= T /\ \A p \in Paths : mtime[p] <= T
  BY <1>1, <1>2
<1>9. NewTimes <=>
        /\ head' \in Trees /\ index' \in Trees /\ disk' \in Trees /\ mtime' \in [Paths -> Nat]
        /\ \A p \in Paths : mtime'[p] <= T
        /\ \A p \in Paths : mtime'[p] <= clock /\ disk'[p] # Absent =>
             mtime'[p] = mtime[p] /\ disk'[p] = disk[p]
  BY DEF NewTimes
<1>10. CASE \E p \in Paths, c \in Contents :
              /\ "write" \in Changes /\ disk[p] # c
              /\ disk' = [disk EXCEPT ![p] = c]
              /\ mtime' = [mtime EXCEPT ![p] = clock + 1]
              /\ UNCHANGED <<head, index>>
  <2>1. PICK p \in Paths, c \in Contents :
          /\ disk' = [disk EXCEPT ![p] = c] /\ mtime' = [mtime EXCEPT ![p] = T]
          /\ head' = head /\ index' = index
    BY <1>10
  <2>2. /\ disk' \in Trees /\ mtime' \in [Paths -> Nat]
        /\ \A q \in Paths : /\ disk'[q] = IF q = p THEN c ELSE disk[q]
                            /\ mtime'[q] = IF q = p THEN T ELSE mtime[q]
    BY <1>2, <1>3, <2>1 DEF Trees
  <2> HIDE DEF T
  <2> QED
    BY <1>2, <1>3, <1>9, <2>1, <2>2
<1>11. CASE \E p \in Paths :
              /\ "remove" \in Changes /\ disk[p] # Absent
              /\ disk' = [disk EXCEPT ![p] = Absent]
              /\ UNCHANGED <<head, index, mtime>>
  <2>1. PICK p \in Paths :
          /\ disk' = [disk EXCEPT ![p] = Absent]
          /\ head' = head /\ index' = index /\ mtime' = mtime
    BY <1>11
  <2>2. /\ disk' \in Trees
        /\ \A q \in Paths : disk'[q] = IF q = p THEN Absent ELSE disk[q]
    BY <1>2, <2>1 DEF Trees
  <2> HIDE DEF T
  <2> QED
    BY <1>2, <1>3, <1>9, <2>1, <2>2
<1>12. CASE \E p, q \in Paths :
              /\ "move" \in Changes
              /\ index[p] # Absent /\ disk[p] # Absent
              /\ index[q] = Absent /\ disk[q] = Absent
              /\ index' = [index EXCEPT ![p] = Absent, ![q] = index[p]]
              /\ disk' = [disk EXCEPT ![p] = Absent, ![q] = disk[p]]
              /\ mtime' = [mtime EXCEPT ![q] = clock + 1]
              /\ UNCHANGED head
  <2>1. PICK p, q \in Paths :
          /\ index' = [[index EXCEPT ![p] = Absent] EXCEPT ![q] = index[p]]
          /\ disk' = [[disk EXCEPT ![p] = Absent] EXCEPT ![q] = disk[p]]
          /\ mtime' = [mtime EXCEPT ![q] = T] /\ head' = head
    BY <1>12
  <2>2. index' \in Trees
    BY <1>2, <2>1 DEF Trees
  <2>3. disk' \in Trees
    BY <1>2, <2>1 DEF Trees
  <2>4. \A r \in Paths :
          /\ disk'[r] = IF r = q THEN disk[p] ELSE IF r = p THEN Absent ELSE disk[r]
          /\ mtime'[r] = IF r = q THEN T ELSE mtime[r]
    BY <1>2, <2>1 DEF Trees
  <2>5. mtime' \in [Paths -> Nat]
    BY <1>2, <1>3, <2>1
  <2> HIDE DEF T
  <2> QED
    BY <1>2, <1>3, <1>9, <2>1, <2>2, <2>3, <2>4, <2>5
<1>13. CASE /\ "commit" \in Changes /\ head # disk
            /\ head' = disk /\ index' = disk
            /\ UNCHANGED <<disk, mtime>>
  BY <1>2, <1>9, <1>13
<1> QED
  BY <1>10, <1>11, <1>12, <1>13 DEF Change

LEMMA ChangeStep ==
  ASSUME IndexInvariant, Change
  PROVE  IndexInvariant'
<1>1. IndexTypeOK /\ UpdatersInv /\ RowsKnown /\ RowsStored
  BY DEF IndexInvariant
<1>2. /\ clock \in Nat /\ clock' = clock + 1 /\ rows' = rows /\ documents' = documents
      /\ updater' = Disturbed /\ settled' = FALSE /\ unhashed' = {}
  BY <1>1 DEF Change, Unsettled, storeVars, IndexTypeOK
<1>3. NewTimes
  BY <1>1, ChangeGivesNewTimes
<1>4. \A n \in Nat : n <= clock => n <= clock'
  BY <1>2
<1>5. \A p \in Paths, time \in Nat : \A hash : Known(p, time, hash) =>
        time <= clock' /\ (mtime'[p] = time /\ disk'[p] # Absent => hash = disk'[p])
  BY <1>3, <1>4 DEF Known, NewTimes
<1>6. ASSUME NEW u \in Updaters
      PROVE  /\ updater'[u] \in UpdaterRecord /\ TimesOf(updater[u])' /\ QuietOf(updater[u])'
  <2> DEFINE old == updater[u]
             s   == updater'[u]
  <2>1. /\ old \in UpdaterRecord /\ TimesOf(old)
        /\ old.scanned \in Seq(FileRecord) /\ old.candidates \in Seq(CandidateRecord)
        /\ old.docs \in Seq(DocumentRecord)
    BY <1>1, RecordOfUpdater DEF UpdatersInv
  <2>2. /\ s \in UpdaterRecord /\ s.pc = old.pc /\ s.next = old.next
        /\ s.scanned = old.scanned /\ s.candidates = old.candidates
        /\ s.hash = old.hash /\ s.docs = old.docs /\ s.quiet = FALSE
    <3>1. s = [old EXCEPT !.quiet = FALSE]
      BY <1>2 DEF Disturbed
    <3> HIDE DEF old, s
    <3> QED
      BY <2>1, <3>1, ChangedUpdater, UpdaterFields
  <2>3. QuietOf(updater[u])'
    BY <2>2 DEF QuietOf
  <2>4. \A i \in 1..Len(old.scanned) : old.scanned[i].mtime \in Nat
    <3>1. \A i \in 1..Len(old.scanned) : old.scanned[i] \in FileRecord
      BY <2>1
    <3> QED
      BY <3>1 DEF FileRecord
  <2>5. \A i \in 1..Len(old.candidates) :
          old.candidates[i].mtime \in Nat /\ old.candidates[i].path \in Paths
    <3>1. \A i \in 1..Len(old.candidates) : old.candidates[i] \in CandidateRecord
      BY <2>1
    <3> QED
      BY <3>1 DEF CandidateRecord
  <2>6. \A j \in 1..Len(old.docs) : old.docs[j].mtime \in Nat /\ old.docs[j].path \in Paths
    <3>1. \A j \in 1..Len(old.docs) : old.docs[j] \in DocumentRecord
      BY <2>1
    <3> QED
      BY <3>1 DEF DocumentRecord
  <2> HIDE DEF old
  <2>7. \A i \in 1..Len(s.scanned) : s.scanned[i].mtime <= clock'
    BY <1>4, <2>1, <2>2, <2>4 DEF TimesOf
  <2>8. \A i \in 1..Len(s.candidates) : s.candidates[i].mtime <= clock'
    BY <1>4, <2>1, <2>2, <2>5 DEF TimesOf
  <2>9. \A j \in 1..Len(s.docs) : ~s.docs[j].deleted =>
          /\ s.docs[j].mtime <= clock'
          /\ mtime'[s.docs[j].path] = s.docs[j].mtime /\ disk'[s.docs[j].path] # Absent =>
               s.docs[j].hash = disk'[s.docs[j].path]
    BY <1>5, <2>1, <2>2, <2>6 DEF TimesOf
  <2>10. /\ s.pc \in {"hash", "extract"} =>
              s.next \in 1..Len(s.candidates) /\ Current(s).status # "deleted"
         /\ s.pc = "extract" =>
              /\ s.hash # Absent /\ Current(s).mtime <= clock'
              /\ mtime'[Current(s).path] = Current(s).mtime /\ disk'[Current(s).path] # Absent =>
                   s.hash = disk'[Current(s).path]
    <3>1. Current(s) = Current(old)
      BY <2>2 DEF Current
    <3>2. old.pc \in {"hash", "extract"} =>
            /\ old.next \in 1..Len(old.candidates) /\ Current(old).status # "deleted"
            /\ Current(old).mtime \in Nat /\ Current(old).path \in Paths
      BY <2>1, <2>5 DEF TimesOf, Current
    <3>3. old.pc = "extract" =>
            old.hash # Absent /\ Known(Current(old).path, Current(old).mtime, old.hash)
      BY <2>1 DEF TimesOf
    <3> HIDE DEF s
    <3> QED
      BY <1>5, <2>2, <3>1, <3>2, <3>3
  <2>11. TimesOf(updater[u])'
    BY <2>7, <2>8, <2>9, <2>10 DEF TimesOf, Known, Current
  <2> QED
    BY <2>2, <2>3, <2>11
<1>7. UpdatersInv' /\ updater' \in [Updaters -> UpdaterRecord]
  BY <1>2, <1>6 DEF UpdatersInv, Disturbed
<1>8. IndexTypeOK'
  <2>1. clock' \in Nat
    BY <1>2
  <2>2. /\ rows \in [Paths -> RowRecord]
        /\ documents \in [Contents -> Contents \cup {NoText, NotStored}]
    BY <1>1 DEF IndexTypeOK
  <2> QED
    BY <1>2, <1>3, <1>7, <2>1, <2>2 DEF IndexTypeOK, NewTimes
<1>9. RowsKnown'
  <2>1. \A p \in Paths : rows[p].mtime \in Nat
    BY <1>1 DEF IndexTypeOK, RowRecord
  <2> QED
    BY <1>1, <1>2, <1>3, <1>5, <2>1 DEF RowsKnown, Known, NewTimes
<1>10. RowsStored' /\ RowsSettled'
  BY <1>1, <1>2 DEF RowsStored, RowsSettled
<1> QED
  BY <1>7, <1>8, <1>9, <1>10 DEF IndexInvariant

(* Removing orphans, a rebuild and a removal touch only the storage. *)
LEMMA StorageStep ==
  ASSUME IndexInvariant, UNCHANGED <<treeVars, updater>>,
         rows' \in [Paths -> RowRecord],
         documents' \in [Contents -> Contents \cup {NoText, NotStored}],
         settled' \in BOOLEAN, unhashed' \in SUBSET Paths, RowsStored', RowsSettled',
         \A p \in Paths : rows'[p].hash # Absent /\ ~rows'[p].deleted => rows'[p] = rows[p]
  PROVE  IndexInvariant'
<1>1. /\ head' = head /\ index' = index /\ disk' = disk /\ mtime' = mtime
      /\ clock' = clock /\ updater' = updater
  BY DEF treeVars
<1>2. IndexTypeOK /\ UpdatersInv /\ RowsKnown
  BY DEF IndexInvariant
<1>3. IndexTypeOK'
  BY <1>1, <1>2 DEF IndexTypeOK
<1>4. UpdatersInv'
  BY <1>1, <1>2
  DEF UpdatersInv, TimesOf, QuietOf, ScannedSoFar, CandidatesCover, DocumentsSoFar,
      OnDisk, Known, HiddenNow, InProgress, Current
<1>5. RowsKnown'
  BY <1>1, <1>2 DEF RowsKnown, Known
<1> QED
  BY <1>3, <1>4, <1>5 DEF IndexInvariant

LEMMA RemoveOrphansStep ==
  ASSUME IndexInvariant, RemoveOrphans
  PROVE  IndexInvariant'
<1>1. IndexTypeOK /\ RowsStored /\ RowsSettled
  BY DEF IndexInvariant
<1>2. PICK gone \in SUBSET Orphans :
        documents' = [hash \in Contents |->
                        IF hash \in gone THEN NotStored ELSE documents[hash]]
  BY DEF RemoveOrphans
<1>3. /\ UNCHANGED <<treeVars, updater>> /\ rows' = rows /\ settled' = settled
      /\ head' = head /\ index' = index /\ disk' = disk /\ unhashed' = unhashed
  BY DEF RemoveOrphans, treeVars, history
<1>4. documents' \in [Contents -> Contents \cup {NoText, NotStored}]
  BY <1>1, <1>2 DEF IndexTypeOK
<1>5. rows \in [Paths -> RowRecord] /\ settled \in BOOLEAN /\ unhashed \in SUBSET Paths
  BY <1>1 DEF IndexTypeOK
<1>6. \A p \in Paths : rows[p].hash # Absent => rows[p].hash \in Contents \ gone
  BY <1>5 DEF RowRecord, Orphans, Referenced
<1>7. RowsStored'
  BY <1>1, <1>2, <1>3, <1>6 DEF RowsStored
<1>8. RowsSettled'
  BY <1>1, <1>3 DEF RowsSettled, Recreated
<1> QED
  BY <1>3, <1>4, <1>5, <1>7, <1>8, StorageStep

LEMMA RebuildStep ==
  ASSUME IndexInvariant, rebuildIndexCatalog
  PROVE  IndexInvariant'
<1>1. /\ UNCHANGED <<treeVars, updater>> /\ rows' = [p \in Paths |-> NoRow]
      /\ documents' = [hash \in Contents |-> NotStored] /\ settled' = FALSE
      /\ unhashed' = {}
  BY DEF rebuildIndexCatalog, Unsettled
<1>2. NoRow \in RowRecord /\ NoRow.hash = Absent
  BY DEF NoRow, RowRecord, Statuses
<1>3. /\ rows' \in [Paths -> RowRecord]
      /\ documents' \in [Contents -> Contents \cup {NoText, NotStored}]
      /\ \A p \in Paths : rows'[p].hash = Absent
  BY <1>1, <1>2
<1>4. RowsStored' /\ RowsSettled'
  BY <1>1, <1>3 DEF RowsStored, RowsSettled
<1> QED
  BY <1>1, <1>3, <1>4, StorageStep

LEMMA RemoveDocumentStep ==
  ASSUME IndexInvariant, NEW p \in Paths, removeDocument(p)
  PROVE  IndexInvariant'
<1>1. IndexTypeOK /\ RowsStored
  BY DEF IndexInvariant
<1>2. rows \in [Paths -> RowRecord]
  BY <1>1 DEF IndexTypeOK
<1>3. /\ UNCHANGED <<treeVars, updater>> /\ documents' = documents /\ settled' = FALSE
      /\ unhashed' = {}
      /\ rows' = [rows EXCEPT ![p] = [rows[p] EXCEPT !.deleted = TRUE, !.status = "deleted"]]
  BY <1>2 DEF removeDocument, Unsettled
<1>4. /\ [rows[p] EXCEPT !.deleted = TRUE, !.status = "deleted"] \in RowRecord
      /\ [rows[p] EXCEPT !.deleted = TRUE, !.status = "deleted"].hash = rows[p].hash
      /\ [rows[p] EXCEPT !.deleted = TRUE, !.status = "deleted"].deleted
  BY <1>2 DEF RowRecord, Statuses
<1>5. /\ rows' \in [Paths -> RowRecord]
      /\ \A q \in Paths : rows'[q].hash = rows[q].hash
      /\ \A q \in Paths : ~rows'[q].deleted => rows'[q] = rows[q]
  BY <1>2, <1>3, <1>4
<1>6. documents' \in [Contents -> Contents \cup {NoText, NotStored}]
  BY <1>1, <1>3 DEF IndexTypeOK
<1>7. RowsStored' /\ RowsSettled'
  BY <1>1, <1>3, <1>5 DEF RowsStored, RowsSettled
<1> QED
  BY <1>3, <1>5, <1>6, <1>7, StorageStep

LEMMA InitialIndex == Init => IndexInvariant
<1> SUFFICES ASSUME Init PROVE IndexInvariant
  OBVIOUS
<1>1. \A u \in Updaters : updater[u] = IdleUpdater
  BY DEF Init
<1>2. UpdatersInv /\ updater \in [Updaters -> UpdaterRecord]
  BY <1>1, IdleIsFine DEF UpdatersInv, Init
<1>3. NoRow \in RowRecord /\ NoRow.hash = Absent
  BY DEF NoRow, RowRecord, Statuses
<1>4. /\ rows \in [Paths -> RowRecord] /\ mtime \in [Paths -> Nat] /\ clock \in Nat
      /\ documents \in [Contents -> Contents \cup {NoText, NotStored}]
      /\ head \in Trees /\ index \in Trees /\ disk \in Trees /\ settled \in BOOLEAN
      /\ unhashed \in SUBSET Paths
  BY <1>3 DEF Init
<1>5. IndexTypeOK
  BY <1>2, <1>4 DEF IndexTypeOK
<1>6. RowsKnown /\ RowsStored /\ RowsSettled
  BY <1>3 DEF Init, RowsKnown, RowsStored, RowsSettled
<1> QED
  BY <1>2, <1>5, <1>6 DEF IndexInvariant

LEMMA IndexStep == IndexInvariant /\ [Next]_vars => IndexInvariant'
<1> SUFFICES ASSUME IndexInvariant, [Next]_vars PROVE IndexInvariant'
  OBVIOUS
<1>1. CASE Change
  BY <1>1, ChangeStep
<1>2. CASE \E u \in Updaters : Update(u)
  BY <1>2, UpdateStep
<1>3. CASE RemoveOrphans
  BY <1>3, RemoveOrphansStep
<1>4. CASE rebuildIndexCatalog
  BY <1>4, RebuildStep
<1>5. CASE \E p \in Paths : removeDocument(p)
  BY <1>5, RemoveDocumentStep
<1>6. CASE UNCHANGED vars
  <2>1. /\ UNCHANGED <<treeVars, updater>> /\ rows' = rows /\ documents' = documents
        /\ settled' = settled /\ head' = head /\ index' = index /\ disk' = disk
        /\ unhashed' = unhashed
    BY <1>6 DEF vars, storeVars, treeVars, history
  <2>2. IndexTypeOK /\ RowsStored /\ RowsSettled
    BY DEF IndexInvariant
  <2>3. /\ rows' \in [Paths -> RowRecord] /\ settled' \in BOOLEAN
        /\ unhashed' \in SUBSET Paths
        /\ documents' \in [Contents -> Contents \cup {NoText, NotStored}]
    BY <2>1, <2>2 DEF IndexTypeOK
  <2>4. RowsStored' /\ RowsSettled'
    BY <2>1, <2>2 DEF RowsStored, RowsSettled, Recreated
  <2> QED
    BY <2>1, <2>3, <2>4, StorageStep
<1> QED
  BY <1>1, <1>2, <1>3, <1>4, <1>5, <1>6 DEF Next

-----------------------------------------------------------------------------
(* Every row of the catalog has its document: a publication stores the     *)
(* documents its rows name, and only documents no row names are removed.   *)
THEOREM IndexReferencesResolve == Spec => []ReferencesResolve
<1>1. IndexInvariant => ReferencesResolve
  BY DEF IndexInvariant, RowsStored, ReferencesResolve, Referenced
<1> QED
  BY <1>1, InitialIndex, IndexStep, PTL DEF Spec

(* PersistentIndexService::update: after an update during which nothing    *)
(* changed, and until something does, an indexed search sees each file of  *)
(* the working tree with its present content and no others; but for a file *)
(* at a path that was renamed away, of which nothing is said, and a file   *)
(* whose hash failed, which is seen so or not at all.                      *)
THEOREM IndexQuietUpdateShowsWhatItHashed == Spec => []QuietUpdateShowsWhatItHashed
<1>1. IndexInvariant => QuietUpdateShowsWhatItHashed
  <2> SUFFICES ASSUME IndexInvariant, settled, ~Recreated, NEW p \in Paths
               PROVE  View[p] = disk[p] \/ (p \in unhashed /\ View[p] = Absent)
    BY DEF QuietUpdateShowsWhatItHashed
  <2>1. disk \in [Paths -> Contents \cup {Absent}] /\ Absent \notin Contents
    BY OverlayAssumption DEF IndexInvariant, IndexTypeOK, Trees
  <2>2. View[p] = IF findDocument(p).deleted THEN Absent ELSE rows[p].hash
    BY DEF View
  <2>3. rows[p].deleted => View[p] = Absent
    <3>1. NoRow.deleted
      BY DEF NoRow
    <3> QED
      BY <2>2, <3>1 DEF findDocument
  <2>4. CASE disk[p] = Absent
    BY <2>3, <2>4 DEF IndexInvariant, RowsSettled
  <2>5. CASE disk[p] # Absent /\ rows[p].hash = disk[p] /\ ~rows[p].deleted
    <3>1. findDocument(p) = rows[p]
      BY <2>5 DEF findDocument, IndexInvariant, RowsStored
    <3> QED
      BY <2>2, <2>5, <3>1
  <2>6. CASE disk[p] # Absent /\ p \in unhashed /\ rows[p].deleted
    BY <2>3, <2>6
  <2> QED
    BY <2>4, <2>5, <2>6 DEF IndexInvariant, RowsSettled
<1> QED
  BY <1>1, InitialIndex, IndexStep, PTL DEF Spec

(* SQLiteStorageService: neither a publication whose reused documents      *)
(* carry no text, nor a removal of orphans, loses a text that a visible    *)
(* file has and keeps.                                                     *)
THEOREM IndexSharedTextSurvives == Spec => SharedTextSurvives
<1> DEFINE Kept == \A hash \in Contents :
                     (documents[hash] \in Contents
                        /\ \E p \in Paths : View[p] = hash /\ View'[p] = hash)
                     => documents'[hash] \in Contents
<1>1. ASSUME IndexInvariant, Next PROVE Kept
  <2> SUFFICES ASSUME NEW hash \in Contents, documents[hash] \in Contents,
                      NEW p \in Paths, View[p] = hash, View'[p] = hash
               PROVE  documents'[hash] \in Contents
    OBVIOUS
  <2>1. IndexTypeOK /\ Absent \notin Contents
    BY <1>1, OverlayAssumption DEF IndexInvariant
  <2>2. View[p] = IF findDocument(p).deleted THEN Absent ELSE rows[p].hash
    BY DEF View
  <2>3. rows[p].hash = hash
    BY <2>1, <2>2
  <2>4. CASE documents' = documents
    BY <2>4
  <2>5. CASE \E u \in Updaters : Publish(u)
    <3>1. PICK u \in Updaters : Publish(u)
      BY <2>5
    <3>2. documents'[hash] = StoredText(updater[u].docs, hash)
      BY <3>1 DEF Publish, publishGeneration
    <3>3. updater[u].docs \in Seq(DocumentRecord)
      BY <2>1, RecordOfUpdater
    <3> QED
      BY <2>1, <3>2, <3>3, PublishedText
  <2>6. CASE RemoveOrphans
    <3>1. hash \notin Orphans
      BY <2>1, <2>3 DEF Orphans, Referenced
    <3> QED
      BY <2>6, <3>1 DEF RemoveOrphans
  <2>7. CASE rebuildIndexCatalog
    <3>1. rows'[p] = NoRow
      BY <2>7 DEF rebuildIndexCatalog
    <3>2. findDocument(p)' = NoRow /\ NoRow.deleted
      BY <3>1 DEF findDocument, NoRow
    <3>3. View'[p] = Absent
      BY <3>2 DEF View
    <3> QED
      BY <2>1, <3>3
  <2>8. CASE \E u \in Updaters : Update(u) /\ ~Publish(u)
    <3>1. documents' = documents
      BY <2>8 DEF Update, Start, ScanFile, ReadOverlay, LookupDeleted, LookupReuses,
                  LookupMisses, HashFile, ExtractText, Abandon, storeVars
    <3> QED
      BY <2>4, <3>1
  <2>9. CASE Change \/ \E q \in Paths : removeDocument(q)
    <3>1. documents' = documents
      BY <2>9 DEF Change, removeDocument, storeVars
    <3> QED
      BY <2>4, <3>1
  <2> QED
    BY <1>1, <2>5, <2>6, <2>7, <2>8, <2>9 DEF Next
<1>2. IndexInvariant /\ [Next]_vars => [Kept]_vars
  BY <1>1
<1> QED
  BY <1>2, InitialIndex, IndexStep, PTL DEF Spec, SharedTextSurvives
=============================================================================
