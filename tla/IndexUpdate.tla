----------------------------- MODULE IndexUpdate -----------------------------
(***************************************************************************)
(* PersistentIndexService::update (src/core/index/                         *)
(* persistent-index-service.cpp) as DefaultIndexingService drives it, on   *)
(* the catalog of SQLiteStorageService, while files and the Git state of   *)
(* the worktree change, other processes update the same catalog, and the   *)
(* storage is maintained.                                                  *)
(*                                                                         *)
(* An update scans, reads the overlay, and takes the candidates one by     *)
(* one: it looks the path up in the catalog, and unless it can reuse the   *)
(* row it opens the file twice, for its hash and for its text.  What it    *)
(* keeps in memory is published in one transaction at the end.  A content  *)
(* stands for its SHA-256 hash and for its text, and the time of a file    *)
(* for its size and modification time: every write changes it.             *)
(***************************************************************************)
EXTENDS GitOverlay

CONSTANTS
  Updaters,   \* processes that update the index of this worktree
  Changes,    \* what happens to the worktree meanwhile
  MaxChanges, \* bound
  MaxUpdates  \* bound: updates started

NoText    == "no text"
NotStored == "not stored"

ASSUME UpdateAssumption ==
  /\ Changes \subseteq {"write", "remove", "move", "commit"}
  /\ MaxChanges \in Nat /\ MaxUpdates \in Nat
  /\ {NoText, NotStored} \cap Contents = {}

NoRow     == [hash |-> Absent, mtime |-> 0, status |-> "clean", deleted |-> TRUE]

VARIABLES
  head, index, disk,  \* the three trees of the worktree
  mtime,              \* of each path in the working tree
  clock,              \* changes so far
  rows,               \* the table "files" for this worktree
  documents,          \* the table "documents": the text of each hash
  updater,            \* what each process is doing
  updates,            \* updates started so far
  settled,            \* history: the rows are those of an undisturbed update
  unhashed            \* history: the files it could not hash

treeVars  == <<head, index, disk, mtime, clock>>
storeVars == <<rows, documents>>
history   == <<settled, unhashed>>
vars == <<treeVars, storeVars, updater, updates, history>>

(* History: "quiet", nothing changed since the update began; "unhashed",   *)
(* the paths it left out because no hash could be computed.                *)
IdleUpdater == [pc |-> "idle", scanned |-> <<>>, next |-> 1, candidates |-> <<>>,
                hash |-> Absent, docs |-> <<>>, quiet |-> TRUE, unhashed |-> {}]

Init ==
  /\ head \in Trees /\ index = head /\ disk = head
  /\ mtime = [p \in Paths |-> 0] /\ clock = 0
  /\ rows = [p \in Paths |-> NoRow]
  /\ documents = [c \in Contents |-> NotStored]
  /\ updater = [u \in Updaters |-> IdleUpdater]
  /\ updates = 0 /\ settled = FALSE /\ unhashed = {}

Candidate(u) == updater[u].candidates[updater[u].next]
Scanned(u)   == updater[u].pc = "scan" /\ updater[u].next > NumPaths

-----------------------------------------------------------------------------
(* The worktree changes: a file is written or removed, "git mv", "git add  *)
(* --all" with "git commit".                                               *)
Disturbed == [u \in Updaters |-> [updater[u] EXCEPT !.quiet = FALSE]]
Unsettled == settled' = FALSE /\ unhashed' = {}

Change ==
  /\ clock < MaxChanges
  /\ clock' = clock + 1
  /\ \/ \E p \in Paths, c \in Contents :
          /\ "write" \in Changes /\ disk[p] # c
          /\ disk' = [disk EXCEPT ![p] = c]
          /\ mtime' = [mtime EXCEPT ![p] = clock + 1]
          /\ UNCHANGED <<head, index>>
     \/ \E p \in Paths :
          /\ "remove" \in Changes /\ disk[p] # Absent
          /\ disk' = [disk EXCEPT ![p] = Absent]
          /\ UNCHANGED <<head, index, mtime>>
     \/ \E p, q \in Paths :
          /\ "move" \in Changes
          /\ index[p] # Absent /\ disk[p] # Absent
          /\ index[q] = Absent /\ disk[q] = Absent
          /\ index' = [index EXCEPT ![p] = Absent, ![q] = index[p]]
          /\ disk' = [disk EXCEPT ![p] = Absent, ![q] = disk[p]]
          /\ mtime' = [mtime EXCEPT ![q] = clock + 1]
          /\ UNCHANGED head
     \/ /\ "commit" \in Changes /\ head # disk
        /\ head' = disk /\ index' = disk
        /\ UNCHANGED <<disk, mtime>>
  /\ updater' = Disturbed
  /\ Unsettled
  /\ UNCHANGED <<storeVars, updates>>

-----------------------------------------------------------------------------
(* DefaultIndexingService::update: scan, then overlay. *)
Start(u) ==
  /\ updater[u].pc = "idle" /\ updates < MaxUpdates
  /\ updates' = updates + 1
  /\ updater' = [updater EXCEPT ![u] = [IdleUpdater EXCEPT !.pc = "scan"]]
  /\ UNCHANGED <<treeVars, storeVars, history>>

ScanFile(u) ==
  LET p == updater[u].next IN
    /\ updater[u].pc = "scan" /\ ~Scanned(u)
    /\ updater' = [updater EXCEPT
         ![u].next = p + 1,
         ![u].scanned = IF disk[p] = Absent THEN @
                        ELSE Append(@, [path |-> p, mtime |-> mtime[p]])]
    /\ UNCHANGED <<treeVars, storeVars, updates, history>>

ReadOverlay(u) ==
  /\ Scanned(u)
  /\ updater' = [updater EXCEPT
       ![u].pc = "lookup", ![u].next = 1,
       ![u].candidates = buildOverlayIndexCandidates(
          updater[u].scanned, workingTreeOverlay(head, index, disk))]
  /\ UNCHANGED <<treeVars, storeVars, updates, history>>

-----------------------------------------------------------------------------
(* The loop over the candidates. *)
AtCandidate(u, pc) ==
  updater[u].pc = pc /\ updater[u].next <= Len(updater[u].candidates)

MakeDocument(candidate, time, hash, text) ==
  [path |-> candidate.path, hash |-> hash, text |-> text, mtime |-> time,
   status |-> candidate.status, deleted |-> candidate.status = "deleted"]

(* retainDocument, and the next candidate. *)
Retain(u, document) ==
  updater' = [updater EXCEPT ![u].docs = Append(@, document),
                             ![u].pc = "lookup", ![u].next = @ + 1]

Skip(u) == updater' = [updater EXCEPT ![u].pc = "lookup", ![u].next = @ + 1]

(* The catalog's rows come with their document (an inner join). *)
findDocument(p) ==
  IF rows[p].hash # Absent /\ documents[rows[p].hash] # NotStored
  THEN rows[p] ELSE NoRow

ReuseWithoutTime(row, candidate) ==
  row.hash # Absent /\ ~row.deleted /\ candidate.status = "clean"
    /\ row.status = "clean"
canReuseCatalogDocument(row, candidate) ==
  /\ row.hash # Absent /\ ~row.deleted
  /\ row.mtime = candidate.mtime
  /\ row.status = "clean" /\ candidate.status = "clean"

(* A deleted path leaves a tombstone if the catalog knows the path. *)
LookupDeleted(u) ==
  /\ AtCandidate(u, "lookup") /\ Candidate(u).status = "deleted"
  /\ LET row == findDocument(Candidate(u).path) IN
       \/ /\ row.hash # Absent
          /\ Retain(u, MakeDocument(Candidate(u), row.mtime, row.hash, NoText))
       \/ row.hash = Absent /\ Skip(u)
  /\ UNCHANGED <<treeVars, storeVars, updates, history>>

(* makeReusedIndexDocument carries no text: the stored one stays. *)
LookupReuses(u) ==
  /\ AtCandidate(u, "lookup") /\ Candidate(u).status # "deleted"
  /\ LET row == findDocument(Candidate(u).path) IN
       /\ canReuseCatalogDocument(row, Candidate(u))
       /\ Retain(u, MakeDocument(Candidate(u), Candidate(u).mtime, row.hash, NoText))
  /\ UNCHANGED <<treeVars, storeVars, updates, history>>

LookupMisses(u) ==
  /\ AtCandidate(u, "lookup") /\ Candidate(u).status # "deleted"
  /\ ~canReuseCatalogDocument(findDocument(Candidate(u).path), Candidate(u))
  /\ updater' = [updater EXCEPT ![u].pc = "hash"]
  /\ UNCHANGED <<treeVars, storeVars, updates, history>>

(* computeFileContentHash opens and reads the file.  Any failure, of a     *)
(* file that is gone, may not be read or is locked, leaves the path out.   *)
LeaveOut(u) ==
  updater' = [updater EXCEPT ![u].unhashed = @ \cup {Candidate(u).path},
                             ![u].pc = "lookup", ![u].next = @ + 1]

HashFile(u) ==
  LET content == disk[Candidate(u).path] IN
    /\ AtCandidate(u, "hash")
    /\ \/ /\ content # Absent
          /\ updater' = [updater EXCEPT ![u].pc = "extract", ![u].hash = content]
       \/ LeaveOut(u)
    /\ UNCHANGED <<treeVars, storeVars, updates, history>>

(* readIndexedText opens it again; without a text (a binary file, an       *)
(* unsupported or protected document, a failure) the name is indexed.      *)
readIndexedText(content) == {NoText} \cup ({content} \ {Absent})

ExtractText(u) ==
  /\ AtCandidate(u, "extract")
  /\ \E text \in readIndexedText(disk[Candidate(u).path]) :
       Retain(u, MakeDocument(Candidate(u), Candidate(u).mtime,
                              updater[u].hash, text))
  /\ UNCHANGED <<treeVars, storeVars, updates, history>>

(* The update ends without a publication: cancelled, over the memory       *)
(* budget, no overlay, or the process dies.                                *)
Abandon(u) ==
  /\ updater[u].pc # "idle"
  /\ updater' = [updater EXCEPT ![u] = IdleUpdater]
  /\ UNCHANGED <<treeVars, storeVars, updates, history>>

-----------------------------------------------------------------------------
(* SQLiteStorageService. *)

(* upsertDocumentRecord in the order of the generation: the last document  *)
(* of a path makes its row; the last text of a hash makes its document,    *)
(* and a document without a text keeps the text that is stored.            *)
RowOf(docs, p) ==
  LET mine == {i \in DOMAIN docs : docs[i].path = p}
      d    == docs[Max(mine)]
  IN  IF mine = {} THEN NoRow
      ELSE [hash |-> d.hash, mtime |-> d.mtime, status |-> d.status,
            deleted |-> d.deleted]

StoredTextReplaced(docs, hash) ==
  LET mine == {i \in DOMAIN docs : docs[i].hash = hash} IN
    IF mine = {} THEN documents[hash] ELSE docs[Max(mine)].text

StoredText(docs, hash) ==
  LET mine  == {i \in DOMAIN docs : docs[i].hash = hash}
      texts == {i \in mine : docs[i].text # NoText}
  IN  CASE texts # {} -> docs[Max(texts)].text
        [] texts = {} /\ mine # {} /\ documents[hash] = NotStored -> NoText
        [] OTHER -> documents[hash]

PublishMerges(docs) ==
  /\ rows' = [p \in Paths |-> IF RowOf(docs, p) = NoRow THEN rows[p] ELSE RowOf(docs, p)]
  /\ documents' = [hash \in Contents |-> StoredText(docs, hash)]
publishGeneration(docs) ==
  /\ rows' = [p \in Paths |-> RowOf(docs, p)]
  /\ documents' = [hash \in Contents |-> StoredText(docs, hash)]

Publish(u) ==
  /\ updater[u].pc = "lookup"
  /\ updater[u].next > Len(updater[u].candidates)
  /\ publishGeneration(updater[u].docs)
  /\ settled' = updater[u].quiet
  /\ unhashed' = IF updater[u].quiet THEN updater[u].unhashed ELSE {}
  /\ updater' = [updater EXCEPT ![u] = IdleUpdater]
  /\ UNCHANGED <<treeVars, updates>>

Referenced == {rows[p].hash : p \in Paths} \ {Absent}
NotVisible == {hash \in Contents : documents[hash] # NotStored
                 /\ \A p \in Paths : rows[p].hash = hash => rows[p].deleted}
Orphans == {hash \in Contents : documents[hash] # NotStored} \ Referenced

(* collectOrphanDocuments and enforceDocumentBudget: all the orphans, or   *)
(* the oldest ones until the budget is met.                                *)
RemoveOrphans ==
  /\ Orphans # {}
  /\ \E gone \in SUBSET Orphans \ {{}} :
       documents' = [hash \in Contents |->
                       IF hash \in gone THEN NotStored ELSE documents[hash]]
  /\ UNCHANGED <<treeVars, rows, updater, updates, history>>

rebuildIndexCatalog ==
  /\ rows' = [p \in Paths |-> NoRow]
  /\ documents' = [hash \in Contents |-> NotStored]
  /\ Unsettled
  /\ UNCHANGED <<treeVars, updater, updates>>

removeDocument(p) ==
  /\ rows[p].hash # Absent
  /\ rows' = [rows EXCEPT ![p].deleted = TRUE, ![p].status = "deleted"]
  /\ Unsettled
  /\ UNCHANGED <<treeVars, documents, updater, updates>>

Update(u) ==
  \/ Start(u) \/ ScanFile(u) \/ ReadOverlay(u)
  \/ LookupDeleted(u) \/ LookupReuses(u) \/ LookupMisses(u)
  \/ HashFile(u) \/ ExtractText(u) \/ Publish(u) \/ Abandon(u)

Next ==
  \/ Change
  \/ \E u \in Updaters : Update(u)
  \/ RemoveOrphans \/ rebuildIndexCatalog \/ \E p \in Paths : removeDocument(p)

Spec == Init /\ [][Next]_vars

-----------------------------------------------------------------------------
(* visibleDocumentsForRoot: what an indexed search sees. *)
View == [p \in Paths |-> IF findDocument(p).deleted THEN Absent ELSE rows[p].hash]

(* A path that was renamed away in the index and has a new, untracked file *)
(* is hidden by the tombstone of the rename.                               *)
Recreated ==
  \E p \in Hidden(workingTreeOverlay(head, index, disk)) : disk[p] # Absent

(* An update during which nothing changes makes the index show exactly the *)
(* working tree, whatever earlier or concurrent updates, disturbed or      *)
(* not, left in the catalog: "modified and untracked files replace indexed *)
(* content, while deleted files are hidden" (docs/architecture/            *)
(* git-awareness.md).  Two exceptions: where a file lies at a path renamed *)
(* away nothing is said, and a file that is there but could not be hashed  *)
(* (it may not be read, or is locked) is left out, and the publication     *)
(* drops the row it had; it never keeps an older content.                  *)
QuietUpdateShowsWhatItHashed ==
  settled /\ ~Recreated =>
    \A p \in Paths : View[p] = disk[p] \/ (p \in unhashed /\ View[p] = Absent)

(* Every row has its document, also while orphans are removed. *)
ReferencesResolve == \A hash \in Referenced : documents[hash] # NotStored

(* A text that visible files share is never lost by publishing a reused    *)
(* document, which carries none, or by removing orphans.                   *)
SharedTextSurvives ==
  [][\A hash \in Contents :
       (documents[hash] \in Contents
          /\ \E p \in Paths : View[p] = hash /\ View'[p] = hash)
       => documents'[hash] \in Contents]_vars

(* The text stored under a hash is the text of that content: "the field is *)
(* addressed by the same document hash, so multiple paths, branches, or    *)
(* worktrees can reuse the same indexed text when they point to identical  *)
(* content" (docs/architecture/storage.md).                                *)
TextBelongsToHash ==
  \A hash \in Contents : documents[hash] \in {hash, NoText, NotStored}
=============================================================================
