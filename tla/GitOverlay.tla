----------------------------- MODULE GitOverlay -----------------------------
(***************************************************************************)
(* What a worktree looks like to the indexer: the overlay that             *)
(* Libgit2GitService::workingTreeOverlay derives from libgit2's status     *)
(* list (src/core/git/libgit2-git-service.cpp), and the candidates that    *)
(* buildOverlayIndexCandidates (src/core/index/index-overlay.cpp) makes of *)
(* it and of the scanned files.                                            *)
(*                                                                         *)
(* A tree gives each path a content, or Absent: HEAD, the Git index and    *)
(* the working tree are three trees.  Paths are numbered in the order of   *)
(* the scanner and of the status list.  Ignored and conflicted files and   *)
(* renames with changes are left out.                                      *)
(***************************************************************************)
EXTENDS Integers, Sequences, SequencesExt

CONSTANTS
  NumPaths,  \* bound: paths of a worktree
  Contents   \* what a file may hold

Paths  == 1..NumPaths
Absent == "absent"
Trees  == [Paths -> Contents \cup {Absent}]

ASSUME OverlayAssumption == NumPaths \in Nat /\ Absent \notin Contents

Statuses == {"clean", "modified", "added", "deleted", "untracked"}

(* libgit2 with GIT_STATUS_OPT_RENAMES_*: paths that went away are matched *)
(* with new ones of the same content, each with one at most.               *)
Renames(before, after) ==
  LET gone  == {p \in Paths : before[p] # Absent /\ after[p] = Absent}
      came  == {p \in Paths : before[p] = Absent /\ after[p] # Absent}
      alike == {r \in [old : gone, new : came] : before[r.old] = after[r.new]}
      OneToOne(R) == \A r, s \in R : r # s => r.old # s.old /\ r.new # s.new
  IN  CHOOSE R \in SUBSET alike :
        OneToOne(R) /\ \A r \in alike \ R : ~OneToOne(R \cup {r})

(* The differences between two trees. *)
Deltas(before, after) ==
  LET renames == Renames(before, after)
      changed == {p \in Paths : before[p] # after[p]}
                   \ UNION {{r.old, r.new} : r \in renames}
      kind(p) == CASE before[p] = Absent -> "new"
                   [] after[p] = Absent  -> "deleted"
                   [] OTHER              -> "modified"
  IN  {[old |-> r.old, new |-> r.new, kind |-> "renamed"] : r \in renames}
        \cup {[old |-> p, new |-> p, kind |-> kind(p)] : p \in changed}

(* A status entry pairs a difference of the Git index that ends at a path  *)
(* with one of the working tree that begins there; either may be missing.  *)
StatusEntry(head, index, disk, p) ==
  [head_to_index    |-> {d \in Deltas(head, index) : d.new = p},
   index_to_workdir |-> {d \in Deltas(index, disk) : d.old = p}]

Kinds(deltas) == {d.kind : d \in deltas}

(* mapStatus: the first that applies. *)
mapStatus(entry) ==
  LET staged   == Kinds(entry.head_to_index)
      unstaged == Kinds(entry.index_to_workdir)
  IN  IF "new" \in staged THEN "added"
      ELSE IF "new" \in unstaged THEN "untracked"
      ELSE IF "deleted" \in staged \cup unstaged THEN "deleted"
      ELSE "modified"

preferredDelta(entry) ==
  CHOOSE d \in entry.head_to_index \cup entry.index_to_workdir :
    entry.index_to_workdir # {} => d \in entry.index_to_workdir

(* currentPath, previousPath (the path itself when there is none), and the *)
(* status of each entry of the list.                                       *)
OverlayEntry(entry) ==
  [path     |-> preferredDelta(entry).new,
   previous |-> IF "renamed" \in Kinds(entry.head_to_index \cup entry.index_to_workdir)
                THEN preferredDelta(entry).old ELSE preferredDelta(entry).new,
   status   |-> mapStatus(entry)]

workingTreeOverlay(head, index, disk) ==
  LET entry(p) == StatusEntry(head, index, disk, p)
      listed   == {p \in Paths : entry(p).head_to_index # {}
                                   \/ entry(p).index_to_workdir # {}}
  IN  [p \in listed |-> OverlayEntry(entry(p))]

(* hideIndexedPath, for the previous path of a rename and for a deleted    *)
(* path; each path is hidden once.                                         *)
HiddenBy(entry) == {p \in Paths : \/ p = entry.previous /\ entry.previous # entry.path
                                  \/ p = entry.path /\ entry.status = "deleted"}

Hidden(overlay) == UNION {HiddenBy(overlay[e]) : e \in DOMAIN overlay}

(* Scanned files keep their place and get the status of the last entry     *)
(* that shows them; the tombstones follow, in an order that says nothing,  *)
(* as each is for another path.                                            *)
statusOf(overlay, p) ==
  LET shown == {e \in DOMAIN overlay : overlay[e].path = p /\ overlay[e].status # "deleted"}
  IN  IF shown = {} THEN "clean" ELSE overlay[Max(shown)].status

buildOverlayIndexCandidates(scanned, overlay) ==
  LET hidden == SetToSeq(Hidden(overlay))
  IN  [i \in DOMAIN scanned |->
         [path |-> scanned[i].path, mtime |-> scanned[i].mtime,
          status |-> statusOf(overlay, scanned[i].path)]]
        \o [i \in DOMAIN hidden |->
              [path |-> hidden[i], mtime |-> 0, status |-> "deleted"]]
=============================================================================
