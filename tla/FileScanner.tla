---------------------------- MODULE FileScanner ----------------------------
(***************************************************************************)
(* RecursiveFileScanner::scan                                              *)
(* (src/core/filesystem/recursive-file-scanner.cpp) over a file system     *)
(* that changes while it is read.                                          *)
(*                                                                         *)
(* The file system is a set of named entries, numbered in the order of     *)
(* their path keys: directories, files, and links to either.  The scanner  *)
(* names what it finds by std::filesystem::relative, which resolves links, *)
(* so the relative path of a link is that of its target: below, the path   *)
(* of an entry is the sequence of the real entries from the root to it.    *)
(* What an ignore rule matches is a set of entries (GitIgnoreRules says    *)
(* which); "matching" is whether a file passes the extension and glob      *)
(* filters.                                                                *)
(***************************************************************************)
EXTENDS Naturals, FiniteSets, SequencesExt

CONSTANTS
  Trees,          \* file systems at the start
  ScanOptions,    \* includeSubdirectories, followSymlinks, respectGitignore,
                  \* includeHidden, maximumFileSize, included, excluded, rules
  MaxTreeChanges  \* bound: changes during a scan

Root == 0
Gone == -1        \* the parent of an entry that does not exist

VARIABLES
  tree, options,
  stack,          \* the recursion: the innermost directory is last
  visited,        \* visitedDirectories, by canonical path
  found,          \* what the sink received
  scanState,      \* "idle", "scanning", "complete" or "cut short"
  scanStop,
  treeChanges,
  touched         \* history: entries that were changed

scannerVars == <<tree, options, stack, visited, found, scanState, scanStop,
                 treeChanges, touched>>

Entries == DOMAIN tree

Real(e) == IF tree[e].kind = "link" THEN tree[e].target ELSE e

(* Moves never make a directory its own ancestor. *)
Chain(e) ==
  LET chain[d \in Entries] == IF d = Root \/ tree[d].parent = Gone THEN <<d>>
                              ELSE Append(chain[tree[d].parent], d)
  IN  chain[e]

Exists(e) == Chain(e)[1] = Root

(* A link to nothing is neither a directory nor a regular file. *)
Is(e, kind) ==
  tree[Real(e)].kind = kind /\ (tree[e].kind = "link" => Exists(Real(e)))
IsDirectory(e) == Is(e, "directory")

Path(e)   == Chain(Real(e))
Inside(e, directories) == \E i \in DOMAIN Path(e) : Path(e)[i] \in directories

ScannerInit ==
  /\ tree = [e \in {Root} |-> [kind |-> "directory"]] /\ options = [rules |-> <<>>]
  /\ stack = <<>> /\ visited = {} /\ found = <<>>
  /\ scanState = "idle" /\ scanStop = FALSE
  /\ treeChanges = 0 /\ touched = {}

-----------------------------------------------------------------------------
(* GitIgnoreRules::ignores: the last rule that matches decides. *)
ignores(rules, e) ==
  LET decisive == SelectLastInSeq(rules, LAMBDA rule : Real(e) \in rule.matches)
  IN  /\ options.respectGitignore
      /\ decisive # 0 /\ ~rules[decisive].negated

(* sortedDirectoryEntries: directories first, then files by size; a link   *)
(* is sorted by what it leads to and by its own name.                      *)
ListedBefore(a, b) ==
  IF IsDirectory(a) # IsDirectory(b) THEN IsDirectory(a)
  ELSE IF ~IsDirectory(a) /\ tree[Real(a)].size # tree[Real(b)].size
       THEN tree[Real(a)].size < tree[Real(b)].size
       ELSE a < b

sortedDirectoryEntries(d) ==
  SetToSortSeq({e \in Entries \ {Root} : tree[e].parent = d}, ListedBefore)

EnterWithOwnRules(entry, rules) ==
  LET d == Real(entry) IN
    [entry |-> entry, inside |-> IF entry = Root THEN Gone ELSE tree[entry].parent,
     directory |-> d, todo |-> sortedDirectoryEntries(d),
     rules |-> tree[d].ignoreFile]

Enter(entry, rules) ==
  LET d == Real(entry) IN
    [entry |-> entry, inside |-> IF entry = Root THEN Gone ELSE tree[entry].parent,
     directory |-> d, todo |-> sortedDirectoryEntries(d),
     rules |-> rules \o tree[d].ignoreFile]

(* The directories on the stack are still where they were entered. *)
PathHolds ==
  \A i \in 2..Len(stack) :
    tree[stack[i].entry].parent = stack[i].inside

scan ==
  /\ scanState = "idle" /\ scanState' = "scanning"
  /\ tree' \in Trees /\ options' \in ScanOptions
  /\ visited' = {<<Root>>}
  /\ stack' = <<[entry |-> Root, inside |-> Gone, directory |-> Root,
                 todo |-> sortedDirectoryEntries(Root)',
                 rules |-> (options.rules \o tree[Root].ignoreFile)']>>
  /\ UNCHANGED <<found, scanStop, treeChanges, touched>>

Top   == stack[Len(stack)]
Item  == Head(Top.todo)
Under == [stack EXCEPT ![Len(stack)].todo = Tail(@)]

(* The item is still listed where it was read. *)
ItemHolds == PathHolds /\ tree[Item].parent = Top.directory

IsHidden == tree[Item].hidden /\ ~options.includeHidden

DirectoryPasses ==
  /\ options.includeSubdirectories
  /\ tree[Item].kind = "link" => options.followSymlinks
  /\ ~ignores(Top.rules, Item)
  /\ ~IsHidden
  /\ ~Inside(Item, options.excluded)

FilePasses ==
  /\ ~ignores(Top.rules, Item)
  /\ Is(Item, "file")
  /\ ~IsHidden
  /\ ~Inside(Item, options.excluded)
  /\ options.included # {} => Inside(Item, options.included)
  /\ tree[Item].matching
  /\ tree[Real(Item)].size <= options.maximumFileSize

Scanning == scanState = "scanning" /\ ~scanStop /\ stack # <<>> /\ Top.todo # <<>>

Unchanged == UNCHANGED <<tree, options, scanStop, treeChanges, touched>>

(* What is filtered out, or is no longer there: the type that the listing  *)
(* gave still counts, but the size of a file cannot be read.               *)
SkipItem ==
  /\ Scanning
  /\ \/ ~ItemHolds
     \/ ItemHolds /\ IsDirectory(Item) /\ ~DirectoryPasses
     \/ ItemHolds /\ IsDirectory(Item) /\ Path(Item) \in visited
     \/ ItemHolds /\ ~IsDirectory(Item) /\ ~FilePasses
  /\ stack' = Under
  /\ UNCHANGED <<visited, found, scanState>> /\ Unchanged

ScanDirectory ==
  /\ Scanning /\ ItemHolds /\ IsDirectory(Item) /\ DirectoryPasses
  /\ Path(Item) \notin visited
  /\ visited' = visited \cup {Path(Item)}
  /\ stack' = Append(Under, Enter(Item, Top.rules))
  /\ UNCHANGED <<found, scanState>> /\ Unchanged

(* A sink that refuses ends the whole scan. *)
PublishFile ==
  /\ Scanning /\ ItemHolds /\ ~IsDirectory(Item) /\ FilePasses
  /\ found' = Append(found, [entry |-> Item, path |-> Path(Item)])
  /\ \/ stack' = Under /\ UNCHANGED scanState
     \/ stack' = <<>> /\ scanState' = "cut short"
  /\ UNCHANGED visited /\ Unchanged

LeaveDirectory ==
  /\ scanState = "scanning" /\ stack # <<>> /\ Top.todo = <<>>
  /\ stack' = Front(stack)
  /\ scanState' = IF Len(stack) = 1 THEN "complete" ELSE scanState
  /\ UNCHANGED <<visited, found>> /\ Unchanged

(* The stop is seen before the next item; a directory without one is left. *)
StopScan ==
  /\ scanState = "scanning" /\ scanStop /\ stack # <<>> /\ Top.todo # <<>>
  /\ stack' = <<>> /\ scanState' = "cut short"
  /\ UNCHANGED <<visited, found>> /\ Unchanged

RequestScanStop ==
  /\ scanState = "scanning" /\ ~scanStop /\ scanStop' = TRUE
  /\ UNCHANGED <<tree, options, stack, visited, found, scanState, treeChanges, touched>>

-----------------------------------------------------------------------------
(* Outside the program: entries vanish, appear, move and grow. *)
Change(entries) ==
  /\ scanState = "scanning" /\ treeChanges < MaxTreeChanges
  /\ treeChanges' = treeChanges + 1 /\ touched' = touched \cup entries
  /\ UNCHANGED <<options, stack, visited, found, scanState, scanStop>>

Move(e) ==
  /\ \E d \in {x \in Entries : tree[x].kind = "directory"} \cup {Gone} :
       /\ d # tree[e].parent
       /\ d # Gone => e \notin ToSet(Chain(d))
       /\ tree' = [tree EXCEPT ![e].parent = d]
  /\ Change({e})

Grow(e) ==
  /\ tree[e].kind = "file" /\ tree' = [tree EXCEPT ![e].size = @ + 1]
  /\ Change({e})

ScannerNext ==
  \/ scan \/ SkipItem \/ ScanDirectory \/ PublishFile \/ LeaveDirectory
  \/ StopScan \/ RequestScanStop
  \/ \E e \in Entries \ {Root} : Move(e) \/ Grow(e)

ScannerSpec == ScannerInit /\ [][ScannerNext]_scannerVars

-----------------------------------------------------------------------------
(* What the options promise for a tree at rest, without links to follow:   *)
(* the rules of a directory are those of all directories above it, in this *)
(* order.                                                                  *)
RulesIn(d) ==
  options.rules \o FlattenSeq([i \in DOMAIN Chain(d) |-> tree[Chain(d)[i]].ignoreFile])

Visible(e) ==
  /\ ~ignores(RulesIn(tree[e].parent), e)
  /\ tree[e].hidden => options.includeHidden
  /\ ~Inside(e, options.excluded)

Expected(e) ==
  /\ Exists(e) /\ Is(e, "file") /\ Visible(e)
  /\ \A i \in 2..(Len(Chain(e)) - 1) : Visible(Chain(e)[i])
  /\ Len(Chain(e)) > 2 => options.includeSubdirectories
  /\ options.included # {} => Inside(e, options.included)
  /\ tree[e].matching /\ tree[Real(e)].size <= options.maximumFileSize

AtRest(e) ==
  touched \cap (ToSet(Chain(e)) \cup ToSet(Path(e))) = {}

Times(e) == Cardinality({i \in DOMAIN found : found[i].entry = e})

(* A scan that completes delivers every file that the options ask for and  *)
(* nothing else, once, whatever is moved, removed or created elsewhere at  *)
(* the same time; following links, cycles of links and links to ancestors  *)
(* included, no entry is delivered twice; and a file comes after the files *)
(* of the directories beside it and after smaller ones, the order of the   *)
(* comparison in recursive-file-scanner.cpp:289-307.  (The documents say   *)
(* "sorts entries in each directory by normalized path", docs/product/     *)
(* search-semantics.md:191: paths decide only among files of one size and  *)
(* among directories.)                                                     *)
ScanIsExact ==
  /\ \A e \in Entries : AtRest(e) => Times(e) <= 1
  /\ scanState = "complete" /\ ~options.followSymlinks =>
       \A e \in Entries \ {Root} :
         AtRest(e) => (Times(e) = 1 <=> Expected(e))
  /\ scanState # "idle" /\ ~options.followSymlinks =>
       \A i, j \in DOMAIN found :
         LET a == found[i].entry b == found[j].entry IN
           i < j /\ AtRest(a) /\ AtRest(b) =>
             /\ tree[a].parent = tree[b].parent => ListedBefore(a, b)
             /\ tree[a].parent \notin ToSet(Chain(tree[b].parent))
                  \/ tree[a].parent = tree[b].parent
=============================================================================
