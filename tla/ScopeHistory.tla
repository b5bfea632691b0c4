---------------------------- MODULE ScopeHistory ----------------------------
(***************************************************************************)
(* The folders a user has selected, included, excluded, marked as          *)
(* favourites and used lately, and their copy in QSettings                 *)
(* (apps/desktop/src/search-controller.cpp).  Every operation saves the    *)
(* whole state; loadScopeHistory restores it when the program starts.      *)
(***************************************************************************)
EXTENDS Naturals, FiniteSets, SequencesExt

CONSTANTS
  Directories,
  Parent,                    \* the directory above each, or NoDirectory
  maximumRecentDirectories,
  MaxScopeOperations         \* bound: operations of the user

NoDirectory == "none"

ASSUME ScopeAssumption ==
  /\ Parent \in [Directories -> Directories \cup {NoDirectory}]
  /\ maximumRecentDirectories \in Nat \ {0}
  /\ NoDirectory \notin Directories

VARIABLES
  directory,     \* directoryValue, or NoDirectory
  selected,      \* selectedDirectoryValues
  included,      \* includedDirectoryValues: folders inside each root
  excluded,      \* excludedDirectoryValues
  recent,        \* recentDirectoryValues
  favorites,     \* favoriteDirectoryValues
  stored,        \* the group "scope" of QSettings
  existing,      \* the directories that exist
  scopeOperations,
  fallback       \* history: the selection was not the stored one

scopeVars == <<directory, selected, included, excluded, recent, favorites,
               stored, existing, scopeOperations, fallback>>

(* The directories above each. *)
Above[path \in Directories] ==
  IF Parent[path] = NoDirectory THEN {} ELSE {Parent[path]} \cup Above[Parent[path]]

IsInside(path, root) == root \in Above[path]   \* strictly

Filters == [Directories -> Seq(Directories)]
(* In the JSON text of QSettings a root without folders has no entry.      *)
NoFilter == [root \in Directories |-> <<>>]

ScopeInit ==
  /\ directory = NoDirectory /\ selected = <<>>
  /\ included = NoFilter /\ excluded = NoFilter
  /\ recent = <<>> /\ favorites = <<>>
  /\ stored = [selected |-> <<>>, included |-> NoFilter, excluded |-> NoFilter,
               recent |-> <<>>, favorites |-> <<>>]
  /\ existing = Directories
  /\ scopeOperations = 0 /\ fallback = FALSE

-----------------------------------------------------------------------------
(* The entries of a list at some of its positions, in their order. *)
EntriesAt(list, positions) ==
  LET Nth(n) == CHOOSE i \in positions : Cardinality({j \in positions : j <= i}) = n
  IN  [n \in 1..Cardinality(positions) |-> list[Nth(n)]]

withoutDirectory(list, d) == EntriesAt(list, {i \in DOMAIN list : list[i] # d})
thoseThatExist(list)      == EntriesAt(list, {i \in DOMAIN list : list[i] \in existing})

MovedToFront(list, d) == <<d>> \o withoutDirectory(list, d)
MovedToEnd(list, d)   == Append(withoutDirectory(list, d), d)

SaveTooEarly ==
  /\ stored' = [selected |-> selected', included |-> included',
                excluded |-> excluded', recent |-> recent, favorites |-> favorites]
  /\ fallback' = FALSE

saveScopeHistory ==
  /\ stored' = [selected |-> selected', included |-> included',
                excluded |-> excluded', recent |-> recent',
                favorites |-> favorites']
  /\ fallback' = FALSE

Operation ==
  /\ scopeOperations < MaxScopeOperations
  /\ scopeOperations' = scopeOperations + 1
  /\ UNCHANGED existing

selectDirectory(d) ==
  /\ Operation
  /\ directory' = d /\ selected' = <<d>>
  /\ recent' = SubSeq(MovedToFront(recent, d), 1,
                      IF Len(MovedToFront(recent, d)) > maximumRecentDirectories
                      THEN maximumRecentDirectories
                      ELSE Len(MovedToFront(recent, d)))
  /\ UNCHANGED <<included, excluded, favorites>>
  /\ saveScopeHistory

removeSelectedDirectory(d) ==
  /\ Operation
  /\ selected' = withoutDirectory(selected, d)
  /\ included' = [included EXCEPT ![d] = <<>>]
  /\ excluded' = [excluded EXCEPT ![d] = <<>>]
  /\ directory' = IF directory # d THEN directory
                  ELSE IF selected' = <<>> THEN NoDirectory ELSE Head(selected')
  /\ UNCHANGED <<recent, favorites>>
  /\ saveScopeHistory

(* The root is the selected one, and the folder lies below it; otherwise   *)
(* only the status says why nothing happens.                               *)
ContainingRoot(d) == {root \in ToSet(selected) : IsInside(d, root)}

addIncludedDirectory(d) ==
  /\ Operation
  /\ \E root \in ContainingRoot(d) :
       included' = [included EXCEPT ![root] = MovedToEnd(@, d)]
  /\ UNCHANGED <<directory, selected, excluded, recent, favorites>>
  /\ saveScopeHistory

removeIncludedDirectory(root, d) ==
  /\ Operation
  /\ included' = [included EXCEPT ![root] = withoutDirectory(@, d)]
  /\ UNCHANGED <<directory, selected, excluded, recent, favorites>>
  /\ saveScopeHistory

addExcludedDirectory(d) ==
  /\ Operation
  /\ \E root \in ContainingRoot(d) :
       excluded' = [excluded EXCEPT ![root] = MovedToEnd(@, d)]
  /\ UNCHANGED <<directory, selected, included, recent, favorites>>
  /\ saveScopeHistory

removeExcludedDirectory(root, d) ==
  /\ Operation
  /\ excluded' = [excluded EXCEPT ![root] = withoutDirectory(@, d)]
  /\ UNCHANGED <<directory, selected, included, recent, favorites>>
  /\ saveScopeHistory

toggleFavoriteDirectory(d) ==
  /\ Operation
  /\ favorites' = IF d \in ToSet(favorites) THEN withoutDirectory(favorites, d)
                  ELSE <<d>> \o favorites
  /\ UNCHANGED <<directory, selected, included, excluded, recent>>
  /\ saveScopeHistory

toggleCurrentDirectoryFavorite ==
  directory # NoDirectory /\ toggleFavoriteDirectory(directory)

(* loadScopeHistory in a new controller: the last stored selection that    *)
(* exists, else the most recent directory that exists.  Nothing is saved.  *)
loadScopeHistory ==
  LET there  == thoseThatExist(stored.selected)
      lately == thoseThatExist(stored.recent)
      choice == IF there # <<>> THEN <<there[Len(there)]>>
                ELSE IF lately # <<>> THEN <<Head(lately)>> ELSE <<>>
  IN  /\ selected' = choice
      /\ directory' = IF choice = <<>> THEN NoDirectory ELSE Head(choice)
      /\ fallback' = (there = <<>>)
      /\ included' = stored.included /\ excluded' = stored.excluded
      /\ recent' = stored.recent /\ favorites' = stored.favorites
      /\ UNCHANGED <<stored, existing, scopeOperations>>

(* Directories come and go. *)
DirectoryVanishesOrReturns ==
  /\ scopeOperations < MaxScopeOperations
  /\ scopeOperations' = scopeOperations + 1
  /\ \E d \in Directories :
       existing' = IF d \in existing THEN existing \ {d} ELSE existing \cup {d}
  /\ UNCHANGED <<directory, selected, included, excluded, recent, favorites,
                 stored, fallback>>

ScopeNext ==
  \/ \E d \in Directories :
       \/ selectDirectory(d) \/ removeSelectedDirectory(d)
       \/ addIncludedDirectory(d) \/ addExcludedDirectory(d)
       \/ toggleFavoriteDirectory(d)
       \/ \E root \in Directories :
            removeIncludedDirectory(root, d) \/ removeExcludedDirectory(root, d)
  \/ toggleCurrentDirectoryFavorite
  \/ loadScopeHistory
  \/ DirectoryVanishesOrReturns

ScopeSpec == ScopeInit /\ [][ScopeNext]_scopeVars

-----------------------------------------------------------------------------
(* "The last selected directory is restored ..., together with directory   *)
(* history and favorites": starting the program again restores everything  *)
(* the user had, if the selected directory still exists.                   *)
RestartRestoresScope ==
  [][loadScopeHistory /\ ~fallback /\ directory \in existing =>
       UNCHANGED <<directory, selected, included, excluded, recent, favorites>>
    ]_scopeVars
=============================================================================
