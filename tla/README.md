# A TLA+ model of Uburu

Uburu searches the text of files and documents, directly or through a local
index that knows Git worktrees. This directory holds TLA+ modules that model
its core, the TLC configurations that check them, and theorems about them that
TLAPS proves. `PROJECT.json` maps every definition to the lines it models and
lists runs, mutants, findings, hazards and theorems. Paths below are relative to
the repository, mostly to its `src/core/`.

## 1. Inventory

| Component | State it keeps | Operations | What is hard |
| --- | --- | --- | --- |
| `concurrency/bounded-queue.hpp` | deque, `closedValue`, two condition variables | `push`, `pop`, `close`, with stop tokens | lost wake-ups; close and stop racing with waiting calls |
| `concurrency/worker-pool.hpp` | a task queue, a `jthread` per worker | `submit`, `close`, `requestStop`, destructor | two kinds of stop token; joining a worker that waits |
| `search/direct-search-engine.cpp` | files in flight, one event queue each, summary, `workStopSource` | `search` | parallel files published in scanner order; limits, budget, failures, refusals, cancellation |
| `searchFile` in the same file | pending results, counters | per line, per segment, final flush | results held back for their context while limits and refusals end the file |
| `index/persistent-index-service.cpp` | none of its own; documents in memory during an update | `update`, `search`, `remove` | reads the catalog and the files long before it publishes |
| `index/index-overlay.cpp`, `git/libgit2-git-service.cpp` | none | overlay, candidate plan | one path in two roles |
| `storage/sqlite-storage-service.cpp` | SQLite tables `files`, `documents`, `generations`, `preferences`, histories | publication, lookup, maintenance, migrations, preferences, logs | several processes; stale reads; clocks; crash between steps |
| `src/app/services/indexing-service.cpp` | `currentState` | `update`, `reconcile`, `pause`, `resume` | shrunken scans, overlay failures |
| `src/app/services/search-service.cpp`, `adaptive-result-batcher.cpp` | batch size, pending batch, last memory figure | `search`, `searchWithEvents` | order and number of events on every way out |
| `src/app/services/settings-service.cpp` | preferences in the storage | load, save, export, import | many single writes; optional values |
| `filesystem/*-file-watcher.cpp` | snapshot, or watch descriptors | `poll` | lost events must be reported as such |
| `filesystem/recursive-file-scanner.cpp`, `git-ignore-rules.cpp` | visited directories, rule stacks | `scan` | a tree that changes; links; nested rules |
| `text/text-file-reader.cpp` | block, pending bytes, offsets | `readTextFileLines` | what straddles two blocks |
| `text/text-matcher.cpp`, `regex-matcher.cpp` | none | `findAllLiterals`, `findAll` | canonical equivalence, boundaries, empty matches |
| `document/{docx,open,pptx,xlsx}-*.cpp`, `archive/` | catalog, text so far | `extract`, `readCatalog`, `readEntry` | many parts of one file; limits; stops; a file replaced meanwhile |
| `diagnostics/` | log files, trace buffer | write, rotate, record | rotation by several writers |
| `apps/desktop/src/search-controller.cpp` | running, cancelling, latest id, watchers, models | start, cancel, index, preview | queued events of an old run |
| `apps/cli/` | options | one search | printing, a sink that may fail |

How they interact. An application builds a query and calls `SearchService`,
which calls the direct engine, the persistent index, or both (hybrid). The
engine runs the scanner on the calling thread; the scanner calls back for each
file, and the engine searches small files on the spot and gives big ones to the
pool. Workers push results into a queue per file; the calling thread pops them
and calls the sink, which the desktop turns into queued events for the user
interface thread. Indexing runs on a thread of its own, or in another process,
with its own connection to the same database: it scans, asks libgit2 for the
status of the worktree, merges both into candidates, and publishes one
generation in one transaction.

What makes each correct:

- *queue*: what was pushed is popped, once and in order; the end is told only
  after everything; nobody sleeps through a notification; close and stop
  release their calls;
- *direct search*: the same results, order and outcome as a single thread would
  produce, with context lines and without; no deadlock; prompt cancellation; limits
  and budget kept;
- *search in a file*: held-back results come out in order, with the right
  context, and none stays behind;
- *index*: after an undisturbed update the index shows exactly the working tree, but
  for the files it could not hash; rows have their documents; shared text survives; a text belongs to its hash;
- *search events*: one `started`, batches in order, one terminal event that is true;
- *migrations*: a database reaches the current version with its data,
  whoever else initialises it at the same time;
- *settings*: what was saved is what is loaded, and whatever is in the store, what
  is loaded is within its limits;
- *scanner*: every file of the scope once, none that is ignored, in the stated order,
  although the tree changes elsewhere;
- *ignore rules, matchers*: the answer of the algorithm is that of the definition;
- *text reader*: the lines are those of the file, wherever the blocks end;
- *packages*: a completed extraction is the text of the document, whole and in order;
- *watchers*: a change is reported, or the batch says it may be incomplete;
- *desktop controller*: only the current search, preview and indexing run reach the
  user; what is cancelled ends; a restart restores the scope;
- *logs*: the newest rows are kept; "fresh" means the index is of this HEAD.

`PROJECT.json` lists the hazards, each at its line, with the properties that
would catch it going wrong.

## 2. Modules

Search core:

| Module | What it is |
| --- | --- |
| `BoundedQueue` | the queue at the grain of its mutex and condition variables |
| `BoundedQueueProofs` | theorems about it |
| `SearchInputs` | files and limits of a search, shared by the search modules |
| `SequentialSearch` | abstract specification: what a direct search promises |
| `DirectSearch` | the engine, its pool and its event queues; implements `SequentialSearch` |
| `DirectSearchProofs` | theorems about it |

From the disk to a result, composed in `Sources`:

| Module | What it is |
| --- | --- |
| `FileScanner` | the recursive scan of a tree that changes |
| `GitIgnoreRules` | globs, path operations, ignore files, character by character |
| `FileWatchers`, `FileWatchersProofs` | the four watchers, the kernel's queue, `reconcile`, and a theorem |
| `TextReader` | encodings and lines, block by block |
| `TextMatcher` | literal matching and the loop around PCRE2 |
| `FileSearch`, `FileSearchProofs` | `searchFile` with pending results and context lines, and theorems |
| `ZipArchive`, `PackageText` | catalog, entries and limits; the loops over the tags of a part |
| `PackageExtraction` | one extraction of a docx, odt, ods, odp, pptx or xlsx |
| `PackageReference` | documents written as structure, their XML, their true text |

Index and storage:

| Module | What it is |
| --- | --- |
| `GitOverlay` | from three trees to index candidates: pure operators |
| `IndexUpdate`, `IndexUpdateProofs` | updates of the index by several processes on one catalog, and theorems |
| `SchemaMigration` | initialisation of one database by several processes |
| `StorageProofs` | theorems about it and about `CatalogLog` |

Above them, composed in `Desktop`:

| Module | What it is |
| --- | --- |
| `SettingsValues`, `SettingsService` | typed settings over rows of text, by several processes |
| `SettingsServiceProofs` | theorems about them |
| `ScopeHistory` | the folders of the desktop's scope and their store |
| `DesktopSession` | searches, previews, indexing runs and queued events of the controller |
| `IndexSearch`, `SearchService` | the indexed search; one call of `searchWithEvents` |
| `DesktopProofs` | theorems about `ScopeHistory`, `DesktopSession` and `SearchService` |
| `CatalogLog` | histories, generations, staleness |

The `MC...` modules hold constants for TLC.

### BoundedQueue

A call of `push` or `pop` is a program counter: `outside`, `locked` (holds the
mutex, tests), `blocked`, `granted` (the wait has returned), `ended` (answered
false or empty, and its caller stops calling, as both callers in the program
do). Between `granted` and the end of the call the mutex is held, but a stop
source takes no lock, so `RequestStop` may come in between: that is why they are
two steps. `CloseMark` and `CloseNotify` are two because `close()` notifies
after the unlock. `notFull` and `notEmpty` are the sets of blocked threads;
`notify_one` removes any one of them; a wait may also end spuriously. A stop
request notifies all waits registered with that token, as the stop callback
inside `condition_variable_any::wait` does. `accepted` and `delivered` are
history. `peakSize` and the wait counters are left out.

### DirectSearch

The calling thread's program counter follows `search()`: `scan` (the scanner is
about to call back), `submit`, `ahead` (publishing everything in flight before a
small file), `sync` (searching a small file), `drain`, `publish` and `pop` (in
`publishFileTask`), `join`, `returned`. Each worker takes a task, emits its
matches and its completion into the file's event queue, and closes the queue.
The event queues and the task queue are used as atomic operations, which is what
`BoundedQueue` shows of them. `stop` is `workStopSource`; `poolStop` are the
tokens of the jthreads, which the file task ignores. `shouldSearchFileInParallel`
and the limits are as in the code; the roots of a scope are one list of files.

A file is a value of `SearchInputs`: its matches with their memory, the chunks
between which the reader looks at the stop token (chunk 0 is the path, which is
searched without a look at it), how the reading ends, and whether it is big. The
publisher may get three answers from the sink: true, false, an exception.

`HoldsBack` says whether the query asks for context lines after a match. Then a small
file's matches are found (`SyncFind`) before they are published (`SyncPublish`): `at`
counts the ones found, `taken` the ones the sink has, those between are pending. How
many lines a match waits is left open here (`FileSearch` counts them), so every delay
is a behaviour. When the reading ends, by a limit, a refusal, its end or a stop, the
thread goes through `flush`: `flushPending` offers what is pending without a look at
the token (`FlushResult`), and a result that was refused before is offered again, moved
from, weighing `EmptiedBytes` (`movedFrom`). Without context lines a match goes to the
sink as it is found, and a refusal ends the search. A worker that holds results back
pushes them with the stopped token, so the queue refuses them; a reading that throws
loses what it holds, on either thread (`SyncThrows`, `Throws`).

`Outcome` is what the caller learns. `ImplementsSequentialSearch` is
`SequentialSearch!SeqSpec` under `delivered` and `Outcome`: delivery of the
first promised match that is missing, in the scanner's order, and an end that must be
justified by what is missing (a limit only in front of a match that exceeds it,
`complete` only with nothing missing). A stop allows any prefix. Once a result was
turned down (`TurnDown`), nothing is delivered. What the documents do not say is
an action or a case of its own there: `DeliverEmptied`, one refused result that comes
again without its contents, after which those held back in the same file may follow;
`LostInThrow`; and `complete` after exactly `ResultLimit` matches (`MayEnd`).

`CancellationIsPrompt` compares what comes after the cancellation with `held`, what was
pending at that moment.

### FileSearch

`searchFile` on the calling thread, one action per line, match, and entry of the
pending results. Line 0 is the path of the file, which is searched first if the
query asks for names; its results wait for no context. `publishReadyPending` is
modelled entry by entry because the sink may refuse any of them; a refused entry
stays, emptied, as a moved-from object. A line may open a segment (a structured
document), and the matcher may give up on it. A result weighs one unit for itself,
one for its text and one per context line. How the reading ends (`readStatus`) is
an input; only the reading that nothing stopped is reported (`ReadSummaryFlags`).

### GitOverlay and IndexUpdate

`head`, `index` and `disk` are trees from paths to contents. `Deltas` and
`StatusEntry` describe libgit2's status list (external, from how
`workingTreeOverlay` uses it, including exact renames); `mapStatus`,
`OverlayEntry` and `buildOverlayIndexCandidates` are the repository's code.

An updater goes through `scan`, then `lookup`, `hash` and `extract` for each
candidate, then publishes. The worktree changes between any two steps (`Change`),
other updaters publish, orphan documents are removed, the catalog is rebuilt, and
an update may be abandoned at any point, by cancellation, by a limit or by the
death of the process; nothing is stored before the one transaction. A content
stands for its hash and its text; `mtime` stands for size and modification time
and changes with every write. Any hash may fail, of a file that is gone and of one that
is there but may not be read or is locked: the update leaves the file out (`LeaveOut`),
and the publication drops the row it had. `quiet`, `settled` and `unhashed` (the files
left out) are history for the property.

Left out: reuse by Git blob (`canReuseBlobDocument` asks for a candidate that is
clean and has a blob; only renamed overlay entries have one, and they are not
clean), the memory account, the counters, several worktrees in one catalog,
ignored and conflicted files, renames with changes.

### SchemaMigration

A process in `initialize` goes from `initial` (it has read the version in front of
the first schema, `seen`) through a test of each step (`test`), the transaction of
a step that is due (`apply`), and the final test (`final`) to `open`. The test and
the transaction are two actions because `applyMigrations` reads the version before
`BEGIN IMMEDIATE`. The first schema sets version 1 if the version *was* 0, and this
build's version 1 tables already have the columns of versions 6 and 7. The step to
version 3 copies both tables into new ones and thereby drops what later versions
added; all other steps only add. `Leave` is every way out: a refused database, an
error with its rollback, the end of the process. A database is its version, its
columns (grouped by the migration that adds them), documents, files and texts.
`ConcurrentFrom` restricts the environment: while the version is lower, nobody
begins while another process is in `initialize`. With 0 everything may happen.

### FileScanner, GitIgnoreRules

The scanner is a stack of directories being read, one action per entry. The tree
is a set of entries with parent, kind, size, ignore file; `Move` and `Grow` change
it between any two steps. The sort of a directory reads the sizes while it sorts;
since the order is then only defined for entries that keep their size, the property
speaks of entries that are `AtRest`. The order is the code's, directories first and then
files by size, not the path order of docs/product/search-semantics.md:191. `std::filesystem::relative` resolves links,
so the rules see a link under the path of its target. What a rule matches is a set
of entries there; `GitIgnoreRules` has the algorithms that decide it, on sequences
of characters: `Means` is what a glob means, `globMatches` how the code finds out.
An absolute path is not ignored; `/a` does not anchor; `build/` also ignores a file
of that name (docs/architecture/architecture.md:74 speaks of directories): the
model does as the code does.

### FileWatchers

One model of the disk and of the queue of the operating system (external), four
backends chosen at the start. The phases of a poll are those of the code: the walk
of the polling watcher, path by path; the events of inotify with the watches that
are added when a creation is read; the overlapped read, the timeout and `CancelIoEx`
on Windows; the callback and the pending batch on macOS. The caller reconciles a
batch or keeps in mind that it owes an update. `missed` is history: what a backend
cannot see. TLC found these cases, and the property names them:

- polling: a change that leaves the stamp as it was; a file that was created behind
  the walk (or a walk that was stopped), indexed by the update that followed, and
  removed before the next walk: it is in no snapshot, so its removal is no change;
- Linux: what happens in a directory that has no watch yet; a directory created while
  the queue overflowed, or nested in one whose creation was not read, gets none;
- Windows: what happens before the first poll, or between the timeout and its
  cancellation.

A batch that is polled while indexing is paused is dropped; the caller must ask for
a full update. No application of the repository uses the watchers.

### TextReader, TextMatcher

A file is a sequence of bytes and a block is two bytes long. `reader` has the
state of the decoding loops; "pending" is what they have not decoded. The property
compares the lines handed out with a definition on the whole file (`WholeText`)
which knows no blocks. The model has, as the code: bytes ignored by the policy do
not count in later offsets; a sink that refuses at a line feed ends the reading as
`lineTooLong`; the first line after a byte order mark, if empty, has offset 0; a
lone surrogate fails the reading also when invalid input is to be ignored.

`TextMatcher` has lines and expressions as code points: canonical order, clusters,
folding, boundaries. `Slices` defines the answer by equality of canonical forms, in
both modes, as in the code; docs/product/search-semantics.md:64 says that a case-sensitive
search matches code points exactly. Such a search also folds the composed capitals, which
the property leaves out by name.
The answers of `pcre2_match` are an input.

### ZipArchive, PackageText, PackageExtraction

An archive is its central directory and its local headers, an entry's content a
sequence of XML tokens. The limits, the order of the tests and the names refused are
the code's; `substr(start, end)` in `hasUnsafeSegment` takes an end for a count, and
the model does too (`HasUnsafeSegment`). An extraction goes through `catalog`,
`parts`, `text` or `slide`/`notes` or `sheet`, `publish`. It opens the package again
for every part, so `ReplacePackage` may come between; a stop may also cut the loop
over a part short (`Walks`). `PackageReference` states sample documents as structure,
writes the XML of each, and says what its text is. The property leaves out two
things: packages replaced meanwhile, and presentations stopped in the text of the
last slide, whose cut text is handed over as completed. As in the code: a workbook
with a chart sheet is refused, listed sheets are read under the default limits, and
no checksum is verified.

### SettingsService, ScopeHistory

`preferences` is the table of texts; a save writes its rows one by one, a load reads
them one by one, and the other process, a crash, or a hand at the database may come
between. An override that is not set is passed over (`PassOver`), and its row stays.
`meant` is history: what the last complete, undisturbed save wanted. Three fields stand
for all: a size with a limit, the result limit with its default for zero, a switch that
must be "true" to be on.

`ScopeHistory` has one action per operation on the folders; every operation ends in
`saveScopeHistory`, which is part of it. `loadScopeHistory` is a start of the
program, at any time. docs/product/ui.md:23 speaks of adding roots; the code
replaces the selection, and so does the model.

### DesktopSession, SearchService, IndexSearch

The controller lives on one thread with an event loop. Tasks post events (`events`,
a queue) and their watchers post the finished signal into the same loop; `startSearch`,
`cancel`, `loadPreview`, `startIndexing`, `cancelIndexing` and the destructor's three
steps (`Destroy`, `StopIndexing`, `Destroyed`) come between any two deliveries.
Progress reports that were queued before `cancelIndexing()` replace its "cancelling"
for a while, as in the code. `OnSearchFinished` has a branch for an older search that
no behaviour reaches, because a new search is refused while one runs.

`SearchService` is one call: the strategies, the batcher with its adaptive size, the
result events, the cache figures of the hybrid, and every way out (refusal, stop,
exception, invalid query). What the direct engine finds is an input. A query with
context lines (`holdsBack`) may be handed more after a refusal or a stop: the engine's
flush offers the refused result again, emptied, and some of those behind it
(`AnswerResult`, `StopSeen`), once (`lastOffers`), and the service batches them as any
others, although a batch was refused. The engine's own budget, of which the emptied
result takes less, is left out here; `DirectSearch` has it. `shown`, `handedOut` and
`offeredAgain` are history: what the batches carried, what came from the engine or the
index, and where the refused result came again.

`IndexSearch` is the search of the persistent index, one match at a time, as steps of
that call, so that a stop may come between any two; the code looks at it only before
each document. A document is the number of matches in its path and in its text. A regular
expression that runs out of resources on one line ends the indexed search silently: such a
text counts up to that line (`givesUp`). Every result takes one unit of the budget. What
an index may answer at most is a set (`IndexAnswer`), and the order of the answers a
relation (`Earlier`), so that what is promised says nothing of how it is computed.

### CatalogLog

Histories and metrics with their retention, the generations of a worktree, the HEAD
an updater read before its update, and the two questions the application asks of
them (recent rows, staleness). The clock may be set back and HEAD may move at any
time. `createdAt` is read before `BEGIN IMMEDIATE`. A table is a set of rows with their
`AUTOINCREMENT` ids; since time and id order the rows totally, a list of recent rows is
known by the rows in it. `overtaken` is history: worktrees
whose updates overlapped, met another clock, or another HEAD.

### Sources and Desktop

The parts of each of these two compositions share no state: each is called with
values, keeps nothing of the caller's, and is here given all inputs of its
instance. A behaviour is therefore a behaviour of one part, chosen at the start, while
the others rest; it would add nothing to interleave them, and would multiply states.
The interactions themselves are inside the modules: watcher with indexing service,
extraction with archive, service with index search and batcher, controller with tasks.

## 3. Runs

| Run | Instance | Shows |
| --- | --- | --- |
| `queue` | 2 producers of 2 items, 2 consumers, capacity 2, 2 tokens | type, order, drained end, no lost wake-ups, liveness |
| `direct_search` | 3 files of 8 kinds, context lines, 2 workers, event queues of 1, result limit 3, per-file limit 2, budget 4, an emptied result of 1 | refinement, no blocking submit, prompt cancellation, termination |
| `direct_crowded` | 2 files of 7 kinds, no context lines, both limits 2, budget 2 | the refinement when one file alone exceeds the result limit, and nothing after a refusal |
| `direct_throw` | 2 big files of 2 matches | finding: a throwing sink hangs the search |
| `index_update` | 2 paths, 2 contents, 2 updaters, 2 changes, 2 updates | the index is the working tree but for what could not be hashed, references, shared text |
| `index_text` | 1 updater, 1 write | finding: the text of another content |
| `schema` | 2 processes, 10 databases of versions 0 to 8, `ConcurrentFrom` 3 | columns match the version, open stays usable, nothing stored is lost |
| `schema_first_start` | 2 processes, a new database, `ConcurrentFrom` 0 | finding: version 7 without its columns |
| `desktop` | see below | settings, scope, session, service, logs: ten properties |
| `sources` | see below | scanner, ignore rules, watchers, reader, matchers, packages, search of a file: nine properties |
| `settings_cleared` | 1 process that saves and loads, no crash, no edit by hand | finding: an override that was saved, then cleared and saved again, is loaded |
| `text_blocks` | files of up to 4 bytes, blocks of 2 | finding: a kept carriage return is dropped at the end |

`desktop` has 2 processes with 3 settings operations and one edit by hand; 4 folders
in two trees and 4 operations on the scope; 2 searches of up to 2 results, 2 previews
and one indexing run with a progress report; the calls of the search service over 3
direct answers, 3 indexes, 3 batchings, 4 queries and 3 strategies; 2 updaters, 2
HEADs, 2 times, 2 rows of retention and 4 operations on the logs.

`sources` has trees of 7 entries with links up and down and 2 changes during a scan;
all globs and texts of up to 4 characters and ignore files of up to 3 of 13 lines;
4 paths, a kernel queue of 2 events and 3 changes of the disk for each watcher; some
600 files of up to 6 bytes in 4 modes; all lines of up to 3 and expressions of up to 2
code points of 6, and all answers of PCRE2 of up to 3 calls; files of 4 lines of 6
kinds and, with the path, of 2 lines; and sample packages of each format, intact,
damaged in each header field, over each limit, with parts absent, in another order,
with archives that replace them.

Why the bounds are enough. Queue: with two threads on each side and room for two,
a notification can reach the wrong one of two waiters, room can appear while one
waits, and close can come at each point. Search: two workers and two files in
flight at most, so three files make the limit of files in flight bind; a queue
of one event makes every second push wait; a file has up to three matches,
more than the per-file limit, and two files exceed the result limit; a heavy match
exceeds the budget, its emptied form does not, and a lighter one is held back behind it;
with `HoldsBack` two matches can be pending when a limit, a refusal, a throw or the stop
comes. File: four lines hold two overlapping contexts of two lines,
a segment border inside them, and more matches than the limits. Index: two paths
can share a content, swap roles in a rename, and be written between hash and text;
two updaters can overtake each other at every step. Schema: two processes can each
be late for every step; a file with a document of either algorithm is what a copy
of the tables may lose. Settings: a save, an import and a load can interleave row by
row. Scope: four operations select, include below, lose the folder and start again.
Session: the second search, preview or click meets every rest of the first. Service:
three results fill a batch, leave one over, exceed each limit, and can be held back
behind a refused one. Logs: one row more
than the retention, two updates that overtake each other. Scanner: two changes move
an entry away from and into a directory already passed. Watchers: three changes
overflow a queue of two. Text: with blocks of two bytes every sequence of two and
three bytes straddles a border. Packages: two slides or sheets can change places and
one of them can be absent.

Deadlock checking is off where resting is allowed: a queue that nobody closes may rest
with everybody waiting, and the parts of `desktop`, `sources`, `settings_cleared` and
`text_blocks` end (the call is answered, the bound on operations is reached). In
`DirectSearch` the end is a stutter of its own (`Returned`), so a thread waiting for
ever would be reported.

Fairness. `BoundedQueue!FairSpec`: each thread runs when it can (weak fairness),
a notified thread gets the mutex although others take it again and again (strong
fairness of `Reacquire`; `std::mutex` does not promise it, every platform's does
in practice), and `close()` completes what it began. Nobody must close, stop or
wake spuriously. `DirectSearch!FairSpec`: weak fairness of the calling thread and
of each worker; nobody must cancel. `DesktopSession!SessionFairness`: the event loop
delivers what is queued, the destructor goes on when what it waits for is over, and
a task that was *told to stop* ends; that an undisturbed task ever ends is not assumed,
nor that the user does anything. All other modules are checked for safety only.

What `schema` assumes, that nobody races the start below version 3, nothing in the
code ensures: `schema_first_start` drops it. Without it a late process may also set
`user_version` back, and the other one's final test then refuses the database as
"newer than this build supports"; the `schema` run allows that too (`Leave`).

Findings. Each of the five `violation` runs checks one sentence of a document or a
comment against the code; `PROJECT.json` quotes it. Narrower disagreements were met
on the way and have no run; the models do what the code does, and the properties that
would be hit name the exception, by a condition of theirs or in the comment in front:

- a search that finds exactly `resultLimit` matches ends without `limitReached`
  (`direct-search-engine.cpp:440`, :750; docs/product/search-semantics.md:172-175 says it
  must be true once the limit is reached): `ImplementsSequentialSearch`, by the case
  `limit` of `MayEnd`;
- with context lines a refused result is moved from, stays pending, is offered again when
  the file is left and may be published although its full size did not fit, with those
  held back behind it (`direct-search-engine.cpp:392`, :645, :682; search-semantics.md:185):
  `ImplementsSequentialSearch`, by `DeliverEmptied`; `EventsTellTheSearch`, by
  `offeredAgain`; `ContextIsWhatSurrounds` and `NothingHeldBackAtEnd`;
- the results that wait for context lines when the reading of their file throws are lost
  (`direct-search-engine.cpp:787`, :978; no document speaks of it):
  `ImplementsSequentialSearch`, by `LostInThrow`;
- results held back are delivered after a cancellation (`direct-search-engine.cpp:645`,
  :682): `CancellationIsPrompt`, by `held`;
- a file that is there but cannot be hashed is left out of the index and loses its row
  (`persistent-index-service.cpp:749`; git-awareness.md:17):
  `QuietUpdateShowsWhatItHashed`, by `unhashed`;
- an untracked file at a path that was renamed away is hidden by the tombstone
  (`index-overlay.cpp:93`; docs/architecture/git-awareness.md:17):
  `QuietUpdateShowsWhatItHashed`, by `Recreated`;
- a directory is scanned with its directories first and then its smaller files
  (`recursive-file-scanner.cpp:289-307`), not by normalized path
  (search-semantics.md:191), so results come in that order too: `ScanIsExact` and, by the
  scanner's order, `ImplementsSequentialSearch`;
- a case-sensitive search compares by canonical equivalence and folds composed capitals
  (`text-matcher.cpp:243-380`; search-semantics.md:64): `MatchesAreExact`;
- the indexed search looks up `worktrees.root` as text, and the roots libgit2 gives
  end with a slash; only the command line uses the indexed search.

## 4. Proofs

Each theorem holds for every value of the constants that the named `ASSUME` of its
module admits; TLC evaluates these assumptions in the runs. Except for `LoadedIsSafe`,
no property is inductive as it stands. Each module strengthens its properties to an
invariant, which TLC checked on an instance before it was proved, and proves that the
initial states satisfy it, that every action preserves it, and that it implies them.

| Module | Theorems |
| --- | --- |
| `BoundedQueueProofs` | `TypeOK`, `InOrderExactlyOnce`, `DrainedBeforeEnd`, `NoLostProducer`, `NoLostConsumer` |
| `DirectSearchProofs` | `TypeOK`, `SubmitNeverBlocks`, `CancellationIsPrompt`, `ImplementsSequentialSearch` (a refinement) |
| `FileSearchProofs` | `PublishedInOrder`, `ContextIsWhatSurrounds`, `NothingHeldBackAtEnd` |
| `IndexUpdateProofs` | `ReferencesResolve`, `QuietUpdateShowsWhatItHashed`, `SharedTextSurvives` (a step property) |
| `StorageProofs` | `TypeOK`, `VersionMeansSchema`, `OpenMeansUsable`, `StoredSurvives`, `NewerIsLeftAlone` (two step properties) of `SchemaMigration`; `NewestRowsAreKept`, `FreshIndexIsOfThisHead` of `CatalogLog` |
| `FileWatchersProofs` | `QuietPollMeansUpToDate` |
| `SettingsServiceProofs` | `LoadedIsSafe`, `QuietLoadIsLastSave` |
| `DesktopProofs` | `RowsAreTheLatestSearch`, `PreviewIsTheLastRequest`, `IndexingStatusIsFinal` of `DesktopSession`; `RestartRestoresScope` of `ScopeHistory` (a step property); `EventsTellTheSearch` of `SearchService` |

**Queue.** For all sets of threads and tokens, capacities and numbers of items. The
invariant adds what the mutex gives: its holder is in a call (`HolderIsInCall`), a
producer past its wait was let through for a reason that still holds (`GrantedMayPush`),
the same for a consumer (`GrantedMayPop`), and a producer in a call has an item to offer
(`ProducerHasItem`). `DrainedBeforeEnd` needs `GrantedMayPush`: a producer that was
granted before `close()` tests `closedValue` again.

The second part of the module, on lost wake-ups, takes finite sets of threads. The
argument counts: the number of free slots (items) is at most the number of threads of
that kind that are in a call or notified. A push or a pop changes both sides by one, and
the caller leaves the set, so the notification must add another thread, or nobody waits.
The producers' theorem assumes that all producers share one token (`OneProducerToken`,
as in the search): a producer that is notified and then stopped leaves without using its
slot, which loses a wake-up if another producer's token is not stopped.

**Direct search.** For any number of workers, files, limits and kinds of files. Files in
the pool's queue that nobody took are in flight as well, in the scanner's order, so the
deque `tasks`, which has room for one more when a file is submitted, bounds them. The
invariant `SInv` says: events belong to their file, the published file is the front of
what was in flight, busy workers have files, and, until a stop, the taken files precede
the untaken ones (`ScannerOrder`) and nobody touched the events of the untaken ones. For
cancellation, `LateInv` says what has come late at each place of the program: nothing
where the thread waits for an event or for a file in front, which it does only after a
look at the token; and, while it searches a small file itself or flushes what that held
back, only what was held back at the cancellation and results of the chunk it was in.

The refinement maps every step of the engine to one delivery, to the end of the search
or to a stutter (`StepIsSequential`). Its invariant `OrderInv` says where the results
are on their way: what was delivered is what `SequentialSearch` promises up to a place
in the published file (`DeliveredInOrder`); the event queue of a file holds a stretch of
its matches without a gap, and its completion last (`QueueInOrder`, `QueuesInOrder`);
its worker goes on where the stretch ends (`WorkersInStep`); while a file is left,
a result is offered a second time only after it was turned down, and what follows it
only once it was taken (`Releasing`); and each flag of the
publisher, `limitReached` above all, is set for the reason that justifies the end it
leads to (`FlagsAreTrue`). So the match in front is the one `SequentialSearch` has due
(`FrontIsDue`), and when the caller returns, `Outcome` is an end it allows
(`WaysToEnd`).

**Search in one file.** For any file, context sizes, limits and budget. The code does
not say so, but the pending results are a queue: an entry that waits for fewer lines
stands in front of one that waits for more (`QueueInv`). Therefore what
`publishReadyPending` takes out of the middle is always at the front, which gives the
order (`OrderInv`); how long an entry still waits is how much of its context is missing,
and `previousContext` is the end of the segment so far (`BeforeInv`), which gives the
context (`ContextInv`); and what was counted is published or pending unless the sink
refused or the budget was spent (`CountInv`), which leaves nothing behind at the end.

**Index.** For any paths, contents, updaters and numbers of changes
(`UpdateAssumption`). A time is given to one content of a path only. So whatever carries
the present time of a file also carries its present content, even if its hash was taken
long after its time: a row (`RowsKnown`), a file being hashed, a document waiting for
its publication (`TimesOf`). That is what makes a row reusable. An updater that nothing
disturbed has scanned what is there, its candidates cover the working tree, and each
candidate behind it has a document with the present content, or is one it could not hash
(`QuietOf`); `RowsSettled` is the catalog after it has published, in which the files left
out have no visible row. Rows refer to stored documents (`RowsStored`)
because a publication stores what its rows refer to and the removal of orphans spares
what any row refers to, in one transaction each.

**Migrations.** For any number of processes, paths and hashes, under the assumption
`ConcurrentFrom >= 3`. The version alone says too little, since a late process may set
it back; the invariant `MInv` therefore speaks of what each process has passed: the
columns in front of its step are there and stay (`PassedIsThere`), whoever rebuilds
tables does it below version 3 (`RebuildsOnlyBelow3`), and below version 3 it is alone
and nothing has a text yet (`AloneBelow3`). `NewerIsLeftAlone` needs no such assumption:
with a newer version in the database no process is at a step or open, and one that is
to create the initial schema has not taken the database for an empty one
(`NewerIsSeen`).

**Logs.** For any processes, worktrees, commits, readings of the clock and retention
limit (`LogAssumption`). The deletion leaves the newest rows of those that are still
there, which are the newest ever recorded only because nothing comes back: a deleted
row had, and keeps, as many newer rows among those that stay as the limit admits
(`DeletedMeansFull`), whatever is recorded later and whatever the clock says
(`RetentionIsExact`). That every shorter list of recent rows is right follows from the
order alone (`NewestOfNewest`). For the staleness report: as long as the updates of a
worktree follow one another, the generation with the latest time is the one published
last, and it carries the commit whose files are visible (`UpdatesFollow`,
`LatestIsIndexed`); a worktree without a generation has no visible files
(`IndexedIsPublished`); and a report stands only until the next step (`ReportIsOfNow`).

**Watchers.** For any tree, any numbers of changes and any size of the kernel's queue
(`WatcherAssumption`), on each of the four backends. A path whose change the backend
could see and the index has not seen is signalled somewhere: in the kernel's queue, in
the poll, in what the caller owes, or, for the polling watcher, in the difference
between the path and the entries of the last walk (`KnownInv`). That difference could be
lost only if the entries knew less of a path than the index does (`EntriesInv`).
`WalkInv` is what a walk has collected as long as nothing changed, `StampsInv` says that
a new stamp is unlike all before it, `QuietInv` what remains when a poll reported
nothing.

**Settings.** `LoadedIsSafe` holds for any rows and any edits by hand:
`globalSettingsFromRows`, `effectiveRepositorySettings` and an import normalise whatever
they are given; since no step other than the end of a load sets `answer`, it needs
nothing about the rows, which is why no crash and no second process can break it.
`QuietLoadIsLastSave` follows every operation through its statements (`OperationInv`):
the rows hold what an undisturbed save has behind it, what an undisturbed load has seen
is still in the rows (`ReaderOf`), and settings that were normalised are fixed points of
writing, reading and normalising. `MeantInv` ties `meant` to the rows between
operations. `SettingsServiceAssumption` says that the settings and export files that the
users come up with have their types; texts edited by hand are any of `Texts`.

**Desktop.** For any number of searches, previews, runs, results and progress reports
(`SessionAssumption`). The event queue carries an answer past the moment at which its
request is replaced, so each of the three invariants says what may stand in the queue
and in which order. Searches: the rows shown, followed by the results of the latest
search that are queued, are what its task has sent, and its end comes last
(`SearchInv`). Previews: an answer in the queue is about the file of its request and
says "cancelled" only if that was told to stop; the controller listens to the last
request, which was not (`PreviewInv`). Indexing: nothing of a run stands behind its end,
and no second run begins in front of it (`IndexInv`).

**Scope.** For any folders (`ScopeAssumption`). The controller keeps its folder twice,
as `directory` and in the selection, and the store keeps only the selection; the two
agree after every operation (`SelectionIsDirectory`), and the store has what the
controller has but for a selection that a start could not restore (`StoredIsCurrent`),
because every operation ends in a save.

**Search service.** For any results of the engine, documents, batch sizes and limits
(`ServiceAssumption` gives their types only), any refusals, and a stop at any time. The
search of the index has taken exactly the answers in front of the match it tries next
(`IndexedInv`), so when it is over it has all of them, or as many as a limit admits, or
it was told to stop. `HandedOutInv`: what was handed out is what was shown and what waits
for its batch, and the first part of what is found, with the emptied result in between if
one came again; what remains continues it (`RestInv`), and is the rest of it unless the
call is to end. `EventsInv`: until the terminal event no event is terminal, and a refusal
is the last thing that happened, after which nothing waits, unless the engine holds
results back. `BatchInv`: a waiting batch is smaller than the batch size, which stays
within its bounds however it adapts. `SummaryInv`: a summary that is not cancelled speaks
of a search that handed out all that is found, each result once.

Only model-checked: all liveness, which is out of the prover's reach, as is `ENABLED`.
`ScanIsExact`, `IgnoreAnswersAreSound`, `TextIsBlindToBlocks`, `MatchesAreExact` and
`ExtractionIsFaithful` compare recursive functions and folds with a definition, which is
induction over data and cannot be done with the provers at hand.

## 5. Not modelled

- RTF, subtitle, HTML, PDF and plain-text extractors: sequential parsers of one file,
  without parts, order or concurrency; their tests compare outputs better than a model
  of their tables would. The PDF extractor runs an external program or scans bytes.
- Query validation and search scope: pure tests of one value; the models assume what
  they guarantee (limits above zero). The merge of search results and
  `planReconciliation`: no application calls them.
- The command-line Git service is a stub that reports errors. Discovery of repositories
  and worktrees is I/O on libgit2; only its status overlay is modelled.
- DTO conversions, storage paths, symbols (a registry without parsers), the command line
  (parsing, printing, one call), QML, packaging, benchmarks: no state the properties see.
- Diagnostics: log files and trace buffer. The rotation by two writers is a hazard
  without a property; nothing but a diagnosis reads the logs.

Parts of the modelled components that are left out: Git blob reuse, counters and the
memory account of `IndexUpdate`; ignored and conflicted files; metrics and error lists of
the direct search; highlights; UTF-16 offsets; status texts of the desktop; the rows of
`schema_migrations` and the lookup indexes.

## 6. What is left

In order: the composition of `FileWatchers` with the full `IndexUpdate` instead of an
update at one moment; Git blob reuse once a clean overlay entry can carry a blob.
