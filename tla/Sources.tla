------------------------------ MODULE Sources ------------------------------
(***************************************************************************)
(* What lies between the disk and a result: finding the files (scanner,    *)
(* ignore rules, watchers), reading them (text, packages), and matching    *)
(* their lines (matchers, searchFile).                                     *)
(*                                                                         *)
(* Each of these parts is called with what the one before it returned and  *)
(* keeps nothing else, so every part is taken with all the inputs it may   *)
(* be given: a behaviour of this module is a behaviour of one part, chosen *)
(* at the start, while the others rest.                                    *)
(***************************************************************************)
EXTENDS FileScanner, GitIgnoreRules, FileWatchers, TextReader, TextMatcher,
        FileSearch, PackageExtraction

VARIABLE source

scanningVars == <<scannerVars, ignoreCall, watcherVars>>
readingVars  == <<textVars, packageVars>>
matchingVars == <<matchCall, vars>>
sourcesVars  == <<source, scanningVars, readingVars, matchingVars>>

Some(S) == CHOOSE s \in S : TRUE

SomeTextFile     == Some(TextFiles)
SomeTextChoice   == Some(TextChoices)
SomeSearchedFile == Some(SearchedFiles)
SomeBackend      == Some(Backends)

RestingText  == TextInitOf(SomeTextFile, SomeTextChoice)
RestingFile  == FileInit(SomeSearchedFile)
RestingWatch == WatcherInitOf(SomeBackend)

SourcesInit ==
  /\ ScannerInit /\ IgnoreInit /\ MatchInit /\ PackageInit
  /\ \/ source \in {"scan", "ignore", "match", "package"}
        /\ RestingText /\ RestingFile /\ RestingWatch
     \/ source = "watch" /\ RestingText /\ RestingFile /\ WatcherInit
     \/ source = "text" /\ TextInit /\ RestingFile /\ RestingWatch
     \/ source = "file" /\ RestingText /\ Init /\ RestingWatch

(* A step of one part; the others and the choice stay as they are. *)
Only(name, others) == source = name /\ UNCHANGED <<source, others>>

SourcesNext ==
  \/ Only("scan", <<ignoreCall, watcherVars, readingVars, matchingVars>>) /\ ScannerNext
  \/ Only("ignore", <<scannerVars, watcherVars, readingVars, matchingVars>>) /\ IgnoreNext
  \/ Only("watch", <<scannerVars, ignoreCall, readingVars, matchingVars>>) /\ WatcherNext
  \/ Only("text", <<scanningVars, packageVars, matchingVars>>) /\ TextNext
  \/ Only("package", <<scanningVars, textVars, matchingVars>>) /\ PackageNext
  \/ Only("match", <<scanningVars, readingVars, vars>>) /\ MatchNext
  \/ Only("file", <<scanningVars, readingVars, matchCall>>) /\ Next

SourcesSpec == SourcesInit /\ [][SourcesNext]_sourcesVars
=============================================================================
