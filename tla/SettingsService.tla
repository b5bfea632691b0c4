-------------------------- MODULE SettingsService --------------------------
(***************************************************************************)
(* StorageSettingsService (src/app/services/settings-service.cpp) over the *)
(* preferences and the saved searches of the storage                       *)
(* (src/core/storage/sqlite-storage-service.cpp), used by several          *)
(* processes with a connection each.                                       *)
(*                                                                         *)
(* Every row is read and written by a statement of its own, so a save, a   *)
(* load, an export and an import are sequences of steps between which      *)
(* other processes run, and a process may die between two of them.         *)
(***************************************************************************)
EXTENDS SettingsValues

CONSTANTS
  Processes,
  Repository,         \* the scope of the one repository
  SavedGlobals,       \* what a user may save
  SavedOverrides,
  EditedTexts,        \* what may be found in a hand-edited database
  EditedDocuments,    \* what may be found in a hand-edited export file
  SearchNames, Searches,
  MaxOperations,      \* bound: operations begun
  MaxEdits            \* bound: hand edits

Global == "global"
Scopes == {Global, Repository}
FieldsOf(scope) == IF scope = Global THEN GlobalFields ELSE RepositoryFields

NoSearch   == 0
NoDocument == [format |-> "none"]
Unknown    == [field \in {} |-> 0]

ASSUME SettingsServiceAssumption ==
  /\ Repository # Global /\ "nobody" \notin Processes
  /\ SavedGlobals \subseteq GlobalSettings
  /\ SavedOverrides \subseteq RepositorySettings
  /\ EditedTexts \subseteq Texts
  /\ \A document \in EditedDocuments :
       document.savedSearches \subseteq SearchNames \X Searches

VARIABLES
  preferences,        \* preferences, by scope and key
  saved,       \* saved_searches, by name
  exportFile,        \* the export file
  process,     \* what each process is doing
  answer,      \* what the load that has just ended returned
  operations, edits,
  meant        \* history: the settings last saved without interference

settingsVars == <<preferences, saved, exportFile, process, answer,
                  operations, edits, meant>>

(* A read is <<scope, key>>, a write <<scope, key, text>>, in the order of *)
(* the statements; searches are what an import has still to save.          *)
Idle == [doing |-> "idle", todo |-> <<>>, seen |-> <<>>, scope |-> Global,
         settings |-> Unknown, searches |-> {}, undisturbed |-> FALSE]

Saving(doing, scope, writes, settings, searches) ==
  [doing |-> doing, todo |-> writes, seen |-> <<>>, scope |-> scope,
   settings |-> settings, searches |-> searches, undisturbed |-> TRUE]

Loading(doing, reads) ==
  [doing |-> doing, todo |-> reads, seen |-> <<>>, scope |-> Global,
   settings |-> Unknown, searches |-> {}, undisturbed |-> TRUE]

NoAnswer == [kind |-> "none"]

SettingsInit ==
  /\ preferences = [scope \in Scopes |-> [field \in FieldsOf(scope) |-> Unset]]
  /\ saved = [name \in SearchNames |-> NoSearch]
  /\ exportFile = NoDocument
  /\ process = [p \in Processes |-> Idle]
  /\ answer = NoAnswer
  /\ operations = 0 /\ edits = 0
  /\ meant = [scope \in Scopes |->
                IF scope = Global THEN defaultGlobalSettings
                ELSE [field \in RepositoryFields |-> Unset]]

-----------------------------------------------------------------------------
storageVars == <<preferences, saved, exportFile>>

GlobalOrder     == SizeOrder \o <<"telemetryEnabled">>
RepositoryOrder == SizeOrder \o <<"respectGitignore">>

OrderOf(scope)  == IF scope = Global THEN GlobalOrder ELSE RepositoryOrder

Reads(scope) == [i \in DOMAIN OrderOf(scope) |-> <<scope, OrderOf(scope)[i]>>]

SizeWrites(settings) ==
  [i \in DOMAIN SizeOrder |-> <<Global, SizeOrder[i], settings[SizeOrder[i]]>>]

(* saveGlobalSettings writes every key; saveRepositorySettings goes        *)
(* through all overrides and passes over (PassOver) those that are not set.*)
GlobalWrites(settings) ==
  [i \in DOMAIN GlobalOrder |->
     <<Global, GlobalOrder[i], settings[GlobalOrder[i]]>>]

RepositoryWrites(settings) ==
  [i \in DOMAIN RepositoryOrder |->
     <<Repository, RepositoryOrder[i], settings[RepositoryOrder[i]]>>]

Begin(p, operation) ==
  /\ process[p].doing = "idle" /\ operations < MaxOperations
  /\ operations' = operations + 1
  /\ process' = [process EXCEPT ![p] = operation]
  /\ answer' = NoAnswer
  /\ UNCHANGED <<storageVars, edits, meant>>

SaveGlobalSettings(p) ==
  \E settings \in SavedGlobals :
    LET normalized == normalizedGlobalSettings(settings)
    IN  Begin(p, Saving("save", Global, GlobalWrites(normalized), normalized, {}))

SaveRepositorySettings(p) ==
  \E settings \in SavedOverrides :
    LET normalized == normalizedRepositorySettings(settings)
    IN  Begin(p, Saving("save", Repository, RepositoryWrites(normalized),
                        normalized, {}))

LoadGlobalSettings(p) == Begin(p, Loading("load", Reads(Global)))

ResolveRepositorySettings(p) ==
  Begin(p, Loading("resolve", Reads(Global) \o Reads(Repository)))

ExportSettings(p) == Begin(p, Loading("export", Reads(Global)))

(* readSettingsExport throws before anything is written. *)
ImportSettings(p) ==
  /\ exportFile # NoDocument
  /\ IF Accepted(exportFile)
     THEN LET settings == readGlobalSettings(exportFile)
          IN  Begin(p, Saving("import", Global, GlobalWrites(settings), settings,
                              exportFile.savedSearches))
     ELSE Begin(p, Idle)

-----------------------------------------------------------------------------
(* One statement. *)
Disturb(scope, p) ==
  [q \in Processes |->
     IF q # p /\ (process[q].doing \in {"load", "resolve", "export"}
                    \/ process[q].scope = scope)
     THEN [process[q] EXCEPT !.undisturbed = FALSE] ELSE process[q]]

(* setPreference: an upsert. *)
WriteRow(p) ==
  /\ process[p].doing \in {"save", "import"} /\ process[p].todo # <<>>
  /\ LET write == Head(process[p].todo) IN
       /\ write[3] # Unset
       /\ preferences' = [preferences EXCEPT ![write[1]][write[2]] = write[3]]
       /\ process' = [Disturb(write[1], p) EXCEPT ![p].todo = Tail(@)]
       /\ meant' = [meant EXCEPT ![write[1]] = Unknown]
  /\ answer' = NoAnswer
  /\ UNCHANGED <<saved, exportFile, operations, edits>>

(* An override that is not set is not written: its row stays as it is.     *)
PassOver(p) ==
  /\ process[p].doing \in {"save", "import"} /\ process[p].todo # <<>>
  /\ Head(process[p].todo)[3] = Unset
  /\ process' = [process EXCEPT ![p].todo = Tail(@)]
  /\ answer' = NoAnswer
  /\ UNCHANGED <<storageVars, operations, edits, meant>>

(* preference: NULL and a missing row are both "no value". *)
ReadRow(p) ==
  /\ process[p].doing \in {"load", "resolve", "export"}
  /\ process[p].todo # <<>>
  /\ LET read == Head(process[p].todo) IN
       process' = [process EXCEPT ![p].todo = Tail(@),
                     ![p].seen = Append(@, preferences[read[1]][read[2]])]
  /\ answer' = NoAnswer
  /\ UNCHANGED <<storageVars, operations, edits, meant>>

(* saveSearch: an upsert by name; an import merges. *)
SaveSearch(p) ==
  /\ process[p].doing = "import" /\ process[p].todo = <<>>
  /\ \E search \in process[p].searches :
       /\ saved' = [saved EXCEPT ![search[1]] = search[2]]
       /\ process' = [process EXCEPT ![p].searches = @ \ {search}]
  /\ answer' = NoAnswer
  /\ UNCHANGED <<preferences, exportFile, operations, edits, meant>>

SavingEnds(p) ==
  /\ process[p].doing \in {"save", "import"} /\ process[p].todo = <<>>
  /\ process[p].searches = {}
  /\ process' = [process EXCEPT ![p] = Idle]
  /\ meant' = IF process[p].undisturbed
              THEN [meant EXCEPT ![process[p].scope] = process[p].settings]
              ELSE meant
  /\ answer' = NoAnswer
  /\ UNCHANGED <<storageVars, operations, edits>>

(* The preferences that a process has read, by key. *)
Seen(p, scope, first) ==
  [field \in FieldsOf(scope) |->
     LET i == CHOOSE n \in DOMAIN OrderOf(scope) : OrderOf(scope)[n] = field
     IN  process[p].seen[first + i]]

LoadedGlobal(p)     == globalSettingsFromRows(Seen(p, Global, 0))
LoadedRepository(p) ==
  repositorySettingsFromRows(Seen(p, Repository, Len(GlobalOrder)))

Answered(p, kind, value) ==
  answer' = [kind |-> kind, value |-> value, meant |-> meant,
             undisturbed |-> process[p].undisturbed]

LoadEnds(p) ==
  /\ process[p].todo = <<>>
  /\ \/ /\ process[p].doing = "load"
        /\ Answered(p, "global", LoadedGlobal(p))
     \/ /\ process[p].doing = "resolve"
        /\ Answered(p, "effective",
                    effectiveRepositorySettings(LoadedGlobal(p),
                                                LoadedRepository(p)))
  /\ process' = [process EXCEPT ![p] = Idle]
  /\ UNCHANGED <<storageVars, operations, edits, meant>>

ExportEnds(p) ==
  /\ process[p].doing = "export" /\ process[p].todo = <<>>
  /\ exportFile' = writeSettingsExport(LoadedGlobal(p),
               {<<name, saved[name]>> :
                  name \in {n \in SearchNames : saved[n] # NoSearch}})
  /\ process' = [process EXCEPT ![p] = Idle]
  /\ answer' = NoAnswer
  /\ UNCHANGED <<preferences, saved, operations, edits, meant>>

-----------------------------------------------------------------------------
(* Outside the program: the database or the export file is edited by hand. *)
EditRow ==
  /\ edits < MaxEdits /\ edits' = edits + 1
  /\ \E scope \in Scopes : \E field \in FieldsOf(scope), text \in EditedTexts :
       /\ preferences' = [preferences EXCEPT ![scope][field] = text]
       /\ process' = Disturb(scope, "nobody")
       /\ meant' = [meant EXCEPT ![scope] = Unknown]
  /\ answer' = NoAnswer
  /\ UNCHANGED <<saved, exportFile, operations>>

EditFile ==
  /\ edits < MaxEdits /\ edits' = edits + 1
  /\ exportFile' \in EditedDocuments
  /\ answer' = NoAnswer
  /\ UNCHANGED <<preferences, saved, process, operations, meant>>

(* A process dies; its connection has no open transaction here. *)
Crash(p) ==
  /\ process[p].doing # "idle"
  /\ process' = [process EXCEPT ![p] = Idle]
  /\ answer' = NoAnswer
  /\ UNCHANGED <<storageVars, operations, edits, meant>>

SettingsStep ==
  \E p \in Processes :
    \/ SaveGlobalSettings(p) \/ SaveRepositorySettings(p)
    \/ LoadGlobalSettings(p) \/ ResolveRepositorySettings(p)
    \/ ExportSettings(p) \/ ImportSettings(p)
    \/ WriteRow(p) \/ PassOver(p) \/ ReadRow(p) \/ SaveSearch(p) \/ SavingEnds(p)
    \/ LoadEnds(p) \/ ExportEnds(p)

SettingsNext ==
  \/ SettingsStep
  \/ \E p \in Processes : Crash(p)
  \/ EditRow \/ EditFile

SettingsSpec == SettingsInit /\ [][SettingsNext]_settingsVars

-----------------------------------------------------------------------------
Quiet(scopes) ==
  /\ answer.kind # "none" /\ answer.undisturbed
  /\ \A scope \in scopes : answer.meant[scope] # Unknown

(* What a save wrote in full and undisturbed is what an undisturbed load   *)
(* returns, whatever was in the rows before and through export and import; *)
(* a repository's override that was saved is in force, and telemetry is    *)
(* what the global settings say.                                           *)
QuietLoadIsLastSave ==
  /\ Quiet({Global}) /\ answer.kind = "global" =>
       answer.value = answer.meant[Global]
  /\ Quiet(Scopes) /\ answer.kind = "effective" =>
       \A field \in GlobalFields \cup RepositoryFields :
         LET override == IF field \in RepositoryFields
                         THEN answer.meant[Repository][field] ELSE Unset
         IN  /\ override # Unset => answer.value[field] = override
             /\ field = "telemetryEnabled" =>
                  answer.value[field] = answer.meant[Global][field]

(* "Invalid or unknown persisted values fall back to safe defaults" and    *)
(* "non-zero values are clamped" (docs/architecture/storage.md): no load,  *)
(* torn or of a hand-edited database, returns a size outside its limits or *)
(* a result limit of zero.                                                 *)
LoadedIsSafe ==
  answer.kind # "none" =>
    /\ \A field \in Sizes : answer.value[field] \in 0..Maximum[field]
    /\ answer.value["resultLimit"] > 0

(* "RepositorySettings stores only explicit overrides" and any unset value *)
(* is inherited (docs/architecture/storage.md, settings-service.hpp): an   *)
(* override that was saved as unset is not in force.                       *)
UnsetOverrideInherits ==
  Quiet(Scopes) /\ answer.kind = "effective" =>
    answer.value = effectiveRepositorySettings(answer.meant[Global],
                                               answer.meant[Repository])
=============================================================================
