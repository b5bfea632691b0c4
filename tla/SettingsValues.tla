--------------------------- MODULE SettingsValues ---------------------------
(***************************************************************************)
(* The typed settings above the textual preference table                   *)
(* (src/app/services/settings-service.cpp): parsing, normalisation,        *)
(* inheritance, and the export document.                                   *)
(*                                                                         *)
(* A text is coded as an integer: a natural number stands for its decimal  *)
(* text, the other codes for the texts that are no number.  The numeric    *)
(* settings (threads, file size, result limit, memory and disk budget)     *)
(* differ only in their maximum and in what zero means, so they are the    *)
(* members of Sizes; resultLimit is the one for which zero means nothing.  *)
(* Theme, language and friendly name are texts that are passed through and *)
(* are left out.                                                           *)
(***************************************************************************)
EXTENDS Integers, Sequences

CONSTANTS
  SizeOrder,         \* the numeric settings, in the order a save writes them
  Maximum,           \* the largest value of each
  defaultResultLimit

Sizes == {SizeOrder[i] : i \in DOMAIN SizeOrder}

TrueText  == -1
FalseText == -2
Garbage   == -3      \* a text that no parser accepts
Unset     == -4      \* no row, an empty optional
NoNumber  == -5      \* what an export file has where a number is expected

ASSUME SettingsAssumption ==
  /\ SizeOrder \in Seq(STRING)
  /\ "resultLimit" \in Sizes
  /\ {"telemetryEnabled", "respectGitignore"} \cap Sizes = {}
  /\ Maximum \in [Sizes -> Nat] /\ Maximum["resultLimit"] > 0
  /\ defaultResultLimit \in Nat \ {0} /\ defaultResultLimit <= Maximum["resultLimit"]

GlobalFields     == Sizes \cup {"telemetryEnabled"}
RepositoryFields == Sizes \cup {"respectGitignore"}

Texts         == Nat \cup {TrueText, FalseText, Garbage}
OptionalTexts == Texts \cup {Unset}
OptionalSizes == Nat \cup {Unset}
OptionalBools == {TrueText, FalseText, Unset}

GlobalSettings ==
  {settings \in [GlobalFields -> Nat \cup {TrueText, FalseText}] :
     /\ \A field \in Sizes : settings[field] \in Nat
     /\ settings["telemetryEnabled"] \in {TrueText, FalseText}}
RepositorySettings ==
  {settings \in [RepositoryFields -> OptionalSizes \cup OptionalBools] :
     /\ \A field \in Sizes : settings[field] \in OptionalSizes
     /\ settings["respectGitignore"] \in OptionalBools}

-----------------------------------------------------------------------------
(* Parsers. *)
parseSize(text)         == IF text \in Nat THEN text ELSE Unset
parseBool(text)         == IF text \in {TrueText, 1} THEN TrueText ELSE FalseText
parseOptionalBool(text) ==
  CASE text \in {TrueText, 1}  -> TrueText
    [] text \in {FalseText, 0} -> FalseText
    [] OTHER                   -> Unset

valueOr(optional, default) == IF optional = Unset THEN default ELSE optional

-----------------------------------------------------------------------------
(* Normalisation. *)
limitedSize(value, maximum) == IF value > maximum THEN maximum ELSE value
limitedOptionalSize(value, maximum) ==
  IF value = Unset THEN Unset ELSE limitedSize(value, maximum)

normalizedGlobalSettings(settings) ==
  [field \in GlobalFields |->
     IF field \notin Sizes THEN settings[field]
     ELSE IF field = "resultLimit" /\ settings[field] = 0
          THEN defaultResultLimit
          ELSE limitedSize(settings[field], Maximum[field])]

zeroKeptRepositorySettings(settings) ==
  [field \in RepositoryFields |->
     IF field \notin Sizes THEN settings[field]
     ELSE limitedOptionalSize(settings[field], Maximum[field])]

normalizedRepositorySettings(settings) ==
  [field \in RepositoryFields |->
     IF field \notin Sizes THEN settings[field]
     ELSE IF field = "resultLimit" /\ settings[field] = 0 THEN Unset
          ELSE limitedOptionalSize(settings[field], Maximum[field])]

defaultGlobalSettings ==
  [field \in GlobalFields |->
     CASE field = "telemetryEnabled" -> FalseText
       [] field = "resultLimit"      -> defaultResultLimit
       [] OTHER                      -> 0]

(* loadGlobalSettings and loadRepositorySettings, from the rows they read; *)
(* a text that does not parse leaves the default or the setting unset.     *)
globalSettingsFromRows(rows) ==
  normalizedGlobalSettings(
    [field \in GlobalFields |->
       IF rows[field] = Unset THEN defaultGlobalSettings[field]
       ELSE IF field \in Sizes
            THEN valueOr(parseSize(rows[field]), defaultGlobalSettings[field])
            ELSE parseBool(rows[field])])

repositorySettingsFromRows(rows) ==
  normalizedRepositorySettings(
    [field \in RepositoryFields |->
       IF rows[field] = Unset THEN Unset
       ELSE IF field \in Sizes THEN parseSize(rows[field])
            ELSE parseOptionalBool(rows[field])])

(* The chain of defaults, global settings and repository overrides;        *)
(* telemetry is never overridden.                                          *)
effectiveRepositorySettings(global, repository) ==
  LET g == normalizedGlobalSettings(global)
      r == normalizedRepositorySettings(repository)
  IN  [field \in GlobalFields \cup RepositoryFields |->
         CASE field \in Sizes              -> valueOr(r[field], g[field])
           [] field = "respectGitignore"   -> valueOr(r[field], TrueText)
           [] field = "telemetryEnabled"   -> g[field]]

-----------------------------------------------------------------------------
(* The export document: what JsonReader accepts is the layout that         *)
(* writeSettingsExport writes, key by key, with nothing behind it.         *)
Document(global, searches) ==
  [format |-> "uburu-settings-export", version |-> 1, wellFormed |-> TRUE,
   global |-> global, savedSearches |-> searches]

writeSettingsExport(settings, searches) ==
  Document(normalizedGlobalSettings(settings), searches)

(* JsonReader throws at a missing key, a value of another type, a number   *)
(* out of range and anything behind the document.                          *)
HasExpectedTypes(document) ==
  /\ document.wellFormed
  /\ \A field \in Sizes : document.global[field] \in Nat
  /\ document.global["telemetryEnabled"] \in {TrueText, FalseText}

(* readSettingsExport also throws at another signature or version.         *)
Accepted(document) ==
  /\ document.format = "uburu-settings-export"
  /\ document.version = 1
  /\ HasExpectedTypes(document)

readGlobalSettings(document) == normalizedGlobalSettings(document.global)
=============================================================================
