----------------------- MODULE SettingsServiceProofs -----------------------
(***************************************************************************)
(* What the typed settings guarantee for every table of preferences, and   *)
(* what the service therefore returns in every interleaving of its users:  *)
(* always something safe, and what was saved when nobody interferes.       *)
(*                                                                         *)
(* For the second, the invariant follows every operation through its       *)
(* statements: the rows hold what an undisturbed save has behind it, an    *)
(* undisturbed load has read what is still in the rows, and normal         *)
(* settings stay as they are when they are written, read and normalised.   *)
(***************************************************************************)
EXTENDS SettingsService, TLAPS

Safe(settings) ==
  /\ \A field \in Sizes : settings[field] \in 0..Maximum[field]
  /\ settings["resultLimit"] > 0

(* A text is parsed to a natural number or to nothing. *)
LEMMA ParsedSize ==
  \A text : parseSize(text) \in Nat \/ parseSize(text) = Unset
BY DEF parseSize

LEMMA LimitedSize ==
  ASSUME NEW value \in Nat, NEW maximum \in Nat
  PROVE  /\ limitedSize(value, maximum) \in 0..maximum
         /\ value > 0 /\ maximum > 0 => limitedSize(value, maximum) > 0
BY DEF limitedSize

LEMMA SizesAreFields ==
  /\ "resultLimit" \in Sizes
  /\ Sizes \subseteq GlobalFields /\ Sizes \subseteq RepositoryFields
  /\ \A field \in Sizes : Maximum[field] \in Nat
BY SettingsAssumption DEF GlobalFields, RepositoryFields

(* Natural numbers, whatever they are, are brought within the limits. *)
LEMMA NormalizedIsSafe ==
  ASSUME NEW settings, \A field \in Sizes : settings[field] \in Nat
  PROVE  Safe(normalizedGlobalSettings(settings))
<1> DEFINE n == normalizedGlobalSettings(settings)
<1>1. ASSUME NEW field \in Sizes, ~(field = "resultLimit" /\ settings[field] = 0)
      PROVE  n[field] = limitedSize(settings[field], Maximum[field])
  BY <1>1, SizesAreFields DEF normalizedGlobalSettings
<1>2. settings["resultLimit"] = 0 => n["resultLimit"] = defaultResultLimit
  BY SizesAreFields DEF normalizedGlobalSettings
<1>3. ASSUME NEW field \in Sizes PROVE n[field] \in 0..Maximum[field]
  <2>1. CASE field = "resultLimit" /\ settings[field] = 0
    BY <1>2, <2>1, SettingsAssumption
  <2>2. CASE ~(field = "resultLimit" /\ settings[field] = 0)
    BY <1>1, <2>2, LimitedSize, SizesAreFields
  <2> QED BY <2>1, <2>2
<1>4. n["resultLimit"] > 0
  <2>1. CASE settings["resultLimit"] = 0
    BY <1>2, <2>1, SettingsAssumption
  <2>2. CASE settings["resultLimit"] # 0
    <3>1. /\ settings["resultLimit"] \in Nat /\ settings["resultLimit"] > 0
          /\ Maximum["resultLimit"] \in Nat /\ Maximum["resultLimit"] > 0
      BY <2>2, SizesAreFields, SettingsAssumption
    <3>2. n["resultLimit"] = limitedSize(settings["resultLimit"], Maximum["resultLimit"])
      BY <1>1, <2>2, SizesAreFields
    <3> QED BY <3>1, <3>2, LimitedSize
  <2> QED BY <2>1, <2>2
<1> QED BY <1>3, <1>4 DEF Safe

(* Whatever texts the rows hold. *)
LEMMA LoadedGlobalIsSafe ==
  \A rows : Safe(globalSettingsFromRows(rows))
<1> SUFFICES ASSUME NEW rows PROVE Safe(globalSettingsFromRows(rows))
  OBVIOUS
<1> DEFINE parsed ==
      [field \in GlobalFields |->
         IF rows[field] = Unset THEN defaultGlobalSettings[field]
         ELSE IF field \in Sizes
              THEN valueOr(parseSize(rows[field]), defaultGlobalSettings[field])
              ELSE parseBool(rows[field])]
<1>1. ASSUME NEW field \in Sizes PROVE defaultGlobalSettings[field] \in Nat
  BY SizesAreFields, SettingsAssumption DEF defaultGlobalSettings
<1>2. ASSUME NEW field \in Sizes PROVE parsed[field] \in Nat
  BY <1>1, ParsedSize, SizesAreFields DEF valueOr
<1>3. Safe(normalizedGlobalSettings(parsed))
  BY <1>2, NormalizedIsSafe
<1> QED BY <1>3 DEF globalSettingsFromRows

(* Overrides are unset or within their limits, so what is in force is too. *)
LEMMA EffectiveIsSafe ==
  ASSUME NEW global, NEW rows, \A field \in Sizes : global[field] \in Nat
  PROVE  Safe(effectiveRepositorySettings(global, repositorySettingsFromRows(rows)))
<1> DEFINE parsed ==
      [field \in RepositoryFields |->
         IF rows[field] = Unset THEN Unset
         ELSE IF field \in Sizes THEN parseSize(rows[field])
              ELSE parseOptionalBool(rows[field])]
           once == normalizedRepositorySettings(parsed)
           r    == normalizedRepositorySettings(once)
           g    == normalizedGlobalSettings(global)
           Kept(settings) ==
             \A field \in Sizes : settings[field] = Unset \/ settings[field] \in Nat
<1>1. ASSUME NEW settings, Kept(settings)
      PROVE  LET n == normalizedRepositorySettings(settings) IN
               \A field \in Sizes :
                 n[field] = Unset
                   \/ /\ n[field] \in 0..Maximum[field]
                      /\ field = "resultLimit" => n[field] > 0
  <2> DEFINE n == normalizedRepositorySettings(settings)
  <2> SUFFICES ASSUME NEW field \in Sizes
               PROVE  n[field] = Unset
                        \/ /\ n[field] \in 0..Maximum[field]
                           /\ field = "resultLimit" => n[field] > 0
    OBVIOUS
  <2>1. CASE settings[field] = Unset
    BY <2>1, SizesAreFields
       DEF normalizedRepositorySettings, limitedOptionalSize
  <2>2. CASE field = "resultLimit" /\ settings[field] = 0
    BY <2>2, SizesAreFields DEF normalizedRepositorySettings
  <2>3. CASE settings[field] # Unset /\ ~(field = "resultLimit" /\ settings[field] = 0)
    <3>1. settings[field] \in Nat /\ Maximum[field] \in Nat
      BY <1>1, <2>3, SizesAreFields
    <3>2. n[field] = limitedSize(settings[field], Maximum[field])
      BY <2>3, SizesAreFields DEF normalizedRepositorySettings, limitedOptionalSize
    <3>3. field = "resultLimit" => settings[field] > 0 /\ Maximum[field] > 0
      BY <2>3, <3>1, SettingsAssumption
    <3> QED BY <3>1, <3>2, <3>3, LimitedSize
  <2> QED BY <2>1, <2>2, <2>3
<1>2. Kept(parsed)
  BY ParsedSize, SizesAreFields
<1>3. Kept(once)
  <2>1. \A field \in Sizes : once[field] = Unset \/ once[field] \in 0..Maximum[field]
    BY <1>1, <1>2
  <2> QED BY <2>1, SizesAreFields
<1>4. \A field \in Sizes :
        \/ r[field] = Unset
        \/ /\ r[field] \in 0..Maximum[field]
           /\ field = "resultLimit" => r[field] > 0
  BY <1>1, <1>3
<1>5. Safe(g)
  BY NormalizedIsSafe
<1>6. repositorySettingsFromRows(rows) = once
  BY DEF repositorySettingsFromRows
<1>7. \A field \in Sizes :
        effectiveRepositorySettings(global, once)[field] = valueOr(r[field], g[field])
  <2> DEFINE at(field) ==
        CASE field \in Sizes            -> valueOr(r[field], g[field])
          [] field = "respectGitignore" -> valueOr(r[field], TrueText)
          [] field = "telemetryEnabled" -> g[field]
  <2>1. effectiveRepositorySettings(global, once)
          = [field \in GlobalFields \cup RepositoryFields |-> at(field)]
    BY DEF effectiveRepositorySettings
  <2>2. ASSUME NEW field \in Sizes PROVE at(field) = valueOr(r[field], g[field])
    <3>1. field # "respectGitignore" /\ field # "telemetryEnabled"
      BY SettingsAssumption
    <3> HIDE DEF r, g
    <3> QED BY <3>1
  <2> HIDE DEF at
  <2> QED BY <2>1, <2>2, SizesAreFields
<1>8. \A field \in Sizes :
        /\ valueOr(r[field], g[field]) \in 0..Maximum[field]
        /\ field = "resultLimit" => valueOr(r[field], g[field]) > 0
  BY <1>4, <1>5 DEF valueOr, Safe
<1> QED BY <1>6, <1>7, <1>8, SizesAreFields DEF Safe

(* No load, however torn by other processes, crashes and edits of the      *)
(* database by hand, returns a size outside its limits or a result limit   *)
(* of zero (storage.md: "Invalid or unknown persisted values fall back to  *)
(* safe defaults"; settings-service.cpp).                                  *)
THEOREM SettingsLoadedIsSafe == SettingsSpec => []LoadedIsSafe
<1>1. SettingsInit => LoadedIsSafe
  BY DEF SettingsInit, LoadedIsSafe, NoAnswer
<1>2. ASSUME LoadedIsSafe, [SettingsNext]_settingsVars
      PROVE  LoadedIsSafe'
  <2>1. CASE answer' = answer
    BY <1>2, <2>1 DEF LoadedIsSafe
  <2>2. CASE answer' = NoAnswer
    BY <2>2 DEF LoadedIsSafe, NoAnswer
  <2>3. ASSUME NEW p \in Processes, LoadEnds(p) PROVE LoadedIsSafe'
    <3>1. ASSUME NEW kind, NEW value, Answered(p, kind, value), Safe(value)
          PROVE  LoadedIsSafe'
      BY <3>1 DEF Answered, LoadedIsSafe, Safe
    <3>2. Safe(LoadedGlobal(p))
      BY LoadedGlobalIsSafe DEF LoadedGlobal
    <3>3. Safe(effectiveRepositorySettings(LoadedGlobal(p), LoadedRepository(p)))
      <4>1. \A field \in Sizes : LoadedGlobal(p)[field] \in Nat
        BY <3>2, SizesAreFields DEF Safe
      <4> QED BY <4>1, EffectiveIsSafe DEF LoadedRepository
    <3> QED BY <2>3, <3>1, <3>2, <3>3 DEF LoadEnds
  <2>4. CASE UNCHANGED settingsVars
    BY <2>1, <2>4 DEF settingsVars
  <2>5. ASSUME NEW p \in Processes, NEW operation, Begin(p, operation)
        PROVE  answer' = NoAnswer
    BY <2>5 DEF Begin
  <2>6. ASSUME NEW p \in Processes
        PROVE  /\ SaveGlobalSettings(p) \/ SaveRepositorySettings(p)
                    \/ LoadGlobalSettings(p) \/ ResolveRepositorySettings(p)
                    \/ ExportSettings(p) \/ ImportSettings(p) => answer' = NoAnswer
               /\ WriteRow(p) \/ PassOver(p) \/ ReadRow(p) \/ SaveSearch(p)
                    \/ SavingEnds(p) \/ ExportEnds(p) \/ Crash(p) => answer' = NoAnswer
    <3>1. SaveGlobalSettings(p) \/ SaveRepositorySettings(p) => answer' = NoAnswer
      BY <2>5 DEF SaveGlobalSettings, SaveRepositorySettings
    <3>2. LoadGlobalSettings(p) \/ ResolveRepositorySettings(p) \/ ExportSettings(p)
            => answer' = NoAnswer
      BY <2>5 DEF LoadGlobalSettings, ResolveRepositorySettings, ExportSettings
    <3>3. ImportSettings(p) => answer' = NoAnswer
      BY <2>5 DEF ImportSettings
    <3>4. WriteRow(p) \/ PassOver(p) \/ ReadRow(p) \/ SaveSearch(p)
            \/ SavingEnds(p) \/ ExportEnds(p) \/ Crash(p) => answer' = NoAnswer
      BY DEF WriteRow, PassOver, ReadRow, SaveSearch, SavingEnds, ExportEnds, Crash
    <3> QED BY <3>1, <3>2, <3>3, <3>4
  <2>7. EditRow \/ EditFile => answer' = NoAnswer
    BY DEF EditRow, EditFile
  <2> QED BY <1>2, <2>2, <2>3, <2>4, <2>6, <2>7 DEF SettingsNext, SettingsStep
<1> QED BY <1>1, <1>2, PTL DEF SettingsSpec

-----------------------------------------------------------------------------
(* What a save writes and a load reads, as far as it has come.             *)
AllFields == GlobalFields \cup RepositoryFields
Rows      == [GlobalFields -> Int] \cup [RepositoryFields -> Int]
Statement == (Scopes \X AllFields) \cup (Scopes \X AllFields \X Int)

OperationRecord ==
  [doing : {"idle", "save", "import", "load", "resolve", "export"},
   todo : Seq(Statement), seen : Seq(Int), scope : Scopes,
   settings : Rows \cup {Unknown}, searches : SUBSET (SearchNames \X Searches),
   undisturbed : BOOLEAN]

ServiceTypeOK ==
  /\ preferences \in [Scopes -> Rows]
  /\ \A scope \in Scopes : preferences[scope] \in [FieldsOf(scope) -> Int]
  /\ saved \in [SearchNames -> Searches \cup {NoSearch}]
  /\ exportFile # NoDocument =>
       exportFile.savedSearches \subseteq SearchNames \X Searches
  /\ process \in [Processes -> OperationRecord]

NormalGlobals ==
  {settings \in [GlobalFields -> Int] :
     Safe(settings) /\ settings["telemetryEnabled"] \in {TrueText, FalseText}}

NormalOverrides ==
  {settings \in [RepositoryFields -> Int] :
     /\ \A field \in Sizes :
          \/ settings[field] = Unset
          \/ /\ settings[field] \in 0..Maximum[field]
             /\ field = "resultLimit" => settings[field] > 0
     /\ settings["respectGitignore"] \in OptionalBools}

NormalOf(scope) == IF scope = Global THEN NormalGlobals ELSE NormalOverrides

Agrees(rows, settings, field) == settings[field] # Unset => rows[field] = settings[field]

(* A save or an import: the statements it has executed are in the rows,    *)
(* unless it was disturbed.                                                *)
WriterOf(w, rows) ==
  LET order == OrderOf(w.scope)
      done  == Len(order) - Len(w.todo)
  IN  /\ w.settings \in NormalOf(w.scope) /\ done >= 0
      /\ \A i \in 1..Len(w.todo) :
           w.todo[i] = <<w.scope, order[done + i], w.settings[order[done + i]]>>
      /\ w.undisturbed => \A i \in 1..done : Agrees(rows[w.scope], w.settings, order[i])

(* A load, a resolution or an export: what it has read is still so, unless *)
(* it was disturbed.                                                       *)
ReadsOf(doing) ==
  IF doing = "resolve" THEN Reads(Global) \o Reads(Repository) ELSE Reads(Global)

ReaderOf(w, rows) ==
  LET reads == ReadsOf(w.doing)
      done  == Len(w.seen)
  IN  /\ done + Len(w.todo) = Len(reads)
      /\ \A i \in 1..Len(w.todo) : w.todo[i] = reads[done + i]
      /\ w.undisturbed => \A i \in 1..done : w.seen[i] = rows[reads[i][1]][reads[i][2]]

Writing(w) == w.doing \in {"save", "import"}
Reading(w) == w.doing \in {"load", "resolve", "export"}

OperationInv(w, rows) ==
  /\ Writing(w) => WriterOf(w, rows)
  /\ Reading(w) => ReaderOf(w, rows)

(* Settings that are meant are in the rows: the global ones are what a     *)
(* load makes of them, the overrides are there as far as they are set.     *)
GlobalMeant(rows, settings)     ==
  settings # Unknown => globalSettingsFromRows(rows) = settings
RepositoryMeant(rows, settings) ==
  settings # Unknown =>
    /\ settings \in NormalOverrides
    /\ \A field \in RepositoryFields : Agrees(rows, settings, field)

MeantInv ==
  /\ meant \in [Scopes -> Rows \cup {Unknown}]
  /\ GlobalMeant(preferences[Global], meant[Global])
  /\ RepositoryMeant(preferences[Repository], meant[Repository])

ServiceInvariant ==
  /\ ServiceTypeOK
  /\ \A p \in Processes : OperationInv(process[p], preferences)
  /\ MeantInv
  /\ QuietLoadIsLastSave

-----------------------------------------------------------------------------
(* The order of the keys, and the statements of an operation.              *)
LEMMA OrderNamesTheFields ==
  ASSUME NEW scope \in Scopes
  PROVE  /\ OrderOf(scope) \in Seq(FieldsOf(scope))
         /\ Len(OrderOf(scope)) \in Nat
         /\ DOMAIN OrderOf(scope) = 1..Len(OrderOf(scope))
         /\ \A i \in 1..Len(OrderOf(scope)) : OrderOf(scope)[i] \in FieldsOf(scope)
         /\ \A field \in FieldsOf(scope) :
              \E i \in 1..Len(OrderOf(scope)) : OrderOf(scope)[i] = field
<1> DEFINE last == IF scope = Global THEN "telemetryEnabled" ELSE "respectGitignore"
           order == OrderOf(scope)
           fields == FieldsOf(scope)
<1>1. order = SizeOrder \o <<last>>
  BY DEF OrderOf, GlobalOrder, RepositoryOrder
<1>2. fields = Sizes \cup {last}
  BY DEF FieldsOf, GlobalFields, RepositoryFields
<1> HIDE DEF last, order, fields
<1>3. /\ SizeOrder \in Seq(STRING) /\ Len(SizeOrder) \in Nat
      /\ DOMAIN SizeOrder = 1..Len(SizeOrder)
  BY SettingsAssumption
<1>4. SizeOrder \in Seq(fields) /\ <<last>> \in Seq(fields)
  <2>1. \A i \in 1..Len(SizeOrder) : SizeOrder[i] \in fields
    BY <1>2, <1>3 DEF Sizes
  <2>2. SizeOrder = [i \in 1..Len(SizeOrder) |-> SizeOrder[i]]
    BY <1>3
  <2>3. last \in fields
    BY <1>2
  <2> QED
    BY <1>3, <2>1, <2>2, <2>3
<1>5. /\ order \in Seq(fields) /\ Len(order) = Len(SizeOrder) + 1
      /\ \A i \in 1..Len(SizeOrder) : order[i] = SizeOrder[i]
      /\ order[Len(SizeOrder) + 1] = last
  <2>1. Len(<<last>>) = 1 /\ <<last>>[1] = last
    OBVIOUS
  <2> QED
    BY <1>1, <1>3, <1>4, <2>1
<1>6. Len(order) \in Nat /\ DOMAIN order = 1..Len(order)
  BY <1>3, <1>5
<1>7. \A i \in 1..Len(order) : order[i] \in fields
  BY <1>5, <1>6
<1>8. ASSUME NEW field \in fields
      PROVE  \E i \in 1..Len(order) : order[i] = field
  <2>1. ASSUME NEW k \in 1..Len(SizeOrder), SizeOrder[k] = field
        PROVE  k \in 1..Len(order) /\ order[k] = field
    BY <1>3, <1>5, <2>1
  <2>2. Len(SizeOrder) + 1 \in 1..Len(order)
    BY <1>3, <1>5
  <2> QED
    BY <1>2, <1>3, <1>5, <2>1, <2>2 DEF Sizes
<1> QED
  BY <1>5, <1>6, <1>7, <1>8 DEF order, fields

LEMMA TheScopes ==
  /\ Scopes = {Global, Repository} /\ Repository # Global
  /\ FieldsOf(Global) = GlobalFields /\ FieldsOf(Repository) = RepositoryFields
  /\ \A scope \in Scopes : FieldsOf(scope) \subseteq AllFields
BY SettingsServiceAssumption DEF Scopes, FieldsOf, AllFields

Writes(scope, settings) ==
  [i \in DOMAIN OrderOf(scope) |->
     <<scope, OrderOf(scope)[i], settings[OrderOf(scope)[i]]>>]

LEMMA TheWrites ==
  /\ \A settings : GlobalWrites(settings) = Writes(Global, settings)
  /\ \A settings : RepositoryWrites(settings) = Writes(Repository, settings)
BY SettingsServiceAssumption DEF GlobalWrites, RepositoryWrites, Writes, OrderOf

LEMMA WritesAreStatements ==
  ASSUME NEW scope \in Scopes, NEW settings \in [FieldsOf(scope) -> Int]
  PROVE  /\ Writes(scope, settings) \in Seq(Statement)
         /\ Len(Writes(scope, settings)) = Len(OrderOf(scope))
         /\ \A i \in 1..Len(OrderOf(scope)) :
              Writes(scope, settings)[i] =
                <<scope, OrderOf(scope)[i], settings[OrderOf(scope)[i]]>>
<1> DEFINE n == Len(OrderOf(scope))
           writes == Writes(scope, settings)
<1>1. n \in Nat /\ writes = [i \in 1..n |->
        <<scope, OrderOf(scope)[i], settings[OrderOf(scope)[i]]>>]
  BY OrderNamesTheFields DEF Writes
<1>2. ASSUME NEW i \in 1..n
      PROVE  <<scope, OrderOf(scope)[i], settings[OrderOf(scope)[i]]>> \in Statement
  <2>1. OrderOf(scope)[i] \in FieldsOf(scope) /\ OrderOf(scope)[i] \in AllFields
    BY OrderNamesTheFields, TheScopes
  <2>2. settings[OrderOf(scope)[i]] \in Int
    BY <2>1
  <2> QED
    BY <2>1, <2>2 DEF Statement
<1>3. writes \in [1..n -> Statement]
  BY <1>1, <1>2
<1> HIDE DEF n, writes
<1>4. writes \in Seq(Statement) /\ Len(writes) = n
  BY <1>1, <1>3
<1> QED
  BY <1>1, <1>4 DEF n, writes

LEMMA ReadsAreStatements ==
  ASSUME NEW scope \in Scopes
  PROVE  /\ Reads(scope) \in Seq(Statement)
         /\ Len(Reads(scope)) = Len(OrderOf(scope))
         /\ \A i \in 1..Len(OrderOf(scope)) :
              Reads(scope)[i] = <<scope, OrderOf(scope)[i]>>
<1> DEFINE n == Len(OrderOf(scope))
           reads == Reads(scope)
<1>1. n \in Nat /\ reads = [i \in 1..n |-> <<scope, OrderOf(scope)[i]>>]
  BY OrderNamesTheFields DEF Reads
<1>2. ASSUME NEW i \in 1..n PROVE <<scope, OrderOf(scope)[i]>> \in Statement
  BY OrderNamesTheFields, TheScopes DEF Statement
<1>3. reads \in [1..n -> Statement]
  BY <1>1, <1>2
<1> HIDE DEF n, reads
<1>4. reads \in Seq(Statement) /\ Len(reads) = n
  BY <1>1, <1>3
<1> QED
  BY <1>1, <1>4 DEF n, reads

LEMMA ResolutionReads ==
  LET g == Len(OrderOf(Global))
      r == Len(OrderOf(Repository))
      reads == Reads(Global) \o Reads(Repository)
  IN  /\ g \in Nat /\ r \in Nat
      /\ reads \in Seq(Statement) /\ Len(reads) = g + r
      /\ \A i \in 1..g : reads[i] = <<Global, OrderOf(Global)[i]>>
      /\ \A i \in 1..r : g + i \in 1..(g + r)
                         /\ reads[g + i] = <<Repository, OrderOf(Repository)[i]>>
<1> DEFINE g == Len(OrderOf(Global))
           r == Len(OrderOf(Repository))
           first  == Reads(Global)
           second == Reads(Repository)
<1>1. /\ first \in Seq(Statement) /\ Len(first) = g /\ g \in Nat
      /\ second \in Seq(Statement) /\ Len(second) = r /\ r \in Nat
      /\ \A i \in 1..g : first[i] = <<Global, OrderOf(Global)[i]>>
      /\ \A i \in 1..r : second[i] = <<Repository, OrderOf(Repository)[i]>>
  BY ReadsAreStatements, OrderNamesTheFields, TheScopes
<1> HIDE DEF g, r, first, second
<1>2. first \o second \in Seq(Statement) /\ Len(first \o second) = g + r
  BY <1>1
<1>3. \A i \in 1..g : (first \o second)[i] = first[i]
  BY <1>1
<1>4. \A i \in 1..r : g + i \in 1..(g + r) /\ (first \o second)[g + i] = second[i]
  BY <1>1
<1> QED
  BY <1>1, <1>2, <1>3, <1>4 DEF g, r, first, second

(* One statement is done. *)
LEMMA NextStatement ==
  ASSUME NEW todo \in Seq(Statement), todo # <<>>
  PROVE  /\ Len(todo) \in Nat /\ Len(todo) > 0 /\ Head(todo) = todo[1]
         /\ Head(todo) \in Statement
         /\ Tail(todo) \in Seq(Statement) /\ Len(Tail(todo)) = Len(todo) - 1
         /\ \A i \in 1..Len(Tail(todo)) : i + 1 \in 1..Len(todo)
                                          /\ Tail(todo)[i] = todo[i + 1]
<1>1. Len(todo) \in Nat /\ Len(todo) > 0 /\ \A i \in 1..Len(todo) : todo[i] \in Statement
  OBVIOUS
<1>2. /\ Head(todo) = todo[1] /\ Tail(todo) \in Seq(Statement)
      /\ Len(Tail(todo)) = Len(todo) - 1
  OBVIOUS
<1>3. \A i \in 1..(Len(todo) - 1) : Tail(todo)[i] = todo[i + 1]
  OBVIOUS
<1> QED
  BY <1>1, <1>2, <1>3

-----------------------------------------------------------------------------
(* What is normal stays as it is when it is written, read and normalised   *)
(* again.                                                                  *)
LEMMA FieldKinds ==
  /\ "telemetryEnabled" \in GlobalFields /\ "telemetryEnabled" \notin RepositoryFields
  /\ "respectGitignore" \in RepositoryFields
  /\ "telemetryEnabled" \notin Sizes /\ "respectGitignore" \notin Sizes
  /\ \A field \in GlobalFields : field \in Sizes \/ field = "telemetryEnabled"
  /\ \A field \in RepositoryFields : field \in Sizes \/ field = "respectGitignore"
BY SettingsAssumption DEF GlobalFields, RepositoryFields

LEMMA LimitedIsKept ==
  /\ \A value \in Nat, maximum \in Nat : limitedSize(value, maximum) \in Int
  /\ \A maximum \in Nat : \A value \in 0..maximum : limitedSize(value, maximum) = value
BY DEF limitedSize

LEMMA NormalizedGlobals ==
  ASSUME NEW settings, \A field \in Sizes : settings[field] \in Nat,
         settings["telemetryEnabled"] \in {TrueText, FalseText}
  PROVE  normalizedGlobalSettings(settings) \in NormalGlobals
<1> DEFINE n == normalizedGlobalSettings(settings)
<1>1. Safe(n)
  BY NormalizedIsSafe
<1>2. n["telemetryEnabled"] = settings["telemetryEnabled"]
  BY FieldKinds DEF normalizedGlobalSettings
<1>3. \A field \in GlobalFields : n[field] \in Int
  <2>1. \A field \in Sizes : n[field] \in Int
    BY <1>1, SizesAreFields DEF Safe
  <2>2. n["telemetryEnabled"] \in Int
    BY <1>2 DEF TrueText, FalseText
  <2> QED
    BY <2>1, <2>2, FieldKinds
<1>4. n = [field \in GlobalFields |-> n[field]]
  BY DEF normalizedGlobalSettings
<1> HIDE DEF n
<1>5. n \in [GlobalFields -> Int]
  BY <1>3, <1>4
<1> QED
  BY <1>1, <1>2, <1>5 DEF NormalGlobals, n

LEMMA NormalGlobalsAreKept ==
  ASSUME NEW settings \in NormalGlobals
  PROVE  normalizedGlobalSettings(settings) = settings
<1>1. /\ settings \in [GlobalFields -> Int]
      /\ \A field \in Sizes : settings[field] \in 0..Maximum[field]
      /\ settings["resultLimit"] > 0
  BY DEF NormalGlobals, Safe
<1>2. ASSUME NEW field \in GlobalFields
      PROVE  normalizedGlobalSettings(settings)[field] = settings[field]
  <2>1. CASE field \notin Sizes
    BY <2>1 DEF normalizedGlobalSettings
  <2>2. CASE field \in Sizes
    <3>1. Maximum[field] \in Nat /\ settings[field] \in 0..Maximum[field]
      BY <1>1, <2>2, SizesAreFields
    <3>2. ~(field = "resultLimit" /\ settings[field] = 0)
      BY <1>1
    <3>3. normalizedGlobalSettings(settings)[field]
            = limitedSize(settings[field], Maximum[field])
      BY <2>2, <3>2 DEF normalizedGlobalSettings
    <3> QED
      BY <3>1, <3>3, LimitedIsKept
  <2> QED
    BY <2>1, <2>2
<1> QED
  BY <1>1, <1>2 DEF normalizedGlobalSettings

LEMMA SavedGlobalsAreLoaded ==
  ASSUME NEW rows \in [GlobalFields -> Int], NEW settings \in NormalGlobals,
         \A field \in GlobalFields : Agrees(rows, settings, field)
  PROVE  globalSettingsFromRows(rows) = settings
<1>1. /\ settings \in [GlobalFields -> Int]
      /\ \A field \in Sizes : settings[field] \in Nat
      /\ settings["telemetryEnabled"] \in {TrueText, FalseText}
  BY SizesAreFields DEF NormalGlobals, Safe
<1>2. \A field \in GlobalFields : settings[field] # Unset /\ rows[field] = settings[field]
  <2>1. \A field \in GlobalFields : settings[field] # Unset
    BY <1>1, FieldKinds DEF Unset, TrueText, FalseText
  <2> QED
    BY <2>1 DEF Agrees
<1> DEFINE parsed ==
      [field \in GlobalFields |->
         IF rows[field] = Unset THEN defaultGlobalSettings[field]
         ELSE IF field \in Sizes
              THEN valueOr(parseSize(rows[field]), defaultGlobalSettings[field])
              ELSE parseBool(rows[field])]
<1>3. ASSUME NEW field \in GlobalFields PROVE parsed[field] = settings[field]
  <2>1. CASE field \in Sizes
    <3>1. settings[field] \in Nat /\ rows[field] = settings[field] /\ rows[field] # Unset
      BY <1>1, <1>2, <2>1
    <3>2. parseSize(rows[field]) = settings[field]
      BY <3>1 DEF parseSize
    <3> QED
      BY <2>1, <3>1, <3>2 DEF valueOr
  <2>2. CASE field \notin Sizes
    <3>1. /\ settings[field] \in {TrueText, FalseText}
          /\ rows[field] = settings[field] /\ rows[field] # Unset
      BY <1>1, <1>2, <2>2, FieldKinds
    <3>2. parseBool(rows[field]) = settings[field]
      BY <3>1 DEF parseBool, TrueText, FalseText
    <3> QED
      BY <2>2, <3>1, <3>2
  <2> QED
    BY <2>1, <2>2
<1>4. parsed = settings
  <2>1. parsed = [field \in GlobalFields |-> parsed[field]]
    OBVIOUS
  <2> HIDE DEF parsed
  <2> QED
    BY <1>1, <1>3, <2>1
<1>5. globalSettingsFromRows(rows) = normalizedGlobalSettings(parsed)
  BY DEF globalSettingsFromRows
<1> QED
  BY <1>4, <1>5, NormalGlobalsAreKept

LEMMA DefaultsAreLoaded ==
  /\ defaultGlobalSettings \in NormalGlobals
  /\ globalSettingsFromRows([field \in GlobalFields |-> Unset]) = defaultGlobalSettings
<1> DEFINE d == defaultGlobalSettings
<1>1. /\ d = [field \in GlobalFields |-> d[field]]
      /\ d["telemetryEnabled"] = FalseText /\ d["resultLimit"] = defaultResultLimit
      /\ \A field \in Sizes : field # "resultLimit" => d[field] = 0
  BY FieldKinds, SizesAreFields DEF defaultGlobalSettings
<1> HIDE DEF d
<1>2. /\ defaultResultLimit \in 0..Maximum["resultLimit"] /\ defaultResultLimit > 0
      /\ \A field \in Sizes : 0 \in 0..Maximum[field]
  BY SettingsAssumption
<1>3. Safe(d)
  BY <1>1, <1>2 DEF Safe
<1>4. d \in [GlobalFields -> Int]
  <2>1. \A field \in GlobalFields : d[field] \in Int
    BY <1>1, <1>2, FieldKinds DEF FalseText
  <2> QED
    BY <1>1, <2>1
<1>5. d \in NormalGlobals
  BY <1>1, <1>3, <1>4 DEF NormalGlobals
<1> DEFINE rows == [field \in GlobalFields |-> Unset]
           parsed ==
             [field \in GlobalFields |->
                IF rows[field] = Unset THEN defaultGlobalSettings[field]
                ELSE IF field \in Sizes
                     THEN valueOr(parseSize(rows[field]), defaultGlobalSettings[field])
                     ELSE parseBool(rows[field])]
<1>6. parsed = d
  BY <1>1 DEF d
<1>7. globalSettingsFromRows(rows) = normalizedGlobalSettings(parsed)
  BY DEF globalSettingsFromRows
<1> QED
  BY <1>5, <1>6, <1>7, NormalGlobalsAreKept DEF d

LEMMA NormalizedOverrides ==
  ASSUME NEW settings \in RepositorySettings
  PROVE  normalizedRepositorySettings(settings) \in NormalOverrides
<1> DEFINE n == normalizedRepositorySettings(settings)
<1>1. /\ \A field \in Sizes : settings[field] \in OptionalSizes
      /\ settings["respectGitignore"] \in OptionalBools
  BY DEF RepositorySettings
<1>2. ASSUME NEW field \in Sizes
      PROVE  \/ n[field] = Unset
             \/ /\ n[field] \in 0..Maximum[field]
                /\ field = "resultLimit" => n[field] > 0
  <2>1. field \in RepositoryFields /\ Maximum[field] \in Nat
    BY SizesAreFields
  <2>2. CASE settings[field] = Unset
    BY <2>1, <2>2 DEF normalizedRepositorySettings, limitedOptionalSize
  <2>3. CASE settings[field] # Unset /\ ~(field = "resultLimit" /\ settings[field] = 0)
    <3>1. settings[field] \in Nat
      BY <1>1, <2>3 DEF OptionalSizes
    <3>2. n[field] = limitedSize(settings[field], Maximum[field])
      BY <2>1, <2>3 DEF normalizedRepositorySettings, limitedOptionalSize
    <3>3. field = "resultLimit" => settings[field] > 0 /\ Maximum[field] > 0
      BY <2>3, <3>1, SettingsAssumption
    <3> QED
      BY <2>1, <3>1, <3>2, <3>3, LimitedSize
  <2>4. CASE field = "resultLimit" /\ settings[field] = 0
    BY <2>1, <2>4 DEF normalizedRepositorySettings
  <2> QED
    BY <2>2, <2>3, <2>4
<1>3. n["respectGitignore"] = settings["respectGitignore"]
  BY FieldKinds DEF normalizedRepositorySettings
<1>4. \A field \in RepositoryFields : n[field] \in Int
  <2>1. \A field \in Sizes : n[field] \in Int
    BY <1>2, SizesAreFields DEF Unset
  <2>2. n["respectGitignore"] \in Int
    BY <1>1, <1>3 DEF OptionalBools, TrueText, FalseText, Unset
  <2> QED
    BY <2>1, <2>2, FieldKinds
<1>5. n = [field \in RepositoryFields |-> n[field]]
  BY DEF normalizedRepositorySettings
<1> HIDE DEF n
<1>6. n \in [RepositoryFields -> Int]
  BY <1>4, <1>5
<1> QED
  BY <1>1, <1>2, <1>3, <1>6 DEF NormalOverrides, n

(* An override that is set is in force. *)
LEMMA SavedOverrideIsLoaded ==
  ASSUME NEW rows, NEW settings \in NormalOverrides, NEW global,
         NEW field \in RepositoryFields, settings[field] # Unset,
         rows[field] = settings[field]
  PROVE  effectiveRepositorySettings(global, repositorySettingsFromRows(rows))[field]
           = settings[field]
<1> DEFINE value == settings[field]
           parsed ==
             [f \in RepositoryFields |->
                IF rows[f] = Unset THEN Unset
                ELSE IF f \in Sizes THEN parseSize(rows[f])
                     ELSE parseOptionalBool(rows[f])]
           Kept(s) == s[field] = value => normalizedRepositorySettings(s)[field] = value
<1>1. CASE field \in Sizes
  <2>1. /\ Maximum[field] \in Nat /\ value \in 0..Maximum[field] /\ value # Unset
        /\ field = "resultLimit" => value > 0
    BY <1>1, SizesAreFields DEF NormalOverrides
  <2> HIDE DEF value
  <2>2. ASSUME NEW s PROVE Kept(s)
    <3>1. value \in Nat /\ ~(field = "resultLimit" /\ value = 0)
      BY <2>1
    <3>2. s[field] = value => normalizedRepositorySettings(s)[field]
            = limitedSize(value, Maximum[field])
      BY <1>1, <2>1, <3>1 DEF normalizedRepositorySettings, limitedOptionalSize
    <3> QED
      BY <2>1, <3>2, LimitedIsKept
  <2>3. parsed[field] = value
    <3>1. rows[field] = value /\ value \in Nat
      BY <2>1 DEF value
    <3> QED
      BY <1>1, <2>1, <3>1 DEF parseSize
  <2>4. normalizedRepositorySettings(parsed)[field] = value
    BY <2>2, <2>3
  <2>5. normalizedRepositorySettings(normalizedRepositorySettings(parsed))[field] = value
    BY <2>2, <2>4
  <2>6. repositorySettingsFromRows(rows) = normalizedRepositorySettings(parsed)
    BY DEF repositorySettingsFromRows
  <2>7. effectiveRepositorySettings(global, repositorySettingsFromRows(rows))[field]
          = valueOr(value, normalizedGlobalSettings(global)[field])
    <3> DEFINE g == normalizedGlobalSettings(global)
               r == normalizedRepositorySettings(normalizedRepositorySettings(parsed))
               at(f) ==
                 CASE f \in Sizes            -> valueOr(r[f], g[f])
                   [] f = "respectGitignore" -> valueOr(r[f], TrueText)
                   [] f = "telemetryEnabled" -> g[f]
    <3>1. effectiveRepositorySettings(global, repositorySettingsFromRows(rows))
            = [f \in GlobalFields \cup RepositoryFields |-> at(f)]
      BY <2>6 DEF effectiveRepositorySettings
    <3>2. field # "respectGitignore" /\ field # "telemetryEnabled" /\ r[field] = value
      BY <1>1, <2>5, FieldKinds
    <3> HIDE DEF g, r
    <3>3. at(field) = valueOr(value, g[field])
      BY <1>1, <3>2
    <3> HIDE DEF at
    <3> QED
      BY <3>1, <3>3 DEF g
  <2> QED
    BY <2>1, <2>7 DEF valueOr, value
<1>2. CASE field \notin Sizes
  <2>1. field = "respectGitignore" /\ value \in {TrueText, FalseText}
    BY <1>2, FieldKinds DEF NormalOverrides, OptionalBools
  <2> HIDE DEF value
  <2>2. ASSUME NEW s PROVE Kept(s)
    BY <1>2 DEF normalizedRepositorySettings
  <2>3. parsed[field] = value
    <3>1. rows[field] = value /\ value # Unset
      BY DEF value
    <3> QED
      BY <1>2, <2>1, <3>1 DEF parseOptionalBool, TrueText, FalseText
  <2>4. normalizedRepositorySettings(normalizedRepositorySettings(parsed))[field] = value
    BY <2>2, <2>3
  <2>5. repositorySettingsFromRows(rows) = normalizedRepositorySettings(parsed)
    BY DEF repositorySettingsFromRows
  <2>6. effectiveRepositorySettings(global, repositorySettingsFromRows(rows))[field]
          = valueOr(value, TrueText)
    BY <1>2, <2>1, <2>4, <2>5 DEF effectiveRepositorySettings
  <2> QED
    BY <2>6 DEF valueOr, value
<1> QED
  BY <1>1, <1>2

LEMMA TelemetryIsGlobal ==
  ASSUME NEW global, NEW repository
  PROVE  effectiveRepositorySettings(global, repository)["telemetryEnabled"]
           = global["telemetryEnabled"]
<1>1. normalizedGlobalSettings(global)["telemetryEnabled"] = global["telemetryEnabled"]
  BY FieldKinds DEF normalizedGlobalSettings
<1>2. effectiveRepositorySettings(global, repository)["telemetryEnabled"]
        = normalizedGlobalSettings(global)["telemetryEnabled"]
  BY FieldKinds DEF effectiveRepositorySettings
<1> QED
  BY <1>1, <1>2

-----------------------------------------------------------------------------
(* The steps.                                                              *)
LEMMA NoAnswerIsQuiet == ASSUME answer' = NoAnswer PROVE QuietLoadIsLastSave'
BY DEF NoAnswer, QuietLoadIsLastSave, Quiet

LEMMA IdleOperation ==
  /\ Idle \in OperationRecord
  /\ \A rows : OperationInv(Idle, rows)
<1>1. <<>> \in Seq(Statement) /\ <<>> \in Seq(Int)
  OBVIOUS
<1> QED
  BY <1>1 DEF Idle, OperationRecord, OperationInv, Writing, Reading, Scopes

LEMMA SomeRows ==
  /\ \A scope \in Scopes : NormalOf(scope) \subseteq [FieldsOf(scope) -> Int]
  /\ \A scope \in Scopes : [FieldsOf(scope) -> Int] \subseteq Rows
  /\ Global \in Scopes /\ Repository \in Scopes
BY TheScopes DEF NormalOf, NormalGlobals, NormalOverrides, Rows

(* A step of one process that leaves the rows alone. *)
LEMMA OperationStep ==
  ASSUME ServiceInvariant, NEW p \in Processes, NEW w \in OperationRecord,
         OperationInv(w, preferences), process' = [process EXCEPT ![p] = w],
         UNCHANGED preferences, saved' \in [SearchNames -> Searches \cup {NoSearch}],
         exportFile' # NoDocument =>
           exportFile'.savedSearches \subseteq SearchNames \X Searches,
         MeantInv', QuietLoadIsLastSave'
  PROVE  ServiceInvariant'
<1>1. process \in [Processes -> OperationRecord]
  BY DEF ServiceInvariant, ServiceTypeOK
<1>2. ServiceTypeOK'
  BY <1>1 DEF ServiceInvariant, ServiceTypeOK
<1>3. ASSUME NEW q \in Processes PROVE OperationInv(process'[q], preferences')
  BY <1>1 DEF ServiceInvariant
<1>4. (\A q \in Processes : OperationInv(process[q], preferences))'
  BY <1>3
<1> QED
  BY <1>2, <1>4 DEF ServiceInvariant

LEMMA ThinkingStep ==
  ASSUME ServiceInvariant, NEW p \in Processes, NEW w \in OperationRecord,
         OperationInv(w, preferences), process' = [process EXCEPT ![p] = w],
         UNCHANGED <<storageVars, meant>>, answer' = NoAnswer
  PROVE  ServiceInvariant'
<1>1. MeantInv'
  BY DEF ServiceInvariant, MeantInv, storageVars
<1>2. /\ saved' \in [SearchNames -> Searches \cup {NoSearch}]
      /\ exportFile' # NoDocument =>
           exportFile'.savedSearches \subseteq SearchNames \X Searches
      /\ UNCHANGED preferences
  BY DEF ServiceInvariant, ServiceTypeOK, storageVars
<1> QED
  BY <1>1, <1>2, OperationStep, NoAnswerIsQuiet

LEMMA BeginStep ==
  ASSUME ServiceInvariant, NEW p \in Processes, NEW w \in OperationRecord,
         OperationInv(w, preferences), Begin(p, w)
  PROVE  ServiceInvariant'
BY ThinkingStep DEF Begin

LEMMA SaveBegins ==
  ASSUME NEW doing \in {"save", "import"}, NEW scope \in Scopes,
         NEW settings \in NormalOf(scope), NEW w, NEW rows,
         NEW searches \in SUBSET (SearchNames \X Searches),
         w = Saving(doing, scope, Writes(scope, settings), settings, searches)
  PROVE  w \in OperationRecord /\ OperationInv(w, rows)
<1>1. settings \in [FieldsOf(scope) -> Int] /\ settings \in Rows
  BY SomeRows
<1>2. /\ Writes(scope, settings) \in Seq(Statement)
      /\ Len(Writes(scope, settings)) = Len(OrderOf(scope))
      /\ Len(OrderOf(scope)) \in Nat
      /\ \A i \in 1..Len(OrderOf(scope)) :
           Writes(scope, settings)[i] =
             <<scope, OrderOf(scope)[i], settings[OrderOf(scope)[i]]>>
  BY <1>1, WritesAreStatements, OrderNamesTheFields
<1>3. <<>> \in Seq(Int)
  OBVIOUS
<1>4. w \in OperationRecord
  BY <1>1, <1>2, <1>3 DEF OperationRecord, Saving
<1>5. /\ w.doing = doing /\ w.todo = Writes(scope, settings) /\ w.scope = scope
      /\ w.settings = settings
  BY DEF Saving
<1>6. WriterOf(w, rows)
  <2>1. Len(OrderOf(scope)) - Len(w.todo) = 0
    BY <1>2, <1>5
  <2>2. \A i \in 1..Len(w.todo) : 0 + i = i /\ i \in 1..Len(OrderOf(scope))
    BY <1>2, <1>5
  <2> QED
    BY <1>2, <1>5, <2>1, <2>2 DEF WriterOf
<1> QED
  BY <1>4, <1>5, <1>6 DEF OperationInv, Writing, Reading

LEMMA ReadsOfIsSequence ==
  ASSUME NEW doing \in {"load", "resolve", "export"}
  PROVE  ReadsOf(doing) \in Seq(Statement) /\ Len(ReadsOf(doing)) \in Nat
<1>1. ReadsOf(doing) \in Seq(Statement)
  BY ReadsAreStatements, ResolutionReads, SomeRows DEF ReadsOf
<1> QED
  BY <1>1

LEMMA LoadBegins ==
  ASSUME NEW doing \in {"load", "resolve", "export"}, NEW w, NEW rows,
         w = Loading(doing, ReadsOf(doing))
  PROVE  w \in OperationRecord /\ OperationInv(w, rows)
<1>1. ReadsOf(doing) \in Seq(Statement) /\ Len(ReadsOf(doing)) \in Nat
  BY ReadsOfIsSequence
<1>2. <<>> \in Seq(Int) /\ Len(<<>>) = 0
  OBVIOUS
<1>3. w \in OperationRecord
  BY <1>1, <1>2, SomeRows DEF OperationRecord, Loading
<1>4. w.doing = doing /\ w.todo = ReadsOf(doing) /\ w.seen = <<>>
  BY DEF Loading
<1>5. ReaderOf(w, rows)
  BY <1>1, <1>2, <1>4 DEF ReaderOf
<1> QED
  BY <1>3, <1>4, <1>5 DEF OperationInv, Writing, Reading

LEMMA BeginningStep ==
  ASSUME ServiceInvariant, NEW p \in Processes,
         \/ SaveGlobalSettings(p) \/ SaveRepositorySettings(p)
         \/ LoadGlobalSettings(p) \/ ResolveRepositorySettings(p)
         \/ ExportSettings(p) \/ ImportSettings(p)
  PROVE  ServiceInvariant'
<1>1. CASE SaveGlobalSettings(p)
  <2>1. PICK settings \in SavedGlobals :
          LET n == normalizedGlobalSettings(settings)
          IN  Begin(p, Saving("save", Global, GlobalWrites(n), n, {}))
    BY <1>1 DEF SaveGlobalSettings
  <2> DEFINE n == normalizedGlobalSettings(settings)
             w == Saving("save", Global, Writes(Global, n), n, {})
  <2>2. settings \in GlobalSettings
    BY SettingsServiceAssumption
  <2>3. n \in NormalOf(Global)
    BY <2>2, NormalizedGlobals DEF GlobalSettings, NormalOf
  <2> HIDE DEF n
  <2>4. Begin(p, w)
    BY <2>1, TheWrites DEF n
  <2>5. w \in OperationRecord /\ OperationInv(w, preferences)
    BY <2>3, SaveBegins, SomeRows
  <2> HIDE DEF w
  <2> QED
    BY <2>4, <2>5, BeginStep
<1>2. CASE SaveRepositorySettings(p)
  <2>1. PICK settings \in SavedOverrides :
          LET n == normalizedRepositorySettings(settings)
          IN  Begin(p, Saving("save", Repository, RepositoryWrites(n), n, {}))
    BY <1>2 DEF SaveRepositorySettings
  <2> DEFINE n == normalizedRepositorySettings(settings)
             w == Saving("save", Repository, Writes(Repository, n), n, {})
  <2>2. settings \in RepositorySettings
    BY SettingsServiceAssumption
  <2>3. n \in NormalOf(Repository)
    BY <2>2, NormalizedOverrides, TheScopes DEF NormalOf
  <2> HIDE DEF n
  <2>4. Begin(p, w)
    BY <2>1, TheWrites DEF n
  <2>5. w \in OperationRecord /\ OperationInv(w, preferences)
    BY <2>3, SaveBegins, SomeRows
  <2> HIDE DEF w
  <2> QED
    BY <2>4, <2>5, BeginStep
<1>3. ASSUME NEW doing \in {"load", "resolve", "export"},
             Begin(p, Loading(doing, ReadsOf(doing)))
      PROVE  ServiceInvariant'
  <2> DEFINE w == Loading(doing, ReadsOf(doing))
  <2>1. w \in OperationRecord /\ OperationInv(w, preferences)
    BY LoadBegins
  <2> HIDE DEF w
  <2> QED
    BY <1>3, <2>1, BeginStep DEF w
<1>4. CASE LoadGlobalSettings(p)
  <2>1. ReadsOf("load") = Reads(Global)
    BY DEF ReadsOf
  <2> QED
    BY <1>3, <1>4, <2>1 DEF LoadGlobalSettings
<1>5. CASE ResolveRepositorySettings(p)
  <2>1. ReadsOf("resolve") = Reads(Global) \o Reads(Repository)
    BY DEF ReadsOf
  <2> QED
    BY <1>3, <1>5, <2>1 DEF ResolveRepositorySettings
<1>6. CASE ExportSettings(p)
  <2>1. ReadsOf("export") = Reads(Global)
    BY DEF ReadsOf
  <2> QED
    BY <1>3, <1>6, <2>1 DEF ExportSettings
<1>7. CASE ImportSettings(p) /\ Accepted(exportFile)
  <2> DEFINE n == readGlobalSettings(exportFile)
             w == Saving("import", Global, Writes(Global, n), n, exportFile.savedSearches)
  <2>1. exportFile.savedSearches \in SUBSET (SearchNames \X Searches)
    BY <1>7 DEF ImportSettings, ServiceInvariant, ServiceTypeOK
  <2>2. n \in NormalOf(Global)
    BY <1>7, NormalizedGlobals DEF readGlobalSettings, Accepted, HasExpectedTypes, NormalOf
  <2> HIDE DEF n
  <2>3. Begin(p, w)
    BY <1>7, TheWrites DEF ImportSettings, n
  <2>4. w \in OperationRecord /\ OperationInv(w, preferences)
    BY <2>1, <2>2, SaveBegins, SomeRows
  <2> HIDE DEF w
  <2> QED
    BY <2>3, <2>4, BeginStep
<1>8. CASE ImportSettings(p) /\ ~Accepted(exportFile)
  BY <1>8, BeginStep, IdleOperation DEF ImportSettings
<1> QED
  BY <1>1, <1>2, <1>4, <1>5, <1>6, <1>7, <1>8

(* A save has its next statement behind it. *)
LEMMA AdvancedWriter ==
  ASSUME NEW w \in OperationRecord, Writing(w), NEW rows, OperationInv(w, rows),
         w.todo # <<>>, NEW rows2,
         \A field \in FieldsOf(w.scope) :
           Agrees(rows[w.scope], w.settings, field) \/ field = Head(w.todo)[2] =>
             Agrees(rows2[w.scope], w.settings, field)
  PROVE  /\ Head(w.todo)[1] = w.scope /\ Head(w.todo)[2] \in FieldsOf(w.scope)
         /\ Head(w.todo)[3] = w.settings[Head(w.todo)[2]]
         /\ [w EXCEPT !.todo = Tail(@)] \in OperationRecord
         /\ OperationInv([w EXCEPT !.todo = Tail(@)], rows2)
<1> DEFINE order == OrderOf(w.scope)
           done  == Len(order) - Len(w.todo)
           next  == [w EXCEPT !.todo = Tail(@)]
<1>1. w.todo \in Seq(Statement) /\ w.scope \in Scopes
  BY DEF OperationRecord
<1>2. /\ Len(order) \in Nat
      /\ \A i \in 1..Len(order) : order[i] \in FieldsOf(w.scope)
  BY <1>1, OrderNamesTheFields
<1>3. /\ Len(w.todo) \in Nat /\ Len(w.todo) > 0 /\ Head(w.todo) = w.todo[1]
      /\ Tail(w.todo) \in Seq(Statement) /\ Len(Tail(w.todo)) = Len(w.todo) - 1
      /\ \A i \in 1..Len(Tail(w.todo)) : i + 1 \in 1..Len(w.todo)
                                         /\ Tail(w.todo)[i] = w.todo[i + 1]
  BY <1>1, NextStatement
<1>4. /\ w.settings \in NormalOf(w.scope) /\ done >= 0
      /\ \A i \in 1..Len(w.todo) :
           w.todo[i] = <<w.scope, order[done + i], w.settings[order[done + i]]>>
      /\ w.undisturbed => \A i \in 1..done : Agrees(rows[w.scope], w.settings, order[i])
  BY DEF OperationInv, WriterOf
<1>5. next \in OperationRecord
  BY <1>3 DEF OperationRecord
<1>6. /\ next.doing = w.doing /\ next.todo = Tail(w.todo) /\ next.scope = w.scope
      /\ next.settings = w.settings /\ next.undisturbed = w.undisturbed
  BY DEF OperationRecord
<1> HIDE DEF next, order
<1>7. /\ done \in Int /\ 1 \in 1..Len(w.todo) /\ done + 1 \in 1..Len(order)
      /\ Len(order) - Len(next.todo) = done + 1
  <2>1. Len(next.todo) = Len(w.todo) - 1
    BY <1>3, <1>6
  <2> QED
    BY <1>2, <1>3, <1>4, <2>1
<1>8. Head(w.todo) = <<w.scope, order[done + 1], w.settings[order[done + 1]]>>
  BY <1>3, <1>4, <1>7
<1>9. /\ Head(w.todo)[1] = w.scope /\ Head(w.todo)[2] = order[done + 1]
      /\ Head(w.todo)[3] = w.settings[Head(w.todo)[2]]
  <2> DEFINE key == order[done + 1]
             head == Head(w.todo)
  <2>1. head = <<w.scope, key, w.settings[key]>>
    BY <1>8
  <2> HIDE DEF key, head
  <2>2. head[1] = w.scope /\ head[2] = key /\ head[3] = w.settings[key]
    BY <2>1
  <2> QED
    BY <2>2 DEF key, head
<1>10. order[done + 1] \in FieldsOf(w.scope)
  BY <1>2, <1>7
<1>11. ASSUME NEW i \in 1..Len(next.todo)
       PROVE  next.todo[i] =
                <<w.scope, order[(done + 1) + i], w.settings[order[(done + 1) + i]]>>
  <2>1. i + 1 \in 1..Len(w.todo) /\ next.todo[i] = w.todo[i + 1]
    BY <1>3, <1>6
  <2>2. done + (i + 1) = (done + 1) + i
    BY <1>7
  <2> QED
    BY <1>4, <2>1, <2>2
<1>12. ASSUME w.undisturbed, NEW i \in 1..(done + 1)
       PROVE  Agrees(rows2[w.scope], w.settings, order[i])
  <2>1. i \in 1..Len(order) /\ (i \in 1..done \/ i = done + 1)
    BY <1>2, <1>3, <1>7
  <2>2. order[i] \in FieldsOf(w.scope)
    BY <1>2, <2>1
  <2>3. Agrees(rows[w.scope], w.settings, order[i]) \/ order[i] = Head(w.todo)[2]
    BY <1>4, <1>9, <1>12, <2>1
  <2> QED
    BY <2>2, <2>3
<1>13. WriterOf(next, rows2)
  <2>1. OrderOf(next.scope) = order
    BY <1>6 DEF order
  <2> HIDE DEF done
  <2>2. done + 1 >= 0
    BY <1>4, <1>7
  <2> QED
    BY <1>4, <1>6, <1>7, <1>11, <1>12, <2>1, <2>2 DEF WriterOf
<1>14. OperationInv(next, rows2)
  BY <1>6, <1>13 DEF OperationInv, Writing, Reading
<1> QED
  BY <1>5, <1>9, <1>10, <1>14 DEF next

(* What a write to a scope does to the others. *)
Disturbed(w, scope) ==
  IF Reading(w) \/ w.scope = scope THEN [w EXCEPT !.undisturbed = FALSE] ELSE w

LEMMA DisturbedOperation ==
  ASSUME NEW w \in OperationRecord, NEW rows, OperationInv(w, rows), NEW scope, NEW rows2,
         \A s \in Scopes \ {scope} : rows2[s] = rows[s]
  PROVE  /\ Disturbed(w, scope) \in OperationRecord
         /\ OperationInv(Disturbed(w, scope), rows2)
<1> DEFINE d == Disturbed(w, scope)
<1>1. d \in OperationRecord
  BY DEF OperationRecord, Disturbed
<1>2. /\ d.doing = w.doing /\ d.todo = w.todo /\ d.scope = w.scope /\ d.seen = w.seen
      /\ d.settings = w.settings /\ w.scope \in Scopes
      /\ d.undisturbed => w.undisturbed /\ ~Reading(w) /\ w.scope # scope
  BY DEF OperationRecord, Disturbed
<1> HIDE DEF d
<1>3. ASSUME Writing(d) PROVE WriterOf(d, rows2)
  <2>1. WriterOf(w, rows)
    BY <1>2, <1>3 DEF OperationInv, Writing
  <2> QED
    BY <1>2, <2>1 DEF WriterOf
<1>4. ASSUME Reading(d) PROVE ReaderOf(d, rows2)
  <2>1. ReaderOf(w, rows) /\ Reading(w)
    BY <1>2, <1>4 DEF OperationInv, Reading
  <2> QED
    BY <1>2, <2>1 DEF ReaderOf
<1> QED
  BY <1>1, <1>3, <1>4 DEF OperationInv, d

LEMMA DisturbedProcess ==
  ASSUME ServiceTypeOK, NEW scope, NEW p, NEW q \in Processes, q # p
  PROVE  Disturb(scope, p)[q] = Disturbed(process[q], scope)
BY DEF Disturb, Disturbed, Reading

(* A row of a scope is written: by a step of p, or by hand. *)
LEMMA WrittenRow ==
  ASSUME ServiceInvariant, NEW scope \in Scopes, NEW field \in FieldsOf(scope),
         NEW text \in Int,
         preferences' = [preferences EXCEPT ![scope][field] = text],
         meant' = [meant EXCEPT ![scope] = Unknown]
  PROVE  /\ preferences' \in [Scopes -> Rows]
         /\ \A s \in Scopes : preferences'[s] \in [FieldsOf(s) -> Int]
         /\ \A s \in Scopes \ {scope} : preferences'[s] = preferences[s]
         /\ preferences'[scope] = [preferences[scope] EXCEPT ![field] = text]
         /\ MeantInv'
<1>1. /\ preferences \in [Scopes -> Rows]
      /\ \A s \in Scopes : preferences[s] \in [FieldsOf(s) -> Int]
      /\ MeantInv
  BY DEF ServiceInvariant, ServiceTypeOK
<1>2. /\ \A s \in Scopes \ {scope} : preferences'[s] = preferences[s]
      /\ preferences'[scope] = [preferences[scope] EXCEPT ![field] = text]
      /\ preferences' = [s \in Scopes |-> preferences'[s]]
  BY <1>1
<1>3. \A s \in Scopes : preferences'[s] \in [FieldsOf(s) -> Int]
  BY <1>1, <1>2
<1>4. preferences' \in [Scopes -> Rows]
  BY <1>2, <1>3, SomeRows
<1>5. /\ meant' \in [Scopes -> Rows \cup {Unknown}] /\ meant'[scope] = Unknown
      /\ \A s \in Scopes \ {scope} : meant'[s] = meant[s]
  BY <1>1 DEF MeantInv
<1>6. GlobalMeant(preferences'[Global], meant'[Global])
  <2>1. CASE scope = Global
    BY <1>5, <2>1 DEF GlobalMeant
  <2>2. CASE scope # Global
    BY <1>1, <1>2, <1>5, <2>2, SomeRows DEF MeantInv
  <2> QED
    BY <2>1, <2>2
<1>7. RepositoryMeant(preferences'[Repository], meant'[Repository])
  <2>1. CASE scope = Repository
    BY <1>5, <2>1 DEF RepositoryMeant
  <2>2. CASE scope # Repository
    BY <1>1, <1>2, <1>5, <2>2, SomeRows DEF MeantInv
  <2> QED
    BY <2>1, <2>2
<1> QED
  BY <1>2, <1>3, <1>4, <1>5, <1>6, <1>7 DEF MeantInv

LEMMA WriteRowStep ==
  ASSUME ServiceInvariant, NEW p \in Processes, WriteRow(p) PROVE ServiceInvariant'
<1> DEFINE w     == process[p]
           write == Head(w.todo)
           scope == w.scope
           field == write[2]
<1>1. /\ Writing(w) /\ w.todo # <<>> /\ write[3] # Unset
      /\ preferences' = [preferences EXCEPT ![write[1]][write[2]] = write[3]]
      /\ process' = [Disturb(write[1], p) EXCEPT ![p].todo = Tail(@)]
      /\ meant' = [meant EXCEPT ![write[1]] = Unknown]
      /\ answer' = NoAnswer /\ UNCHANGED <<saved, exportFile>>
  BY DEF WriteRow, Writing
<1>2. ServiceTypeOK /\ w \in OperationRecord /\ OperationInv(w, preferences)
  BY DEF ServiceInvariant, ServiceTypeOK
<1>3. /\ write[1] = scope /\ field \in FieldsOf(scope)
      /\ write[3] = w.settings[field] /\ scope \in Scopes
      /\ w.settings \in [FieldsOf(scope) -> Int]
  <2>1. w.settings \in NormalOf(w.scope)
    BY <1>1, <1>2 DEF OperationInv, WriterOf
  <2>2. scope \in Scopes
    BY <1>2 DEF OperationRecord
  <2> DEFINE rows == [s \in {w.scope} |-> w.settings]
  <2>3. \A f \in FieldsOf(w.scope) :
          Agrees(preferences[w.scope], w.settings, f) \/ f = Head(w.todo)[2] =>
            Agrees(rows[w.scope], w.settings, f)
    BY DEF Agrees
  <2> HIDE DEF rows
  <2>4. write[1] = scope /\ field \in FieldsOf(scope) /\ write[3] = w.settings[field]
    BY <1>1, <1>2, <2>3, AdvancedWriter
  <2> QED
    BY <2>1, <2>2, <2>4, SomeRows
<1> HIDE DEF w, write, field
<1>4. w.settings[field] \in Int
  BY <1>3
<1>5. /\ preferences' = [preferences EXCEPT ![scope][field] = w.settings[field]]
      /\ meant' = [meant EXCEPT ![scope] = Unknown]
  BY <1>1, <1>3 DEF field
<1> HIDE DEF scope
<1>6. /\ preferences' \in [Scopes -> Rows]
      /\ \A s \in Scopes : preferences'[s] \in [FieldsOf(s) -> Int]
      /\ \A s \in Scopes \ {scope} : preferences'[s] = preferences[s]
      /\ preferences'[scope] = [preferences[scope] EXCEPT ![field] = w.settings[field]]
      /\ MeantInv'
  BY <1>3, <1>4, <1>5, WrittenRow
<1>7. preferences[scope] \in [FieldsOf(scope) -> Int]
  BY <1>2, <1>3 DEF ServiceTypeOK
<1>8. \A f \in FieldsOf(scope) :
        Agrees(preferences[scope], w.settings, f) \/ f = field =>
          Agrees(preferences'[scope], w.settings, f)
  BY <1>3, <1>6, <1>7 DEF Agrees
<1>9. /\ [w EXCEPT !.todo = Tail(@)] \in OperationRecord
      /\ OperationInv([w EXCEPT !.todo = Tail(@)], preferences')
  BY <1>1, <1>2, <1>8, AdvancedWriter DEF scope, field, write
<1>10. process'[p] = [w EXCEPT !.todo = Tail(@)]
  <2>1. Disturb(scope, p)[p] = w /\ DOMAIN Disturb(scope, p) = Processes
    BY DEF Disturb, w
  <2> QED
    BY <1>1, <1>3, <2>1
<1>11. ASSUME NEW q \in Processes \ {p}
       PROVE  process'[q] \in OperationRecord /\ OperationInv(process'[q], preferences')
  <2>1. process'[q] = Disturb(scope, p)[q]
    BY <1>1, <1>3 DEF Disturb
  <2>2. process[q] \in OperationRecord /\ OperationInv(process[q], preferences)
    BY DEF ServiceInvariant, ServiceTypeOK
  <2>3. process'[q] = Disturbed(process[q], scope)
    BY <1>2, <2>1, DisturbedProcess
  <2> QED
    BY <1>6, <2>2, <2>3, DisturbedOperation
<1>12. \A q \in Processes :
         process'[q] \in OperationRecord /\ OperationInv(process'[q], preferences')
  BY <1>9, <1>10, <1>11
<1>13. process' = [q \in Processes |-> process'[q]]
  BY <1>1 DEF Disturb
<1>14. ServiceTypeOK'
  <2>1. process' \in [Processes -> OperationRecord]
    BY <1>12, <1>13
  <2> QED
    BY <1>1, <1>2, <1>6, <2>1 DEF ServiceTypeOK
<1>15. (\A q \in Processes : OperationInv(process[q], preferences))'
  BY <1>12
<1> QED
  BY <1>1, <1>6, <1>14, <1>15, NoAnswerIsQuiet DEF ServiceInvariant

LEMMA EditRowStep == ASSUME ServiceInvariant, EditRow PROVE ServiceInvariant'
<1>1. PICK scope \in Scopes : \E field \in FieldsOf(scope), text \in EditedTexts :
        /\ preferences' = [preferences EXCEPT ![scope][field] = text]
        /\ process' = Disturb(scope, "nobody")
        /\ meant' = [meant EXCEPT ![scope] = Unknown]
  BY DEF EditRow
<1>2. PICK field \in FieldsOf(scope), text \in EditedTexts :
        /\ preferences' = [preferences EXCEPT ![scope][field] = text]
        /\ process' = Disturb(scope, "nobody")
        /\ meant' = [meant EXCEPT ![scope] = Unknown]
  BY <1>1
<1>3. text \in Int
  BY SettingsServiceAssumption DEF Texts, TrueText, FalseText, Garbage
<1>4. /\ preferences' \in [Scopes -> Rows]
      /\ \A s \in Scopes : preferences'[s] \in [FieldsOf(s) -> Int]
      /\ \A s \in Scopes \ {scope} : preferences'[s] = preferences[s]
      /\ MeantInv'
  BY <1>2, <1>3, WrittenRow
<1>5. ServiceTypeOK /\ answer' = NoAnswer /\ UNCHANGED <<saved, exportFile>>
  BY DEF EditRow, ServiceInvariant
<1>6. ASSUME NEW q \in Processes
      PROVE  process'[q] \in OperationRecord /\ OperationInv(process'[q], preferences')
  <2>1. process'[q] = Disturb(scope, "nobody")[q] /\ q # "nobody"
    BY <1>2, SettingsServiceAssumption
  <2>2. process[q] \in OperationRecord /\ OperationInv(process[q], preferences)
    BY DEF ServiceInvariant, ServiceTypeOK
  <2>3. process'[q] = Disturbed(process[q], scope)
    BY <1>5, <2>1, DisturbedProcess
  <2> QED
    BY <1>4, <2>2, <2>3, DisturbedOperation
<1>7. process' = [q \in Processes |-> process'[q]]
  BY <1>2 DEF Disturb
<1>8. process' \in [Processes -> OperationRecord]
  BY <1>6, <1>7
<1>9. ServiceTypeOK'
  BY <1>4, <1>5, <1>8 DEF ServiceTypeOK
<1>10. (\A q \in Processes : OperationInv(process[q], preferences))'
  BY <1>6
<1> QED
  BY <1>4, <1>5, <1>9, <1>10, NoAnswerIsQuiet DEF ServiceInvariant

LEMMA PassOverStep ==
  ASSUME ServiceInvariant, NEW p \in Processes, PassOver(p) PROVE ServiceInvariant'
<1> DEFINE w    == process[p]
           next == [w EXCEPT !.todo = Tail(@)]
<1>1. /\ Writing(w) /\ w.todo # <<>> /\ Head(w.todo)[3] = Unset
      /\ process' = [process EXCEPT ![p].todo = Tail(@)]
      /\ answer' = NoAnswer /\ UNCHANGED <<storageVars, meant>>
  BY DEF PassOver, Writing
<1>2. /\ process \in [Processes -> OperationRecord]
      /\ w \in OperationRecord /\ OperationInv(w, preferences)
  BY DEF ServiceInvariant, ServiceTypeOK
<1>3. process' = [process EXCEPT ![p] = next]
  BY <1>1, <1>2
<1> HIDE DEF w
<1> DEFINE field == Head(w.todo)[2]
           rows  == [s \in {w.scope} |-> w.settings]
<1>4. \A f \in FieldsOf(w.scope) :
        Agrees(preferences[w.scope], w.settings, f) \/ f = field =>
          Agrees(rows[w.scope], w.settings, f)
  BY DEF Agrees
<1> HIDE DEF rows, next
<1>5. w.settings[field] = Unset
  BY <1>1, <1>2, <1>4, AdvancedWriter
<1>6. \A f \in FieldsOf(w.scope) :
        Agrees(preferences[w.scope], w.settings, f) \/ f = field =>
          Agrees(preferences[w.scope], w.settings, f)
  BY <1>5 DEF Agrees
<1>7. next \in OperationRecord /\ OperationInv(next, preferences)
  BY <1>1, <1>2, <1>6, AdvancedWriter DEF next
<1> QED
  BY <1>1, <1>3, <1>7, ThinkingStep

(* A reader reads rows that there are. *)
LEMMA ReadStatement ==
  ASSUME NEW doing \in {"load", "resolve", "export"}, NEW k \in 1..Len(ReadsOf(doing))
  PROVE  \E s \in Scopes : ReadsOf(doing)[k][1] = s /\ ReadsOf(doing)[k][2] \in FieldsOf(s)
<1> DEFINE g == Len(OrderOf(Global))
           r == Len(OrderOf(Repository))
<1>1. /\ Global \in Scopes /\ Repository \in Scopes /\ g \in Nat /\ r \in Nat
      /\ \A i \in 1..g : OrderOf(Global)[i] \in FieldsOf(Global)
      /\ \A i \in 1..r : OrderOf(Repository)[i] \in FieldsOf(Repository)
  BY SomeRows, OrderNamesTheFields
<1>2. CASE doing = "resolve"
  <2>1. /\ Len(ReadsOf(doing)) = g + r
        /\ \A i \in 1..g : ReadsOf(doing)[i] = <<Global, OrderOf(Global)[i]>>
        /\ \A i \in 1..r : ReadsOf(doing)[g + i] = <<Repository, OrderOf(Repository)[i]>>
    BY <1>2, ResolutionReads DEF ReadsOf
  <2> HIDE DEF g, r
  <2>2. CASE k \in 1..g
    BY <1>1, <2>1, <2>2 DEF g
  <2>3. CASE k \notin 1..g
    <3>1. k - g \in 1..r /\ g + (k - g) = k
      BY <1>1, <2>1, <2>3
    <3>2. ReadsOf(doing)[k] = <<Repository, OrderOf(Repository)[k - g]>>
      BY <2>1, <3>1
    <3> QED
      BY <1>1, <3>1, <3>2 DEF r
  <2> QED
    BY <2>2, <2>3
<1>3. CASE doing # "resolve"
  <2>1. /\ Len(ReadsOf(doing)) = g
        /\ \A i \in 1..g : ReadsOf(doing)[i] = <<Global, OrderOf(Global)[i]>>
    BY <1>1, <1>3, ReadsAreStatements DEF ReadsOf
  <2> QED
    BY <1>1, <2>1
<1> QED
  BY <1>2, <1>3

LEMMA ReadRowStep ==
  ASSUME ServiceInvariant, NEW p \in Processes, ReadRow(p) PROVE ServiceInvariant'
<1> DEFINE w     == process[p]
           reads == ReadsOf(w.doing)
           read  == Head(w.todo)
           text  == preferences[read[1]][read[2]]
           next  == [w EXCEPT !.todo = Tail(@), !.seen = Append(@, text)]
<1>1. /\ Reading(w) /\ w.todo # <<>>
      /\ process' = [process EXCEPT ![p].todo = Tail(@), ![p].seen = Append(@, text)]
      /\ answer' = NoAnswer /\ UNCHANGED <<storageVars, meant>>
  BY DEF ReadRow, Reading
<1>2. /\ process \in [Processes -> OperationRecord]
      /\ w \in OperationRecord /\ OperationInv(w, preferences)
      /\ \A s \in Scopes : preferences[s] \in [FieldsOf(s) -> Int]
  BY DEF ServiceInvariant, ServiceTypeOK
<1>3. process' = [process EXCEPT ![p] = next]
  BY <1>1, <1>2
<1>4. /\ w.todo \in Seq(Statement) /\ w.seen \in Seq(Int)
      /\ w.doing \in {"load", "resolve", "export"}
  BY <1>1, <1>2 DEF OperationRecord, Reading
<1>5. /\ Len(w.seen) + Len(w.todo) = Len(reads) /\ Len(reads) \in Nat
      /\ \A i \in 1..Len(w.todo) : w.todo[i] = reads[Len(w.seen) + i]
      /\ w.undisturbed => \A i \in 1..Len(w.seen) :
                            w.seen[i] = preferences[reads[i][1]][reads[i][2]]
  BY <1>1, <1>2, <1>4, ReadsOfIsSequence DEF OperationInv, ReaderOf
<1> HIDE DEF w
<1>6. /\ Len(w.todo) \in Nat /\ Len(w.todo) > 0 /\ read = w.todo[1]
      /\ Tail(w.todo) \in Seq(Statement) /\ Len(Tail(w.todo)) = Len(w.todo) - 1
      /\ \A i \in 1..Len(Tail(w.todo)) : i + 1 \in 1..Len(w.todo)
                                         /\ Tail(w.todo)[i] = w.todo[i + 1]
  BY <1>1, <1>4, NextStatement
<1>7. Len(w.seen) \in Nat /\ read = reads[Len(w.seen) + 1]
  <2>1. Len(w.seen) \in Nat /\ 1 \in 1..Len(w.todo)
    BY <1>4, <1>6
  <2> QED
    BY <1>5, <1>6, <2>1
<1> DEFINE behind == Len(w.seen)
           before == Len(w.todo)
<1>8. /\ behind \in Nat /\ before \in Nat /\ before > 0
      /\ behind + before = Len(reads) /\ behind + 1 \in 1..Len(reads)
  <2>1. behind \in Nat /\ before \in Nat /\ before > 0
    BY <1>6, <1>7
  <2>2. behind + before = Len(reads) /\ Len(reads) \in Nat
    BY <1>5
  <2> HIDE DEF behind, before
  <2> QED
    BY <2>1, <2>2
<1>9. text \in Int
  <2>1. \E s \in Scopes : read[1] = s /\ read[2] \in FieldsOf(s)
    BY <1>4, <1>7, <1>8, ReadStatement
  <2> QED
    BY <1>2, <2>1
<1> HIDE DEF read, text, reads
<1> DEFINE seen == Append(w.seen, text)
<1>10. /\ seen \in Seq(Int) /\ Len(seen) = Len(w.seen) + 1
       /\ seen[Len(w.seen) + 1] = text
       /\ \A i \in 1..Len(w.seen) : seen[i] = w.seen[i]
  BY <1>4, <1>9
<1> HIDE DEF seen
<1>11. /\ next \in OperationRecord
       /\ next.doing = w.doing /\ next.todo = Tail(w.todo) /\ next.seen = seen
       /\ next.undisturbed = w.undisturbed
  BY <1>2, <1>6, <1>10 DEF OperationRecord, seen
<1> HIDE DEF next
<1>12. Len(next.seen) = Len(w.seen) + 1 /\ Len(next.todo) = Len(w.todo) - 1
  BY <1>6, <1>10, <1>11
<1>13. Len(next.seen) + Len(next.todo) = Len(reads)
  <2>1. Len(next.seen) = behind + 1 /\ Len(next.todo) = before - 1
    BY <1>12
  <2> HIDE DEF behind, before
  <2> QED
    BY <1>8, <2>1
<1>14. ASSUME NEW i \in 1..Len(next.todo) PROVE next.todo[i] = reads[Len(next.seen) + i]
  <2>1. i + 1 \in 1..Len(w.todo) /\ next.todo[i] = w.todo[i + 1]
    BY <1>6, <1>11
  <2>2. Len(w.seen) + (i + 1) = Len(next.seen) + i
    <3>1. Len(next.seen) = behind + 1 /\ Len(next.todo) = before - 1
      BY <1>12
    <3> HIDE DEF behind, before
    <3>2. behind + (i + 1) = Len(next.seen) + i
      BY <1>8, <3>1
    <3> QED
      BY <3>2 DEF behind
  <2> QED
    BY <1>5, <2>1, <2>2
<1>15. ASSUME w.undisturbed, NEW i \in 1..Len(next.seen)
       PROVE  next.seen[i] = preferences[reads[i][1]][reads[i][2]]
  <2>1. i \in 1..Len(w.seen) \/ i = Len(w.seen) + 1
    BY <1>7, <1>12
  <2>2. CASE i \in 1..Len(w.seen)
    BY <1>5, <1>10, <1>11, <1>15, <2>2
  <2>3. CASE i = Len(w.seen) + 1
    BY <1>7, <1>10, <1>11, <2>3 DEF text
  <2> QED
    BY <2>1, <2>2, <2>3
<1>16. ReaderOf(next, preferences)
  BY <1>11, <1>13, <1>14, <1>15 DEF ReaderOf, reads
<1>17. OperationInv(next, preferences)
  BY <1>1, <1>11, <1>16 DEF OperationInv, Writing, Reading
<1> QED
  BY <1>1, <1>3, <1>11, <1>17, ThinkingStep

LEMMA SaveSearchStep ==
  ASSUME ServiceInvariant, NEW p \in Processes, SaveSearch(p) PROVE ServiceInvariant'
<1> DEFINE w == process[p]
<1>1. PICK search \in w.searches :
        /\ saved' = [saved EXCEPT ![search[1]] = search[2]]
        /\ process' = [process EXCEPT ![p].searches = @ \ {search}]
  BY DEF SaveSearch
<1> DEFINE next == [w EXCEPT !.searches = @ \ {search}]
<1>2. /\ process \in [Processes -> OperationRecord]
      /\ w \in OperationRecord /\ OperationInv(w, preferences)
      /\ saved \in [SearchNames -> Searches \cup {NoSearch}]
  BY DEF ServiceInvariant, ServiceTypeOK
<1>3. UNCHANGED <<preferences, exportFile, meant>> /\ answer' = NoAnswer
  BY DEF SaveSearch
<1>4. process' = [process EXCEPT ![p] = next]
  BY <1>1, <1>2
<1> HIDE DEF w
<1>5. /\ next \in OperationRecord /\ w.searches \subseteq SearchNames \X Searches
      /\ next.doing = w.doing /\ next.todo = w.todo /\ next.seen = w.seen
      /\ next.scope = w.scope /\ next.settings = w.settings
      /\ next.undisturbed = w.undisturbed
  BY <1>2 DEF OperationRecord
<1> HIDE DEF next
<1>6. OperationInv(next, preferences)
  <2>1. WriterOf(w, preferences) => WriterOf(next, preferences)
    BY <1>5 DEF WriterOf
  <2>2. ReaderOf(w, preferences) => ReaderOf(next, preferences)
    BY <1>5 DEF ReaderOf
  <2> QED
    BY <1>2, <1>5, <2>1, <2>2 DEF OperationInv, Writing, Reading
<1>7. saved' \in [SearchNames -> Searches \cup {NoSearch}]
  BY <1>1, <1>2, <1>5
<1>8. MeantInv'
  BY <1>3 DEF ServiceInvariant, MeantInv
<1>9. exportFile' # NoDocument =>
        exportFile'.savedSearches \subseteq SearchNames \X Searches
  BY <1>3 DEF ServiceInvariant, ServiceTypeOK
<1> QED
  BY <1>3, <1>4, <1>5, <1>6, <1>7, <1>8, <1>9, OperationStep, NoAnswerIsQuiet

(* A save has written all that it was given. *)
LEMMA WriterDone ==
  ASSUME NEW w \in OperationRecord, Writing(w), NEW rows, OperationInv(w, rows),
         w.todo = <<>>, w.undisturbed
  PROVE  /\ w.scope \in Scopes /\ w.settings \in NormalOf(w.scope)
         /\ \A field \in FieldsOf(w.scope) : Agrees(rows[w.scope], w.settings, field)
<1>1. w.scope \in Scopes /\ Len(w.todo) = 0
  BY DEF OperationRecord
<1>2. /\ Len(OrderOf(w.scope)) \in Nat
      /\ \A field \in FieldsOf(w.scope) :
           \E i \in 1..Len(OrderOf(w.scope)) : OrderOf(w.scope)[i] = field
  BY <1>1, OrderNamesTheFields
<1>3. /\ w.settings \in NormalOf(w.scope)
      /\ \A i \in 1..(Len(OrderOf(w.scope)) - Len(w.todo)) :
           Agrees(rows[w.scope], w.settings, OrderOf(w.scope)[i])
  BY DEF OperationInv, WriterOf
<1>4. Len(OrderOf(w.scope)) - Len(w.todo) = Len(OrderOf(w.scope))
  BY <1>1, <1>2
<1> QED
  BY <1>1, <1>2, <1>3, <1>4

LEMMA SavingEndsStep ==
  ASSUME ServiceInvariant, NEW p \in Processes, SavingEnds(p) PROVE ServiceInvariant'
<1> DEFINE w == process[p]
<1>1. /\ Writing(w) /\ w.todo = <<>>
      /\ process' = [process EXCEPT ![p] = Idle]
      /\ meant' = IF w.undisturbed THEN [meant EXCEPT ![w.scope] = w.settings] ELSE meant
      /\ answer' = NoAnswer /\ UNCHANGED storageVars
  BY DEF SavingEnds, Writing
<1>2. /\ w \in OperationRecord /\ OperationInv(w, preferences) /\ MeantInv
      /\ \A s \in Scopes : preferences[s] \in [FieldsOf(s) -> Int]
  BY DEF ServiceInvariant, ServiceTypeOK
<1> HIDE DEF w
<1>3. CASE ~w.undisturbed
  <2>1. UNCHANGED meant
    BY <1>1, <1>3
  <2> QED
    BY <1>1, <2>1, ThinkingStep, IdleOperation
<1>4. CASE w.undisturbed
  <2>1. /\ w.scope \in Scopes /\ w.settings \in NormalOf(w.scope)
        /\ \A field \in FieldsOf(w.scope) :
             Agrees(preferences[w.scope], w.settings, field)
    BY <1>1, <1>2, <1>4, WriterDone
  <2>2. w.settings \in Rows
    BY <2>1, SomeRows
  <2>3. /\ meant' \in [Scopes -> Rows \cup {Unknown}]
        /\ meant'[w.scope] = w.settings
        /\ \A s \in Scopes \ {w.scope} : meant'[s] = meant[s]
    BY <1>1, <1>2, <1>4, <2>1, <2>2 DEF MeantInv
  <2>4. GlobalMeant(preferences[Global], meant'[Global])
    <3>1. CASE w.scope = Global
      <4>1. /\ w.settings \in NormalGlobals /\ preferences[Global] \in [GlobalFields -> Int]
            /\ \A field \in GlobalFields : Agrees(preferences[Global], w.settings, field)
        BY <1>2, <2>1, <3>1, TheScopes, SomeRows DEF NormalOf
      <4>2. globalSettingsFromRows(preferences[Global]) = w.settings
        BY <4>1, SavedGlobalsAreLoaded
      <4> QED
        BY <2>3, <3>1, <4>2 DEF GlobalMeant
    <3>2. CASE w.scope # Global
      BY <1>2, <2>3, <3>2, SomeRows DEF MeantInv
    <3> QED
      BY <3>1, <3>2
  <2>5. RepositoryMeant(preferences[Repository], meant'[Repository])
    <3>1. CASE w.scope = Repository
      <4>1. /\ w.settings \in NormalOverrides
            /\ \A field \in RepositoryFields :
                 Agrees(preferences[Repository], w.settings, field)
        BY <2>1, <3>1, TheScopes DEF NormalOf
      <4> QED
        BY <2>3, <3>1, <4>1 DEF RepositoryMeant
    <3>2. CASE w.scope # Repository
      BY <1>2, <2>3, <3>2, SomeRows DEF MeantInv
    <3> QED
      BY <3>1, <3>2
  <2>6. MeantInv'
    <3>1. UNCHANGED preferences
      BY <1>1 DEF storageVars
    <3> QED
      BY <2>3, <2>4, <2>5, <3>1 DEF MeantInv
  <2>7. /\ saved' \in [SearchNames -> Searches \cup {NoSearch}]
        /\ exportFile' # NoDocument =>
             exportFile'.savedSearches \subseteq SearchNames \X Searches
        /\ UNCHANGED preferences
    BY <1>1 DEF ServiceInvariant, ServiceTypeOK, storageVars
  <2> QED
    BY <1>1, <2>6, <2>7, OperationStep, NoAnswerIsQuiet, IdleOperation
<1> QED
  BY <1>3, <1>4

(* What an undisturbed load has read are the rows. *)
ReadInTurn(scope, p, first, field) ==
  \E i \in 1..Len(OrderOf(scope)) :
    /\ OrderOf(scope)[i] = field
    /\ Seen(p, scope, first)[field] = process[p].seen[first + i]

LEMMA SeenIsRow ==
  ASSUME NEW scope \in Scopes, NEW p \in Processes, NEW first \in Nat,
         NEW field \in FieldsOf(scope)
  PROVE  ReadInTurn(scope, p, first, field)
<1> DEFINE i == CHOOSE n \in DOMAIN OrderOf(scope) : OrderOf(scope)[n] = field
<1>1. i \in 1..Len(OrderOf(scope)) /\ OrderOf(scope)[i] = field
  <2>1. /\ DOMAIN OrderOf(scope) = 1..Len(OrderOf(scope))
        /\ \E n \in 1..Len(OrderOf(scope)) : OrderOf(scope)[n] = field
    BY OrderNamesTheFields
  <2> QED
    BY <2>1
<1>2. Seen(p, scope, first)[field] = process[p].seen[first + i]
  BY DEF Seen
<1> HIDE DEF i
<1> QED
  BY <1>1, <1>2 DEF ReadInTurn

LEMMA ReaderDone ==
  ASSUME ServiceInvariant, NEW p \in Processes, Reading(process[p]),
         process[p].todo = <<>>, process[p].undisturbed
  PROVE  /\ Seen(p, Global, 0) = preferences[Global]
         /\ process[p].doing = "resolve" =>
              Seen(p, Repository, Len(GlobalOrder)) = preferences[Repository]
<1> DEFINE w     == process[p]
           reads == ReadsOf(w.doing)
           g     == Len(OrderOf(Global))
           r     == Len(OrderOf(Repository))
<1>1. /\ w \in OperationRecord /\ OperationInv(w, preferences)
      /\ \A s \in Scopes : preferences[s] \in [FieldsOf(s) -> Int]
  BY DEF ServiceInvariant, ServiceTypeOK
<1>2. w.doing \in {"load", "resolve", "export"} /\ w.seen \in Seq(Int) /\ Len(w.todo) = 0
  BY <1>1 DEF OperationRecord, Reading
<1>3. /\ Len(reads) \in Nat /\ Len(w.seen) + Len(w.todo) = Len(reads)
      /\ \A i \in 1..Len(w.seen) : w.seen[i] = preferences[reads[i][1]][reads[i][2]]
  BY <1>1, <1>2, ReadsOfIsSequence DEF OperationInv, ReaderOf
<1>4. Len(w.seen) = Len(reads)
  <2>1. Len(w.seen) \in Nat
    BY <1>2
  <2> QED
    BY <1>2, <1>3, <2>1
<1>5. g \in Nat /\ r \in Nat /\ Global \in Scopes /\ Repository \in Scopes
  BY OrderNamesTheFields, SomeRows
<1> HIDE DEF w
<1>6. /\ Len(reads) >= g
      /\ \A i \in 1..g : reads[i] = <<Global, OrderOf(Global)[i]>>
      /\ w.doing = "resolve" =>
           /\ Len(reads) = g + r
           /\ \A i \in 1..r : reads[g + i] = <<Repository, OrderOf(Repository)[i]>>
  <2>1. CASE w.doing = "resolve"
    <3>1. /\ Len(reads) = g + r
          /\ \A i \in 1..g : reads[i] = <<Global, OrderOf(Global)[i]>>
          /\ \A i \in 1..r : reads[g + i] = <<Repository, OrderOf(Repository)[i]>>
      BY <2>1, ResolutionReads DEF ReadsOf
    <3> HIDE DEF reads, g, r
    <3>2. Len(reads) >= g
      BY <1>5, <3>1
    <3> QED
      BY <3>1, <3>2
  <2>2. CASE w.doing # "resolve"
    <3>1. /\ Len(reads) = g
          /\ \A i \in 1..g : reads[i] = <<Global, OrderOf(Global)[i]>>
      BY <1>5, <2>2, ReadsAreStatements DEF ReadsOf
    <3> QED
      BY <1>5, <2>2, <3>1
  <2> QED
    BY <2>1, <2>2
<1> HIDE DEF reads
<1>7. ASSUME NEW field \in FieldsOf(Global)
      PROVE  Seen(p, Global, 0)[field] = preferences[Global][field]
  <2>1. PICK i \in 1..g : /\ OrderOf(Global)[i] = field
                          /\ Seen(p, Global, 0)[field] = w.seen[0 + i]
    <3>1. 0 \in Nat
      OBVIOUS
    <3> HIDE DEF g
    <3>2. ReadInTurn(Global, p, 0, field)
      BY <1>5, <3>1, SeenIsRow
    <3> QED
      BY <3>2 DEF ReadInTurn, g, w
  <2> HIDE DEF g
  <2>2. i \in 1..Len(w.seen) /\ 0 + i = i
    BY <1>3, <1>4, <1>5, <1>6
  <2>3. w.seen[i] = preferences[reads[i][1]][reads[i][2]]
    BY <1>3, <2>2
  <2>4. reads[i] = <<Global, field>>
    BY <1>6, <2>1
  <2> QED
    BY <2>1, <2>2, <2>3, <2>4
<1>8. ASSUME NEW field \in FieldsOf(Repository), w.doing = "resolve"
      PROVE  Seen(p, Repository, g)[field] = preferences[Repository][field]
  <2>1. PICK i \in 1..r : /\ OrderOf(Repository)[i] = field
                          /\ Seen(p, Repository, g)[field] = w.seen[g + i]
    <3> HIDE DEF g, r
    <3>1. ReadInTurn(Repository, p, g, field)
      BY <1>5, SeenIsRow
    <3> QED
      BY <3>1 DEF ReadInTurn, r, w
  <2> HIDE DEF g, r
  <2>2. g + i \in 1..Len(w.seen)
    BY <1>4, <1>5, <1>6, <1>8
  <2>3. w.seen[g + i] = preferences[reads[g + i][1]][reads[g + i][2]]
    BY <1>3, <2>2
  <2>4. reads[g + i] = <<Repository, field>>
    BY <1>6, <1>8, <2>1
  <2> QED
    BY <2>1, <2>3, <2>4
<1>9. Seen(p, Global, 0) = preferences[Global]
  <2>1. Seen(p, Global, 0) = [field \in FieldsOf(Global) |-> Seen(p, Global, 0)[field]]
    BY DEF Seen
  <2>2. preferences[Global] \in [FieldsOf(Global) -> Int]
    BY <1>1, <1>5
  <2> QED
    BY <1>7, <2>1, <2>2
<1>10. ASSUME w.doing = "resolve"
       PROVE  Seen(p, Repository, g) = preferences[Repository]
  <2>1. Seen(p, Repository, g)
          = [field \in FieldsOf(Repository) |-> Seen(p, Repository, g)[field]]
    BY DEF Seen
  <2>2. preferences[Repository] \in [FieldsOf(Repository) -> Int]
    BY <1>1, <1>5
  <2> QED
    BY <1>8, <1>10, <2>1, <2>2
<1>11. g = Len(GlobalOrder)
  BY DEF OrderOf
<1> QED
  BY <1>9, <1>10, <1>11 DEF w

(* What an undisturbed load returns is what was meant. *)
LEMMA LoadedIsMeant ==
  ASSUME ServiceInvariant, NEW p \in Processes, LoadEnds(p)
  PROVE  QuietLoadIsLastSave'
<1> DEFINE w == process[p]
<1>1. w.todo = <<>> /\ Reading(w)
  BY DEF LoadEnds, Reading
<1>2. SUFFICES ASSUME Quiet({Global})'
               PROVE  /\ answer'.kind = "global" => answer'.value = answer'.meant[Global]
                      /\ Quiet(Scopes)' /\ answer'.kind = "effective" =>
                           \A field \in GlobalFields \cup RepositoryFields :
                             LET override == IF field \in RepositoryFields
                                             THEN answer'.meant[Repository][field]
                                             ELSE Unset
                             IN  /\ override # Unset => answer'.value[field] = override
                                 /\ field = "telemetryEnabled" =>
                                      answer'.value[field] = answer'.meant[Global][field]
  BY TheScopes DEF QuietLoadIsLastSave, Quiet
<1>3. /\ answer'.meant = meant /\ answer'.undisturbed = w.undisturbed
      /\ \/ w.doing = "load" /\ answer'.kind = "global"
            /\ answer'.value = LoadedGlobal(p)
         \/ /\ w.doing = "resolve" /\ answer'.kind = "effective"
            /\ answer'.value =
                 effectiveRepositorySettings(LoadedGlobal(p), LoadedRepository(p))
  BY DEF LoadEnds, Answered
<1>4. w.undisturbed /\ meant[Global] # Unknown
  BY <1>2, <1>3 DEF Quiet
<1>5. /\ Seen(p, Global, 0) = preferences[Global]
      /\ w.doing = "resolve" =>
           Seen(p, Repository, Len(GlobalOrder)) = preferences[Repository]
  BY <1>1, <1>4, ReaderDone
<1>6. LoadedGlobal(p) = meant[Global]
  BY <1>4, <1>5 DEF LoadedGlobal, ServiceInvariant, MeantInv, GlobalMeant
<1> HIDE DEF w
<1>7. CASE answer'.kind = "global"
  BY <1>3, <1>6, <1>7
<1>8. CASE answer'.kind = "effective" /\ Quiet(Scopes)'
  <2>1. /\ LoadedRepository(p) = repositorySettingsFromRows(preferences[Repository])
        /\ answer'.value = effectiveRepositorySettings(LoadedGlobal(p), LoadedRepository(p))
    BY <1>3, <1>5, <1>8 DEF LoadedRepository
  <2>2. meant[Repository] # Unknown
    BY <1>3, <1>8, SomeRows DEF Quiet
  <2>3. /\ meant[Repository] \in NormalOverrides
        /\ \A field \in RepositoryFields :
             Agrees(preferences[Repository], meant[Repository], field)
    BY <2>2 DEF ServiceInvariant, MeantInv, RepositoryMeant
  <2>4. ASSUME NEW field \in RepositoryFields, meant[Repository][field] # Unset
        PROVE  answer'.value[field] = meant[Repository][field]
    BY <2>1, <2>3, <2>4, SavedOverrideIsLoaded DEF Agrees
  <2>5. answer'.value["telemetryEnabled"] = meant[Global]["telemetryEnabled"]
    BY <1>6, <2>1, TelemetryIsGlobal
  <2> QED
    BY <1>3, <1>8, <2>4, <2>5
<1> QED
  BY <1>3, <1>7, <1>8

LEMMA OtherSteps ==
  ASSUME ServiceInvariant, NEW p \in Processes,
         LoadEnds(p) \/ ExportEnds(p) \/ Crash(p)
  PROVE  ServiceInvariant'
<1>1. process' = [process EXCEPT ![p] = Idle] /\ UNCHANGED <<preferences, saved, meant>>
  BY DEF LoadEnds, ExportEnds, Crash, storageVars
<1>2. QuietLoadIsLastSave'
  <2>1. LoadEnds(p) => QuietLoadIsLastSave'
    BY LoadedIsMeant
  <2>2. ExportEnds(p) \/ Crash(p) => answer' = NoAnswer
    BY DEF ExportEnds, Crash
  <2> QED
    BY <2>1, <2>2, NoAnswerIsQuiet
<1>3. exportFile' # NoDocument =>
        exportFile'.savedSearches \subseteq SearchNames \X Searches
  <2>1. CASE ExportEnds(p)
    <3>1. exportFile'.savedSearches =
            {<<name, saved[name]>> : name \in {n \in SearchNames : saved[n] # NoSearch}}
      BY <2>1 DEF ExportEnds, writeSettingsExport, Document
    <3>2. saved \in [SearchNames -> Searches \cup {NoSearch}]
      BY DEF ServiceInvariant, ServiceTypeOK
    <3> QED
      BY <3>1, <3>2
  <2>2. CASE LoadEnds(p) \/ Crash(p)
    BY <2>2 DEF LoadEnds, Crash, storageVars, ServiceInvariant, ServiceTypeOK
  <2> QED
    BY <2>1, <2>2
<1>4. MeantInv' /\ saved' \in [SearchNames -> Searches \cup {NoSearch}]
  BY <1>1 DEF ServiceInvariant, ServiceTypeOK, MeantInv
<1> QED
  BY <1>1, <1>2, <1>3, <1>4, OperationStep, IdleOperation

LEMMA EditFileStep == ASSUME ServiceInvariant, EditFile PROVE ServiceInvariant'
<1>1. /\ exportFile' \in EditedDocuments /\ answer' = NoAnswer
      /\ UNCHANGED <<preferences, saved, process, operations, meant>>
  BY DEF EditFile
<1>2. exportFile'.savedSearches \subseteq SearchNames \X Searches
  BY <1>1, SettingsServiceAssumption
<1>3. ServiceTypeOK'
  BY <1>1, <1>2 DEF ServiceInvariant, ServiceTypeOK
<1>4. (\A p \in Processes : OperationInv(process[p], preferences))' /\ MeantInv'
  BY <1>1 DEF ServiceInvariant, MeantInv
<1> QED
  BY <1>1, <1>3, <1>4, NoAnswerIsQuiet DEF ServiceInvariant

LEMMA InitialService == SettingsInit => ServiceInvariant
<1> SUFFICES ASSUME SettingsInit PROVE ServiceInvariant
  OBVIOUS
<1>1. Unset \in Int /\ Global \in Scopes /\ Repository \in Scopes /\ Repository # Global
  BY SomeRows, TheScopes DEF Unset
<1>2. /\ preferences = [scope \in Scopes |-> [field \in FieldsOf(scope) |-> Unset]]
      /\ meant[Global] = defaultGlobalSettings
      /\ meant[Repository] = [field \in RepositoryFields |-> Unset]
      /\ DOMAIN meant = Scopes /\ meant = [scope \in Scopes |-> meant[scope]]
  BY <1>1 DEF SettingsInit
<1>3. /\ \A scope \in Scopes : preferences[scope] \in [FieldsOf(scope) -> Int]
      /\ preferences \in [Scopes -> Rows]
  BY <1>1, <1>2, SomeRows
<1>4. ServiceTypeOK
  BY <1>3, IdleOperation DEF SettingsInit, ServiceTypeOK
<1>5. \A p \in Processes : OperationInv(process[p], preferences)
  BY IdleOperation DEF SettingsInit
<1>6. GlobalMeant(preferences[Global], meant[Global])
  BY <1>1, <1>2, DefaultsAreLoaded, TheScopes DEF GlobalMeant
<1>7. meant[Repository] \in NormalOverrides
  BY <1>1, <1>2, FieldKinds, SizesAreFields DEF NormalOverrides, OptionalBools
<1>8. RepositoryMeant(preferences[Repository], meant[Repository])
  BY <1>2, <1>7 DEF RepositoryMeant, Agrees
<1>9. meant \in [Scopes -> Rows \cup {Unknown}]
  <2>1. meant[Global] \in Rows /\ meant[Repository] \in Rows
    BY <1>2, <1>7, DefaultsAreLoaded DEF NormalGlobals, NormalOverrides, Rows
  <2> QED
    BY <1>2, <2>1, TheScopes
<1>10. QuietLoadIsLastSave
  BY DEF SettingsInit, NoAnswer, QuietLoadIsLastSave, Quiet
<1> QED
  BY <1>4, <1>5, <1>6, <1>8, <1>9, <1>10 DEF ServiceInvariant, MeantInv

LEMMA ServiceStep ==
  ServiceInvariant /\ [SettingsNext]_settingsVars => ServiceInvariant'
<1> SUFFICES ASSUME ServiceInvariant, [SettingsNext]_settingsVars PROVE ServiceInvariant'
  OBVIOUS
<1>1. ASSUME NEW p \in Processes,
             \/ SaveGlobalSettings(p) \/ SaveRepositorySettings(p)
             \/ LoadGlobalSettings(p) \/ ResolveRepositorySettings(p)
             \/ ExportSettings(p) \/ ImportSettings(p)
      PROVE  ServiceInvariant'
  BY <1>1, BeginningStep
<1>2. ASSUME NEW p \in Processes, WriteRow(p) \/ PassOver(p) \/ ReadRow(p)
      PROVE  ServiceInvariant'
  BY <1>2, WriteRowStep, PassOverStep, ReadRowStep
<1>3. ASSUME NEW p \in Processes, SaveSearch(p) \/ SavingEnds(p)
      PROVE  ServiceInvariant'
  BY <1>3, SaveSearchStep, SavingEndsStep
<1>4. ASSUME NEW p \in Processes, LoadEnds(p) \/ ExportEnds(p) \/ Crash(p)
      PROVE  ServiceInvariant'
  BY <1>4, OtherSteps
<1>5. CASE EditRow \/ EditFile
  BY <1>5, EditRowStep, EditFileStep
<1>6. CASE UNCHANGED settingsVars
  <2>1. UNCHANGED <<preferences, saved, exportFile, process, answer, meant>>
    BY <1>6 DEF settingsVars
  <2>2. ServiceTypeOK' /\ MeantInv' /\ QuietLoadIsLastSave'
    BY <2>1 DEF ServiceInvariant, ServiceTypeOK, MeantInv, QuietLoadIsLastSave, Quiet
  <2>3. (\A p \in Processes : OperationInv(process[p], preferences))'
    BY <2>1 DEF ServiceInvariant
  <2> QED
    BY <2>2, <2>3 DEF ServiceInvariant
<1> QED
  BY <1>1, <1>2, <1>3, <1>4, <1>5, <1>6 DEF SettingsNext, SettingsStep

(* An undisturbed load returns what the last undisturbed save wrote, also  *)
(* over rows edited by hand and rows of a save that was torn, and through  *)
(* export and import; overrides that were set are in force, and telemetry  *)
(* is what the global settings say (settings-service.cpp, load, resolve,   *)
(* save, import).                                                          *)
THEOREM SettingsQuietLoadIsLastSave == SettingsSpec => []QuietLoadIsLastSave
<1>1. ServiceInvariant => QuietLoadIsLastSave
  BY DEF ServiceInvariant
<1> QED
  BY <1>1, InitialService, ServiceStep, PTL DEF SettingsSpec
=============================================================================
