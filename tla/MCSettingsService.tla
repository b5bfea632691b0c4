------------------------- MODULE MCSettingsService -------------------------
EXTENDS SettingsService

CONSTANTS p1, p2

Order  == <<"memoryBudgetBytes", "resultLimit">>
Limits == [field \in {"memoryBudgetBytes", "resultLimit"} |-> 2]

GlobalOf(budget, limit, telemetry) ==
  [memoryBudgetBytes |-> budget, resultLimit |-> limit,
   telemetryEnabled |-> telemetry]
OverridesOf(budget, limit, ignore) ==
  [memoryBudgetBytes |-> budget, resultLimit |-> limit,
   respectGitignore |-> ignore]

(* A budget beyond its maximum and a limit of zero; plain settings.        *)
Globals   == {GlobalOf(3, 0, TrueText), GlobalOf(0, 2, FalseText)}
Overrides == {OverridesOf(Unset, 2, FalseText), OverridesOf(0, 0, Unset)}
Cleared   == {OverridesOf(Unset, 2, Unset), OverridesOf(Unset, Unset, Unset)}
Editable  == {Garbage, 3}

(* An export file edited by hand: another budget, another version, a text  *)
(* where a number belongs.                                                 *)
Edited ==
  LET good == Document(GlobalOf(3, 1, FalseText), {<<"a", 1>>}) IN
    {good, [good EXCEPT !.version = 2],
     [good EXCEPT !.global.resultLimit = NoNumber]}

(* Saves and loads alone: no crash, no edit by hand. *)
UninterruptedSpec == SettingsInit /\ [][SettingsStep]_settingsVars
=============================================================================
