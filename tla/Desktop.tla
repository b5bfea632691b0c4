------------------------------ MODULE Desktop ------------------------------
(***************************************************************************)
(* The parts of the application above the search engine and the index:     *)
(* the settings, the scope history, the desktop's search controller, the   *)
(* search service and the logs of the storage.                             *)
(*                                                                         *)
(* These parts share no state, only values that each module chooses freely *)
(* (which settings are saved, what a search finds), so a behaviour of this *)
(* module is a behaviour of one part, chosen at the start, while the       *)
(* others rest in their initial states.                                    *)
(***************************************************************************)
EXTENDS SettingsService, ScopeHistory, DesktopSession, SearchService, CatalogLog

VARIABLE part

Parts == {"settings", "scope", "session", "service", "log"}

desktopVars == <<part, settingsVars, scopeVars, sessionVars, serviceVars, logVars>>

DesktopInit ==
  /\ part \in Parts
  /\ SettingsInit /\ ScopeInit /\ SessionInit /\ ServiceInit /\ LogInit

(* A step of one part; the others and the choice stay as they are. *)
Only(name, others) == part = name /\ UNCHANGED <<part, others>>

DesktopNext ==
  \/ Only("settings", <<scopeVars, sessionVars, serviceVars, logVars>>) /\ SettingsNext
  \/ Only("scope", <<settingsVars, sessionVars, serviceVars, logVars>>) /\ ScopeNext
  \/ Only("session", <<settingsVars, scopeVars, serviceVars, logVars>>) /\ SessionNext
  \/ Only("service", <<settingsVars, scopeVars, sessionVars, logVars>>) /\ ServiceNext
  \/ Only("log", <<settingsVars, scopeVars, sessionVars, serviceVars>>) /\ LogNext

DesktopSpec == DesktopInit /\ [][DesktopNext]_desktopVars

(* The fairness of the session; the other parts promise no progress.       *)
DesktopFairSpec == DesktopSpec /\ SessionFairness
=============================================================================
