------------------------------ MODULE MCParts ------------------------------
(***************************************************************************)
(* The small parts of the repository in one instance: each has a few       *)
(* variables of its own and none of another's.  A behaviour is one of the  *)
(* part that is chosen at its start; the others stay as they begin.        *)
(***************************************************************************)
EXTENDS HttpHead, PortRange, CpuSampler, BrowserTabs,
        SearchHistory, MenuSearch, SiteSettings, TLC

VARIABLE part

partsVars == <<part, headVars, portVars, cpuVars, browserVars,
               historyVars, menuVars, settingsVars>>

(* The files of docs-r: p.html is part of the url reference/tablerApp.html. *)
CONSTANTS pPage, tablerPage, indexPage, homeMenu, refMenu

MCPages  == {pPage, tablerPage, indexPage}
MCMenuOf == [x \in MCPages |-> IF x = indexPage THEN homeMenu ELSE refMenu]
MCInside == {<<x, x>> : x \in MCPages} \cup {<<pPage, tablerPage>>}

(* What is chosen at the start of a part matters to that part only.        *)
PartsInit ==
  /\ part \in {"head", "port", "cpu", "browser", "history", "menu", "settings"}
  /\ part = "head" \/ (headEnd = BlankLine /\ streamEnd = 0)
  /\ part = "history" \/ works = TRUE
  /\ part = "menu" \/ (/\ named = [t \in Terms |-> {}]
                       /\ content = [t \in Terms |-> {}])
  /\ HeadInit /\ PortInit /\ CpuInit /\ BrowserInit
  /\ HistoryInit /\ MenuInit /\ SettingsInit

(* Every part but x stays as it is.                                        *)
Alone(x) ==
  /\ part = x /\ UNCHANGED part
  /\ IF x = "head" THEN TRUE ELSE UNCHANGED headVars
  /\ IF x = "port" THEN TRUE ELSE UNCHANGED portVars
  /\ IF x = "cpu" THEN TRUE ELSE UNCHANGED cpuVars
  /\ IF x = "browser" THEN TRUE ELSE UNCHANGED browserVars
  /\ IF x = "history" THEN TRUE ELSE UNCHANGED historyVars
  /\ IF x = "menu" THEN TRUE ELSE UNCHANGED menuVars
  /\ IF x = "settings" THEN TRUE ELSE UNCHANGED settingsVars

PartsNext ==
  \/ Alone("head") /\ HeadNext
  \/ Alone("port") /\ PortNext
  \/ Alone("cpu") /\ CpuNext
  \/ Alone("browser") /\ BrowserNext
  \/ Alone("history") /\ HistoryNext
  \/ Alone("menu") /\ MenuNext
  \/ Alone("settings") /\ SettingsNext

PartsSpec == PartsInit /\ [][PartsNext]_partsVars

(* The types of every part, with what they say beyond the shape: a size of *)
(* the font stays in its range in all tabs, the stored lists keep their    *)
(* limits, every port that a session has is marked.                        *)
PartsTypeOK ==
  /\ HeadTypeOK /\ PortTypeOK /\ CpuTypeOK /\ BrowserTypeOK
  /\ HistoryTypeOK /\ ListsOK /\ SettingsTypeOK
=============================================================================
