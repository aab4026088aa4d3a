---------------------------- MODULE OverviewPages ----------------------------
(***************************************************************************)
(* The pages that show everything at once: Dashboard.tsx, InfraMap.tsx, and  *)
(* the audit pages.                                                          *)
(***************************************************************************)
EXTENDS PageParts

-----------------------------------------------------------------------------
(* Dashboard.tsx: the selection is the time range.  loadData is run by the   *)
(* refresh button, and by Ctrl+R through a listener of the first render,     *)
(* whose range is the one of that render.  It lists the servers and the      *)
(* resources behind the spinner, which also hides the range, and when it was *)
(* told of both it runs the other two: the history of the range it was       *)
(* started with, and the panels, which are hidden when they fail.  Another   *)
(* range loads the history of the servers listed.                            *)

loadData    == Load([name |-> "loadData", sets |-> {"servers", "resources"}, ways |-> {"mount", "click", "key"},
                     reloads |-> {"loadPanels", "loadHistory"}, spinner |-> "loading", route |-> Viewers])
loadPanels  == Load([name |-> "loadPanels", sets |-> {"metrics", "healingActions", "securityScans"},
                     ways |-> {"call"}, forgets |-> {"healingActions", "securityScans"},
                     to |-> "view-audit", route |-> Viewers])
loadHistory == Load([name |-> "loadHistory", sets |-> {"history"}, ways |-> {"select", "call"}])
loadLogStats == Load([name |-> "loadLogStats", sets |-> {"logStats"}, ways |-> {"mount", "select"},
                      forgets |-> {"logStats"}])

DashboardHeader == {Button("loadData", "anyone", {"loading"})}

Dashboard == Page([name |-> "Dashboard", keyed |-> {"history", "logStats"}, starts |-> TRUE, holds |-> {"loading"},
  loads |-> {loadData, loadPanels, loadHistory, loadLogStats}, views |-> DashboardHeader])

-----------------------------------------------------------------------------
(* InfraMap.tsx: the selection is what is asked for: what is managed, or a   *)
(* live scan.  One flag stands for loading (nothing else on the page) and    *)
(* scanning (its buttons disabled): each answer lowers both.                 *)

fetchTopology == Load([name |-> "fetchTopology", sets |-> {"topo"}, ways |-> {"mount", "select", "click"},
                       spinner |-> "scanning"])
MapHeader == {Button("fetchTopology", "anyone", {"scanning"})}

InfraMap == Page([name |-> "InfraMap", keyed |-> {"topo"}, starts |-> TRUE, holds |-> {"scanning"},
  loads |-> {fetchTopology}, views |-> MapHeader])

-----------------------------------------------------------------------------
(* useSecurityScan and the pages that use it: a target's summary is what was *)
(* persisted, until it is scanned in this session.                           *)

loadTargets == Load([name |-> "loadTargets", sets |-> {"targets", "results"}, ways |-> {"mount"}, spinner |-> "loading",
                     forgets |-> {"targets"}, to |-> "view-audit", route |-> Viewers])
scanTarget(route) == Command([name |-> "scanTarget", changes |-> {"results"}, replaces |-> {"results"},
                              flag |-> "scanning", once |-> TRUE, route |-> route])
ScanRow == {Button("scanTarget", "view-audit", {"loading", "scanning"})}

ScanPage(name, route) == Page([name |-> name, sees |-> "view-audit",
  loads |-> {loadTargets}, commands |-> {scanTarget(route)}, views |-> ScanRow])

Audit          == ScanPage("Audit", Roles)
AuditHardening == ScanPage("AuditHardening", Roles)
AuditCluster   == ScanPage("AuditCluster", Roles)
AuditResources == ScanPage("AuditResources", Viewers)

-----------------------------------------------------------------------------
(* AuditCode.tsx and AuditDast.tsx: while one of these loads there is nothing *)
(* else on the page, not even its dialogs.                                   *)

loadRepos    == Load([name |-> "loadRepos", sets |-> {"repos", "tools", "results"}, spinner |-> "loading",
                      forgets |-> {"repos"}, to |-> "view-audit", route |-> Viewers])
saveRepo     == Command([name |-> "saveRepo", changes |-> {"repos"}, reloads |-> {"loadRepos"}, route |-> Admins])
deleteRepo   == Command([name |-> "deleteRepo", changes |-> {"repos"}, reloads |-> {"loadRepos"}, route |-> Admins])
scan         == Command([name |-> "scan", changes |-> {"results"}, replaces |-> {"results"},
                         flag |-> "scanning", once |-> TRUE])
saveToolPath == Command([name |-> "saveToolPath", changes |-> {"tools"}, patches |-> {"tools"},
                         flag |-> "saving", once |-> TRUE, route |-> Admins])

ToolRow    == {RowButton("saveToolPath", "manage-code-audit", {"loading", "saving"})}
RepoRow    == {RowButton("deleteRepo", "manage-code-audit", {"loading"}),
               RowButton("scan", "view-audit", {"loading", "scanning"})}
RepoForm   == {Button("saveRepo", "manage-code-audit", {"loading"})}

AuditCode == Page([name |-> "AuditCode", sees |-> "view-audit",
  loads    |-> {loadRepos},
  commands |-> {saveRepo, deleteRepo, scan, saveToolPath},
  views    |-> ToolRow \cup RepoRow \cup RepoForm])

loadDast     == Load([name |-> "loadDast", sets |-> {"dastTargets", "env", "results"}, spinner |-> "loading",
                      forgets |-> {"dastTargets"}, to |-> "view-audit", route |-> Viewers])
saveTarget   == Command([name |-> "saveTarget", changes |-> {"dastTargets"}, reloads |-> {"loadDast"}])
deleteTarget == Command([name |-> "deleteTarget", changes |-> {"dastTargets"}, reloads |-> {"loadDast"}])
runDastScan  == Command([name |-> "runDastScan", changes |-> {"results"}, replaces |-> {"results"},
                         flag |-> "scanning", once |-> TRUE])
saveDockerPath == Command([name |-> "saveDockerPath", changes |-> {"env"}, patches |-> {"env"},
                           flag |-> "saving", once |-> TRUE, route |-> Admins])

\* A full scan is asked for in a dialog, which is opened while none is under way.
DockerRow  == {RowButton("saveDockerPath", "manage-code-audit", {"loading", "saving"})}
TargetRow  == {RowButton("deleteTarget", "manage-code-audit", {"loading"}),
               RowButton("runDastScan", "view-audit", {"loading", "scanning"})}
TargetForm == {Button("saveTarget", "manage-code-audit", {"loading"})}

AuditDast == Page([name |-> "AuditDast", sees |-> "view-audit",
  loads    |-> {loadDast},
  commands |-> {saveTarget, deleteTarget, runDastScan, saveDockerPath},
  views    |-> DockerRow \cup TargetRow \cup TargetForm])
=============================================================================
