----------------------------- MODULE ServerPages -----------------------------
(***************************************************************************)
(* The pages of one server: ServerDetail.tsx with its tabs, the panels in    *)
(* its storage tab, and Networking.tsx.  The selection is the :id of the     *)
(* route: the sidebar's list of servers changes it and the page stays        *)
(* mounted.                                                                  *)
(***************************************************************************)
EXTENDS PageParts

-----------------------------------------------------------------------------
(* ServerDetail.tsx: the loads.  The effect on [id] runs the first three.    *)

loadServer  == Load([name |-> "loadServer", sets |-> {"server"}, ways |-> {"mount", "select"}, spinner |-> "loading"])
loadMetrics == Load([name |-> "loadMetrics", sets |-> {"metrics"}, ways |-> {"mount", "select", "click"}])
loadLogs    == Load([name |-> "loadLogs", sets |-> {"logs"}, ways |-> {"mount", "select", "click"}])
\* Until there are metrics, a timer asks for them.
pollMetrics == Load([name |-> "pollMetrics", sets |-> {"metrics"}, ways |-> {"poll"}])
loadLogSources  == Load([name |-> "loadLogSources", sets |-> {"logSources"}, ways |-> {"open"}])
\* What the tabs load once stays when another server is selected.
loadOsAccounts  == Load([name |-> "loadOsAccounts", sets |-> {"osAccounts"}, ways |-> {"open", "click", "call"},
                         spinner |-> "osAccountsLoading", forgets |-> {"osAccounts"}, to |-> "manage-servers",
                         route |-> Operators])
loadK8sAccounts == Load([name |-> "loadK8sAccounts", sets |-> {"k8sAccounts"}, ways |-> {"open", "click"},
                         spinner |-> "k8sAccountsLoading", forgets |-> {"k8sAccounts"}, to |-> "manage-servers",
                         route |-> Operators])
loadNetworking  == Load([name |-> "loadNetworking", sets |-> {"netInfo"}, ways |-> {"open", "click"},
                         spinner |-> "netLoading", forgets |-> {"netInfo"}])
loadAccess      == Load([name |-> "loadAccess", sets |-> {"accessList"}, ways |-> {"reopen", "call"},
                         to |-> "manage-users", route |-> Operators])

(* ServerDetail.tsx: the commands *)

createOsAccount == Command([name |-> "createOsAccount", changes |-> {"osAccounts"}, reloads |-> {"loadOsAccounts"},
                            flag |-> "accBusy", once |-> TRUE, route |-> Admins])
setOsPrivilege  == Command([name |-> "setOsPrivilege", changes |-> {"osAccounts"}, reloads |-> {"loadOsAccounts"},
                            route |-> Admins])
deleteOsAccount == Command([name |-> "deleteOsAccount", changes |-> {"osAccounts"}, reloads |-> {"loadOsAccounts"},
                            route |-> Admins])
grantAccess     == Command([name |-> "grantAccess", changes |-> {"accessList"}, reloads |-> {"loadAccess"},
                            flag |-> "grantSaving", once |-> TRUE, route |-> Admins])
changeAccessLevel == Command([name |-> "changeAccessLevel", changes |-> {"accessList"}, reloads |-> {"loadAccess"},
                              route |-> Admins])
revokeAccess    == Command([name |-> "revokeAccess", changes |-> {"accessList"}, reloads |-> {"loadAccess"},
                            route |-> Admins])
clearLogs       == Command([name |-> "clearLogs", changes |-> {"logs"}, patches |-> {"logs"}])
\* What these two bring about arrives over a websocket.
runDiagnostics  == Command([name |-> "runDiagnostics"])
initTerminal    == Command([name |-> "initTerminal"])
handleDeleteServer == Command([name |-> "handleDeleteServer", changes |-> {"server"}, leaves |-> TRUE,
                               route |-> Admins])
handleReboot    == Command([name |-> "handleReboot", changes |-> {"server"}, patches |-> {"server"}, leaves |-> TRUE,
                            flag |-> "rebooting", once |-> TRUE])
handleSavePreferences == Command([name |-> "handleSavePreferences", changes |-> {"server"}, replaces |-> {"server"},
                                  flag |-> "prefSaving", once |-> TRUE])
handlePurgeMetrics    == Command([name |-> "handlePurgeMetrics", changes |-> {"metrics"}, patches |-> {"metrics"},
                                  flag |-> "purgingMetrics", once |-> TRUE])

(* ServerDetail.tsx: the tabs.  None is there without the server. *)

DetailHeader   == {RowButton("handleReboot", "anyone", {"rebooting"})}
OverviewTab    == {Button("loadMetrics", "anyone", {})}
NetworkingTab  == {Retry("loadNetworking", "anyone", {"netLoading"})}
OsAccountsCard == {Button("loadOsAccounts", "manage-servers", {"osAccountsLoading"}),
                   Button("createOsAccount", "manage-users", {"accBusy"}),
                   RowButton("setOsPrivilege", "manage-users", {}),
                   RowButton("deleteOsAccount", "manage-users", {})}
K8sAccountsCard == {Button("loadK8sAccounts", "manage-servers", {"k8sAccountsLoading"})}
LogsTab        == {Button(h, "anyone", {}) : h \in {"runDiagnostics", "clearLogs", "loadLogs"}}
TerminalTab    == {Button("initTerminal", "anyone", {})}
AccessCard     == {Button("grantAccess", "manage-users", {"grantSaving"}),
                   RowButton("changeAccessLevel", "manage-users", {}),
                   RowButton("revokeAccess", "manage-users", {})}
SettingsTab    == {RowButton("handleSavePreferences", "anyone", {"prefSaving"}),
                   Button("handlePurgeMetrics", "anyone", {"purgingMetrics"}),
                   RowButton("handleDeleteServer", "anyone", {})}

ServerDetail == Page([name |-> "ServerDetail",
  keyed    |-> {"server", "metrics", "logs", "logSources", "osAccounts", "k8sAccounts", "netInfo", "accessList"},
  loads    |-> {loadServer, loadMetrics, loadLogs, pollMetrics, loadLogSources, loadOsAccounts, loadK8sAccounts,
                loadNetworking, loadAccess},
  commands |-> {createOsAccount, setOsPrivilege, deleteOsAccount, grantAccess, changeAccessLevel, revokeAccess,
                clearLogs, runDiagnostics, initTerminal, handleDeleteServer, handleReboot,
                handleSavePreferences, handlePurgeMetrics},
  views    |-> DetailHeader \cup OverviewTab \cup NetworkingTab \cup OsAccountsCard \cup K8sAccountsCard
               \cup LogsTab \cup TerminalTab \cup AccessCard \cup SettingsTab])

-----------------------------------------------------------------------------
(* StoragePanel.tsx: a first load that its effect's cleanup drops, a reload  *)
(* that nothing drops, and scans of which only the latest counts.            *)

firstLoad == Load([name |-> "firstLoad", sets |-> {"info"}, ways |-> {"mount", "select"}, spinner |-> "loading",
                   spins |-> {"mount"}, guard |-> "alive", forgets |-> {"info"}])
reloadInventory == Load([name |-> "reloadInventory", sets |-> {"info"}, ways |-> {"click"}, spinner |-> "loading",
                         forgets |-> {"info"}])
runScan   == Load([name |-> "runScan", sets |-> {"analysis"}, ways |-> {"click"}, spinner |-> "scanning",
                   guard |-> "latest"])

InventoryCard == {Retry("reloadInventory", "anyone", {"loading"}),
                  RowButton("reloadInventory", "anyone", {"loading"})}
AnalyzerCard  == {Button("runScan", "anyone", {"scanning"})}

StoragePanel == Page([name |-> "StoragePanel", keyed |-> {"info", "analysis"},
  loads |-> {firstLoad, reloadInventory, runScan}, views |-> InventoryCard \cup AnalyzerCard])

(* K8sStoragePanel.tsx: the same for a cluster. *)

loadAgain == Load([name |-> "loadAgain", sets |-> {"info"}, ways |-> {"click"}, spinner |-> "loading",
                   forgets |-> {"info"}])
ClusterStorageCard == {Retry("loadAgain", "anyone", {"loading"}), RowButton("loadAgain", "anyone", {"loading"})}

K8sStoragePanel == Page([name |-> "K8sStoragePanel", keyed |-> {"info"},
  loads |-> {firstLoad, loadAgain}, views |-> ClusterStorageCard])

-----------------------------------------------------------------------------
(* Networking.tsx *)

loadData == Load([name |-> "loadData", sets |-> {"server", "info"}, ways |-> {"mount", "select", "click"},
                  spinner |-> "loading"])
NetworkingHeader == {Button("loadData", "anyone", {"loading"})}

Networking == Page([name |-> "Networking", keyed |-> {"server", "info"},
  loads |-> {loadData}, views |-> NetworkingHeader])
=============================================================================
