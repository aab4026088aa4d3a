---------------------------- MODULE InventoryPages ----------------------------
(***************************************************************************)
(* The pages that list what is managed: Servers.tsx, Resources.tsx and       *)
(* Kubernetes.tsx, with the folders of useFolders.ts and FolderBar.tsx, the  *)
(* dialogs of a cluster, and ResourceDetail.tsx with the panels of a         *)
(* database and of Kafka.  Editing a form, searching and choosing a folder   *)
(* change nothing that the server knows.                                     *)
(***************************************************************************)
EXTENDS PageParts

-----------------------------------------------------------------------------
(* useFolders: each page has a copy.  Deleting a folder also takes its     *)
(* items out of it, which only the folders are loaded anew for.              *)

load == Load([name |-> "load", sets |-> {"folders"}])
createFolder == Command([name |-> "createFolder", changes |-> {"folders"}, reloads |-> {"load"}])
deleteFolder(rows) ==
  Command([name |-> "deleteFolder", changes |-> {"folders", rows}, reloads |-> {"load"}])

\* The bar is there once the rows are loaded and not being loaded.
FolderBar(permission) == {RowButton("createFolder", permission, {"loading"}),
                          RowButton("deleteFolder", permission, {"loading"})}

-----------------------------------------------------------------------------
(* Servers.tsx *)

loadServers == Load([name |-> "loadServers", sets |-> {"servers"}, spinner |-> "loading"])

saveServer   == Command([name |-> "saveServer", changes |-> {"servers"}, reloads |-> {"loadServers"},
                         flag |-> "saving", once |-> TRUE])
moveServerFolder == Command([name |-> "moveServerFolder", changes |-> {"servers"}, patches |-> {"servers"}])
deleteServer == Command([name |-> "deleteServer", changes |-> {"servers"}, reloads |-> {"loadServers"},
                         route |-> Admins])
\* A test that fails changes nothing on the screen but the test's result.
\* The flags of these two hold one row's id: they do not keep another row's button from being used.
testConnection   == Command([name |-> "testConnection", changes |-> {"servers"}, patches |-> {"servers"},
                             flag |-> "testing"])
disconnectServer == Command([name |-> "disconnectServer", changes |-> {"servers"}, patches |-> {"servers"},
                             flag |-> "disconnecting"])

\* The form stays open while the list is loaded; the list is hidden.
ServersForm == {Button("saveServer", "manage-servers", {"saving"})}
ServersList == {RowButton("moveServerFolder", "manage-servers", {"loading"})}
ServerActions == {RowButton("testConnection", "manage-servers", {"loading"}),
                  RowButton("disconnectServer", "manage-servers", {"loading"}),
                  RowButton("deleteServer", "delete-server", {"loading"})}

Servers == Page([name |-> "Servers",
  loads    |-> {load, loadServers},
  commands |-> {createFolder, deleteFolder("servers"), saveServer, moveServerFolder, deleteServer,
                testConnection, disconnectServer},
  views    |-> FolderBar("manage-servers") \cup ServersForm \cup ServersList \cup ServerActions])

-----------------------------------------------------------------------------
(* Resources.tsx: who may not manage resources is shown none of it. *)

loadResources == Load([name |-> "loadResources", sets |-> {"resources"}, spinner |-> "loading", route |-> Viewers])

saveResource   == Command([name |-> "saveResource", changes |-> {"resources"}, reloads |-> {"loadResources"},
                           flag |-> "saving", once |-> TRUE])
moveResourceFolder == Command([name |-> "moveResourceFolder", changes |-> {"resources"}, patches |-> {"resources"}])
deleteResource == Command([name |-> "deleteResource", changes |-> {"resources"}, reloads |-> {"loadResources"},
                           route |-> Admins])
testResource   == Command([name |-> "testResource", changes |-> {"resources"}, reloads |-> {"loadResources"},
                           flag |-> "testingId"])

ResourcesList == {RowButton(h, "manage-resources", {"loading"}) :
                    h \in {"moveResourceFolder", "testResource", "deleteResource"}}
ResourceForm  == {Button("saveResource", "manage-resources", {"saving"})}

Resources == Page([name |-> "Resources", sees |-> "manage-resources",
  loads    |-> {load, loadResources},
  commands |-> {createFolder, deleteFolder("resources"), saveResource, moveResourceFolder, deleteResource,
                testResource},
  views    |-> FolderBar("manage-resources") \cup ResourcesList \cup ResourceForm])

-----------------------------------------------------------------------------
(* ResourceDetail.tsx.  The page is mounted anew for another resource:       *)
(* nothing on it leads to one.  loadPageData asks for everything at once and *)
(* hides the page until there is a resource, or all was answered.            *)

loadResource == Load([name |-> "loadResource", sets |-> {"resource"}, ways |-> {"mount"}, spinner |-> "loading",
                      route |-> Viewers])
loadAccess   == Load([name |-> "loadAccess", sets |-> {"accessRecords"}, route |-> Viewers])
\* Also when its tab is opened, and when one of its filters is changed.
loadAudit    == Load([name |-> "loadAudit", sets |-> {"audits"}, ways |-> {"mount", "reopen", "click", "call"},
                      spinner |-> "loadingAudit", route |-> Viewers])
loadUsers    == Load([name |-> "loadUsers", sets |-> {"users"}, ways |-> {"mount"}, to |-> "manage-resources",
                      route |-> Operators])
probe        == Load([name |-> "probe", sets |-> {"live", "history"}, ways |-> {"mount", "poll", "click"},
                      spinner |-> "probing", route |-> Viewers])

\* Both handlers await the lists they load anew before their flag is lowered.
assignAccess == Command([name |-> "assignAccess", changes |-> {"accessRecords", "audits"},
                         reloads |-> {"loadAccess", "loadAudit"}, flag |-> "savingAccess", awaits |-> TRUE,
                         once |-> TRUE])
revokeAccess == Command([name |-> "revokeAccess", changes |-> {"accessRecords", "audits"},
                         reloads |-> {"loadAccess", "loadAudit"}, flag |-> "revokingId", awaits |-> TRUE])

ObservabilityTab == {Button("probe", "anyone", {"probing"})}
AccessTab        == {Button("assignAccess", "manage-resources", {"savingAccess"}),
                     RowButton("revokeAccess", "manage-resources", {})}
AuditTab         == {Button("loadAudit", "anyone", {"loadingAudit"})}

ResourceDetail == Page([name |-> "ResourceDetail",
  loads    |-> {loadResource, loadAccess, loadAudit, loadUsers, probe},
  commands |-> {assignAccess, revokeAccess},
  views    |-> ObservabilityTab \cup AccessTab \cup AuditTab])

(* Its database tab: SchemaTree.tsx; DataGrid.tsx, whose selection is the    *)
(* table and the page of its rows; and SqlConsole.tsx.  After a failure the  *)
(* error is all that is there of the tree or the grid.  (The grid's error    *)
(* goes when a load starts; the model lets any later answer replace it.)     *)

loadSchema == Load([name |-> "loadSchema", sets |-> {"groups"}, ways |-> {"mount", "click"}, spinner |-> "loading",
                    forgets |-> {"groups"}, route |-> Operators])
SchemaTree == Page([name |-> "SchemaTree", loads |-> {loadSchema},
  views |-> {RowButton("loadSchema", "anyone", {"loading"})}])

loadRows  == Load([name |-> "loadRows", sets |-> {"rows"}, ways |-> {"mount", "select", "call"}, spinner |-> "loading",
                   forgets |-> {"rows"}, route |-> Operators])
changeRow(h) == Command([name |-> h, changes |-> {"rows"}, reloads |-> {"loadRows"}, flag |-> "saving", once |-> TRUE])
saveEdit  == changeRow("saveEdit")
saveNew   == changeRow("saveNew")
deleteRow == changeRow("deleteRow")
DataGrid  == Page([name |-> "DataGrid", keyed |-> {"rows"},
  loads    |-> {loadRows},
  commands |-> {saveEdit, saveNew, deleteRow},
  views    |-> {RowButton(h, "manage-resources", {"saving"}) : h \in {"saveEdit", "saveNew", "deleteRow"}}])

\* The button waits for the answer; Ctrl+Enter in the editor does not.
runQuery   == Command([name |-> "runQuery", changes |-> {"result"}, clears |-> {"result"}, replaces |-> {"result"},
                       flag |-> "running"])
SqlConsole == Page([name |-> "SqlConsole", commands |-> {runQuery},
  views |-> {Button("runQuery", "anyone", {"running"}), Button("runQuery", "anyone", {})}])

(* KafkaBrowser.tsx: the selection is the topic and one of its partitions. *)

loadLists    == Load([name |-> "loadLists", sets |-> {"topics", "groups"}, ways |-> {"mount", "click"},
                      spinner |-> "loadingList", route |-> Operators])
selectTopic  == Load([name |-> "selectTopic", sets |-> {"offsets"}, ways |-> {"select"}, spinner |-> "loadingOffsets",
                      forgets |-> {"offsets"}, route |-> Operators])
loadMessages == Load([name |-> "loadMessages", sets |-> {"messages"}, ways |-> {"select", "click"},
                      spinner |-> "loadingMessages", clears |-> {"messages"}, route |-> Operators])
KafkaBrowser == Page([name |-> "KafkaBrowser", keyed |-> {"offsets", "messages"}, starts |-> TRUE,
  loads |-> {loadLists, selectTopic, loadMessages},
  views |-> {Button("loadLists", "anyone", {}), Button("loadMessages", "anyone", {})}])

-----------------------------------------------------------------------------
(* Kubernetes.tsx with K8sClusterGrid.tsx *)

loadClusters == Load([name |-> "loadClusters", sets |-> {"clusters"}])

moveClusterFolder == Command([name |-> "moveClusterFolder", changes |-> {"clusters"}, patches |-> {"clusters"}])
onCluster(h, route) == Command([name |-> h, changes |-> {"clusters"}, reloads |-> {"loadClusters"}, route |-> route])
handleDisconnect == onCluster("handleDisconnect", Operators)
handleReconnect  == onCluster("handleReconnect", Operators)
handleDelete     == onCluster("handleDelete", Admins)
\* The dialog's own flag is gone with the dialog, which may be closed and opened again.
handleSubmit     == onCluster("handleSubmit", Operators)

ClusterGrid == {Button("handleSubmit", "anyone", {}), RowButton("handleReconnect", "anyone", {})}
               \cup {RowButton(h, "manage-servers", {}) : h \in {"moveClusterFolder", "handleDisconnect", "handleDelete"}}

Kubernetes == Page([name |-> "Kubernetes", sees |-> "use-kubectl",
  loads    |-> {load, loadClusters},
  commands |-> {createFolder, deleteFolder("clusters"), moveClusterFolder, handleDisconnect, handleReconnect,
                handleDelete, handleSubmit},
  views    |-> FolderBar("manage-servers") \cup ClusterGrid])

(* AddClusterModal.tsx, as long as it is open: a test, or the submission,    *)
(* which closes it.                                                          *)

testAPI == Command([name |-> "testAPI", changes |-> {"testResult"}, clears |-> {"testResult"},
                    replaces |-> {"testResult"}, flag |-> "loading", once |-> TRUE])
submit  == Command([name |-> "submit", changes |-> {"testResult"}, leaves |-> TRUE, flag |-> "loading", once |-> TRUE])
AddClusterModal == Page([name |-> "AddClusterModal", sees |-> "use-kubectl", commands |-> {testAPI, submit},
  views |-> {Button("testAPI", "anyone", {"loading"}), Button("submit", "anyone", {"loading"})}])

(* The port forwards of a cluster: the explorer keeps the list, the dialog   *)
(* (PortForwardModal.tsx) has it loaded every five seconds while it is open. *)

fetchPortForwards == Load([name |-> "fetchPortForwards", sets |-> {"portForwards"}, ways |-> {"reopen", "poll", "call"},
                           to |-> "use-kubectl", route |-> Operators])
\* The dialog's flag does not keep it from being started twice either.
createPortForward == Command([name |-> "createPortForward", changes |-> {"portForwards"},
                              reloads |-> {"fetchPortForwards"}])
stopPortForward   == Command([name |-> "stopPortForward", changes |-> {"portForwards"},
                              reloads |-> {"fetchPortForwards"}])
PortForwards == Page([name |-> "PortForwards", sees |-> "use-kubectl",
  loads    |-> {fetchPortForwards},
  commands |-> {createPortForward, stopPortForward},
  views    |-> {Button("createPortForward", "use-kubectl", {}), RowButton("stopPortForward", "use-kubectl", {})}])

(* ReadOnlyKubeconfigModal.tsx: the first load is dropped when the dialog is *)
(* closed; while the list cannot be loaded, nothing can be revoked.          *)

firstListing   == Load([name |-> "firstListing", sets |-> {"identities"}, ways |-> {"mount"}, guard |-> "alive",
                        forgets |-> {"identities"}, route |-> Operators])
loadIdentities == Load([name |-> "loadIdentities", sets |-> {"identities"}, ways |-> {"call"},
                        forgets |-> {"identities"}, route |-> Operators])
generate == Command([name |-> "generate", changes |-> {"identities"}, reloads |-> {"loadIdentities"},
                     flag |-> "generating", once |-> TRUE])
revoke   == Command([name |-> "revoke", changes |-> {"identities"}, reloads |-> {"loadIdentities"}])
ReadOnlyKubeconfigModal == Page([name |-> "ReadOnlyKubeconfigModal", sees |-> "use-kubectl",
  loads    |-> {firstListing, loadIdentities},
  commands |-> {generate, revoke},
  views    |-> {Button("generate", "use-kubectl", {"generating"}), RowButton("revoke", "use-kubectl", {})}])
=============================================================================
