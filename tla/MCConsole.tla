------------------------------ MODULE MCConsole ------------------------------
(* The pages of the web console, for TLC. *)
EXTENDS Console

Inventory == INSTANCE InventoryPages
Server    == INSTANCE ServerPages
Admin     == INSTANCE AdminPages
Overview  == INSTANCE OverviewPages

CONSTANTS one, two   \* two servers, ranges or modes

ConsolePages ==
  {Inventory!Servers, Inventory!Resources, Inventory!ResourceDetail, Inventory!SchemaTree, Inventory!DataGrid,
   Inventory!SqlConsole, Inventory!KafkaBrowser, Inventory!Kubernetes, Inventory!AddClusterModal,
   Inventory!PortForwards, Inventory!ReadOnlyKubeconfigModal,
   Server!ServerDetail, Server!StoragePanel, Server!K8sStoragePanel, Server!Networking,
   Admin!AlertRules, Admin!IacSync, Admin!Settings,
   Overview!Dashboard, Overview!InfraMap, Overview!Audit, Overview!AuditHardening, Overview!AuditCluster,
   Overview!AuditResources, Overview!AuditCode, Overview!AuditDast}

\* The pages are as the theorems of ConsoleProofs want them.
ASSUME PagesKeepTheRules == GuardedPages /\ ReportingPages /\ FollowingPages
=============================================================================
