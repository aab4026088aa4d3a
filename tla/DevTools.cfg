SPECIFICATION Spec
CONSTANTS
  empty = empty
  nothing = nothing
  Empty = empty
  Nothing = nothing
  Width = 4
  OctetBits = 1
  MaxListed = 4
  GroupCount = 5
  GroupBits = 2
  AddressTypes <- MCAddressTypes
  MaxCells = 6
  MaxMinute = 3
  MaxHour = 1
  DaysOfMonth <- MCDaysOfMonth
  DaysOfWeek = 3
  Horizon = 60
  SystemNamespaces = {"kube-system"}
  ClusterScoped = {"Namespace"}
  Generated = {"Event", "ReplicaSet"}
  Scalable = {"Deployment"}
  LengthBytes = 1
  WeakBits = 6
  AdvisedBits = 9
  Inputs <- MCInputs
  Default <- MCDefault
  Now = 5
  KeyNames <- MCKeyNames
  MaxTasks = 2
  Computes <- ToolOf
INVARIANTS
  ShownIsLatest
  AddressToolsAgree
  DiffRebuildsBoth
  CronNextRuns
  ManifestsAreConverted
  ChainIsDiagnosed
PROPERTY BusyEnds
