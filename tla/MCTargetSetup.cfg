SPECIFICATION Spec
CONSTANTS
  Machines <- MCMachines
  Tables <- MCTables
  Retained <- MCRetained
  NoSettings = NoSettings
  MaxFaults = 1
  MaxBridges = 3
  MaxDisplays = 3
  MaxDisks = 3
INVARIANTS
  OperatingPathExact
  SavedTargetResolves
  ConflictAcknowledged
