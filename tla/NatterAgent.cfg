SPECIFICATION FairSpec
CONSTANTS
  Domain = {"home", "lab"}
  Interface = {"wg0"}
  Config <- Configs
  Reload <- Reloads
  LocalNatter = {}
  MaxSaves = 2
  MaxRuns = 2
  MaxFaults = 1
INVARIANTS
  TypeOK
  RunIsCurrent
  ResultWhenUp
PROPERTIES
  SavedArrives
  StoppedIsStarted
