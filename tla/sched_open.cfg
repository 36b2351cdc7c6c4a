SPECIFICATION Spec
CONSTANTS
  WordSize = 8
  MaxPid = 3
  F1 = F1
  Files = {F1}
  Missing = Missing
  Programs <- OpenProgs
  CharHalf = 4
  MaxEst = 100
  Quantum = 2
  BootAlgs = {"FCFS"}
  Switches = {"FCFS", "SJF"}
  Victims = {2, 3}
  BadImages = TRUE
  StaleCmd = TRUE
  MaxDevices = 2
  Unplug = TRUE
  MaxList = 2
INVARIANTS
  IInv ShortestRuns CounterIsOpens LockHasOwner
CHECK_DEADLOCK FALSE
