SPECIFICATION Spec
CONSTANTS
  WordSize = 16
  MaxPid = 3
  F1 = F1
  Files = {F1}
  Missing = Missing
  Programs <- ReadProgs
  CharHalf = 4
  MaxEst = 100
  Quantum = 2
  BootAlgs = {"FCFS", "SJF", "RR", "PRIORITY"}
  Switches = {"MIXED_QUEUE"}
  Victims = {}
  BadImages = FALSE
  StaleCmd = FALSE
  MaxDevices = 3
  Unplug = FALSE
  MaxList = 4
INVARIANTS
  ReadersAreReading EstimateCoversWork
PROPERTIES
  ProgramsEnd WaitersWake
