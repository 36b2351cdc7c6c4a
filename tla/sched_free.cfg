SPECIFICATION Spec
CONSTANTS
  WordSize = 16
  MaxPid = 3
  F1 = F1
  Files = {F1}
  Missing = Missing
  Programs <- FileProgs
  CharHalf = 4
  MaxEst = 100
  Quantum = 2
  BootAlgs = {"FCFS", "RR", "PRIORITY"}
  Switches = {}
  Victims = {}
  BadImages = FALSE
  StaleCmd = FALSE
  MaxDevices = 3
  Unplug = FALSE
  MaxList = 10
INVARIANTS
  FreeIsUnused
