SPECIFICATION Spec
CONSTANTS
  WordSize = 16
  MaxPid = 4
  F1 = F1
  Files = {}
  Missing = Missing
  Programs <- DeviceProgs
  CharHalf = 4
  MaxEst = 100
  Quantum = 2
  BootAlgs = {"FCFS", "RR", "PRIORITY"}
  Switches = {"FCFS", "RR", "PRIORITY"}
  Victims = {}
  BadImages = FALSE
  StaleCmd = FALSE
  MaxDevices = 3
  Unplug = FALSE
  MaxList = 10
INVARIANTS
  Placement IdleOnce FcfsNeverStalls NeverUndefined
  RequestsAreWaiting WaitersAreServed
PROPERTIES
  NonPreemptive NoOvertaking ImplementsLifecycle
