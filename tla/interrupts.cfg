SPECIFICATION Spec
CONSTANTS
  UINT32 = 4
  Devices <- MCDevices
  Traps <- MCTraps
  SetTicks <- MCSetTicks
INVARIANTS
  EndedBeforeReturn
  NoTickLost
PROPERTIES
  RequestsFindTheirHandlers
  FaultsReachTheirHandlers
  MainFinishes
