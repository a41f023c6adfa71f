SPECIFICATION Spec
CONSTANTS
  Devices <- MCDevices
  HostOf <- MCHostOf
  Ids = {"i1", "i2"}
  MaxPrints <- MCMaxPrints
  MaxLost = 0
PROPERTY NeverResurrects
CHECK_DEADLOCK FALSE
