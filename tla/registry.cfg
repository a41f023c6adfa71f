SPECIFICATION FairSpec
CONSTANTS
  Devices <- MCDevices
  HostOf <- MCHostOf
  Ids = {"i1", "i2"}
  MaxPrints <- MCMaxPrints
  MaxLost = 1
INVARIANTS TypeOK NoSharedId OneRowPerDevice
PROPERTY Settles
CHECK_DEADLOCK FALSE
