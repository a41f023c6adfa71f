SPECIFICATION Spec
CONSTANTS
  Switches = {"switch"}
  Refreshes = {}
  Updates = {}
  Probes = {}
  LogFetches = {"get_logs"}
  Terminations = {"terminate"}
  Operators = {o1}
  Bystanders = {"cli"}
  MaxCmds = 2
  MaxFaults = 1
INVARIANTS TypeOK AtMostOnce RedeliveryRecognised Delivery InOrder
PROPERTY KeepsPromises
CHECK_DEADLOCK FALSE
