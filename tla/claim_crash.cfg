SPECIFICATION Spec
CONSTANTS
  Switches = {"switch"}
  Refreshes = {}
  Updates = {}
  Probes = {}
  LogFetches = {}
  Terminations = {}
  Operators = {o1}
  Bystanders = {}
  MaxCmds = 1
  MaxFaults = 1
PROPERTY SkippedIsHandled
CHECK_DEADLOCK FALSE
