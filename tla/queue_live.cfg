SPECIFICATION FairSpec
CONSTANTS
  Switches = {}
  Refreshes = {}
  Updates = {"ota"}
  Probes = {}
  LogFetches = {}
  Terminations = {}
  Operators = {o1}
  Bystanders = {}
  MaxCmds = 1
  MaxFaults = 2

PROPERTIES EveryCommandPolled ComesToRest
CHECK_DEADLOCK FALSE
