SPECIFICATION Spec
CONSTANTS
  x1 = x1
  s1 = s1
  XrayServers = {x1}
  SingboxServers = {s1}
  Lists <- MCLists
  Outsiders = {}
  RestartAsked = TRUE
  MaxOps = 1
  MaxIncidents = 1
INVARIANTS TypeOK 
PROPERTIES VerifiedOnly OperationsEnd
CHECK_DEADLOCK FALSE
