SPECIFICATION Spec
CONSTANTS
  x1 = x1
  s1 = s1
  XrayServers = {x1}
  SingboxServers = {s1}
  Lists <- MCLists
  Outsiders = {}
  RestartAsked = FALSE
  MaxOps = 1
  MaxIncidents = 0
INVARIANT StateNamesEngine
CHECK_DEADLOCK FALSE
