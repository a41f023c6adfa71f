SPECIFICATION Spec
CONSTANTS
  NodeIds = {2}
  Domains = {}
  MaxUsers = 1
  MaxRoles = 2
  Ranks = {50, 90}
  Names = {"owner", "admin", "lead", "chief"}
  FirstNodes <- MCNodes
  FirstUsers <- MCOwner
  FirstRoles <- MCRoles
  Pressable <- MCFleet
  MaxMessages = 2
  MaxIncidents = 1
INVARIANTS AnsweredAsAsked
CHECK_DEADLOCK FALSE
