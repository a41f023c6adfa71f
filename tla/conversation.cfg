SPECIFICATION Spec
CONSTANTS
  NodeIds = {}
  Domains = {1}
  MaxUsers = 2
  MaxRoles = 3
  Ranks = {50}
  Names = {"owner", "admin", "lead", "chief"}
  FirstNodes <- MCNodes
  FirstUsers <- MCOwner
  FirstRoles <- MCRoles
  Pressable <- MCTables
  MaxMessages = 2
  MaxIncidents = 1
INVARIANTS TypeOK AnsweredAsAsked OwnerUntouched
PROPERTIES BuiltInRolesKept
CHECK_DEADLOCK FALSE
