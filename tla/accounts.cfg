SPECIFICATION Spec
CONSTANTS
  Names = {"owner", "admin", "client", "lead"}
  MaxUsers = 5
  MaxRoles = 4
  Ranks = {0, 80, 100}
  Grants <- MCGrants
  Handlers = {h1, h2}
  MaxRequests = 3
  FirstUsers <- MCUsers
  FirstRoles <- MCRoles
INVARIANTS TypeOK SoleOwner OwnerOutranksAll OwnerKeepsPassword PeersUntouched
CHECK_DEADLOCK FALSE
SYMMETRY MCSymmetry
