SPECIFICATION Spec
CONSTANTS
  Tokens = {"t1", "t2"}
  First <- MCFirst
  MaxRequests = 2
  MaxUpdates = 2
  Buffer = 1
INVARIANTS TypeOK NeverDeaf RunsAsSaved
PROPERTIES RebootEnds FallsSilent
CHECK_DEADLOCK FALSE
