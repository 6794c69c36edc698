CONSTANTS
  s1 = s1
  Sessions <- MCSessions
  MaxOpen = 2
  MaxRequests = 2
  MaxLines = 5
SPECIFICATION FairSpec
INVARIANTS TypeOK GrantLaw MessageLaw
PROPERTY Ends
CHECK_DEADLOCK FALSE
