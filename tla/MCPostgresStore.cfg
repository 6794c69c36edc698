CONSTANTS
  alice = alice
  bob = bob
  Clients <- MCTwo
  QueueMax = 2
  BatchMax = 2
  Settings <- MCSettings
SPECIFICATION FairSpec
INVARIANTS TypeOK TableLaw
PROPERTIES KeepsPort Returns
CHECK_DEADLOCK FALSE
