CONSTANTS
  c1 = c1
  c2 = c2
  CallIds <- MCCalls
  RecentKeep = 2
  Settings <- MCSettings
  Threshold = 2
  MaxCalls = 2
SPECIFICATION Spec
INVARIANTS TypeOK FoldAgrees Paired CompactionLaw
SYMMETRY MCSymmetry
CHECK_DEADLOCK FALSE
