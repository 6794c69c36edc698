CONSTANTS
  a = a
  b = b
  idA = idA
  idB = idB
  idC = idC
  Ids <- MCIds
  Keys <- MCKeys
  FileOf <- MCOneSpelling
  Requests <- MCRequests
SPECIFICATION FairSpec
INVARIANTS TypeOK ConflictLaw AnsweredTruthfully
PROPERTY Terminates
CHECK_DEADLOCK FALSE
