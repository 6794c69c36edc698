SPECIFICATION Spec
CONSTANTS
  a = a
  b = b
  Calls <- MCCalls
  ServerIds = {2}
  MaxSessions = 2
  MaxNotes = 1
  MaxProcs = 2
INVARIANTS
  TypeOK
  AnswerLaw
  ServerLaw
PROPERTY Returns
