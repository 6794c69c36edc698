CONSTANTS
  MaxSteps = 4
  StepExtension = 2
  ProgressWindow = 1
  SelfCorrectionMax = 1
  VerifyRetryMax = 2
  LoopThreshold = 2
  MaxCompactions = 1
  MaxTokens = 6
  readA = readA
  writeB = writeB
  Usages <- MCUsages
  Signatures <- MCSignatures
  FailedCalls <- MCFailedCalls
SPECIFICATION FairSpec
INVARIANTS TypeOK Limits OutcomeMatchesRun
PROPERTIES ExtensionEarned Terminates KeepsContract
CHECK_DEADLOCK FALSE
