SPECIFICATION MCSpec
CONSTANTS
  read_file = read_file
  write_file = write_file
  bash = bash
  web_fetch = web_fetch
  rm = rm
  ToolNames <- MCToolNames
  Patterns = {rm}
  Requires <- MCRequires
  Fixed <- MCFixed
  Gated <- MCGated
  Delegations <- MCDelegations
  RootPolicies <- MCRootPolicies
  MaxLoops = 3
  Items = {1, 2}
  Stages = 2
  Tracked = {"read me.md"}
  Loose = {"src/new.py"}
  Inner = {"docs/new.md"}
  Ignored = {}
  Misprinted = {"read me.md"}
  MaxShown = 2
  MaxEdits = 3
INVARIANTS
  Typed
  DelegationLaw
  IsolationLaw
  FanOutLaw
PROPERTIES
  ScriptReturns
CHECK_DEADLOCK FALSE
