SPECIFICATION MCSpec
CONSTANTS
  read_file = read_file
  write_file = write_file
  bash = bash
  web_fetch = web_fetch
  rm = rm
  ToolNames <- MCToolNames
  Patterns = {rm}
  Requires <- MCRequires
  Fixed <- MCFixed
  Gated <- MCGated
  Delegations <- MCDelegations
  RootPolicies <- MCRootPolicies
  MaxLoops = 3
  Items = {1, 2}
  Stages = 2
  Tracked = {"main.py"}
  Loose = {}
  Inner = {"docs/new.md"}
  Ignored = {}
  Misprinted = {}
  MaxShown = 3
  MaxEdits = 3
INVARIANT EditsIntegrated
CHECK_DEADLOCK FALSE
