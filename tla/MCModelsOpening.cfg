CONSTANTS
  Parts = {"streams"}
  one = one
  two = two
  three = three
  old = old
  new = new
  ka = ka
  kb = kb
  kc = kc
  kd = kd
  plain = plain
  hard = hard
  Files <- MCFiles
  Existing <- MCExisting
  Size <- MCSize
  MaxCheckpoints = 3
  MaxBytes = 3
  MaxWrites = 4
  Agents = {"parent", "child"}
  Paths = {"f"}
  Lines = {"x", "y"}
  MaxLines = 2
  Drafts <- MCDrafts
  Requests <- MCRequests
  EditLists <- MCEditLists
  Worlds = {"calm", "programs", "coarse"}
  Limits = {1, 2}
  MaxChanges = 2
  Names = {"fs", "git"}
  Launches = {"npx"}
  NoLaunch = ""
  Options = {"-y"}
  NoOptions = ""
  Tomls <- MCTomls
  Processes <- MCPair
  Slugs <- MCThree
  Lengths = {1, 3}
  Cap = 2
  MaxOverlaps = 1
  MaxCrashes = 1
  Keys <- MCKeys
  Capacity = 3
  BucketSize = 1
  MaxKicks = 2
  Fingerprint <- MCFingerprint
  Hash <- MCHash
  HashOf <- MCHashOf
  MaxCopies = 2
  MaxMisuses = 2
  Nodes <- MCKeys
  Tenants = {"s", "t"}
  Score <- MCScore
  Widths = {1, 4}
  MaxAdds = 4
  Runs <- MCPair
  Models = {"small", "large"}
  Tiers <- MCTiers
  Chain <- MCChain
  Prompts = {plain, hard}
  Confident <- MCConfident
  Threshold = 2
  Recovery = 1
  MaxRetries = 2
  CacheSize = 1
  MaxNow = 2
  MaxFailures = 3
  Calls <- MCPair
  Pieces = 3
  Styles = {"opening"}
  Tasks <- MCPair
  Kinds = {"run", "stream"}
  MaxEvents = 2
  MaxCloses = 1
  Made <- MCPair
  Drawers = {"read", "edit"}
  Writers = {"edit"}
  NoDrawer = "none"
  MaxTurns = 2
  Entries <- MCEntries
  PluginTools = {"look", "edit"}
  Powers = {"read", "write"}
  Manifests <- MCManifests
  Grants <- MCGrants
  Platforms = {"linux", "other"}
  MaxHooks = 2
SYMMETRY Symmetry
SPECIFICATION MCSpec
INVARIANT WholeCalls
CHECK_DEADLOCK FALSE
