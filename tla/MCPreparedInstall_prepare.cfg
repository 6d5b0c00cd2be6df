\* Two operations over two revisions and three configurations (two of one digest), the toolchain
\* missing at first, with two faults.
SPECIFICATION FairSpec
CONSTANTS
  Targets = {x, y}
  FirstTarget = x
  Configs = {"a","b","c"}
  FirstConfig = "a"
  Wanted = {"a","b"}
  Projected = {}
  Digest <- MCDigest
  Contract <- MCContract
  Builds = {1, 2, 3, 4, 5}
  FirstBuild = 1
  FirstRust = {}
  MaxOps = 2
  MaxFaults = 2
INVARIANTS OpenIsInstalled HolderIsNamed
PROPERTIES EditsAreKept PreparationEnds
CHECK_DEADLOCK FALSE
