\* One operation over three products (two with one executable) and two configurations, with two faults.
SPECIFICATION FairSpec
CONSTANTS
  Products = {x, d, e}
  Configs = {"a","b"}
  Digest <- MCDigest
  Equal = {x, d}
  FirstProduct = x
  FirstConfig = "a"
  MaxOps = 1
  MaxFaults = 2
INVARIANTS LiveAreBound PendingIsProven OpenIsComplete OriginalSurvives
PROPERTY RecoveryEnds
CHECK_DEADLOCK FALSE
