\* Two runs, one operation: the attempts against each other.
SPECIFICATION Spec
CONSTANTS
  Runs = {r1, r2}
  Slots = {s1}
  Operations = {o1}
  Targets = {t1}
  Snapshots = {p1}
  MaxFaults = 3
SYMMETRY RunSymmetry
INVARIANTS SlotExclusive LaunchedOnce DrainedQuiet
PROPERTIES DrainedResolved
