\* One run whose finish answer is lost.
SPECIFICATION Spec
CONSTANTS
  Runs = {r1}
  Slots = {s1}
  Operations = {o1}
  Targets = {t1}
  Snapshots = {p1}
  MaxFaults = 1
INVARIANTS RestoredExactly
