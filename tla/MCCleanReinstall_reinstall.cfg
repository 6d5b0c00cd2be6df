\* Two ordinary commands, two faults, the pool's gate or none; no symmetry
\* under a temporal property.
SPECIFICATION FairSpec
CONSTANTS
  Releases = {a, b}
  First = a
  Runs = {r1, r2}
  MaxOps = 2
  MaxFaults = 2
INVARIANTS UnfinishedIsRecorded EvidenceArchived
PROPERTIES RetiredQuietly ContinuationEnds
CHECK_DEADLOCK FALSE
