\* One run, two operations, two targets, two service snapshots: installations against attempts, and
\* what a drain waits for.
SPECIFICATION FairSpec
CONSTANTS
  Runs = {r1}
  Slots = {s1}
  Operations = {o1, o2}
  Targets = {t1, t2}
  Snapshots = {p1, p2}
  MaxFaults = 1
INVARIANTS OpenIsWhole UnfinishedIsRecorded
PROPERTIES QuietSpec DrainSettles IntentRetained 
