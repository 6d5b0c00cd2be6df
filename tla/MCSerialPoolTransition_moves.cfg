\* Three faults: deaths, lost answers, reboots, expiry, crashes, peers; the
\* owner applies again, one of two targets.
SPECIFICATION FairSpec
CONSTANTS
  Targets = {t1, t2}
  MaxFaults = 3
INVARIANTS OneCapacity OriginalReadable DeletedOnce
PROPERTY TransitionEnds
CHECK_DEADLOCK FALSE
