\* Two members shared by two installations, one fault: jobs keep their runner,
\* registrations their owner, and a drain comes to its end.
SPECIFICATION FairSpec
CONSTANTS
  Capacity = 2
  Consumers = {c1, c2}
  MaxId = 2
  MaxFaults = 1
INVARIANTS JobsKeepTheirRunner RegistrationsAreOwned ReadyIsUp
PROPERTY DrainEnds
CHECK_DEADLOCK FALSE
