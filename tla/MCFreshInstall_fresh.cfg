\* A publishing pair that orders its certificate and one without automatic work, one runner of each kind, two faults.
SPECIFICATION FairSpec
CONSTANTS
  Envs = {"e1", "e2"}
  FirstEnv = "e1"
  None = None
  Nobody = Nobody
  MaxGeneration = 2
  Runners = {"production", "general"}
  RunnerOrder <- MCRunnerOrder
  Pairs = {"auto", "plain"}
  Publishing = {"auto"}
  Automatic = {"auto"}
  Ordered = {"auto"}
  Gateway = {"auto"}
  MaxFaults = 2
INVARIANTS ReadyIsWhole KeyMatches RegisteredOnce
PROPERTIES FreshEnds OrderIsRehearsed
CHECK_DEADLOCK FALSE
