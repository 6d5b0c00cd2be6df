\* One installation, two members: a drain that a killed pass interrupts.
SPECIFICATION FairSpec
CONSTANTS
  Capacity = 2
  Consumers = {c1}
  MaxId = 2
  MaxFaults = 1
PROPERTIES BusyDrainsLater
CHECK_DEADLOCK FALSE
