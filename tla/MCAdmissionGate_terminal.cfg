\* One run re-run after its controller died behind a published Outcome.
SPECIFICATION Spec
CONSTANTS
  Runs = {r1}
  Slots = {s1}
  Operations = {o1}
  Targets = {t1}
  Snapshots = {p1}
  MaxFaults = 2
PROPERTIES TerminalEndsAttempt
