SPECIFICATION Spec
CONSTANTS
  Requests = {r1}
  Verifiers = {v}
  Poller = poller
  None = none
  Lifetimes = {1}
  MaxTime = 1
PROPERTIES
  ClaimedNotCancelled
CHECK_DEADLOCK FALSE
