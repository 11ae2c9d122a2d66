SPECIFICATION Spec
CONSTANTS
  Phases = {"missing", "awaiting-payment", "htlcs-ready", "preimage-revealed"}
  Requests = {r1}
  Verifiers = {}
  Poller = poller
  None = none
  Lifetimes = {1}
  MaxTime = 1
PROPERTIES
  AcceptedStaysPending
CHECK_DEADLOCK FALSE
