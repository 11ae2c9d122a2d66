SPECIFICATION Spec
CONSTANTS
  Phases = {"missing", "awaiting-payment", "preimage-revealed"}
  Requests = {r1, r2}
  Viewers = {}
  Poller = poller
  Names = {n}
  Owners = {alice, bob}
  None = none
  Fee = 2
  Amounts = {2}
  Reservation = 1
  Lifetimes = {1}
  MaxTime = 0
PROPERTIES
  PaidInTimeNotCancelled
CHECK_DEADLOCK FALSE
