SPECIFICATION Spec
CONSTANTS
  Phases = {"missing", "awaiting-payment", "htlcs-ready", "preimage-revealed"}
  Requests = {r1}
  Viewers = {}
  Poller = poller
  Names = {n}
  Owners = {alice}
  None = none
  Fee = 2
  Amounts = {2}
  Reservation = 1
  Lifetimes = {1, 2}
  MaxTime = 1
PROPERTIES
  AcceptedStaysReserved
CHECK_DEADLOCK FALSE
