SPECIFICATION FairSpec
CONSTANTS
  Phases = {"missing", "awaiting-payment", "unknown-state", "settled"}
  Requests = {r1, r2}
  Viewers = {}
  Poller = poller
  Names = {n}
  Owners = {alice, bob}
  None = none
  Fee = 2
  Amounts = {2}
  Reservation = 1
  Lifetimes = {1}
  MaxTime = 1
INVARIANTS
  IInv
  ActiveIffSettled
PROPERTIES
  AcceptedPaymentSafe
  ImplementsNameRegistry
  PaidResolves
  ClaimableActivates
  LapsedReleased
CHECK_DEADLOCK FALSE
