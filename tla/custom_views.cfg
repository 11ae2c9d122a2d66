SPECIFICATION Spec
CONSTANTS
  Phases = {"missing", "awaiting-payment", "htlcs-ready", "unknown-state",
            "preimage-revealed", "delivering", "settled"}
  Requests = {r1}
  Viewers = {v}
  Poller = poller
  Names = {n}
  Owners = {alice}
  None = none
  Fee = 2
  Amounts = {1, 2}
  Reservation = 1
  Lifetimes = {1, 2}
  MaxTime = 2
INVARIANTS
  SettledWasPaid
CHECK_DEADLOCK FALSE
