SPECIFICATION FairSpec
CONSTANTS
  Phases = {"missing", "awaiting-payment", "preimage-revealed"}
  Requests = {r1, r2}
  Verifiers = {v}
  Poller = poller
  None = none
  Lifetimes = {1}
  MaxTime = 1
INVARIANTS
  IInv
  SettledWasPaid
PROPERTIES
  AcceptedPaymentSafe
  ImplementsInvoiceLedger
  PaidSettles
  LapsedCancelled
CHECK_DEADLOCK FALSE
