SPECIFICATION FairSpec
CONSTANTS
  Requests = {r1, r2}
  Verifiers = {v}
  Poller = poller
  None = none
  Lifetimes = {1}
  MaxTime = 2
INVARIANTS
  IInv
PROPERTIES
  ImplementsArkadeInvoices
  ImplementsInvoiceLedger
  EveryPassRecurs
  LapsedCancelled
  FundedClaimed
CHECK_DEADLOCK FALSE
