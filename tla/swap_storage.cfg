SPECIFICATION Spec
CONSTANTS
  Callers = {c1, c2}
  Types = {"submarine", "reverse", "chain"}
  Ids = {i}
  Statuses = {"created", "claimed"}
  Terms = {t1, t2}
  None = none
INVARIANTS
  IInv
PROPERTIES
  OnlyInsertCreates
  AloneIsAtomic
CHECK_DEADLOCK FALSE
