SPECIFICATION Spec
CONSTANTS
  Clients = {c1, c2}
  Handlers = {h1, h2}
  Limit = 2
  Window = 2
  Stall = 1
  MaxTime = 9
INVARIANTS
  IInv
PROPERTIES
  ImplementsFixedWindow
  JudgedByOpenWindow
  AbsentForgotten
CHECK_DEADLOCK FALSE
