\* Two markets, two slots, order ids 1 to 3, times 0 to 3, a buffer of 1;
\* positions are moved from outside to -1, 0 or 1 step.
CONSTANTS
  m1 = m1
  m2 = m2
  Markets = {m1, m2}
  MaxOrders = 2
  OrderRequests <- MCRequests
  OrderChanges <- MCChanges
  ExpiryBuffer = 1
  MaxOrderId = 4
  MaxBase = 1
  MaxTime = 3
SPECIFICATION Spec
CHECK_DEADLOCK FALSE
INVARIANTS TypeOK CountersMatchOrders IdsResolve
PROPERTIES FillsAreDue
