\* As UserOrders.cfg: an order that is out of date when it is taken.
CONSTANTS
  m1 = m1
  m2 = m2
  Markets = {m1, m2}
  MaxOrders = 2
  OrderRequests <- MCRequests
  OrderChanges <- MCChanges
  ExpiryBuffer = 1
  MaxOrderId = 4
  MaxBase = 1
  MaxTime = 3
SPECIFICATION Spec
CHECK_DEADLOCK FALSE
PROPERTY SkippedOrderIsSkipped
