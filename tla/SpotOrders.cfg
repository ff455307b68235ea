CONSTANTS
  alice = alice
  bob = bob
  keeper = keeper
  Users <- MCUsers
  Keepers <- MCKeepers
  NoFiller = NoFiller
  MaxOrders = 2
  OrderRequests <- MCRequests
  Oracles = {50, 58}
  Twap = 50
  Band = 10
  Divergence = 9
  Life = 1
  Exchanges <- MCExchanges
  ExchangePrices = {50}
  FeeNum = 5
  RebateNum = 2
  FeeDen = 100
  RewardNum = 1
  RewardDen = 3
  TimeReward = 2
  Flat = 1
  ExpiryBuffer = 1
  DepositFloor <- MCFloor
  BorrowCap <- MCCap
  Seed <- MCSeed
  MaxId <- MCMaxId
  MaxTime = 2
SPECIFICATION Spec
CHECK_DEADLOCK FALSE
INVARIANTS CountersMatchOrders BooksBalance
PROPERTIES BorrowsCapped
