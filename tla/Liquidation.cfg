CONSTANTS
  victim = victim
  keeper = keeper
  usdc = usdc
  sol = sol
  perp = perp
  Users <- MCUsers
  SpotMarkets <- MCSpot
  Quote = usdc
  PerpMarkets <- MCPerps
  Scale = 100
  AssetWeight <- MCAssetWeight
  LiabilityWeight <- MCLiabilityWeight
  MarginRatio <- MCMarginRatio
  PnlWeight <- MCPnlWeight
  Buffer = 4
  LiquidatorFee <- MCFee
  InsuranceFee <- MCInsuranceFee
  Grace = 1
  FeePerSlot = 2
  PctScale = 100
  InitialPct = 20
  Duration = 1
  SmallShortage = 30
  SmallPosition = 150
  SmallBorrow = 20
  Dust = 5
  Scenarios <- MCScenarios
  Prices <- MCPrices
  MaxTransfers = {40, 1000}
  Deposits = {60}
  Orders <- MCOrders
  Swaps <- MCSwaps
  TakerFee = 1
  Reward = 1
  ContractTier <- MCContractTier
  AssetTier <- MCAssetTier
  MaxSlot = 1
  MaxMoves = 1
  MaxActs = 1
SPECIFICATION Spec
CHECK_DEADLOCK FALSE
INVARIANTS TypeOK BankruptcyIsReal
PROPERTIES MoneyConserved CostsBounded ExitsHealthy KeepsPace FollowsLifecycle
