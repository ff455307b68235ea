CONSTANTS
  alice = alice
  bob = bob
  carol = carol
  usdc = usdc
  sol = sol
  usdc1 = usdc1
  sol1 = sol1
  Users <- MCUsers
  SpotMarkets <- MCSpot
  Quote = usdc
  PerpMarkets = {}
  Scale = 100
  AssetWeight <- MCAsset
  LiabilityWeight <- MCLiability
  MarginRatio <- MCNone
  PnlWeight <- MCNone
  Buffer = 4
  LiquidatorFee <- MCFee
  InsuranceFee <- MCFee
  Grace = 1
  FeePerSlot = 2
  PctScale = 100
  InitialPct = 20
  Duration = 1
  SmallShortage = 30
  SmallPosition = 150
  SmallBorrow = 20
  Dust = 5
  UserPool <- MCUserPool
  MarketPool <- MCMarketPool
  Mint <- MCMint
  Price <- MCPrice
  One = 100
  Precision = 200
  UtilPrecision = 100
  RatePrecision = 100
  OptimalUtil = 70
  OptimalRate = 400
  MaxRate = 2000
  MinRate = 5
  Segments <- MCSegments
  WeightTotal = 200
  Year = 1
  Window = 4
  StakersFactor = 25
  FactorPrecision = 100
  GuardThreshold = 20
  Seed <- MCSeed
  Amounts = {9}
  Gifts = {3}
  Swaps <- MCSwaps
  MaxInstructions = 3
  MaxTime = 1
SPECIFICATION SpotSpec
CHECK_DEADLOCK FALSE
INVARIANTS BalancesCounted GuardFloor
PROPERTIES DustOnly
