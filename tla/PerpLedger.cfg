\* Three users with at most 1 step each and fills of up to 2 steps, without
\* fees.  A funding update moves a step's claim by two and a third units
\* either way, so each payment drops a fraction; a fee pool that may add
\* nothing caps two receivers of one payer at a third of a unit each, one
\* that may add 2 does not.
CONSTANTS
  u1 = u1
  u2 = u2
  u3 = u3
  Users = {u1, u2, u3}
  Prices = {1}
  ExpiryPrices = {2}
  Fees = {0}
  FundingRates <- MCFundingRates
  FundingLimits = {0, 2}
  BasePrecision = 3
  RatePrecision = 1
  MaxBase = 1
  MaxQuote = 1
  MaxRate = 7
  MaxFunding = 2
  MaxFill = 2
  MaxFractions = 2
SPECIFICATION Spec
SYMMETRY UserSymmetry
CHECK_DEADLOCK FALSE
INVARIANTS TypeOK AggregatesMatch UnsettledFundingCovers
PROPERTIES FundingFair SocialLossCovered
