CONSTANTS
  alice = alice
  bob = bob
  Authorities <- MCAuthorities
  Scale = 100
  Ratio <- MCRatio
  DisableBuffer = 1
  Prices = {1, 2}
  MaxSubAccounts = 2
  MaxFee = 10
  Share = 100
  Places = {1}
  SlotsToDisable = 1
  SlotsToIdle = 2
  SlotsToIdleFast = 1
  SmallEquity = 2
  SlotsToForce = 2
  DustEquity = 1
  FreshFor = 2
  Amounts = {1}
  Steps = {4}
  CustomRatios = {0, 60}
  MaxCreated = 2
  MaxOps = 8
  MaxTime = 2
SPECIFICATION Spec
CHECK_DEADLOCK FALSE
INVARIANTS PlacesAccounted RosterSound
PROPERTIES DisableIsHarmless
SYMMETRY MCSymmetry
