CONSTANTS
  u1 = u1
  u2 = u2
  Users = {u1, u2}
  Amounts = {1, 2, 3}
  Radix = 2
  MaxExpo = 4
  Power <- MCPower
  UnstakingPeriod = 1
  SettlePeriod = 1
  UserFactor = 1
  TotalFactor = 2
  AprNumerator = 1
  AprDenominator = 1
  RevenueDivisor = 2
  Pools <- MCPools
  MaxTime = 1
  MaxVault = 3
  MaxBase = 1
SYMMETRY MCSymmetry
SPECIFICATION Spec
INVARIANTS TypeOK StakesBacked RequestCancellable FundSound
PROPERTIES NoDilution
CHECK_DEADLOCK FALSE
