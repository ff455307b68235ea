CONSTANTS
  Prices = {1}
  Fees = {0, 2}
  Costs <- MCCosts
  Pnls <- MCPnls
  Bases <- MCBases
  Limits <- MCLimits
  Threshold = 0
  Fraction = 2
  ExcessPart = 2
  Deposits = 2
  Insurance = 2
  MaxTokens = 2
  MaxCount = 2
  MaxPrice = 2
  MaxOps = 6
SPECIFICATION Spec
CHECK_DEADLOCK FALSE
PROPERTIES SettledPnlIsPaid
