CONSTANTS
  ann = ann
  k1 = k1
  Subs = {ann}
  Callers = {dan}
  AccountOf <- MCAccountOf
  BatchOf <- MCBatchOf
  Others = {2}
  MaxLoads = 2
  Timeout = 1
  StaleAfter = 1
  Late = 1
  MaxSlot = 2
SPECIFICATION Spec

PROPERTIES CallersAnswered NewestKept
