SPECIFICATION Spec
CONSTANTS
  Word = 8
  WeisInGwei = 3
  Thresholds <- LargeThresholds
  Amounts = {1, 6, 11}
  MaxBalance = 22
  MaxAge = 7
  NoRow = NoRow
CHECK_DEADLOCK FALSE
INVARIANT PermanentDebtIsAllowed
