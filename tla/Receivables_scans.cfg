SPECIFICATION FairSpec
CONSTANTS
  Debtors = {d1}
  p1 = p1
  p2 = p2
  Payments = {p1, p2}
  Ranges = {1, 2}
  Uninitialized = Uninitialized
  NoLimit = NoLimit
  DebtLimit = 1
  UnbanBelow = 1
  Slots = {1, 2}
  Idle = Idle
  Contexts = {c1}
  NoUi = NoUi
  Worlds <- SmallWorlds
INVARIANTS NeverCreditedTwice NothingSkipped BansAgree
PROPERTIES PaymentsAreCredited ReformedAreUnbanned
CHECK_DEADLOCK FALSE
