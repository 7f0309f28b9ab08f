SPECIFICATION Spec
CONSTANTS
  Wallets = {1, 2}
  MaxNonce = 3
  GasPrices = {1}
  MaxTasks = 2
  Contexts = {c1, c2}
  NoUi = NoUi
  Idle = Idle
  Worlds <- SafetyWorlds
INVARIANTS OneScanAtATime OneOutstandingPayment NeverOverpaid AnsweredOnce
           PaymentsAreTracked BooksBalance
CHECK_DEADLOCK FALSE
