SPECIFICATION FairSpec
CONSTANTS
  Wallets = {1, 2}
  MaxNonce = 4
  GasPrices = {1}
  MaxTasks = 2
  Contexts = {}
  NoUi = NoUi
  Idle = Idle
  Worlds <- LivenessWorlds
PROPERTIES PayableScanEnds DebtsArePaid
CHECK_DEADLOCK FALSE
