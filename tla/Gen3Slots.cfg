SPECIFICATION SlotsSpec
CONSTANTS
  N = 3
  Exempt = {0}
  Need = {0, 1}
  Damage = {"sum", "sign", "splice"}
  MaxCounter = 3
  MaxDamage = 2
INVARIANTS SlotsTypeOK EditsReachGame LastSaveShown
CHECK_DEADLOCK FALSE
