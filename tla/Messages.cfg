SPECIFICATION ChatSpec
CONSTANTS
  Thread = {t1, t2}
  Page = 2
  MaxMessages = 2
  MaxFaults = 1
SYMMETRY Interchangeable
INVARIANTS OpenThreadIsComplete ZeroMeansRead
PROPERTIES NothingVanishes
CHECK_DEADLOCK FALSE
