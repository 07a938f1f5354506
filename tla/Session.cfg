SPECIFICATION Spec
CONSTANTS
  Request = {r1, r2, r3}
INVARIANTS HeldIsCurrent
PROPERTIES EveryCallSettles
CHECK_DEADLOCK FALSE
