SPECIFICATION Spec
CONSTANTS
  Order = {o1}
  Milestone = {m1}
  Account = {v1, v2}
  Transfer = {t1, t2}
  Price = {1, 2}
  Amount = {1}
  Handler = {h1, h2}
SYMMETRY Interchangeable
INVARIANTS WorkIsPaid
PROPERTIES PaidAsPromised
CHECK_DEADLOCK FALSE
