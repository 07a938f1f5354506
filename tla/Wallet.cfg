SPECIFICATION Spec
CONSTANTS
  Milestone = {m1, m2}
  Withdrawal = {w1, w2, w3}
  Payment = {p1}
  Handler = {h1, h2}
  Amounts = {2}
  Net = 1
  MaxPeriods = 2
  Manual = Manual
SYMMETRY Interchangeable
INVARIANTS BooksBalance GivenBackOnce NeverOverdrawn OneChargePerPeriod ReleasedWhenPaidOut
CHECK_DEADLOCK FALSE
