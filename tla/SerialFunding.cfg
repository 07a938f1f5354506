SPECIFICATION Spec
CONSTANTS
  Milestone = {m1, m2}
  VA = {v1, v2, v3, v4}
  Payment = {p1, p2, p3}
  Handler = {h1}
  NoVA = NoVA
SYMMETRY Interchangeable
INVARIANTS NoWorkWithoutNda PaidExactlyOnce OneWindow DocumentsFollowPayment
CHECK_DEADLOCK FALSE
