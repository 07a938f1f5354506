SPECIFICATION Spec
CONSTANTS
  Milestone = {m1}
  VA = {v1}
  Payment = {p1}
  Handler = {h1, h2}
  NoVA = NoVA
INVARIANTS CreditedOnce
CHECK_DEADLOCK FALSE
