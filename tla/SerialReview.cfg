SPECIFICATION Spec
CONSTANTS
  m1 = m1  m2 = m2  c1 = c1  c2 = c2  c3 = c3
  Milestone = {m1, m2}
  Criterion = {c1, c2, c3}
  Dispute = {d1, d2}
  Handler = {h1}
  MilestoneOf <- TwoAndOne
  Required = {c1, c2, c3}
  JointReview = TRUE
  Amount <- Price
  FeeNum = 1  FeeDen = 20
  MaxSubmissions = 2
INVARIANTS FrozenWhileDisputed ApprovedWhenSettled ReleasedWhenAccepted
  ClosedMeansSettled OfferedIsAccepted SomebodyCanAct
PROPERTIES PromiseKept
CHECK_DEADLOCK FALSE
