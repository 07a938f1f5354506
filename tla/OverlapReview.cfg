SPECIFICATION LockSpec
CONSTANTS
  m1 = m1  m2 = m2  c1 = c1  c2 = c2
  Milestone = {m1, m2}
  Criterion = {c1, c2}
  Dispute = {d1}
  Handler = {h1, h2}
  MilestoneOf <- OneEach
  Required = {c1, c2}
  JointReview = FALSE
  Amount <- Price
  FeeNum = 1  FeeDen = 20
  MaxSubmissions = 1
SYMMETRY Interchangeable
INVARIANTS TypeOK MoneyConserved BooksBalance CirclesAreDisputes
CHECK_DEADLOCK FALSE
