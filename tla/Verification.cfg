SPECIFICATION SeamSpec
CONSTANTS
  Seam = {s1, s2, s3}
  Entry = {e1, e2}
  Attempt = {h1, h2}
  MaxAttempts = 2
  Ratio = 2
SYMMETRY Interchangeable
INVARIANTS FailuresLock
PROPERTIES EvidenceStays
CHECK_DEADLOCK FALSE
