SPECIFICATION Spec
CONSTANTS
  b1 = b1  b2 = b2  e1 = e1  e2 = e2
  Bid = {b1, b2}
  Legacy = {b1}
  Expert = {e1, e2}
  Handler = {h1}
  Scope = {open, s1}
  Open = open
  SelfTechnical = FALSE
  MaxVersion = 2
SYMMETRY Interchangeable
INVARIANTS OneContract FrameworkMirrorsContract ReviewedBeforeAccepted
  ShownStepsAccepted NegotiationMovesOn
CHECK_DEADLOCK FALSE
