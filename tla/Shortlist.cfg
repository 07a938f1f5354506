SPECIFICATION Spec
CONSTANTS
  Expert = {e1, e2}
  Handler = {h1, h2}
  Ttl = 2
  Timeout = 1
SYMMETRY Interchangeable
INVARIANTS ShownWereFit InvitationFollowsBid
PROPERTIES AdmittedWereFit
