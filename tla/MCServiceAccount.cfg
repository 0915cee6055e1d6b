SPECIFICATION Spec
CONSTANTS
  Provisions = {p1, p2}
  Revokes = {r1, r2}
  Foreign = Foreign
  Absent = Absent
  Claimable = {"role"}
SYMMETRY Alike
INVARIANTS
  CompleteUnlessRevoked
  RevokedIsGone
PROPERTIES
  NothingElseIsTaken
CHECK_DEADLOCK FALSE
