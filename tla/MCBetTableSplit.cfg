CONSTANTS
  Events = {e1, e2}
  Bets = {b1, b2, b3}
  Sessions = {s1, s2, s3}
SPECIFICATION BT_Spec
SYMMETRY Symmetry
INVARIANT OneOfTwoGetsAllRows
