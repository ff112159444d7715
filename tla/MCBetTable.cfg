CONSTANTS
  Events = {e1, e2}
  Bets = {b1, b2}
  Sessions = {s1, s2, s3}
SPECIFICATION BT_Spec
SYMMETRY Symmetry
INVARIANTS BT_TypeOK LockDiscipline
PROPERTY KeepsLedgerPromise
