CONSTANTS
  Events = {e1}
  Bets = {b1, b2}
  Sessions = {s1, s2}
  Handlers = {h1, h2}
  Strays = {m0}
  MaxEpoch = 0
  MaxFaults = 1
  NoSession = NoSession
  NoEventId = NoEventId
SPECIFICATION Spec
SYMMETRY Symmetry
INVARIANTS TypeOK SessionsHaveOneClient EachMessageInOnePlace AckedOnlyAfterCommit
PROPERTIES KeepsBettingPromise
