CONSTANTS
  Events = {e1}
  Bets = {b1}
  Sessions = {s1, s2}
  Handlers = {h1}
  Strays = {}
  MaxEpoch = 1
  MaxFaults = 0
  NoSession = NoSession
  NoEventId = NoEventId
SPECIFICATION FairSpec
INVARIANTS SettledForAReason
PROPERTIES SweptUnlessReopened KeepsBettingPromise
