CONSTANTS
  Events = {e1, e2}
  Bets = {b1, b2}
  Sessions = {s1}
  Handlers = {}
  Strays = {}
  MaxEpoch = 0
  MaxFaults = 0
  NoSession = NoSession
  NoEventId = NoEventId
SPECIFICATION IsolatedSpec
INVARIANTS AgreesWithLineProvider
PROPERTIES FailuresAreIsolated
