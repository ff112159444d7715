CONSTANTS
  Events = {e1}
  Bets = {b1}
  Sessions = {s1, s2}
  Handlers = {h1}
  Strays = {m0}
  MaxEpoch = 0
  MaxFaults = 1
  NoSession = NoSession
  NoEventId = NoEventId
SPECIFICATION FairSpec
PROPERTIES CoreValue QueueDrains
