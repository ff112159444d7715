CONSTANTS
  Events = {e1}
  Bets = {b1}
  MaxEpoch = 1
  Callers = {p1, r1}
  Posts = {p1}
  RouteAttempts = 3
  ReconcilerAttempts = 5
  EventList = EventList
  Amounts <- BodyAmounts
  MaxDigits = 4
  Precision = 4
SPECIFICATION Spec
INVARIANTS PB_TypeOK StatusTellsTheTruth PlacedWhileBettable AcceptedIsStorable
PROPERTIES KeepsLookupPromise EveryRequestEnds KeepsBettingPromise
