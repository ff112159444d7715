CONSTANTS
  Events = {e1, e2}
  Bets = {b1}
  MaxEpoch = 2
SPECIFICATION LP_Spec
SYMMETRY Symmetry
INVARIANTS LP_TypeOK AnnouncedIsStored AnnouncedOnce
PROPERTY FinalStateSticks
