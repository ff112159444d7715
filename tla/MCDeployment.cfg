CONSTANTS
  PgAttempts = 10
  MaxFaults = 3
SPECIFICATION Spec
INVARIANTS TypeOK SchemaMatchesRevision EveryStatementApplies ConsumesOnlyWhenReady ResourcesOutliveTheirUsers CleanExit OkMeansEachWasUp
PROPERTY ComesUp
