SPECIFICATION FairSpec
CONSTANTS
  a1 = a1
  Agents = {a1}
  None = None
  Expected = Expected
  Other = Other
  Mapping <- ListedTwice
  MaxRetries = 1
  MaxRuns = 2
INVARIANTS TypeOK PassedMeansClaimed CreationFailsTheRun FailureFailsTheRun
PROPERTIES EveryRunEnds ImplementsReconciliation
