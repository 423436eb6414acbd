SPECIFICATION HostSpec
CONSTANTS
  Uids = {1, 2}
  None = None
  MaxRuns = 2
  MaxStarts = 2
INVARIANTS HostTypeOK InstallationIsWhole CleanupEmptiesItsPlaces DeadCleanupCanFinish MockOutlivesBrokenRuns
