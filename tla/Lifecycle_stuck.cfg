SPECIFICATION Spec
CONSTANTS
  Uids = {1, 2}
  None = None
  MaxRuns = 3
INVARIANTS CleanupComesToHelp
