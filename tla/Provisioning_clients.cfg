SPECIFICATION Spec
CONSTANTS
  a1 = a1
  Agents = {a1}
  None = None
  Expected = Expected
  Other = Other
  Mapping <- OneAgent
  MaxRetries = 1
  MaxRuns = 2
INVARIANTS PassedMeansClientsClaimed
