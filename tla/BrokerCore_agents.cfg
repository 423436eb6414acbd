SPECIFICATION FairSpec
CONSTANTS
  alice = alice
  bob = bob
  carol = carol
  eve = eve
  Executions = {e1, e2}
  Agents = {alice, bob, carol, eve}
  Allowed = {alice, bob, carol}
  ClientOf <- SharedClient
  CredentialRef <- OwnSecrets
  GlobalEnabled = TRUE
  Target <- MCTarget
  Capability <- ThreeCapabilities
  Adapters <- MCAdapters
  None = None
  ExpiresIn = {1}
  RefreshEarly = 0
  MinUsable = 1
  MaxTime = 1
  MaxClears = 1
INVARIANTS TypeOK BearerIsOwn SecretIsOwn GateComesFirst
PROPERTIES DrivesTokenCache EveryExecutionEnds ImplementsService
