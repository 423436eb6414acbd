SPECIFICATION Spec
CONSTANTS
  alice = alice
  bob = bob
  carol = carol
  eve = eve
  Executions = {e1, e2, e3}
  Agents = {alice}
  Allowed = {alice}
  ClientOf <- OneClient
  CredentialRef <- OwnSecrets
  GlobalEnabled = TRUE
  Target <- MCTarget
  Capability <- OneCapability
  Adapters <- MCAdapters
  None = None
  ExpiresIn <- MCExpiresIn
  RefreshEarly = 0
  MinUsable = 1
  MaxTime = 0
  MaxClears = 0
SYMMETRY Symmetry
INVARIANTS RefusedTokenGone
PROPERTIES ImplementsService
