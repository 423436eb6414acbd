SPECIFICATION Spec
CONSTANTS
  alice = alice
  bob = bob
  carol = carol
  eve = eve
  Executions = {e1, e2}
  Agents = {alice, eve}
  Allowed = {alice}
  ClientOf <- OneClient
  CredentialRef <- OwnSecrets
  GlobalEnabled = TRUE
  Target <- MCTarget
  Capability <- OneCapability
  Adapters <- MCAdapters
  None = None
  ExpiresIn <- MCExpiresIn
  RefreshEarly = 0
  MinUsable = 1
  MaxTime = 0
  MaxClears = 0
INVARIANTS DeniedIsAnswered
