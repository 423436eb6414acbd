SPECIFICATION Spec
CONSTANTS
  Calls = {c1, c2, c3}
  Keys = {k1}
  None = None
  ExpiresIn <- MCExpiresIn
  RefreshEarly = 1
  MinUsable = 1
  MaxTime = 3
  MaxClears = 1
PROPERTIES NoUseAfterInvalidate
