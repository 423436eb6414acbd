SPECIFICATION PluginSpec
CONSTANTS
  long = long
  huge = huge
  Secrets = {long, huge}
  Length <- MCLength
  MaxBytes = 2
  None = None
  Executions = {e1, e2}
  Timeout = 1
  MaxLag = 0
  ExpiresIn = 2
  PortNumbers = {0, 1, 4001, 9099, 65535, 65536}
  NoPort = NoPort
  Configurations <- MCConfigurations
PROPERTIES SwapIsPrevented
