SPECIFICATION ServerSpec
CONSTANTS
  Clients = {c1}
  None = None
  Setups <- OneSetup
  Plugins = {TRUE}
  Timer = 1
INVARIANT CalledBeforeTermination
