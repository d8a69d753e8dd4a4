SPECIFICATION FairServerSpec
CONSTANTS
  Clients = {c1, c2}
  None = None
  Setups <- AllSetups
  Plugins = {TRUE, FALSE}
  Timer = 1
INVARIANTS ServerTypeOK DescriptorsAccounted ContextIsOwn FinalCall
PROPERTIES ShutdownEnds ListensAgain QueueMoves
