SPECIFICATION Spec
CONSTANTS
  Configs <- HttpConfigs
  Requests <- FewRequests
  MaxRequests = 2
  MaxActs = 1
  Statuses = {}
  PrePlugins = 0
  PostPlugins = 0
  StrayLengths = {0, 1}
  SOCMAXREAD = 3
INVARIANT RequestIsFramed
