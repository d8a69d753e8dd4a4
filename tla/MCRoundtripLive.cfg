SPECIFICATION FairSpec
CONSTANTS
  Configs <- LiveConfigs
  Requests <- OddRequests
  MaxRequests = 2
  MaxActs = 1
  Statuses = {204}
  PrePlugins = 1
  PostPlugins = 1
  StrayLengths = {0, 1}
  SOCMAXREAD = 3
PROPERTIES RequestAnswered ConnectionReleased ImplementsExchange
