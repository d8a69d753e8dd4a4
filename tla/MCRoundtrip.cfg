SPECIFICATION Spec
CONSTANTS
  Configs <- AllConfigs
  Requests <- AllRequests
  MaxRequests = 2
  MaxActs = 2
  Statuses = {}
  PrePlugins = 2
  PostPlugins = 1
  StrayLengths = {0, 1}
  SOCMAXREAD = 2
INVARIANTS TypeOK WireOrder AnswersTheAsker CloseHonoured ServletAuthorized
  FailureReported WholeBodyUnlessCut FramedUnlessCut OnlyInstanceLeaked
