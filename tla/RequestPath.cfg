SPECIFICATION Spec
CONSTANTS
  Slugs <- MCSlugs
  NoText = NoText
  NoNode = NoNode
  NoRevision = NoRevision
  Unset = Unset
  BadNet = BadNet
  MAX_CHAIN_HOPS = 4
  Client = "c"
  Others <- MCOthers
  Deployments <- MCDeployments
  Requests <- MCRequests
  Lookups <- MCLookups
  MaxDrops = 1
INVARIANTS DialledIsPermitted ChainRunsAsAsked AnswersAreTruthful 
PROPERTY EveryLegIsAnswered
CHECK_DEADLOCK FALSE
