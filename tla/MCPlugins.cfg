CONSTANTS
  Waits = {w1, w2}
  Timed = {w2}
  MaxAnswers = 1
  MaxFaults = 2
  MaxControls = 1
  None = None
  MaxPluginCalls = 3
  SigShapes <- MCSigShapes
  NoKey = NoKey
  Requests <- MCRequests
  Responses <- MCResponses
  User <- MCUser
  NoTx = NoTx
  Requested <- MCRequested
  Offers <- MCOffers
  MaxFee = 2
  AllowFees = TRUE
  PowerupPrice = 2
  RamPrice = 1
  MaxRetries = 3
  KitChains <- MCKitChains
  Creators <- MCCreators
  NoChoice = NoChoice
  WalletLists <- MCWalletLists
  Foreign = "foreign"
  Permissions = {"p1", "p2"}
  Interfaces = {"null", "console", "engine", "custom"}
  Args <- MCArgs
  HookLists <- MCHookLists
  SessionChain = "eos"
  NoTapos = NoTapos
  DefaultExpire = 120
  Expires <- MCExpires
  MaxHead = 2
SPECIFICATION MCSpec
INVARIANTS OwnAnswer SealedForLink  PaidIsAgreed CosignedFits ChoicesFit
PROPERTIES  FinalityEnds
CHECK_DEADLOCK FALSE
