SPECIFICATION FairManagerSpec
CONSTANTS
  Profiles = {"turkey", "isp", "proxy"}
  Target <- ShippedTargets
  TurkeyDefault = "turkey"
  Requests <- MixedRequests
  EngineFaults <- ManagerFaults
  Weak <- Engines
  MaxRequests = 3
  MaxFlips = 1
  MaxDeaths = 1
INVARIANTS OneEngine OverrideOnlyWithGoodbye  CommittedProfileFits AnswersHold
 
CHECK_DEADLOCK FALSE
