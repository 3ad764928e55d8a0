SPECIFICATION FairSpec
CONSTANTS
  Adapters = {eth, wifi}
  UserConfigs <- DhcpV6Configs
  Faults <- SafeFaults
  MaxCrashes = 2
  Uninstall = FALSE
  NoState = NoState
INVARIANTS Recoverable RestoredExactly
PROPERTIES RollbackHappens ImplementsPromise
