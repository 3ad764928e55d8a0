SPECIFICATION Spec
CONSTANTS
  Adapters = {eth, wifi}
  UserConfigs <- AllConfigs
  Faults <- AllFaults
  MaxCrashes = 2
  Uninstall = FALSE
  NoState = NoState
PROPERTIES TouchesOnlyRecordedAdapter
