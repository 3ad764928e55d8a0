SPECIFICATION Spec
CONSTANTS
  Adapters = {eth, wifi}
  UserConfigs <- DhcpV6Configs
  Faults <- SafeFaults
  MaxCrashes = 2
  Uninstall = TRUE
  NoState = NoState
INVARIANTS  QuietUninstallRestores
