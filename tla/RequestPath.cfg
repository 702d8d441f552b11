SPECIFICATION Spec
CONSTANTS
  Peers <- MCPeers
  BrowserBodies <- MCBrowserBodies
  None = None
INVARIANTS
  TablesAgree
  ReportsAreTruthful
  EffectsAreAuthorized
  CallsAreAudited
CHECK_DEADLOCK FALSE
