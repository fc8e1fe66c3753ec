SPECIFICATION Spec
CONSTANTS
  core = core
  app = app
  Configured <- MCConfigured
  Extra = {core, app}
  Threads = {t1}
  Pinned <- MCPinned
  MaxPort = 2
  MaxActor = 3
  None = None
INVARIANTS
  UniqueNames
  
  SignalsAddUp
CHECK_DEADLOCK FALSE
