SPECIFICATION FairSpec
CONSTANTS
  core = core
  app = app
  Configured <- MCConfigured
  Extra = {core, app}
  Threads = {t1}
  Pinned <- MCPinned
  MaxPort = 2
  MaxActor = 2
  None = None
PROPERTY TerminatedCloses
CHECK_DEADLOCK FALSE
