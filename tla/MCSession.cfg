SPECIFICATION FairSpec
CONSTANTS
  Threads = {t1}
  Io = Io
  MaxChannelId = 3
  MaxDepth = 1
  Control = Control
  None = None
INVARIANT NoSilentClose
PROPERTIES
  PullStops
  ImplementsLifecycle
CHECK_DEADLOCK FALSE
