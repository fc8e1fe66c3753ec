SPECIFICATION Spec
CONSTANTS
  Threads = {t1}
  Io = Io
  MaxChannelId = 2
  MaxDepth = 1
  Control = Control
  None = None
INVARIANT DetachDiscardsAll
CHECK_DEADLOCK FALSE
