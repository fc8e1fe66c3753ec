SPECIFICATION Spec
CONSTANTS
  Recurrent = {SIGCHLD}
  Ignored = {SIGPIPE}
  Terminal = {SIGTERM}
  Interrupt = SIGCONT
  MaxRaise = 2
  None = None
INVARIANT NoDeadlock
CHECK_DEADLOCK FALSE
