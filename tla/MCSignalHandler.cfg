SPECIFICATION FairSpec
CONSTANTS
  Recurrent = {SIGHUP, SIGCHLD}
  Ignored = {SIGPIPE}
  Terminal = {SIGTERM, SIGINT}
  Interrupt = SIGCONT
  MaxRaise = 3
  None = None
INVARIANT CalledOnce
PROPERTY Terminates
CHECK_DEADLOCK FALSE
