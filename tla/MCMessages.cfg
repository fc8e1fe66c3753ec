SPECIFICATION FairSpec
CONSTANTS
  Sessions = {s1, s2}
  Attachers = {a1}
  MaxFd = 2
  Null = Null
  PushThreads = {t1}
  Io = Io
  MaxPush = 2
  Size = 3
  Calls = {c1}
  Events <- MCEvents
  Kind <- MCKind
  Recursed = {"emit"}
  Middlewares <- MCMiddlewares
  MaxOps = 3
  MaxSlots = 2
  Length <- MCLength
  Capacity = 4096
  Overhead = 32
  EngineThread = loop
  ServiceThread = worker
  Incoming <- MCIncoming
  MaxChannel = 2
  MaxFresh = 1
  MaxJobs = 1
  MaxSent = 1
  InitialSize = 4
  FrameSize <- MCFrameSize
  PeerHeaders <- MCPeerHeaders
  Senders = {"cocaine", "compressing", "bulky"}
  Faulty = {"bulky"}
INVARIANTS
  NoneForgotten Conservation AckedIffSent SenderOrder AnsweredOnce
  TraceOfSender  TablesAgree
PROPERTIES
  OnlyStats PushCompletes ImplementsStream AcceptedArrives AllHandled
CHECK_DEADLOCK FALSE
