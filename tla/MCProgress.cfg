SPECIFICATION ProgressSpec
CONSTANTS
  Part = {"pool", "wheel", "rings", "mock"}
  Feeder = {f1, f2}
  Worker = w
  MaxWork = 1
  NoItem = NoItem
  Size = 1
  Word = 64
  Timer = {t1, t2}
  Span = 4
  Granularity = 2
  Timeouts = {1}
  Instance = {0, 1}
  NumAcceptors = 2
  SyncCaller = {s1}
  AsyncCaller = {a1}
  OptDepth = 1
  OptBatch = 1
  MaxSync = 1
  MaxAsync = 1
  Events = {"signal", "stop"}
  Notifier = Notifier
  Unset = Unset
  Acceptor = {p1, p2, p3}
  NumProposer = 3
  None = None
  MaxEntry = 2
  MaxCalls <- TwoCalls
  CallKinds = {"write", "probe"}
  MaxInc = 0
  ClockStart <- Clock
  Self = 2
  Peer = 0
  VotePids = {1, 4}
CHECK_DEADLOCK FALSE
INVARIANTS AnsweredOnce OwnPids
PROPERTIES
  AdoptsLargestVote EveryCallAnswered EveryWorkHandled StopReturns   
