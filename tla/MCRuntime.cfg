SPECIFICATION Spec
CONSTANTS
  Part = {"pool", "wheel", "instances", "remote", "group"}
  Feeder = {f1, f2}
  Worker = w
  MaxWork = 2
  NoItem = NoItem
  Size = 2
  Word = 64
  Timer = {t1, t2}
  Span = 8
  Granularity = 2
  Timeouts = {1, 6}
  Instance = {0, 1}
  NumAcceptors = 3
  MaxCalls = 1
  c1 = c1
  c2 = c2
  Message = {m1, m2}
  Rounds = 2
  Capacity = 2
  Clock = 511
  N = 5
  NumGroup = 120
  NumInst = 130
CHECK_DEADLOCK FALSE
INVARIANTS
  NoRepair EmptyWasEmpty NotLate HeldOnce  OwnAnswer CallbackFound TablesRight
PROPERTIES
   NotEarly
