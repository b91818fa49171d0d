SPECIFICATION Spec
CONSTANTS
  SyncCaller = {s1, s2}
  AsyncCaller = {a1}
  OptDepth = 1
  OptBatch = 1
  MaxSync = 1
  MaxAsync = 2
  Word = 64
  Events = {"signal", "submit", "stop"}
  Notifier = Notifier
  Unset = Unset
SYMMETRY Symmetric
CHECK_DEADLOCK FALSE
INVARIANTS DoneOnce SyncResult IdleIsFree CompletionsFit
