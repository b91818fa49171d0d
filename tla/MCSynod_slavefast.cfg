SPECIFICATION Spec
CONSTANTS
  Acceptor = {a1, a2, a3}
  Up = {a1, a2}
  NumProposer = 2
  None = None
  MaxEntry = 2
  MaxCalls <- Calls12
  MaxInc = 0
  CallKinds = {"write"}
  ClockStart <- SameClock
  SaveOutcomes = {TRUE}
  MaxCrash = 0
  Duplicates = {}
SYMMETRY AcceptorSymmetry
CHECK_DEADLOCK FALSE
INVARIANTS Agreement
