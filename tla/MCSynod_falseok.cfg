SPECIFICATION Spec
CONSTANTS
  Acceptor = {a1, a2, a3}
  Up = {a1, a2, a3}
  NumProposer = 2
  None = None
  MaxEntry = 1
  MaxCalls <- Calls11
  MaxInc = 0
  CallKinds = {"write"}
  ClockStart <- SameClock
  SaveOutcomes = {TRUE}
  MaxCrash = 0
  Duplicates = {}
SYMMETRY AcceptorSymmetry
CHECK_DEADLOCK FALSE
INVARIANTS OkMeansChosen
