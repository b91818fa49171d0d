SPECIFICATION Spec
CONSTANTS
  Acceptor = {a1, a2, a3}
  Up = {a1, a2}
  NumProposer = 2
  None = None
  MaxEntry = 2
  MaxCalls <- Calls21
  MaxInc = 0
  CallKinds = {"write"}
  ClockStart <- SameClock
  SaveOutcomes = {TRUE, FALSE}
  MaxCrash = 0
  Duplicates = {}
SYMMETRY AcceptorSymmetry
CHECK_DEADLOCK FALSE
INVARIANTS TypeOK ChosenInfoSound 
