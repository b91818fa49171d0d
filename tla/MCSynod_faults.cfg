SPECIFICATION Spec
CONSTANTS
  Acceptor = {a1, a2, a3}
  Up = {a1, a2}
  NumProposer = 2
  None = None
  MaxEntry = 1
  MaxCalls <- Calls20
  MaxInc = 1
  CallKinds = {"write", "probe"}
  ClockStart <- MovingClock
  SaveOutcomes = {TRUE, FALSE}
  MaxCrash = 0
  Duplicates = {"ACCEPT_REQ"}
SYMMETRY AcceptorSymmetry
CHECK_DEADLOCK FALSE
INVARIANTS AgreementUnlessSlaveFast MarkedIsChosen
