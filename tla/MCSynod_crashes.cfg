SPECIFICATION Spec
CONSTANTS
  Acceptor = {a1, a2, a3}
  Up = {a1, a2}
  NumProposer = 2
  None = None
  MaxEntry = 1
  MaxCalls <- Calls11
  MaxInc = 0
  CallKinds = {"write"}
  ClockStart <- MovingClock
  SaveOutcomes = {TRUE, FALSE}
  MaxCrash = 1
  Duplicates = {}
SYMMETRY AcceptorSymmetry
CHECK_DEADLOCK FALSE
INVARIANTS AgreementUnlessVoid BallotInv LearnInv
PROPERTIES PromiseKept ChosenStays ImplementsConsensus
