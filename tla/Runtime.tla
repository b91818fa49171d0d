------------------------------ MODULE Runtime ------------------------------
(***************************************************************************)
(* The parts of a proposer's process that share no state with each other:  *)
(* a worker of the pool, the timing wheel, and the instances with their    *)
(* handlers.  Each is a module of its own; a behaviour runs one of them,   *)
(* which the initial state picks, and leaves the others as they began, so  *)
(* the states to check are those of the parts side by side.                *)
(***************************************************************************)
EXTENDS TimingWheel, Instances

CONSTANTS
    Part,                                       \* the parts to run
    Feeder, Worker, MaxWork, NoItem, Size, Word \* WorkerPool

VARIABLES
    part,          \* the part that runs
    head, tail, slot, reg, status, pending, curr, poolStopper, calls, accepted,
    handled, sawEmpty

Pool == INSTANCE WorkerPool WITH
    Thread <- Feeder \cup {Worker}, Item <- Feeder \X (1 .. MaxWork), stopper <- poolStopper

\* What each part asks of its constants.
ASSUME PoolIsSound == Pool!PoolAssumption
ASSUME WheelIsSound == WheelAssumption
ASSUME InstIsSound == InstancesAssumption

poolVars == <<head, tail, slot, reg, status, pending, curr, poolStopper, calls,
              accepted, handled, sawEmpty>>
partVars == <<part, poolVars, wheelVars, instVars>>

PartsInit ==
    /\ part \in Part
    /\ Pool!Init
    /\ WheelInit /\ (part # "wheel" => punctual)
    /\ InstInit

PartsNext ==
    /\ UNCHANGED part
    /\ \/ part = "pool" /\ Pool!Next /\ UNCHANGED <<wheelVars, instVars>>
       \/ part = "wheel" /\ WheelNext /\ UNCHANGED <<poolVars, instVars>>
       \/ part = "instances" /\ InstNext /\ UNCHANGED <<poolVars, wheelVars>>

\* The fairness of the pool (see the Spec of its module).
PoolFairness ==
    /\ WF_poolVars(part = "pool" /\ Pool!Next /\ Pool!WorkerStep)
    /\ \A f \in Feeder : WF_poolVars(part = "pool" /\ Pool!Next /\ Pool!FeederStep(f))
    /\ WF_poolVars(part = "pool" /\ Pool!Next /\ Pool!StopStep)

=============================================================================
