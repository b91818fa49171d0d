----------------------------- MODULE MCProgress -----------------------------
(***************************************************************************)
(* What must happen, for TLC: the proposer of MockPeers and its client,    *)
(* the parts of Runtime and the io_uring worker, side by side, each with   *)
(* bounds small enough for its liveness properties.                        *)
(***************************************************************************)
EXTENDS MockPeers, TLC

CONSTANTS
    Part, Feeder, Worker, MaxWork, NoItem, Size, Word,
    Timer, Span, Granularity, Timeouts, Instance, NumAcceptors,    \* Runtime
    SyncCaller, AsyncCaller, OptDepth, OptBatch, MaxSync, MaxAsync, Events,
    Notifier, Unset                                                \* IoUring

VARIABLES
    part, head, tail, slot, reg, status, pending, curr, poolStopper, calls, accepted,
    handled, sawEmpty,
    wheel, hand, state, lock, worker, rest, stopper, punctual, timer,
    st, thr, dead, taken, answers,
    caller, queue, unsubmit, efd, fdPool, fdVal, wk, ctxPool, ctxReq, sq, kernel, cq,
    stop, issued, done, event

Parts == INSTANCE Runtime WITH MaxCalls <- 1
Uring == INSTANCE IoUring WITH accepted <- issued

Clock == [p \in Proposer |-> [k \in 0 .. MaxInc |-> 1]]
TwoCalls == [p \in Proposer |-> 2]

runtimeVars == <<part, head, tail, slot, reg, status, pending, curr, poolStopper, calls,
                 accepted, handled, sawEmpty, wheel, hand, state, lock, worker, rest,
                 stopper, punctual, timer, st, thr, dead, taken, answers>>
uringVars == <<caller, queue, unsubmit, efd, fdPool, fdVal, wk, ctxPool, ctxReq, sq,
               kernel, cq, stop, issued, done, event>>
vars == <<mockVars, runtimeVars, uringVars>>

ProgressInit == Init /\ Parts!PartsInit /\ Uring!Init

ProgressNext ==
    \/ part = "mock" /\ Next /\ UNCHANGED <<runtimeVars, uringVars>>
    \/ Parts!PartsNext /\ UNCHANGED <<mockVars, uringVars>>
    \/ part = "rings" /\ Uring!Next /\ UNCHANGED <<mockVars, runtimeVars>>

UringFairness ==
    /\ \A c \in SyncCaller \cup AsyncCaller :
          WF_uringVars(part = "rings" /\ Uring!CallerStep(c))
    /\ WF_uringVars(part = "rings" /\ Uring!WorkerStep)
    /\ WF_uringVars(part = "rings" /\ Uring!KernelStep)
    /\ WF_uringVars(part = "rings" /\ stop # "no" /\ Uring!Stop)

\* No action of the wheel is enabled before Start, which the other parts never call:
\* its fairness asks nothing of them.  No timer of the proposer is armed before a call.
ProgressSpec ==
    /\ ProgressInit /\ [][ProgressNext]_vars
    /\ WF_mockVars(part = "mock" /\ TimerFires)
    /\ Parts!PoolFairness /\ Parts!WheelFairness /\ UringFairness

\* WorkerPool: accepted work is handled unless the pool is stopped.
EveryWorkHandled == Parts!Pool!EveryWorkHandled

\* WorkerPool: StopWorker returns.
StopReturns == Parts!Pool!StopReturns

\* TimingWheel: a timer that was added fires unless the wheel is stopped.
EveryTimerFires == Parts!EveryTimerFires

\* IoUring: done_ is called for every request that was issued.
EveryRequestDone == Uring!EveryRequestDone

\* IoUring: Stop returns.
RingsStop == Uring!StopReturns

=============================================================================
