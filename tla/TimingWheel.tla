---------------------------- MODULE TimingWheel ----------------------------
(***************************************************************************)
(* util/timing_wheel.hpp with the notifier that Proposer::addTimeout gives *)
(* it: the wheel, its worker thread, the threads that add timeouts and the *)
(* one that stops the wheel.  All of them share lock_.                     *)
(***************************************************************************)
EXTENDS Integers, SequencesExt

CONSTANTS
    Timer,       \* the timers; each is added again after it has fired
    Span,        \* the 4000 ms of the constructor
    Granularity, \* granularity_ms_
    Timeouts     \* the timeouts asked for, in ms

VARIABLES
    wheel,    \* wheel_
    hand,     \* start_
    state,    \* state_: 0 inited, 1 started, 2 stop
    lock,     \* who holds lock_
    worker,   \* where the worker is, and how many notifiers of the slot it has called
    rest,     \* ms the worker still has to sleep
    stopper,  \* where Stop is
    punctual, \* whether the worker always runs as soon as it may
    timer     \* history: ms asked for (0 when not set) and ms passed on a running wheel

wheelVars == <<wheel, hand, state, lock, worker, rest, stopper, punctual, timer>>

SlotCount == Span \div Granularity
Slot == 0 .. SlotCount - 1

\* The granules of a timeout, rounded up.
Slots(ms) == ms \div Granularity + (IF ms % Granularity # 0 THEN 1 ELSE 0)

\* Every timeout fits into the wheel (4000 ms): the slot under the hand would be
\* the next to fire.
WheelAssumption ==
    /\ IsFiniteSet(Timer) /\ Span \in Nat /\ Granularity \in 1 .. Span
    /\ Timeouts \subseteq Nat \ {0} /\ \A ms \in Timeouts : Slots(ms) < SlotCount

WheelInit ==
    /\ wheel = [s \in Slot |-> <<>>] /\ hand = 0 /\ state = 0 /\ lock = "free"
    /\ worker = [pc |-> "off", called |-> 0] /\ rest = 0 /\ stopper = "idle"
    /\ punctual \in BOOLEAN
    /\ timer = [t \in Timer |-> [ms |-> 0, age |-> 0]]

-----------------------------------------------------------------------------
Start ==
    /\ state = 0 /\ lock = "free"
    /\ state' = 1
    /\ worker' = [worker EXCEPT !.pc = "while"]
    /\ UNCHANGED <<wheel, hand, lock, rest, stopper, timer, punctual>>

\* Mutation: the slot under the hand counts as the first granule.
MutTargetEarly(ms) == (Slots(ms) + hand + SlotCount - 1) % SlotCount

\* Mutation: the slot under the hand counts as passed.
MutTargetLate(ms) == (Slots(ms) + hand + 1) % SlotCount

\* The slot of a timeout that is added now.
Target(ms) == (Slots(ms) + hand) % SlotCount

AddTimeout(t, ms) ==
    /\ timer[t].ms = 0
    /\ lock = "free"
    /\ wheel' = [wheel EXCEPT ![Target(ms)] = Append(@, t)]
    /\ timer' = [timer EXCEPT ![t] = [ms |-> ms, age |-> 0]]
    /\ UNCHANGED <<hand, state, lock, worker, rest, stopper, punctual>>

-----------------------------------------------------------------------------
\* while (state_ != 2)
WorkerWhile ==
    /\ worker.pc = "while"
    /\ worker' = [worker EXCEPT !.pc = IF state = 2 THEN "done" ELSE "lock"]
    /\ UNCHANGED <<wheel, hand, state, lock, rest, stopper, timer, punctual>>

WorkerLock ==
    /\ worker.pc = "lock" /\ lock = "free"
    /\ lock' = "worker"
    /\ worker' = [pc |-> "notify", called |-> 0]
    /\ UNCHANGED <<wheel, hand, state, rest, stopper, timer, punctual>>

Pending == worker.called < Len(wheel[hand])

\* The notifier of the next item in the slot finds room in the worker queue.
NotifierQueues ==
    /\ worker.pc = "notify" /\ Pending
    /\ worker' = [worker EXCEPT !.called = @ + 1]
    /\ timer' = [timer EXCEPT ![wheel[hand][worker.called + 1]] = [ms |-> 0, age |-> 0]]
    /\ UNCHANGED <<wheel, hand, state, lock, rest, stopper, punctual>>

\* The notifier finds the queue full and calls addTimeout again, inside the
\* worker's critical section.
NotifierFull ==
    /\ worker.pc = "notify" /\ Pending
    /\ worker' = [worker EXCEPT !.pc = "relock"]
    /\ UNCHANGED <<wheel, hand, state, lock, rest, stopper, timer, punctual>>

\* Mutation: the items of the slot stay.
MutWorkerTick ==
    /\ worker.pc = "notify" /\ ~Pending
    /\ hand' = (hand + 1) % SlotCount
    /\ lock' = "free" /\ rest' = Granularity
    /\ worker' = [worker EXCEPT !.pc = "sleep"]
    /\ UNCHANGED <<wheel, state, stopper, timer, punctual>>

\* Mutation: the hand turns back one slot too soon.
MutHandTurnsBack ==
    /\ worker.pc = "notify" /\ ~Pending
    /\ wheel' = [wheel EXCEPT ![hand] = <<>>]
    /\ hand' = (hand + 1) % (SlotCount - 1)
    /\ lock' = "free" /\ rest' = Granularity
    /\ worker' = [worker EXCEPT !.pc = "sleep"]
    /\ UNCHANGED <<state, stopper, timer, punctual>>

\* All notifiers of the slot are called: it is cleared, the hand moves on, the
\* lock is given back and the worker goes to sleep.
WorkerTick ==
    /\ worker.pc = "notify" /\ ~Pending
    /\ wheel' = [wheel EXCEPT ![hand] = <<>>]
    /\ hand' = (hand + 1) % SlotCount
    /\ lock' = "free" /\ rest' = Granularity
    /\ worker' = [worker EXCEPT !.pc = "sleep"]
    /\ UNCHANGED <<state, stopper, timer, punctual>>

WorkerWakes ==
    /\ worker.pc = "sleep" /\ rest = 0
    /\ worker' = [worker EXCEPT !.pc = "while"]
    /\ UNCHANGED <<wheel, hand, state, lock, rest, stopper, timer, punctual>>

\* What the worker does once it is scheduled, but for taking the lock.
WorkerRuns == WorkerWhile \/ NotifierQueues \/ NotifierFull \/ WorkerTick \/ WorkerWakes

-----------------------------------------------------------------------------
\* Stop is called; the wheel was started before (join needs a thread).
StopCalled ==
    /\ stopper = "idle" /\ state = 1
    /\ stopper' = "called"
    /\ UNCHANGED <<wheel, hand, state, lock, worker, rest, timer, punctual>>

\* Stop takes the lock, sets the state and joins, all under the lock.
StopLock ==
    /\ stopper = "called" /\ lock = "free"
    /\ lock' = "stopper" /\ state' = 2 /\ stopper' = "join"
    /\ UNCHANGED <<wheel, hand, worker, rest, timer, punctual>>

StopJoins ==
    /\ stopper = "join" /\ worker.pc = "done"
    /\ lock' = "free" /\ stopper' = "returned"
    /\ UNCHANGED <<wheel, hand, state, worker, rest, timer, punctual>>

-----------------------------------------------------------------------------
\* The worker could take a step now.
WorkerReady ==
    \/ worker.pc \in {"while", "notify"}
    \/ worker.pc = "lock" /\ lock = "free"
    \/ worker.pc = "sleep" /\ rest = 0

\* Ages are counted up to here, which is later than any timer is due.
MaxAge == Span + 2 * Granularity

\* A millisecond passes.
Pass ==
    /\ punctual => ~WorkerReady
    /\ rest' = IF rest > 0 THEN rest - 1 ELSE 0
    /\ timer' = [t \in Timer |->
          IF state > 0 /\ timer[t].ms > 0 /\ timer[t].age < MaxAge
          THEN [timer[t] EXCEPT !.age = @ + 1] ELSE timer[t]]
    /\ UNCHANGED <<wheel, hand, state, lock, worker, stopper, punctual>>

WheelNext ==
    \/ Start
    \/ \E t \in Timer, ms \in Timeouts : AddTimeout(t, ms)
    \/ WorkerRuns \/ WorkerLock
    \/ StopCalled \/ StopLock \/ StopJoins
    \/ Pass

\* A worker that can run does so, time passes, and the worker gets the lock if
\* it is free again and again.
WheelFairness == WF_wheelVars(WorkerRuns) /\ SF_wheelVars(WorkerLock) /\ WF_wheelVars(Pass)

WheelSpec == WheelInit /\ [][WheelNext]_wheelVars /\ WheelFairness

-----------------------------------------------------------------------------
\* A timer fires no earlier than its timeout, rounded up to whole granules as
\* the wheel's test expects, wherever the hand and the worker were when
\* it was added.
NotEarly ==
    [][\A t \in Timer : timer[t].ms > 0 /\ timer'[t].ms = 0 =>
          timer[t].age >= Slots(timer[t].ms) * Granularity]_wheelVars

\* The worker waits for the lock it holds: the notifier has found the worker
\* queue full and arms the timer again.  It waits for ever.
SelfLocked == worker.pc = "relock"

\* With a worker that is always on time a timer waits at most one granule longer.
NotLate ==
    \A t \in Timer : punctual /\ state = 1 /\ ~SelfLocked /\ timer[t].ms > 0 =>
       timer[t].age <= (Slots(timer[t].ms) + 1) * Granularity

\* The places of the wheel that hold t: slots, and indices in them.
Held(t) ==
    {p \in Slot \X (1 .. Cardinality(Timer)) :
        p[2] <= Len(wheel[p[1]]) /\ wheel[p[1]][p[2]] = t}

\* Between two ticks the wheel holds every timer that is set once, and no other:
\* no timer is lost, and none fires twice.
HeldOnce ==
    lock # "worker" =>
       \A t \in Timer :
          Cardinality(Held(t)) = IF timer[t].ms > 0 THEN 1 ELSE 0

\* Every timer fires unless the wheel is never started, is stopped, or has
\* locked itself out: what the proposer relies on ("timeout event must be
\* handled").
EveryTimerFires ==
    \A t \in Timer : timer[t].ms > 0 /\ state = 1 ~>
       timer[t].ms = 0 \/ stopper # "idle" \/ SelfLocked

=============================================================================
