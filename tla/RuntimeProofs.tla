--------------------------- MODULE RuntimeProofs ---------------------------
(***************************************************************************)
(* The parts of MCRuntime keep, side by side, what each of them keeps      *)
(* alone: a step of the whole is a step of one part, or leaves that part   *)
(* as it was.                                                              *)
(*                                                                         *)
(* The wheel: no timer is lost, doubled, early, or, with a worker that is  *)
(* on time, late, for any timers, any granularity and any timeouts that    *)
(* fit into the wheel.  The time a timer in slot s still has to wait is    *)
(* the worker's sleep and a granule for each slot between the hand and s.  *)
(* Added to the timer's age it is never less than the granules asked for,  *)
(* whatever the worker does, and at most one granule more while the worker *)
(* is on time.                                                             *)
(*                                                                         *)
(* The instances: a call of an instance other than 0 is answered OK only   *)
(* when a majority has accepted, for any instances and any number of       *)
(* acceptors and calls.  The refusals of accept requests are counted in    *)
(* instance 0, without its lock.  What saves the others is that this is    *)
(* the only way in: the counters of an instance other than 0 are written   *)
(* under its own lock, and count nothing but responses to its own call,    *)
(* all of them good.                                                       *)
(*                                                                         *)
(* Pool and connections are proved about in modules of their own; the      *)
(* instance of such a module here has its own copy of the definitions, and *)
(* a first lemma says that the copies are the same.                        *)
(***************************************************************************)
EXTENDS MCRuntime, FiniteSetTheorems, TLAPS

-----------------------------------------------------------------------------
(* The timing wheel.                                                       *)

WheelTypeOK ==
    /\ wheel \in [Slot -> Seq(Timer)] /\ hand \in Slot /\ state \in 0 .. 2
    /\ lock \in {"free", "worker", "stopper"}
    /\ worker \in [pc : {"off", "while", "lock", "notify", "relock", "sleep", "done"},
                   called : Nat]
    /\ rest \in 0 .. Granularity
    /\ stopper \in {"idle", "called", "join", "returned"} /\ punctual \in BOOLEAN
    /\ timer \in [Timer -> [ms : Timeouts \cup {0}, age : Nat]]

\* Who holds the lock, and when the worker sleeps.
Phases ==
    /\ lock = "worker" <=> worker.pc \in {"notify", "relock"}
    /\ lock = "stopper" <=> stopper = "join"
    /\ stopper \in {"join", "returned"} <=> state = 2
    /\ stopper = "called" => state = 1
    /\ state = 0 <=> worker.pc = "off"
    /\ worker.pc = "done" => state = 2
    /\ rest > 0 => worker.pc = "sleep"

\* The notifier of the item i of slot s has been called in this tick.
Fired(s, i) == lock = "worker" /\ s = hand /\ i <= worker.called

Index(s) == 1 .. Len(wheel[s])

\* A timer is in at most one place; it is set unless it has fired in this tick,
\* and a timer that is set is in the wheel.
Places ==
    /\ \A s \in Slot, r \in Slot : \A i \in Index(s), j \in Index(r) :
          wheel[s][i] = wheel[r][j] => s = r /\ i = j
    /\ \A s \in Slot : \A i \in Index(s) : timer[wheel[s][i]].ms > 0 <=> ~Fired(s, i)
    /\ \A t \in Timer : timer[t].ms > 0 => \E s \in Slot : \E i \in Index(s) : wheel[s][i] = t

\* The slots from the hand to s, and what a timer there has waited and will wait.
Distance(s) == IF s >= hand THEN s - hand ELSE s - hand + SlotCount
Wait(s, i) == timer[wheel[s][i]].age + rest + Distance(s) * Granularity
Asked(s, i) == Slots(timer[wheel[s][i]].ms) * Granularity

\* What a timer waits is what was asked for, or more, and not much more if the
\* worker is on time.
Timely ==
    \A s \in Slot : \A i \in Index(s) : ~Fired(s, i) =>
       /\ Wait(s, i) >= Asked(s, i)
       /\ punctual /\ state # 2 /\ ~SelfLocked => Wait(s, i) <= Asked(s, i) + Granularity

WheelInv == WheelAssumption /\ WheelTypeOK /\ Phases /\ Places /\ Timely

\* The wheel has slots, and the granules of a timeout fit into it.
LEMMA SlotFacts ==
    ASSUME WheelAssumption
    PROVE  /\ Granularity \in Nat \ {0} /\ Span \in Nat
           /\ SlotCount \in Nat \ {0} /\ SlotCount * Granularity <= Span
           /\ Slot = 0 .. SlotCount - 1 /\ 0 \in Slot
           /\ \A ms \in Timeouts : Slots(ms) \in 1 .. SlotCount - 1
<1> USE DEF WheelAssumption
<1>1. Granularity \in Nat \ {0} /\ Span \in Nat /\ Granularity <= Span
  OBVIOUS
<1>2. SlotCount \in Nat \ {0} /\ SlotCount * Granularity <= Span
  BY <1>1 DEF SlotCount
<1>3. ASSUME NEW ms \in Timeouts PROVE Slots(ms) \in 1 .. SlotCount - 1
  <2>1. ms \in Nat \ {0} /\ Slots(ms) < SlotCount
    OBVIOUS
  <2>2. ms \div Granularity \in Nat /\ (ms % Granularity = 0 => ms \div Granularity > 0)
    BY <1>1, <2>1
  <2>3. Slots(ms) \in Nat \ {0}
    BY <2>2 DEF Slots
  <2> HIDE DEF WheelAssumption
  <2> QED BY <1>2, <2>1, <2>3
<1> QED BY <1>1, <1>2, <1>3 DEF Slot

\* The remainder of a number of one turn and a part of the next.
LEMMA ModOnce ==
    ASSUME NEW n \in Nat \ {0}, NEW s \in 0 .. n - 1, NEW x \in Nat, x = n + s
    PROVE  x % n = s
OBVIOUS

\* The initial state.
LEMMA InitWheel == ASSUME WheelAssumption, WheelInit PROVE WheelInv
<1>1. 0 \in Slot /\ Granularity \in Nat
  BY SlotFacts
<1>2. WheelTypeOK
  BY <1>1 DEF WheelTypeOK, WheelInit
<1>3. Phases
  BY DEF Phases, WheelInit
<1>4. \A s \in Slot : Index(s) = {}
  BY DEF Index, WheelInit
<1>5. Places /\ Timely
  BY <1>4 DEF Places, Timely, WheelInit
<1> QED BY <1>2, <1>3, <1>5 DEF WheelInv

\* A step of the worker or of Stop that moves neither the hand nor a timer.
Quiet ==
    /\ UNCHANGED <<wheel, hand, rest, timer, punctual>>
    /\ \A s \in Slot : \A i \in Index(s) : Fired(s, i)' <=> Fired(s, i)
    /\ state = 2 => state' = 2
    /\ SelfLocked => SelfLocked'

\* A step that moves neither timers nor the hand leaves everything in its place.
LEMMA QuietKeeps == ASSUME WheelInv, Quiet PROVE Places' /\ Timely'
<1>1. \A s \in Slot : Index(s)' = Index(s)
  BY DEF Quiet, Index
<1>2. Places'
  BY <1>1 DEF WheelInv, Places, Quiet
<1>3. Timely'
  BY <1>1 DEF WheelInv, Timely, Quiet, Wait, Asked, Distance
<1> QED BY <1>2, <1>3

\* Start, Stop, and the worker outside of its notifiers and its ticks.
LEMMA QuietSteps ==
    ASSUME WheelInv,
           \/ Start \/ WorkerWhile \/ WorkerLock \/ NotifierFull \/ WorkerWakes
           \/ StopCalled \/ StopLock \/ StopJoins
           \/ UNCHANGED wheelVars
    PROVE  WheelInv'
<1>1. UNCHANGED <<wheel, hand, rest, timer, punctual>>
  BY DEF Start, WorkerWhile, WorkerLock, NotifierFull, WorkerWakes, StopCalled, StopLock,
     StopJoins, wheelVars
<1>2. Quiet
  <2>1. \A s \in Slot : \A i \in Index(s) : Fired(s, i)' <=> Fired(s, i)
    BY DEF WheelInv, WheelTypeOK, Phases, Fired, Index, Start, WorkerWhile, WorkerLock,
       NotifierFull, WorkerWakes, StopCalled, StopLock, StopJoins, wheelVars
  <2>2. (state = 2 => state' = 2) /\ (SelfLocked => SelfLocked')
    BY DEF WheelInv, WheelTypeOK, Phases, SelfLocked, Start, WorkerWhile, WorkerLock,
       NotifierFull, WorkerWakes, StopCalled, StopLock, StopJoins, wheelVars
  <2> QED BY <1>1, <2>1, <2>2 DEF Quiet
<1>3. WheelTypeOK'
  BY <1>1 DEF WheelInv, WheelTypeOK, Start, WorkerWhile, WorkerLock, NotifierFull, WorkerWakes,
     StopCalled, StopLock, StopJoins, wheelVars
<1>4. Phases'
  <2> USE DEF WheelInv, WheelTypeOK, Phases
  <2>1. CASE Start
    BY <2>1 DEF Start
  <2>2. CASE WorkerWhile \/ WorkerLock
    BY <2>2 DEF WorkerWhile, WorkerLock
  <2>3. CASE NotifierFull \/ WorkerWakes
    BY <2>3 DEF NotifierFull, WorkerWakes
  <2>4. CASE StopCalled
    BY <2>4 DEF StopCalled
  <2>5. CASE StopLock
    BY <2>5 DEF StopLock
  <2>6. CASE StopJoins
    BY <2>6 DEF StopJoins
  <2>7. CASE UNCHANGED wheelVars
    BY <2>7 DEF wheelVars
  <2> QED BY <2>1, <2>2, <2>3, <2>4, <2>5, <2>6, <2>7
<1> QED BY <1>2, <1>3, <1>4, QuietKeeps DEF WheelInv, WheelAssumption

\* A timer is added behind the others of a slot as far away as was asked for.
LEMMA AddKeeps ==
    ASSUME WheelInv, NEW t \in Timer, NEW ms \in Timeouts, AddTimeout(t, ms)
    PROVE  WheelInv'
<1> DEFINE x == Target(ms)
           n == Len(wheel[x]) + 1
<1>1. /\ timer[t].ms = 0 /\ lock = "free"
      /\ wheel' = [wheel EXCEPT ![x] = Append(@, t)]
      /\ timer' = [timer EXCEPT ![t] = [ms |-> ms, age |-> 0]]
      /\ UNCHANGED <<hand, state, lock, worker, rest, stopper, punctual>>
  BY DEF AddTimeout
<1>2. /\ Granularity \in Nat \ {0} /\ SlotCount \in Nat \ {0} /\ Slot = 0 .. SlotCount - 1
      /\ Slots(ms) \in 1 .. SlotCount - 1
  BY SlotFacts DEF WheelInv
<1>3. /\ x \in Slot
      /\ x = IF Slots(ms) + hand < SlotCount THEN Slots(ms) + hand ELSE Slots(ms) + hand - SlotCount
  <2>1. hand \in 0 .. SlotCount - 1
    BY <1>2 DEF WheelInv, WheelTypeOK
  <2>2. CASE Slots(ms) + hand < SlotCount
    BY <1>2, <2>1, <2>2 DEF Target
  <2>3. CASE Slots(ms) + hand >= SlotCount
    <3>1. Slots(ms) + hand - SlotCount \in 0 .. SlotCount - 1
      BY <1>2, <2>1, <2>3
    <3>2. (Slots(ms) + hand) % SlotCount = Slots(ms) + hand - SlotCount
      <4>1. hand \in Nat /\ Slots(ms) \in Nat
        BY <1>2, <2>1
      <4>2. Slots(ms) + hand = SlotCount + (Slots(ms) + hand - SlotCount)
        BY <1>2, <4>1
      <4> QED BY <1>2, <3>1, <4>1, <4>2, ModOnce
    <3> QED BY <1>2, <2>1, <2>3, <3>1, <3>2 DEF Target
  <2> QED BY <1>2, <2>1, <2>2, <2>3
<1>4. Distance(x) = Slots(ms)
  BY <1>2, <1>3, SMTT(30) DEF Distance, WheelInv, WheelTypeOK
<1>5. /\ n \in Nat \ {0} /\ wheel[x] \in Seq(Timer)
      /\ wheel'[x] = Append(wheel[x], t) /\ Len(wheel'[x]) = n /\ wheel'[x][n] = t
      /\ \A i \in 1 .. n - 1 : wheel'[x][i] = wheel[x][i]
      /\ \A s \in Slot : s # x => wheel'[s] = wheel[s]
  BY <1>1, <1>3 DEF WheelInv, WheelTypeOK
<1>6. \A s \in Slot : \A i \in Index(s)' :
         \/ s = x /\ i = n
         \/ i \in Index(s) /\ wheel'[s][i] = wheel[s][i] /\ ~(s = x /\ i = n)
  BY <1>5, SMTT(30) DEF Index
<1>7. \A s \in Slot : \A i \in Index(s) : wheel[s][i] \in Timer /\ wheel[s][i] # t
                                          /\ i \in Index(s)' /\ wheel'[s][i] = wheel[s][i]
  <2>1. \A s \in Slot : \A i \in Index(s) : ~Fired(s, i) /\ wheel[s][i] \in Timer
    BY <1>1 DEF Fired, WheelInv, WheelTypeOK, Index
  <2>2. \A s \in Slot : \A i \in Index(s) : wheel[s][i] # t
    BY <1>1, <2>1 DEF WheelInv, Places
  <2> QED BY <1>5, <2>1, <2>2, SMTT(30) DEF Index
<1>8. \A s \in Slot : \A i \in Index(s)' : ~Fired(s, i)'
  BY <1>1 DEF Fired
<1>9. /\ timer'[t] = [ms |-> ms, age |-> 0] /\ \A u \in Timer : u # t => timer'[u] = timer[u]
      /\ ms > 0 /\ n \in 1 .. Len(wheel'[x])
  <2>1. timer'[t] = [ms |-> ms, age |-> 0] /\ \A u \in Timer : u # t => timer'[u] = timer[u]
    BY <1>1 DEF WheelInv, WheelTypeOK
  <2>2. n \in 1 .. Len(wheel'[x])
    BY <1>5
  <2>3. ms > 0
    BY DEF WheelInv, WheelAssumption
  <2> QED BY <2>1, <2>2, <2>3
<1>10. WheelTypeOK'
  BY <1>1, <1>3, <1>5 DEF WheelInv, WheelTypeOK
<1>11. Phases'
  BY <1>1 DEF WheelInv, Phases
<1>12. Places'
  <2>1. \A s \in Slot, r \in Slot : \A i \in Index(s)', j \in Index(r)' :
           wheel'[s][i] = wheel'[r][j] => s = r /\ i = j
    BY <1>5, <1>6, <1>7 DEF WheelInv, Places
  <2>2. \A s \in Slot : \A i \in Index(s)' : timer'[wheel'[s][i]].ms > 0
    <3> SUFFICES ASSUME NEW s \in Slot, NEW i \in Index(s)' PROVE timer'[wheel'[s][i]].ms > 0
      OBVIOUS
    <3>1. CASE s = x /\ i = n
      BY <1>5, <1>9, <3>1
    <3>2. CASE i \in Index(s) /\ wheel'[s][i] = wheel[s][i]
      <4>1. wheel[s][i] \in Timer /\ wheel[s][i] # t /\ ~Fired(s, i)
        BY <1>1, <1>7, <3>2 DEF Fired
      <4>2. timer[wheel[s][i]].ms > 0
        BY <3>2, <4>1 DEF WheelInv, Places
      <4> QED BY <1>9, <3>2, <4>1, <4>2
    <3> QED BY <1>6, <3>1, <3>2
  <2>3. \A u \in Timer : timer'[u].ms > 0 => \E s \in Slot : \E i \in Index(s)' : wheel'[s][i] = u
    <3> SUFFICES ASSUME NEW u \in Timer, timer'[u].ms > 0
                 PROVE  \E s \in Slot : \E i \in Index(s)' : wheel'[s][i] = u
      OBVIOUS
    <3>1. CASE u = t
      BY <1>3, <1>5, <1>9, <3>1 DEF Index
    <3>2. CASE u # t
      <4>1. timer[u].ms > 0
        BY <1>9, <3>2
      <4>2. PICK s \in Slot : \E i \in Index(s) : wheel[s][i] = u
        BY <4>1 DEF WheelInv, Places
      <4> QED BY <1>7, <4>2
    <3> QED BY <3>1, <3>2
  <2> QED BY <1>8, <2>1, <2>2, <2>3 DEF Places
<1>13. Timely'
  <2> SUFFICES ASSUME NEW s \in Slot, NEW i \in Index(s)'
               PROVE  /\ Wait(s, i)' >= Asked(s, i)'
                      /\ punctual' /\ state' # 2 /\ ~SelfLocked' =>
                            Wait(s, i)' <= Asked(s, i)' + Granularity
    BY DEF Timely
  <2>1. CASE s = x /\ i = n
    <3>1. /\ Wait(s, i)' = 0 + rest + Slots(ms) * Granularity
          /\ Asked(s, i)' = Slots(ms) * Granularity
      BY <1>1, <1>4, <1>5, <1>9, <2>1 DEF Wait, Asked, Distance
    <3>2. rest \in 0 .. Granularity /\ Slots(ms) * Granularity \in Nat
      BY <1>2 DEF WheelInv, WheelTypeOK
    <3> QED BY <1>2, <3>1, <3>2
  <2>2. CASE i \in Index(s) /\ wheel'[s][i] = wheel[s][i]
    <3>1. Wait(s, i)' = Wait(s, i) /\ Asked(s, i)' = Asked(s, i)
      BY <1>1, <1>7, <1>9, <2>2 DEF Wait, Asked, Distance
    <3>2. ~Fired(s, i)
      BY <1>1 DEF Fired
    <3> QED BY <1>1, <2>2, <3>1, <3>2 DEF WheelInv, Timely, SelfLocked
  <2> QED BY <1>6, <2>1, <2>2
<1> QED BY <1>10, <1>11, <1>12, <1>13 DEF WheelInv, WheelAssumption

\* The notifier of the next timer in the slot is called.
LEMMA QueuesKeep == ASSUME WheelInv, NotifierQueues PROVE WheelInv'
<1> DEFINE n == worker.called + 1
           t == wheel[hand][n]
<1>1. /\ worker.pc = "notify" /\ worker.called < Len(wheel[hand])
      /\ worker' = [worker EXCEPT !.called = n]
      /\ timer' = [timer EXCEPT ![t] = [ms |-> 0, age |-> 0]]
      /\ UNCHANGED <<wheel, hand, state, lock, rest, stopper, punctual>>
  BY DEF NotifierQueues, Pending
<1>2. /\ lock = "worker" /\ n \in Index(hand) /\ t \in Timer /\ hand \in Slot
      /\ worker.called \in Nat
  BY <1>1 DEF WheelInv, WheelTypeOK, Phases, Index
<1>3. /\ \A s \in Slot : Index(s)' = Index(s)
      /\ \A s \in Slot : \A i \in Index(s) : Fired(s, i)' <=> Fired(s, i) \/ (s = hand /\ i = n)
  BY <1>1, <1>2 DEF Index, Fired, WheelInv, WheelTypeOK
<1>4. /\ timer'[t].ms = 0 /\ \A u \in Timer : u # t => timer'[u] = timer[u]
  BY <1>1, <1>2 DEF WheelInv, WheelTypeOK
<1>5. \A s \in Slot : \A i \in Index(s) : wheel[s][i] \in Timer
  BY DEF WheelInv, WheelTypeOK, Index
<1>6. \A s \in Slot : \A i \in Index(s) : wheel[s][i] = t <=> s = hand /\ i = n
  BY <1>2 DEF WheelInv, Places
<1>7. WheelTypeOK' /\ Phases'
  <2>1. worker' \in [pc : {"off", "while", "lock", "notify", "relock", "sleep", "done"},
                     called : Nat] /\ worker'.pc = worker.pc
    BY <1>1, <1>2 DEF WheelInv, WheelTypeOK
  <2>2. timer' \in [Timer -> [ms : Timeouts \cup {0}, age : Nat]]
    BY <1>1, <1>2 DEF WheelInv, WheelTypeOK
  <2> QED BY <1>1, <2>1, <2>2 DEF WheelInv, WheelTypeOK, Phases
<1>8. Places'
  <2>1. \A s \in Slot : \A i \in Index(s) : timer'[wheel[s][i]].ms > 0 <=> ~Fired(s, i)'
    BY <1>3, <1>4, <1>5, <1>6 DEF WheelInv, Places
  <2>2. \A u \in Timer : timer'[u].ms > 0 => \E s \in Slot : \E i \in Index(s) : wheel[s][i] = u
    BY <1>4 DEF WheelInv, Places
  <2>3. \A s \in Slot, r \in Slot : \A i \in Index(s), j \in Index(r) :
           wheel[s][i] = wheel[r][j] => s = r /\ i = j
    BY DEF WheelInv, Places
  <2> HIDE DEF n, t
  <2> QED BY <1>1, <1>3, <2>1, <2>2, <2>3 DEF Places
<1>9. Timely'
  <2> SUFFICES ASSUME NEW s \in Slot, NEW i \in Index(s), ~Fired(s, i)'
               PROVE  /\ Wait(s, i)' >= Asked(s, i)'
                      /\ punctual' /\ state' # 2 /\ ~SelfLocked' =>
                            Wait(s, i)' <= Asked(s, i)' + Granularity
    BY <1>3 DEF Timely
  <2>1. ~Fired(s, i) /\ wheel[s][i] # t /\ wheel[s][i] \in Timer
    BY <1>3, <1>5, <1>6
  <2>2. Wait(s, i)' = Wait(s, i) /\ Asked(s, i)' = Asked(s, i)
    BY <1>1, <1>4, <2>1 DEF Wait, Asked, Distance
  <2> QED BY <1>1, <2>1, <2>2 DEF WheelInv, WheelTypeOK, Timely, SelfLocked
<1> QED BY <1>7, <1>8, <1>9 DEF WheelInv, WheelAssumption

\* The slot is cleared and the hand moves on: every other slot is one closer, and
\* the worker sleeps for the granule that is gained.
LEMMA TickKeeps == ASSUME WheelInv, WorkerTick PROVE WheelInv'
<1>1. /\ worker.pc = "notify" /\ worker.called >= Len(wheel[hand])
      /\ wheel' = [wheel EXCEPT ![hand] = <<>>]
      /\ hand' = (hand + 1) % SlotCount
      /\ lock' = "free" /\ rest' = Granularity
      /\ worker' = [worker EXCEPT !.pc = "sleep"]
      /\ UNCHANGED <<state, stopper, timer, punctual>>
  BY DEF WorkerTick, Pending, WheelInv, WheelTypeOK
<1>2. /\ Granularity \in Nat \ {0} /\ SlotCount \in Nat \ {0} /\ Slot = 0 .. SlotCount - 1
      /\ hand \in Slot /\ lock = "worker" /\ rest = 0
  <2>1. lock = "worker" /\ rest = 0
    BY <1>1, SlotFacts DEF WheelInv, WheelTypeOK, Phases
  <2> QED BY <2>1, SlotFacts DEF WheelInv, WheelTypeOK
<1>3. hand' \in Slot /\ hand' = IF hand = SlotCount - 1 THEN 0 ELSE hand + 1
  BY <1>1, <1>2
<1>4. /\ wheel'[hand] = <<>> /\ Index(hand)' = 1 .. Len(wheel'[hand'])
      /\ \A s \in Slot : s # hand => wheel'[s] = wheel[s]
  BY <1>1, <1>2 DEF WheelInv, WheelTypeOK, Index
<1>5. \A s \in Slot : \A i \in Index(s)' : s # hand /\ i \in Index(s) /\ wheel'[s][i] = wheel[s][i]
                                           /\ ~Fired(s, i) /\ ~Fired(s, i)'
  <2> SUFFICES ASSUME NEW s \in Slot, NEW i \in 1 .. Len(wheel'[s])
               PROVE  s # hand /\ i \in Index(s) /\ wheel'[s][i] = wheel[s][i]
                      /\ ~Fired(s, i) /\ ~Fired(s, i)'
    BY DEF Index
  <2>1. s # hand
    <3>1. SUFFICES ASSUME s = hand PROVE FALSE
      OBVIOUS
    <3>2. Len(wheel'[s]) = 0
      BY <1>4, <3>1
    <3> QED BY <3>2
  <2>2. wheel'[s] = wheel[s]
    BY <1>4, <2>1
  <2> QED BY <1>1, <2>1, <2>2 DEF Index, Fired
<1>6. \A s \in Slot : s # hand => Distance(s)' = Distance(s) - 1 /\ Distance(s) \in Nat
  BY <1>2, <1>3 DEF Distance
<1>7. \A i \in Index(hand) : Fired(hand, i)
  BY <1>1, <1>2 DEF Fired, Index, WheelInv, WheelTypeOK
<1>8. WheelTypeOK'
  <2>1. wheel' \in [Slot -> Seq(Timer)]
    BY <1>1, <1>2 DEF WheelInv, WheelTypeOK
  <2>2. worker' \in [pc : {"off", "while", "lock", "notify", "relock", "sleep", "done"},
                     called : Nat]
    BY <1>1 DEF WheelInv, WheelTypeOK
  <2>3. rest' \in 0 .. Granularity
    BY <1>1, <1>2
  <2> QED BY <1>1, <1>3, <2>1, <2>2, <2>3 DEF WheelInv, WheelTypeOK
<1>9. Phases'
  BY <1>1, <1>2 DEF WheelInv, WheelTypeOK, Phases
<1>10. Places'
  <2>1. \A s \in Slot, r \in Slot : \A i \in Index(s)', j \in Index(r)' :
           wheel'[s][i] = wheel'[r][j] => s = r /\ i = j
    BY <1>5 DEF WheelInv, Places
  <2>2. \A s \in Slot : \A i \in Index(s)' : timer'[wheel'[s][i]].ms > 0 <=> ~Fired(s, i)'
    BY <1>1, <1>5 DEF WheelInv, Places
  <2>3. ASSUME NEW t \in Timer, timer'[t].ms > 0
        PROVE  \E s \in Slot : \E i \in Index(s)' : wheel'[s][i] = t
    <3>1. PICK s \in Slot : \E i \in Index(s) : wheel[s][i] = t
      BY <1>1, <2>3 DEF WheelInv, Places
    <3>2. PICK i \in Index(s) : wheel[s][i] = t
      BY <3>1
    <3>3. s # hand
      BY <1>1, <1>7, <2>3, <3>2 DEF WheelInv, Places
    <3> QED BY <1>4, <3>2, <3>3 DEF Index
  <2> QED BY <2>1, <2>2, <2>3 DEF Places
<1>11. Timely'
  <2> SUFFICES ASSUME NEW s \in Slot, NEW i \in Index(s)'
               PROVE  /\ Wait(s, i)' >= Asked(s, i)'
                      /\ punctual' /\ state' # 2 /\ ~SelfLocked' =>
                            Wait(s, i)' <= Asked(s, i)' + Granularity
    BY DEF Timely
  <2>1. /\ i \in Index(s) /\ wheel'[s][i] = wheel[s][i] /\ ~Fired(s, i) /\ s # hand
        /\ wheel[s][i] \in Timer
    BY <1>5 DEF WheelInv, WheelTypeOK, Index
  <2>2. Wait(s, i)' = Wait(s, i) /\ Asked(s, i)' = Asked(s, i)
    <3>1. /\ timer[wheel[s][i]].age \in Nat /\ Distance(s)' = Distance(s) - 1
          /\ Distance(s) \in Nat /\ timer' = timer
      BY <1>1, <1>6, <2>1 DEF WheelInv, WheelTypeOK
    <3>2. (Distance(s) - 1) * Granularity = Distance(s) * Granularity - Granularity
      BY <1>2, <3>1
    <3>3. Distance(s) * Granularity \in Nat
      BY <1>2, <3>1
    <3>4. Wait(s, i)' = timer[wheel[s][i]].age + Granularity + (Distance(s) - 1) * Granularity
      BY <1>1, <2>1, <3>1 DEF Wait
    <3>5. Wait(s, i) = timer[wheel[s][i]].age + 0 + Distance(s) * Granularity
      BY <1>2 DEF Wait
    <3>6. Asked(s, i)' = Asked(s, i)
      BY <2>1, <3>1 DEF Asked
    <3> QED BY <1>2, <3>1, <3>2, <3>3, <3>4, <3>5, <3>6
  <2> QED BY <1>1, <2>1, <2>2 DEF WheelInv, Timely, SelfLocked
<1> QED BY <1>8, <1>9, <1>10, <1>11 DEF WheelInv, WheelAssumption

\* A millisecond passes: it is taken from the sleep and added to the ages.
LEMMA PassKeeps == ASSUME WheelInv, Pass PROVE WheelInv'
<1>1. /\ punctual => ~WorkerReady
      /\ rest' = IF rest > 0 THEN rest - 1 ELSE 0
      /\ timer' = [t \in Timer |->
            IF state > 0 /\ timer[t].ms > 0 /\ timer[t].age < MaxAge
            THEN [timer[t] EXCEPT !.age = @ + 1] ELSE timer[t]]
      /\ UNCHANGED <<wheel, hand, state, lock, worker, stopper, punctual>>
  BY DEF Pass
<1>2. /\ Granularity \in Nat \ {0} /\ SlotCount \in Nat \ {0} /\ Slot = 0 .. SlotCount - 1
      /\ Span \in Nat /\ SlotCount * Granularity <= Span /\ rest \in Nat /\ state \in 0 .. 2
      /\ \A ms \in Timeouts : Slots(ms) \in 1 .. SlotCount - 1
  BY SlotFacts DEF WheelInv, WheelTypeOK
<1>3. \A s \in Slot : \A i \in Index(s) : wheel[s][i] \in Timer
  BY DEF WheelInv, WheelTypeOK, Index
<1>4. \A t \in Timer : timer'[t].ms = timer[t].ms /\ timer[t].age \in Nat /\ timer'[t].age \in Nat
                       /\ timer[t].ms \in Timeouts \cup {0}
  BY <1>1 DEF WheelInv, WheelTypeOK
<1>5. /\ \A s \in Slot : Index(s)' = Index(s)
      /\ \A s \in Slot : \A i \in Index(s) : Fired(s, i)' <=> Fired(s, i)
  BY <1>1 DEF Index, Fired
<1>6. WheelTypeOK'
  <2>1. timer' \in [Timer -> [ms : Timeouts \cup {0}, age : Nat]]
    <3>1. ASSUME NEW t \in Timer
          PROVE  [timer[t] EXCEPT !.age = @ + 1] \in [ms : Timeouts \cup {0}, age : Nat]
      <4>1. timer[t] \in [ms : Timeouts \cup {0}, age : Nat] /\ timer[t].age + 1 \in Nat
        BY DEF WheelInv, WheelTypeOK
      <4> QED BY <4>1
    <3> QED BY <1>1, <3>1 DEF WheelInv, WheelTypeOK
  <2>2. rest' \in 0 .. Granularity
    BY <1>1, <1>2 DEF WheelInv, WheelTypeOK
  <2> QED BY <1>1, <2>1, <2>2 DEF WheelInv, WheelTypeOK
<1>7. Phases'
  <2>1. rest' > 0 => rest > 0
    BY <1>1, <1>2
  <2> QED BY <1>1, <2>1 DEF WheelInv, Phases
<1>8. Places'
  BY <1>1, <1>3, <1>4, <1>5 DEF WheelInv, Places
<1>9. Timely'
  <2> SUFFICES ASSUME NEW s \in Slot, NEW i \in Index(s), ~Fired(s, i)
               PROVE  /\ Wait(s, i)' >= Asked(s, i)'
                      /\ punctual' /\ state' # 2 /\ ~SelfLocked' =>
                            Wait(s, i)' <= Asked(s, i)' + Granularity
    BY <1>5 DEF Timely
  <2> DEFINE t == wheel[s][i]
             D == Distance(s) * Granularity
  <2>1. t \in Timer /\ timer[t].ms > 0 /\ timer[t].age \in Nat /\ timer[t].ms \in Timeouts
        /\ timer'[t].age = IF state > 0 /\ timer[t].age < MaxAge THEN timer[t].age + 1
                                                                 ELSE timer[t].age
    <3>1. t \in Timer /\ timer[t].ms > 0
      BY <1>3 DEF WheelInv, Places
    <3>2. timer[t].age \in Nat /\ timer[t].ms \in Timeouts
      BY <1>4, <3>1
    <3>3. timer'[t].age = IF state > 0 /\ timer[t].age < MaxAge THEN timer[t].age + 1
                                                                ELSE timer[t].age
      BY <1>1, <3>1 DEF WheelInv, WheelTypeOK
    <3> QED BY <3>1, <3>2, <3>3
  <2>2. D \in Nat
    <3>1. Distance(s) \in Nat
      BY <1>2 DEF Distance, WheelInv, WheelTypeOK
    <3> QED BY <1>2, <3>1
  <2>3. /\ Wait(s, i) = timer[t].age + rest + D /\ Wait(s, i)' = timer'[t].age + rest' + D
        /\ Asked(s, i)' = Asked(s, i)
    BY <1>1, <1>4, <2>1 DEF Wait, Asked, Distance
  <2>4. Asked(s, i) \in Nat /\ Asked(s, i) <= Span
    <3> DEFINE k == Slots(timer[t].ms)
    <3>1. k \in 1 .. SlotCount - 1 /\ k \in Nat
      BY <1>2, <2>1
    <3> HIDE DEF k
    <3>2. k * Granularity <= SlotCount * Granularity /\ k * Granularity \in Nat
      BY <1>2, <3>1
    <3> QED BY <1>2, <3>2 DEF Asked, k
  <2>5. MaxAge \in Nat /\ MaxAge >= Span
    BY <1>2 DEF MaxAge
  <2>6. /\ Wait(s, i) >= Asked(s, i)
        /\ punctual /\ state # 2 /\ ~SelfLocked => Wait(s, i) <= Asked(s, i) + Granularity
    BY DEF WheelInv, Timely
  <2>7. state = 0 => rest = 0
    BY <1>2 DEF WheelInv, Phases
  <2>8. punctual /\ state = 1 /\ ~SelfLocked => rest > 0
    BY <1>1, <1>2 DEF WheelInv, WheelTypeOK, Phases, WorkerReady, SelfLocked
  <2> DEFINE age == timer[t].age
             newAge == timer'[t].age
             asked == Asked(s, i)
  <2>9. /\ age \in Nat /\ rest \in Nat /\ rest' = (IF rest > 0 THEN rest - 1 ELSE 0)
        /\ newAge = (IF state > 0 /\ age < MaxAge THEN age + 1 ELSE age)
        /\ age + rest + D >= asked /\ asked \in Nat /\ asked <= Span /\ Span \in Nat
        /\ punctual /\ state # 2 /\ ~SelfLocked => age + rest + D <= asked + Granularity
        /\ state \in 0 .. 2 /\ Granularity \in Nat
    BY <1>1, <1>2, <2>1, <2>3, <2>4, <2>6
  <2>10. newAge \in Nat /\ rest' \in Nat
    BY <2>9
  <2> HIDE DEF t, D, age, newAge, asked
  <2>11. newAge + rest' + D >= asked
    <3>1. CASE age < MaxAge /\ state > 0
      BY <2>2, <2>9, <3>1
    <3>2. CASE age >= MaxAge
      BY <2>2, <2>5, <2>9, <2>10, <3>2
    <3>3. CASE state = 0
      BY <2>2, <2>5, <2>7, <2>9, <3>3
    <3> QED BY <2>5, <2>9, <3>1, <3>2, <3>3
  <2>12. ASSUME punctual, state # 2, ~SelfLocked
         PROVE  newAge + rest' + D <= asked + Granularity
    <3>1. newAge <= age + 1
      BY <2>5, <2>9
    <3>2. CASE state = 0
      BY <2>2, <2>7, <2>9, <2>12, <3>2
    <3>3. CASE state = 1
      BY <2>2, <2>8, <2>9, <2>10, <2>12, <3>1, <3>3
    <3> QED BY <2>9, <2>12, <3>2, <3>3
  <2> USE DEF newAge, asked, D, t
  <2> QED BY <1>1, <2>3, <2>11, <2>12 DEF SelfLocked
<1> QED BY <1>6, <1>7, <1>8, <1>9 DEF WheelInv, WheelAssumption

\* Every step keeps the invariant.
LEMMA NextKeepsWheel == ASSUME WheelInv, [WheelNext]_wheelVars PROVE WheelInv'
<1>1. CASE Start \/ StopCalled \/ StopLock \/ StopJoins \/ WorkerLock \/ UNCHANGED wheelVars
  BY <1>1, QuietSteps
<1>2. CASE WorkerRuns
  BY <1>2, QuietSteps, QueuesKeep, TickKeeps DEF WorkerRuns
<1>3. CASE Pass
  BY <1>3, PassKeeps
<1>4. CASE \E t \in Timer, ms \in Timeouts : AddTimeout(t, ms)
  BY <1>4, AddKeeps
<1> QED BY <1>1, <1>2, <1>3, <1>4 DEF WheelNext

\* A slot holds no more timers than there are.
LEMMA SlotsFit ==
    ASSUME WheelInv, NEW s \in Slot
    PROVE  /\ Cardinality(Timer) \in Nat /\ wheel[s] \in Seq(Timer)
           /\ Len(wheel[s]) <= Cardinality(Timer)
<1>1. wheel[s] \in Seq(Timer) /\ IsFiniteSet(Timer) /\ Cardinality(Timer) \in Nat
  BY FS_CardinalityType DEF WheelInv, WheelTypeOK, WheelAssumption
<1>2. wheel[s] \in Injection(1 .. Len(wheel[s]), Timer)
  <2>1. \A i \in 1 .. Len(wheel[s]), j \in 1 .. Len(wheel[s]) :
           wheel[s][i] = wheel[s][j] => i = j
    BY DEF WheelInv, Places, Index
  <2> QED BY <1>1, <2>1 DEF Injection, IsInjective
<1>3. Len(wheel[s]) \in Nat /\ Cardinality(1 .. Len(wheel[s])) = Len(wheel[s])
  <2>1. Len(wheel[s]) \in Nat
    BY <1>1
  <2>2. /\ Cardinality(1 .. Len(wheel[s])) =
              IF 1 > Len(wheel[s]) THEN 0 ELSE Len(wheel[s]) - 1 + 1
    BY SMTT(30), <2>1, FS_Interval
  <2> QED BY <2>1, <2>2
<1>4. Cardinality(1 .. Len(wheel[s])) <= Cardinality(Timer)
  BY <1>1, <1>2, FS_Injection
<1> QED BY <1>1, <1>3, <1>4

\* Between two ticks a timer that is set is in one place, and no other is in any.
LEMMA InvHeldOnce == WheelInv => HeldOnce
<1> SUFFICES ASSUME WheelInv, lock # "worker", NEW t \in Timer
             PROVE  Cardinality(Held(t)) = IF timer[t].ms > 0 THEN 1 ELSE 0
  BY DEF HeldOnce
<1>1. \A s \in Slot : \A i \in Index(s) : timer[wheel[s][i]].ms > 0
  BY DEF WheelInv, Places, Fired
<1>2. ASSUME NEW p \in Held(t)
      PROVE  p[1] \in Slot /\ p[2] \in Index(p[1]) /\ wheel[p[1]][p[2]] = t /\ p = <<p[1], p[2]>>
  <2>1. /\ p \in Slot \X (1 .. Cardinality(Timer))
        /\ p[2] <= Len(wheel[p[1]]) /\ wheel[p[1]][p[2]] = t
    BY <1>2 DEF Held
  <2> QED BY <2>1, SlotsFit DEF Index
<1>3. CASE timer[t].ms > 0
  <2>1. PICK s \in Slot : \E i \in Index(s) : wheel[s][i] = t
    BY <1>3 DEF WheelInv, Places
  <2>2. PICK i \in Index(s) : wheel[s][i] = t
    BY <2>1
  <2>3. <<s, i>> \in Held(t)
    BY <2>2, SlotsFit DEF Held, Index
  <2>4. \A p \in Held(t) : p = <<s, i>>
    BY <1>2, <2>2 DEF WheelInv, Places
  <2>5. Held(t) = {<<s, i>>}
    BY <2>3, <2>4
  <2> QED BY <1>3, <2>5, FS_Singleton
<1>4. CASE ~(timer[t].ms > 0)
  <2>1. Held(t) = {}
    BY <1>1, <1>2, <1>4
  <2> QED BY <1>4, <2>1, FS_EmptySet
<1> QED BY <1>3, <1>4

\* A timer in the wheel has waited for no more than what its slot allows.
LEMMA InvNotLate == WheelInv => NotLate
<1> SUFFICES ASSUME WheelInv, NEW t \in Timer, punctual, state = 1, ~SelfLocked, timer[t].ms > 0
             PROVE  timer[t].age <= (Slots(timer[t].ms) + 1) * Granularity
  BY DEF NotLate
<1>1. PICK s \in Slot : \E i \in Index(s) : wheel[s][i] = t
  BY DEF WheelInv, Places
<1>2. PICK i \in Index(s) : wheel[s][i] = t
  BY <1>1
<1>3. Wait(s, i) <= Asked(s, i) + Granularity
  <2>1. ~Fired(s, i)
    BY <1>2 DEF WheelInv, Places
  <2> QED BY <2>1 DEF WheelInv, Timely
<1>4. /\ Granularity \in Nat /\ Slots(timer[t].ms) \in Nat /\ Distance(s) \in Nat
      /\ rest \in Nat /\ timer[t].age \in Nat
  <2>1. SlotCount \in Nat \ {0} /\ Slot = 0 .. SlotCount - 1 /\ hand \in Slot /\ Granularity \in Nat
    BY SlotFacts DEF WheelInv, WheelTypeOK
  <2>2. Distance(s) \in Nat
    BY <2>1 DEF Distance
  <2>3. timer[t].ms \in Timeouts /\ timer[t].age \in Nat /\ rest \in Nat
    BY <2>1 DEF WheelInv, WheelTypeOK
  <2>4. Slots(timer[t].ms) \in Nat
    BY <2>3, SlotFacts DEF WheelInv
  <2> QED BY <2>1, <2>2, <2>3, <2>4
<1>5. Distance(s) * Granularity \in Nat
  BY <1>4
<1>6. (Slots(timer[t].ms) + 1) * Granularity = Slots(timer[t].ms) * Granularity + Granularity
  BY <1>4
<1>7. Slots(timer[t].ms) * Granularity \in Nat
  BY <1>4
<1> QED BY <1>2, <1>3, <1>4, <1>5, <1>6, <1>7 DEF Wait, Asked

\* A notifier is called for a timer under the hand, when the worker has slept.
LEMMA StepNotEarly ==
    ASSUME WheelInv, [WheelNext]_wheelVars
    PROVE  [\A t \in Timer : timer[t].ms > 0 /\ timer'[t].ms = 0 =>
               timer[t].age >= Slots(timer[t].ms) * Granularity]_wheelVars
<1> SUFFICES ASSUME WheelNext, NEW t \in Timer, timer[t].ms > 0, timer'[t].ms = 0
             PROVE  timer[t].age >= Slots(timer[t].ms) * Granularity
  OBVIOUS
<1>1. CASE \E u \in Timer, ms \in Timeouts : AddTimeout(u, ms)
  <2>1. PICK u \in Timer : \E ms \in Timeouts : AddTimeout(u, ms)
    BY <1>1
  <2>2. timer'[t] = timer[t]
    BY <2>1 DEF AddTimeout, WheelInv, WheelTypeOK
  <2> QED BY <2>2
<1>2. CASE NotifierQueues
  <2> DEFINE i == worker.called + 1
  <2>1. t = wheel[hand][i] /\ i \in Index(hand) /\ hand \in Slot /\ worker.pc = "notify"
    BY <1>2 DEF NotifierQueues, Pending, WheelInv, WheelTypeOK, Index
  <2>2. ~Fired(hand, i) /\ rest = 0
    BY <2>1, SlotFacts DEF Fired, WheelInv, WheelTypeOK, Phases
  <2>3. Wait(hand, i) >= Asked(hand, i)
    BY <2>1, <2>2 DEF WheelInv, Timely
  <2>4. Distance(hand) = 0 /\ Granularity \in Nat /\ timer[t].age \in Nat
    BY <2>1, SlotFacts DEF Distance, WheelInv, WheelTypeOK
  <2>5. Wait(hand, i) = timer[t].age
    BY <2>1, <2>2, <2>4 DEF Wait
  <2> QED BY <2>1, <2>3, <2>5 DEF Asked
<1>3. CASE Pass
  BY <1>3 DEF Pass
<1>4. CASE timer' = timer
  BY <1>4
<1>5. \/ timer' = timer \/ Pass \/ NotifierQueues
      \/ \E u \in Timer, ms \in Timeouts : AddTimeout(u, ms)
  BY DEF WheelNext, WorkerRuns, Start, WorkerWhile, WorkerLock, NotifierFull, WorkerTick, WorkerWakes,
     StopCalled, StopLock, StopJoins
<1> QED BY <1>1, <1>2, <1>3, <1>4, <1>5

\* The wheel runs by its own specification.
LEMMA WheelRuns == Spec => WheelInit /\ [][WheelNext]_wheelVars
<1>1. Init => WheelInit
  BY DEF Init, PartsInit
<1>2. [Next]_vars => [WheelNext]_wheelVars
  BY DEF Next, vars, PartsNext, partVars
<1> QED BY <1>1, <1>2, PTL DEF Spec

\* No timer is lost, doubled or early, nor late if the worker is on time.
THEOREM WheelHolds == Spec => []WheelInv
<1>1. WheelInit => WheelInv
  BY WheelIsSound, InitWheel
<1>2. WheelInv /\ [WheelNext]_wheelVars => WheelInv'
  BY NextKeepsWheel
<1> QED BY <1>1, <1>2, WheelRuns, PTL

\* Between two ticks the wheel holds every timer that is set once, and no other.
THEOREM HeldOnceHolds == Spec => []HeldOnce
BY InvHeldOnce, WheelHolds, PTL

\* With a worker that is always on time no timer waits more than a granule longer.
THEOREM NotLateHolds == Spec => []NotLate
BY InvNotLate, WheelHolds, PTL

\* A timer fires no earlier than its timeout, rounded up to granules, however
\* late the worker is and wherever the hand was when it was added.
THEOREM NotEarlyHolds == Spec => NotEarly
<1>1. WheelInv /\ [WheelNext]_wheelVars =>
        [\A t \in Timer : timer[t].ms > 0 /\ timer'[t].ms = 0 =>
            timer[t].age >= Slots(timer[t].ms) * Granularity]_wheelVars
  BY StepNotEarly
<1> QED BY <1>1, WheelRuns, WheelHolds, PTL DEF NotEarly

-----------------------------------------------------------------------------
(* The instances.                                                          *)

Others == Instance \ {0}

State == [busy : BOOLEAN, term : Nat, phase : {"prepare", "accept"}, count : Nat, valid : Nat,
          answered : BOOLEAN]
Thread == [pc : {"idle", "load", "store", "judge", "reset", "answer"}, to : Instance,
           rsp : {"none", "promised", "accepted", "lag"}, reg : Nat]
Response == [inst : Instance, term : Nat, phase : {"prepare", "accept"},
             rsp : {"promised", "accepted", "lag"}, n : Nat]

InstTypeOK ==
    /\ st \in [Instance -> State] /\ thr \in [Instance -> Thread]
    /\ taken \in SUBSET Response /\ IsFiniteSet(taken)

\* The responses of m's kind: those numbers up to theirs are taken.
Kind(m) == {q \in taken : q.inst = m.inst /\ q.term = m.term /\ q.phase = m.phase /\ q.rsp = m.rsp}
Numbered == \A m \in taken : m.n <= Cardinality(Kind(m))

\* A handler works on its own instance or, for a refusal, on instance 0.
OwnOrZero(i) ==
    thr[i].to # 0 =>
       /\ thr[i].to = i /\ thr[i].rsp # "lag"
       /\ thr[i].pc \in {"load", "store", "judge"} =>
             thr[i].rsp = IF st[i].phase = "prepare" THEN "promised" ELSE "accepted"

\* The handler of i has taken a response for i that is not yet among the valid.
Counting(i) == thr[i].to = i /\ thr[i].pc \in {"load", "store", "judge"}

CallOf(i) == [inst |-> i, term |-> st[i].term]

\* All responses counted in i are good, and in the accept phase each of them is
\* an acceptance of the call.
CountRight(i) ==
    /\ st[i].count = st[i].valid + (IF thr[i].to = i /\ thr[i].pc = "judge" THEN 1 ELSE 0)
    /\ thr[i].to = i /\ thr[i].pc = "store" => thr[i].reg = st[i].count
    /\ st[i].phase = "accept" =>
          st[i].valid + (IF Counting(i) THEN 1 ELSE 0) <= Cardinality(Acceptances(CallOf(i)))
    /\ thr[i].to = i /\ thr[i].pc \in {"reset", "answer"} => MajorityAccepted(CallOf(i))

InstInv ==
    /\ InstancesAssumption /\ InstTypeOK /\ Numbered /\ OthersOk
    /\ \A i \in Instance : OwnOrZero(i)
    /\ \A i \in Others : CountRight(i)

\* There is an acceptor, so a majority is no more than all of them.
LEMMA MajorityFits ==
    ASSUME InstancesAssumption
    PROVE  Majority \in Nat /\ Majority <= NumAcceptors
BY DEF InstancesAssumption, Majority

\* The acceptances of a call are finitely many.
LEMMA AcceptancesCounted ==
    ASSUME InstTypeOK, NEW c
    PROVE  IsFiniteSet(Acceptances(c)) /\ Cardinality(Acceptances(c)) \in Nat
<1>1. Acceptances(c) \subseteq taken
  BY DEF Acceptances
<1> QED BY <1>1, FS_Subset, FS_CardinalityType DEF InstTypeOK

\* The initial state.
LEMMA InitInst ==
    ASSUME InstancesAssumption, InstInit
    PROVE  InstInv
<1>1. InstTypeOK
  BY FS_EmptySet DEF InstancesAssumption, InstInit, Idle, InstTypeOK, State, Thread
<1>2. Numbered /\ OthersOk
  BY DEF InstInit, Numbered, OthersOk
<1>3. \A i \in Instance : OwnOrZero(i)
  BY DEF InstInit, Idle, OwnOrZero
<1>4. ASSUME NEW i \in Others PROVE CountRight(i)
  <2>1. Cardinality(Acceptances(CallOf(i))) \in Nat
    BY <1>1, AcceptancesCounted
  <2> QED BY <2>1 DEF InstInit, Idle, Others, CountRight, Counting
<1> QED BY <1>1, <1>2, <1>3, <1>4 DEF InstInv

\* What is taken is never given back: acceptances only become more.
LEMMA AcceptancesGrow ==
    ASSUME InstTypeOK, InstTypeOK', taken \subseteq taken', NEW c
    PROVE  /\ Cardinality(Acceptances(c)) <= Cardinality(Acceptances(c)')
           /\ Cardinality(Acceptances(c)') \in Nat
           /\ Cardinality(Acceptances(c)) \in Nat
<1>1. Acceptances(c) \subseteq Acceptances(c)' /\ Acceptances(c)' \subseteq taken'
  BY DEF Acceptances
<1>2. IsFiniteSet(Acceptances(c)')
  BY <1>1, FS_Subset DEF InstTypeOK
<1> QED BY <1>1, <1>2, FS_Subset, FS_CardinalityType

\* An instance whose handler and counters a step leaves alone.
LEMMA LeftAlone ==
    ASSUME InstInv, InstTypeOK', taken \subseteq taken', NEW i \in Others,
           thr'[i] = thr[i], st'[i].count = st[i].count, st'[i].valid = st[i].valid,
           st'[i].phase = st[i].phase, st'[i].term = st[i].term
    PROVE  CountRight(i)'
<1> PICK c : c = CallOf(i)
  OBVIOUS
<1>1. CallOf(i)' = c
  BY DEF CallOf
<1>2. /\ Cardinality(Acceptances(c)) <= Cardinality(Acceptances(c)')
      /\ Cardinality(Acceptances(c)') \in Nat /\ Cardinality(Acceptances(c)) \in Nat
  BY AcceptancesGrow DEF InstInv
<1>3. Acceptances(CallOf(i))' = Acceptances(c)'
  BY <1>1 DEF Acceptances
<1>4. MajorityAccepted(c) => MajorityAccepted(CallOf(i))'
  BY <1>2, <1>3, MajorityFits DEF InstInv, MajorityAccepted
<1>5. st[i].valid \in Nat
  BY DEF InstInv, InstTypeOK, State, Others
<1>6. CountRight(i)
  BY DEF InstInv
<1> QED BY <1>2, <1>3, <1>4, <1>5, <1>6 DEF CountRight, Counting

\* The answers given stay right.
LEMMA AnswersStay ==
    ASSUME InstInv, InstTypeOK', taken \subseteq taken', answers' = answers
    PROVE  OthersOk'
<1> SUFFICES ASSUME NEW c \in answers, c.code = "OK", c.inst # 0
             PROVE  MajorityAccepted(c)'
  BY DEF OthersOk
<1>1. MajorityAccepted(c)
  BY DEF InstInv, OthersOk
<1>2. /\ Cardinality(Acceptances(c)) <= Cardinality(Acceptances(c)')
      /\ Cardinality(Acceptances(c)') \in Nat /\ Cardinality(Acceptances(c)) \in Nat
  BY AcceptancesGrow DEF InstInv
<1> QED BY <1>1, <1>2, MajorityFits DEF InstInv, MajorityAccepted

\* Responses keep their numbers while nothing is taken.
LEMMA NumbersStay ==
    ASSUME Numbered, taken' = taken
    PROVE  Numbered'
BY DEF Numbered, Kind

\* A call starts: the counters begin anew and no handler runs in the instance.
LEMMA ProposeKeeps ==
    ASSUME InstInv, NEW i \in Instance, ProposeAsync(i)
    PROVE  InstInv'
<1>1. PICK phase \in {"prepare", "accept"} :
        st' = [st EXCEPT ![i] = [WaitState(st[i], phase) EXCEPT
                    !.busy = TRUE, !.term = @ + 1, !.answered = FALSE]]
  BY DEF ProposeAsync
<1>2. /\ thr' = thr /\ taken' = taken /\ answers' = answers /\ thr[i].pc = "idle"
      /\ st \in [Instance -> State] /\ thr \in [Instance -> Thread]
  BY DEF ProposeAsync, Unlocked, InstInv, InstTypeOK
<1>3. /\ st' \in [Instance -> State]
      /\ st'[i].count = 0 /\ st'[i].valid = 0
      /\ \A j \in Instance \ {i} : st'[j] = st[j]
  <2> DEFINE w == WaitState(st[i], phase)
             n == [w EXCEPT !.busy = TRUE, !.term = w.term + 1, !.answered = FALSE]
  <2>1. w \in State /\ w.count = 0 /\ w.valid = 0
    BY <1>2 DEF WaitState, State
  <2>2. n \in State /\ n.count = 0 /\ n.valid = 0
    <3>1. w.term + 1 \in Nat
      BY <2>1 DEF State
    <3> HIDE DEF w
    <3> QED BY <2>1, <3>1 DEF State
  <2>3. st' = [st EXCEPT ![i] = n]
    BY <1>1
  <2> HIDE DEF n
  <2> QED BY <2>2, <2>3, <1>2
<1>4. InstTypeOK'
  BY <1>2, <1>3 DEF InstInv, InstTypeOK
<1>5. Numbered' /\ OthersOk'
  BY <1>2, <1>4, NumbersStay, AnswersStay DEF InstInv
<1>6. \A j \in Instance : OwnOrZero(j)'
  BY <1>2, <1>3 DEF InstInv, OwnOrZero
<1>7. ASSUME NEW j \in Others PROVE CountRight(j)'
  <2>1. CASE j = i
    <3>1. Cardinality(Acceptances(CallOf(j)))' \in Nat
      <4> PICK c : c = CallOf(j)'
        OBVIOUS
      <4> QED BY <1>4, <1>2, AcceptancesGrow DEF InstInv, Acceptances
    <3> QED BY <2>1, <3>1, <1>2, <1>3 DEF CountRight, Counting
  <2>2. CASE j # i
    BY <2>2, <1>2, <1>3, <1>4, LeftAlone DEF Others
  <2> QED BY <2>1, <2>2
<1> QED BY <1>4, <1>5, <1>6, <1>7 DEF InstInv, InstancesAssumption

\* The response taken is a new one.
LEMMA NewResponse ==
    ASSUME InstTypeOK, Numbered, NEW r \in Response, r.n = Cardinality(Kind(r)) + 1,
           taken' = taken \cup {r}
    PROVE  r \notin taken /\ Numbered' /\ IsFiniteSet(taken')
<1>1. \A m : /\ IsFiniteSet(Kind(m)) /\ Cardinality(Kind(m)) \in Nat
             /\ Kind(m) \subseteq Kind(m)' /\ Kind(m)' \subseteq taken'
  BY FS_Subset, FS_CardinalityType DEF InstTypeOK, Kind
<1>2. r \notin taken
  BY <1>1 DEF Numbered
<1>3. IsFiniteSet(taken')
  BY FS_AddElement DEF InstTypeOK
<1>4. \A m : /\ Cardinality(Kind(m)) <= Cardinality(Kind(m)')
             /\ Cardinality(Kind(m)') \in Nat
  BY <1>1, <1>3, FS_Subset, FS_CardinalityType
<1>5. Kind(r)' = Kind(r) \cup {r} /\ r \notin Kind(r)
  BY <1>2 DEF Kind
<1>6. Cardinality(Kind(r)') = Cardinality(Kind(r)) + 1
  BY <1>1, <1>5, FS_AddElement
<1>7. ASSUME NEW m \in taken' PROVE m.n <= Cardinality(Kind(m)')
  <2>1. CASE m \in taken
    BY <2>1, <1>1, <1>4 DEF Numbered, InstTypeOK, Response
  <2>2. CASE m = r
    BY <2>2, <1>1, <1>6
  <2> QED BY <2>1, <2>2, <1>7
<1> QED BY <1>2, <1>3, <1>7 DEF Numbered, Kind

\* A response is taken, for the instance that asked or, a refusal, for 0.
LEMMA HandleKeeps ==
    ASSUME InstInv, NEW i \in Instance, NEW rsp, HandleRpcResponse(i, rsp)
    PROVE  InstInv'
<1> DEFINE heard == {m \in taken : m.inst = i /\ m.term = st[i].term /\ m.phase = st[i].phase}
           number == Cardinality({m \in heard : m.rsp = rsp}) + 1
           r == [inst |-> i, term |-> st[i].term, phase |-> st[i].phase, rsp |-> rsp,
                 n |-> number]
           j == PinstOf(i, rsp)
<1>1. /\ taken' = taken \cup {r} /\ st' = st /\ answers' = answers
      /\ thr' = IF st[j].busy
                THEN [thr EXCEPT ![i] = [Idle EXCEPT !.pc = "load", !.to = j, !.rsp = rsp]]
                ELSE thr
      /\ thr[i].pc = "idle" /\ rsp \in Answers(st[i].phase)
  BY DEF HandleRpcResponse, Unlocked
<1>2. /\ st[i] \in State /\ i \in Nat /\ 0 \in Instance /\ j \in Instance
      /\ thr \in [Instance -> Thread] /\ taken \in SUBSET Response /\ IsFiniteSet(taken)
  BY DEF InstInv, InstancesAssumption, InstTypeOK, PinstOf
<1>3. rsp \in {"promised", "accepted", "lag"}
  BY <1>1 DEF Answers
<1>4. {m \in heard : m.rsp = rsp} = Kind(r)
  BY DEF Kind
<1>5. IsFiniteSet(Kind(r)) /\ Cardinality(Kind(r)) \in Nat
  BY <1>2, FS_Subset, FS_CardinalityType DEF Kind
<1>6. r \in Response /\ r.n = Cardinality(Kind(r)) + 1
  <2>1. number = Cardinality(Kind(r)) + 1
    BY <1>4
  <2>2. number \in Nat
    BY <2>1, <1>5
  <2> HIDE DEF number
  <2>3. r \in Response
    BY <2>2, <1>2, <1>3 DEF Response, State
  <2> QED BY <2>1, <2>3
<1>7. r.inst = i /\ r.term = st[i].term /\ r.phase = st[i].phase /\ r.rsp = rsp
  OBVIOUS
<1> HIDE DEF r, j
<1>8. r \notin taken /\ Numbered' /\ IsFiniteSet(taken')
  BY <1>1, <1>6, NewResponse DEF InstInv
<1>9. /\ \A k \in Instance \ {i} : thr'[k] = thr[k]
      /\ \/ thr'[i].pc = "load" /\ thr'[i].to = j /\ thr'[i].rsp = rsp
         \/ thr'[i] = thr[i]
      /\ thr' \in [Instance -> Thread]
  BY <1>1, <1>2, <1>3 DEF Idle, Thread
<1>10. InstTypeOK'
  BY <1>1, <1>2, <1>6, <1>8, <1>9 DEF InstInv, InstTypeOK
<1>11. OthersOk'
  BY <1>1, <1>10, AnswersStay DEF InstInv
<1>12. \A k \in Instance : OwnOrZero(k)'
  <2>1. OwnOrZero(i)'
    BY <1>1, <1>2, <1>9 DEF InstInv, OwnOrZero, PinstOf, Answers, j, State
  <2>2. \A k \in Instance \ {i} : OwnOrZero(k)'
    BY <1>1, <1>9 DEF InstInv, OwnOrZero
  <2> QED BY <2>1, <2>2
<1>13. ASSUME NEW k \in Others PROVE CountRight(k)'
  <2>1. CASE k # i \/ thr'[i] = thr[i]
    BY <2>1, <1>1, <1>9, <1>10, LeftAlone DEF Others
  <2>2. CASE k = i /\ thr'[i].pc = "load" /\ thr'[i].to = j /\ thr'[i].rsp = rsp
    <3> PICK c : c = CallOf(i)
      OBVIOUS
    <3>1. CallOf(i)' = c /\ c.inst = i /\ c.term = st[i].term
      BY <1>1 DEF CallOf
    <3>2. /\ Cardinality(Acceptances(c)) <= Cardinality(Acceptances(c)')
          /\ Cardinality(Acceptances(c)') \in Nat /\ Cardinality(Acceptances(c)) \in Nat
      BY <1>1, <1>10, AcceptancesGrow DEF InstInv
    <3>3. rsp = "accepted" => Cardinality(Acceptances(c)') = Cardinality(Acceptances(c)) + 1
      <4> SUFFICES ASSUME rsp = "accepted"
                   PROVE  Cardinality(Acceptances(c)') = Cardinality(Acceptances(c)) + 1
        OBVIOUS
      <4>1. Acceptances(c)' = Acceptances(c) \cup {r} /\ r \notin Acceptances(c)
        BY <1>1, <1>7, <1>8, <3>1 DEF Acceptances
      <4>2. IsFiniteSet(Acceptances(c))
        BY AcceptancesCounted DEF InstInv
      <4> QED BY <4>1, <4>2, FS_AddElement
    <3>4. st[i].phase = "accept" /\ j = i => rsp = "accepted"
      BY <2>2, <1>1 DEF Answers, PinstOf, j, Others
    <3>5. st[i].phase = "accept" =>
             st[i].valid + (IF j = i THEN 1 ELSE 0) <= Cardinality(Acceptances(c)')
      BY <2>2, <1>1, <1>2, <3>1, <3>2, <3>3, <3>4 DEF InstInv, CountRight, Counting, CallOf, State
    <3>6. Cardinality(Acceptances(CallOf(i)))' = Cardinality(Acceptances(c)')
      BY <3>1 DEF Acceptances
    <3>7. st[i].count = st[i].valid + 0
      BY <2>2, <1>1 DEF InstInv, CountRight
    <3> QED BY <2>2, <1>1, <3>5, <3>6, <3>7 DEF CountRight, Counting
  <2> QED BY <2>1, <2>2, <1>9
<1> QED BY <1>8, <1>10, <1>11, <1>12, <1>13 DEF InstInv, InstancesAssumption

\* The counter is read: a handler of an instance other than 0 reads its own.
LEMMA CountLoadKeeps ==
    ASSUME InstInv, NEW i \in Instance, CountLoad(i)
    PROVE  InstInv'
<1>1. /\ thr[i].pc = "load" /\ st' = st /\ taken' = taken /\ answers' = answers
      /\ thr' = [thr EXCEPT ![i].pc = "store", ![i].reg = st[thr[i].to].count]
      /\ thr \in [Instance -> Thread] /\ st[thr[i].to].count \in Nat
  BY DEF CountLoad, InstInv, InstTypeOK, Thread, State
<1>2. /\ \A k \in Instance \ {i} : thr'[k] = thr[k]
      /\ thr'[i].pc = "store" /\ thr'[i].to = thr[i].to /\ thr'[i].rsp = thr[i].rsp
      /\ thr'[i].reg = st[thr[i].to].count
      /\ thr' \in [Instance -> Thread]
  BY <1>1, ZenonT(30) DEF Thread
<1>3. InstTypeOK'
  BY <1>1, <1>2 DEF InstInv, InstTypeOK
<1>4. Numbered' /\ OthersOk'
  BY <1>1, <1>3, NumbersStay, AnswersStay DEF InstInv
<1>5. \A k \in Instance : OwnOrZero(k)'
  BY <1>1, <1>2 DEF InstInv, OwnOrZero
<1>6. ASSUME NEW k \in Others PROVE CountRight(k)'
  <2>1. CASE k # i
    BY <2>1, <1>1, <1>2, <1>3, LeftAlone DEF Others
  <2>2. CASE k = i
    <3>1. Acceptances(CallOf(i))' = Acceptances(CallOf(i))
      BY <1>1 DEF Acceptances, CallOf
    <3> QED BY <2>2, <3>1, <1>1, <1>2 DEF InstInv, CountRight, Counting
  <2> QED BY <2>1, <2>2
<1> QED BY <1>3, <1>4, <1>5, <1>6 DEF InstInv, InstancesAssumption

\* The counter is written, in the instance's own handler or in instance 0.
LEMMA CountStoreKeeps ==
    ASSUME InstInv, NEW i \in Instance, CountStore(i)
    PROVE  InstInv'
<1> DEFINE j == thr[i].to
<1>1. /\ thr[i].pc = "store" /\ taken' = taken /\ answers' = answers
      /\ st' = [st EXCEPT ![j].count = thr[i].reg + 1]
      /\ thr' = [thr EXCEPT ![i].pc = "judge"]
      /\ thr \in [Instance -> Thread] /\ st \in [Instance -> State]
      /\ j \in Instance /\ thr[i].reg \in Nat /\ (j # 0 => j = i)
  BY DEF CountStore, InstInv, InstTypeOK, Thread, OwnOrZero
<1>2. /\ \A k \in Instance \ {i} : thr'[k] = thr[k]
      /\ thr'[i].pc = "judge" /\ thr'[i].to = j /\ thr'[i].rsp = thr[i].rsp
      /\ thr' \in [Instance -> Thread]
  BY <1>1 DEF Thread
<1>3. /\ \A k \in Instance \ {j} : st'[k] = st[k]
      /\ \A k \in Instance : /\ st'[k].valid = st[k].valid /\ st'[k].phase = st[k].phase
                             /\ st'[k].term = st[k].term
      /\ st'[j].count = thr[i].reg + 1
      /\ st' \in [Instance -> State]
  BY <1>1 DEF State
<1>4. InstTypeOK'
  BY <1>1, <1>2, <1>3 DEF InstInv, InstTypeOK
<1>5. Numbered' /\ OthersOk'
  BY <1>1, <1>4, NumbersStay, AnswersStay DEF InstInv
<1>6. \A k \in Instance : OwnOrZero(k)'
  BY <1>1, <1>2, <1>3 DEF InstInv, OwnOrZero
<1>7. ASSUME NEW k \in Others PROVE CountRight(k)'
  <2>1. CASE k # i
    BY <2>1, <1>1, <1>2, <1>3, <1>4, LeftAlone DEF Others
  <2>2. CASE k = i
    <3>1. Acceptances(CallOf(i))' = Acceptances(CallOf(i))
      BY <1>1, <1>3 DEF Acceptances, CallOf
    <3>2. CASE j = i
      <4>1. st[i].count = st[i].valid + 0 /\ thr[i].reg = st[i].count
        BY <2>2, <3>2, <1>1 DEF InstInv, CountRight
      <4>2. /\ st'[i].count = st[i].valid + 1 /\ st'[i].valid = st[i].valid
            /\ st'[i].phase = st[i].phase /\ thr'[i].pc = "judge" /\ thr'[i].to = i
        BY <4>1, <2>2, <3>2, <1>1, <1>2, <1>3 DEF State
      <4>3. st[i].phase = "accept" =>
               st[i].valid + 1 <= Cardinality(Acceptances(CallOf(i)))
        BY <2>2, <3>2, <1>1 DEF InstInv, CountRight, Counting
      <4> QED BY <4>2, <4>3, <2>2, <3>1 DEF CountRight, Counting
    <3>3. CASE j # i
      BY <2>2, <3>1, <3>3, <1>1, <1>2, <1>3 DEF InstInv, CountRight, Counting
    <3> QED BY <3>2, <3>3
  <2> QED BY <2>1, <2>2
<1> QED BY <1>4, <1>5, <1>6, <1>7 DEF InstInv, InstancesAssumption

\* The response is judged.  On an instance other than 0 it is a good one, and
\* what ends the call with it is a majority of acceptances.
LEMMA JudgeKeeps ==
    ASSUME InstInv, NEW i \in Instance, Judge(i)
    PROVE  InstInv'
<1> DEFINE j     == thr[i].to
           good  == thr[i].rsp # "lag"
           valid == st[j].valid + (IF good THEN 1 ELSE 0)
           wins  == good /\ valid >= Majority
           next  == wins /\ thr[i].rsp = "promised"
           done  == ~next /\ (wins \/ st[j].count = NumAcceptors)
<1>1. /\ thr[i].pc = "judge" /\ taken' = taken /\ answers' = answers
      /\ st' = [st EXCEPT ![j] = IF next THEN WaitState(@, "accept")
                                         ELSE [@ EXCEPT !.valid = valid]]
      /\ thr' = [thr EXCEPT ![i] = IF done THEN [@ EXCEPT !.pc = "reset"] ELSE Idle]
  BY DEF Judge
<1>2. /\ thr \in [Instance -> Thread] /\ st \in [Instance -> State]
      /\ j \in Instance /\ valid \in Nat /\ 0 \in Instance /\ (j # 0 => j = i)
  BY DEF InstInv, InstancesAssumption, InstTypeOK, Thread, State, OwnOrZero
<1>3. (j # 0 => good) /\ (good => valid = st[j].valid + 1)
  BY DEF InstInv, OwnOrZero
<1>4. (next => wins /\ thr[i].rsp = "promised")
      /\ (done => ~next /\ (wins \/ st[j].count = NumAcceptors))
      /\ (wins <=> good /\ valid >= Majority)
      /\ (wins /\ thr[i].rsp = "promised" => next)
  OBVIOUS
<1> HIDE DEF j, good, valid, wins, next, done
<1>5. /\ \A k \in Instance \ {j} : st'[k] = st[k]
      /\ st'[j].term = st[j].term
      /\ IF next THEN st'[j].phase = "accept" /\ st'[j].count = 0 /\ st'[j].valid = 0
                 ELSE /\ st'[j].phase = st[j].phase /\ st'[j].count = st[j].count
                      /\ st'[j].valid = valid
      /\ st' \in [Instance -> State]
  BY <1>1, <1>2, ZenonT(30) DEF WaitState, State
<1>6. /\ \A k \in Instance \ {i} : thr'[k] = thr[k]
      /\ IF done THEN thr'[i].pc = "reset" /\ thr'[i].to = j /\ thr'[i].rsp = thr[i].rsp
                 ELSE thr'[i].pc = "idle" /\ thr'[i].to = 0
      /\ thr' \in [Instance -> Thread]
  BY <1>1, <1>2 DEF Idle, Thread, j
<1>7. InstTypeOK'
  BY <1>1, <1>5, <1>6 DEF InstInv, InstTypeOK
<1>8. Numbered' /\ OthersOk'
  BY <1>1, <1>7, NumbersStay, AnswersStay DEF InstInv
<1>9. \A k \in Instance : OwnOrZero(k)'
  <2>1. OwnOrZero(i)'
    BY <1>6 DEF InstInv, OwnOrZero, j
  <2>2. ASSUME NEW k \in Instance \ {i} PROVE OwnOrZero(k)'
    BY <2>2, <1>2, <1>5, <1>6 DEF InstInv, OwnOrZero
  <2> QED BY <2>1, <2>2
<1>10. ASSUME NEW k \in Others PROVE CountRight(k)'
  <2>1. CASE k # i
    BY <2>1, <1>1, <1>2, <1>5, <1>6, <1>7, LeftAlone DEF Others
  <2> SUFFICES ASSUME k = i PROVE CountRight(i)'
    BY <2>1
  <2>2. i # 0 /\ CountRight(i)
    BY DEF Others, InstInv
  <2> PICK c : c = CallOf(i)
    OBVIOUS
  <2>3. CallOf(i)' = c
    BY <1>2, <1>5 DEF CallOf
  <2>4. /\ Acceptances(CallOf(i))' = Acceptances(c)
        /\ (MajorityAccepted(CallOf(i))' <=> MajorityAccepted(c))
        /\ Cardinality(Acceptances(c)) \in Nat
    BY <1>1, <2>3, AcceptancesCounted DEF Acceptances, MajorityAccepted, InstInv
  <2>5. CASE j = i
    <3>1. st[i].count = st[i].valid + 1 /\ good /\ valid = st[i].valid + 1
      BY <2>2, <2>5, <1>1, <1>3 DEF CountRight, j
    <3>2. st[i].phase = "accept" => valid <= Cardinality(Acceptances(c))
      BY <2>2, <2>5, <3>1, <1>1 DEF CountRight, Counting, j
    <3>3. ASSUME done PROVE MajorityAccepted(c)
      <4>1. wins
        BY <3>1, <3>3, <1>4, <2>5, <1>2, MajorityFits DEF InstInv
      <4>2. thr[i].rsp # "promised"
        BY <3>3, <4>1, <1>4
      <4>3. st[i].phase = "accept"
        BY <4>2, <2>2, <2>5, <1>1, <1>2 DEF InstInv, OwnOrZero, j, State
      <4> QED BY <4>1, <4>3, <3>2, <1>2, <1>4, <2>4, MajorityFits
              DEF MajorityAccepted, InstInv
    <3>4. CASE next
      BY <3>4, <2>2, <2>4, <2>5, <1>4, <1>5, <1>6 DEF CountRight, Counting
    <3>5. CASE ~next /\ done
      BY <3>1, <3>2, <3>3, <3>5, <2>4, <2>5, <1>2, <1>5, <1>6 DEF CountRight, Counting
    <3>6. CASE ~next /\ ~done
      BY <3>1, <3>2, <3>6, <2>2, <2>4, <2>5, <1>2, <1>5, <1>6 DEF CountRight, Counting
    <3> QED BY <3>4, <3>5, <3>6
  <2>6. CASE j # i
    <3>1. st'[i] = st[i] /\ thr'[i].to # i /\ thr[i].to # i
      BY <2>2, <2>6, <1>2, <1>5, <1>6 DEF j
    <3> QED BY <3>1, <2>2, <2>4 DEF CountRight, Counting
  <2> QED BY <2>5, <2>6
<1> QED BY <1>7, <1>8, <1>9, <1>10 DEF InstInv, InstancesAssumption

\* A call means the same and is accepted by the same while nothing is taken.
LEMMA SameCall ==
    ASSUME taken' = taken, NEW i, st'[i].term = st[i].term
    PROVE  /\ Acceptances(CallOf(i))' = Acceptances(CallOf(i))
           /\ MajorityAccepted(CallOf(i))' <=> MajorityAccepted(CallOf(i))
<1>1. CallOf(i)' = CallOf(i)
  BY DEF CallOf
<1>2. Acceptances(CallOf(i))' = Acceptances(CallOf(i))
  BY <1>1 DEF Acceptances
<1> QED BY <1>2 DEF MajorityAccepted

\* A handler forgets the request of its call.
LEMMA ResetKeeps ==
    ASSUME InstInv, NEW i \in Instance, ResetReq(i)
    PROVE  InstInv'
<1> DEFINE j == thr[i].to
<1>1. /\ thr[i].pc = "reset" /\ taken' = taken /\ answers' = answers
      /\ st' = [st EXCEPT ![j].busy = FALSE] /\ thr' = [thr EXCEPT ![i].pc = "answer"]
      /\ thr \in [Instance -> Thread] /\ st \in [Instance -> State] /\ j \in Instance
  BY DEF ResetReq, InstInv, InstTypeOK, Thread
<1>2. /\ \A k \in Instance \ {i} : thr'[k] = thr[k]
      /\ thr'[i].pc = "answer" /\ thr'[i].to = j /\ thr'[i].rsp = thr[i].rsp
      /\ thr' \in [Instance -> Thread]
  BY <1>1 DEF Thread
<1>3. /\ \A k \in Instance : /\ st'[k].valid = st[k].valid /\ st'[k].phase = st[k].phase
                             /\ st'[k].term = st[k].term /\ st'[k].count = st[k].count
      /\ st' \in [Instance -> State]
  BY <1>1, ZenonT(30) DEF State
<1>4. InstTypeOK'
  BY <1>1, <1>2, <1>3 DEF InstInv, InstTypeOK
<1>5. Numbered' /\ OthersOk'
  BY <1>1, <1>4, NumbersStay, AnswersStay DEF InstInv
<1>6. \A k \in Instance : OwnOrZero(k)'
  BY <1>1, <1>2, <1>3 DEF InstInv, OwnOrZero
<1>7. ASSUME NEW k \in Others PROVE CountRight(k)'
  <2>1. CASE k # i
    BY <2>1, <1>1, <1>2, <1>3, <1>4, LeftAlone DEF Others
  <2>2. CASE k = i
    <3>1. /\ Acceptances(CallOf(i))' = Acceptances(CallOf(i))
          /\ MajorityAccepted(CallOf(i))' <=> MajorityAccepted(CallOf(i))
      BY <2>2, <1>1, <1>3, SameCall
    <3> QED BY <2>2, <3>1, <1>1, <1>2, <1>3 DEF InstInv, CountRight, Counting, Others
  <2> QED BY <2>1, <2>2
<1> QED BY <1>4, <1>5, <1>6, <1>7 DEF InstInv, InstancesAssumption

\* What answering a call does to the instance, and to the answers.
LEMMA AnswerAdds ==
    ASSUME InstInv, NEW j \in Instance, NEW code, SetValue(j, code), taken' = taken,
           thr' \in [Instance -> Thread],
           code = "OK" /\ j # 0 => MajorityAccepted(CallOf(j))
    PROVE  /\ InstTypeOK' /\ Numbered' /\ OthersOk'
           /\ \A k \in Instance : /\ st'[k].valid = st[k].valid /\ st'[k].phase = st[k].phase
                                  /\ st'[k].term = st[k].term /\ st'[k].count = st[k].count
<1>1. /\ st' = [st EXCEPT ![j].answered = TRUE, ![j].busy = @ /\ code # "TIMEOUT"]
      /\ answers' = answers \cup {[inst |-> j, term |-> st[j].term, code |-> code]}
      /\ st \in [Instance -> State]
  BY DEF SetValue, InstInv, InstTypeOK
<1>2. /\ st' \in [Instance -> State]
      /\ \A k \in Instance : /\ st'[k].valid = st[k].valid /\ st'[k].phase = st[k].phase
                             /\ st'[k].term = st[k].term /\ st'[k].count = st[k].count
  BY <1>1 DEF State
<1>3. InstTypeOK' /\ Numbered'
  BY <1>2, NumbersStay DEF InstInv, InstTypeOK
<1>4. OthersOk'
  <2> SUFFICES ASSUME NEW c \in answers', c.code = "OK", c.inst # 0
               PROVE  MajorityAccepted(c)'
    BY DEF OthersOk
  <2>1. MajorityAccepted(c)' <=> MajorityAccepted(c)
    BY DEF MajorityAccepted, Acceptances
  <2>2. CASE c \in answers
    BY <2>1, <2>2 DEF InstInv, OthersOk
  <2>3. CASE c = [inst |-> j, term |-> st[j].term, code |-> code]
    BY <2>1, <2>3 DEF MajorityAccepted, Acceptances, CallOf
  <2> QED BY <2>2, <2>3, <1>1
<1> QED BY <1>2, <1>3, <1>4

\* A handler answers the client; the timer does.
LEMMA AnswerKeeps ==
    ASSUME InstInv, NEW i \in Instance, AnswerClient(i) \/ Timeout(i)
    PROVE  InstInv'
<1>1. /\ thr \in [Instance -> Thread] /\ Idle \in Thread /\ taken' = taken
      /\ thr[i].to \in Instance /\ (thr[i].to # 0 => thr[i].to = i)
  BY DEF AnswerClient, Timeout, InstInv, InstancesAssumption, InstTypeOK, Thread, OwnOrZero, Idle
<1>2. PICK j \in Instance, code \in {"OK", "REMOTE_NEED_CATCHUP", "TIMEOUT"} :
        /\ SetValue(j, code)
        /\ code = "OK" => thr[i].to = j /\ thr[i].pc = "answer"
  <2>1. CASE AnswerClient(i)
    BY <2>1, <1>1 DEF AnswerClient
  <2>2. CASE Timeout(i)
    BY <2>2 DEF Timeout
  <2> QED BY <2>1, <2>2
<1>3. code = "OK" /\ j # 0 => MajorityAccepted(CallOf(j))
  BY <1>1, <1>2 DEF InstInv, CountRight, Others
<1>4. /\ thr' \in [Instance -> Thread]
      /\ \A k \in Instance : \/ thr'[k] = thr[k]
                             \/ thr[k].pc = "answer" /\ thr'[k] = Idle
  BY <1>1 DEF AnswerClient, Timeout
<1>5. /\ InstTypeOK' /\ Numbered' /\ OthersOk'
      /\ \A k \in Instance : /\ st'[k].valid = st[k].valid /\ st'[k].phase = st[k].phase
                             /\ st'[k].term = st[k].term /\ st'[k].count = st[k].count
  BY <1>1, <1>2, <1>3, <1>4, AnswerAdds
<1>6. \A k \in Instance : OwnOrZero(k)'
  BY <1>4, <1>5 DEF InstInv, OwnOrZero, Idle
<1>7. ASSUME NEW k \in Others PROVE CountRight(k)'
  <2>1. CASE thr'[k] = thr[k]
    BY <2>1, <1>1, <1>5, LeftAlone DEF Others
  <2>2. CASE thr[k].pc = "answer" /\ thr'[k] = Idle
    <3>1. Acceptances(CallOf(k))' = Acceptances(CallOf(k))
      BY <1>1, <1>5 DEF Acceptances, CallOf, Others
    <3>2. CountRight(k) /\ k \in Instance
      BY DEF InstInv, Others
    <3> QED BY <2>2, <3>1, <3>2, <1>5 DEF CountRight, Counting, Idle
  <2> QED BY <2>1, <2>2, <1>4 DEF Others
<1> QED BY <1>5, <1>6, <1>7 DEF InstInv, InstancesAssumption

\* Every step keeps the invariant.
LEMMA NextKeepsInst == InstInv /\ [InstNext]_instVars => InstInv'
<1> SUFFICES ASSUME InstInv, [InstNext]_instVars PROVE InstInv'
  OBVIOUS
<1>1. ASSUME NEW i \in Instance, ProposeAsync(i) PROVE InstInv'
  BY <1>1, ProposeKeeps
<1>2. ASSUME NEW i \in Instance, NEW rsp \in {"promised", "accepted", "lag"},
             HandleRpcResponse(i, rsp)
      PROVE  InstInv'
  BY <1>2, HandleKeeps
<1>3. ASSUME NEW i \in Instance, Handler(i) PROVE InstInv'
  BY <1>3, CountLoadKeeps, CountStoreKeeps, JudgeKeeps, ResetKeeps, AnswerKeeps DEF Handler
<1>4. ASSUME NEW i \in Instance, Timeout(i) PROVE InstInv'
  BY <1>4, AnswerKeeps
<1>5. CASE UNCHANGED instVars
  BY <1>5 DEF instVars, InstInv, InstancesAssumption, InstTypeOK, Numbered, Kind, OthersOk,
     MajorityAccepted, Acceptances, OwnOrZero, CountRight, Counting, CallOf
<1> QED BY <1>1, <1>2, <1>3, <1>4, <1>5 DEF InstNext

\* The invariant says of the answers what OthersOk says.
LEMMA InvOthersOk == InstInv => OthersOk
BY DEF InstInv

\* The instances run by their own specification.
LEMMA InstancesRun == Spec => InstInit /\ [][InstNext]_instVars
<1>1. Init => InstInit
  BY DEF Init, PartsInit
<1>2. [Next]_vars => [InstNext]_instVars
  BY DEF Next, vars, PartsNext, partVars
<1> QED BY <1>1, <1>2, PTL DEF Spec

\* What is counted in an instance other than 0 is right, and so are its answers.
THEOREM InstancesHold == Spec => []InstInv
<1>1. InstInit => InstInv
  BY InstIsSound, InitInst
<1> QED BY <1>1, NextKeepsInst, InstancesRun, PTL

\* A call of an instance other than 0 is answered OK only after a majority has
\* accepted.
THEOREM OthersOkHolds == Spec => []OthersOk
BY InvOthersOk, InstancesHold, PTL

-----------------------------------------------------------------------------
(* The worker pool.                                                        *)

PoolFacts == INSTANCE WorkerPoolProofs WITH
    Thread <- Feeder \cup {Worker}, Item <- Feeder \X (1 .. MaxWork), stopper <- poolStopper

\* The pool that runs is the pool of the proofs.
LEMMA SamePool ==
    /\ PoolFacts!PoolAssumption
    /\ Pool!Init => PoolFacts!Init
    /\ Pool!Next => PoolFacts!Next
<1>1. PoolFacts!PoolAssumption
  BY PoolIsSound, Zenon DEF Pool!PoolAssumption, PoolFacts!PoolAssumption, Pool!IsFiniteSet,
     PoolFacts!IsFiniteSet, Pool!Cardinality, PoolFacts!Cardinality
<1>2. (Pool!Init => PoolFacts!Init) /\ (Pool!Next => PoolFacts!Next)
  BY Zenon DEF Pool!Init, PoolFacts!Init, Pool!QueueInit, PoolFacts!QueueInit, Pool!At, PoolFacts!At,
     Pool!Next, PoolFacts!Next, Pool!Step, PoolFacts!Step, Pool!StartWorker,
     PoolFacts!StartWorker, Pool!StopWorker, PoolFacts!StopWorker, Pool!StopStep,
     PoolFacts!StopStep, Pool!StopNotify, PoolFacts!StopNotify, Pool!StopJoin,
     PoolFacts!StopJoin, Pool!WorkerStep, PoolFacts!WorkerStep, Pool!WorkerTop,
     PoolFacts!WorkerTop, Pool!WorkerDequeues, PoolFacts!WorkerDequeues, Pool!WorkerWaits,
     PoolFacts!WorkerWaits, Pool!WorkerHandles, PoolFacts!WorkerHandles,
     Pool!WorkerSubtracts, PoolFacts!WorkerSubtracts, Pool!AddWork, PoolFacts!AddWork,
     Pool!FeederStep, PoolFacts!FeederStep, Pool!AddClaim, PoolFacts!AddClaim,
     Pool!AddEnqueues, PoolFacts!AddEnqueues, Pool!AddFull, PoolFacts!AddFull,
     Pool!AddPending, PoolFacts!AddPending, Pool!AddNotify, PoolFacts!AddNotify,
     Pool!EnqueueStep, PoolFacts!EnqueueStep, Pool!EnqReadHead, PoolFacts!EnqReadHead,
     Pool!EnqReadTail, PoolFacts!EnqReadTail, Pool!HasRoom, PoolFacts!HasRoom,
     Pool!EnqClaim, PoolFacts!EnqClaim, Pool!EnqRetry, PoolFacts!EnqRetry, Pool!EnqFull,
     PoolFacts!EnqFull, Pool!EnqRepair, PoolFacts!EnqRepair, Pool!EnqTake,
     PoolFacts!EnqTake, Pool!EnqFill, PoolFacts!EnqFill, Pool!DequeueStep,
     PoolFacts!DequeueStep, Pool!DeqReadHead, PoolFacts!DeqReadHead, Pool!DeqReadTail,
     PoolFacts!DeqReadTail, Pool!DeqClaim, PoolFacts!DeqClaim, Pool!DeqEmpty,
     PoolFacts!DeqEmpty, Pool!DeqTake, PoolFacts!DeqTake, Pool!queueVars,
     PoolFacts!queueVars, Pool!poolVars, PoolFacts!poolVars
<1> QED BY <1>1, <1>2

\* The pool runs by its own specification.
LEMMA PoolRuns == Spec => PoolFacts!Init /\ [][PoolFacts!Next]_(PoolFacts!vars)
<1>1. Init => PoolFacts!Init
  BY SamePool DEF Init, PartsInit
<1>2. [Next]_vars => [PoolFacts!Next]_(PoolFacts!vars)
  <2>1. [Next]_vars => Pool!Next \/ UNCHANGED poolVars
    BY DEF Next, vars, PartsNext, partVars
  <2> QED BY <2>1, SamePool DEF poolVars, PoolFacts!vars
<1> QED BY <1>1, <1>2, PTL DEF Spec

\* The invariant of the pool.
LEMMA PoolKept == Spec => []PoolFacts!PoolIInv
<1>1. PoolFacts!Init => PoolFacts!PoolIInv
  BY SamePool, PoolFacts!InitPoolI
<1>2. PoolFacts!PoolIInv /\ [PoolFacts!Next]_(PoolFacts!vars) => PoolFacts!PoolIInv'
  BY PoolFacts!NextKeepsPool
<1> QED BY <1>1, <1>2, PoolRuns, PTL

\* The branch of Enqueue for an overflow of head never takes effect.
THEOREM NoRepairHolds == Spec => []NoRepair
<1>1. PoolFacts!PoolIInv => NoRepair
  BY PoolFacts!InvNoRepair DEF NoRepair, Pool!NoRepair, PoolFacts!NoRepair
<1> QED BY <1>1, PoolKept, PTL

\* RT_EMPTY is said only of a queue that was empty during the call.
THEOREM EmptyWasEmptyHolds == Spec => []EmptyWasEmpty
<1>1. PoolFacts!PoolIInv => EmptyWasEmpty
  BY PoolFacts!InvEmptyWasEmpty DEF EmptyWasEmpty, Pool!EmptyWasEmpty, PoolFacts!EmptyWasEmpty
<1> QED BY <1>1, PoolKept, PTL

\* Queue, counter and wait group are a bounded bag of the work accepted.
THEOREM ImplementsBagHolds == Spec => ImplementsBag
<1>1. PoolFacts!Init => Pool!Bag!Init
  BY PoolFacts!InitBag DEF PoolFacts!Bag!Init, Pool!Bag!Init
<1>2. PoolFacts!PoolIInv /\ [PoolFacts!Next]_(PoolFacts!vars)
        => [Pool!Bag!Next]_<<accepted \ handled, handled>>
  BY PoolFacts!StepsOfBag DEF Pool!Bag!Next, PoolFacts!Bag!Next, Pool!Bag!Accept,
     PoolFacts!Bag!Accept, Pool!Bag!Handle, PoolFacts!Bag!Handle, Pool!Bag!Cardinality,
     PoolFacts!Bag!Cardinality
<1> QED BY <1>1, <1>2, PoolRuns, PoolKept, PTL DEF ImplementsBag, Pool!ImplementsBag, Pool!Bag!Spec

-----------------------------------------------------------------------------
(* The connections.                                                        *)

RemoteFacts == INSTANCE RemoteConnProofs WITH Conns <- <<c1, c2>>

\* The connections that run are those of the proofs.
LEMMA SameRemote ==
    /\ RemoteFacts!RemoteAssumption
    /\ Remote!Init => RemoteFacts!Init
    /\ Remote!Next => RemoteFacts!Next
<1>1. RemoteFacts!RemoteAssumption
  BY RemoteIsSound, Zenon DEF Remote!RemoteAssumption, RemoteFacts!RemoteAssumption,
     Remote!Range, RemoteFacts!Range, Remote!IsInjective, RemoteFacts!IsInjective
<1>2. (Remote!Init => RemoteFacts!Init) /\ (Remote!Next => RemoteFacts!Next)
  BY Zenon DEF Remote!Init, RemoteFacts!Init, Remote!Next, RemoteFacts!Next, Remote!EmptyMap,
     RemoteFacts!EmptyMap, Remote!Exists, RemoteFacts!Exists, Remote!Erased,
     RemoteFacts!Erased, Remote!Unindexed, RemoteFacts!Unindexed, Remote!Put,
     RemoteFacts!Put, Remote!GetPtr, RemoteFacts!GetPtr, Remote!Del, RemoteFacts!Del,
     Remote!NextId, RemoteFacts!NextId, Remote!SetGreaterThan, RemoteFacts!SetGreaterThan,
     Remote!Conn, RemoteFacts!Conn, Remote!FirstId, RemoteFacts!FirstId, Remote!ConnOf,
     RemoteFacts!ConnOf, Remote!This, RemoteFacts!This, Remote!Advance, RemoteFacts!Advance,
     Remote!Broadcast, RemoteFacts!Broadcast, Remote!Assign, RemoteFacts!Assign,
     Remote!Serialised, RemoteFacts!Serialised, Remote!Write, RemoteFacts!Write,
     Remote!WriteFails, RemoteFacts!WriteFails, Remote!TakeCallback,
     RemoteFacts!TakeCallback, Remote!HandleRecv, RemoteFacts!HandleRecv, Remote!RemoveAt,
     RemoteFacts!RemoveAt, Remote!Front, RemoteFacts!Front, Remote!Last, RemoteFacts!Last,
     Remote!Range, RemoteFacts!Range, Remote!Cardinality, RemoteFacts!Cardinality,
     Remote!EmptyBag, RemoteFacts!EmptyBag, Remote!SetToBag, RemoteFacts!SetToBag,
     Remote!B!BagAdd, RemoteFacts!B!BagAdd
<1> QED BY <1>1, <1>2

\* The connections run by their own specification.
LEMMA RemoteRuns == Spec => RemoteFacts!Init /\ [][RemoteFacts!Next]_(RemoteFacts!vars)
<1>1. Init => RemoteFacts!Init
  BY SameRemote DEF Init
<1>2. [Next]_vars => [RemoteFacts!Next]_(RemoteFacts!vars)
  <2>1. [Next]_vars => Remote!Next \/ UNCHANGED remoteVars
    BY DEF Next, vars
  <2> QED BY <2>1, SameRemote DEF remoteVars, RemoteFacts!vars
<1> QED BY <1>1, <1>2, PTL DEF Spec

\* The invariant of the connections.
LEMMA RemoteKept == Spec => []RemoteFacts!RemoteInv
<1>1. RemoteFacts!Init => RemoteFacts!RemoteInv
  BY SameRemote, RemoteFacts!InitRemote
<1>2. RemoteFacts!RemoteInv /\ [RemoteFacts!Next]_(RemoteFacts!vars) => RemoteFacts!RemoteInv'
  BY RemoteFacts!NextKeepsRemote
<1> QED BY <1>1, <1>2, RemoteRuns, PTL

\* A callback is called once per connection, with the answer to its own round of its
\* own broadcast, and never after it was evicted or taken back.
THEOREM OwnAnswerHolds == Spec => []OwnAnswer
<1>1. RemoteFacts!RemoteInv => OwnAnswer
  BY RemoteFacts!InvOwnAnswer, Zenon DEF OwnAnswer, Remote!OwnAnswer, RemoteFacts!OwnAnswer,
     Remote!Conn, RemoteFacts!Conn, Remote!Range, RemoteFacts!Range, Remote!CalledFor,
     RemoteFacts!CalledFor, Remote!BagToSet, RemoteFacts!BagToSet
<1> QED BY <1>1, RemoteKept, PTL

\* A response finds its callback unless that was called, evicted or taken back.
THEOREM CallbackFoundHolds == Spec => []CallbackFound
<1>1. RemoteFacts!RemoteInv => CallbackFound
  BY RemoteFacts!InvCallbackFound, Zenon DEF CallbackFound, Remote!CallbackFound,
     RemoteFacts!CallbackFound, Remote!Conn, RemoteFacts!Conn, Remote!Range,
     RemoteFacts!Range, Remote!CalledFor, RemoteFacts!CalledFor, Remote!BagToSet,
     RemoteFacts!BagToSet, Remote!Exists, RemoteFacts!Exists
<1> QED BY <1>1, RemoteKept, PTL

=============================================================================
