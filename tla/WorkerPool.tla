----------------------------- MODULE WorkerPool -----------------------------
(***************************************************************************)
(* One worker of util/worker_pool.hpp: the threads that give it work, its  *)
(* queue (LockFreeQueue), its thread with the WaitGroup it sleeps on, and  *)
(* the thread that starts and stops the pool.  The workers of a pool share *)
(* only status_.                                                           *)
(***************************************************************************)
EXTENDS LockFreeQueue, FiniteSets

CONSTANTS
    Feeder,    \* the threads that call AddWork
    Worker,    \* the worker's thread
    MaxWork    \* bound: calls of AddWork per feeder

\* The callers of the queue are the feeders and the worker, and the positions,
\* one per item, do not reach the width of head and tail.
PoolAssumption ==
    /\ IsFiniteSet(Feeder) /\ Worker \notin Feeder /\ Thread = Feeder \cup {Worker}
    /\ MaxWork \in Nat /\ Item = Feeder \X (1 .. MaxWork)
    /\ Size \in Nat \ {0} /\ Word \in Nat /\ Cardinality(Feeder) * MaxWork < Word

VARIABLES
    status,    \* status_: 0 new, 1 started, 2 stopping
    pending,   \* pending_, a uint64_t
    curr,      \* WaitGroup::curr_ (count_ is 1)
    stopper,   \* where StopWorker is
    calls,     \* history: calls of AddWork so far
    accepted,  \* history: items whose position in the queue was claimed
    handled,   \* history: items given to handler_
    sawEmpty   \* history: the queue was empty since the worker's call of Dequeue

poolVars == <<status, pending, curr, stopper, calls, accepted, handled>>
vars == <<head, tail, slot, reg, status, pending, curr, stopper, calls,
          accepted, handled, sawEmpty>>

Init ==
    /\ QueueInit
    /\ reg = [x \in Thread |-> At("idle", NoItem)]
    /\ status = 0 /\ pending = 0 /\ curr = 0 /\ stopper = "running"
    /\ calls = [f \in Feeder |-> 0]
    /\ accepted = {} /\ handled = {} /\ sawEmpty = TRUE

-----------------------------------------------------------------------------
\* StartWorker, which returns before anyone calls AddWork on a started pool.
StartWorker ==
    /\ status = 0
    /\ status' = 1
    /\ reg' = [reg EXCEPT ![Worker] = At("top", NoItem)]
    /\ UNCHANGED <<head, tail, slot, pending, curr, stopper, calls, accepted, handled>>

\* AddWork starts; on a pool that does not run it returns -1.
AddWork(f) ==
    /\ reg[f].pc = "idle" /\ calls[f] < MaxWork
    /\ calls' = [calls EXCEPT ![f] = @ + 1]
    /\ reg' = IF status = 1
              THEN [reg EXCEPT ![f] = At("enqHead", <<f, calls[f] + 1>>)]
              ELSE reg
    /\ UNCHANGED <<head, tail, slot, status, pending, curr, stopper, accepted, handled>>

\* Enqueue inside AddWork: the item is in the queue once its position is.
AddClaim(f) ==
    /\ EnqClaim(f)
    /\ accepted' = accepted \cup {reg[f].item}
    /\ UNCHANGED <<status, pending, curr, stopper, calls, handled>>

AddEnqueues(f) == EnqueueStep(f) /\ UNCHANGED poolVars

\* Enqueue has refused; AddWork returns -2.
AddFull(f) ==
    /\ reg[f].pc = "enqFull"
    /\ reg' = [reg EXCEPT ![f] = At("idle", NoItem)]
    /\ UNCHANGED <<head, tail, slot, poolVars>>

\* pending_.fetch_add(1), and who finds 0 goes on to wake the worker.
AddPending(f) ==
    /\ reg[f].pc = "enqOk"
    /\ pending' = (pending + 1) % Word
    /\ reg' = [reg EXCEPT ![f] = At(IF pending = 0 THEN "notify" ELSE "idle", NoItem)]
    /\ UNCHANGED <<head, tail, slot, status, curr, stopper, calls, accepted, handled>>

AddNotify(f) ==
    /\ reg[f].pc = "notify"
    /\ curr' = curr + 1
    /\ reg' = [reg EXCEPT ![f] = At("idle", NoItem)]
    /\ UNCHANGED <<head, tail, slot, status, pending, stopper, calls, accepted, handled>>

-----------------------------------------------------------------------------
\* workerProc: the head of the loop.
WorkerTop ==
    /\ reg[Worker].pc = "top"
    /\ reg' = [reg EXCEPT ![Worker] =
                 At(IF status = 1 THEN "deqHead" ELSE "exited", NoItem)]
    /\ UNCHANGED <<head, tail, slot, poolVars>>

WorkerDequeues == DequeueStep(Worker) /\ UNCHANGED poolVars

\* WaitUs(1) returns: woken (curr_ starts again) or timed out.
WorkerWaits ==
    /\ reg[Worker].pc = "deqEmpty"
    /\ curr' = 0
    /\ reg' = [reg EXCEPT ![Worker] = At("top", NoItem)]
    /\ UNCHANGED <<head, tail, slot, status, pending, stopper, calls, accepted, handled>>

\* handler_(req), then pending_.fetch_sub(1), which may come before the feeder's
\* own fetch_add.
WorkerHandles ==
    /\ reg[Worker].pc = "deqOk"
    /\ handled' = handled \cup {reg[Worker].item}
    /\ reg' = [reg EXCEPT ![Worker] = At("sub", NoItem)]
    /\ UNCHANGED <<head, tail, slot, status, pending, curr, stopper, calls, accepted>>

WorkerSubtracts ==
    /\ reg[Worker].pc = "sub"
    /\ pending' = (pending - 1) % Word
    /\ reg' = [reg EXCEPT ![Worker] = At("top", NoItem)]
    /\ UNCHANGED <<head, tail, slot, status, curr, stopper, calls, accepted, handled>>

-----------------------------------------------------------------------------
\* StopWorker: the flag, the wake-up, the join.
StopWorker ==
    /\ stopper = "running" /\ status = 1
    /\ stopper' = "notifying" /\ status' = 2
    /\ UNCHANGED <<queueVars, pending, curr, calls, accepted, handled>>

StopNotify ==
    /\ stopper = "notifying"
    /\ stopper' = "joining" /\ curr' = curr + 1
    /\ UNCHANGED <<queueVars, status, pending, calls, accepted, handled>>

StopJoin ==
    /\ stopper = "joining" /\ reg[Worker].pc = "exited"
    /\ stopper' = "stopped"
    /\ UNCHANGED <<queueVars, status, pending, curr, calls, accepted, handled>>

-----------------------------------------------------------------------------
FeederStep(f) ==
    AddClaim(f) \/ AddEnqueues(f) \/ AddFull(f) \/ AddPending(f) \/ AddNotify(f)

WorkerStep ==
    WorkerTop \/ WorkerDequeues \/ WorkerWaits \/ WorkerHandles \/ WorkerSubtracts

StopStep == StopNotify \/ StopJoin

Step ==
    \/ StartWorker \/ StopWorker \/ StopStep
    \/ WorkerStep
    \/ \E f \in Feeder : AddWork(f) \/ FeederStep(f)

\* sawEmpty starts again when the worker calls Dequeue.
Next ==
    /\ Step
    /\ sawEmpty' = (head' = tail' \/ (sawEmpty /\ reg'[Worker].pc # "deqHead"))

\* Threads that run are scheduled; nobody has to call AddWork or StopWorker.
Spec ==
    /\ Init /\ [][Next]_vars
    /\ WF_vars(Next /\ WorkerStep)
    /\ \A f \in Feeder : WF_vars(Next /\ FeederStep(f))
    /\ WF_vars(Next /\ StopStep)

-----------------------------------------------------------------------------
\* Enqueue takes copies of head and tail at different times and may find them
\* out of order; the branch for an overflow of head, which would move both
\* back, is then entered but its compare-and-swap never succeeds.
NoRepair ==
    \A f \in Feeder :
       reg[f].pc = "enqClaim" /\ reg[f].h < reg[f].t => head # reg[f].h

\* Dequeue says RT_EMPTY to the only consumer of a queue only if the queue was
\* empty at some moment of the call, though its copy of head may be stale.
EmptyWasEmpty == reg[Worker].pc = "deqEmpty" => sawEmpty

\* The lock-free queue, the counter and the wait group together are a bounded
\* bag: an accepted item is handled at most once, whoever else contends for its
\* slot, and only accepted items are handled.  The worker itself holds one more
\* item than its queue.
Bag == INSTANCE WorkBag WITH
    Capacity <- Size + 1, held <- accepted \ handled, done <- handled
ImplementsBag == Bag!Spec

\* An accepted item is handled unless the pool is stopped: no wake-up is lost,
\* and no thread waits for ever for a slot.
EveryWorkHandled == \A i \in Item : i \in accepted ~> i \in handled \/ status = 2

\* StopWorker returns: the worker always comes back to the head of its loop.
StopReturns == status = 2 ~> stopper = "stopped"

=============================================================================
