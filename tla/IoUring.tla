------------------------------ MODULE IoUring ------------------------------
(***************************************************************************)
(* One instance of util/iouring.cc: the threads that issue requests, some  *)
(* of which wait for the result on an eventfd of a pool, the worker thread *)
(* (pollLoop) that moves requests from its queue through the submission    *)
(* ring and calls done_ for each completion, and the thread that stops it. *)
(* External: the rings and the kernel (liburing), eventfd, and             *)
(* LockFreeQueueV2, a bounded FIFO queue.  Whether a request reads or      *)
(* writes, and how much, is left out, and so are the statistics.           *)
(***************************************************************************)
EXTENDS FixCountAllocator

CONSTANTS
    SyncCaller,      \* threads that call AddReadReqSync and the like
    AsyncCaller,     \* threads that call AddReadReqAsync and the like
    OptDepth,        \* UringOptions::iodepth
    OptBatch,        \* UringOptions::max_batch_num
    MaxSync,         \* bound: calls per thread of the first kind
    MaxAsync,        \* bound: calls per thread of the second kind
    Word,            \* 2^32: unsubmit_ is a uint32_t
    Events,          \* what may happen besides, of {"signal", "submit", "stop"}
    Notifier,        \* the poll request on req_notifier_
    Unset            \* a result nobody has written

Caller == SyncCaller \cup AsyncCaller
Request == (SyncCaller \X (1 .. MaxSync)) \cup (AsyncCaller \X (1 .. MaxAsync))

\* SanitizeOptions: both numbers get one more for the notifier.
Depth == IF OptDepth <= 0 THEN 256 ELSE OptDepth
Iodepth == Depth + 1
MaxBatch == Min({IF OptBatch <= 0 THEN 256 ELSE OptBatch, Depth}) + 1

ASSUME UringAssumption ==
    /\ IsFiniteSet(SyncCaller) /\ SyncCaller \cap AsyncCaller = {}
    /\ MaxSync \in Nat /\ MaxAsync \in Nat
    /\ OptDepth \in Int /\ OptBatch \in Int /\ Word \in Nat \ {0} /\ Notifier \notin Nat
    /\ Events \subseteq {"signal", "submit", "stop"}

VARIABLES
    caller,     \* per thread: where it is, its call, its eventfd, retv.ret
    queue,      \* req_queue_
    unsubmit,   \* unsubmit_
    efd,        \* the counter behind req_notifier_.fd_
    fdPool,     \* event_fd_pool_: idle eventfds
    fdVal,      \* the counters of the eventfds of callers
    wk,         \* the worker's locals: where it is, wait_block, rearm_notifier,
                \* notifier_sqe, unsubmitted, uncompleted, pending_req
    ctxPool,    \* waiting_req_: idle contexts
    ctxReq,     \* the request in each context in use
    sq,         \* the submission ring
    kernel,     \* what the kernel works on
    cq,         \* the completion ring
    stop,       \* "no"; Stop: "set" stop_, "notified" the worker, "joined" it
    accepted,   \* history: requests that were enqueued
    done,       \* history: calls of done_ per request
    event       \* history: the kind of event there has been, if any

vars == <<caller, queue, unsubmit, efd, fdPool, fdVal, wk, ctxPool, ctxReq, sq,
          kernel, cq, stop, accepted, done, event>>
callerVars == <<caller, fdPool>>
ringVars == <<sq, kernel, cq>>
workerVars == <<wk, ctxPool, ctxReq>>
stopVars == <<stop, event>>

Fd == 1 .. Iodepth + Cardinality(SyncCaller)
InCall(c) == caller[c].pc \notin {"idle", "returned"}
UsedFds == Range(fdPool) \cup {caller[c].fd : c \in {d \in SyncCaller : InCall(d)}}
UsedCtxs == Range(ctxPool) \cup DOMAIN ctxReq

\* Start: the notifier is armed before the worker runs.
Init ==
    /\ caller = [c \in Caller |-> [pc |-> "idle", n |-> 0, fd |-> 0, ret |-> Unset]]
    /\ queue = <<>> /\ unsubmit = 0 /\ efd = 0
    /\ fdPool = <<>> /\ fdVal = [x \in Fd |-> 0]
    /\ wk = [pc |-> "top", block |-> TRUE, rearm |-> FALSE, sqe |-> 0,
             batch |-> <<>>, uncompleted |-> 1, req |-> Unset]
    /\ ctxPool = <<>> /\ ctxReq = <<>>
    /\ sq = <<>> /\ kernel = {Notifier} /\ cq = <<>>
    /\ stop = "no" /\ accepted = {} /\ done = [r \in Request |-> 0]
    /\ event = "none"

\* Signals, failed submissions or a stop; a behaviour has one kind of them, any
\* number of times.
Happens(kind) == kind \in Events /\ event \in {"none", kind} /\ event' = kind

-----------------------------------------------------------------------------
(* The callers.                                                            *)

\* doIoOpSync takes an eventfd; its result is not initialised.
SyncCall(c) ==
    LET fd == AllocFirst(fdPool, UsedFds) IN
    /\ c \in SyncCaller /\ ~InCall(c) /\ caller[c].n < MaxSync
    /\ fdPool' = fd.pool
    /\ caller' = [caller EXCEPT ![c] =
                    [pc |-> "enqueue", n |-> @.n + 1, fd |-> fd.obj, ret |-> Unset]]
    /\ UNCHANGED <<queue, unsubmit, efd, fdVal, workerVars, ringVars, stopVars, accepted, done>>

AsyncCall(c) ==
    /\ c \in AsyncCaller /\ caller[c].pc = "idle" /\ caller[c].n < MaxAsync
    /\ caller' = [caller EXCEPT ![c] =
                    [pc |-> "enqueue", n |-> @.n + 1, fd |-> 0, ret |-> Unset]]
    /\ UNCHANGED <<queue, unsubmit, efd, fdPool, fdVal, workerVars, ringVars, stopVars,
                   accepted, done>>

\* issueRequest: the queue takes the request ...
Enqueue(c) ==
    LET r == <<c, caller[c].n>> IN
    /\ caller[c].pc = "enqueue" /\ Len(queue) < Iodepth
    /\ queue' = Append(queue, r)
    /\ accepted' = accepted \cup {r}
    /\ caller' = [caller EXCEPT ![c].pc = "count"]
    /\ UNCHANGED <<unsubmit, efd, fdPool, fdVal, workerVars, ringVars, stopVars, done>>

\* ... or is full: the caller gets the error, and the eventfd is free again.
QueueFull(c) ==
    /\ caller[c].pc = "enqueue" /\ Len(queue) = Iodepth
    /\ fdPool' = IF c \in SyncCaller THEN Release(fdPool, caller[c].fd, Iodepth) ELSE fdPool
    /\ caller' = [caller EXCEPT ![c].pc = "idle"]
    /\ UNCHANGED <<queue, unsubmit, efd, fdVal, workerVars, ringVars, stopVars, accepted, done>>

Issued(c) == IF c \in SyncCaller THEN "wait" ELSE "idle"

\* Mutation: everybody leaves the wake-up to somebody else.
MutCountRequest(c) ==
    /\ caller[c].pc = "count"
    /\ unsubmit' = (unsubmit + 1) % Word
    /\ caller' = [caller EXCEPT ![c].pc = IF unsubmit = 1 THEN "notify" ELSE Issued(c)]
    /\ UNCHANGED <<queue, efd, fdPool, fdVal, workerVars, ringVars, stopVars, accepted, done>>

\* The request is counted after it is in the queue; who counts from 0 wakes
\* the worker.
CountRequest(c) ==
    /\ caller[c].pc = "count"
    /\ unsubmit' = (unsubmit + 1) % Word
    /\ caller' = [caller EXCEPT ![c].pc = IF unsubmit = 0 THEN "notify" ELSE Issued(c)]
    /\ UNCHANGED <<queue, efd, fdPool, fdVal, workerVars, ringVars, stopVars, accepted, done>>

Notify(c) ==
    /\ caller[c].pc = "notify"
    /\ efd' = efd + 1
    /\ caller' = [caller EXCEPT ![c].pc = Issued(c)]
    /\ UNCHANGED <<queue, unsubmit, fdPool, fdVal, workerVars, ringVars, stopVars, accepted, done>>

\* Mutation: the eventfd is not read before it goes back to the pool.
MutSyncReturn(c) ==
    /\ c \in SyncCaller /\ caller[c].pc = "wait" /\ fdVal[caller[c].fd] > 0
    /\ fdPool' = Release(fdPool, caller[c].fd, Iodepth)
    /\ caller' = [caller EXCEPT ![c].pc = "returned"]
    /\ UNCHANGED <<fdVal, queue, unsubmit, efd, workerVars, ringVars, stopVars, accepted, done>>

\* poll() reports the eventfd: it is read and released, and the call returns.
SyncReturn(c) ==
    /\ c \in SyncCaller /\ caller[c].pc = "wait" /\ fdVal[caller[c].fd] > 0
    /\ fdVal' = [fdVal EXCEPT ![caller[c].fd] = 0]
    /\ fdPool' = Release(fdPool, caller[c].fd, Iodepth)
    /\ caller' = [caller EXCEPT ![c].pc = "returned"]
    /\ UNCHANGED <<queue, unsubmit, efd, workerVars, ringVars, stopVars, accepted, done>>

\* poll() fails with EINTR: the call returns what retv.ret happens to hold.
SyncInterrupted(c) ==
    /\ caller[c].pc = "wait" /\ Happens("signal")
    /\ fdPool' = Release(fdPool, caller[c].fd, Iodepth)
    /\ caller' = [caller EXCEPT ![c].pc = "returned"]
    /\ UNCHANGED <<fdVal, queue, unsubmit, efd, workerVars, ringVars, stop, accepted, done>>

-----------------------------------------------------------------------------
(* The kernel.                                                             *)

\* The armed poll request completes when the counter is not zero.
KernelPolls ==
    /\ Notifier \in kernel /\ efd > 0
    /\ kernel' = kernel \ {Notifier}
    /\ cq' = Append(cq, Notifier)
    /\ UNCHANGED <<callerVars, queue, unsubmit, efd, fdVal, workerVars, sq, stopVars, accepted, done>>

KernelCompletes(x) ==
    /\ x \in kernel \ {Notifier}
    /\ kernel' = kernel \ {x}
    /\ cq' = Append(cq, x)
    /\ UNCHANGED <<callerVars, queue, unsubmit, efd, fdVal, workerVars, sq, stopVars, accepted, done>>

-----------------------------------------------------------------------------
(* The worker.                                                             *)

\* Results that are errors of the worker's own.
SqeError == <<"IOURING_ERR_ALLOC_SQE_FAILED">>
SubmitError == <<"IOURING_ERR_SUBMIT_QUEUE_FULL">>

\* done_(res, ud) of the request r.  For a caller that waits it writes the
\* result, then the eventfd; the result of a request is the request.  (A call
\* that was interrupted is gone by then: its frame is taken to be intact until
\* the thread's next call, which uses the same one.)
DoneFor(r, res) ==
    LET c == r[1] IN
    /\ done' = [done EXCEPT ![r] = @ + 1]
    /\ caller' = IF c \in SyncCaller THEN [caller EXCEPT ![c].ret = res] ELSE caller
    /\ fdVal' = IF c \in SyncCaller /\ caller[c].fd # 0
                THEN [fdVal EXCEPT ![caller[c].fd] = @ + 1] ELSE fdVal

WorkerTop ==
    /\ wk.pc = "top"
    /\ wk' = [wk EXCEPT !.pc = IF stop = "no" THEN "reap" ELSE "exited"]
    /\ UNCHANGED <<callerVars, queue, unsubmit, efd, fdVal, ctxPool, ctxReq, ringVars, stopVars,
                   accepted, done>>

\* io_uring_wait_cqe is interrupted while it sleeps.
WaitInterrupted ==
    /\ wk.pc = "reap" /\ wk.block /\ cq = <<>>
    /\ wk' = [wk EXCEPT !.pc = "top"]
    /\ UNCHANGED <<callerVars, queue, unsubmit, efd, fdVal, ctxPool, ctxReq, ringVars, stopVars,
                   accepted, done>>

\* Mutation: the notifier is armed only if there is nothing else to submit.
MutArms(rearm) == rearm /\ queue = <<>>

\* The notifier is armed again if the submission ring has room.
Arms(rearm) == rearm /\ Len(sq) < Iodepth

\* One turn of the loop: a completion is reaped, or none, and the notifier's
\* request is prepared; then the queue is emptied.
Turn(reaped, rearm) ==
    /\ wk' = [wk EXCEPT !.pc = "fill", !.uncompleted = @ - reaped, !.rearm = rearm,
                        !.sqe = IF Arms(rearm) THEN 1 ELSE 0]
    /\ sq' = IF Arms(rearm) THEN Append(sq, Notifier) ELSE sq

\* io_uring_peek_cqe finds nothing.
PeekEmpty ==
    /\ wk.pc = "reap" /\ ~wk.block /\ cq = <<>>
    /\ Turn(0, wk.rearm)
    /\ UNCHANGED <<callerVars, queue, unsubmit, efd, fdVal, ctxPool, ctxReq, kernel, cq, stopVars,
                   accepted, done>>

\* Mutation: the context is put into the pool twice.
MutReapRequest ==
    /\ wk.pc = "reap" /\ cq # <<>> /\ Head(cq) # Notifier
    /\ DoneFor(ctxReq[Head(cq)], ctxReq[Head(cq)])
    /\ ctxPool' = Release(Append(ctxPool, Head(cq)), Head(cq), Iodepth)
    /\ ctxReq' = [x \in DOMAIN ctxReq \ {Head(cq)} |-> ctxReq[x]]
    /\ cq' = Tail(cq)
    /\ Turn(1, wk.rearm)
    /\ UNCHANGED <<queue, unsubmit, efd, fdPool, kernel, stopVars, accepted>>

\* Mutation: the turn ends after done_, before the completion is marked seen.
MutReapUnseen ==
    /\ wk.pc = "reap" /\ cq # <<>> /\ Head(cq) # Notifier
    /\ DoneFor(ctxReq[Head(cq)], ctxReq[Head(cq)])
    /\ wk' = [wk EXCEPT !.pc = "top"]
    /\ UNCHANGED <<queue, unsubmit, efd, fdPool, ctxPool, ctxReq, ringVars, stopVars, accepted>>

\* A completion: done_ with its result; the context is free.
ReapRequest ==
    /\ wk.pc = "reap" /\ cq # <<>> /\ Head(cq) # Notifier
    /\ DoneFor(ctxReq[Head(cq)], ctxReq[Head(cq)])
    /\ ctxPool' = Release(ctxPool, Head(cq), Iodepth)
    /\ ctxReq' = [x \in DOMAIN ctxReq \ {Head(cq)} |-> ctxReq[x]]
    /\ cq' = Tail(cq)
    /\ Turn(1, wk.rearm)
    /\ UNCHANGED <<queue, unsubmit, efd, fdPool, kernel, stopVars, accepted>>

\* The notifier: the counter is read, which would block at zero.
ReapNotifier ==
    /\ wk.pc = "reap" /\ cq # <<>> /\ Head(cq) = Notifier
    /\ efd > 0
    /\ efd' = 0
    /\ cq' = Tail(cq)
    /\ Turn(1, TRUE)
    /\ UNCHANGED <<callerVars, queue, unsubmit, fdVal, ctxPool, ctxReq, kernel, stopVars,
                   accepted, done>>

\* Mutation: no limit on what the kernel has not completed.
MutMayTakeMore == Len(wk.batch) + wk.sqe < MaxBatch

MayTakeMore == wk.uncompleted < Iodepth /\ Len(wk.batch) + wk.sqe < MaxBatch

TakeRequest ==
    /\ wk.pc = "fill" /\ MayTakeMore /\ queue # <<>>
    /\ queue' = Tail(queue)
    /\ wk' = [wk EXCEPT !.pc = "prepare", !.req = Head(queue)]
    /\ UNCHANGED <<callerVars, unsubmit, efd, fdVal, ctxPool, ctxReq, ringVars, stopVars, accepted,
                   done>>

\* unsubmit_ is decremented, perhaps before the caller has incremented it, and
\* the request gets a context and a place in the submission ring ...
PrepareRequest ==
    LET x == AllocLast(ctxPool, UsedCtxs) IN
    /\ wk.pc = "prepare" /\ Len(sq) < Iodepth
    /\ unsubmit' = (unsubmit - 1) % Word
    /\ ctxPool' = x.pool
    /\ ctxReq' = [y \in DOMAIN ctxReq \cup {x.obj} |->
                     IF y = x.obj THEN wk.req ELSE ctxReq[y]]
    /\ sq' = Append(sq, x.obj)
    /\ wk' = [wk EXCEPT !.pc = "fill", !.batch = Append(@, x.obj), !.req = Unset]
    /\ UNCHANGED <<callerVars, queue, efd, fdVal, kernel, cq, stopVars, accepted, done>>

\* ... or done_ reports that there is none.  (The allocator never fails.)
NoSqe ==
    /\ wk.pc = "prepare" /\ Len(sq) >= Iodepth
    /\ unsubmit' = (unsubmit - 1) % Word
    /\ DoneFor(wk.req, SqeError)
    /\ ctxPool' = Release(AllocLast(ctxPool, UsedCtxs).pool,
                          AllocLast(ctxPool, UsedCtxs).obj, Iodepth)
    /\ wk' = [wk EXCEPT !.pc = "submit", !.req = Unset]
    /\ UNCHANGED <<queue, efd, fdPool, ctxReq, ringVars, stopVars, accepted>>

\* The loop that empties the queue has ended.
ReadyToSubmit == wk.pc = "submit" \/ (wk.pc = "fill" /\ ~(MayTakeMore /\ queue # <<>>))

Total == Len(wk.batch) + wk.sqe

\* wait_block for the next turn.
NextTurn(w) ==
    [w EXCEPT !.pc = "top", !.block = Total < MaxBatch, !.batch = <<>>, !.sqe = 0]

NothingToSubmit ==
    /\ ReadyToSubmit /\ Total = 0
    /\ wk' = NextTurn(wk)
    /\ UNCHANGED <<callerVars, queue, unsubmit, efd, fdVal, ctxPool, ctxReq, ringVars, stopVars,
                   accepted, done>>

\* The kernel takes all that is in the submission ring; assert(ret == total_req).
Submit ==
    /\ ReadyToSubmit /\ Total > 0
    /\ kernel' = kernel \cup Range(sq)
    /\ sq' = <<>>
    /\ wk' = IF Len(sq) = Total
             THEN NextTurn([wk EXCEPT !.rearm = FALSE, !.uncompleted = @ + Total])
             ELSE [wk EXCEPT !.pc = "aborted"]
    /\ UNCHANGED <<callerVars, queue, unsubmit, efd, fdVal, ctxPool, ctxReq, cq, stopVars, accepted,
                   done>>

\* io_uring_submit fails: done_ gets the error for each request of the batch
\* and the contexts are free, but the entries stay in the submission ring.
SubmitFailed ==
    LET reqs == {ctxReq[x] : x \in Range(wk.batch)} IN
    /\ ReadyToSubmit /\ Total > 0 /\ Happens("submit")
    /\ done' = [r \in Request |-> IF r \in reqs THEN done[r] + 1 ELSE done[r]]
    /\ caller' = [c \in Caller |->
                    IF c \in SyncCaller /\ \E r \in reqs : r[1] = c
                    THEN [caller[c] EXCEPT !.ret = SubmitError] ELSE caller[c]]
    /\ fdVal' = [x \in Fd |->
                   fdVal[x] + Cardinality({r \in reqs : r[1] \in SyncCaller /\ caller[r[1]].fd = x})]
    /\ ctxPool' = ReleaseAll(ctxPool, wk.batch, Iodepth)
    /\ ctxReq' = [x \in DOMAIN ctxReq \ Range(wk.batch) |-> ctxReq[x]]
    /\ wk' = NextTurn(wk)
    /\ UNCHANGED <<fdPool, queue, unsubmit, efd, ringVars, stop, accepted>>

-----------------------------------------------------------------------------
\* Stop: the flag, the wake-up, the join.
Stop ==
    /\ \/ stop = "no" /\ Happens("stop") /\ stop' = "set" /\ UNCHANGED efd
       \/ stop = "set" /\ stop' = "notified" /\ efd' = efd + 1 /\ UNCHANGED event
       \/ stop = "notified" /\ wk.pc = "exited" /\ stop' = "joined" /\ UNCHANGED <<efd, event>>
    /\ UNCHANGED <<callerVars, queue, unsubmit, fdVal, workerVars, ringVars, accepted, done>>

-----------------------------------------------------------------------------
CallerStep(c) ==
    Enqueue(c) \/ QueueFull(c) \/ CountRequest(c) \/ Notify(c) \/ SyncReturn(c)

KernelStep == KernelPolls \/ \E x \in kernel : KernelCompletes(x)

WorkerStep ==
    \/ WorkerTop \/ PeekEmpty \/ ReapRequest \/ ReapNotifier \/ TakeRequest
    \/ PrepareRequest \/ NoSqe \/ NothingToSubmit \/ Submit

Next ==
    \/ \E c \in Caller : SyncCall(c) \/ AsyncCall(c) \/ CallerStep(c)
    \/ \E c \in SyncCaller : SyncInterrupted(c)
    \/ KernelStep \/ WorkerStep \/ WaitInterrupted \/ SubmitFailed \/ Stop

\* Threads that run are scheduled, the kernel completes what it was given, and
\* Stop goes on once it is called.
Fairness ==
    /\ \A c \in Caller : WF_vars(CallerStep(c))
    /\ WF_vars(WorkerStep)
    /\ WF_vars(KernelStep)
    /\ WF_vars(stop # "no" /\ Stop)

Spec == Init /\ [][Next]_vars /\ Fairness

-----------------------------------------------------------------------------
\* done_ is called at most once for a request, whatever contexts and rings it
\* went through, and never for one that was refused.
DoneOnce == \A r \in Request : done[r] <= (IF r \in accepted THEN 1 ELSE 0)

\* A synchronous call returns the result of its own request, though eventfds and
\* contexts are reused by other calls, and though submissions fail.  (Not once a
\* signal has interrupted a poll(): that call has no result, and its eventfd
\* goes back to the pool while the worker has still to write to it.)
SyncResult ==
    \A c \in SyncCaller : caller[c].pc = "returned" /\ event # "signal" =>
       caller[c].ret \in {<<c, caller[c].n>>, SqeError, SubmitError}

\* What is idle is free.  An idle eventfd has been drained and belongs to nobody:
\* otherwise the next call that takes it would return before its own request is
\* done.  An idle context is in no ring: the kernel's completion would otherwise
\* find the request of somebody else in it.  (Not for contexts once a submission
\* has failed: they are released while they are in the submission ring.)
IdleIsFree ==
    /\ event # "signal" =>
          \A x \in Range(fdPool) :
             /\ fdVal[x] = 0
             /\ \A c \in SyncCaller : InCall(c) => caller[c].fd # x
    /\ event # "submit" =>
          /\ IsInjective(ctxPool)
          /\ Range(ctxPool) \cap (kernel \cup Range(sq) \cup Range(cq)) = {}

\* uncompleted counts what the kernel has and what it has completed, and stays
\* within the completion ring, which holds twice the depth: an older kernel
\* drops completions that do not fit.  The limit is tested once per request but
\* a whole batch is added afterwards.
CompletionsFit ==
    /\ wk.pc # "aborted" => wk.uncompleted = Cardinality(kernel) + Len(cq)
    /\ Cardinality(kernel) + Len(cq) <= 2 * Iodepth

\* done_ is called for every accepted request, unless Stop comes first: no
\* wake-up is lost between the counter, the eventfd and the rings.
EveryRequestDone ==
    \A r \in Request : r \in accepted ~> done[r] > 0 \/ stop # "no" \/ wk.pc = "aborted"

\* Stop returns: the notifier is armed, or about to be, whenever the worker
\* sleeps.
StopReturns == stop # "no" ~> stop = "joined" \/ wk.pc = "aborted"

=============================================================================
