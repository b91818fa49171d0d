------------------------------ MODULE Proposer ------------------------------
(***************************************************************************)
(* core/proposer.cpp for one plog instance.  Every entry point             *)
(* (ProposeAsync, OnEntryChosen, handleRpcResponse) holds the instance's   *)
(* mutex from beginning to end, so each one is one atomic step.            *)
(*                                                                         *)
(* Steps that change nothing are left out: a Propose call while another is *)
(* in progress (answered WORKING_IN_PROGRESS), a response that             *)
(* handleRpcResponse drops, and a CHOSEN response (req_ is already reset   *)
(* when it arrives, and a later call has a larger term).  pid_cookie_ is   *)
(* taken to be 0, its default.                                             *)
(***************************************************************************)
EXTENDS PaxosMsgs, IdGen, Sequences

CONSTANTS
    CallKinds,    \* what clients ask for, of {"write", "probe"}
    ClockStart,   \* ClockStart[p][k]: first value id of the k-th run of p's
                  \* process, read from the clock by IdGenByDate
    MaxCalls,     \* bound: MaxCalls[p] Propose calls of proposer p
    MaxInc        \* bound: restarts per proposer

ASSUME ProposerAssumption ==
    /\ CallKinds \subseteq {"write", "probe"}
    /\ ClockStart \in [Proposer -> [0 .. MaxInc -> Nat]]
    /\ MaxCalls \in [Proposer -> Nat]
    /\ MaxInc \in Nat

VARIABLES
    inst,         \* inst[p]: struct InstanceState of proposer p
    slaveFast     \* history: entries for which a proposer other than the
                  \* master sent an accept request without a prepare

proposerVars == <<inst, slaveFast>>

\* struct InstanceState, with last_chosen_entry_ (lastEntry),
\* last_chosen_from_ (lastFrom, -1 for ~0u), the current ids of ig_ and vig_,
\* and state_ split into the phase and its 0x80 bit (notified).  rsp_count_
\* and valid_rsp_count_ are the sizes of heard and valid; the connection
\* delivers at most one response per acceptor and request, so sets count
\* right.  ret is what ret_ was set to for the latest call; calls and inc are
\* history: calls so far, and which run of the process this is.
InstanceState ==
    [lastEntry : Nat, lastFrom : Int, term : Nat, ig : Nat \ {0}, vig : Nat,
     phase : {"PREPARING", "ACCEPTING", "ABORTED"}, notified : BOOLEAN,
     req : Proposal \cup {None}, lastv : Proposal \cup {None},
     heard : SUBSET (Acceptor \X Request), valid : SUBSET Acceptor,
     calls : Nat, ret : Seq(ErrCode), inc : Nat]

\* InstanceState(pid, proposer_count), in the k-th run of p's process.
NewInstance(p, k, calls, ret) ==
    [lastEntry |-> 0, lastFrom |-> -1, term |-> 0, ig |-> p + 1,
     vig |-> ClockStart[p][k], phase |-> "PREPARING", notified |-> FALSE,
     req |-> None, lastv |-> None, heard |-> {}, valid |-> {},
     calls |-> calls, ret |-> ret, inc |-> k]

ProposerInit ==
    /\ inst = [p \in Proposer |-> NewInstance(p, 0, 0, <<>>)]
    /\ slaveFast = {}

-----------------------------------------------------------------------------
\* doBatchRpcRequest: one broadcast.  The response callback remembers the
\* message's term, so the request itself tells which term it reports.
Send(p, type, pp) ==
    reqs' = reqs \cup {[type |-> type, src |-> p, inc |-> inst[p].inc, prop |-> pp]}

\* Mutation: the early answer is forgotten.
MutAnswerAgain(st, code) == [st EXCEPT !.ret = Append(@, code)]

\* ret_.set_value(code), unless the client has been answered early.
Answer(st, code) ==
    [st EXCEPT !.ret = IF st.notified THEN @ ELSE Append(@, code)]

\* Mutation: req_ is not reset.
MutNoReset(st, code) == Answer(st, code)

\* The end of a call: req_.reset() and the answer.  The counters and
\* state_ are dead until the next call sets them; clearing them merges states.
Finish(st, code) ==
    [Answer(st, code) EXCEPT !.req = None, !.phase = "PREPARING",
                             !.notified = FALSE, !.heard = {}, !.valid = {}]

\* setupWaitState for an accept round: both counters start again.
ToAccepting(st) ==
    [st EXCEPT !.phase = "ACCEPTING", !.heard = {}, !.valid = {}]

\* Mutation: the generator starts again one too low.
MutResetLow(st, p, chosen, from) ==
    IF chosen = 0 \/ chosen < st.lastEntry
    THEN st
    ELSE [st EXCEPT !.ig = p, !.lastEntry = chosen, !.lastFrom = from]

\* Mutation: whoever is told takes itself for the proposer of the entry.
MutFromSelf(st, p, chosen, from) ==
    IF chosen = 0 \/ chosen < st.lastEntry
    THEN st
    ELSE [st EXCEPT !.ig = p + 1, !.lastEntry = chosen, !.lastFrom = p]

\* UpdateChosenInfo.
UpdateChosenInfo(st, p, chosen, from) ==
    IF chosen = 0 \/ chosen < st.lastEntry
    THEN st
    ELSE [st EXCEPT !.ig = p + 1, !.lastEntry = chosen, !.lastFrom = from]

\* UpdatePrepareId.
UpdatePrepareId(st, pid) ==
    [st EXCEPT !.ig = SetGreaterThan(@, NumProposer, pid)]

-----------------------------------------------------------------------------
\* allocPaxosMsg: the proposal of p's next call.  A read probe carries no
\* value and consumes no proposal id.
AllocProposal(p, kind) ==
    LET st == inst[p]
        write == kind = "write"
    IN [entry |-> st.lastEntry + 1,
        pid |-> IF write THEN st.ig ELSE 0,
        term |-> st.term,
        vid |-> st.vig,
        val |-> IF write THEN st.calls + 1 ELSE 0,
        proposer |-> p,
        last |-> st.lastEntry,
        status |-> "PREPARED"]

\* The generators after allocPaxosMsg, and setupWaitState for a new call.
BeginCall(p, kind, phase, pp) ==
    [inst[p] EXCEPT
        !.ig = IF kind = "write" THEN NextId(@, NumProposer) ELSE @,
        !.vig = NextId(@, 1), !.term = @ + 1, !.req = pp,
        !.phase = phase, !.notified = FALSE, !.heard = {}, !.valid = {},
        !.calls = @ + 1, !.ret = <<>>]

\* canSkipPrepare: p proposed the last chosen entry and this is its first
\* proposal for the next one.
CanSkipPrepare(p, pp) ==
    /\ inst[p].lastEntry = pp.entry - 1
    /\ inst[p].lastFrom = p
    /\ pp.pid = p + 1

MayPropose(p) ==
    /\ inst[p].req = None
    /\ inst[p].phase # "ABORTED"
    /\ inst[p].calls < MaxCalls[p]
    /\ inst[p].lastEntry < MaxEntry

\* ProposeAsync, two phases: the prepare request carries no value.
ProposePrepare(p, kind) ==
    LET pp == AllocProposal(p, kind) IN
    /\ MayPropose(p)
    /\ kind = "probe" \/ ~CanSkipPrepare(p, pp)
    /\ Send(p, "PREPARE_REQ", [pp EXCEPT !.val = 0])
    /\ inst' = [inst EXCEPT ![p] = BeginCall(p, kind, "PREPARING", pp)]
    /\ UNCHANGED <<rsps, slaveFast>>

\* ProposeAsync, one phase.
ProposeAccept(p) ==
    LET pp == [AllocProposal(p, "write") EXCEPT !.status = "ACCEPTED"] IN
    /\ "write" \in CallKinds
    /\ MayPropose(p)
    /\ CanSkipPrepare(p, pp)
    /\ Send(p, "ACCEPT_REQ", pp)
    /\ inst' = [inst EXCEPT ![p] = BeginCall(p, "write", "ACCEPTING", pp)]
    /\ slaveFast' = IF p = 0 THEN slaveFast ELSE slaveFast \cup {pp.entry}
    /\ UNCHANGED rsps

-----------------------------------------------------------------------------
\* handleRpcResponse: what is not dropped.  The callback that brings r was
\* registered by this run of p's process and fires once per acceptor.
Expected(p, r) ==
    /\ inst[p].req # None
    /\ r.req.src = p
    /\ r.req.inc = inst[p].inc
    /\ r.req.prop.term = inst[p].term - 1
    /\ <<r.from, r.req>> \notin inst[p].heard

\* rsp_count_++, and done once every acceptor has answered.
Heard(st, r) == [st EXCEPT !.heard = @ \cup {<<r.from, r.req>>}]
AllHeard(st) == Cardinality(st.heard) = Cardinality(Acceptor)
FinishIfDone(st, code) == IF AllHeard(st) THEN Finish(st, code) ELSE st

\* Both handlers, past the checks that leave req_ alone.
Noted(p, r) == [Heard(inst[p], r) EXCEPT !.req = CopyProposalMeta(@, r.prop)]

-----------------------------------------------------------------------------
\* handlePrepareRsp looks at r only while preparing (a late one, arriving in
\* the accept phase, fails handleAcceptRsp's type check).
PrepareRsp(p, r) ==
    /\ Expected(p, r)
    /\ inst[p].phase = "PREPARING"
    /\ r.type = "PREPARE_RSP"

\* Mutation: the status of the response is not looked at.
MutAnyStatus(r) == r.err = "OK"

Promised(r) == r.err = "OK" /\ r.prop.status = "PROMISED"

\* handlePrepareRsp: an error, or a status other than PROMISED.
PrepareRspFailed(p, r) ==
    /\ PrepareRsp(p, r)
    /\ ~Promised(r)
    /\ inst' = [inst EXCEPT ![p] = FinishIfDone(Heard(@, r), "PREPARE_NOT_QUORUM")]
    /\ UNCHANGED <<reqs, rsps, slaveFast>>

\* handlePrepareRsp: a larger promise.  Its term has been copied by then.
PrepareRspRejected(p, r) ==
    /\ PrepareRsp(p, r)
    /\ Promised(r)
    /\ r.prop.pid > inst[p].req.pid
    /\ inst' = [inst EXCEPT ![p] =
                  FinishIfDone(UpdatePrepareId(Noted(p, r), r.prop.pid),
                               "PREPARE_NOT_QUORUM")]
    /\ UNCHANGED <<reqs, rsps, slaveFast>>

PrepareRspCounts(p, r) ==
    /\ PrepareRsp(p, r)
    /\ Promised(r)
    /\ r.prop.pid <= inst[p].req.pid

\* r carries the vote of another value (or, for want of data, claims to).
IsLastVote(p, r) == r.prop.vid # inst[p].req.vid

\* handlePrepareRsp: assert(rsp_proposal->size_ > 0) fails and the process
\* aborts; whoever waits for the call is gone with it.
PrepareRspAborts(p, r) ==
    /\ PrepareRspCounts(p, r)
    /\ IsLastVote(p, r)
    /\ r.prop.val = 0
    /\ inst' = [inst EXCEPT ![p] =
                  [Finish(@, "CRASHED") EXCEPT !.phase = "ABORTED"]]
    /\ UNCHANGED <<reqs, rsps, slaveFast>>

\* Mutation: the last vote kept is the latest one, whatever its pid.
MutKeepLatest(p, r) ==
    LET st == [Noted(p, r) EXCEPT !.valid = @ \cup {r.from}] IN
    IF ~IsLastVote(p, r) THEN st
    ELSE [Answer(st, "PREPARE_PEER_VALUE") EXCEPT !.notified = TRUE, !.lastv = r.prop]

\* handlePrepareRsp up to valid_rsp_count_++: a first last vote answers the
\* client at once, and the one with the largest pid is kept in lastv_.
Counted(p, r) ==
    LET st == [Noted(p, r) EXCEPT !.valid = @ \cup {r.from}] IN
    IF ~IsLastVote(p, r) THEN st
    ELSE [Answer(st, "PREPARE_PEER_VALUE") EXCEPT
            !.notified = TRUE,
            !.lastv = IF ~st.notified \/ @.pid < r.prop.pid THEN r.prop ELSE @]

\* should_do_accept: with a last vote in hand, only after the last response.
Enough(st) == IsMajority(st.valid) /\ (st.notified => AllHeard(st))

UsableRsp(p, r) ==
    /\ PrepareRspCounts(p, r)
    /\ IsLastVote(p, r) => r.prop.val # 0

\* handlePrepareRsp: send the accept request, for the last vote under its old
\* pid and term if there is one, else for p's own value.
PrepareRspAccepts(p, r) ==
    LET st == Counted(p, r)
        m == [(IF st.notified THEN st.lastv ELSE st.req) EXCEPT
                !.status = "ACCEPTED", !.last = st.lastEntry]
    IN
    /\ UsableRsp(p, r)
    /\ Enough(st)
    /\ r.prop.pid > 0
    /\ Send(p, "ACCEPT_REQ", m)
    /\ inst' = [inst EXCEPT ![p] =
                  [ToAccepting(st) EXCEPT !.lastv = None,
                                          !.req = IF st.notified THEN @ ELSE m]]
    /\ UNCHANGED <<rsps, slaveFast>>

\* handlePrepareRsp: a majority has answered a read probe.
PrepareRspProbed(p, r) ==
    /\ UsableRsp(p, r)
    /\ Enough(Counted(p, r))
    /\ r.prop.pid = 0
    /\ inst' = [inst EXCEPT ![p] = Finish(Counted(p, r), "OK")]
    /\ UNCHANGED <<reqs, rsps, slaveFast>>

\* handlePrepareRsp: not enough yet; if r was the last response the call ends
\* with r's own return code, which is OK.
PrepareRspWaits(p, r) ==
    /\ UsableRsp(p, r)
    /\ ~Enough(Counted(p, r))
    /\ inst' = [inst EXCEPT ![p] = FinishIfDone(Counted(p, r), "OK")]
    /\ UNCHANGED <<reqs, rsps, slaveFast>>

HandlePrepareRsp(p, r) ==
    \/ PrepareRspFailed(p, r)
    \/ PrepareRspRejected(p, r)
    \/ PrepareRspAborts(p, r)
    \/ PrepareRspAccepts(p, r)
    \/ PrepareRspProbed(p, r)
    \/ PrepareRspWaits(p, r)

-----------------------------------------------------------------------------
AcceptRsp(p, r) ==
    /\ Expected(p, r)
    /\ inst[p].phase = "ACCEPTING"
    /\ r.type = "ACCEPT_RSP"

\* Mutation: the error code of the response is not looked at.
MutAnyCode(r) == r.prop.status = "ACCEPTED"

Accepted(r) == r.err = "OK" /\ r.prop.status = "ACCEPTED"

\* handleAcceptRsp: an error, or a status other than ACCEPTED.
AcceptRspFailed(p, r) ==
    /\ AcceptRsp(p, r)
    /\ ~Accepted(r)
    /\ inst' = [inst EXCEPT ![p] =
                  FinishIfDone(Heard(@, r),
                               IF r.err # "OK" THEN r.err ELSE "PEER_ACCEPT_FAIL")]
    /\ UNCHANGED <<reqs, rsps, slaveFast>>

\* handleAcceptRsp: the acceptor accepted under another pid.
AcceptRspRejected(p, r) ==
    /\ AcceptRsp(p, r)
    /\ Accepted(r)
    /\ r.prop.pid # inst[p].req.pid
    /\ inst' = [inst EXCEPT ![p] =
                  FinishIfDone(UpdatePrepareId(Noted(p, r), r.prop.pid),
                               "PEER_ACCEPT_REJECTED")]
    /\ UNCHANGED <<reqs, rsps, slaveFast>>

\* handleAcceptRsp: the acceptor accepted another value under the same pid.
AcceptRspOther(p, r) ==
    /\ AcceptRsp(p, r)
    /\ Accepted(r)
    /\ r.prop.pid = inst[p].req.pid
    /\ r.prop.vid # inst[p].req.vid
    /\ inst' = [inst EXCEPT ![p] =
                  FinishIfDone(Noted(p, r), "PEER_ACCEPT_OTHER_VALUE")]
    /\ UNCHANGED <<reqs, rsps, slaveFast>>

AcceptRspCounts(p, r) ==
    /\ AcceptRsp(p, r)
    /\ Accepted(r)
    /\ r.prop.pid = inst[p].req.pid
    /\ r.prop.vid = inst[p].req.vid

\* valid_rsp_count_++.
CountedAccept(p, r) == [Noted(p, r) EXCEPT !.valid = @ \cup {r.from}]

\* handleAcceptRsp: the majority is reached; tell everyone, and note the
\* entry as the last chosen one.
AcceptRspChosen(p, r) ==
    LET st == CountedAccept(p, r) IN
    /\ AcceptRspCounts(p, r)
    /\ IsMajority(st.valid)
    /\ Send(p, "CHOSEN_REQ", [r.prop EXCEPT !.val = 0, !.status = "CHOSEN"])
    /\ inst' = [inst EXCEPT ![p] =
                  Finish(UpdateChosenInfo(st, p, r.prop.entry, r.prop.proposer),
                         "OK")]
    /\ UNCHANGED <<rsps, slaveFast>>

\* handleAcceptRsp: no majority yet; if r was the last response the call ends
\* with r's own return code, which is OK.
AcceptRspWaits(p, r) ==
    /\ AcceptRspCounts(p, r)
    /\ ~IsMajority(CountedAccept(p, r).valid)
    /\ inst' = [inst EXCEPT ![p] = FinishIfDone(CountedAccept(p, r), "OK")]
    /\ UNCHANGED <<reqs, rsps, slaveFast>>

HandleAcceptRsp(p, r) ==
    \/ AcceptRspFailed(p, r)
    \/ AcceptRspRejected(p, r)
    \/ AcceptRspOther(p, r)
    \/ AcceptRspChosen(p, r)
    \/ AcceptRspWaits(p, r)

-----------------------------------------------------------------------------
\* Mutation: the timer only ends the first phase.
MutTimeoutPrepare(p) ==
    /\ inst[p].req # None
    /\ inst[p].phase = "PREPARING"
    /\ inst' = [inst EXCEPT ![p] = [Finish(@, "TIMEOUT") EXCEPT !.lastv = None]]
    /\ UNCHANGED <<reqs, rsps, slaveFast>>

\* handleRpcResponse with no message: the timer of the call in progress.  It
\* is armed by setupWaitState once per call, under the call's own term.
Timeout(p) ==
    /\ inst[p].req # None
    /\ inst' = [inst EXCEPT ![p] = [Finish(@, "TIMEOUT") EXCEPT !.lastv = None]]
    /\ UNCHANGED <<reqs, rsps, slaveFast>>

\* OnEntryChosen: proposer p is told that pp was chosen.  What comes from the
\* plog is only for the master.
OnEntryChosen(p, pp, fromPlog) ==
    /\ fromPlog => p = 0
    /\ inst[p].phase # "ABORTED"
    /\ inst' = [inst EXCEPT ![p] =
                  UpdateChosenInfo(@, p, pp.entry, pp.proposer)]
    /\ UNCHANGED <<reqs, rsps, slaveFast>>

\* The process of p stops and starts again: its proposer keeps nothing.
Restart(p) ==
    LET st == inst[p] IN
    /\ st.inc < MaxInc
    /\ inst' = [inst EXCEPT ![p] =
                  NewInstance(p, st.inc + 1, st.calls,
                              IF st.req # None
                              THEN Answer(st, "CRASHED").ret ELSE st.ret)]
    /\ UNCHANGED <<reqs, rsps, slaveFast>>

-----------------------------------------------------------------------------
\* The types of the proposer's variables.
ProposerTypeOK ==
    /\ inst \in [Proposer -> InstanceState]
    /\ slaveFast \subseteq Nat

\* Proposal ids never collide between proposers: whatever larger pid
\* SetGreaterThan was given and however often Reset ran, p only uses ids
\* congruent to its own first one.
OwnPids ==
    \A m \in reqs :
       m.prop.pid > 0 => (m.prop.pid - 1) % NumProposer = m.prop.proposer

\* A client is answered exactly once per call (a second set_value on ret_
\* would throw), early or when the call ends, and never left without.
AnsweredOnce ==
    \A p \in Proposer :
       LET st == inst[p] IN
       Len(st.ret) = IF st.calls > 0 /\ (st.req = None \/ st.notified)
                     THEN 1 ELSE 0

=============================================================================
