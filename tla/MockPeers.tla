----------------------------- MODULE MockPeers -----------------------------
(***************************************************************************)
(* One proposer of Proposer against peers that may answer anything, the   *)
(* way test/test_proposer.cpp drives core/proposer.cpp with fake           *)
(* connections: last votes of several pids, larger promises, refusals and  *)
(* acceptances of something else.                                          *)
(***************************************************************************)
EXTENDS Proposer

CONSTANTS
    Self,       \* the proposer under test
    Peer,       \* the proposer whose values the peers voted for before
    VotePids    \* the pids of those votes

ASSUME MockAssumption ==
    Self \in Proposer /\ Peer \in Proposer /\ VotePids \subseteq Nat \ {0}

VARIABLE seen   \* history: pids of the last votes of the call in progress

mockVars == <<reqs, rsps, inst, slaveFast, seen>>

Init == reqs = {} /\ rsps = {} /\ ProposerInit /\ seen = {}

\* The vote for Peer's value that was cast under pid v (fake_rsp_).
OldVote(pp, v) ==
    [pp EXCEPT !.pid = v, !.vid = 100 + v, !.val = v, !.proposer = Peer]

\* What a peer may answer to a prepare request for pp: an error code and a
\* proposal.
PrepareAnswers(pp) ==
    {<<"REMOTE_NEED_CATCHUP", [pp EXCEPT !.status = "REMOTE_LAG_BEHIND"]>>,
     <<"OK", [pp EXCEPT !.status = "PROMISED"]>>,
     <<"OK", [pp EXCEPT !.status = "PROMISED", !.pid = @ + NumProposer + 1,
                 !.term = @ + 1]>>}
    \cup {<<"OK", [OldVote(pp, v) EXCEPT !.status = "PROMISED"]>> : v \in VotePids}

\* What a peer may answer to an accept request for pp.
AcceptAnswers(pp) ==
    {<<"WRITE_PLOG_FAIL", [pp EXCEPT !.status = "ACCEPTED_FAILED"]>>,
     <<"OK", [pp EXCEPT !.status = "ACCEPTED_FAILED"]>>,
     <<"OK", [pp EXCEPT !.status = "ACCEPTED"]>>,
     <<"OK", [pp EXCEPT !.status = "ACCEPTED", !.pid = @ + 1]>>,
     <<"OK", [pp EXCEPT !.status = "ACCEPTED", !.vid = @ + 1]>>}

\* The responses that answer request m.
PrepareRspsTo(m) ==
    {[type |-> "PREPARE_RSP", req |-> m, from |-> a, err |-> ans[1], prop |-> ans[2]] :
        a \in Acceptor, ans \in PrepareAnswers(m.prop)}

AcceptRspsTo(m) ==
    {[type |-> "ACCEPT_RSP", req |-> m, from |-> a, err |-> ans[1], prop |-> ans[2]] :
        a \in Acceptor, ans \in AcceptAnswers(m.prop)}

\* Every response of a peer that the proposer could be handed now.
Answers ==
    (UNION {PrepareRspsTo(m) : m \in {n \in reqs : n.type = "PREPARE_REQ"}})
    \cup (UNION {AcceptRspsTo(m) : m \in {n \in reqs : n.type = "ACCEPT_REQ"}})

\* A new call starts with no last vote seen.
Call ==
    \/ \E kind \in CallKinds : ProposePrepare(Self, kind) /\ seen' = {}
    \/ ProposeAccept(Self) /\ seen' = {}

\* A usable response may carry a last vote.
Seen(r) == seen' = IF IsLastVote(Self, r) THEN seen \cup {r.prop.pid} ELSE seen

TakeResponse(r) ==
    \/ PrepareRspFailed(Self, r) /\ UNCHANGED seen
    \/ PrepareRspRejected(Self, r) /\ UNCHANGED seen
    \/ PrepareRspAccepts(Self, r) /\ Seen(r)
    \/ PrepareRspProbed(Self, r) /\ UNCHANGED seen
    \/ PrepareRspWaits(Self, r) /\ Seen(r)
    \/ AcceptRspFailed(Self, r) /\ UNCHANGED seen
    \/ AcceptRspRejected(Self, r) /\ UNCHANGED seen
    \/ AcceptRspOther(Self, r) /\ UNCHANGED seen
    \/ AcceptRspChosen(Self, r) /\ UNCHANGED seen
    \/ AcceptRspWaits(Self, r) /\ UNCHANGED seen

\* The peers' plogs tell that Peer's value was chosen for entry e.
MockChosen(e) ==
    /\ OnEntryChosen(Self, [ZeroProposal EXCEPT !.entry = e, !.proposer = Peer], FALSE)
    /\ UNCHANGED seen

TimerFires == Timeout(Self) /\ UNCHANGED seen

Next ==
    \/ Call
    \/ \E r \in Answers : TakeResponse(r)
    \/ \E e \in Entry : MockChosen(e)
    \/ TimerFires

\* The timing wheel's thread keeps running and its notification is handled;
\* nothing is assumed of the peers or of the network.
Spec == Init /\ [][Next]_mockVars /\ WF_mockVars(TimerFires)

-----------------------------------------------------------------------------
\* The accept request that ends a prepare round is for the vote with the
\* largest pid of all that handled responses carried, and for the proposer's
\* own value only if none carried one.
AdoptsLargestVote ==
    [][\A m \in reqs' \ reqs :
         m.type = "ACCEPT_REQ" /\ inst[Self].req # None =>
           IF seen' = {}
           THEN m.prop.proposer = Self /\ m.prop.val = inst[Self].calls
           ELSE /\ m.prop.proposer = Peer
                /\ m.prop.val \in seen' /\ \A v \in seen' : v <= m.prop.val]_mockVars

\* Every call ends with one answer to the client, whatever the peers answer
\* or fail to answer: the timer armed in setupWaitState sees to it.
EveryCallAnswered ==
    inst[Self].req # None ~> inst[Self].req = None /\ Len(inst[Self].ret) = 1

=============================================================================
