------------------------------- MODULE Synod -------------------------------
(***************************************************************************)
(* One plog instance of a synod: the proposers and the acceptors of all    *)
(* servers and the network between them.                                   *)
(***************************************************************************)
EXTENDS Acceptor, Proposer

CONSTANTS
    Up,          \* the acceptors that ever run; the others are down for good
    Duplicates   \* the types of request that the network may deliver again

ASSUME NetworkAssumption == Up \subseteq Acceptor /\ Duplicates \subseteq {"PREPARE_REQ", "ACCEPT_REQ"}

vars == <<reqs, rsps, acceptorVars, inst, slaveFast>>

Init ==
    /\ reqs = {} /\ rsps = {}
    /\ AcceptorInit
    /\ ProposerInit

\* Request m may reach acceptor a (every handled request has a response,
\* except a CHOSEN one, which changes nothing the second time).
Delivered(a, m) ==
    m.type \in Duplicates \/ \A r \in rsps : r.from = a => r.req # m

\* Some acceptor's worker handles a request.
AcceptorNext ==
    \E a \in Up : \E m \in {n \in reqs : Delivered(a, n)} :
       \/ PrepareLags(a, m) /\ UNCHANGED proposerVars
       \/ PrepareSeesVote(a, m) /\ UNCHANGED proposerVars
       \/ PrepareSeesPromise(a, m) /\ UNCHANGED proposerVars
       \/ PrepareNew(a, m) /\ UNCHANGED proposerVars
       \/ AcceptLags(a, m) /\ UNCHANGED proposerVars
       \/ AcceptVotes(a, m) /\ UNCHANGED proposerVars
       \/ AcceptDuplicate(a, m) /\ UNCHANGED proposerVars
       \/ AcceptRefused(a, m) /\ UNCHANGED proposerVars
       \/ HandleChosenReq(a, m) /\ UNCHANGED proposerVars

\* Some acceptor's server crashes and comes back.
AcceptorCrash == \E a \in Up : CrashAcceptor(a) /\ UNCHANGED proposerVars

\* A proposer is called, gets a response, runs into its timeout or restarts.
ProposerNext ==
    \E p \in Proposer :
       \/ \E kind \in CallKinds :
            ProposePrepare(p, kind) /\ UNCHANGED acceptorVars
       \/ ProposeAccept(p) /\ UNCHANGED acceptorVars
       \/ \E r \in rsps :
            \/ HandlePrepareRsp(p, r) /\ UNCHANGED acceptorVars
            \/ HandleAcceptRsp(p, r) /\ UNCHANGED acceptorVars
       \/ Timeout(p) /\ UNCHANGED acceptorVars
       \/ Restart(p) /\ UNCHANGED acceptorVars

\* The application reports to a proposer an entry that some server's plog
\* holds as chosen: its own after a restart, or one written by a peer.
ChosenNotify ==
    \E p \in Proposer, a \in Acceptor, e \in Entry, fromPlog \in BOOLEAN :
         /\ ent[a][e].acc # None
         /\ ent[a][e].acc.status = "CHOSEN"
         /\ OnEntryChosen(p, ent[a][e].acc, fromPlog)
         /\ UNCHANGED acceptorVars

Next == AcceptorNext \/ AcceptorCrash \/ ProposerNext \/ ChosenNotify

Spec == Init /\ [][Next]_vars

-----------------------------------------------------------------------------
\* The types of all variables.
TypeOK == NetTypeOK /\ AcceptorTypeOK /\ ProposerTypeOK

\* A majority of the acceptors reported the vote v as accepted.
Chosen(v) == IsMajority({a \in Acceptor : v \in votes[a]})

\* Every vote cast so far.
AllVotes == UNION {votes[a] : a \in Acceptor}

ChosenVotes == {v \in AllVotes : Chosen(v)}

\* The agreement of Paxos: no two values are chosen for one entry.
\* canSkipPrepare is meant to keep it ("this ensure one-phase paxos will not
\* succeed ... an entry which already has accepted value in remote peers").
Agreement ==
    \A v, w \in ChosenVotes :
       v.entry = w.entry => v.proposer = w.proposer /\ v.val = w.val

\* Agreement for every entry that no proposer other than the master fast
\* accepts: the promises of handlePrepareReq, the renewals of handleAcceptReq,
\* the master's one-phase proposals, reused pids, restarts of proposers and
\* crashes of acceptors never make two values chosen there.  Where a save may
\* fail this holds only without crashes.
AgreementUnlessSlaveFast ==
    \A v, w \in ChosenVotes :
       v.entry = w.entry /\ v.entry \notin slaveFast => v = w

\* The entries for which the synod promises nothing: some proposer other than
\* the master fast accepted there, or some acceptor has forgotten a promise
\* that handlePrepareReq kept in memory when its save failed, and showed.
VoidEntries == slaveFast \cup UNION {forgot[a] : a \in Acceptor}

\* Agreement for every other entry, whatever saves fail and whoever crashes.
AgreementUnlessVoid ==
    \A v, w \in ChosenVotes :
       v.entry = w.entry /\ v.entry \notin VoidEntries => v = w

\* A plog entry that handleChosenReq marked CHOSEN holds a value that a
\* majority accepted, though the request named it by pid and value id only.
MarkedIsChosen ==
    \A a \in Acceptor, e \in Entry :
       LET pp == ent[a][e].acc IN
       pp # None /\ pp.status = "CHOSEN" => Chosen(Vote(pp))

\* What a proposer takes for the last chosen entry was chosen, and by the
\* proposer it takes to have proposed it: canSkipPrepare builds on both.
ChosenInfoSound ==
    \A p \in Proposer :
       inst[p].lastEntry > 0 =>
          \E v \in ChosenVotes : /\ v.entry = inst[p].lastEntry
                                  /\ v.proposer = inst[p].lastFrom

\* The catch-up signal of an acceptor (global_max_chosen_entry_) names a
\* chosen entry and is never behind its own last chosen entry, which
\* IsLocalChosenLagBehind compares it with.
LagSignalSound ==
    \A a \in Acceptor :
       /\ lastChosen[a] <= globalMax[a]
       /\ globalMax[a] > 0 => \E v \in ChosenVotes : v.entry = globalMax[a]

\* A write answered OK has been chosen.
OkMeansChosen ==
    \A p \in Proposer :
       inst[p].ret = <<"OK">> =>
          \E v \in ChosenVotes : v.proposer = p /\ v.val = inst[p].calls

\* An acceptor that answered a prepare request with a promise never again
\* votes below it, though handleAcceptReq clears promised_ with every vote and
\* a crash leaves only what was saved, unless it has forgotten the promise.
PromiseKept ==
    [][\A a \in Acceptor : \A v \in votes'[a] \ votes[a] : \A r \in rsps :
         /\ r.from = a /\ r.type = "PREPARE_RSP" /\ Promised(r)
         /\ r.req.prop.entry = v.entry /\ v.entry \notin forgot[a]
         => v.pid >= r.prop.pid]_vars

\* Once marked CHOSEN an entry of a plog never changes again, by no request and
\* by no crash.
ChosenStays ==
    [][\A a \in Acceptor, e \in Entry :
         LET pp == ent[a][e].acc IN
         pp # None /\ pp.status = "CHOSEN" => ent'[a][e].acc = pp]_vars

\* A response that carries the acceptor's last vote, cast under a pid that is
\* not larger than the request's, counts towards the prepare majority.
LastVoteCounts ==
    [][\A p \in Proposer, r \in rsps :
         /\ r.type = "PREPARE_RSP" /\ r.err = "OK" /\ r.prop.val # 0
         /\ <<r.from, r.req>> \in inst'[p].heard \ inst[p].heard
         /\ r.prop.pid <= inst[p].req.pid
         => r.from \in inst'[p].valid]_vars

=============================================================================
