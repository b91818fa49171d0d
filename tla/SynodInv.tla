------------------------------ MODULE SynodInv ------------------------------
(***************************************************************************)
(* The inductive invariants of Synod: BallotInv behind the agreement, and  *)
(* IdsInv with LearnInv behind what the servers take for chosen.  TLC      *)
(* checks them on small instances; SynodProofs proves them for all.        *)
(***************************************************************************)
EXTENDS Synod

\* No vote below pid b is cast from an entry like this: a promise or a vote
\* stands in the way, or a status that no vote renews, that of a chosen vote
\* or of the zeroed one of a promise that was loaded.
Holds(x, b) ==
    IF x.acc = None
    THEN x.prom # None /\ x.prom.pid >= b
    ELSE x.acc.status # "ACCEPTED" \/ x.acc.pid >= b

\* A vote, and not the zeroed one of a promise that was loaded.
HasVote(x) == x.acc # None /\ x.acc.status # "INIT"

\* Acceptor a will never again vote below pid b for entry e, and has not done
\* so: what a promise of handlePrepareReq is worth once promised_ may be gone.
\* A crash leaves what the disk holds; a promise that is not there is
\* forgotten if it was shown.
Closed(a, e, b) ==
    \/ e \in forgot[a]
    \/ /\ \A v \in votes[a] : v.entry = e => v.pid >= b
       /\ Holds(ent[a][e], b)
       /\ Holds(disk[a][e], b) \/ (disk[a][e] = EmptyEntry /\ Shown(a, e))

\* What the parts say of a message or of a piece of state, whatever the rest:
\* prepare requests and promises carry no value, so no proposer ever meets a
\* usable last vote.
ReqShape(m) ==
    m.prop.entry \in Entry /\ (m.type = "PREPARE_REQ" => m.prop.val = 0)

RspShape(r) ==
    /\ r.req \in reqs
    /\ r.type = "PREPARE_RSP" =>
         r.req.type = "PREPARE_REQ" /\ (Promised(r) => r.prop.val = 0)
    /\ r.type = "ACCEPT_RSP" /\ Accepted(r) => r.prop.entry \in Entry

InstShape(st) ==
    ~st.notified /\ (st.req # None => st.req.entry \in Entry)

Shape ==
    /\ \A m \in reqs : ReqShape(m)
    /\ \A r \in rsps : RspShape(r)
    /\ \A a \in Acceptor, e \in Entry :
         /\ ent[a][e].prom # None => ent[a][e].prom.val = 0
         /\ disk[a][e].prom # None => disk[a][e].prom.val = 0
    /\ \A p \in Proposer : InstShape(inst[p])

\* A prepare request of the proposer's current run is older than its term, and
\* the one that handleRpcResponse takes responses to is the call in progress.
CallMatches(m, st) ==
    m.inc = st.inc =>
      /\ m.prop.term < st.term
      /\ st.req # None /\ m.prop.term = st.term - 1 =>
           m.prop.entry = st.req.entry /\ m.prop.pid = st.req.pid

CallInv ==
    \A m \in reqs : m.type = "PREPARE_REQ" =>
       m.inc <= inst[m.src].inc /\ CallMatches(m, inst[m.src])

\* A promise is for at least the requested pid and its acceptor keeps it.
PromiseInv ==
    \A r \in rsps : r.type = "PREPARE_RSP" /\ Promised(r) =>
       /\ r.prop.pid >= r.req.prop.pid
       /\ r.prop.pid > 0 => Closed(r.from, r.req.prop.entry, r.prop.pid)

\* Whoever is counted in a prepare round has promised its pid.
RoundClosed(st) ==
    st.phase = "PREPARING" /\ st.req # None /\ st.req.pid > 0 =>
       \A a \in st.valid : Closed(a, st.req.entry, st.req.pid)

ValidInv == \A p \in Proposer : RoundClosed(inst[p])

\* A vote of pid b was cast from this entry, and a later one may have been.
VotedFrom(x, b) == HasVote(x) /\ b <= x.acc.pid

\* An acceptor's votes for an entry lead up to the one it holds in memory and
\* to the one on disk, one per pid, and each was asked for.
VoteInv ==
    \A a \in Acceptor : \A v \in votes[a] :
       /\ v.entry \in Entry
       /\ VotedFrom(ent[a][v.entry], v.pid)
       /\ VotedFrom(disk[a][v.entry], v.pid)
       /\ \A w \in votes[a] : v.entry = w.entry /\ v.pid = w.pid => v = w
       /\ \E m \in reqs : /\ m.type = "ACCEPT_REQ"
                          /\ m.prop.entry = v.entry /\ m.prop.pid = v.pid

\* When pid b is used to ask for votes in entry e, a majority is closed below
\* it, unless there is nothing below or a slave skipped the prepare phase.
SafeAt(e, b) ==
    \/ e \in slaveFast
    \/ b = 1
    \/ \E Q \in SUBSET Acceptor : IsMajority(Q) /\ \A a \in Q : Closed(a, e, b)

AskInv ==
    \A m \in reqs : m.type = "ACCEPT_REQ" =>
       m.prop.pid >= 1 /\ SafeAt(m.prop.entry, m.prop.pid)

\* What a crash brings back: a row has a vote, be it a zeroed one, and is the
\* row of an entry that has no vote in memory only if that is all it has; what
\* is chosen in memory is chosen on disk and the other way round; and the last
\* of the chosen rows is the last chosen entry of the counters.
IsChosen(x) == x.acc # None /\ x.acc.status = "CHOSEN"

RowInv(a, e) ==
    /\ disk[a][e].acc = None => disk[a][e] = EmptyEntry
    /\ ent[a][e].acc = None => ~HasVote(disk[a][e])
    /\ IsChosen(ent[a][e]) \/ IsChosen(disk[a][e]) => ent[a][e].acc = disk[a][e].acc

DiskInv ==
    /\ \A a \in Acceptor, e \in Entry : RowInv(a, e)
    /\ \A a \in Acceptor : /\ lastChosen[a] \in {0} \cup ChosenRows(a)
                            /\ \A e \in ChosenRows(a) : e <= lastChosen[a]

\* Everything that keeps two values from being chosen: the promises given, the
\* rounds counted, the votes cast, the rows behind them and the votes asked
\* for, together closed under every step of proposers and acceptors.
BallotInv ==
    /\ Shape /\ CallInv /\ PromiseInv /\ ValidInv /\ VoteInv /\ DiskInv /\ AskInv

\* Nothing that was shown can be lost: no crash, or no save that fails.
NothingLost == MaxCrash = 0 \/ FALSE \notin SaveOutcomes

\* Then nothing is forgotten: an entry without a row is empty in memory as
\* well, and no promise was shown for it.
SavedInv ==
    \A a \in Acceptor :
       /\ forgot[a] = {}
       /\ MaxCrash > 0 =>
            \A e \in Entry : disk[a][e] = EmptyEntry =>
               ent[a][e] = EmptyEntry /\ ~Shown(a, e)

-----------------------------------------------------------------------------
\* The value ids of two runs of one process never meet.  IdGenByDate starts
\* every run from the clock, in seconds, to see to that.
DistinctValueIds ==
    \A p \in Proposer : \A i, j \in 0 .. MaxInc :
       i # j => \/ ClockStart[p][i] + MaxCalls[p] <= ClockStart[p][j]
                \/ ClockStart[p][j] + MaxCalls[p] <= ClockStart[p][i]

\* Pid n belongs to the progression of proposer p.
OwnId(p, n) == (n - 1) % NumProposer = p

\* What a message without its value still tells of a vote: all that a CHOSEN
\* request says.
SameBallot(x, y) ==
    /\ x.entry = y.entry /\ x.pid = y.pid
    /\ x.vid = y.vid /\ x.proposer = y.proposer

\* The instance of p: one answer for each finished call, pids of its own
\* progression, value ids of its own run, and counted votes that were cast.
InstIds(p, st) ==
    /\ st.req # None => st.calls > 0
    /\ Len(st.ret) = IF st.calls > 0 /\ st.req = None THEN 1 ELSE 0
    /\ OwnId(p, st.ig)
    /\ st.inc <= MaxInc /\ st.calls <= MaxCalls[p]
    /\ ClockStart[p][st.inc] <= st.vig /\ st.vig <= ClockStart[p][st.inc] + st.calls
    /\ st.req # None =>
         /\ st.req.proposer = p
         /\ st.req.pid > 0 => OwnId(p, st.req.pid)
         /\ ClockStart[p][st.inc] <= st.req.vid /\ st.req.vid < st.vig
         /\ st.phase = "ACCEPTING" => \A a \in st.valid : Vote(st.req) \in votes[a]

\* A request has a pid of the proposer it names; an accept request names its
\* sender, and a majority is behind what a CHOSEN request names.
ReqIds(m) ==
    /\ m.prop.pid > 0 => OwnId(m.prop.proposer, m.prop.pid)
    /\ m.type = "ACCEPT_REQ" => m.prop.proposer = m.src
    /\ m.type = "CHOSEN_REQ" => \E v \in ChosenVotes : SameBallot(v, m.prop)

\* An accept request against the instance st of its proposer: its value id
\* was handed out in the run that sent it, and there for this vote only.
VidMatches(m, st) ==
    /\ m.inc <= st.inc
    /\ ClockStart[m.src][m.inc] <= m.prop.vid
    /\ m.prop.vid < ClockStart[m.src][m.inc] + MaxCalls[m.src]
    /\ m.inc = st.inc =>
         /\ m.prop.vid < st.vig
         /\ st.req # None /\ m.prop.vid = st.req.vid => Vote(m.prop) = Vote(st.req)

\* Whoever reports a vote as accepted has cast the one it was asked for.
RspIds(r) ==
    r.type = "ACCEPT_RSP" /\ Accepted(r) =>
       /\ r.req.type = "ACCEPT_REQ"
       /\ Vote(r.req.prop) \in votes[r.from]
       /\ SameBallot(r.prop, r.req.prop)

\* Some accept request asked for vote v.
Asked(v) == \E m \in reqs : m.type = "ACCEPT_REQ" /\ Vote(m.prop) = v

EntIds(x, e) ==
    x.acc \in {None, ZeroProposal} \/ (x.acc.entry = e /\ Asked(Vote(x.acc)))

\* Every id stays with the call that took it: pids and value ids travel from
\* the generators through requests, plogs and responses back to the count of
\* handleAcceptRsp without being mixed up.
IdsInv ==
    /\ \A p \in Proposer : InstIds(p, inst[p])
    /\ \A m \in reqs : ReqIds(m)
    /\ \A m \in reqs : m.type = "ACCEPT_REQ" => VidMatches(m, inst[m.src])
    /\ \A r \in rsps : RspIds(r)
    /\ \A a \in Acceptor, e \in Entry : EntIds(ent[a][e], e) /\ EntIds(disk[a][e], e)
    /\ \A a \in Acceptor : \A v \in votes[a] : Asked(v)

\* A value id of a proposer belongs to one vote ...
VidsTellApart ==
    \A m, n \in reqs :
       /\ m.type = "ACCEPT_REQ" /\ n.type = "ACCEPT_REQ"
       /\ m.src = n.src /\ m.prop.vid = n.prop.vid
       => Vote(m.prop) = Vote(n.prop)

\* ... a request tells of chosen entries only ...
ToldIsChosen ==
    \A m \in reqs : m.type # "CHOSEN_REQ" /\ m.prop.last > 0 =>
       \E v \in ChosenVotes : v.entry = m.prop.last

\* ... and so everything that a server takes for chosen is: plog entries
\* marked by a request that names pid and value id, the last chosen entry of a
\* proposer, and what the acceptors learn from a proposer's last chosen entry.
LearnInv ==
    VidsTellApart /\ ToldIsChosen /\ MarkedIsChosen /\ ChosenInfoSound /\ LagSignalSound

=============================================================================
