------------------------------ MODULE Acceptor ------------------------------
(***************************************************************************)
(* core/acceptor.cpp on top of core/plog.cpp, for one plog instance: the   *)
(* entries in memory, the rows on disk, and crashes after which memory is  *)
(* loaded from the rows again.  One worker thread handles all the messages *)
(* of an instance (WorkerPool::AddWork picks the worker by instance), so   *)
(* every handler is one atomic step.                                       *)
(*                                                                         *)
(* Steps that change nothing are left out: a CHOSEN request that does not  *)
(* match or is already applied, one whose save fails (the handler puts the *)
(* status back), and doCatchupFromPeer, whose body is empty.               *)
(***************************************************************************)
EXTENDS PaxosMsgs

CONSTANTS
    SaveOutcomes,  \* what the user's SaveEntry may return, of {TRUE, FALSE}
    MaxCrash       \* bound: crashes of each acceptor

ASSUME SaveAssumption == SaveOutcomes \subseteq BOOLEAN /\ MaxCrash \in Nat

VARIABLES
    ent,         \* ent[a][e]: Entry::accepted_ and promised_
    lastChosen,  \* EntryMng::last_chosen_entry_, 0 for ~0
    globalMax,   \* EntryMng::global_max_chosen_entry_, 0 for ~0
    disk,        \* disk[a][e]: what UnserializeFrom makes of the row of entry e
    crashes,     \* crashes[a]: crashes so far; after one the counters have been loaded
    votes,       \* history: the proposals each acceptor ever reported accepted
    forgot       \* history: the entries of which an acceptor has forgotten a promise

storeVars == <<disk, crashes, forgot>>
acceptorVars == <<ent, lastChosen, globalMax, votes, storeVars>>

EntryRec == [acc : Proposal \cup {None}, prom : Proposal \cup {None}]

\* What identifies a vote: the ballot it was cast in and the value it was for.
Vote(pp) == [entry |-> pp.entry, pid |-> pp.pid, vid |-> pp.vid,
             proposer |-> pp.proposer, val |-> pp.val]
VoteRec == [entry : Nat, pid : Nat, vid : Nat, proposer : Proposer, val : Nat]

\* An entry without a vote and without a promise; on disk, one without a row.
EmptyEntry == [acc |-> None, prom |-> None]

AcceptorInit ==
    /\ ent = [a \in Acceptor |-> [e \in Entry |-> EmptyEntry]]
    /\ lastChosen = [a \in Acceptor |-> 0]
    /\ globalMax = [a \in Acceptor |-> 0]
    /\ disk = [a \in Acceptor |-> [e \in Entry |-> EmptyEntry]]
    /\ crashes = [a \in Acceptor |-> 0]
    /\ votes = [a \in Acceptor |-> {}]
    /\ forgot = [a \in Acceptor |-> {}]

-----------------------------------------------------------------------------
\* What EntryMng::SetPromised, ClearPromised and SetAccepted do to an entry in
\* memory.  Each then saves the entry, and none undoes its change when the
\* save fails.
SetPromised(x, pp) == [x EXCEPT !.prom = pp]
ClearPromised(x) == [x EXCEPT !.prom = None]
SetAccepted(x, pp) == [x EXCEPT !.acc = pp]

\* An entry that was saved and loaded again.  SerializeTo writes a zeroed
\* proposal for whichever is missing and for the promise next to a vote, and
\* UnserializeFrom takes all of them for real.
Reloaded(x) ==
    [acc |-> IF x.acc = None THEN ZeroProposal ELSE x.acc,
     prom |-> IF x.acc # None \/ x.prom = None THEN ZeroProposal ELSE x.prom]

\* Mutation: promises stay in memory, only votes are saved.
MutSaveVotes(a, e, x) ==
    disk' = IF x.acc = None THEN disk ELSE [disk EXCEPT ![a][e] = Reloaded(x)]

\* A SaveEntry that succeeds: the row outlives every crash from here on.
SaveEntry(a, e, x) == disk' = [disk EXCEPT ![a][e] = Reloaded(x)]

\* SetGlobalMaxChosenEntry, and the same comparison in SetChosen.
SetMaxChosen(max, e) == IF max < e THEN e ELSE max

-----------------------------------------------------------------------------
\* CheckLocalAndMayTriggerCatchup: the early return ...
RemoteLags(a, pp) == lastChosen[a] # 0 /\ lastChosen[a] >= pp.entry

\* ... and what it notes when the proposer knows of a later chosen entry.  Before
\* the first load the last chosen entry is ~0, which no entry is larger than.
NoteCatchup(a, pp) ==
    globalMax' = [globalMax EXCEPT ![a] =
        IF (crashes[a] > 0 \/ lastChosen[a] # 0) /\ pp.last > lastChosen[a]
        THEN SetMaxChosen(@, pp.last) ELSE @]

\* doHandleMsg hands the handler's answer to the connection.
Respond(a, m, type, err, pp, status) ==
    rsps' = rsps \cup {[type |-> type, req |-> m, from |-> a, err |-> err,
                        prop |-> [pp EXCEPT !.status = status,
                                            !.last = lastChosen[a]]]}

-----------------------------------------------------------------------------
\* handlePrepareReq: the proposer is behind this acceptor.
PrepareLags(a, m) ==
    /\ m.type = "PREPARE_REQ"
    /\ RemoteLags(a, m.prop)
    /\ Respond(a, m, "PREPARE_RSP", "REMOTE_NEED_CATCHUP", m.prop,
               "REMOTE_LAG_BEHIND")
    /\ UNCHANGED <<acceptorVars, reqs>>

\* handlePrepareReq: answer with the vote already cast.  No promise is kept.
PrepareSeesVote(a, m) ==
    /\ m.type = "PREPARE_REQ"
    /\ ~RemoteLags(a, m.prop)
    /\ ent[a][m.prop.entry].acc # None
    /\ NoteCatchup(a, m.prop)
    /\ Respond(a, m, "PREPARE_RSP", "OK", ent[a][m.prop.entry].acc, "ACCEPTED")
    /\ UNCHANGED <<ent, lastChosen, votes, storeVars, reqs>>

\* A promise at least as large as the request is already recorded.
HeldByPromise(a, pp) ==
    /\ ent[a][pp.entry].prom # None
    /\ ent[a][pp.entry].prom.pid >= pp.pid

\* handlePrepareReq: answer with the promise that stands in the way.
PrepareSeesPromise(a, m) ==
    /\ m.type = "PREPARE_REQ"
    /\ ~RemoteLags(a, m.prop)
    /\ ent[a][m.prop.entry].acc = None
    /\ HeldByPromise(a, m.prop)
    /\ NoteCatchup(a, m.prop)
    /\ Respond(a, m, "PREPARE_RSP", "OK", ent[a][m.prop.entry].prom, "PROMISED")
    /\ UNCHANGED <<ent, lastChosen, votes, storeVars, reqs>>

\* handlePrepareReq: a new promise, unless the request is a read probe (pid 0),
\* which leaves no trace.  EntryMng::SetPromised changes the entry in memory
\* before SaveEntry is tried, so a failed save leaves the promise behind.
PrepareNew(a, m) ==
    /\ m.type = "PREPARE_REQ"
    /\ ~RemoteLags(a, m.prop)
    /\ ent[a][m.prop.entry].acc = None
    /\ ~HeldByPromise(a, m.prop)
    /\ NoteCatchup(a, m.prop)
    /\ IF m.prop.pid = 0
       THEN /\ Respond(a, m, "PREPARE_RSP", "OK", m.prop, "PROMISED")
            /\ UNCHANGED <<ent, disk>>
       ELSE LET x == SetPromised(ent[a][m.prop.entry],
                                 [m.prop EXCEPT !.status = "PROMISED"])
            IN
            /\ ent' = [ent EXCEPT ![a][m.prop.entry] = x]
            /\ \E saved \in SaveOutcomes :
                 IF saved
                 THEN /\ SaveEntry(a, m.prop.entry, x)
                      /\ Respond(a, m, "PREPARE_RSP", "OK", m.prop, "PROMISED")
                 ELSE /\ Respond(a, m, "PREPARE_RSP", "WRITE_PLOG_FAIL", m.prop,
                                 "PROMISED_FAILED")
                      /\ UNCHANGED disk
    /\ UNCHANGED <<lastChosen, votes, crashes, forgot, reqs>>

-----------------------------------------------------------------------------
\* handleAcceptReq: the proposer is behind; the answer is an empty proposal.
AcceptLags(a, m) ==
    /\ m.type = "ACCEPT_REQ"
    /\ RemoteLags(a, m.prop)
    /\ Respond(a, m, "ACCEPT_RSP", "REMOTE_NEED_CATCHUP", ZeroProposal,
               "LOCAL_LAG_BEHIND")
    /\ UNCHANGED <<acceptorVars, reqs>>

\* The vote already held is the requested one.
IsDuplicate(x, pp) ==
    /\ x.acc # None
    /\ x.acc.status \in {"ACCEPTED", "CHOSEN"}
    /\ x.acc.pid = pp.pid
    /\ x.acc.vid = pp.vid

\* Mutation: the promise is not looked at.
MutIgnorePromise(x, pp) ==
    IF x.acc = None THEN TRUE
    ELSE x.acc.status = "ACCEPTED" /\ x.acc.pid < pp.pid

\* The three branches that end in SetAccepted: renew an unchosen vote of a
\* smaller pid; vote as promised; vote in an entry never heard of.
MayVote(x, pp) ==
    IF x.acc = None
    THEN x.prom # None => x.prom.pid <= pp.pid
    ELSE x.acc.status = "ACCEPTED" /\ x.acc.pid < pp.pid

\* handleAcceptReq: cast the vote.  SetAccepted changes memory before
\* SaveEntry; only a saved vote clears the promise and is reported.  Clearing
\* the promise saves once more, and the row is the same.
AcceptVotes(a, m) ==
    LET pp == [m.prop EXCEPT !.status = "ACCEPTED"]
        x == SetAccepted(ent[a][pp.entry], pp)
    IN
    /\ m.type = "ACCEPT_REQ"
    /\ ~RemoteLags(a, m.prop)
    /\ MayVote(ent[a][pp.entry], pp)
    /\ NoteCatchup(a, m.prop)
    /\ \E saved \in SaveOutcomes :
         IF saved
         THEN /\ ent' = [ent EXCEPT ![a][pp.entry] = ClearPromised(x)]
              /\ SaveEntry(a, pp.entry, x)
              /\ votes' = [votes EXCEPT ![a] = @ \cup {Vote(pp)}]
              /\ Respond(a, m, "ACCEPT_RSP", "OK", [pp EXCEPT !.val = 0], "ACCEPTED")
         ELSE /\ ent' = [ent EXCEPT ![a][pp.entry] = x]
              /\ Respond(a, m, "ACCEPT_RSP", "WRITE_PLOG_FAIL",
                         [pp EXCEPT !.val = 0], "ACCEPTED_FAILED")
              /\ UNCHANGED <<disk, votes>>
    /\ UNCHANGED <<lastChosen, crashes, forgot, reqs>>

\* handleAcceptReq: a duplicate is acknowledged with an error code, whether it
\* is on disk or not; ClearPromised saves it once more.
AcceptDuplicate(a, m) ==
    LET x == ent[a][m.prop.entry] IN
    /\ m.type = "ACCEPT_REQ"
    /\ ~RemoteLags(a, m.prop)
    /\ IsDuplicate(x, m.prop)
    /\ NoteCatchup(a, m.prop)
    /\ ent' = [ent EXCEPT ![a][m.prop.entry] = ClearPromised(x)]
    /\ \E saved \in SaveOutcomes :
         IF saved THEN SaveEntry(a, m.prop.entry, ClearPromised(x)) ELSE UNCHANGED disk
    /\ Respond(a, m, "ACCEPT_RSP", "DUPLICATE_PROPOSAL_REQ",
               [x.acc EXCEPT !.val = 0], "ACCEPTED")
    /\ UNCHANGED <<lastChosen, votes, crashes, forgot, reqs>>

\* handleAcceptReq: refuse.  With a vote in the way the answer carries it and
\* an error code; with a larger promise in the way it echoes the request and
\* has no error code, only the status.
AcceptRefused(a, m) ==
    LET x == ent[a][m.prop.entry] IN
    /\ m.type = "ACCEPT_REQ"
    /\ ~RemoteLags(a, m.prop)
    /\ ~IsDuplicate(x, m.prop) /\ ~MayVote(x, m.prop)
    /\ NoteCatchup(a, m.prop)
    /\ IF x.acc = None
       THEN Respond(a, m, "ACCEPT_RSP", "OK", [m.prop EXCEPT !.val = 0],
                    "ACCEPTED_FAILED")
       ELSE IF x.acc.status \in {"ACCEPTED", "CHOSEN"}
       THEN Respond(a, m, "ACCEPT_RSP", "INVALID_PROPOSAL_REQ",
                    [x.acc EXCEPT !.val = 0], "ACCEPTED_FAILED")
       ELSE Respond(a, m, "ACCEPT_RSP", "INVALID_PLOG_DATA",
                    [m.prop EXCEPT !.val = 0], "ACCEPTED_FAILED")
    /\ UNCHANGED <<ent, lastChosen, votes, storeVars, reqs>>

-----------------------------------------------------------------------------
\* Mutation: the value id alone identifies the vote.
MutMatchVid(x, pp) == x.acc # None /\ x.acc.vid = pp.vid

\* The vote a CHOSEN request names is the one this acceptor holds.
ChosenMatches(x, pp) ==
    x.acc # None /\ x.acc.pid = pp.pid /\ x.acc.vid = pp.vid

\* Mutation: global_max_chosen_entry_ is forgotten.
MutNoGlobalMax(a, e) ==
    LET x == [ent[a][e] EXCEPT !.acc.status = "CHOSEN"] IN
    /\ ent' = [ent EXCEPT ![a][e] = x]
    /\ SaveEntry(a, e, x)
    /\ lastChosen' = [lastChosen EXCEPT ![a] = SetMaxChosen(@, e)]
    /\ UNCHANGED globalMax

\* EntryMng::SetChosen, when the save succeeds.
SetChosen(a, e) ==
    LET x == [ent[a][e] EXCEPT !.acc.status = "CHOSEN"] IN
    /\ ent' = [ent EXCEPT ![a][e] = x]
    /\ SaveEntry(a, e, x)
    /\ lastChosen' = [lastChosen EXCEPT ![a] = SetMaxChosen(@, e)]
    /\ globalMax' = [globalMax EXCEPT ![a] = SetMaxChosen(@, e)]

\* Mutation: no early return for an entry already chosen, so that a failed
\* save puts its status back to ACCEPTED.
MutRechoose(a, m) ==
    LET e == m.prop.entry IN
    /\ m.type = "CHOSEN_REQ"
    /\ ChosenMatches(ent[a][e], m.prop)
    /\ \E saved \in SaveOutcomes :
         /\ ent' = [ent EXCEPT ![a][e].acc.status =
                       IF saved THEN "CHOSEN" ELSE "ACCEPTED"]
         /\ lastChosen' = [lastChosen EXCEPT ![a] = IF saved /\ @ < e THEN e ELSE @]
         /\ globalMax' = [globalMax EXCEPT ![a] = IF saved /\ @ < e THEN e ELSE @]
    /\ UNCHANGED <<votes, storeVars, reqs, rsps>>

\* handleChosenReq, when the save succeeds.
HandleChosenReq(a, m) ==
    LET e == m.prop.entry IN
    /\ m.type = "CHOSEN_REQ"
    /\ TRUE \in SaveOutcomes
    /\ ChosenMatches(ent[a][e], m.prop)
    /\ ent[a][e].acc.status # "CHOSEN"
    /\ SetChosen(a, e)
    /\ UNCHANGED <<votes, crashes, forgot, reqs, rsps>>

-----------------------------------------------------------------------------
\* The acceptor has told a proposer of a promise for entry e.
Shown(a, e) ==
    \E r \in rsps : /\ r.from = a /\ r.type = "PREPARE_RSP"
                    /\ r.err = "OK" /\ r.prop.status = "PROMISED" /\ r.prop.pid > 0
                    /\ r.req.prop.entry = e

\* The entries whose row says they are chosen.
ChosenRows(a) == {e \in Entry : disk[a][e].acc # None /\ disk[a][e].acc.status = "CHOSEN"}

\* Mutation: the last row, chosen or not.
MutLastRow(a) ==
    LET rows == {e \in Entry : disk[a][e] # EmptyEntry} IN
    CHOOSE n \in {0} \cup rows : \A e \in rows : e <= n

\* RecoverRange: the last chosen entry of the loaded rows, 0 if there is none.
LastRow(a) == CHOOSE n \in {0} \cup ChosenRows(a) : \A e \in ChosenRows(a) : e <= n

\* Mutation: the server comes back and loads nothing.
MutNoLoad(a) ==
    /\ crashes[a] < MaxCrash
    /\ ent' = [ent EXCEPT ![a] = [e \in Entry |-> EmptyEntry]]
    /\ lastChosen' = [lastChosen EXCEPT ![a] = 0]
    /\ globalMax' = [globalMax EXCEPT ![a] = 0]
    /\ crashes' = [crashes EXCEPT ![a] = @ + 1]
    /\ forgot' = [forgot EXCEPT ![a] =
          @ \cup {e \in Entry : disk[a][e] = EmptyEntry /\ Shown(a, e)}]
    /\ UNCHANGED <<disk, votes, reqs, rsps>>

\* The server goes down between two requests and comes back: LoadAllFromDisk.
\* A promise that was shown without ever being written is forgotten.
CrashAcceptor(a) ==
    /\ crashes[a] < MaxCrash
    /\ ent' = [ent EXCEPT ![a] = disk[a]]
    /\ lastChosen' = [lastChosen EXCEPT ![a] = LastRow(a)]
    /\ globalMax' = [globalMax EXCEPT ![a] = LastRow(a)]
    /\ crashes' = [crashes EXCEPT ![a] = @ + 1]
    /\ forgot' = [forgot EXCEPT ![a] =
          @ \cup {e \in Entry : disk[a][e] = EmptyEntry /\ Shown(a, e)}]
    /\ UNCHANGED <<disk, votes, reqs, rsps>>

-----------------------------------------------------------------------------
\* The types of the acceptors' variables.
AcceptorTypeOK ==
    /\ ent \in [Acceptor -> [Entry -> EntryRec]]
    /\ lastChosen \in [Acceptor -> Nat]
    /\ globalMax \in [Acceptor -> Nat]
    /\ disk \in [Acceptor -> [Entry -> EntryRec]]
    /\ crashes \in [Acceptor -> Nat]
    /\ votes \in [Acceptor -> SUBSET VoteRec]
    /\ forgot \in [Acceptor -> SUBSET Entry]

=============================================================================
