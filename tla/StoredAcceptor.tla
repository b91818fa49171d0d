--------------------------- MODULE StoredAcceptor ---------------------------
(***************************************************************************)
(* The acceptor of one server on top of its plog: the handlers of          *)
(* core/acceptor.cpp, which go to the entry cache and to the disk, and the *)
(* crashes of the server.  Any proposer may send any request at any time.  *)
(* Module Acceptor has the same handlers over a disk that is loaded in     *)
(* full after every crash, and without the cache.                          *)
(***************************************************************************)
EXTENDS Plog

CONSTANTS
    MaxPid,        \* bound: largest proposal id
    Vid,           \* value ids
    MaxCrash       \* bound: crashes of the server

ASSUME StoredAssumption ==
    MaxPid \in Nat /\ Vid \subseteq Nat /\ MaxCrash \in Nat

VARIABLES
    promised,      \* history: the largest proposal id promised to a proposer, per entry
    voted,         \* history: the last vote reported to a proposer, per entry
    lagSeen,       \* history: the last entry some proposer of this run knew to be chosen
    crashes,
    lost           \* history: entries whose state the memory has lost

vars == <<cache, disk, cnt, trouble, promised, voted, lagSeen, crashes, lost>>

NoVote == [pid |-> 0, vid |-> 0]

Init ==
    /\ PlogInit
    /\ promised = [e \in Entry |-> 0]
    /\ voted = [e \in Entry |-> NoVote]
    /\ lagSeen = 0
    /\ crashes = 0
    /\ lost = {}

-----------------------------------------------------------------------------
\* Mutation: an entry at the last chosen one is still open.
MutRemoteLags(e) == cnt.last # Ones /\ cnt.last > e

\* CheckLocalAndMayTriggerCatchup: the early return.
RemoteLags(e) == cnt.last # Ones /\ cnt.last >= e

\* A request for entry e says that e - 1 is chosen (allocPaxosMsg).
Remote(e) == e - 1

\* Mutation: the lag is noted only once something is chosen here.
MutNoted(e) ==
    [cnt EXCEPT !.inUse = InUse(e),
                !.global = IF cnt.last > 0 /\ Remote(e) > cnt.last THEN Raised(@, Remote(e)) ELSE @]

\* The counters after a request for e that was not turned away.
Noted(e) ==
    [cnt EXCEPT !.inUse = InUse(e),
                !.global = IF Remote(e) > cnt.last THEN Raised(@, Remote(e)) ELSE @]

Admit(e) ==
    /\ ~RemoteLags(e)
    /\ cnt' = Noted(e)
    /\ lagSeen' = Max({lagSeen, Remote(e)})
    /\ UNCHANGED crashes

\* handlePrepareReq without a new promise: a vote or a promise is in the way, or
\* the request is a read probe.  A promise of the very id that is asked for
\* is a promise to the proposer, whoever it was given to.
PrepareSeen(e, pid) ==
    LET x == Fetch(e) IN
    /\ Admit(e)
    /\ x.acc # None \/ (x.prom # None /\ x.prom.pid >= pid) \/ pid = 0
    /\ Keep(e, x)
    /\ promised' = [promised EXCEPT ![e] =
          IF x.acc = None /\ x.prom # None /\ x.prom.pid = pid THEN Max({@, pid}) ELSE @]
    /\ UNCHANGED <<disk, voted>>

\* Mutation: a promise may be replaced by a smaller one.
MutPrepareNew(e, pid) ==
    LET y == [Fetch(e) EXCEPT !.prom = [pid |-> pid, vid |-> 0, status |-> "PROMISED"]] IN
    /\ pid > 0
    /\ Admit(e)
    /\ y.acc = None
    /\ Keep(e, y)
    /\ Save(e, y) /\ promised' = [promised EXCEPT ![e] = Max({@, pid})]
    /\ UNCHANGED voted

\* handlePrepareReq with a new promise.
PrepareNew(e, pid) ==
    LET x == Fetch(e)
        y == [x EXCEPT !.prom = [pid |-> pid, vid |-> 0, status |-> "PROMISED"]]
    IN
    /\ pid > 0
    /\ Admit(e)
    /\ x.acc = None /\ (x.prom # None => x.prom.pid < pid)
    /\ Keep(e, y)
    /\ \E saved \in SaveOutcomes :
         IF saved THEN Save(e, y) /\ promised' = [promised EXCEPT ![e] = Max({@, pid})]
         ELSE UNCHANGED <<disk, promised>>
    /\ UNCHANGED voted

\* handleAcceptReq: the three ways to a new vote.  It is saved once with the
\* promise and once more without, which is the same row, and the second result
\* is ignored.
AcceptVotes(e, pid, vid) ==
    LET x == Fetch(e)
        y == [x EXCEPT !.acc = [pid |-> pid, vid |-> vid, status |-> "ACCEPTED"]]
    IN
    /\ Admit(e)
    /\ IF x.acc = None THEN x.prom # None => x.prom.pid <= pid
       ELSE x.acc.status = "ACCEPTED" /\ x.acc.pid < pid
    /\ \E saved \in SaveOutcomes :
         IF saved
         THEN /\ Keep(e, [y EXCEPT !.prom = None])
              /\ Save(e, y)
              /\ voted' = [voted EXCEPT ![e] = [pid |-> pid, vid |-> vid]]
         ELSE Keep(e, y) /\ UNCHANGED <<disk, voted>>
    /\ UNCHANGED promised

\* handleAcceptReq: the vote is already there; ClearPromised saves it again.  The
\* acknowledgement has an error code and no proposer counts it.
AcceptDuplicate(e, pid, vid) ==
    LET x == Fetch(e)
        y == [x EXCEPT !.prom = None]
    IN
    /\ Admit(e)
    /\ x.acc # None /\ x.acc.status \in {"ACCEPTED", "CHOSEN"}
    /\ x.acc.pid = pid /\ x.acc.vid = vid
    /\ Keep(e, y)
    /\ \E saved \in SaveOutcomes : IF saved THEN Save(e, y) ELSE UNCHANGED disk
    /\ UNCHANGED <<promised, voted>>

\* handleAcceptReq: refused.
AcceptRefused(e, pid, vid) ==
    LET x == Fetch(e) IN
    /\ Admit(e)
    /\ IF x.acc = None THEN x.prom # None /\ x.prom.pid > pid
       ELSE \/ x.acc.status \notin {"ACCEPTED", "CHOSEN"}
            \/ x.acc.pid > pid \/ (x.acc.pid = pid /\ x.acc.vid # vid)
            \/ x.acc.pid < pid /\ x.acc.status = "CHOSEN"
    /\ Keep(e, x)
    /\ UNCHANGED <<disk, promised, voted>>

\* handleChosenReq, which looks into the entry first and has no early return for
\* a lagging proposer.
HandleChosenReq(e, pid, vid) ==
    LET x == Fetch(e)
        y == [x EXCEPT !.acc.status = "CHOSEN"]
        matches == x.acc # None /\ x.acc.pid = pid /\ x.acc.vid = vid /\ x.acc.status # "CHOSEN"
    IN
    /\ \E saved \in SaveOutcomes :
         IF matches /\ saved
         THEN /\ Keep(e, y) /\ Save(e, y)
              /\ cnt' = [cnt EXCEPT !.inUse = InUse(e), !.last = Raised(@, e),
                                    !.global = Raised(@, e)]
         ELSE /\ Keep(e, IF matches THEN [x EXCEPT !.acc.status = "ACCEPTED"] ELSE x)
              /\ cnt' = [cnt EXCEPT !.inUse = InUse(e)]
              /\ UNCHANGED disk
    /\ UNCHANGED <<promised, voted, lagSeen, crashes>>

NextEntry == GetNextEntry /\ UNCHANGED <<promised, voted, lagSeen, crashes>>

\* The server goes down, between two requests, and comes back over the same
\* disk.
Crash ==
    /\ crashes < MaxCrash
    /\ StartPlog
    /\ crashes' = crashes + 1
    /\ lagSeen' = 0
    /\ UNCHANGED <<promised, voted>>

Step ==
    \/ \E e \in 1 .. MaxEntry, pid \in 0 .. MaxPid : PrepareSeen(e, pid) \/ PrepareNew(e, pid)
    \/ \E e \in 1 .. MaxEntry, pid \in 1 .. MaxPid, vid \in Vid :
          \/ AcceptVotes(e, pid, vid)
          \/ AcceptDuplicate(e, pid, vid)
          \/ AcceptRefused(e, pid, vid)
          \/ HandleChosenReq(e, pid, vid)
    \/ NextEntry
    \/ Crash

\* What the memory holds of e is neither on disk nor what the disk gives back.
Unsaved(e) ==
    LET x == cache.kv[e].val IN
    /\ x # EmptyEntry
    /\ disk[e] # None => disk[e] # SerializeTo(x) /\ UnserializeFrom(disk[e]) # x

\* An entry is lost when it leaves the cache, when the server goes down before it
\* could be saved, or when it is on disk and not loaded.
Next ==
    /\ Step /\ UNCHANGED trouble
    /\ lost' = lost \cup
          IF crashes' = crashes THEN DOMAIN cache.kv \ DOMAIN cache'.kv
          ELSE {e \in DOMAIN cache.kv : Unsaved(e)} \cup (Rows \ DOMAIN cache'.kv)

Spec == Init /\ [][Next]_vars

-----------------------------------------------------------------------------
\* The server loads all of its disk whenever it comes up.
Loads == trouble \cap {"load", "fresh"} = {}

\* No vote is reported below a promise or an earlier vote that was reported
\* before, by whatever run of the server: cache, rows and recovery
\* together keep what handlePrepareReq and handleAcceptReq have answered.
\* (Not for an entry the memory has lost: evicted, or never saved, or not loaded.
\* CreateEntry makes it again without a look at the disk.)
NeverBelow ==
    [][\A e \in Entry \ lost' : voted'[e] # voted[e] =>
          voted'[e].pid >= promised[e] /\ voted'[e].pid > voted[e].pid]_vars

\* A vote that was reported is on disk until one of a larger id replaces it,
\* though saves fail in between.
VoteOnDisk ==
    \A e \in Entry \ lost : voted[e] # NoVote =>
       /\ disk[e] # None
       /\ \/ disk[e].p1.pid > voted[e].pid
          \/ disk[e].p1.pid = voted[e].pid /\ disk[e].p1.vid = voted[e].vid

\* A row marked CHOSEN is never written again with anything else, though
\* entries leave the cache and CreateEntry makes them again without a look
\* at the disk: the counters turn its requests away.
ChosenDurable ==
    [][\A e \in Entry : Loads /\ disk[e] # None /\ disk[e].p1.status = "CHOSEN" =>
          disk'[e] = disk[e]]_vars

\* Recovery finds what is on disk: the last entry in use, the last and the first
\* not chosen one, the first one at all, and the end of the chosen prefix,
\* wherever the commits had stopped; the cache has the latest entries.
RecoveredAll ==
    [][crashes' # crashes /\ Loads =>
         LET chosen == {e \in Rows : disk[e].p1.status = "CHOSEN"} IN
         /\ cnt' = [inUse |-> Max(Rows \cup {0}),
                    last |-> Max(chosen \cup {0}),
                    global |-> Max(chosen \cup {0}),
                    firstValid |-> Min(Rows \cup {Ones}),
                    firstUnchosen |-> Min((Rows \ chosen) \cup {Ones}),
                    maxContinue |-> Max({n \in Entry : 1 .. n \subseteq chosen})]
         /\ DOMAIN cache'.kv =
               {e \in Rows : Cardinality({f \in Rows : f > e}) < CacheSize}]_vars

\* A server that has admitted a request of a proposer that is ahead of it says so
\* when IsLocalChosenLagBehind is asked, until it has caught up, and the
\* assertion there, "max_in_used >= local_max_chosen", holds.  (Neither if it
\* came up without LoadAllFromDisk: last_chosen_entry_ is ~0 then, and nobody is
\* ahead of that.)
LagKnown ==
    Loads => /\ LagAsked => cnt.inUse >= cnt.last
             /\ lagSeen > cnt.last => IsLocalChosenLagBehind

=============================================================================
