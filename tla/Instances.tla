------------------------------ MODULE Instances ------------------------------
(***************************************************************************)
(* Several plog instances of one proposer (core/proposer.cpp).  An         *)
(* instance has its lock, its InstanceState and a worker; a response is    *)
(* handled under the lock of the instance that asked, but counted in the   *)
(* state of the instance the response itself names.  The refusal of an     *)
(* accept request (core/acceptor.cpp) names instance 0, so a worker        *)
(* reaches into instance 0 without that instance's lock: rsp_count_ is     *)
(* read and written in two steps, and a call is ended in two.              *)
(*                                                                         *)
(* Only counting and answering are modelled; Proposer has the rest.        *)
(* Acceptors promise whatever they are asked for and may have learnt of    *)
(* the chosen entry, and so refuse, by the time they are asked to accept.  *)
(***************************************************************************)
EXTENDS Naturals, FiniteSets

CONSTANTS
    Instance,     \* plog instances, 0 among them
    NumAcceptors, \* acceptors, which are told apart by nothing
    MaxCalls      \* bound: calls per instance

InstancesAssumption ==
    Instance \subseteq Nat /\ 0 \in Instance /\ NumAcceptors \in Nat \ {0}

VARIABLES
    st,        \* states_: InstanceState of each instance
    thr,       \* the handler that runs under the lock of each instance
    dead,      \* set_value on an answered promise has ended the process
    taken,     \* responses handed to their callbacks, those of one kind numbered
    answers    \* history: answers to the clients

instVars == <<st, thr, dead, taken, answers>>

Majority == NumAcceptors \div 2 + 1

Idle == [pc |-> "idle", to |-> 0, rsp |-> "none", reg |-> 0]

InstInit ==
    /\ st = [i \in Instance |-> [busy |-> FALSE, term |-> 0, phase |-> "prepare",
                                 count |-> 0, valid |-> 0, answered |-> TRUE]]
    /\ thr = [i \in Instance |-> Idle]
    /\ dead = FALSE /\ taken = {} /\ answers = {}

Unlocked(i) == ~dead /\ thr[i].pc = "idle"

\* Mutation: the counters of the prepare phase go on in the accept phase.
MutWaitState(s, phase) == [s EXCEPT !.phase = phase]

\* setupWaitState without a new request.
WaitState(s, phase) == [s EXCEPT !.phase = phase, !.count = 0, !.valid = 0]

-----------------------------------------------------------------------------
\* ProposeAsync: refused while req_ is set; in one phase or in two.
ProposeAsync(i) ==
    /\ Unlocked(i) /\ ~st[i].busy /\ st[i].term < MaxCalls
    /\ \E phase \in {"prepare", "accept"} :
         st' = [st EXCEPT ![i] = [WaitState(st[i], phase) EXCEPT
                    !.busy = TRUE, !.term = @ + 1, !.answered = FALSE]]
    /\ UNCHANGED <<thr, dead, taken, answers>>

\* Which instance the response to i names: AllocProposalMsg leaves pinst_ 0 and
\* the refusal of an accept request does not set it.
PinstOf(i, rsp) == IF rsp = "lag" THEN 0 ELSE i

Answers(phase) == IF phase = "prepare" THEN {"promised"} ELSE {"accepted", "lag"}

\* handleRpcResponse takes the response of one more acceptor to the request in
\* progress; the handler returns at once if the instance the response names has
\* no request.
HandleRpcResponse(i, rsp) ==
    LET heard == {m \in taken : m.inst = i /\ m.term = st[i].term /\ m.phase = st[i].phase}
        r == [inst |-> i, term |-> st[i].term, phase |-> st[i].phase, rsp |-> rsp,
              n |-> Cardinality({m \in heard : m.rsp = rsp}) + 1]
        j == PinstOf(i, rsp) IN
    /\ Unlocked(i) /\ st[i].busy /\ rsp \in Answers(st[i].phase)
    /\ Cardinality(heard) < NumAcceptors
    /\ taken' = taken \cup {r}
    /\ thr' = IF st[j].busy
              THEN [thr EXCEPT ![i] = [Idle EXCEPT !.pc = "load", !.to = j, !.rsp = rsp]]
              ELSE thr
    /\ UNCHANGED <<st, dead, answers>>

\* rsp_count_++ in two steps.
CountLoad(i) ==
    /\ ~dead /\ thr[i].pc = "load"
    /\ thr' = [thr EXCEPT ![i].pc = "store", ![i].reg = st[thr[i].to].count]
    /\ UNCHANGED <<st, dead, taken, answers>>

CountStore(i) ==
    /\ ~dead /\ thr[i].pc = "store"
    /\ st' = [st EXCEPT ![thr[i].to].count = thr[i].reg + 1]
    /\ thr' = [thr EXCEPT ![i].pc = "judge"]
    /\ UNCHANGED <<dead, taken, answers>>

\* The rest of handlePrepareRsp and handleAcceptRsp.  All have answered, or a
\* majority has accepted: the call is done.  A majority has promised: on to the
\* accept phase.
Judge(i) ==
    LET j     == thr[i].to
        good  == thr[i].rsp # "lag"
        valid == st[j].valid + (IF good THEN 1 ELSE 0)
        wins  == good /\ valid >= Majority
        next  == wins /\ thr[i].rsp = "promised"
        done  == ~next /\ (wins \/ st[j].count = NumAcceptors) IN
    /\ ~dead /\ thr[i].pc = "judge"
    /\ st' = [st EXCEPT ![j] = IF next THEN WaitState(@, "accept")
                                       ELSE [@ EXCEPT !.valid = valid]]
    /\ thr' = [thr EXCEPT ![i] = IF done THEN [@ EXCEPT !.pc = "reset"] ELSE Idle]
    /\ UNCHANGED <<dead, taken, answers>>

\* done: req_.reset() ...
ResetReq(i) ==
    /\ ~dead /\ thr[i].pc = "reset"
    /\ st' = [st EXCEPT ![thr[i].to].busy = FALSE]
    /\ thr' = [thr EXCEPT ![i].pc = "answer"]
    /\ UNCHANGED <<dead, taken, answers>>

\* ret_.set_value(code), which throws on a promise that has a value.  The timer
\* drops req_ before.
SetValue(j, code) ==
    /\ dead' = st[j].answered
    /\ st' = [st EXCEPT ![j].answered = TRUE, ![j].busy = @ /\ code # "TIMEOUT"]
    /\ answers' = answers \cup {[inst |-> j, term |-> st[j].term, code |-> code]}

\* ... and the client is answered with the code of this response.
AnswerClient(i) ==
    /\ ~dead /\ thr[i].pc = "answer"
    /\ SetValue(thr[i].to, IF thr[i].rsp = "lag" THEN "REMOTE_NEED_CATCHUP" ELSE "OK")
    /\ thr' = [thr EXCEPT ![i] = Idle]
    /\ UNCHANGED taken

\* handleRpcResponse without a message: the timer of the call in progress.
Timeout(i) ==
    /\ Unlocked(i) /\ st[i].busy
    /\ SetValue(i, "TIMEOUT")
    /\ UNCHANGED <<thr, taken>>

-----------------------------------------------------------------------------
Handler(i) ==
    CountLoad(i) \/ CountStore(i) \/ Judge(i) \/ ResetReq(i) \/ AnswerClient(i)

InstNext ==
    \E i \in Instance :
      \/ ProposeAsync(i)
      \/ \E rsp \in {"promised", "accepted", "lag"} : HandleRpcResponse(i, rsp)
      \/ Handler(i)
      \/ Timeout(i)

InstSpec == InstInit /\ [][InstNext]_instVars

-----------------------------------------------------------------------------
Acceptances(c) ==
    {m \in taken : m.inst = c.inst /\ m.term = c.term /\ m.rsp = "accepted"}
MajorityAccepted(c) == Cardinality(Acceptances(c)) >= Majority

\* A call of an instance other than 0 is answered OK only when a majority has
\* accepted, though responses are counted in two steps and refusals elsewhere.
\* (For instance 0 it is not so: the refusals of others are counted there and
\* end its calls, at worst one that has just begun.)
OthersOk ==
    \A c \in answers : c.code = "OK" /\ c.inst # 0 => MajorityAccepted(c)

=============================================================================
