-------------------------- MODULE MockPeersProofs --------------------------
(***************************************************************************)
(* One proposer against peers that may answer anything, for any acceptors  *)
(* and any earlier votes: its client gets one answer per call, early or at *)
(* the end, and its accept request is for the largest last vote.           *)
(*                                                                         *)
(* The term ties a response to the call in progress, so the value id of    *)
(* the request it answers is the call's own (PreparesOf), and a response   *)
(* with another one carries an old vote.  KeptVote says what lastv_ is in  *)
(* the course of the prepare phase.                                        *)
(***************************************************************************)
EXTENDS MockPeers, TLAPS

MockTypeOK ==
    /\ inst \in [Proposer -> InstanceState]
    /\ reqs \subseteq Request
    /\ seen \subseteq VotePids

\* The client of a call has an answer if the call was answered early or is over.
OneAnswer(st) ==
    Len(st.ret) = IF st.calls > 0 /\ (st.req = None \/ st.notified) THEN 1 ELSE 0

\* lastv_ is the largest of the votes met in the call, if one was met.
KeptVote(st, votes) ==
    /\ st.notified <=> votes # {}
    /\ st.notified =>
         /\ st.lastv \in Proposal
         /\ st.lastv.proposer = Peer /\ st.lastv.val = st.lastv.pid
         /\ st.lastv.pid \in votes /\ \A v \in votes : v <= st.lastv.pid

\* A call in progress is the latest one and has its own value.
OwnCall(st) ==
    st.req # None =>
       /\ st.calls > 0 /\ st.req.proposer = Self
       /\ st.phase = "PREPARING" /\ st.req.pid # 0 => st.req.val = st.calls

\* The prepare requests that can still be answered are those of the call.
PreparesOf(st) ==
    \A m \in reqs : m.type = "PREPARE_REQ" =>
       /\ m.prop.term < st.term
       /\ st.req # None /\ st.phase = "PREPARING" /\ m.prop.term = st.term - 1 =>
             m.prop.vid = st.req.vid

CallInProgress(st, votes) ==
    OneAnswer(st) /\ OwnCall(st)
    /\ (st.req # None /\ st.phase = "PREPARING" => KeptVote(st, votes))

MockInv ==
    /\ MockTypeOK
    /\ \A p \in Proposer : OneAnswer(inst[p])
    /\ CallInProgress(inst[Self], seen) /\ PreparesOf(inst[Self])

-----------------------------------------------------------------------------
(* The operators on an instance state.                                     *)

\* Finish answers whoever has no answer yet.
LEMMA FinishFits ==
    ASSUME NEW st \in InstanceState, NEW code \in ErrCode, NEW votes,
           OneAnswer(st), st.req # None, st.calls > 0
    PROVE  /\ Finish(st, code) \in InstanceState /\ CallInProgress(Finish(st, code), votes)
           /\ Finish(st, code).req = None /\ Finish(st, code).term = st.term
<1>1. st.ret \in Seq(ErrCode) /\ st.notified \in BOOLEAN
  BY DEF InstanceState
<1> DEFINE ret == IF st.notified THEN st.ret ELSE Append(st.ret, code)
<1>2. ret \in Seq(ErrCode) /\ Len(ret) = 1
  <2>1. CASE st.notified
    BY <1>1, <2>1 DEF OneAnswer
  <2>2. CASE ~st.notified
    <3>1. Len(st.ret) = 0
      BY <2>2 DEF OneAnswer
    <3> QED BY <1>1, <2>2, <3>1
  <2> QED BY <2>1, <2>2
<1>3. Answer(st, code) = [st EXCEPT !.ret = ret]
  BY DEF Answer
<1> HIDE DEF ret
<1> DEFINE t == [st EXCEPT !.ret = ret, !.req = None, !.phase = "PREPARING",
                           !.notified = FALSE, !.heard = {}, !.valid = {}]
<1>4. Finish(st, code) = t
  BY <1>3 DEF Finish, InstanceState
<1>5. t \in InstanceState /\ t.req = None /\ t.term = st.term /\ t.ret = ret /\ t.calls = st.calls
  <2>1. t.req = None /\ t.term = st.term /\ t.ret = ret /\ t.calls = st.calls
    BY DEF InstanceState
  <2>2. t \in InstanceState
    BY <1>2, ZenonT(30) DEF InstanceState
  <2> QED BY <2>1, <2>2
<1> HIDE DEF t
<1> QED BY <1>2, <1>4, <1>5 DEF CallInProgress, OneAnswer, OwnCall

\* The end of a round that no response is missing from.
LEMMA FinishIfDoneFits ==
    ASSUME NEW st \in InstanceState, NEW code \in ErrCode, NEW votes,
           CallInProgress(st, votes), st.req # None, NEW t, t = FinishIfDone(st, code)
    PROVE  /\ t \in InstanceState /\ CallInProgress(t, votes) /\ t.term = st.term
           /\ t.req # None => t.req = st.req /\ t.phase = st.phase
<1>1. OneAnswer(st) /\ st.calls > 0
  BY DEF CallInProgress, OwnCall
<1>2. CASE AllHeard(st)
  BY <1>1, <1>2, FinishFits DEF FinishIfDone
<1>3. CASE ~AllHeard(st)
  BY <1>3 DEF FinishIfDone
<1> QED BY <1>2, <1>3

\* What CallInProgress depends on.
LEMMA SameCall ==
    ASSUME NEW st, NEW t, NEW votes, CallInProgress(st, votes),
           t.ret = st.ret, t.calls = st.calls, t.notified = st.notified, t.lastv = st.lastv,
           t.req = None <=> st.req = None, t.req.proposer = st.req.proposer,
           t.req.pid = st.req.pid, t.req.val = st.req.val, t.phase = st.phase
    PROVE  CallInProgress(t, votes)
BY DEF CallInProgress, OneAnswer, OwnCall, KeptVote

\* A response is recorded.
LEMMA HeardFits ==
    ASSUME NEW st \in InstanceState, NEW r \in Response, NEW votes, CallInProgress(st, votes)
    PROVE  /\ Heard(st, r) \in InstanceState /\ CallInProgress(Heard(st, r), votes)
           /\ Heard(st, r).req = st.req /\ Heard(st, r).phase = st.phase
           /\ Heard(st, r).term = st.term /\ Heard(st, r).calls = st.calls
<1> DEFINE h == st.heard \cup {<<r.from, r.req>>}
<1>1. h \in SUBSET (Acceptor \X Request)
  <2>1. <<r.from, r.req>> \in Acceptor \X Request
    BY DEF Response
  <2>2. st.heard \in SUBSET (Acceptor \X Request)
    BY DEF InstanceState
  <2> QED BY <2>1, <2>2
<1>2. Heard(st, r) = [st EXCEPT !.heard = h]
  BY DEF Heard
<1> HIDE DEF h
<1> DEFINE t == [st EXCEPT !.heard = h]
<1>3. /\ t \in InstanceState /\ t.req = st.req /\ t.phase = st.phase /\ t.term = st.term
      /\ t.ret = st.ret /\ t.calls = st.calls /\ t.notified = st.notified /\ t.lastv = st.lastv
  BY <1>1 DEF InstanceState
<1> HIDE DEF t
<1>4. CallInProgress(t, votes)
  BY <1>3, SameCall
<1> QED BY <1>2, <1>3, <1>4 DEF t

\* A response is recorded and its term copied.
LEMMA NotedFits ==
    ASSUME MockInv, NEW r \in Response, inst[Self].req # None
    PROVE  LET t == Noted(Self, r) IN
           /\ t \in InstanceState /\ CallInProgress(t, seen) /\ t.term = inst[Self].term
           /\ t.req \in Proposal /\ t.req # None /\ t.phase = inst[Self].phase
           /\ t.req.vid = inst[Self].req.vid /\ t.req.pid = inst[Self].req.pid
           /\ t.valid = inst[Self].valid /\ t.notified = inst[Self].notified
           /\ t.lastv = inst[Self].lastv /\ t.calls = inst[Self].calls
<1> DEFINE st == inst[Self]
           h == Heard(st, r)
           q == CopyProposalMeta(st.req, r.prop)
           t == Noted(Self, r)
<1>1. st \in InstanceState /\ CallInProgress(st, seen)
  BY MockAssumption DEF MockInv, MockTypeOK
<1>2. st.req \in Proposal /\ r.prop \in Proposal
  BY <1>1 DEF InstanceState, Response
<1>3. /\ q \in Proposal /\ q.vid = st.req.vid /\ q.pid = st.req.pid
      /\ q.proposer = st.req.proposer /\ q.val = st.req.val
  BY <1>2 DEF Proposal, CopyProposalMeta
<1>4. /\ h \in InstanceState /\ CallInProgress(h, seen)
      /\ h.req = st.req /\ h.phase = st.phase /\ h.term = st.term /\ h.calls = st.calls
  BY <1>1, HeardFits
<1>5. h.valid = st.valid /\ h.notified = st.notified /\ h.lastv = st.lastv
  BY <1>1 DEF Heard, InstanceState
<1>6. t = [h EXCEPT !.req = q]
  BY <1>4 DEF Noted
<1> HIDE DEF st, h, q, t
<1>7. /\ t \in InstanceState /\ t.req = q /\ t.phase = h.phase /\ t.term = h.term
      /\ t.ret = h.ret /\ t.calls = h.calls /\ t.notified = h.notified /\ t.lastv = h.lastv
      /\ t.valid = h.valid
  BY <1>3, <1>4, <1>6 DEF InstanceState
<1>8. q # None /\ h.req # None
  BY <1>2, <1>3, <1>4, NoneAssumption
<1>9. CallInProgress(t, seen)
  BY <1>3, <1>4, <1>7, <1>8, SameCall
<1> QED BY <1>3, <1>4, <1>5, <1>7, <1>8, <1>9 DEF st, t

-----------------------------------------------------------------------------
(* What the peers answer.                                                  *)

\* Answers are responses; a promise to a prepare request keeps the value id of
\* the request, or carries an old vote.
LEMMA AnswerFacts ==
    ASSUME MockInv, NEW r \in Answers
    PROVE  /\ r \in Response /\ r.req \in reqs
           /\ r.type = "PREPARE_RSP" => r.req.type = "PREPARE_REQ"
           /\ r.type = "PREPARE_RSP" /\ r.prop.vid # r.req.prop.vid =>
                 r.prop.proposer = Peer /\ r.prop.val = r.prop.pid /\ r.prop.pid \in VotePids
<1>1. reqs \subseteq Request /\ NumProposer \in Nat /\ Peer \in Proposer /\ VotePids \subseteq Nat
  BY SynodAssumption, MockAssumption DEF MockInv, MockTypeOK
<1>2. CASE \E m \in reqs : m.type = "PREPARE_REQ" /\ \E a \in Acceptor, ans \in PrepareAnswers(m.prop) :
             r = [type |-> "PREPARE_RSP", req |-> m, from |-> a, err |-> ans[1], prop |-> ans[2]]
  <2>0. PICK m \in reqs : m.type = "PREPARE_REQ" /\ \E a \in Acceptor, ans \in PrepareAnswers(m.prop) :
            r = [type |-> "PREPARE_RSP", req |-> m, from |-> a, err |-> ans[1], prop |-> ans[2]]
    BY <1>2
  <2>1. PICK a \in Acceptor, ans \in PrepareAnswers(m.prop) :
            /\ m.type = "PREPARE_REQ"
            /\ r = [type |-> "PREPARE_RSP", req |-> m, from |-> a, err |-> ans[1], prop |-> ans[2]]
    BY <2>0
  <2>2. m \in Request /\ m.prop \in Proposal
    BY <1>1 DEF Request
  <2>3. /\ ans[1] \in ErrCode /\ ans[2] \in Proposal
        /\ \/ ans[2].vid = m.prop.vid
           \/ ans[2].proposer = Peer /\ ans[2].val = ans[2].pid /\ ans[2].pid \in VotePids
    <3>1. CASE ans = <<"REMOTE_NEED_CATCHUP", [m.prop EXCEPT !.status = "REMOTE_LAG_BEHIND"]>>
      BY <2>2, <3>1 DEF Proposal, ErrCode, Status
    <3>2. CASE ans = <<"OK", [m.prop EXCEPT !.status = "PROMISED"]>>
      BY <2>2, <3>2 DEF Proposal, ErrCode, Status
    <3>3. CASE ans = <<"OK", [m.prop EXCEPT !.status = "PROMISED", !.pid = @ + NumProposer + 1,
                                            !.term = @ + 1]>>
      <4>1. m.prop.pid + NumProposer + 1 \in Nat /\ m.prop.term + 1 \in Nat
        BY <1>1, <2>2 DEF Proposal
      <4> QED BY <2>2, <3>3, <4>1 DEF Proposal, ErrCode, Status
    <3>4. CASE \E v \in VotePids : ans = <<"OK", [OldVote(m.prop, v) EXCEPT !.status = "PROMISED"]>>
      <4>1. PICK v \in VotePids : ans = <<"OK", [OldVote(m.prop, v) EXCEPT !.status = "PROMISED"]>>
        BY <3>4
      <4>2. v \in Nat /\ 100 + v \in Nat
        BY <1>1
      <4>3. ans[2] = [m.prop EXCEPT !.pid = v, !.vid = 100 + v, !.val = v, !.proposer = Peer,
                                    !.status = "PROMISED"]
        BY <2>2, <4>1 DEF OldVote, Proposal
      <4>4. ans[1] = "OK"
        BY <4>1
      <4> QED BY <1>1, <2>2, <4>2, <4>3, <4>4 DEF Proposal, ErrCode, Status
    <3> QED BY <3>1, <3>2, <3>3, <3>4 DEF PrepareAnswers
  <2>4. r.type = "PREPARE_RSP" /\ r.req = m /\ r.prop = ans[2] /\ r.err = ans[1] /\ r.from = a
    BY <2>1
  <2>5. r \in Response
    BY <2>1, <2>2, <2>3 DEF Response
  <2> QED BY <2>1, <2>3, <2>4, <2>5
<1>3. CASE \E m \in reqs : \E a \in Acceptor, ans \in AcceptAnswers(m.prop) :
             r = [type |-> "ACCEPT_RSP", req |-> m, from |-> a, err |-> ans[1], prop |-> ans[2]]
  <2>0. PICK m \in reqs : \E a \in Acceptor, ans \in AcceptAnswers(m.prop) :
            r = [type |-> "ACCEPT_RSP", req |-> m, from |-> a, err |-> ans[1], prop |-> ans[2]]
    BY <1>3
  <2>1. PICK a \in Acceptor, ans \in AcceptAnswers(m.prop) :
            r = [type |-> "ACCEPT_RSP", req |-> m, from |-> a, err |-> ans[1], prop |-> ans[2]]
    BY <2>0
  <2>2. m \in Request /\ m.prop \in Proposal
    BY <1>1 DEF Request
  <2>3. m.prop.pid + 1 \in Nat /\ m.prop.vid + 1 \in Nat
    BY <2>2 DEF Proposal
  <2>4. ans[1] \in ErrCode /\ ans[2] \in Proposal
    <3>1. CASE ans = <<"WRITE_PLOG_FAIL", [m.prop EXCEPT !.status = "ACCEPTED_FAILED"]>>
      BY <2>2, <3>1 DEF Proposal, ErrCode, Status
    <3>2. CASE ans = <<"OK", [m.prop EXCEPT !.status = "ACCEPTED_FAILED"]>>
      BY <2>2, <3>2 DEF Proposal, ErrCode, Status
    <3>3. CASE ans = <<"OK", [m.prop EXCEPT !.status = "ACCEPTED"]>>
      BY <2>2, <3>3 DEF Proposal, ErrCode, Status
    <3>4. CASE ans = <<"OK", [m.prop EXCEPT !.status = "ACCEPTED", !.pid = @ + 1]>>
      BY <2>2, <2>3, <3>4 DEF Proposal, ErrCode, Status
    <3>5. CASE ans = <<"OK", [m.prop EXCEPT !.status = "ACCEPTED", !.vid = @ + 1]>>
      BY <2>2, <2>3, <3>5 DEF Proposal, ErrCode, Status
    <3> QED BY <3>1, <3>2, <3>3, <3>4, <3>5 DEF AcceptAnswers
  <2>5. r.type = "ACCEPT_RSP" /\ r.req = m
    BY <2>1
  <2>6. r \in Response
    BY <2>1, <2>2, <2>4 DEF Response
  <2> QED BY <2>5, <2>6
<1>4. \/ \E m \in reqs : m.type = "PREPARE_REQ" /\ r \in PrepareRspsTo(m)
      \/ \E m \in reqs : r \in AcceptRspsTo(m)
  BY Zenon DEF Answers
<1>5. CASE \E m \in reqs : m.type = "PREPARE_REQ" /\ r \in PrepareRspsTo(m)
  <2>1. PICK m \in reqs : m.type = "PREPARE_REQ" /\ r \in PrepareRspsTo(m)
    BY <1>5
  <2>2. \E a \in Acceptor, ans \in PrepareAnswers(m.prop) :
           r = [type |-> "PREPARE_RSP", req |-> m, from |-> a, err |-> ans[1], prop |-> ans[2]]
    BY <2>1 DEF PrepareRspsTo
  <2> QED BY <1>2, <2>1, <2>2, Zenon
<1>6. CASE \E m \in reqs : r \in AcceptRspsTo(m)
  <2>1. PICK m \in reqs : r \in AcceptRspsTo(m)
    BY <1>6
  <2>2. \E a \in Acceptor, ans \in AcceptAnswers(m.prop) :
           r = [type |-> "ACCEPT_RSP", req |-> m, from |-> a, err |-> ans[1], prop |-> ans[2]]
    BY <2>1 DEF AcceptRspsTo
  <2> QED BY <1>3, <2>1, <2>2, Zenon
<1> QED BY <1>4, <1>5, <1>6

\* A last vote that a usable response carries is an old vote.
LEMMA LastVoteFacts ==
    ASSUME MockInv, NEW r \in Answers, PrepareRsp(Self, r), IsLastVote(Self, r)
    PROVE  r.prop.proposer = Peer /\ r.prop.val = r.prop.pid /\ r.prop.pid \in VotePids
<1>1. /\ r.type = "PREPARE_RSP" /\ inst[Self].req # None /\ inst[Self].phase = "PREPARING"
      /\ r.req.prop.term = inst[Self].term - 1
  BY DEF PrepareRsp, Expected
<1>2. r.req.prop.vid = inst[Self].req.vid
  BY <1>1, AnswerFacts DEF MockInv, PreparesOf
<1> QED BY <1>1, <1>2, AnswerFacts DEF IsLastVote

\* A usable response counts, and lastv_ keeps the largest vote.
LEMMA CountedFits ==
    ASSUME MockInv, NEW r \in Answers, UsableRsp(Self, r), NEW votes,
           votes = IF IsLastVote(Self, r) THEN seen \cup {r.prop.pid} ELSE seen
    PROVE  LET t == Counted(Self, r) IN
           /\ t \in InstanceState /\ CallInProgress(t, votes) /\ t.term = inst[Self].term
           /\ t.req \in Proposal /\ t.req # None /\ t.phase = "PREPARING"
           /\ t.req.vid = inst[Self].req.vid /\ t.req.pid = inst[Self].req.pid
           /\ t.calls = inst[Self].calls /\ votes \subseteq VotePids
<1> DEFINE st == inst[Self]
           n == Noted(Self, r)
           v == st.valid \cup {r.from}
           s == [n EXCEPT !.valid = v]
<1>1. /\ PrepareRsp(Self, r) /\ st.req # None /\ st.phase = "PREPARING"
      /\ st \in InstanceState /\ CallInProgress(st, seen) /\ r \in Response
  BY AnswerFacts, MockAssumption
     DEF UsableRsp, PrepareRspCounts, PrepareRsp, Expected, MockInv, MockTypeOK
<1>2. /\ n \in InstanceState /\ CallInProgress(n, seen) /\ n.term = st.term
      /\ n.req \in Proposal /\ n.req # None /\ n.phase = "PREPARING"
      /\ n.req.vid = st.req.vid /\ n.req.pid = st.req.pid
      /\ n.valid = st.valid /\ n.notified = st.notified /\ n.lastv = st.lastv
      /\ n.calls = st.calls
  BY <1>1, NotedFits
<1>3. v \in SUBSET Acceptor /\ r.prop \in Proposal
  BY <1>1 DEF InstanceState, Response
<1> HIDE DEF st, n, v
<1>4. /\ s \in InstanceState /\ s.req = n.req /\ s.phase = n.phase /\ s.term = n.term
      /\ s.ret = n.ret /\ s.calls = n.calls /\ s.notified = n.notified /\ s.lastv = n.lastv
  BY <1>2, <1>3 DEF InstanceState
<1> HIDE DEF s
<1>5. CallInProgress(s, seen)
  BY <1>2, <1>4, SameCall
<1>6. s = [n EXCEPT !.valid = @ \cup {r.from}]
  BY <1>2 DEF s, v
<1>7. seen \subseteq VotePids /\ VotePids \subseteq Nat
  BY MockAssumption DEF MockInv, MockTypeOK
<1>8. CASE ~IsLastVote(Self, r)
  <2>1. Counted(Self, r) = s /\ votes = seen
    BY <1>6, <1>8 DEF Counted, n
  <2> QED BY <1>2, <1>4, <1>5, <1>7, <2>1 DEF st
<1>9. CASE IsLastVote(Self, r)
  <2>1. r.prop.proposer = Peer /\ r.prop.val = r.prop.pid /\ r.prop.pid \in VotePids
    BY <1>1, <1>9, LastVoteFacts
  <2> DEFINE ret == IF s.notified THEN s.ret ELSE Append(s.ret, "PREPARE_PEER_VALUE")
             lv == IF ~s.notified \/ s.lastv.pid < r.prop.pid THEN r.prop ELSE s.lastv
             t == [s EXCEPT !.ret = ret, !.notified = TRUE, !.lastv = lv]
  <2>2. s.ret \in Seq(ErrCode) /\ s.notified \in BOOLEAN /\ "PREPARE_PEER_VALUE" \in ErrCode
    BY <1>4 DEF InstanceState, ErrCode
  <2>3. ret \in Seq(ErrCode) /\ Len(ret) = 1
    <3>1. CASE s.notified
      <4>1. Len(s.ret) = 1
        BY <1>2, <1>4, <1>5, <3>1 DEF CallInProgress, OneAnswer, OwnCall
      <4> QED BY <2>2, <3>1, <4>1
    <3>2. CASE ~s.notified
      <4>1. Len(s.ret) = 0
        BY <1>2, <1>4, <1>5, <3>2 DEF CallInProgress, OneAnswer
      <4> QED BY <2>2, <3>2, <4>1
    <3> QED BY <3>1, <3>2
  <2>4. KeptVote(s, seen)
    BY <1>2, <1>4, <1>5 DEF CallInProgress
  <2>5. /\ lv \in Proposal /\ lv.proposer = Peer /\ lv.val = lv.pid
        /\ lv.pid \in seen \cup {r.prop.pid} /\ \A w \in seen \cup {r.prop.pid} : w <= lv.pid
    <3>0. r.prop.pid \in Nat /\ \A w \in seen : w \in Nat
      BY <1>7, <2>1
    <3>1. CASE ~s.notified
      <4>1. seen = {} /\ lv = r.prop
        BY <2>4, <3>1 DEF KeptVote
      <4> HIDE DEF lv
      <4> QED BY <1>3, <2>1, <3>0, <4>1
    <3>2. CASE s.notified
      <4>1. /\ s.lastv \in Proposal /\ s.lastv.proposer = Peer /\ s.lastv.val = s.lastv.pid
            /\ s.lastv.pid \in seen /\ \A w \in seen : w <= s.lastv.pid
        BY <2>4, <3>2 DEF KeptVote
      <4>2. CASE s.lastv.pid < r.prop.pid
        <5>1. lv = r.prop
          BY <3>2, <4>2
        <5> HIDE DEF lv
        <5> QED BY <1>3, <2>1, <3>0, <4>1, <4>2, <5>1
      <4>3. CASE ~(s.lastv.pid < r.prop.pid)
        <5>1. lv = s.lastv
          BY <3>2, <4>3
        <5> HIDE DEF lv
        <5> QED BY <3>0, <4>1, <4>3, <5>1
      <4> QED BY <4>2, <4>3
    <3> QED BY <3>1, <3>2
  <2>6. Counted(Self, r) = t
    <3>1. Answer(s, "PREPARE_PEER_VALUE") = [s EXCEPT !.ret = ret]
      BY DEF Answer
    <3>2. Counted(Self, r) = [Answer(s, "PREPARE_PEER_VALUE") EXCEPT
                !.notified = TRUE,
                !.lastv = IF ~s.notified \/ @.pid < r.prop.pid THEN r.prop ELSE @]
      BY <1>6, <1>9 DEF Counted, n
    <3> HIDE DEF ret
    <3> QED BY <1>4, <3>1, <3>2 DEF InstanceState
  <2>7. votes = seen \cup {r.prop.pid}
    BY <1>9
  <2> HIDE DEF ret, lv
  <2>8. /\ t.req = s.req /\ t.phase = s.phase /\ t.term = s.term /\ t.calls = s.calls
        /\ t.ret = ret /\ t.notified = TRUE /\ t.lastv = lv
    BY <1>4 DEF InstanceState
  <2>9. t \in InstanceState
    BY <1>4, <2>3, <2>5, ZenonT(30) DEF InstanceState
  <2> HIDE DEF t
  <2>10. KeptVote(t, votes)
    BY <2>5, <2>7, <2>8 DEF KeptVote
  <2>11. OneAnswer(t) /\ OwnCall(t)
    BY <1>2, <1>4, <1>5, <2>3, <2>8 DEF CallInProgress, OneAnswer, OwnCall
  <2> QED BY <1>2, <1>4, <1>7, <2>1, <2>6, <2>7, <2>8, <2>9, <2>10, <2>11 DEF CallInProgress, st
<1> QED BY <1>8, <1>9

-----------------------------------------------------------------------------
(* Steps.                                                                  *)

\* A step that changes the proposer under test, the requests and the votes.
LEMMA StepKeeps ==
    ASSUME MockInv, NEW t \in InstanceState, inst' = [inst EXCEPT ![Self] = t],
           reqs' \subseteq Request, seen' \subseteq VotePids, CallInProgress(t, seen'),
           \A m \in reqs' : m.type = "PREPARE_REQ" =>
              /\ m.prop.term < t.term
              /\ t.req # None /\ t.phase = "PREPARING" /\ m.prop.term = t.term - 1 =>
                    m.prop.vid = t.req.vid
    PROVE  MockInv'
<1>1. /\ inst' \in [Proposer -> InstanceState] /\ inst'[Self] = t
      /\ \A p \in Proposer : p # Self => inst'[p] = inst[p]
  BY MockAssumption DEF MockInv, MockTypeOK
<1>2. MockTypeOK'
  BY <1>1 DEF MockTypeOK
<1>3. \A p \in Proposer : OneAnswer(inst'[p])
  BY <1>1 DEF MockInv, CallInProgress
<1>4. PreparesOf(inst[Self])'
  BY <1>1 DEF PreparesOf
<1> QED BY <1>1, <1>2, <1>3, <1>4 DEF MockInv

\* A step within a call, or one that ends it: no new prepare request.
LEMMA WithinCallKeeps ==
    ASSUME MockInv, NEW t \in InstanceState, inst' = [inst EXCEPT ![Self] = t],
           reqs' \subseteq Request, seen' \subseteq VotePids, CallInProgress(t, seen'),
           \A m \in reqs' \ reqs : m.type # "PREPARE_REQ",
           t.term = inst[Self].term,
           t.req # None /\ t.phase = "PREPARING" =>
              inst[Self].req # None /\ inst[Self].phase = "PREPARING" /\ t.req.vid = inst[Self].req.vid
    PROVE  MockInv'
<1>1. ASSUME NEW m \in reqs', m.type = "PREPARE_REQ"
      PROVE  /\ m.prop.term < t.term
             /\ t.req # None /\ t.phase = "PREPARING" /\ m.prop.term = t.term - 1 =>
                   m.prop.vid = t.req.vid
  <2>1. m \in reqs
    BY <1>1
  <2> QED BY <1>1, <2>1 DEF MockInv, PreparesOf
<1> QED BY <1>1, StepKeeps

\* What every step starts from.
LEMMA SelfFacts ==
    ASSUME MockInv
    PROVE  /\ inst[Self] \in InstanceState /\ CallInProgress(inst[Self], seen)
           /\ reqs \subseteq Request /\ seen \subseteq VotePids /\ Self \in Proposer
BY MockAssumption DEF MockInv, MockTypeOK

\* A request that Self sends is one more request.
LEMMA SendFits ==
    ASSUME MockInv, NEW type \in {"PREPARE_REQ", "ACCEPT_REQ", "CHOSEN_REQ"},
           NEW pp \in Proposal, Send(Self, type, pp)
    PROVE  \E m \in Request : m.type = type /\ m.prop = pp /\ reqs' = reqs \cup {m}
<1> DEFINE m == [type |-> type, src |-> Self, inc |-> inst[Self].inc, prop |-> pp]
<1>1. m \in Request
  BY SelfFacts DEF InstanceState, Request
<1> QED BY <1>1 DEF Send

\* SetGreaterThan never leaves the positive ids.
LEMMA SetGreaterThanFits ==
    ASSUME NEW id \in Nat \ {0}, NEW step \in Nat \ {0}, NEW v \in Nat
    PROVE  SetGreaterThan(id, step, v) \in Nat \ {0}
<1>1. CASE v <= id
  BY <1>1 DEF SetGreaterThan
<1>2. CASE ~(v <= id)
  <2>1. v - id + step - 1 \in Nat
    BY <1>2
  <2>2. (v - id + step - 1) \div step \in Nat
    BY <2>1
  <2>3. ((v - id + step - 1) \div step) * step \in Nat
    BY <2>2
  <2> QED BY <1>2, <2>3 DEF SetGreaterThan
<1> QED BY <1>1, <1>2

\* UpdatePrepareId touches nothing of the call.
LEMMA UpdatePrepareIdFits ==
    ASSUME NEW st \in InstanceState, NEW pid \in Nat, NEW votes, CallInProgress(st, votes)
    PROVE  LET t == UpdatePrepareId(st, pid) IN
           /\ t \in InstanceState /\ CallInProgress(t, votes)
           /\ t.req = st.req /\ t.phase = st.phase /\ t.term = st.term
<1> DEFINE g == SetGreaterThan(st.ig, NumProposer, pid)
           t == [st EXCEPT !.ig = g]
<1>1. g \in Nat \ {0}
  BY SetGreaterThanFits, SynodAssumption DEF InstanceState
<1>2. UpdatePrepareId(st, pid) = t
  BY DEF UpdatePrepareId
<1> HIDE DEF g
<1>3. /\ t \in InstanceState /\ t.req = st.req /\ t.phase = st.phase /\ t.term = st.term
      /\ t.ret = st.ret /\ t.calls = st.calls /\ t.notified = st.notified /\ t.lastv = st.lastv
  BY <1>1 DEF InstanceState
<1> HIDE DEF t
<1>4. CallInProgress(t, votes)
  BY <1>3, SameCall
<1> QED BY <1>2, <1>3, <1>4

\* Neither does UpdateChosenInfo.
LEMMA UpdateChosenInfoFits ==
    ASSUME NEW st \in InstanceState, NEW e \in Nat, NEW from \in Proposer, NEW votes,
           CallInProgress(st, votes)
    PROVE  LET t == UpdateChosenInfo(st, Self, e, from) IN
           /\ t \in InstanceState /\ CallInProgress(t, votes)
           /\ t.req = st.req /\ t.phase = st.phase /\ t.term = st.term
<1> DEFINE t == [st EXCEPT !.ig = Self + 1, !.lastEntry = e, !.lastFrom = from]
<1>1. Self + 1 \in Nat \ {0} /\ from \in Int
  BY SynodAssumption, MockAssumption DEF Proposer
<1>2. UpdateChosenInfo(st, Self, e, from) = st \/ UpdateChosenInfo(st, Self, e, from) = t
  BY DEF UpdateChosenInfo
<1>3. /\ t.req = st.req /\ t.phase = st.phase /\ t.term = st.term
      /\ t.ret = st.ret /\ t.calls = st.calls /\ t.notified = st.notified /\ t.lastv = st.lastv
  BY DEF InstanceState
<1>4. t \in InstanceState
  BY <1>1, ZenonT(40) DEF InstanceState
<1> HIDE DEF t
<1>5. CallInProgress(t, votes)
  BY <1>3, SameCall
<1> QED BY <1>2, <1>3, <1>4, <1>5

\* An accept response that counts touches nothing of the call.
LEMMA CountedAcceptFits ==
    ASSUME MockInv, NEW r \in Response, inst[Self].req # None
    PROVE  LET t == CountedAccept(Self, r) IN
           /\ t \in InstanceState /\ CallInProgress(t, seen) /\ t.term = inst[Self].term
           /\ t.req # None /\ t.phase = inst[Self].phase
<1> DEFINE n == Noted(Self, r)
           v == n.valid \cup {r.from}
           t == [n EXCEPT !.valid = v]
<1>1. /\ n \in InstanceState /\ CallInProgress(n, seen) /\ n.term = inst[Self].term
      /\ n.req # None /\ n.phase = inst[Self].phase
  BY NotedFits
<1> HIDE DEF n
<1>2. v \in SUBSET Acceptor
  BY <1>1 DEF InstanceState, Response
<1>3. CountedAccept(Self, r) = t
  BY <1>1 DEF CountedAccept, n
<1> HIDE DEF v
<1>4. /\ t \in InstanceState /\ t.req = n.req /\ t.phase = n.phase /\ t.term = n.term
      /\ t.ret = n.ret /\ t.calls = n.calls /\ t.notified = n.notified /\ t.lastv = n.lastv
  BY <1>1, <1>2 DEF InstanceState
<1> HIDE DEF t
<1>5. CallInProgress(t, seen)
  BY <1>1, <1>4, SameCall
<1> QED BY <1>1, <1>3, <1>4, <1>5

-----------------------------------------------------------------------------
(* The responses.                                                          *)

\* What handling a response starts from.
LEMMA RspFits ==
    ASSUME MockInv, NEW r \in Answers, PrepareRsp(Self, r) \/ AcceptRsp(Self, r)
    PROVE  /\ r \in Response /\ r.prop \in Proposal /\ r.prop.pid \in Nat /\ r.err \in ErrCode
           /\ inst[Self].req # None
           /\ inst[Self].phase \in {"PREPARING", "ACCEPTING"}
<1>1. r \in Response
  BY AnswerFacts
<1>2. r.prop \in Proposal /\ r.err \in ErrCode
  BY <1>1 DEF Response
<1>3. r.prop.pid \in Nat
  BY <1>2 DEF Proposal
<1> QED BY <1>1, <1>2, <1>3 DEF PrepareRsp, AcceptRsp, Expected

\* A failed response is only recorded.
LEMMA FailedKeeps ==
    ASSUME MockInv, NEW r \in Answers, UNCHANGED seen,
           PrepareRspFailed(Self, r) \/ AcceptRspFailed(Self, r)
    PROVE  MockInv' /\ reqs' = reqs
<1> DEFINE st == inst[Self]
           h == Heard(st, r)
<1>1. r \in Response /\ r.err \in ErrCode /\ st.req # None
  BY RspFits DEF PrepareRspFailed, AcceptRspFailed
<1>2. /\ h \in InstanceState /\ CallInProgress(h, seen)
      /\ h.req = st.req /\ h.phase = st.phase /\ h.term = st.term
  BY <1>1, SelfFacts, HeardFits
<1>3. PICK code \in ErrCode :
         inst' = [inst EXCEPT ![Self] = FinishIfDone(h, code)] /\ reqs' = reqs
  BY <1>1 DEF PrepareRspFailed, AcceptRspFailed, ErrCode
<1> DEFINE t == FinishIfDone(h, code)
<1> HIDE DEF h, t
<1>4. /\ t \in InstanceState /\ CallInProgress(t, seen) /\ t.term = st.term
      /\ t.req # None => t.req = st.req /\ t.phase = st.phase
  BY <1>1, <1>2, FinishIfDoneFits DEF t
<1> QED BY <1>1, <1>3, <1>4, SelfFacts, WithinCallKeeps DEF t

\* A response with a larger pid, or another value, is noted.
LEMMA RejectedKeeps ==
    ASSUME MockInv, NEW r \in Answers, UNCHANGED seen,
           PrepareRspRejected(Self, r) \/ AcceptRspRejected(Self, r) \/ AcceptRspOther(Self, r)
    PROVE  MockInv' /\ reqs' = reqs
<1> DEFINE st == inst[Self]
           n == Noted(Self, r)
           u == UpdatePrepareId(n, r.prop.pid)
<1>1. r \in Response /\ r.prop.pid \in Nat /\ st.req # None
  BY RspFits DEF PrepareRspRejected, AcceptRspRejected, AcceptRspOther
<1>2. /\ n \in InstanceState /\ CallInProgress(n, seen) /\ n.term = st.term
      /\ n.req # None /\ n.phase = st.phase /\ n.req.vid = st.req.vid
  BY <1>1, NotedFits
<1>3. PICK code \in ErrCode, x \in {n, u} :
         inst' = [inst EXCEPT ![Self] = FinishIfDone(x, code)] /\ reqs' = reqs
  BY DEF PrepareRspRejected, AcceptRspRejected, AcceptRspOther, ErrCode
<1> HIDE DEF n
<1>4. /\ u \in InstanceState /\ CallInProgress(u, seen)
      /\ u.req = n.req /\ u.phase = n.phase /\ u.term = n.term
  BY <1>1, <1>2, UpdatePrepareIdFits
<1> DEFINE t == FinishIfDone(x, code)
<1> HIDE DEF u, t
<1>5. /\ t \in InstanceState /\ CallInProgress(t, seen) /\ t.term = st.term
      /\ t.req # None => t.req = n.req /\ t.phase = st.phase
  BY <1>2, <1>4, FinishIfDoneFits DEF t
<1> QED BY <1>1, <1>2, <1>3, <1>5, SelfFacts, WithinCallKeeps DEF t

\* A usable response that ends a probe, or is not enough.
LEMMA CountedKeeps ==
    ASSUME MockInv, NEW r \in Answers,
           \/ PrepareRspProbed(Self, r) /\ UNCHANGED seen
           \/ PrepareRspWaits(Self, r) /\ Seen(r)
    PROVE  MockInv' /\ reqs' = reqs
<1> DEFINE st == inst[Self]
           c == Counted(Self, r)
           votes == IF IsLastVote(Self, r) THEN seen \cup {r.prop.pid} ELSE seen
<1>1. UsableRsp(Self, r)
  BY DEF PrepareRspProbed, PrepareRspWaits
<1>2. r \in Response /\ st.req # None /\ st.phase = "PREPARING"
  BY <1>1, RspFits DEF UsableRsp, PrepareRspCounts, PrepareRsp
<1>3. /\ c \in InstanceState /\ CallInProgress(c, votes) /\ c.term = st.term
      /\ c.req # None /\ c.phase = "PREPARING" /\ c.req.vid = st.req.vid
      /\ votes \subseteq VotePids
  BY <1>1, CountedFits
<1>4. "OK" \in ErrCode
  BY DEF ErrCode
<1>5. CASE PrepareRspProbed(Self, r) /\ UNCHANGED seen
  <2> DEFINE t == Finish(c, "OK")
  <2>1. inst' = [inst EXCEPT ![Self] = t] /\ reqs' = reqs
    BY <1>5 DEF PrepareRspProbed
  <2> HIDE DEF c, votes, t
  <2>2. OneAnswer(c) /\ c.calls > 0
    BY <1>3 DEF CallInProgress, OwnCall
  <2>3. t \in InstanceState /\ CallInProgress(t, seen) /\ t.req = None /\ t.term = st.term
    BY <1>3, <1>4, <2>2, FinishFits DEF t
  <2> QED BY <1>5, <2>1, <2>3, SelfFacts, WithinCallKeeps
<1>6. CASE PrepareRspWaits(Self, r) /\ Seen(r)
  <2> DEFINE t == FinishIfDone(c, "OK")
  <2>1. inst' = [inst EXCEPT ![Self] = t] /\ reqs' = reqs /\ seen' = votes
    BY <1>6 DEF PrepareRspWaits, Seen
  <2> HIDE DEF c, votes, t
  <2>2. /\ t \in InstanceState /\ CallInProgress(t, votes) /\ t.term = st.term
        /\ t.req # None => t.req = c.req /\ t.phase = c.phase
    BY <1>3, <1>4, FinishIfDoneFits DEF t
  <2> QED BY <1>2, <1>3, <2>1, <2>2, SelfFacts, WithinCallKeeps
<1> QED BY <1>5, <1>6

\* An accept response that counts.
LEMMA AcceptCountedKeeps ==
    ASSUME MockInv, NEW r \in Answers, UNCHANGED seen,
           AcceptRspChosen(Self, r) \/ AcceptRspWaits(Self, r)
    PROVE  MockInv' /\ \A m \in reqs' \ reqs : m.type # "ACCEPT_REQ"
<1> DEFINE st == inst[Self]
           c == CountedAccept(Self, r)
           u == UpdateChosenInfo(c, Self, r.prop.entry, r.prop.proposer)
<1>1. r \in Response /\ st.req # None /\ st.phase = "ACCEPTING" /\ r.prop \in Proposal
  BY RspFits DEF AcceptRspChosen, AcceptRspWaits, AcceptRspCounts, AcceptRsp
<1>2. /\ c \in InstanceState /\ CallInProgress(c, seen) /\ c.term = st.term
      /\ c.req # None /\ c.phase = "ACCEPTING"
  BY <1>1, CountedAcceptFits
<1>3. "OK" \in ErrCode
  BY DEF ErrCode
<1>4. CASE AcceptRspChosen(Self, r)
  <2> DEFINE t == Finish(u, "OK")
             pp == [r.prop EXCEPT !.val = 0, !.status = "CHOSEN"]
  <2>1. inst' = [inst EXCEPT ![Self] = t] /\ Send(Self, "CHOSEN_REQ", pp)
    BY <1>4 DEF AcceptRspChosen
  <2>2. pp \in Proposal /\ r.prop.entry \in Nat /\ r.prop.proposer \in Proposer
    BY <1>1 DEF Proposal, Status
  <2> HIDE DEF c, pp
  <2>3. /\ u \in InstanceState /\ CallInProgress(u, seen)
        /\ u.req = c.req /\ u.phase = c.phase /\ u.term = c.term
    BY <1>2, <2>2, UpdateChosenInfoFits
  <2> HIDE DEF u, t
  <2>4. t \in InstanceState /\ CallInProgress(t, seen) /\ t.req = None /\ t.term = st.term
    BY <1>2, <1>3, <2>3, FinishFits DEF t, CallInProgress, OwnCall
  <2>5. PICK m \in Request : m.type = "CHOSEN_REQ" /\ reqs' = reqs \cup {m}
    BY <2>1, <2>2, SendFits
  <2> QED BY <2>1, <2>4, <2>5, SelfFacts, WithinCallKeeps
<1>5. CASE AcceptRspWaits(Self, r)
  <2> DEFINE t == FinishIfDone(c, "OK")
  <2>1. inst' = [inst EXCEPT ![Self] = t] /\ reqs' = reqs
    BY <1>5 DEF AcceptRspWaits
  <2> HIDE DEF c, t
  <2>2. /\ t \in InstanceState /\ CallInProgress(t, seen) /\ t.term = st.term
        /\ t.req # None => t.req = c.req /\ t.phase = c.phase
    BY <1>2, <1>3, FinishIfDoneFits DEF t
  <2> QED BY <1>2, <2>1, <2>2, SelfFacts, WithinCallKeeps
<1> QED BY <1>4, <1>5

\* The end of the prepare phase: the accept request is for lastv_ or the
\* proposer's own value.
LEMMA AcceptsKeeps ==
    ASSUME MockInv, NEW r \in Answers, PrepareRspAccepts(Self, r), Seen(r)
    PROVE  /\ MockInv'
           /\ \A m \in reqs' \ reqs :
                IF seen' = {}
                THEN m.prop.proposer = Self /\ m.prop.val = inst[Self].calls
                ELSE /\ m.prop.proposer = Peer
                     /\ m.prop.val \in seen' /\ \A v \in seen' : v <= m.prop.val
<1> DEFINE st == inst[Self]
           c == Counted(Self, r)
           votes == IF IsLastVote(Self, r) THEN seen \cup {r.prop.pid} ELSE seen
           b == IF c.notified THEN c.lastv ELSE c.req
           m0 == [b EXCEPT !.status = "ACCEPTED", !.last = c.lastEntry]
           q == IF c.notified THEN c.req ELSE m0
           t == [c EXCEPT !.phase = "ACCEPTING", !.heard = {}, !.valid = {},
                          !.lastv = None, !.req = q]
<1>1. /\ UsableRsp(Self, r) /\ r.prop.pid > 0 /\ Send(Self, "ACCEPT_REQ", m0)
      /\ inst' = [inst EXCEPT ![Self] =
                    [ToAccepting(c) EXCEPT !.lastv = None, !.req = IF c.notified THEN @ ELSE m0]]
      /\ seen' = votes
  BY DEF PrepareRspAccepts, Seen
<1>2. /\ r \in Response /\ r.prop.pid \in Nat /\ st.req # None
      /\ r.prop.pid <= st.req.pid /\ st.req \in Proposal
  BY <1>1, RspFits, SelfFacts DEF UsableRsp, PrepareRspCounts, InstanceState
<1>3. /\ c \in InstanceState /\ CallInProgress(c, votes) /\ c.term = st.term
      /\ c.req \in Proposal /\ c.req # None /\ c.phase = "PREPARING"
      /\ c.req.vid = st.req.vid /\ c.req.pid = st.req.pid /\ votes \subseteq VotePids
  BY <1>1, CountedFits
<1>4. c.calls = st.calls
  BY <1>1, CountedFits
<1> HIDE DEF c, votes
<1>5. KeptVote(c, votes) /\ OneAnswer(c) /\ c.calls > 0 /\ c.req.proposer = Self
  BY <1>3 DEF CallInProgress, OwnCall
<1>6. c.req.val = c.calls
  <2>1. c.req.pid # 0
    BY <1>1, <1>2, <1>3 DEF Proposal
  <2> QED BY <1>3, <2>1 DEF CallInProgress, OwnCall
<1>7. b \in Proposal /\ c.lastEntry \in Nat
  BY <1>3, <1>5 DEF KeptVote, InstanceState
<1>8. m0 \in Proposal /\ m0.proposer = b.proposer /\ m0.val = b.val
  <2> HIDE DEF b
  <2> QED BY <1>7 DEF Proposal, Status
<1>9. IF votes = {} THEN m0.proposer = Self /\ m0.val = st.calls
      ELSE m0.proposer = Peer /\ m0.val \in votes /\ \A v \in votes : v <= m0.val
  <2>1. CASE votes = {}
    <3>1. b = c.req
      BY <1>5, <2>1 DEF KeptVote
    <3> HIDE DEF b, m0
    <3> QED BY <1>4, <1>5, <1>6, <1>8, <2>1, <3>1
  <2>2. CASE votes # {}
    <3>1. b = c.lastv /\ c.notified
      BY <1>5, <2>2 DEF KeptVote
    <3> HIDE DEF b, m0
    <3> QED BY <1>5, <1>8, <2>2, <3>1 DEF KeptVote
  <2> QED BY <2>1, <2>2
<1>10. q \in Proposal /\ q.proposer = Self
  <2>1. ~c.notified => q = m0 /\ b = c.req
    OBVIOUS
  <2> HIDE DEF m0, b
  <2> QED BY <1>3, <1>5, <1>8, <2>1
<1> HIDE DEF b, m0
<1>11. inst' = [inst EXCEPT ![Self] = t]
  <2>1. c.req = ToAccepting(c).req
    BY <1>3 DEF ToAccepting, InstanceState
  <2>2. [ToAccepting(c) EXCEPT !.lastv = None, !.req = IF c.notified THEN @ ELSE m0] = t
    BY <1>3, <2>1 DEF ToAccepting, InstanceState
  <2> HIDE DEF q, t
  <2> QED BY <1>1, <2>2
<1> HIDE DEF q
<1>12. t \in InstanceState
  BY <1>3, <1>10, ZenonT(40) DEF InstanceState
<1>13. /\ t.term = st.term /\ t.phase = "ACCEPTING" /\ t.req = q /\ t.ret = c.ret
       /\ t.calls = c.calls /\ t.notified = c.notified
  BY <1>3 DEF InstanceState
<1> HIDE DEF t
<1>14. CallInProgress(t, votes)
  <2>1. q # None
    BY <1>10, NoneAssumption
  <2> QED BY <1>3, <1>5, <1>10, <1>13, <2>1 DEF CallInProgress, OneAnswer, OwnCall
<1>15. PICK m \in Request : m.type = "ACCEPT_REQ" /\ m.prop = m0 /\ reqs' = reqs \cup {m}
  BY <1>1, <1>8, SendFits
<1>16. MockInv'
  BY <1>1, <1>3, <1>11, <1>12, <1>13, <1>14, <1>15, SelfFacts, WithinCallKeeps
<1> QED BY <1>1, <1>9, <1>15, <1>16

-----------------------------------------------------------------------------
(* The calls, the plog's news and the timer.                               *)

\* The proposal of a new call.
LEMMA AllocFits ==
    ASSUME MockInv, NEW kind, MayPropose(Self)
    PROVE  LET pp == AllocProposal(Self, kind) IN
           /\ pp \in Proposal /\ pp.term = inst[Self].term /\ pp.vid = inst[Self].vig
           /\ pp.proposer = Self
           /\ pp.pid # 0 => pp.val = inst[Self].calls + 1
<1>1. /\ inst[Self].lastEntry \in Nat /\ inst[Self].ig \in Nat /\ inst[Self].term \in Nat
      /\ inst[Self].vig \in Nat /\ inst[Self].calls \in Nat /\ Self \in Proposer
  BY SelfFacts DEF InstanceState
<1> QED BY <1>1 DEF AllocProposal, Proposal, Status

\* The state in which a call begins.
LEMMA BeginFits ==
    ASSUME MockInv, NEW kind, NEW pp \in Proposal, NEW phase \in {"PREPARING", "ACCEPTING"},
           pp.proposer = Self, pp.pid # 0 => pp.val = inst[Self].calls + 1
    PROVE  LET t == BeginCall(Self, kind, phase, pp) IN
           /\ t \in InstanceState /\ CallInProgress(t, {})
           /\ t.req = pp /\ t.phase = phase /\ t.term = inst[Self].term + 1
<1> DEFINE st == inst[Self]
           g == IF kind = "write" THEN NextId(st.ig, NumProposer) ELSE st.ig
           t == [st EXCEPT !.ig = g, !.vig = NextId(st.vig, 1), !.term = st.term + 1, !.req = pp,
                           !.phase = phase, !.notified = FALSE, !.heard = {}, !.valid = {},
                           !.calls = st.calls + 1, !.ret = <<>>]
<1>1. /\ st \in InstanceState /\ st.ig \in Nat \ {0} /\ st.vig \in Nat /\ st.term \in Nat
      /\ st.calls \in Nat
  BY SelfFacts DEF InstanceState
<1>2. BeginCall(Self, kind, phase, pp) = t
  BY <1>1 DEF BeginCall, InstanceState
<1>3. /\ g \in Nat \ {0} /\ NextId(st.vig, 1) \in Nat /\ st.term + 1 \in Nat
      /\ st.calls + 1 \in Nat /\ <<>> \in Seq(ErrCode)
  BY <1>1, SynodAssumption DEF NextId
<1> HIDE DEF g
<1>4. /\ t.req = pp /\ t.phase = phase /\ t.term = st.term + 1 /\ t.calls = st.calls + 1
      /\ t.ret = <<>> /\ t.notified = FALSE
  BY <1>1 DEF InstanceState
<1>5. t \in InstanceState
  BY <1>1, <1>3, ZenonT(40) DEF InstanceState
<1> HIDE DEF t
<1>6. pp # None /\ st.calls + 1 > 0 /\ Len(<<>>) = 0
  BY <1>1, NoneAssumption
<1>7. CallInProgress(t, {})
  BY <1>4, <1>6 DEF CallInProgress, OneAnswer, OwnCall, KeptVote
<1> QED BY <1>2, <1>4, <1>5, <1>7

\* A call of two phases.
LEMMA ProposePrepareKeeps ==
    ASSUME MockInv, NEW kind, ProposePrepare(Self, kind), seen' = {}
    PROVE  MockInv' /\ \A m \in reqs' \ reqs : m.type # "ACCEPT_REQ"
<1> DEFINE pp == AllocProposal(Self, kind)
           q == [pp EXCEPT !.val = 0]
           t == BeginCall(Self, kind, "PREPARING", pp)
<1>1. /\ MayPropose(Self) /\ Send(Self, "PREPARE_REQ", q)
      /\ inst' = [inst EXCEPT ![Self] = t]
  BY DEF ProposePrepare
<1>2. /\ pp \in Proposal /\ pp.term = inst[Self].term /\ pp.proposer = Self
      /\ pp.pid # 0 => pp.val = inst[Self].calls + 1
  BY <1>1, AllocFits
<1> HIDE DEF pp
<1>3. q \in Proposal /\ q.term = inst[Self].term /\ q.vid = pp.vid /\ inst[Self].term \in Nat
  BY <1>2 DEF Proposal
<1>4. /\ t \in InstanceState /\ CallInProgress(t, {})
      /\ t.req = pp /\ t.phase = "PREPARING" /\ t.term = inst[Self].term + 1
  BY <1>2, BeginFits
<1>5. PICK n \in Request : n.type = "PREPARE_REQ" /\ n.prop = q /\ reqs' = reqs \cup {n}
  BY <1>1, <1>3, SendFits
<1> HIDE DEF q, t
<1>6. ASSUME NEW m \in reqs', m.type = "PREPARE_REQ"
      PROVE  /\ m.prop.term < t.term
             /\ m.prop.term = t.term - 1 => m.prop.vid = t.req.vid
  <2>1. CASE m = n
    BY <1>3, <1>4, <1>5, <2>1
  <2>2. CASE m \in reqs
    <3>1. m.prop.term \in Nat /\ m.prop.term < inst[Self].term
      BY <1>6, <2>2, SelfFacts DEF MockInv, PreparesOf, Request, Proposal
    <3> QED BY <1>3, <1>4, <3>1
  <2> QED BY <1>5, <2>1, <2>2
<1>7. reqs' \subseteq Request
  BY <1>5, SelfFacts
<1>8. MockInv'
  BY <1>1, <1>4, <1>6, <1>7, StepKeeps
<1> QED BY <1>5, <1>8

\* A call of one phase.
LEMMA ProposeAcceptKeeps ==
    ASSUME MockInv, ProposeAccept(Self), seen' = {}
    PROVE  MockInv' /\ inst[Self].req = None
<1> DEFINE p0 == AllocProposal(Self, "write")
           pp == [p0 EXCEPT !.status = "ACCEPTED"]
           t == BeginCall(Self, "write", "ACCEPTING", pp)
<1>1. /\ MayPropose(Self) /\ Send(Self, "ACCEPT_REQ", pp)
      /\ inst' = [inst EXCEPT ![Self] = t] /\ inst[Self].req = None
  BY DEF ProposeAccept, MayPropose
<1>2. /\ p0 \in Proposal /\ p0.proposer = Self
      /\ p0.pid # 0 => p0.val = inst[Self].calls + 1
  BY <1>1, AllocFits
<1> HIDE DEF p0
<1>3. /\ pp \in Proposal /\ pp.proposer = Self
      /\ pp.pid # 0 => pp.val = inst[Self].calls + 1
  BY <1>2 DEF Proposal, Status
<1> HIDE DEF pp
<1>4. /\ t \in InstanceState /\ CallInProgress(t, {})
      /\ t.req = pp /\ t.phase = "ACCEPTING" /\ t.term = inst[Self].term + 1
  BY <1>3, BeginFits
<1>5. PICK n \in Request : n.type = "ACCEPT_REQ" /\ n.prop = pp /\ reqs' = reqs \cup {n}
  BY <1>1, <1>3, SendFits
<1> HIDE DEF t
<1>6. ASSUME NEW m \in reqs', m.type = "PREPARE_REQ"
      PROVE  m.prop.term < t.term
  <2>1. m \in reqs /\ inst[Self].term \in Nat
    BY <1>5, <1>6, SelfFacts DEF InstanceState
  <2>2. m.prop.term \in Nat /\ m.prop.term < inst[Self].term
    BY <1>6, <2>1, SelfFacts DEF MockInv, PreparesOf, Request, Proposal
  <2> QED BY <1>4, <2>1, <2>2
<1>7. reqs' \subseteq Request
  BY <1>5, SelfFacts
<1> QED BY <1>1, <1>4, <1>6, <1>7, StepKeeps

\* News from the plog touch nothing of the call.
LEMMA MockChosenKeeps ==
    ASSUME MockInv, NEW e \in Entry, MockChosen(e)
    PROVE  MockInv' /\ reqs' = reqs
<1> DEFINE t == UpdateChosenInfo(inst[Self], Self, e, Peer)
<1>1. e \in Nat /\ Peer \in Proposer
  BY SynodAssumption, MockAssumption DEF Entry
<1>2. inst' = [inst EXCEPT ![Self] = t] /\ reqs' = reqs /\ seen' = seen
  BY DEF MockChosen, OnEntryChosen, ZeroProposal
<1>3. /\ t \in InstanceState /\ CallInProgress(t, seen)
      /\ t.req = inst[Self].req /\ t.phase = inst[Self].phase /\ t.term = inst[Self].term
  BY <1>1, SelfFacts, UpdateChosenInfoFits
<1> HIDE DEF t
<1> QED BY <1>2, <1>3, SelfFacts, WithinCallKeeps

\* The timer ends the call.
LEMMA TimerKeeps ==
    ASSUME MockInv, TimerFires
    PROVE  MockInv' /\ reqs' = reqs
<1> DEFINE f == Finish(inst[Self], "TIMEOUT")
           t == [f EXCEPT !.lastv = None]
<1>1. /\ inst' = [inst EXCEPT ![Self] = t] /\ reqs' = reqs /\ seen' = seen
      /\ inst[Self].req # None
  BY DEF TimerFires, Timeout
<1>2. OneAnswer(inst[Self]) /\ inst[Self].calls > 0 /\ "TIMEOUT" \in ErrCode
  BY <1>1, SelfFacts DEF CallInProgress, OwnCall, ErrCode
<1>3. /\ f \in InstanceState /\ CallInProgress(f, seen) /\ f.req = None /\ f.term = inst[Self].term
  BY <1>1, <1>2, SelfFacts, FinishFits
<1> HIDE DEF f
<1>4. /\ t \in InstanceState /\ t.req = None /\ t.term = f.term /\ t.ret = f.ret
      /\ t.calls = f.calls /\ t.notified = f.notified
  BY <1>3 DEF InstanceState
<1> HIDE DEF t
<1>5. CallInProgress(t, seen)
  BY <1>3, <1>4 DEF CallInProgress, OneAnswer, OwnCall
<1> QED BY <1>1, <1>3, <1>4, <1>5, SelfFacts, WithinCallKeeps

-----------------------------------------------------------------------------
(* The proposer under test.                                                *)

LEMMA MockInit == Init => MockInv
<1> SUFFICES ASSUME Init PROVE MockInv
  OBVIOUS
<1>1. ASSUME NEW p \in Proposer
      PROVE  /\ inst[p] \in InstanceState /\ inst[p].calls = 0 /\ inst[p].req = None
             /\ inst[p].ret = <<>>
  <2>1. inst[p] = NewInstance(p, 0, 0, <<>>)
    BY DEF Init, ProposerInit
  <2>2. /\ ClockStart[p][0] \in Nat /\ p + 1 \in Nat \ {0} /\ -1 \in Int
        /\ <<>> \in Seq(ErrCode)
    BY ProposerAssumption, SynodAssumption DEF Proposer
  <2> QED BY <2>1, <2>2 DEF NewInstance, InstanceState
<1>2. inst \in [Proposer -> InstanceState]
  <2>1. inst = [p \in Proposer |-> inst[p]]
    BY DEF Init, ProposerInit
  <2> QED BY <1>1, <2>1
<1>3. MockTypeOK
  BY <1>2 DEF Init, MockTypeOK
<1>4. \A p \in Proposer : OneAnswer(inst[p])
  BY <1>1 DEF OneAnswer
<1>5. inst[Self].req = None
  BY <1>1, MockAssumption
<1>6. OneAnswer(inst[Self])
  BY <1>4, MockAssumption
<1> QED BY <1>3, <1>4, <1>5, <1>6 DEF Init, MockInv, CallInProgress, OwnCall, PreparesOf

\* Every step keeps the invariant, and sends an accept request only with the
\* largest vote.
LEMMA MockStep ==
    ASSUME MockInv, [Next]_mockVars
    PROVE  /\ MockInv'
           /\ \A m \in reqs' \ reqs :
                m.type = "ACCEPT_REQ" /\ inst[Self].req # None =>
                  IF seen' = {}
                  THEN m.prop.proposer = Self /\ m.prop.val = inst[Self].calls
                  ELSE /\ m.prop.proposer = Peer
                       /\ m.prop.val \in seen' /\ \A v \in seen' : v <= m.prop.val
<1>1. CASE UNCHANGED mockVars
  BY <1>1 DEF mockVars, MockInv, MockTypeOK, PreparesOf
<1>2. CASE \E kind \in CallKinds : ProposePrepare(Self, kind) /\ seen' = {}
  BY <1>2, ProposePrepareKeeps
<1>3. CASE ProposeAccept(Self) /\ seen' = {}
  BY <1>3, ProposeAcceptKeeps
<1>4. CASE \E r \in Answers : TakeResponse(r)
  <2>1. PICK r \in Answers : TakeResponse(r)
    BY <1>4
  <2>2. CASE (PrepareRspFailed(Self, r) \/ AcceptRspFailed(Self, r)) /\ UNCHANGED seen
    BY <2>2, FailedKeeps
  <2>3. CASE /\ \/ PrepareRspRejected(Self, r)
                \/ AcceptRspRejected(Self, r)
                \/ AcceptRspOther(Self, r)
             /\ UNCHANGED seen
    BY <2>3, RejectedKeeps
  <2>4. CASE \/ PrepareRspProbed(Self, r) /\ UNCHANGED seen
             \/ PrepareRspWaits(Self, r) /\ Seen(r)
    BY <2>4, CountedKeeps
  <2>5. CASE (AcceptRspChosen(Self, r) \/ AcceptRspWaits(Self, r)) /\ UNCHANGED seen
    BY <2>5, AcceptCountedKeeps
  <2>6. CASE PrepareRspAccepts(Self, r) /\ Seen(r)
    BY <2>6, AcceptsKeeps
  <2> QED BY <2>1, <2>2, <2>3, <2>4, <2>5, <2>6 DEF TakeResponse
<1>5. CASE \E e \in Entry : MockChosen(e)
  BY <1>5, MockChosenKeeps
<1>6. CASE TimerFires
  BY <1>6, TimerKeeps
<1> QED BY <1>1, <1>2, <1>3, <1>4, <1>5, <1>6 DEF Next, Call

\* The call in progress keeps its own value and the largest last vote.
THEOREM MockHolds == Spec => []MockInv
BY MockInit, MockStep, PTL DEF Spec

\* A client gets one answer per call, whatever the peers say: the first last
\* vote answers early, and Finish does not answer again.
THEOREM MockAnswersOnce == Spec => []AnsweredOnce
<1>1. MockInv => AnsweredOnce
  BY DEF MockInv, OneAnswer, AnsweredOnce
<1> QED BY <1>1, MockHolds, PTL

\* The accept request that ends a prepare phase is for the last vote with the
\* largest pid, and for the proposer's own value only if there was none.
THEOREM AdoptsLargestVoteHolds == Spec => AdoptsLargestVote
<1>1. MockInv /\ [Next]_mockVars =>
        [\A m \in reqs' \ reqs :
           m.type = "ACCEPT_REQ" /\ inst[Self].req # None =>
             IF seen' = {}
             THEN m.prop.proposer = Self /\ m.prop.val = inst[Self].calls
             ELSE /\ m.prop.proposer = Peer
                  /\ m.prop.val \in seen' /\ \A v \in seen' : v <= m.prop.val]_mockVars
  BY MockStep
<1> QED BY <1>1, MockHolds, PTL DEF Spec, AdoptsLargestVote

=============================================================================
