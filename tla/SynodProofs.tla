---------------------------- MODULE SynodProofs ----------------------------
(***************************************************************************)
(* Types, agreement, the keeping of promises, that the synod implements    *)
(* the abstract consensus, and what proposers and acceptors take for       *)
(* chosen, for all values of the constants.                                *)
(*                                                                         *)
(* TypeOK is not inductive by itself: a response is built from the entry a *)
(* request names, and an accept request from lastv_ when a last vote was   *)
(* met; Shape says that the entry exists and that no last vote is met.     *)
(* Agreement is not inductive either.  BallotInv is: the heart of it is    *)
(* that Closed, an acceptor's being done with all pids below some bound,   *)
(* is never undone, although handleAcceptReq forgets the promise when it   *)
(* votes and a crash leaves only the rows.  IdsInv holds whatever the      *)
(* clocks do: it gives the clients their single answer and keeps the pids  *)
(* of the proposers apart.  LearnInv needs that the value ids of two runs  *)
(* of a process differ.                                                    *)
(***************************************************************************)
EXTENDS SynodInv, SynodConsensus, FiniteSetTheorems, TLAPS

-----------------------------------------------------------------------------
\* The operators on proposals keep their type, and CopyProposalMeta changes
\* nothing but the term.
LEMMA ProposalType ==
    ASSUME NEW pp \in Proposal, NEW s \in Status, NEW n \in Nat, NEW k \in Nat
    PROVE  /\ [pp EXCEPT !.status = s] \in Proposal
           /\ [pp EXCEPT !.val = n] \in Proposal
           /\ [pp EXCEPT !.status = s, !.last = n] \in Proposal
           /\ [pp EXCEPT !.val = k, !.status = s] \in Proposal
BY DEF Proposal

\* CopyProposalMeta changes nothing but the term.
LEMMA CopyType ==
    ASSUME NEW dst \in Proposal, NEW src \in Proposal
    PROVE  /\ CopyProposalMeta(dst, src) \in Proposal
           /\ CopyProposalMeta(dst, src).entry = dst.entry
           /\ CopyProposalMeta(dst, src).pid = dst.pid
           /\ CopyProposalMeta(dst, src).vid = dst.vid
BY DEF Proposal, CopyProposalMeta

\* SetGreaterThan never leaves the positive ids.
LEMMA SetGreaterThanType ==
    ASSUME NEW id \in Nat \ {0}, NEW step \in Nat \ {0}, NEW v \in Nat
    PROVE  SetGreaterThan(id, step, v) \in Nat \ {0}
<1>1. CASE v <= id
  BY <1>1 DEF SetGreaterThan
<1>2. CASE ~(v <= id)
  <2>1. v - id + step - 1 \in Nat
    BY <1>2
  <2>2. (v - id + step - 1) \div step \in Nat
    BY <2>1
  <2>3. ((v - id + step - 1) \div step) * step \in Nat
    BY <2>2
  <2> QED BY <1>2, <2>3 DEF SetGreaterThan
<1> QED BY <1>1, <1>2

-----------------------------------------------------------------------------
\* The operators on a proposer's instance state keep its type and its shape.
LEMMA FinishType ==
    ASSUME NEW st \in InstanceState, NEW code \in ErrCode, ~st.notified
    PROVE  Finish(st, code) \in InstanceState /\ InstShape(Finish(st, code))
<1>1. Append(st.ret, code) \in Seq(ErrCode)
  BY DEF InstanceState
<1> QED BY <1>1 DEF InstanceState, Finish, Answer, InstShape

\* FinishIfDone keeps type and shape.
LEMMA FinishIfDoneType ==
    ASSUME NEW st \in InstanceState, NEW code \in ErrCode, InstShape(st)
    PROVE  /\ FinishIfDone(st, code) \in InstanceState
           /\ InstShape(FinishIfDone(st, code))
BY FinishType DEF FinishIfDone, InstShape

\* Recording a response keeps type and shape.
LEMMA HeardType ==
    ASSUME NEW st \in InstanceState, NEW r \in Response, InstShape(st)
    PROVE  Heard(st, r) \in InstanceState /\ InstShape(Heard(st, r))
<1> DEFINE h == st.heard \cup {<<r.from, r.req>>}
<1>1. <<r.from, r.req>> \in Acceptor \X Request
  BY DEF Response
<1>2. st.heard \in SUBSET (Acceptor \X Request)
  BY DEF InstanceState
<1>3. h \in SUBSET (Acceptor \X Request)
  BY <1>1, <1>2
<1>4. Heard(st, r) = [st EXCEPT !.heard = h]
  BY DEF Heard
<1> HIDE DEF h
<1> QED BY <1>3, <1>4 DEF InstanceState, InstShape

\* UpdatePrepareId keeps type and shape.
LEMMA UpdatePrepareIdType ==
    ASSUME NEW st \in InstanceState, NEW pid \in Nat, InstShape(st)
    PROVE  /\ UpdatePrepareId(st, pid) \in InstanceState
           /\ InstShape(UpdatePrepareId(st, pid))
<1>1. SetGreaterThan(st.ig, NumProposer, pid) \in Nat \ {0}
  BY SetGreaterThanType, SynodAssumption DEF InstanceState
<1> QED BY <1>1 DEF InstanceState, UpdatePrepareId, InstShape

\* UpdateChosenInfo keeps type and shape.
LEMMA UpdateChosenInfoType ==
    ASSUME NEW st \in InstanceState, NEW p \in Proposer, NEW e \in Nat,
           NEW from \in Proposer, InstShape(st)
    PROVE  /\ UpdateChosenInfo(st, p, e, from) \in InstanceState
           /\ InstShape(UpdateChosenInfo(st, p, e, from))
<1>1. p + 1 \in Nat \ {0} /\ from \in Int
  BY SynodAssumption DEF Proposer
<1>2. CASE e = 0 \/ e < st.lastEntry
  BY <1>2 DEF UpdateChosenInfo
<1>3. CASE ~(e = 0 \/ e < st.lastEntry)
  <2>1. UpdateChosenInfo(st, p, e, from) =
          [st EXCEPT !.ig = p + 1, !.lastEntry = e, !.lastFrom = from]
    BY <1>3 DEF UpdateChosenInfo
  <2> QED BY <1>1, <2>1, ZenonT(40) DEF InstanceState, InstShape
<1> QED BY <1>2, <1>3

\* Both handlers note a response to a call in progress.
LEMMA NotedType ==
    ASSUME TypeOK, Shape, NEW p \in Proposer, NEW r \in rsps, inst[p].req # None
    PROVE  /\ Noted(p, r) \in InstanceState
           /\ InstShape(Noted(p, r))
           /\ Noted(p, r).req \in Proposal
           /\ Noted(p, r).req.entry = inst[p].req.entry
           /\ Noted(p, r).req.pid = inst[p].req.pid
           /\ Noted(p, r).valid = inst[p].valid
           /\ Noted(p, r).phase = inst[p].phase
           /\ Noted(p, r).inc = inst[p].inc
           /\ Noted(p, r).term = inst[p].term
<1> DEFINE st == Heard(inst[p], r)
<1>1. r \in Response /\ r.prop \in Proposal /\ inst[p] \in InstanceState
  BY DEF TypeOK, NetTypeOK, Response, ProposerTypeOK
<1>2. InstShape(inst[p]) /\ inst[p].req \in Proposal /\ inst[p].req.entry \in Entry
  BY <1>1 DEF Shape, InstShape, InstanceState
<1>3. /\ st \in InstanceState /\ InstShape(st) /\ st.req = inst[p].req
      /\ st.valid = inst[p].valid /\ st.phase = inst[p].phase
      /\ st.inc = inst[p].inc /\ st.term = inst[p].term
  BY <1>1, <1>2, HeardType DEF Heard, InstanceState
<1> DEFINE q == CopyProposalMeta(st.req, r.prop)
<1>4. q \in Proposal /\ q.entry = inst[p].req.entry /\ q.pid = inst[p].req.pid
  BY <1>1, <1>2, <1>3, CopyType
<1>5. Noted(p, r) = [st EXCEPT !.req = q]
  BY DEF Noted
<1> HIDE DEF st, q
<1> QED BY <1>1, <1>2, <1>3, <1>4, <1>5, ZenonT(40) DEF InstanceState, InstShape

-----------------------------------------------------------------------------
\* Changing one entry of one acceptor.
LEMMA EntUpdate ==
    ASSUME ent \in [Acceptor -> [Entry -> EntryRec]],
           NEW a \in Acceptor, NEW e \in Entry, NEW x \in EntryRec,
           ent' = [ent EXCEPT ![a][e] = x]
    PROVE  /\ ent' \in [Acceptor -> [Entry -> EntryRec]]
           /\ ent'[a][e] = x
           /\ \A b \in Acceptor, f \in Entry :
                b # a \/ f # e => ent'[b][f] = ent[b][f]
OBVIOUS

\* Changing one row of one acceptor.
LEMMA DiskUpdate ==
    ASSUME disk \in [Acceptor -> [Entry -> EntryRec]],
           NEW a \in Acceptor, NEW e \in Entry, NEW x \in EntryRec,
           disk' = [disk EXCEPT ![a][e] = x]
    PROVE  /\ disk' \in [Acceptor -> [Entry -> EntryRec]]
           /\ disk'[a][e] = x
           /\ \A b \in Acceptor, f \in Entry :
                b # a \/ f # e => disk'[b][f] = disk[b][f]
OBVIOUS

\* The zeroed proposal is one.
LEMMA ZeroType == ZeroProposal \in Proposal
BY SynodAssumption DEF ZeroProposal, Proposal, Proposer, Status

\* A loaded entry has both proposals, and its promise is the saved one or none.
LEMMA ReloadedType ==
    ASSUME NEW x \in EntryRec
    PROVE  /\ Reloaded(x) \in EntryRec
           /\ Reloaded(x).acc \in Proposal
           /\ x.acc # None => Reloaded(x).acc = x.acc
           /\ x.acc = None => Reloaded(x).acc = ZeroProposal
           /\ Reloaded(x).prom = x.prom \/ Reloaded(x).prom = ZeroProposal
           /\ Reloaded(x).prom # None
<1>1. ZeroProposal # None
  BY ZeroType, NoneAssumption
<1> QED BY <1>1, ZeroType DEF Reloaded, EntryRec

\* What a step of acceptor a may do to its disk: save x as entry e, or not.
StoreStep(a, e, x) ==
    /\ SaveEntry(a, e, x) \/ UNCHANGED disk
    /\ UNCHANGED <<crashes, forgot>>

\* The row that is saved, and all others as they were.
LEMMA StoreStepRows ==
    ASSUME TypeOK, NEW a \in Acceptor, NEW e \in Entry, NEW x \in EntryRec,
           StoreStep(a, e, x)
    PROVE  /\ disk'[a][e] = disk[a][e] \/ disk'[a][e] = Reloaded(x)
           /\ \A b \in Acceptor, f \in Entry :
                b # a \/ f # e => disk'[b][f] = disk[b][f]
<1>1. disk \in [Acceptor -> [Entry -> EntryRec]]
  BY DEF TypeOK, AcceptorTypeOK
<1>2. CASE UNCHANGED disk
  BY <1>2
<1>3. CASE SaveEntry(a, e, x)
  <2>1. disk' = [disk EXCEPT ![a][e] = Reloaded(x)]
    BY <1>3 DEF SaveEntry
  <2>2. /\ disk'[a][e] = Reloaded(x)
        /\ \A b \in Acceptor, f \in Entry :
             b # a \/ f # e => disk'[b][f] = disk[b][f]
    BY <1>1, <2>1, ReloadedType, DiskUpdate
  <2> QED BY <2>2
<1> QED BY <1>2, <1>3 DEF StoreStep

\* Types and shape of what is on disk after such a step.
LEMMA StoreStepType ==
    ASSUME TypeOK, Shape, NEW a \in Acceptor, NEW e \in Entry, NEW x \in EntryRec,
           x.prom # None => x.prom.val = 0, StoreStep(a, e, x)
    PROVE  /\ disk' \in [Acceptor -> [Entry -> EntryRec]]
           /\ crashes' \in [Acceptor -> Nat]
           /\ forgot' \in [Acceptor -> SUBSET Entry]
           /\ \A b \in Acceptor, f \in Entry :
                disk'[b][f].prom # None => disk'[b][f].prom.val = 0
<1>1. /\ disk \in [Acceptor -> [Entry -> EntryRec]]
      /\ crashes' \in [Acceptor -> Nat] /\ forgot' \in [Acceptor -> SUBSET Entry]
  BY DEF TypeOK, AcceptorTypeOK, StoreStep
<1>2. \A b \in Acceptor, f \in Entry :
        disk[b][f].prom # None => disk[b][f].prom.val = 0
  BY DEF Shape
<1>3. CASE UNCHANGED disk
  BY <1>1, <1>2, <1>3
<1>4. CASE SaveEntry(a, e, x)
  <2>1. /\ Reloaded(x) \in EntryRec
        /\ Reloaded(x).prom = x.prom \/ Reloaded(x).prom = ZeroProposal
        /\ Reloaded(x).prom # None
    BY ReloadedType
  <2>2. Reloaded(x).prom.val = 0
    BY <2>1 DEF ZeroProposal
  <2>3. disk' = [disk EXCEPT ![a][e] = Reloaded(x)]
    BY <1>4 DEF SaveEntry
  <2>4. /\ disk' \in [Acceptor -> [Entry -> EntryRec]]
        /\ disk'[a][e] = Reloaded(x)
        /\ \A b \in Acceptor, f \in Entry :
             b # a \/ f # e => disk'[b][f] = disk[b][f]
    BY <1>1, <2>1, <2>3, DiskUpdate
  <2> QED BY <1>1, <1>2, <2>2, <2>4
<1> QED BY <1>3, <1>4 DEF StoreStep

\* What EntryMng's setters make of an entry.
LEMMA EntryOps ==
    ASSUME NEW x \in EntryRec, NEW pp \in Proposal
    PROVE  /\ SetPromised(x, pp) \in EntryRec
           /\ SetPromised(x, pp).acc = x.acc /\ SetPromised(x, pp).prom = pp
           /\ ClearPromised(x) \in EntryRec
           /\ ClearPromised(x).acc = x.acc /\ ClearPromised(x).prom = None
           /\ SetAccepted(x, pp) \in EntryRec
           /\ SetAccepted(x, pp).acc = pp /\ SetAccepted(x, pp).prom = x.prom
BY DEF SetPromised, ClearPromised, SetAccepted, EntryRec

\* A response of an acceptor is well formed.
LEMMA RespondType ==
    ASSUME TypeOK, Shape, NEW a \in Acceptor, NEW m \in reqs,
           NEW type \in {"PREPARE_RSP", "ACCEPT_RSP"}, NEW err \in ErrCode,
           NEW pp \in Proposal, NEW status \in Status,
           Respond(a, m, type, err, pp, status), reqs' = reqs,
           type = "PREPARE_RSP" => m.type = "PREPARE_REQ",
           type = "PREPARE_RSP" /\ status = "PROMISED" => pp.val = 0,
           type = "ACCEPT_RSP" /\ err = "OK" => pp.entry \in Entry
    PROVE  NetTypeOK' /\ \A r \in rsps' : RspShape(r)'
<1> DEFINE q == [pp EXCEPT !.status = status, !.last = lastChosen[a]]
<1>1. lastChosen[a] \in Nat /\ m \in Request /\ rsps \subseteq Response
      /\ reqs \subseteq Request
  BY DEF TypeOK, AcceptorTypeOK, NetTypeOK
<1>2. /\ q \in Proposal /\ q.status = status /\ q.val = pp.val
      /\ q.entry = pp.entry
  BY <1>1 DEF Proposal
<1> DEFINE z == [type |-> type, req |-> m, from |-> a, err |-> err, prop |-> q]
<1>3. rsps' = rsps \cup {z}
  BY DEF Respond
<1> HIDE DEF q
<1>8. z \in Response /\ z.type = type /\ z.req = m /\ z.err = err /\ z.prop = q
  BY <1>1, <1>2 DEF Response
<1> HIDE DEF z
<1>4. PICK n \in Response :
        /\ rsps' = rsps \cup {n} /\ n.type = type /\ n.req = m /\ n.err = err
        /\ n.prop.status = status /\ n.prop.val = pp.val /\ n.prop.entry = pp.entry
  BY <1>2, <1>3, <1>8
<1>5. NetTypeOK'
  BY <1>1, <1>4 DEF NetTypeOK
<1>6. RspShape(n)'
  BY <1>4 DEF RspShape, Promised, Accepted
<1>7. ASSUME NEW r \in rsps PROVE RspShape(r)'
  BY DEF Shape, RspShape, Promised, Accepted
<1> QED BY <1>4, <1>5, <1>6, <1>7

\* The remaining conjuncts of the goal, when an acceptor handles a request.
LEMMA AcceptorStep ==
    ASSUME TypeOK, Shape, UNCHANGED proposerVars, UNCHANGED reqs,
           NetTypeOK', \A r \in rsps' : RspShape(r)',
           AcceptorTypeOK',
           \A a \in Acceptor, e \in Entry :
              ent'[a][e].prom # None => ent'[a][e].prom.val = 0,
           \A a \in Acceptor, e \in Entry :
              disk'[a][e].prom # None => disk'[a][e].prom.val = 0
    PROVE  TypeOK' /\ Shape'
BY DEF TypeOK, Shape, ProposerTypeOK, proposerVars, ReqShape, InstShape

\* NoteCatchup keeps its type.
LEMMA NoteCatchupType ==
    ASSUME TypeOK, NEW a \in Acceptor, NEW pp \in Proposal, NoteCatchup(a, pp)
    PROVE  globalMax' \in [Acceptor -> Nat]
BY DEF TypeOK, AcceptorTypeOK, NoteCatchup, SetMaxChosen, Proposal

-----------------------------------------------------------------------------
\* What every acceptor's action starts from.
LEMMA ReqFacts ==
    ASSUME TypeOK, Shape, NEW a \in Acceptor, NEW m \in reqs
    PROVE  /\ m \in Request /\ m.prop \in Proposal /\ m.prop.entry \in Entry
           /\ m.type = "PREPARE_REQ" => m.prop.val = 0
           /\ ent[a] \in [Entry -> EntryRec]
           /\ ent[a][m.prop.entry] \in EntryRec
           /\ ent[a][m.prop.entry].acc # None => ent[a][m.prop.entry].acc \in Proposal
           /\ ent[a][m.prop.entry].prom # None =>
                /\ ent[a][m.prop.entry].prom \in Proposal
                /\ ent[a][m.prop.entry].prom.val = 0
<1>1. m \in Request /\ m.prop \in Proposal
  BY DEF TypeOK, NetTypeOK, Request
<1>2. m.prop.entry \in Entry /\ (m.type = "PREPARE_REQ" => m.prop.val = 0)
  BY DEF Shape, ReqShape
<1>3. ent[a] \in [Entry -> EntryRec] /\ ent[a][m.prop.entry] \in EntryRec
  BY <1>2 DEF TypeOK, AcceptorTypeOK
<1> QED BY <1>1, <1>2, <1>3 DEF EntryRec, Shape

\* PrepareLags answers with the request itself.
LEMMA PrepareLagsType ==
    ASSUME TypeOK, Shape, NEW a \in Acceptor, NEW m \in reqs,
           PrepareLags(a, m), UNCHANGED proposerVars
    PROVE  TypeOK' /\ Shape'
<1>1. NetTypeOK' /\ \A r \in rsps' : RspShape(r)'
  BY ReqFacts, RespondType DEF PrepareLags, ErrCode, Status
<1>2. AcceptorTypeOK'
  BY DEF TypeOK, AcceptorTypeOK, PrepareLags, acceptorVars, storeVars
<1> QED BY <1>1, <1>2, AcceptorStep DEF PrepareLags, Shape, acceptorVars, storeVars

\* PrepareSeesVote answers with a vote, which is no promise.
LEMMA PrepareSeesVoteType ==
    ASSUME TypeOK, Shape, NEW a \in Acceptor, NEW m \in reqs,
           PrepareSeesVote(a, m), UNCHANGED proposerVars
    PROVE  TypeOK' /\ Shape'
<1>1. NetTypeOK' /\ \A r \in rsps' : RspShape(r)'
  BY ReqFacts, RespondType DEF PrepareSeesVote, ErrCode, Status
<1>2. AcceptorTypeOK'
  BY ReqFacts, NoteCatchupType DEF TypeOK, AcceptorTypeOK, PrepareSeesVote, storeVars
<1> QED BY <1>1, <1>2, AcceptorStep DEF PrepareSeesVote, Shape, storeVars

\* PrepareSeesPromise answers with a recorded promise, which has no value.
LEMMA PrepareSeesPromiseType ==
    ASSUME TypeOK, Shape, NEW a \in Acceptor, NEW m \in reqs,
           PrepareSeesPromise(a, m), UNCHANGED proposerVars
    PROVE  TypeOK' /\ Shape'
<1>1. NetTypeOK' /\ \A r \in rsps' : RspShape(r)'
  BY ReqFacts, RespondType DEF PrepareSeesPromise, HeldByPromise, ErrCode, Status
<1>2. AcceptorTypeOK'
  BY ReqFacts, NoteCatchupType DEF TypeOK, AcceptorTypeOK, PrepareSeesPromise, storeVars
<1> QED BY <1>1, <1>2, AcceptorStep DEF PrepareSeesPromise, Shape, storeVars

\* PrepareNew records the request, which has no value.
LEMMA PrepareNewType ==
    ASSUME TypeOK, Shape, NEW a \in Acceptor, NEW m \in reqs,
           PrepareNew(a, m), UNCHANGED proposerVars
    PROVE  TypeOK' /\ Shape'
<1> DEFINE e == m.prop.entry
           pp == [m.prop EXCEPT !.status = "PROMISED"]
           x == SetPromised(ent[a][e], pp)
<1>1. /\ m.prop \in Proposal /\ e \in Entry /\ m.prop.val = 0
      /\ ent[a][e] \in EntryRec
  BY ReqFacts DEF PrepareNew
<1>2. pp \in Proposal /\ pp.val = 0
  BY <1>1 DEF Proposal, Status
<1>3. x \in EntryRec /\ x.prom = pp
  BY <1>1, <1>2, EntryOps
<1>4. NetTypeOK' /\ \A r \in rsps' : RspShape(r)'
  BY <1>1, RespondType DEF PrepareNew, ErrCode, Status
<1>5. globalMax' \in [Acceptor -> Nat]
  BY <1>1, NoteCatchupType DEF PrepareNew
<1>6. \/ ent' = ent
      \/ ent' = [ent EXCEPT ![a][e] = x]
  BY DEF PrepareNew
<1>9. StoreStep(a, e, x)
  BY DEF PrepareNew, StoreStep
<1> HIDE DEF e, pp, x
<1>7. /\ ent' \in [Acceptor -> [Entry -> EntryRec]]
      /\ \A b \in Acceptor, f \in Entry :
           ent'[b][f] = ent[b][f] \/ ent'[b][f].prom.val = 0
  <2>1. ent \in [Acceptor -> [Entry -> EntryRec]]
    BY DEF TypeOK, AcceptorTypeOK
  <2>2. CASE ent' = ent
    BY <2>1, <2>2
  <2>3. CASE ent' = [ent EXCEPT ![a][e] = x]
    <3>1. /\ ent' \in [Acceptor -> [Entry -> EntryRec]]
          /\ ent'[a][e] = x
          /\ \A b \in Acceptor, f \in Entry :
               b # a \/ f # e => ent'[b][f] = ent[b][f]
      BY <1>1, <1>3, <2>1, <2>3, EntUpdate
    <3> QED BY <1>2, <1>3, <3>1
  <2> QED BY <1>6, <2>2, <2>3
<1>10. /\ disk' \in [Acceptor -> [Entry -> EntryRec]]
       /\ crashes' \in [Acceptor -> Nat] /\ forgot' \in [Acceptor -> SUBSET Entry]
       /\ \A b \in Acceptor, f \in Entry :
            disk'[b][f].prom # None => disk'[b][f].prom.val = 0
  BY <1>1, <1>2, <1>3, <1>9, StoreStepType
<1>8. AcceptorTypeOK'
  BY <1>5, <1>7, <1>10 DEF TypeOK, AcceptorTypeOK, PrepareNew
<1>11. reqs' = reqs
  BY DEF PrepareNew
<1> QED BY <1>4, <1>7, <1>8, <1>10, <1>11, AcceptorStep DEF Shape

-----------------------------------------------------------------------------
\* AcceptLags answers with a zeroed proposal, but with an error code.
LEMMA AcceptLagsType ==
    ASSUME TypeOK, Shape, NEW a \in Acceptor, NEW m \in reqs,
           AcceptLags(a, m), UNCHANGED proposerVars
    PROVE  TypeOK' /\ Shape'
<1>1. ZeroProposal \in Proposal
  BY ZeroType
<1>2. NetTypeOK' /\ \A r \in rsps' : RspShape(r)'
  BY <1>1, ReqFacts, RespondType DEF AcceptLags, ErrCode, Status
<1>3. AcceptorTypeOK'
  BY DEF TypeOK, AcceptorTypeOK, AcceptLags, acceptorVars, storeVars
<1> QED BY <1>2, <1>3, AcceptorStep DEF AcceptLags, Shape, acceptorVars, storeVars

\* A vote names its proposal.
LEMMA VoteType ==
    ASSUME NEW pp \in Proposal
    PROVE  Vote(pp) \in VoteRec /\ Vote(pp).entry = pp.entry /\ Vote(pp).pid = pp.pid
BY DEF Vote, VoteRec, Proposal

\* The entry and the votes of a after AcceptVotes: x is what the entry becomes.
LEMMA AcceptVotesEffect ==
    ASSUME TypeOK, Shape, NEW a \in Acceptor, NEW m \in reqs, AcceptVotes(a, m)
    PROVE  \E pp \in Proposal, x \in EntryRec :
             /\ pp = [m.prop EXCEPT !.status = "ACCEPTED"]
             /\ pp.entry = m.prop.entry /\ pp.pid = m.prop.pid
             /\ pp.entry \in Entry
             /\ x.acc = pp /\ (x.prom = None \/ x.prom = ent[a][pp.entry].prom)
             /\ ent' = [ent EXCEPT ![a][pp.entry] = x]
             /\ StoreStep(a, pp.entry, x)
             /\ \/ votes' = votes
                \/ /\ votes' = [votes EXCEPT ![a] = @ \cup {Vote(pp)}]
                   /\ SaveEntry(a, pp.entry, x)
<1> DEFINE pp == [m.prop EXCEPT !.status = "ACCEPTED"]
           e == m.prop.entry
           x1 == SetAccepted(ent[a][e], pp)
           x2 == ClearPromised(x1)
<1>1. m.prop \in Proposal /\ e \in Entry /\ ent[a][e] \in EntryRec
  BY ReqFacts
<1>2. pp \in Proposal /\ pp.entry = e /\ pp.pid = m.prop.pid
  BY <1>1 DEF Proposal, Status
<1>3. x1 \in EntryRec /\ x1.acc = pp /\ x1.prom = ent[a][e].prom
  BY <1>1, <1>2, EntryOps
<1>4. x2 \in EntryRec /\ x2.acc = pp /\ x2.prom = None
  BY <1>2, <1>3, EntryOps
<1>5. \/ /\ ent' = [ent EXCEPT ![a][pp.entry] = x2]
         /\ votes' = [votes EXCEPT ![a] = @ \cup {Vote(pp)}]
         /\ SaveEntry(a, pp.entry, x1)
      \/ /\ ent' = [ent EXCEPT ![a][pp.entry] = x1]
         /\ votes' = votes
         /\ UNCHANGED disk
  BY <1>2 DEF AcceptVotes
<1>6. UNCHANGED <<crashes, forgot>>
  BY DEF AcceptVotes
<1> HIDE DEF x1, x2
<1>7. Reloaded(x1) = Reloaded(x2)
  <2>1. pp # None
    BY <1>2, NoneAssumption
  <2> QED BY <1>3, <1>4, <2>1 DEF Reloaded
<1>8. SaveEntry(a, pp.entry, x1) => SaveEntry(a, pp.entry, x2)
  BY <1>7 DEF SaveEntry
<1> QED BY <1>1, <1>2, <1>3, <1>4, <1>5, <1>6, <1>8 DEF StoreStep

\* AcceptVotes replaces one entry and answers for the same entry.
LEMMA AcceptVotesType ==
    ASSUME TypeOK, Shape, NEW a \in Acceptor, NEW m \in reqs,
           AcceptVotes(a, m), UNCHANGED proposerVars
    PROVE  TypeOK' /\ Shape'
<1>1. PICK pp \in Proposal, x \in EntryRec :
             /\ pp = [m.prop EXCEPT !.status = "ACCEPTED"]
             /\ pp.entry = m.prop.entry
             /\ pp.entry \in Entry
             /\ x.acc = pp /\ (x.prom = None \/ x.prom = ent[a][pp.entry].prom)
             /\ ent' = [ent EXCEPT ![a][pp.entry] = x]
             /\ StoreStep(a, pp.entry, x)
             /\ \/ votes' = votes
                \/ /\ votes' = [votes EXCEPT ![a] = @ \cup {Vote(pp)}]
                   /\ SaveEntry(a, pp.entry, x)
  BY AcceptVotesEffect
<1>2. m.type = "ACCEPT_REQ" /\ reqs' = reqs /\ lastChosen' = lastChosen
  BY DEF AcceptVotes
<1>3. PICK q \in Proposal : q = [pp EXCEPT !.val = 0] /\ q.entry = pp.entry
  <2>1. [pp EXCEPT !.val = 0] \in Proposal /\ [pp EXCEPT !.val = 0].entry = pp.entry
    BY <1>1 DEF Proposal
  <2> QED BY <2>1
<1>4. \/ Respond(a, m, "ACCEPT_RSP", "OK", q, "ACCEPTED")
      \/ Respond(a, m, "ACCEPT_RSP", "WRITE_PLOG_FAIL", q, "ACCEPTED_FAILED")
  BY <1>1, <1>3 DEF AcceptVotes
<1>5. NetTypeOK' /\ \A r \in rsps' : RspShape(r)'
  BY <1>1, <1>2, <1>3, <1>4, RespondType DEF ErrCode, Status
<1>6. ent \in [Acceptor -> [Entry -> EntryRec]]
  BY DEF TypeOK, AcceptorTypeOK
<1>7. /\ ent' \in [Acceptor -> [Entry -> EntryRec]]
      /\ ent'[a][pp.entry] = x
      /\ \A b \in Acceptor, f \in Entry :
           b # a \/ f # pp.entry => ent'[b][f] = ent[b][f]
  BY <1>1, <1>6, EntUpdate
<1>8. votes' \in [Acceptor -> SUBSET VoteRec]
  <2>1. votes \in [Acceptor -> SUBSET VoteRec] /\ Vote(pp) \in VoteRec
    BY VoteType DEF TypeOK, AcceptorTypeOK
  <2> QED BY <1>1, <2>1
<1>9. globalMax' \in [Acceptor -> Nat]
  BY ReqFacts, NoteCatchupType DEF AcceptVotes
<1>11. \A b \in Acceptor, f \in Entry :
         ent'[b][f].prom # None => ent'[b][f].prom.val = 0
  BY <1>1, <1>7 DEF Shape
<1>12. /\ disk' \in [Acceptor -> [Entry -> EntryRec]]
       /\ crashes' \in [Acceptor -> Nat] /\ forgot' \in [Acceptor -> SUBSET Entry]
       /\ \A b \in Acceptor, f \in Entry :
            disk'[b][f].prom # None => disk'[b][f].prom.val = 0
  BY <1>1, <1>7, <1>11, StoreStepType
<1>10. AcceptorTypeOK'
  BY <1>2, <1>7, <1>8, <1>9, <1>12 DEF TypeOK, AcceptorTypeOK
<1> QED BY <1>2, <1>5, <1>10, <1>11, <1>12, AcceptorStep

\* AcceptDuplicate clears a promise and answers with the vote held.
LEMMA AcceptDuplicateType ==
    ASSUME TypeOK, Shape, NEW a \in Acceptor, NEW m \in reqs,
           AcceptDuplicate(a, m), UNCHANGED proposerVars
    PROVE  TypeOK' /\ Shape'
<1> DEFINE e == m.prop.entry
           x == ClearPromised(ent[a][e])
           q == [ent[a][e].acc EXCEPT !.val = 0]
<1>1. /\ e \in Entry /\ ent[a][e] \in EntryRec /\ ent[a][e].acc \in Proposal
      /\ m.prop \in Proposal /\ m.type = "ACCEPT_REQ"
      /\ reqs' = reqs /\ lastChosen' = lastChosen /\ votes' = votes
  BY ReqFacts DEF AcceptDuplicate, IsDuplicate
<1>2. x \in EntryRec /\ x.prom = None
  BY <1>1, EntryOps
<1>3. q \in Proposal
  BY <1>1 DEF Proposal
<1>4. /\ Respond(a, m, "ACCEPT_RSP", "DUPLICATE_PROPOSAL_REQ", q, "ACCEPTED")
      /\ ent' = [ent EXCEPT ![a][e] = x]
  BY DEF AcceptDuplicate
<1>10. StoreStep(a, e, x)
  BY DEF AcceptDuplicate, StoreStep
<1> HIDE DEF x, q
<1>5. NetTypeOK' /\ \A r \in rsps' : RspShape(r)'
  BY <1>1, <1>3, <1>4, RespondType DEF ErrCode, Status
<1>6. /\ ent' \in [Acceptor -> [Entry -> EntryRec]]
      /\ ent'[a][e] = x
      /\ \A b \in Acceptor, f \in Entry :
           b # a \/ f # e => ent'[b][f] = ent[b][f]
  BY <1>1, <1>2, <1>4, EntUpdate DEF TypeOK, AcceptorTypeOK
<1>7. globalMax' \in [Acceptor -> Nat]
  BY <1>1, NoteCatchupType DEF AcceptDuplicate
<1>11. /\ disk' \in [Acceptor -> [Entry -> EntryRec]]
       /\ crashes' \in [Acceptor -> Nat] /\ forgot' \in [Acceptor -> SUBSET Entry]
       /\ \A b \in Acceptor, f \in Entry :
            disk'[b][f].prom # None => disk'[b][f].prom.val = 0
  BY <1>1, <1>2, <1>10, StoreStepType
<1>8. AcceptorTypeOK'
  BY <1>1, <1>6, <1>7, <1>11 DEF TypeOK, AcceptorTypeOK
<1>9. \A b \in Acceptor, f \in Entry :
         ent'[b][f].prom # None => ent'[b][f].prom.val = 0
  BY <1>2, <1>6 DEF Shape
<1> QED BY <1>1, <1>5, <1>8, <1>9, <1>11, AcceptorStep

\* AcceptRefused changes no entry.
LEMMA AcceptRefusedType ==
    ASSUME TypeOK, Shape, NEW a \in Acceptor, NEW m \in reqs,
           AcceptRefused(a, m), UNCHANGED proposerVars
    PROVE  TypeOK' /\ Shape'
<1> DEFINE x == ent[a][m.prop.entry]
           q1 == [m.prop EXCEPT !.val = 0]
           q2 == [x.acc EXCEPT !.val = 0]
<1>1. /\ m.prop \in Proposal /\ m.type = "ACCEPT_REQ" /\ m.prop.entry \in Entry
      /\ reqs' = reqs /\ ent' = ent /\ lastChosen' = lastChosen /\ votes' = votes
      /\ disk' = disk /\ crashes' = crashes /\ forgot' = forgot
      /\ x.acc # None => x.acc \in Proposal
  BY ReqFacts DEF AcceptRefused, storeVars
<1>2. q1 \in Proposal /\ q1.entry \in Entry
  BY <1>1 DEF Proposal
<1>3. x.acc # None => q2 \in Proposal
  BY <1>1 DEF Proposal
<1>4. \/ Respond(a, m, "ACCEPT_RSP", "OK", q1, "ACCEPTED_FAILED")
      \/ x.acc # None /\ Respond(a, m, "ACCEPT_RSP", "INVALID_PROPOSAL_REQ", q2, "ACCEPTED_FAILED")
      \/ Respond(a, m, "ACCEPT_RSP", "INVALID_PLOG_DATA", q1, "ACCEPTED_FAILED")
  BY DEF AcceptRefused
<1> HIDE DEF x, q1, q2
<1>5. NetTypeOK' /\ \A r \in rsps' : RspShape(r)'
  BY <1>1, <1>2, <1>3, <1>4, RespondType DEF ErrCode, Status
<1>6. globalMax' \in [Acceptor -> Nat]
  BY <1>1, NoteCatchupType DEF AcceptRefused
<1>7. AcceptorTypeOK'
  BY <1>1, <1>6 DEF TypeOK, AcceptorTypeOK
<1> QED BY <1>1, <1>5, <1>7, AcceptorStep DEF Shape

\* The entry after HandleChosenReq: only the status of the vote changes.
LEMMA HandleChosenReqEffect ==
    ASSUME TypeOK, Shape, NEW a \in Acceptor, NEW m \in reqs,
           HandleChosenReq(a, m)
    PROVE  \E e \in Entry, x \in EntryRec :
             /\ e = m.prop.entry
             /\ ent' = [ent EXCEPT ![a][e] = x]
             /\ SaveEntry(a, e, x)
             /\ UNCHANGED <<crashes, forgot>>
             /\ ent[a][e].acc # None
             /\ x.prom = ent[a][e].prom
             /\ x.acc \in Proposal
             /\ x.acc = [ent[a][e].acc EXCEPT !.status = "CHOSEN"]
             /\ x.acc.pid = ent[a][e].acc.pid
             /\ x.acc.status = "CHOSEN"
<1> DEFINE e == m.prop.entry
           y == ent[a][e]
           q == [y.acc EXCEPT !.status = "CHOSEN"]
           x == [y EXCEPT !.acc = q]
<1>1. e \in Entry /\ y \in EntryRec /\ y.acc # None /\ y.acc \in Proposal
  BY ReqFacts DEF HandleChosenReq, ChosenMatches
<1>2. q \in Proposal /\ q.pid = y.acc.pid /\ q.status = "CHOSEN"
  BY <1>1 DEF Proposal, Status
<1>3. /\ ent' = [ent EXCEPT ![a][e] = x] /\ SaveEntry(a, e, x)
      /\ UNCHANGED <<crashes, forgot>>
  BY DEF HandleChosenReq, SetChosen
<1>5. q = [y.acc EXCEPT !.status = "CHOSEN"]
  OBVIOUS
<1> HIDE DEF q
<1>4. x \in EntryRec /\ x.acc = q /\ x.prom = y.prom
  BY <1>1, <1>2 DEF EntryRec
<1> HIDE DEF x
<1> QED BY <1>1, <1>2, <1>3, <1>4, <1>5

\* HandleChosenReq sends nothing.
LEMMA HandleChosenReqType ==
    ASSUME TypeOK, Shape, NEW a \in Acceptor, NEW m \in reqs,
           HandleChosenReq(a, m), UNCHANGED proposerVars
    PROVE  TypeOK' /\ Shape'
<1>1. PICK e \in Entry, x \in EntryRec :
             /\ e = m.prop.entry
             /\ ent' = [ent EXCEPT ![a][e] = x]
             /\ SaveEntry(a, e, x)
             /\ UNCHANGED <<crashes, forgot>>
             /\ ent[a][e].acc # None
             /\ x.prom = ent[a][e].prom
             /\ x.acc \in Proposal
             /\ x.acc = [ent[a][e].acc EXCEPT !.status = "CHOSEN"]
             /\ x.acc.pid = ent[a][e].acc.pid
             /\ x.acc.status = "CHOSEN"
  BY HandleChosenReqEffect
<1>2. UNCHANGED <<votes, reqs, rsps>>
  BY DEF HandleChosenReq
<1>3. ent \in [Acceptor -> [Entry -> EntryRec]]
  BY DEF TypeOK, AcceptorTypeOK
<1>4. /\ ent' \in [Acceptor -> [Entry -> EntryRec]]
      /\ ent'[a][e] = x
      /\ \A b \in Acceptor, f \in Entry :
           b # a \/ f # e => ent'[b][f] = ent[b][f]
  BY <1>1, <1>3, EntUpdate
<1>5. e \in Nat
  BY SynodAssumption DEF Entry
<1>6. lastChosen' \in [Acceptor -> Nat] /\ globalMax' \in [Acceptor -> Nat]
  BY <1>1, <1>5 DEF HandleChosenReq, SetChosen, SetMaxChosen, TypeOK, AcceptorTypeOK
<1>10. /\ disk' \in [Acceptor -> [Entry -> EntryRec]]
       /\ crashes' \in [Acceptor -> Nat] /\ forgot' \in [Acceptor -> SUBSET Entry]
       /\ \A b \in Acceptor, f \in Entry :
            disk'[b][f].prom # None => disk'[b][f].prom.val = 0
  <2>1. StoreStep(a, e, x)
    BY <1>1 DEF StoreStep
  <2>2. x.prom # None => x.prom.val = 0
    BY <1>1 DEF Shape
  <2> QED BY <2>1, <2>2, StoreStepType
<1>7. AcceptorTypeOK'
  BY <1>2, <1>4, <1>6, <1>10 DEF TypeOK, AcceptorTypeOK
<1>8. NetTypeOK' /\ \A r \in rsps' : RspShape(r)'
  BY <1>2 DEF TypeOK, NetTypeOK, Shape, RspShape, Promised, Accepted
<1>9. \A b \in Acceptor, f \in Entry :
         ent'[b][f].prom # None => ent'[b][f].prom.val = 0
  BY <1>1, <1>4 DEF Shape
<1> QED BY <1>2, <1>7, <1>8, <1>9, <1>10, AcceptorStep

\* The last chosen row is an entry of the disk, or 0.
LEMMA LastRowType ==
    ASSUME NEW a \in Acceptor, NEW n \in Nat, n \in {0} \cup ChosenRows(a),
           \A e \in ChosenRows(a) : e <= n
    PROVE  LastRow(a) = n
<1>1. ChosenRows(a) \subseteq Nat
  BY SynodAssumption DEF ChosenRows, Entry
<1>2. \A k \in {0} \cup ChosenRows(a) : (\A e \in ChosenRows(a) : e <= k) => k = n
  <2> SUFFICES ASSUME NEW k \in {0} \cup ChosenRows(a), \A e \in ChosenRows(a) : e <= k
               PROVE  k = n
    OBVIOUS
  <2>1. k \in Nat /\ k <= n
    BY <1>1
  <2>2. n <= k
    BY <1>1, <2>1
  <2> QED BY <2>1, <2>2
<1> QED BY <1>2 DEF LastRow

\* A crash replaces the entries of a by its rows.
LEMMA CrashAcceptorType ==
    ASSUME TypeOK, Shape, DiskInv, NEW a \in Acceptor,
           CrashAcceptor(a), UNCHANGED proposerVars
    PROVE  TypeOK' /\ Shape'
<1>1. /\ ent \in [Acceptor -> [Entry -> EntryRec]]
      /\ disk \in [Acceptor -> [Entry -> EntryRec]]
      /\ lastChosen \in [Acceptor -> Nat] /\ globalMax \in [Acceptor -> Nat]
      /\ crashes \in [Acceptor -> Nat] /\ votes \in [Acceptor -> SUBSET VoteRec]
      /\ forgot \in [Acceptor -> SUBSET Entry]
  BY DEF TypeOK, AcceptorTypeOK
<1>2. LastRow(a) = lastChosen[a]
  BY <1>1, LastRowType DEF DiskInv
<1>3. /\ ent' = [ent EXCEPT ![a] = disk[a]]
      /\ lastChosen' = [lastChosen EXCEPT ![a] = lastChosen[a]]
      /\ globalMax' = [globalMax EXCEPT ![a] = lastChosen[a]]
      /\ crashes' = [crashes EXCEPT ![a] = @ + 1]
      /\ UNCHANGED <<disk, votes, reqs, rsps>>
  BY <1>2 DEF CrashAcceptor
<1>4. ent' \in [Acceptor -> [Entry -> EntryRec]]
  BY <1>1, <1>3
<1>5. /\ lastChosen' \in [Acceptor -> Nat] /\ globalMax' \in [Acceptor -> Nat]
      /\ crashes' \in [Acceptor -> Nat]
  BY <1>1, <1>3
<1>6. forgot' \in [Acceptor -> SUBSET Entry]
  <2> DEFINE F == {e \in Entry : disk[a][e] = EmptyEntry /\ Shown(a, e)}
  <2>1. F \subseteq Entry /\ forgot' = [forgot EXCEPT ![a] = @ \cup F]
    BY DEF CrashAcceptor
  <2> HIDE DEF F
  <2> QED BY <1>1, <2>1
<1>7. AcceptorTypeOK'
  BY <1>1, <1>3, <1>4, <1>5, <1>6 DEF AcceptorTypeOK
<1>8. NetTypeOK' /\ \A r \in rsps' : RspShape(r)'
  BY <1>3 DEF TypeOK, NetTypeOK, Shape, RspShape, Promised, Accepted
<1>9. \A b \in Acceptor, f \in Entry :
         /\ ent'[b][f].prom # None => ent'[b][f].prom.val = 0
         /\ disk'[b][f].prom # None => disk'[b][f].prom.val = 0
  BY <1>1, <1>3 DEF Shape
<1> QED BY <1>3, <1>7, <1>8, <1>9, AcceptorStep

-----------------------------------------------------------------------------
\* A proposer's step changes its own instance and may send a request.
LEMMA ProposerStep ==
    ASSUME TypeOK, Shape, NEW p \in Proposer, NEW st \in InstanceState,
           InstShape(st), inst' = [inst EXCEPT ![p] = st],
           UNCHANGED acceptorVars, UNCHANGED rsps, slaveFast' \subseteq Nat,
           reqs \subseteq reqs',
           \A m \in reqs' : m \in reqs \/ (m \in Request /\ ReqShape(m))
    PROVE  TypeOK' /\ Shape'
<1>1. inst \in [Proposer -> InstanceState]
  BY DEF TypeOK, ProposerTypeOK
<1>2. /\ inst' \in [Proposer -> InstanceState]
      /\ \A q \in Proposer : InstShape(inst'[q])
  BY <1>1 DEF Shape
<1>3. NetTypeOK' /\ AcceptorTypeOK' /\ ProposerTypeOK'
  BY <1>2 DEF TypeOK, NetTypeOK, AcceptorTypeOK, ProposerTypeOK, acceptorVars, storeVars
<1>4. \A m \in reqs' : ReqShape(m)
  BY DEF Shape
<1>5. ASSUME NEW r \in rsps' PROVE RspShape(r)'
  BY <1>5 DEF Shape, RspShape, Promised, Accepted
<1>6. \A a \in Acceptor, e \in Entry :
         /\ ent'[a][e].prom # None => ent'[a][e].prom.val = 0
         /\ disk'[a][e].prom # None => disk'[a][e].prom.val = 0
  BY DEF Shape, acceptorVars, storeVars
<1> QED BY <1>2, <1>3, <1>4, <1>5, <1>6 DEF TypeOK, Shape, ReqShape, InstShape

\* The common case: nothing is sent.
LEMMA QuietStep ==
    ASSUME TypeOK, Shape, NEW p \in Proposer, NEW st \in InstanceState,
           InstShape(st), inst' = [inst EXCEPT ![p] = st],
           UNCHANGED acceptorVars, UNCHANGED <<reqs, rsps, slaveFast>>
    PROVE  TypeOK' /\ Shape'
<1>1. slaveFast' \subseteq Nat
  BY DEF TypeOK, ProposerTypeOK
<1> QED BY <1>1, ProposerStep

\* A broadcast adds one well-formed request.
LEMMA SendType ==
    ASSUME TypeOK, NEW p \in Proposer, NEW pp \in Proposal, pp.entry \in Entry,
           NEW type \in {"PREPARE_REQ", "ACCEPT_REQ", "CHOSEN_REQ"},
           type = "PREPARE_REQ" => pp.val = 0,
           Send(p, type, pp)
    PROVE  \E n \in Request :
             /\ reqs' = reqs \cup {n} /\ ReqShape(n)
             /\ n.type = type /\ n.src = p /\ n.inc = inst[p].inc /\ n.prop = pp
<1> DEFINE n == [type |-> type, src |-> p, inc |-> inst[p].inc, prop |-> pp]
<1>1. inst[p].inc \in Nat
  BY DEF TypeOK, ProposerTypeOK, InstanceState
<1>2. n \in Request /\ reqs' = reqs \cup {n}
  BY <1>1 DEF Request, Send
<1>3. n.type = type /\ n.src = p /\ n.inc = inst[p].inc /\ n.prop = pp
  OBVIOUS
<1> HIDE DEF n
<1> QED BY <1>2, <1>3 DEF ReqShape

\* What a response finds.
LEMMA RspFacts ==
    ASSUME TypeOK, Shape, NEW p \in Proposer, NEW r \in rsps
    PROVE  /\ r \in Response /\ r.prop \in Proposal /\ r.from \in Acceptor
           /\ r.prop.pid \in Nat /\ r.err \in ErrCode
           /\ RspShape(r)
           /\ inst[p] \in InstanceState /\ InstShape(inst[p])
           /\ inst[p].req # None => inst[p].req \in Proposal
<1>1. r \in Response
  BY DEF TypeOK, NetTypeOK
<1>2. r.prop \in Proposal /\ r.from \in Acceptor /\ r.err \in ErrCode
  BY <1>1 DEF Response
<1>3. r.prop.pid \in Nat
  BY <1>2 DEF Proposal
<1>4. RspShape(r) /\ InstShape(inst[p])
  BY DEF Shape
<1>5. inst[p] \in InstanceState
  BY DEF TypeOK, ProposerTypeOK
<1>6. inst[p].req # None => inst[p].req \in Proposal
  BY <1>5 DEF InstanceState
<1> QED BY <1>1, <1>2, <1>3, <1>4, <1>5, <1>6

\* The proposal of a new call and the state it puts the instance in.
LEMMA AllocType ==
    ASSUME TypeOK, NEW p \in Proposer, NEW kind, MayPropose(p)
    PROVE  /\ AllocProposal(p, kind) \in Proposal
           /\ AllocProposal(p, kind).entry \in Entry
           /\ AllocProposal(p, kind).term = inst[p].term
<1>1. inst[p] \in InstanceState
  BY DEF TypeOK, ProposerTypeOK
<1>2. /\ inst[p].lastEntry \in Nat /\ inst[p].ig \in Nat /\ inst[p].term \in Nat
      /\ inst[p].vig \in Nat /\ inst[p].calls \in Nat
  BY <1>1 DEF InstanceState
<1>3. inst[p].lastEntry + 1 \in Entry
  BY <1>2, SynodAssumption DEF MayPropose, Entry
<1> QED BY <1>2, <1>3 DEF AllocProposal, Proposal, Status

\* The state of the instance when a call begins.
LEMMA BeginCallType ==
    ASSUME TypeOK, NEW p \in Proposer, NEW kind, NEW pp \in Proposal,
           NEW phase \in {"PREPARING", "ACCEPTING"}, pp.entry \in Entry
    PROVE  LET st == BeginCall(p, kind, phase, pp) IN
           /\ st \in InstanceState /\ InstShape(st)
           /\ st.req = pp /\ st.term = inst[p].term + 1 /\ st.valid = {}
           /\ st.phase = phase /\ st.inc = inst[p].inc
<1>1. inst[p] \in InstanceState
  BY DEF TypeOK, ProposerTypeOK
<1>2. /\ NextId(inst[p].ig, NumProposer) \in Nat \ {0}
      /\ NextId(inst[p].vig, 1) \in Nat
      /\ inst[p].ig \in Nat \ {0}
      /\ inst[p].term + 1 \in Nat
      /\ inst[p].calls + 1 \in Nat
  <2>1. /\ inst[p].ig \in Nat \ {0} /\ inst[p].vig \in Nat
        /\ inst[p].term \in Nat /\ inst[p].calls \in Nat
    BY <1>1 DEF InstanceState
  <2> QED BY <2>1, SynodAssumption DEF NextId
<1>3. <<>> \in Seq(ErrCode)
  OBVIOUS
<1> QED BY <1>1, <1>2, <1>3, ZenonT(40) DEF BeginCall, InstanceState, InstShape

\* ProposePrepare sends a request without a value.
LEMMA ProposePrepareType ==
    ASSUME TypeOK, Shape, NEW p \in Proposer, NEW kind,
           ProposePrepare(p, kind), UNCHANGED acceptorVars
    PROVE  TypeOK' /\ Shape'
<1> DEFINE pp == AllocProposal(p, kind)
           q == [pp EXCEPT !.val = 0]
           st == BeginCall(p, kind, "PREPARING", pp)
<1>1. pp \in Proposal /\ pp.entry \in Entry
  BY AllocType DEF ProposePrepare
<1>2. q \in Proposal /\ q.entry \in Entry /\ q.val = 0
  BY <1>1 DEF Proposal
<1>3. st \in InstanceState /\ InstShape(st)
  BY <1>1, BeginCallType
<1>4. Send(p, "PREPARE_REQ", q) /\ inst' = [inst EXCEPT ![p] = st]
      /\ UNCHANGED <<rsps, slaveFast>>
  BY DEF ProposePrepare
<1> HIDE DEF pp, q, st
<1>5. PICK n \in Request : reqs' = reqs \cup {n} /\ ReqShape(n)
  BY <1>2, <1>4, SendType
<1>6. slaveFast' \subseteq Nat
  BY <1>4 DEF TypeOK, ProposerTypeOK
<1> QED BY <1>3, <1>4, <1>5, <1>6, ProposerStep

\* ProposeAccept sends its own proposal and may mark the entry.
LEMMA ProposeAcceptType ==
    ASSUME TypeOK, Shape, NEW p \in Proposer,
           ProposeAccept(p), UNCHANGED acceptorVars
    PROVE  TypeOK' /\ Shape'
<1> DEFINE p0 == AllocProposal(p, "write")
           pp == [p0 EXCEPT !.status = "ACCEPTED"]
           st == BeginCall(p, "write", "ACCEPTING", pp)
<1>1. p0 \in Proposal /\ p0.entry \in Entry
  BY AllocType DEF ProposeAccept
<1>2. pp \in Proposal /\ pp.entry \in Entry
  BY <1>1 DEF Proposal, Status
<1>3. st \in InstanceState /\ InstShape(st)
  BY <1>2, BeginCallType
<1>4. /\ Send(p, "ACCEPT_REQ", pp) /\ inst' = [inst EXCEPT ![p] = st]
      /\ UNCHANGED rsps
      /\ slaveFast' = slaveFast \/ slaveFast' = slaveFast \cup {pp.entry}
  BY DEF ProposeAccept
<1> HIDE DEF pp, st
<1>5. PICK n \in Request : reqs' = reqs \cup {n} /\ ReqShape(n)
  BY <1>2, <1>4, SendType
<1>6. slaveFast \subseteq Nat /\ pp.entry \in Nat
  BY <1>2, SynodAssumption DEF TypeOK, ProposerTypeOK, Entry
<1>7. slaveFast' \subseteq Nat
  BY <1>4, <1>6
<1> QED BY <1>3, <1>4, <1>5, <1>7, ProposerStep

-----------------------------------------------------------------------------
\* A response that counts in the prepare phase never carries a last vote: it
\* is a promise, and promises have no value.
LEMMA CountedFacts ==
    ASSUME TypeOK, Shape, NEW p \in Proposer, NEW r \in rsps, UsableRsp(p, r)
    PROVE  /\ Counted(p, r) = [Noted(p, r) EXCEPT !.valid = @ \cup {r.from}]
           /\ Counted(p, r) \in InstanceState /\ InstShape(Counted(p, r))
           /\ Counted(p, r).req \in Proposal
           /\ Counted(p, r).req.entry = inst[p].req.entry
           /\ Counted(p, r).req.entry \in Entry
           /\ Counted(p, r).req.pid = inst[p].req.pid
           /\ Counted(p, r).valid = inst[p].valid \cup {r.from}
           /\ Counted(p, r).phase = "PREPARING"
           /\ Counted(p, r).inc = inst[p].inc
           /\ Counted(p, r).term = inst[p].term
<1>1. /\ inst[p].req # None /\ r.type = "PREPARE_RSP" /\ Promised(r)
      /\ inst[p].phase = "PREPARING"
  BY DEF UsableRsp, PrepareRspCounts, PrepareRsp, Expected
<1>2. r.prop.val = 0 /\ r.from \in Acceptor
  BY <1>1, RspFacts DEF RspShape
<1>3. ~IsLastVote(p, r)
  BY <1>2 DEF UsableRsp
<1> DEFINE st == Noted(p, r)
           v == inst[p].valid \cup {r.from}
<1>4. /\ st \in InstanceState /\ InstShape(st) /\ st.req \in Proposal
      /\ st.req.entry = inst[p].req.entry /\ st.req.pid = inst[p].req.pid
      /\ st.valid = inst[p].valid /\ st.phase = inst[p].phase
      /\ st.inc = inst[p].inc /\ st.term = inst[p].term
  BY <1>1, NotedType
<1>5. v \in SUBSET Acceptor
  BY <1>2, <1>4 DEF InstanceState
<1>6. Counted(p, r) = [st EXCEPT !.valid = st.valid \cup {r.from}]
  BY <1>3 DEF Counted
<1>7. Counted(p, r) = [st EXCEPT !.valid = v]
  BY <1>4, <1>6
<1>8. st.req.entry \in Entry
  BY <1>1, <1>4, NoneAssumption DEF InstShape
<1> HIDE DEF st, v
<1>9. /\ Counted(p, r) \in InstanceState /\ InstShape(Counted(p, r))
      /\ Counted(p, r).req = st.req /\ Counted(p, r).valid = v
      /\ Counted(p, r).phase = st.phase /\ Counted(p, r).inc = st.inc
      /\ Counted(p, r).term = st.term
  BY <1>4, <1>5, <1>7 DEF InstanceState, InstShape
<1> QED BY <1>1, <1>4, <1>6, <1>8, <1>9 DEF st, v

\* PrepareRspFailed only records the response.
LEMMA PrepareRspFailedType ==
    ASSUME TypeOK, Shape, NEW p \in Proposer, NEW r \in rsps,
           PrepareRspFailed(p, r), UNCHANGED acceptorVars
    PROVE  TypeOK' /\ Shape'
<1> DEFINE st == FinishIfDone(Heard(inst[p], r), "PREPARE_NOT_QUORUM")
<1>1. st \in InstanceState /\ InstShape(st)
  BY RspFacts, HeardType, FinishIfDoneType DEF ErrCode
<1>2. inst' = [inst EXCEPT ![p] = st] /\ UNCHANGED <<reqs, rsps, slaveFast>>
  BY DEF PrepareRspFailed
<1> HIDE DEF st
<1> QED BY <1>1, <1>2, QuietStep

\* PrepareRspRejected also moves the id generator.
LEMMA PrepareRspRejectedType ==
    ASSUME TypeOK, Shape, NEW p \in Proposer, NEW r \in rsps,
           PrepareRspRejected(p, r), UNCHANGED acceptorVars
    PROVE  TypeOK' /\ Shape'
<1> DEFINE s1 == UpdatePrepareId(Noted(p, r), r.prop.pid)
           st == FinishIfDone(s1, "PREPARE_NOT_QUORUM")
<1>1. Noted(p, r) \in InstanceState /\ InstShape(Noted(p, r)) /\ r.prop.pid \in Nat
  BY NotedType, RspFacts DEF PrepareRspRejected, PrepareRsp, Expected
<1>2. s1 \in InstanceState /\ InstShape(s1)
  BY <1>1, UpdatePrepareIdType
<1>3. st \in InstanceState /\ InstShape(st)
  BY <1>2, FinishIfDoneType DEF ErrCode
<1>4. inst' = [inst EXCEPT ![p] = st] /\ UNCHANGED <<reqs, rsps, slaveFast>>
  BY DEF PrepareRspRejected
<1> HIDE DEF st
<1> QED BY <1>3, <1>4, QuietStep

\* PrepareRspAborts ends the call.
LEMMA PrepareRspAbortsType ==
    ASSUME TypeOK, Shape, NEW p \in Proposer, NEW r \in rsps,
           PrepareRspAborts(p, r), UNCHANGED acceptorVars
    PROVE  TypeOK' /\ Shape'
<1> DEFINE s1 == Finish(inst[p], "CRASHED")
           st == [s1 EXCEPT !.phase = "ABORTED"]
<1>1. s1 \in InstanceState /\ InstShape(s1)
  BY RspFacts, FinishType DEF ErrCode, InstShape
<1>2. inst' = [inst EXCEPT ![p] = st] /\ UNCHANGED <<reqs, rsps, slaveFast>>
  BY DEF PrepareRspAborts
<1> HIDE DEF s1
<1>3. st \in InstanceState /\ InstShape(st)
  BY <1>1 DEF InstanceState, InstShape
<1> HIDE DEF st
<1> QED BY <1>2, <1>3, QuietStep

\* The request and the state that PrepareRspAccepts leaves: the proposer's own
\* proposal, for the same entry and pid.
LEMMA PrepareRspAcceptsEffect ==
    ASSUME TypeOK, Shape, NEW p \in Proposer, NEW r \in rsps,
           PrepareRspAccepts(p, r)
    PROVE  \E m \in Proposal, st \in InstanceState :
             /\ m.entry = inst[p].req.entry /\ m.pid = inst[p].req.pid
             /\ m.entry \in Entry
             /\ Send(p, "ACCEPT_REQ", m)
             /\ inst' = [inst EXCEPT ![p] = st]
             /\ InstShape(st)
             /\ st.req = m /\ st.phase = "ACCEPTING" /\ st.valid = {}
             /\ st.inc = inst[p].inc /\ st.term = inst[p].term
<1> DEFINE s1 == Counted(p, r)
           m == [s1.req EXCEPT !.status = "ACCEPTED", !.last = s1.lastEntry]
           st == [ToAccepting(s1) EXCEPT !.lastv = None, !.req = m]
<1>1. /\ s1 \in InstanceState /\ InstShape(s1) /\ s1.req \in Proposal
      /\ s1.req.entry = inst[p].req.entry /\ s1.req.pid = inst[p].req.pid
      /\ s1.req.entry \in Entry
      /\ s1.inc = inst[p].inc /\ s1.term = inst[p].term
  BY CountedFacts DEF PrepareRspAccepts
<1>2. ~s1.notified /\ s1.lastEntry \in Nat
  BY <1>1 DEF InstShape, InstanceState
<1>3. Send(p, "ACCEPT_REQ", m) /\ inst' = [inst EXCEPT ![p] = st]
  BY <1>2 DEF PrepareRspAccepts
<1>4. m \in Proposal /\ m.entry = s1.req.entry /\ m.pid = s1.req.pid
  BY <1>1, <1>2 DEF Proposal, Status
<1> HIDE DEF s1, m
<1>5. /\ st \in InstanceState /\ InstShape(st)
      /\ st.req = m /\ st.phase = "ACCEPTING" /\ st.valid = {}
      /\ st.inc = s1.inc /\ st.term = s1.term
  BY <1>1, <1>2, <1>4 DEF InstanceState, InstShape, ToAccepting
<1> HIDE DEF st
<1> QED BY <1>1, <1>3, <1>4, <1>5

\* PrepareRspAccepts sends a well-formed accept request.
LEMMA PrepareRspAcceptsType ==
    ASSUME TypeOK, Shape, NEW p \in Proposer, NEW r \in rsps,
           PrepareRspAccepts(p, r), UNCHANGED acceptorVars
    PROVE  TypeOK' /\ Shape'
<1>1. PICK m \in Proposal, st \in InstanceState :
             /\ m.entry \in Entry
             /\ Send(p, "ACCEPT_REQ", m)
             /\ inst' = [inst EXCEPT ![p] = st]
             /\ InstShape(st)
  BY PrepareRspAcceptsEffect
<1>2. PICK n \in Request : reqs' = reqs \cup {n} /\ ReqShape(n)
  BY <1>1, SendType
<1>3. UNCHANGED <<rsps, slaveFast>>
  BY DEF PrepareRspAccepts
<1>4. slaveFast' \subseteq Nat
  BY <1>3 DEF TypeOK, ProposerTypeOK
<1> QED BY <1>1, <1>2, <1>3, <1>4, ProposerStep

\* PrepareRspProbed ends the call.
LEMMA PrepareRspProbedType ==
    ASSUME TypeOK, Shape, NEW p \in Proposer, NEW r \in rsps,
           PrepareRspProbed(p, r), UNCHANGED acceptorVars
    PROVE  TypeOK' /\ Shape'
<1> DEFINE st == Finish(Counted(p, r), "OK")
<1>1. Counted(p, r) \in InstanceState /\ InstShape(Counted(p, r))
  BY CountedFacts DEF PrepareRspProbed
<1>2. st \in InstanceState /\ InstShape(st)
  BY <1>1, FinishType DEF ErrCode, InstShape
<1>3. inst' = [inst EXCEPT ![p] = st] /\ UNCHANGED <<reqs, rsps, slaveFast>>
  BY DEF PrepareRspProbed
<1> HIDE DEF st
<1> QED BY <1>2, <1>3, QuietStep

\* PrepareRspWaits counts the response.
LEMMA PrepareRspWaitsType ==
    ASSUME TypeOK, Shape, NEW p \in Proposer, NEW r \in rsps,
           PrepareRspWaits(p, r), UNCHANGED acceptorVars
    PROVE  TypeOK' /\ Shape'
<1> DEFINE st == FinishIfDone(Counted(p, r), "OK")
<1>1. Counted(p, r) \in InstanceState /\ InstShape(Counted(p, r))
  BY CountedFacts DEF PrepareRspWaits
<1>2. st \in InstanceState /\ InstShape(st)
  BY <1>1, FinishIfDoneType DEF ErrCode
<1>3. inst' = [inst EXCEPT ![p] = st] /\ UNCHANGED <<reqs, rsps, slaveFast>>
  BY DEF PrepareRspWaits
<1> HIDE DEF st
<1> QED BY <1>2, <1>3, QuietStep

-----------------------------------------------------------------------------
\* AcceptRspFailed only records the response.
LEMMA AcceptRspFailedType ==
    ASSUME TypeOK, Shape, NEW p \in Proposer, NEW r \in rsps,
           AcceptRspFailed(p, r), UNCHANGED acceptorVars
    PROVE  TypeOK' /\ Shape'
<1> DEFINE code == IF r.err # "OK" THEN r.err ELSE "PEER_ACCEPT_FAIL"
           st == FinishIfDone(Heard(inst[p], r), code)
<1>1. code \in ErrCode
  BY RspFacts DEF ErrCode
<1>2. inst' = [inst EXCEPT ![p] = st] /\ UNCHANGED <<reqs, rsps, slaveFast>>
  BY DEF AcceptRspFailed
<1> HIDE DEF code
<1>3. st \in InstanceState /\ InstShape(st)
  BY <1>1, RspFacts, HeardType, FinishIfDoneType
<1> HIDE DEF st
<1> QED BY <1>2, <1>3, QuietStep

\* AcceptRspRejected also moves the id generator.
LEMMA AcceptRspRejectedType ==
    ASSUME TypeOK, Shape, NEW p \in Proposer, NEW r \in rsps,
           AcceptRspRejected(p, r), UNCHANGED acceptorVars
    PROVE  TypeOK' /\ Shape'
<1> DEFINE s1 == UpdatePrepareId(Noted(p, r), r.prop.pid)
           st == FinishIfDone(s1, "PEER_ACCEPT_REJECTED")
<1>1. Noted(p, r) \in InstanceState /\ InstShape(Noted(p, r)) /\ r.prop.pid \in Nat
  BY NotedType, RspFacts DEF AcceptRspRejected, AcceptRsp, Expected
<1>2. s1 \in InstanceState /\ InstShape(s1)
  BY <1>1, UpdatePrepareIdType
<1>3. st \in InstanceState /\ InstShape(st)
  BY <1>2, FinishIfDoneType DEF ErrCode
<1>4. inst' = [inst EXCEPT ![p] = st] /\ UNCHANGED <<reqs, rsps, slaveFast>>
  BY DEF AcceptRspRejected
<1> HIDE DEF st
<1> QED BY <1>3, <1>4, QuietStep

\* AcceptRspOther only records the response.
LEMMA AcceptRspOtherType ==
    ASSUME TypeOK, Shape, NEW p \in Proposer, NEW r \in rsps,
           AcceptRspOther(p, r), UNCHANGED acceptorVars
    PROVE  TypeOK' /\ Shape'
<1> DEFINE st == FinishIfDone(Noted(p, r), "PEER_ACCEPT_OTHER_VALUE")
<1>1. Noted(p, r) \in InstanceState /\ InstShape(Noted(p, r))
  BY NotedType DEF AcceptRspOther, AcceptRsp, Expected
<1>2. st \in InstanceState /\ InstShape(st)
  BY <1>1, FinishIfDoneType DEF ErrCode
<1>3. inst' = [inst EXCEPT ![p] = st] /\ UNCHANGED <<reqs, rsps, slaveFast>>
  BY DEF AcceptRspOther
<1> HIDE DEF st
<1> QED BY <1>2, <1>3, QuietStep

\* Counting an accepted response keeps the type.
LEMMA CountedAcceptType ==
    ASSUME TypeOK, Shape, NEW p \in Proposer, NEW r \in rsps, AcceptRspCounts(p, r)
    PROVE  /\ CountedAccept(p, r) \in InstanceState
           /\ InstShape(CountedAccept(p, r))
           /\ CountedAccept(p, r).phase = "ACCEPTING"
           /\ CountedAccept(p, r).inc = inst[p].inc
           /\ CountedAccept(p, r).term = inst[p].term
           /\ CountedAccept(p, r).req.entry = inst[p].req.entry
           /\ CountedAccept(p, r).req.pid = inst[p].req.pid
<1> DEFINE st == Noted(p, r)
           v == st.valid \cup {r.from}
<1>1. inst[p].req # None /\ inst[p].phase = "ACCEPTING"
  BY DEF AcceptRspCounts, AcceptRsp, Expected
<1>2. /\ st \in InstanceState /\ InstShape(st) /\ st.phase = inst[p].phase
      /\ st.inc = inst[p].inc /\ st.term = inst[p].term
      /\ st.req.entry = inst[p].req.entry /\ st.req.pid = inst[p].req.pid
  BY <1>1, NotedType
<1>3. CountedAccept(p, r) = [st EXCEPT !.valid = v]
  BY DEF CountedAccept
<1>4. r.from \in Acceptor
  BY RspFacts
<1> HIDE DEF st
<1>5. v \in SUBSET Acceptor
  BY <1>2, <1>4 DEF InstanceState
<1> HIDE DEF v
<1> QED BY <1>1, <1>2, <1>3, <1>5 DEF InstanceState, InstShape

\* AcceptRspChosen sends a request for the entry the response names.
LEMMA AcceptRspChosenType ==
    ASSUME TypeOK, Shape, NEW p \in Proposer, NEW r \in rsps,
           AcceptRspChosen(p, r), UNCHANGED acceptorVars
    PROVE  TypeOK' /\ Shape'
<1> DEFINE s1 == CountedAccept(p, r)
           s2 == UpdateChosenInfo(s1, p, r.prop.entry, r.prop.proposer)
           st == Finish(s2, "OK")
           pp == [r.prop EXCEPT !.val = 0, !.status = "CHOSEN"]
<1>1. /\ Send(p, "CHOSEN_REQ", pp) /\ inst' = [inst EXCEPT ![p] = st]
      /\ UNCHANGED <<rsps, slaveFast>>
      /\ AcceptRspCounts(p, r)
  BY DEF AcceptRspChosen
<1>2. s1 \in InstanceState /\ InstShape(s1)
  BY <1>1, CountedAcceptType
<1>3. r.prop \in Proposal /\ r.prop.entry \in Entry
  BY <1>1, RspFacts DEF RspShape, AcceptRspCounts, AcceptRsp
<1>4. r.prop.entry \in Nat /\ r.prop.proposer \in Proposer
  BY <1>3 DEF Proposal
<1>5. pp \in Proposal /\ pp.entry \in Entry
  BY <1>3 DEF Proposal, Status
<1> HIDE DEF s1, pp
<1>6. s2 \in InstanceState /\ InstShape(s2)
  BY <1>2, <1>4, UpdateChosenInfoType
<1> HIDE DEF s2
<1>7. st \in InstanceState /\ InstShape(st)
  BY <1>6, FinishType DEF ErrCode, InstShape
<1> HIDE DEF st
<1>8. PICK n \in Request : reqs' = reqs \cup {n} /\ ReqShape(n)
  BY <1>1, <1>5, SendType
<1>9. slaveFast' \subseteq Nat
  BY <1>1 DEF TypeOK, ProposerTypeOK
<1> QED BY <1>1, <1>7, <1>8, <1>9, ProposerStep

\* AcceptRspWaits counts the response.
LEMMA AcceptRspWaitsType ==
    ASSUME TypeOK, Shape, NEW p \in Proposer, NEW r \in rsps,
           AcceptRspWaits(p, r), UNCHANGED acceptorVars
    PROVE  TypeOK' /\ Shape'
<1> DEFINE st == FinishIfDone(CountedAccept(p, r), "OK")
<1>1. CountedAccept(p, r) \in InstanceState /\ InstShape(CountedAccept(p, r))
  BY CountedAcceptType DEF AcceptRspWaits
<1>2. st \in InstanceState /\ InstShape(st)
  BY <1>1, FinishIfDoneType DEF ErrCode
<1>3. inst' = [inst EXCEPT ![p] = st] /\ UNCHANGED <<reqs, rsps, slaveFast>>
  BY DEF AcceptRspWaits
<1> HIDE DEF st
<1> QED BY <1>2, <1>3, QuietStep

-----------------------------------------------------------------------------
\* Timeout ends the call.
LEMMA TimeoutType ==
    ASSUME TypeOK, Shape, NEW p \in Proposer, Timeout(p), UNCHANGED acceptorVars
    PROVE  TypeOK' /\ Shape'
<1> DEFINE s1 == Finish(inst[p], "TIMEOUT")
           st == [s1 EXCEPT !.lastv = None]
<1>1. inst[p] \in InstanceState /\ ~inst[p].notified
  BY DEF TypeOK, ProposerTypeOK, Shape, InstShape
<1>2. s1 \in InstanceState /\ InstShape(s1)
  BY <1>1, FinishType DEF ErrCode
<1>3. inst' = [inst EXCEPT ![p] = st] /\ UNCHANGED <<reqs, rsps, slaveFast>>
  BY DEF Timeout
<1> HIDE DEF s1
<1>4. st \in InstanceState /\ InstShape(st)
  BY <1>2 DEF InstanceState, InstShape
<1> HIDE DEF st
<1> QED BY <1>3, <1>4, QuietStep

\* A new instance is well formed.
LEMMA NewInstanceType ==
    ASSUME NEW p \in Proposer, NEW k \in 0 .. MaxInc, NEW calls \in Nat,
           NEW ret \in Seq(ErrCode)
    PROVE  /\ NewInstance(p, k, calls, ret) \in InstanceState
           /\ InstShape(NewInstance(p, k, calls, ret))
<1>1. ClockStart[p][k] \in Nat /\ k \in Nat /\ p + 1 \in Nat \ {0} /\ -1 \in Int
  BY ProposerAssumption, SynodAssumption DEF Proposer
<1> QED BY <1>1 DEF NewInstance, InstanceState, InstShape

\* Restart puts a new instance in place.
LEMMA RestartType ==
    ASSUME TypeOK, Shape, NEW p \in Proposer, Restart(p), UNCHANGED acceptorVars
    PROVE  TypeOK' /\ Shape'
<1> DEFINE ret == IF inst[p].req # None
                  THEN Answer(inst[p], "CRASHED").ret ELSE inst[p].ret
           st == NewInstance(p, inst[p].inc + 1, inst[p].calls, ret)
<1>1. inst[p] \in InstanceState
  BY DEF TypeOK, ProposerTypeOK
<1>2. /\ inst[p].inc \in Nat /\ inst[p].calls \in Nat
      /\ inst[p].ret \in Seq(ErrCode)
  BY <1>1 DEF InstanceState
<1>3. inst[p].inc + 1 \in 0 .. MaxInc
  <2>1. inst[p].inc < MaxInc
    BY DEF Restart
  <2> QED BY SMTT(30), <1>2, <2>1, ProposerAssumption
<1>4. ret \in Seq(ErrCode)
  <2>1. Answer(inst[p], "CRASHED").ret \in Seq(ErrCode)
    <3>1. Append(inst[p].ret, "CRASHED") \in Seq(ErrCode)
      BY <1>2 DEF ErrCode
    <3> QED BY <1>1, <1>2, <3>1 DEF Answer, InstanceState
  <2> QED BY <1>2, <2>1
<1>5. inst' = [inst EXCEPT ![p] = st] /\ UNCHANGED <<reqs, rsps, slaveFast>>
  BY DEF Restart
<1> HIDE DEF ret
<1>6. st \in InstanceState /\ InstShape(st)
  BY <1>2, <1>3, <1>4, NewInstanceType
<1> HIDE DEF st
<1> QED BY <1>5, <1>6, QuietStep

\* OnEntryChosen is handed a well-formed proposal.
LEMMA ChosenNotifyType ==
    ASSUME TypeOK, Shape, ChosenNotify
    PROVE  TypeOK' /\ Shape'
<1>1. PICK p \in Proposer, a \in Acceptor, e \in Entry, fromPlog \in BOOLEAN :
         /\ ent[a][e].acc # None
         /\ OnEntryChosen(p, ent[a][e].acc, fromPlog)
         /\ UNCHANGED acceptorVars
  BY DEF ChosenNotify
<1>2. ent[a][e].acc \in Proposal
  BY <1>1 DEF TypeOK, AcceptorTypeOK, EntryRec
<1>3. ent[a][e].acc.entry \in Nat /\ ent[a][e].acc.proposer \in Proposer
  BY <1>2 DEF Proposal
<1> DEFINE st == UpdateChosenInfo(inst[p], p, ent[a][e].acc.entry, ent[a][e].acc.proposer)
<1>4. inst[p] \in InstanceState /\ InstShape(inst[p])
  BY DEF TypeOK, ProposerTypeOK, Shape
<1>5. st \in InstanceState /\ InstShape(st)
  BY <1>3, <1>4, UpdateChosenInfoType
<1>6. inst' = [inst EXCEPT ![p] = st] /\ UNCHANGED <<reqs, rsps, slaveFast>>
  BY <1>1 DEF OnEntryChosen
<1> HIDE DEF st
<1> QED BY <1>1, <1>5, <1>6, QuietStep

-----------------------------------------------------------------------------
\* The initial state is well formed.
LEMMA InitType == Init => TypeOK /\ Shape
<1> SUFFICES ASSUME Init PROVE TypeOK /\ Shape
  OBVIOUS
<1>1. ASSUME NEW p \in Proposer
      PROVE  inst[p] \in InstanceState /\ InstShape(inst[p])
  <2>1. inst[p] = NewInstance(p, 0, 0, <<>>)
    BY DEF Init, ProposerInit
  <2>2. 0 \in 0 .. MaxInc /\ 0 \in Nat /\ <<>> \in Seq(ErrCode)
    BY ProposerAssumption
  <2> QED BY <2>1, <2>2, NewInstanceType
<1>2. inst \in [Proposer -> InstanceState]
  <2>1. inst = [p \in Proposer |-> inst[p]]
    BY DEF Init, ProposerInit
  <2> QED BY <1>1, <2>1
<1>3. EmptyEntry \in EntryRec
  BY DEF EntryRec, EmptyEntry
<1>4. AcceptorTypeOK
  BY <1>3 DEF Init, AcceptorInit, AcceptorTypeOK
<1>5. NetTypeOK /\ ProposerTypeOK
  BY <1>2 DEF Init, ProposerInit, NetTypeOK, ProposerTypeOK
<1>6. \A a \in Acceptor, e \in Entry : ent[a][e].prom = None /\ disk[a][e].prom = None
  BY DEF Init, AcceptorInit, EmptyEntry
<1> QED BY <1>1, <1>4, <1>5, <1>6 DEF Init, TypeOK, Shape

\* Every step keeps types and shapes; a crash, because there is a last chosen row.
LEMMA NextType ==
    ASSUME TypeOK, Shape, DiskInv, [Next]_vars
    PROVE  TypeOK' /\ Shape'
<1>1. CASE AcceptorNext
  <2>1. PICK a \in Up : \E m \in {n \in reqs : Delivered(a, n)} :
       \/ PrepareLags(a, m) /\ UNCHANGED proposerVars
       \/ PrepareSeesVote(a, m) /\ UNCHANGED proposerVars
       \/ PrepareSeesPromise(a, m) /\ UNCHANGED proposerVars
       \/ PrepareNew(a, m) /\ UNCHANGED proposerVars
       \/ AcceptLags(a, m) /\ UNCHANGED proposerVars
       \/ AcceptVotes(a, m) /\ UNCHANGED proposerVars
       \/ AcceptDuplicate(a, m) /\ UNCHANGED proposerVars
       \/ AcceptRefused(a, m) /\ UNCHANGED proposerVars
       \/ HandleChosenReq(a, m) /\ UNCHANGED proposerVars
    BY <1>1 DEF AcceptorNext
  <2>2. a \in Acceptor
    BY NetworkAssumption
  <2> QED
    BY <2>1, <2>2, PrepareLagsType, PrepareSeesVoteType, PrepareSeesPromiseType,
       PrepareNewType, AcceptLagsType, AcceptVotesType, AcceptDuplicateType,
       AcceptRefusedType, HandleChosenReqType
<1>2. CASE ProposerNext
  <2>1. PICK p \in Proposer :
       \/ \E kind \in CallKinds :
            ProposePrepare(p, kind) /\ UNCHANGED acceptorVars
       \/ ProposeAccept(p) /\ UNCHANGED acceptorVars
       \/ \E r \in rsps :
            \/ HandlePrepareRsp(p, r) /\ UNCHANGED acceptorVars
            \/ HandleAcceptRsp(p, r) /\ UNCHANGED acceptorVars
       \/ Timeout(p) /\ UNCHANGED acceptorVars
       \/ Restart(p) /\ UNCHANGED acceptorVars
    BY <1>2 DEF ProposerNext
  <2>2. ASSUME NEW r \in rsps, HandlePrepareRsp(p, r), UNCHANGED acceptorVars
        PROVE  TypeOK' /\ Shape'
    BY <2>2, PrepareRspFailedType, PrepareRspRejectedType, PrepareRspAbortsType,
       PrepareRspAcceptsType, PrepareRspProbedType, PrepareRspWaitsType
       DEF HandlePrepareRsp
  <2>3. ASSUME NEW r \in rsps, HandleAcceptRsp(p, r), UNCHANGED acceptorVars
        PROVE  TypeOK' /\ Shape'
    BY <2>3, AcceptRspFailedType, AcceptRspRejectedType, AcceptRspOtherType,
       AcceptRspChosenType, AcceptRspWaitsType DEF HandleAcceptRsp
  <2> QED
    BY <2>1, <2>2, <2>3, ProposePrepareType, ProposeAcceptType, TimeoutType,
       RestartType
<1>3. CASE ChosenNotify
  BY <1>3, ChosenNotifyType
<1>4. CASE UNCHANGED vars
  BY <1>4 DEF vars, acceptorVars, storeVars, TypeOK, NetTypeOK, AcceptorTypeOK,
     ProposerTypeOK, Shape, ReqShape, RspShape, InstShape, Promised, Accepted
<1>5. CASE AcceptorCrash
  <2>1. PICK a \in Up : CrashAcceptor(a) /\ UNCHANGED proposerVars
    BY <1>5 DEF AcceptorCrash
  <2>2. a \in Acceptor
    BY NetworkAssumption
  <2> QED BY <2>1, <2>2, CrashAcceptorType
<1> QED BY <1>1, <1>2, <1>3, <1>4, <1>5 DEF Next

-----------------------------------------------------------------------------
(* Ballots.                                                                *)

\* The inductive invariant, with the types its arithmetic needs.
IInv == TypeOK /\ BallotInv

-----------------------------------------------------------------------------
\* Any two majorities of acceptors share one.
LEMMA MajoritiesMeet ==
    ASSUME NEW Q \in SUBSET Acceptor, NEW R \in SUBSET Acceptor,
           IsMajority(Q), IsMajority(R)
    PROVE  \E a \in Acceptor : a \in Q /\ a \in R
<1>1. /\ IsFiniteSet(Acceptor) /\ IsFiniteSet(Q) /\ IsFiniteSet(R)
  BY SynodAssumption, FS_Subset
<1>2. Cardinality(Acceptor) \in Nat /\ Cardinality(Q) \in Nat /\ Cardinality(R) \in Nat
  BY <1>1, FS_CardinalityType
<1>3. Cardinality(Q) + Cardinality(R) > Cardinality(Acceptor)
  BY <1>2 DEF IsMajority
<1>4. Q \cap R # {}
  BY <1>1, <1>3, FS_MajoritiesIntersect
<1> QED BY <1>4

\* The types the ballots live in, in memory and on disk ...
LEMMA BallotTypes ==
    ASSUME TypeOK, NEW a \in Acceptor, NEW e \in Entry
    PROVE  /\ ent[a][e] \in EntryRec /\ disk[a][e] \in EntryRec
           /\ \A v \in votes[a] : v.pid \in Nat /\ v.entry \in Nat
<1>1. /\ ent[a][e] \in EntryRec /\ disk[a][e] \in EntryRec
      /\ votes[a] \in SUBSET VoteRec
  BY DEF TypeOK, AcceptorTypeOK
<1> QED BY <1>1 DEF VoteRec

\* ... and of one entry.
LEMMA EntryTypes ==
    ASSUME NEW x \in EntryRec
    PROVE  /\ x.acc # None => x.acc \in Proposal /\ x.acc.pid \in Nat
           /\ x.prom # None => x.prom \in Proposal /\ x.prom.pid \in Nat
BY DEF EntryRec, Proposal

-----------------------------------------------------------------------------
\* Entry y after entry x: what was barred stays barred, and a vote that was
\* cast from it, or a later one, is still there ...
Follows(x, y) ==
    /\ \A b \in Nat : /\ Holds(x, b) => Holds(y, b)
                      /\ VotedFrom(x, b) => VotedFrom(y, b)
    /\ y.acc = None => x.acc = None

\* ... nothing is marked chosen, and what is marked stays as it is.
Unmarked(x, y) == IsChosen(x) \/ IsChosen(y) => y.acc = x.acc

\* An entry that keeps its vote, or has none and keeps its promise or takes a
\* larger one.
Quiet(x, y) ==
    IF x.acc = None
    THEN /\ y.acc = None
         /\ x.prom # None => y.prom # None /\ y.prom.pid >= x.prom.pid
    ELSE y.acc = x.acc

\* Such an entry follows.
LEMMA QuietFollows ==
    ASSUME NEW x \in EntryRec, NEW y \in EntryRec, Quiet(x, y)
    PROVE  Follows(x, y) /\ Unmarked(x, y)
<1>1. /\ x.prom # None => x.prom.pid \in Nat
      /\ y.prom # None => y.prom.pid \in Nat
  BY EntryTypes
<1>2. CASE x.acc = None
  BY <1>1, <1>2 DEF Quiet, Follows, Unmarked, Holds, VotedFrom, HasVote, IsChosen
<1>3. CASE x.acc # None
  BY <1>3 DEF Quiet, Follows, Unmarked, Holds, VotedFrom, HasVote, IsChosen
<1> QED BY <1>2, <1>3

\* An entry that does not change follows itself.
LEMMA SameFollows ==
    ASSUME NEW x \in EntryRec
    PROVE  Follows(x, x) /\ Unmarked(x, x)
<1>1. x.prom # None => x.prom.pid \in Nat
  BY EntryTypes
<1>2. Quiet(x, x)
  BY <1>1 DEF Quiet
<1> QED BY <1>2, QuietFollows

\* A vote that MayVote admits follows what was there.
LEMMA VoteFollows ==
    ASSUME NEW x \in EntryRec, NEW y \in EntryRec, NEW pp \in Proposal,
           y.acc = pp, pp.status = "ACCEPTED", MayVote(x, pp)
    PROVE  /\ Follows(x, y) /\ Unmarked(x, y)
           /\ \A b \in Nat : Holds(x, b) => b <= pp.pid
           /\ \A b \in Nat : VotedFrom(x, b) => b < pp.pid
           /\ VotedFrom(y, pp.pid)
<1>1. /\ pp.pid \in Nat /\ pp # None
      /\ x.acc # None => x.acc.pid \in Nat
      /\ x.prom # None => x.prom.pid \in Nat
  BY EntryTypes, NoneAssumption DEF Proposal
<1>2. CASE x.acc = None
  BY <1>1, <1>2 DEF MayVote, Follows, Unmarked, Holds, VotedFrom, HasVote, IsChosen
<1>3. CASE x.acc # None
  BY <1>1, <1>3 DEF MayVote, Follows, Unmarked, Holds, VotedFrom, HasVote, IsChosen
<1> QED BY <1>2, <1>3

\* What a save keeps of an entry, in the end: it bars what the entry bars, and
\* has its vote.
LEMMA ReloadedHolds ==
    ASSUME NEW x \in EntryRec
    PROVE  /\ \A b \in Nat : /\ Holds(x, b) => Holds(Reloaded(x), b)
                             /\ VotedFrom(x, b) => VotedFrom(Reloaded(x), b)
           /\ Reloaded(x).acc # None
           /\ x.acc = None => ~HasVote(Reloaded(x))
           /\ IsChosen(x) \/ IsChosen(Reloaded(x)) => Reloaded(x).acc = x.acc
<1>1. /\ Reloaded(x).acc \in Proposal
      /\ x.acc # None => Reloaded(x).acc = x.acc
      /\ x.acc = None => Reloaded(x).acc = ZeroProposal
  BY ReloadedType
<1>2. Reloaded(x).acc # None
  BY <1>1, NoneAssumption
<1>3. ZeroProposal.status = "INIT"
  BY DEF ZeroProposal
<1>4. CASE x.acc = None
  BY <1>1, <1>2, <1>3, <1>4 DEF Holds, VotedFrom, HasVote, IsChosen
<1>5. CASE x.acc # None
  BY <1>1, <1>2, <1>5 DEF Holds, VotedFrom, HasVote, IsChosen
<1> QED BY <1>2, <1>4, <1>5

-----------------------------------------------------------------------------
\* A handler leaves the row of an entry alone, or saves what it has made of
\* the entry.
RowStep(a, e) ==
    disk'[a][e] = disk[a][e] \/ disk'[a][e] = Reloaded(ent'[a][e])

\* One entry is changed and perhaps saved.
LEMMA OneEntryStep ==
    ASSUME TypeOK, NEW a \in Acceptor, NEW e \in Entry, NEW x \in EntryRec,
           ent' = [ent EXCEPT ![a][e] = x], StoreStep(a, e, x)
    PROVE  /\ ent'[a][e] = x
           /\ \A b \in Acceptor, f \in Entry :
                b # a \/ f # e => ent'[b][f] = ent[b][f]
           /\ \A b \in Acceptor, f \in Entry : RowStep(b, f)
<1>1. /\ ent'[a][e] = x
      /\ \A b \in Acceptor, f \in Entry :
           b # a \/ f # e => ent'[b][f] = ent[b][f]
  BY EntUpdate DEF TypeOK, AcceptorTypeOK
<1> QED BY <1>1, StoreStepRows DEF RowStep

\* A promise that was shown stays so.
LEMMA ShownStays ==
    ASSUME NEW a \in Acceptor, NEW e \in Entry, rsps \subseteq rsps', Shown(a, e)
    PROVE  Shown(a, e)'
BY DEF Shown

\* Respond adds one response, and says so of a promise.
LEMMA RespondShows ==
    ASSUME NEW a \in Acceptor, NEW m, NEW type, NEW err, NEW pp \in Proposal, NEW status,
           Respond(a, m, type, err, pp, status)
    PROVE  /\ rsps \subseteq rsps'
           /\ type = "PREPARE_RSP" /\ err = "OK" /\ status = "PROMISED" /\ pp.pid > 0 =>
                Shown(a, m.prop.entry)'
<1> DEFINE q == [pp EXCEPT !.status = status, !.last = lastChosen[a]]
           z == [type |-> type, req |-> m, from |-> a, err |-> err, prop |-> q]
<1>1. rsps' = rsps \cup {z}
  BY DEF Respond
<1>2. q.pid = pp.pid /\ q.status = status
  BY DEF Proposal
<1>3. z.type = type /\ z.req = m /\ z.from = a /\ z.err = err /\ z.prop = q
  OBVIOUS
<1> HIDE DEF q, z
<1> QED BY <1>1, <1>2, <1>3 DEF Shown

\* Where entries follow, nothing is opened that was closed: neither now nor by
\* a later crash.
LEMMA FollowsClosed ==
    ASSUME TypeOK', NEW a \in Acceptor, NEW e \in Entry, NEW b \in Nat,
           Follows(ent[a][e], ent'[a][e]), RowStep(a, e),
           forgot' = forgot, rsps \subseteq rsps', Closed(a, e, b),
           \A v \in votes'[a] : v \in votes[a] \/ (v.entry = e => v.pid >= b)
    PROVE  Closed(a, e, b)'
<1>1. CASE e \in forgot[a]
  BY <1>1 DEF Closed
<1>2. CASE e \notin forgot[a]
  <2>1. /\ \A v \in votes[a] : v.entry = e => v.pid >= b
        /\ Holds(ent[a][e], b)
        /\ Holds(disk[a][e], b) \/ (disk[a][e] = EmptyEntry /\ Shown(a, e))
    BY <1>2 DEF Closed
  <2>2. Holds(ent'[a][e], b)
    BY <2>1 DEF Follows
  <2>3. Holds(disk'[a][e], b) \/ (disk'[a][e] = EmptyEntry /\ Shown(a, e)')
    <3>1. CASE disk'[a][e] = disk[a][e]
      BY <2>1, <3>1, ShownStays
    <3>2. CASE disk'[a][e] = Reloaded(ent'[a][e])
      <4>1. ent'[a][e] \in EntryRec
        BY DEF TypeOK, AcceptorTypeOK
      <4> QED BY <2>2, <3>2, <4>1, ReloadedHolds
    <3> QED BY <3>1, <3>2 DEF RowStep
  <2>4. \A v \in votes'[a] : v.entry = e => v.pid >= b
    BY <2>1
  <2>5. Holds(ent[a][e], b)' <=> Holds(ent'[a][e], b)
    BY DEF Holds
  <2>6. Holds(disk[a][e], b)' <=> Holds(disk'[a][e], b)
    BY DEF Holds
  <2> QED BY <2>2, <2>3, <2>4, <2>5, <2>6 DEF Closed, EmptyEntry
<1> QED BY <1>1, <1>2

\* ... a vote that was reported stays in memory and on disk ...
LEMMA FollowsVoted ==
    ASSUME TypeOK', NEW a \in Acceptor, NEW e \in Entry, NEW b \in Nat,
           Follows(ent[a][e], ent'[a][e]), RowStep(a, e),
           VotedFrom(ent[a][e], b), VotedFrom(disk[a][e], b)
    PROVE  VotedFrom(ent'[a][e], b) /\ VotedFrom(disk'[a][e], b)
<1>1. VotedFrom(ent'[a][e], b)
  BY DEF Follows
<1>2. CASE disk'[a][e] = disk[a][e]
  BY <1>1, <1>2
<1>3. CASE disk'[a][e] = Reloaded(ent'[a][e])
  <2>1. ent'[a][e] \in EntryRec
    BY DEF TypeOK, AcceptorTypeOK
  <2> QED BY <1>1, <1>3, <2>1, ReloadedHolds
<1> QED BY <1>2, <1>3 DEF RowStep

\* ... and row and entry still tell the same.
LEMMA FollowsRow ==
    ASSUME TypeOK', NEW a \in Acceptor, NEW e \in Entry, RowInv(a, e),
           ent'[a][e].acc = None => ent[a][e].acc = None, RowStep(a, e),
           \/ Unmarked(ent[a][e], ent'[a][e])
           \/ disk'[a][e] = Reloaded(ent'[a][e])
    PROVE  RowInv(a, e)'
<1>1. CASE disk'[a][e] = Reloaded(ent'[a][e])
  <2>1. ent'[a][e] \in EntryRec
    BY DEF TypeOK, AcceptorTypeOK
  <2> QED BY <1>1, <2>1, ReloadedHolds DEF RowInv, IsChosen, HasVote
<1>2. CASE disk'[a][e] = disk[a][e] /\ Unmarked(ent[a][e], ent'[a][e])
  BY <1>2 DEF RowInv, IsChosen, HasVote, Unmarked, EmptyEntry
<1> QED BY <1>1, <1>2 DEF RowStep

\* Where nothing is marked the chosen rows are the same ones.
LEMMA FollowsDisk ==
    ASSUME TypeOK', DiskInv, UNCHANGED lastChosen,
           \A a \in Acceptor, e \in Entry :
              /\ Follows(ent[a][e], ent'[a][e]) /\ RowStep(a, e)
              /\ Unmarked(ent[a][e], ent'[a][e])
    PROVE  DiskInv'
<1>1. \A a \in Acceptor, e \in Entry : RowInv(a, e) /\ RowInv(a, e)'
  BY FollowsRow DEF DiskInv, Follows
<1>2. ASSUME NEW a \in Acceptor PROVE ChosenRows(a)' = ChosenRows(a)
  <2>1. ASSUME NEW e \in Entry PROVE IsChosen(disk'[a][e]) <=> IsChosen(disk[a][e])
    <3>1. Unmarked(ent[a][e], ent'[a][e]) /\ RowInv(a, e) /\ RowInv(a, e)'
      BY <1>1
    <3> QED BY <3>1 DEF Unmarked, RowInv, IsChosen
  <2> QED BY <2>1 DEF ChosenRows, IsChosen
<1> QED BY <1>1, <1>2 DEF DiskInv

-----------------------------------------------------------------------------
\* What a step of an acceptor has to show.
LEMMA AcceptorFrame ==
    ASSUME IInv, TypeOK', Shape', UNCHANGED proposerVars, UNCHANGED reqs,
           \A a \in Acceptor, e \in Entry, b \in Nat : Closed(a, e, b) => Closed(a, e, b)',
           PromiseInv', VoteInv', DiskInv'
    PROVE  IInv'
<1>1. CallInv'
  BY DEF IInv, BallotInv, CallInv, CallMatches, proposerVars
<1>2. ValidInv'
  <2> SUFFICES ASSUME NEW p \in Proposer, inst[p].phase = "PREPARING",
                      inst[p].req # None, inst[p].req.pid > 0,
                      NEW a \in inst[p].valid
               PROVE  Closed(a, inst[p].req.entry, inst[p].req.pid)'
    BY DEF ValidInv, RoundClosed, proposerVars
  <2>1. inst[p] \in InstanceState /\ inst[p].req.entry \in Entry
    BY DEF IInv, BallotInv, Shape, InstShape, TypeOK, ProposerTypeOK
  <2>2. a \in Acceptor /\ inst[p].req \in Proposal
    BY <2>1 DEF InstanceState
  <2>3. inst[p].req.pid \in Nat
    BY <2>2 DEF Proposal
  <2>4. Closed(a, inst[p].req.entry, inst[p].req.pid)
    BY DEF IInv, BallotInv, ValidInv, RoundClosed
  <2>5. PICK e \in Entry, b \in Nat : e = inst[p].req.entry /\ b = inst[p].req.pid
    BY <2>1, <2>3
  <2>6. Closed(a, e, b)'
    BY <2>2, <2>4, <2>5
  <2>7. e = inst'[p].req.entry /\ b = inst'[p].req.pid
    BY <2>5 DEF proposerVars
  <2> QED BY <2>6, <2>7 DEF Closed
<1>3. AskInv'
  <2> SUFFICES ASSUME NEW m \in reqs, m.type = "ACCEPT_REQ"
               PROVE  m.prop.pid >= 1 /\ SafeAt(m.prop.entry, m.prop.pid)'
    BY DEF AskInv
  <2>1. m.prop.entry \in Entry /\ m.prop.pid \in Nat
    BY DEF IInv, BallotInv, Shape, ReqShape, TypeOK, NetTypeOK, Request, Proposal
  <2>2. m.prop.pid >= 1 /\ SafeAt(m.prop.entry, m.prop.pid)
    BY DEF IInv, BallotInv, AskInv
  <2> QED BY <2>1, <2>2 DEF SafeAt, proposerVars
<1> QED BY <1>1, <1>2, <1>3 DEF IInv, BallotInv

\* A step of an acceptor that casts no vote.
LEMMA QuietFrame ==
    ASSUME IInv, TypeOK', Shape', UNCHANGED proposerVars,
           UNCHANGED <<reqs, votes, forgot>>, rsps \subseteq rsps',
           \A a \in Acceptor, e \in Entry :
              Follows(ent[a][e], ent'[a][e]) /\ RowStep(a, e),
           PromiseInv', DiskInv'
    PROVE  IInv'
<1>1. VoteInv'
  <2> SUFFICES ASSUME NEW a \in Acceptor, NEW v \in votes[a]
               PROVE  /\ v.entry \in Entry
                      /\ VotedFrom(ent'[a][v.entry], v.pid)
                      /\ VotedFrom(disk'[a][v.entry], v.pid)
                      /\ \A w \in votes[a] : v.entry = w.entry /\ v.pid = w.pid => v = w
                      /\ \E m \in reqs : /\ m.type = "ACCEPT_REQ"
                                         /\ m.prop.entry = v.entry /\ m.prop.pid = v.pid
    BY DEF VoteInv, VotedFrom, HasVote
  <2>1. /\ v.entry \in Entry
        /\ VotedFrom(ent[a][v.entry], v.pid) /\ VotedFrom(disk[a][v.entry], v.pid)
        /\ \A w \in votes[a] : v.entry = w.entry /\ v.pid = w.pid => v = w
        /\ \E m \in reqs : /\ m.type = "ACCEPT_REQ"
                           /\ m.prop.entry = v.entry /\ m.prop.pid = v.pid
    BY DEF IInv, BallotInv, VoteInv
  <2>2. v.pid \in Nat
    BY <2>1, BallotTypes DEF IInv
  <2> QED BY <2>1, <2>2, FollowsVoted
<1>2. \A a \in Acceptor, e \in Entry, b \in Nat : Closed(a, e, b) => Closed(a, e, b)'
  BY FollowsClosed
<1> QED BY <1>1, <1>2, AcceptorFrame

\* The responses after Respond: PromiseInv asks something of the new one only
\* if it is a promise.
LEMMA PromiseFrame ==
    ASSUME IInv, TypeOK', NEW a \in Acceptor, NEW m \in reqs,
           \A c \in Acceptor, e \in Entry, b \in Nat : Closed(c, e, b) => Closed(c, e, b)',
           NEW type \in {"PREPARE_RSP", "ACCEPT_RSP"}, NEW err, NEW pp \in Proposal,
           NEW status,
           Respond(a, m, type, err, pp, status),
           type = "PREPARE_RSP" /\ err = "OK" /\ status = "PROMISED" =>
              /\ pp.pid >= m.prop.pid
              /\ pp.pid > 0 => Closed(a, m.prop.entry, pp.pid)'
    PROVE  PromiseInv'
<1>1. ASSUME NEW r \in rsps, r.type = "PREPARE_RSP", Promised(r)
      PROVE  /\ r.prop.pid >= r.req.prop.pid
             /\ r.prop.pid > 0 => Closed(r.from, r.req.prop.entry, r.prop.pid)'
  <2>1. r \in Response /\ r.req \in reqs
    BY DEF IInv, TypeOK, NetTypeOK, BallotInv, Shape, RspShape
  <2>2. r.from \in Acceptor /\ r.prop \in Proposal /\ r.req.prop.entry \in Entry
    BY <2>1 DEF Response, IInv, BallotInv, Shape, ReqShape
  <2>3. r.prop.pid \in Nat
    BY <2>2 DEF Proposal
  <2>4. /\ r.prop.pid >= r.req.prop.pid
        /\ r.prop.pid > 0 => Closed(r.from, r.req.prop.entry, r.prop.pid)
    BY <1>1 DEF IInv, BallotInv, PromiseInv
  <2> QED BY <2>2, <2>3, <2>4
<1> DEFINE q == [pp EXCEPT !.status = status, !.last = lastChosen[a]]
           z == [type |-> type, req |-> m, from |-> a, err |-> err, prop |-> q]
<1>2. rsps' = rsps \cup {z}
  BY DEF Respond
<1>3. q.pid = pp.pid /\ q.status = status
  BY DEF Proposal
<1>4. z.type = type /\ z.req = m /\ z.from = a /\ z.err = err /\ z.prop = q
  OBVIOUS
<1> HIDE DEF q, z
<1>5. PICK n : /\ rsps' = rsps \cup {n}
               /\ n.type = type /\ n.req = m /\ n.from = a /\ n.err = err
               /\ n.prop.pid = pp.pid /\ n.prop.status = status
  BY <1>2, <1>3, <1>4
<1>6. n.type = "PREPARE_RSP" /\ Promised(n) =>
        /\ n.prop.pid >= n.req.prop.pid
        /\ n.prop.pid > 0 => Closed(n.from, n.req.prop.entry, n.prop.pid)'
  BY <1>5 DEF Promised
<1>7. ASSUME NEW r \in rsps', r.type = "PREPARE_RSP", Promised(r)
      PROVE  /\ r.prop.pid >= r.req.prop.pid
             /\ r.prop.pid > 0 => Closed(r.from, r.req.prop.entry, r.prop.pid)'
  BY <1>1, <1>5, <1>6, <1>7
<1> QED BY <1>7 DEF PromiseInv, Promised

-----------------------------------------------------------------------------
\* An acceptor that holds no vote for an entry has cast none, and its disk
\* has none either.
LEMMA NoVotes ==
    ASSUME VoteInv, DiskInv, NEW a \in Acceptor, NEW e \in Entry, ent[a][e].acc = None
    PROVE  /\ \A v \in votes[a] : v.entry # e
           /\ disk[a][e] = EmptyEntry \/ (\A b \in Nat : Holds(disk[a][e], b))
<1>1. \A v \in votes[a] : v.entry # e
  BY DEF VoteInv, VotedFrom, HasVote
<1>2. /\ disk[a][e].acc = None => disk[a][e] = EmptyEntry
      /\ ~HasVote(disk[a][e])
  BY DEF DiskInv, RowInv
<1> QED BY <1>1, <1>2 DEF HasVote, Holds

\* Nothing of the plog changes, and the response is no promise.
LEMMA NoPromise ==
    ASSUME IInv, TypeOK', Shape', UNCHANGED proposerVars,
           UNCHANGED <<ent, votes, reqs, lastChosen, disk, forgot>>,
           NEW a \in Acceptor, NEW m \in reqs,
           NEW type \in {"PREPARE_RSP", "ACCEPT_RSP"}, NEW err, NEW pp \in Proposal,
           NEW status,
           Respond(a, m, type, err, pp, status),
           type = "ACCEPT_RSP" \/ err # "OK" \/ status # "PROMISED"
    PROVE  IInv'
<1>1. \A b \in Acceptor, e \in Entry :
        /\ Follows(ent[b][e], ent'[b][e]) /\ RowStep(b, e)
        /\ Unmarked(ent[b][e], ent'[b][e])
  BY BallotTypes, SameFollows DEF RowStep, IInv
<1>2. rsps \subseteq rsps'
  BY RespondShows
<1>3. \A c \in Acceptor, e \in Entry, b \in Nat : Closed(c, e, b) => Closed(c, e, b)'
  BY <1>1, <1>2, FollowsClosed
<1>4. PromiseInv'
  BY <1>3, PromiseFrame
<1>5. DiskInv'
  BY <1>1, FollowsDisk DEF IInv, BallotInv
<1> QED BY <1>1, <1>2, <1>4, <1>5, QuietFrame

\* PrepareLags answers with an error code.
LEMMA PrepareLagsInv ==
    ASSUME IInv, NEW a \in Acceptor, NEW m \in reqs,
           PrepareLags(a, m), UNCHANGED proposerVars
    PROVE  IInv'
<1>1. TypeOK' /\ Shape' /\ m.prop \in Proposal
  BY PrepareLagsType, ReqFacts DEF IInv, BallotInv
<1> QED BY <1>1, NoPromise DEF PrepareLags, acceptorVars, storeVars

\* PrepareSeesVote answers under a status that is no promise.
LEMMA PrepareSeesVoteInv ==
    ASSUME IInv, NEW a \in Acceptor, NEW m \in reqs,
           PrepareSeesVote(a, m), UNCHANGED proposerVars
    PROVE  IInv'
<1>1. TypeOK' /\ Shape' /\ ent[a][m.prop.entry].acc \in Proposal
  BY PrepareSeesVoteType, ReqFacts DEF IInv, BallotInv, PrepareSeesVote
<1> QED BY <1>1, NoPromise DEF PrepareSeesVote, storeVars

\* PrepareSeesPromise repeats a promise that holds: without a vote the recorded
\* promise bounds whatever comes.  If it was never written, it has been shown
\* now, and a crash will note that it is forgotten.
LEMMA PrepareSeesPromiseInv ==
    ASSUME IInv, NEW a \in Acceptor, NEW m \in reqs,
           PrepareSeesPromise(a, m), UNCHANGED proposerVars
    PROVE  IInv'
<1>1. TypeOK' /\ Shape'
  BY PrepareSeesPromiseType DEF IInv, BallotInv
<1>2. PICK e \in Entry, pp \in Proposal :
        /\ e = m.prop.entry /\ pp = ent[a][e].prom /\ pp # None
        /\ ent[a][e].acc = None
        /\ pp.pid >= m.prop.pid
        /\ Respond(a, m, "PREPARE_RSP", "OK", pp, "PROMISED")
  BY ReqFacts DEF IInv, BallotInv, PrepareSeesPromise, HeldByPromise
<1>3. UNCHANGED <<ent, votes, reqs, lastChosen, disk, forgot>>
  BY DEF PrepareSeesPromise, storeVars
<1>4. \A b \in Acceptor, f \in Entry :
        /\ Follows(ent[b][f], ent'[b][f]) /\ RowStep(b, f)
        /\ Unmarked(ent[b][f], ent'[b][f])
  BY <1>3, BallotTypes, SameFollows DEF RowStep, IInv
<1>8. /\ rsps \subseteq rsps'
      /\ pp.pid > 0 => Shown(a, e)'
  BY <1>2, RespondShows
<1>5. \A c \in Acceptor, f \in Entry, b \in Nat : Closed(c, f, b) => Closed(c, f, b)'
  BY <1>1, <1>3, <1>4, <1>8, FollowsClosed
<1>6. pp.pid > 0 => Closed(a, e, pp.pid)'
  <2> SUFFICES ASSUME pp.pid > 0 PROVE Closed(a, e, pp.pid)'
    OBVIOUS
  <2>1. pp.pid \in Nat
    BY DEF Proposal
  <2>2. /\ \A v \in votes[a] : v.entry # e
        /\ disk[a][e] = EmptyEntry \/ Holds(disk[a][e], pp.pid)
    BY <1>2, <2>1, NoVotes DEF IInv, BallotInv
  <2>3. \A v \in votes'[a] : v.entry = e => v.pid >= pp.pid
    BY <1>3, <2>2
  <2>4. Holds(ent'[a][e], pp.pid)
    BY <1>2, <1>3, <2>1 DEF Holds
  <2>5. Holds(disk'[a][e], pp.pid) \/ (disk'[a][e] = EmptyEntry /\ Shown(a, e)')
    BY <1>3, <1>8, <2>2
  <2> QED BY <2>3, <2>4, <2>5, SMTT(30) DEF Closed, Holds, EmptyEntry
<1>7. PromiseInv'
  BY <1>1, <1>2, <1>5, <1>6, PromiseFrame
<1>9. DiskInv'
  BY <1>1, <1>3, <1>4, FollowsDisk DEF IInv, BallotInv
<1> QED BY <1>1, <1>3, <1>4, <1>7, <1>8, <1>9, QuietFrame

\* PrepareNew raises the promise of an acceptor that holds no vote, and reports
\* it when it is on disk.  A probe (pid 0) promises nothing.
LEMMA PrepareNewInv ==
    ASSUME IInv, NEW a \in Acceptor, NEW m \in reqs,
           PrepareNew(a, m), UNCHANGED proposerVars
    PROVE  IInv'
<1>1. TypeOK' /\ Shape' /\ TypeOK /\ Shape
  BY PrepareNewType DEF IInv, BallotInv
<1>2. PICK e \in Entry, pp \in Proposal : e = m.prop.entry /\ pp = m.prop
  BY <1>1, ReqFacts
<1>3. /\ ent[a][e].acc = None /\ UNCHANGED <<votes, reqs, forgot, lastChosen>>
      /\ ent[a][e].prom # None => ~(ent[a][e].prom.pid >= pp.pid)
      /\ ent[a][e] \in EntryRec /\ pp.pid \in Nat
  BY <1>1, <1>2, ReqFacts DEF PrepareNew, HeldByPromise, Proposal
<1>4. CASE pp.pid = 0
  <2>1. /\ Respond(a, m, "PREPARE_RSP", "OK", pp, "PROMISED")
        /\ ent' = ent /\ disk' = disk
    BY <1>2, <1>4 DEF PrepareNew
  <2>2. \A b \in Acceptor, f \in Entry :
          /\ Follows(ent[b][f], ent'[b][f]) /\ RowStep(b, f)
          /\ Unmarked(ent[b][f], ent'[b][f])
    BY <1>1, <2>1, BallotTypes, SameFollows DEF RowStep
  <2>5. rsps \subseteq rsps'
    BY <2>1, RespondShows
  <2>3. \A c \in Acceptor, f \in Entry, b \in Nat : Closed(c, f, b) => Closed(c, f, b)'
    BY <1>1, <1>3, <2>2, <2>5, FollowsClosed
  <2>4. PromiseInv'
    BY <1>1, <1>2, <1>4, <2>1, <2>3, PromiseFrame
  <2>6. DiskInv'
    BY <1>1, <1>3, <2>2, FollowsDisk DEF IInv, BallotInv
  <2> QED BY <1>1, <1>3, <2>2, <2>4, <2>5, <2>6, QuietFrame
<1>5. CASE pp.pid # 0
  <2> DEFINE pq == [pp EXCEPT !.status = "PROMISED"]
             x == SetPromised(ent[a][e], pq)
  <2>1. pq \in Proposal /\ pq.pid = pp.pid
    BY DEF Proposal, Status
  <2>2. x \in EntryRec /\ x.acc = None /\ x.prom = pq
    BY <1>3, <2>1, EntryOps
  <2>3. /\ ent' = [ent EXCEPT ![a][e] = x]
        /\ StoreStep(a, e, x)
        /\ \/ /\ Respond(a, m, "PREPARE_RSP", "OK", pp, "PROMISED")
              /\ SaveEntry(a, e, x)
           \/ Respond(a, m, "PREPARE_RSP", "WRITE_PLOG_FAIL", pp, "PROMISED_FAILED")
    BY <1>2, <1>5 DEF PrepareNew, StoreStep
  <2> HIDE DEF pq, x
  <2>4. /\ ent'[a][e] = x
        /\ \A b \in Acceptor, f \in Entry :
             b # a \/ f # e => ent'[b][f] = ent[b][f]
        /\ \A b \in Acceptor, f \in Entry : RowStep(b, f)
    BY <1>1, <2>2, <2>3, OneEntryStep
  <2>5. pq # None
    BY <2>1, NoneAssumption
  <2>6. ASSUME NEW b \in Acceptor, NEW f \in Entry
        PROVE  Follows(ent[b][f], ent'[b][f]) /\ Unmarked(ent[b][f], ent'[b][f])
    <3>1. CASE b = a /\ f = e
      <4>1. ent[a][e].prom # None => ent[a][e].prom.pid \in Nat
        BY <1>3, EntryTypes
      <4>2. Quiet(ent[a][e], x)
        BY <1>3, <2>1, <2>2, <2>5, <4>1 DEF Quiet
      <4> QED BY <1>3, <2>2, <2>4, <3>1, <4>2, QuietFollows
    <3>2. CASE ~(b = a /\ f = e)
      BY <1>1, <2>4, <3>2, BallotTypes, SameFollows
    <3> QED BY <3>1, <3>2
  <2>10. rsps \subseteq rsps'
    BY <2>3, RespondShows
  <2>7. \A c \in Acceptor, f \in Entry, b \in Nat : Closed(c, f, b) => Closed(c, f, b)'
    BY <1>1, <1>3, <2>4, <2>6, <2>10, FollowsClosed
  <2>8. SaveEntry(a, e, x) => Closed(a, e, pp.pid)'
    <3> SUFFICES ASSUME SaveEntry(a, e, x) PROVE Closed(a, e, pp.pid)'
      OBVIOUS
    <3>1. \A v \in votes'[a] : v.entry # e
      BY <1>3, NoVotes DEF IInv, BallotInv
    <3>2. Holds(x, pp.pid)
      BY <1>3, <2>1, <2>2, <2>5 DEF Holds
    <3>3. disk'[a][e] = Reloaded(x)
      BY <1>1 DEF SaveEntry, TypeOK, AcceptorTypeOK
    <3>4. Holds(ent'[a][e], pp.pid) /\ Holds(disk'[a][e], pp.pid)
      BY <1>3, <2>2, <2>4, <3>2, <3>3, ReloadedHolds
    <3> QED BY <3>1, <3>4 DEF Closed, Holds
  <2>9. PromiseInv'
    BY <1>1, <1>2, <1>3, <2>3, <2>7, <2>8, PromiseFrame
  <2>11. DiskInv'
    BY <1>1, <1>3, <2>4, <2>6, FollowsDisk DEF IInv, BallotInv
  <2> QED BY <1>1, <1>3, <2>4, <2>6, <2>9, <2>10, <2>11, QuietFrame
<1> QED BY <1>4, <1>5

\* AcceptLags gives no promise.
LEMMA AcceptLagsInv ==
    ASSUME IInv, NEW a \in Acceptor, NEW m \in reqs,
           AcceptLags(a, m), UNCHANGED proposerVars
    PROVE  IInv'
<1>1. TypeOK' /\ Shape'
  BY AcceptLagsType DEF IInv, BallotInv
<1>2. ZeroProposal \in Proposal
  BY ZeroType
<1> QED BY <1>1, <1>2, NoPromise DEF AcceptLags, acceptorVars, storeVars

\* AcceptRefused gives no promise.
LEMMA AcceptRefusedInv ==
    ASSUME IInv, NEW a \in Acceptor, NEW m \in reqs,
           AcceptRefused(a, m), UNCHANGED proposerVars
    PROVE  IInv'
<1> DEFINE x == ent[a][m.prop.entry]
           q1 == [m.prop EXCEPT !.val = 0]
           q2 == [x.acc EXCEPT !.val = 0]
<1>1. TypeOK' /\ Shape' /\ TypeOK /\ Shape
  BY AcceptRefusedType DEF IInv, BallotInv
<1>2. m.prop \in Proposal /\ (x.acc # None => x.acc \in Proposal)
  BY <1>1, ReqFacts
<1>3. q1 \in Proposal /\ (x.acc # None => q2 \in Proposal)
  BY <1>2 DEF Proposal
<1>4. /\ \/ Respond(a, m, "ACCEPT_RSP", "OK", q1, "ACCEPTED_FAILED")
         \/ x.acc # None /\ Respond(a, m, "ACCEPT_RSP", "INVALID_PROPOSAL_REQ", q2, "ACCEPTED_FAILED")
         \/ Respond(a, m, "ACCEPT_RSP", "INVALID_PLOG_DATA", q1, "ACCEPTED_FAILED")
      /\ UNCHANGED <<ent, votes, reqs, lastChosen, disk, forgot>>
  BY DEF AcceptRefused, storeVars
<1> HIDE DEF x, q1, q2
<1> QED BY <1>1, <1>3, <1>4, NoPromise

\* AcceptDuplicate clears the promise; the vote held bounds what comes.
LEMMA AcceptDuplicateInv ==
    ASSUME IInv, NEW a \in Acceptor, NEW m \in reqs,
           AcceptDuplicate(a, m), UNCHANGED proposerVars
    PROVE  IInv'
<1>1. TypeOK' /\ Shape' /\ TypeOK /\ Shape
  BY AcceptDuplicateType DEF IInv, BallotInv
<1>2. PICK e \in Entry : e = m.prop.entry
  BY <1>1, ReqFacts
<1> DEFINE x == ClearPromised(ent[a][e])
           q == [ent[a][e].acc EXCEPT !.val = 0]
<1>3. ent[a][e] \in EntryRec /\ ent[a][e].acc # None /\ ent[a][e].acc \in Proposal
  BY <1>1, <1>2, ReqFacts DEF AcceptDuplicate, IsDuplicate
<1>4. x \in EntryRec /\ x.acc = ent[a][e].acc
  BY <1>3, EntryOps
<1>5. q \in Proposal
  BY <1>3 DEF Proposal
<1>6. /\ Respond(a, m, "ACCEPT_RSP", "DUPLICATE_PROPOSAL_REQ", q, "ACCEPTED")
      /\ ent' = [ent EXCEPT ![a][e] = x]
      /\ StoreStep(a, e, x)
      /\ UNCHANGED <<votes, reqs, forgot, lastChosen>>
  BY <1>2 DEF AcceptDuplicate, StoreStep
<1> HIDE DEF x, q
<1>7. /\ ent'[a][e] = x
      /\ \A b \in Acceptor, f \in Entry :
           b # a \/ f # e => ent'[b][f] = ent[b][f]
      /\ \A b \in Acceptor, f \in Entry : RowStep(b, f)
  BY <1>1, <1>4, <1>6, OneEntryStep
<1>8. ASSUME NEW b \in Acceptor, NEW f \in Entry
      PROVE  Follows(ent[b][f], ent'[b][f]) /\ Unmarked(ent[b][f], ent'[b][f])
  <2>1. CASE b = a /\ f = e
    <3>1. Quiet(ent[a][e], x)
      BY <1>3, <1>4 DEF Quiet
    <3> QED BY <1>3, <1>4, <1>7, <2>1, <3>1, QuietFollows
  <2>2. CASE ~(b = a /\ f = e)
    BY <1>1, <1>7, <2>2, BallotTypes, SameFollows
  <2> QED BY <2>1, <2>2
<1>11. rsps \subseteq rsps'
  BY <1>5, <1>6, RespondShows
<1>9. \A c \in Acceptor, f \in Entry, b \in Nat : Closed(c, f, b) => Closed(c, f, b)'
  BY <1>1, <1>6, <1>7, <1>8, <1>11, FollowsClosed
<1>10. PromiseInv'
  BY <1>1, <1>5, <1>6, <1>9, PromiseFrame
<1>12. DiskInv'
  BY <1>1, <1>6, <1>7, <1>8, FollowsDisk DEF IInv, BallotInv
<1> QED BY <1>1, <1>6, <1>7, <1>8, <1>10, <1>11, <1>12, QuietFrame

\* PromiseInv where no response is new.
LEMMA SamePromises ==
    ASSUME IInv, rsps' = rsps,
           \A c \in Acceptor, e \in Entry, b \in Nat : Closed(c, e, b) => Closed(c, e, b)'
    PROVE  PromiseInv'
<1> SUFFICES ASSUME NEW r \in rsps, r.type = "PREPARE_RSP", Promised(r)
             PROVE  /\ r.prop.pid >= r.req.prop.pid
                    /\ r.prop.pid > 0 => Closed(r.from, r.req.prop.entry, r.prop.pid)'
  BY DEF PromiseInv, Promised
<1>1. /\ r.prop.pid >= r.req.prop.pid
      /\ r.prop.pid > 0 => Closed(r.from, r.req.prop.entry, r.prop.pid)
  BY DEF IInv, BallotInv, PromiseInv
<1>2. r \in Response /\ r.req \in reqs
  BY DEF IInv, BallotInv, TypeOK, NetTypeOK, Shape, RspShape
<1>3. r.from \in Acceptor /\ r.prop \in Proposal /\ r.req.prop.entry \in Entry
  BY <1>2 DEF Response, IInv, BallotInv, Shape, ReqShape
<1>4. r.prop.pid \in Nat
  BY <1>3 DEF Proposal
<1> QED BY <1>1, <1>3, <1>4

\* HandleChosenReq changes the status of a vote and nothing else of it, and the
\* vote is on disk as chosen when it is chosen in memory.
LEMMA HandleChosenReqInv ==
    ASSUME IInv, NEW a \in Acceptor, NEW m \in reqs,
           HandleChosenReq(a, m), UNCHANGED proposerVars
    PROVE  IInv'
<1>1. TypeOK' /\ Shape' /\ TypeOK /\ Shape /\ DiskInv
  BY HandleChosenReqType DEF IInv, BallotInv
<1>2. PICK e \in Entry, x \in EntryRec :
             /\ e = m.prop.entry
             /\ ent' = [ent EXCEPT ![a][e] = x]
             /\ SaveEntry(a, e, x)
             /\ UNCHANGED <<crashes, forgot>>
             /\ ent[a][e].acc # None
             /\ x.prom = ent[a][e].prom
             /\ x.acc \in Proposal
             /\ x.acc = [ent[a][e].acc EXCEPT !.status = "CHOSEN"]
             /\ x.acc.pid = ent[a][e].acc.pid
             /\ x.acc.status = "CHOSEN"
  BY <1>1, HandleChosenReqEffect
<1>3. /\ UNCHANGED <<votes, reqs, rsps, forgot>>
      /\ lastChosen' = [lastChosen EXCEPT ![a] = SetMaxChosen(@, e)]
  BY <1>2 DEF HandleChosenReq, SetChosen
<1>4. /\ ent'[a][e] = x
      /\ \A b \in Acceptor, f \in Entry :
           b # a \/ f # e => ent'[b][f] = ent[b][f]
      /\ \A b \in Acceptor, f \in Entry : RowStep(b, f)
  <2>1. StoreStep(a, e, x) /\ TypeOK /\ ent' = [ent EXCEPT ![a][e] = x]
    BY <1>1, <1>2 DEF StoreStep
  <2> QED BY <2>1, OneEntryStep
<1>5. /\ disk'[a][e] = Reloaded(x)
      /\ \A b \in Acceptor, f \in Entry :
           b # a \/ f # e => disk'[b][f] = disk[b][f]
  BY <1>1, <1>2, ReloadedType, DiskUpdate DEF SaveEntry, TypeOK, AcceptorTypeOK
<1>6. x.acc # None
  BY <1>2, NoneAssumption
<1>7. ASSUME NEW b \in Acceptor, NEW f \in Entry
      PROVE  Follows(ent[b][f], ent'[b][f]) /\ RowInv(b, f)'
  <2>1. CASE b = a /\ f = e
    <3>1. Follows(ent[a][e], x)
      BY <1>2, <1>6 DEF Follows, Holds, VotedFrom, HasVote
    <3>2. RowInv(a, e)
      BY <1>1 DEF DiskInv
    <3>3. RowInv(a, e)'
      <4>1. /\ ent'[a][e].acc = None => ent[a][e].acc = None
            /\ disk'[a][e] = Reloaded(ent'[a][e]) /\ RowStep(a, e)
        BY <1>4, <1>5, <1>6
      <4> QED BY <1>1, <3>2, <4>1, FollowsRow
    <3> QED BY <1>4, <2>1, <3>1, <3>3
  <2>2. CASE ~(b = a /\ f = e)
    <3>1. ent'[b][f] = ent[b][f] /\ disk'[b][f] = disk[b][f]
      BY <1>4, <1>5, <2>2
    <3>2. RowInv(b, f)
      BY <1>1 DEF DiskInv
    <3>3. RowInv(b, f)'
      BY <3>1, <3>2 DEF RowInv, IsChosen, HasVote, EmptyEntry
    <3> QED BY <1>1, <3>1, <3>3, BallotTypes, SameFollows
  <2> QED BY <2>1, <2>2
<1>8. \A c \in Acceptor, f \in Entry, b \in Nat : Closed(c, f, b) => Closed(c, f, b)'
  BY <1>1, <1>3, <1>4, <1>7, FollowsClosed
<1>9. PromiseInv'
  BY <1>3, <1>8, SamePromises
<1>10. ASSUME NEW b \in Acceptor
       PROVE  /\ lastChosen'[b] \in {0} \cup ChosenRows(b)'
              /\ \A f \in ChosenRows(b)' : f <= lastChosen'[b]
  <2>1. /\ lastChosen[b] \in {0} \cup ChosenRows(b) /\ lastChosen[b] \in Nat
        /\ \A f \in ChosenRows(b) : f <= lastChosen[b]
        /\ lastChosen \in [Acceptor -> Nat]
    BY <1>1 DEF DiskInv, TypeOK, AcceptorTypeOK
  <2>2. CASE b # a
    <3>1. ChosenRows(b)' = ChosenRows(b)
      BY <1>5, <2>2 DEF ChosenRows
    <3>2. lastChosen'[b] = lastChosen[b]
      BY <1>3, <2>1, <2>2
    <3> QED BY <2>1, <3>1, <3>2
  <2>3. CASE b = a
    <3>1. Reloaded(x).acc = x.acc
      BY <1>6, ReloadedType
    <3>2. ChosenRows(a)' = ChosenRows(a) \cup {e}
      <4>1. disk'[a][e].acc = x.acc /\ x.acc # None /\ x.acc.status = "CHOSEN"
        BY <1>2, <1>5, <1>6, <3>1
      <4>2. \A f \in Entry : f # e => disk'[a][f] = disk[a][f]
        BY <1>5
      <4> QED BY <4>1, <4>2 DEF ChosenRows
    <3>3. lastChosen'[a] = SetMaxChosen(lastChosen[a], e)
      BY <1>3, <2>1
    <3>4. e \in Nat /\ ChosenRows(a) \subseteq Nat
      BY SynodAssumption DEF Entry, ChosenRows
    <3> QED BY <2>1, <2>3, <3>2, <3>3, <3>4 DEF SetMaxChosen
  <2> QED BY <2>2, <2>3
<1>11. DiskInv'
  BY <1>7, <1>10 DEF DiskInv
<1> QED BY <1>1, <1>3, <1>4, <1>7, <1>9, <1>11, QuietFrame

\* Casting a vote undoes no promise: MayVote looks at the vote held, or at the
\* promise while there is none, and Closed bounds exactly these.
LEMMA AcceptVotesInv ==
    ASSUME IInv, NEW a \in Acceptor, NEW m \in reqs,
           AcceptVotes(a, m), UNCHANGED proposerVars
    PROVE  IInv'
<1>1. TypeOK' /\ Shape' /\ TypeOK /\ Shape /\ VoteInv
  BY AcceptVotesType DEF IInv, BallotInv
<1>2. PICK pp \in Proposal, x \in EntryRec :
             /\ pp = [m.prop EXCEPT !.status = "ACCEPTED"]
             /\ pp.entry = m.prop.entry /\ pp.pid = m.prop.pid
             /\ pp.entry \in Entry
             /\ x.acc = pp
             /\ ent' = [ent EXCEPT ![a][pp.entry] = x]
             /\ StoreStep(a, pp.entry, x)
             /\ \/ votes' = votes
                \/ /\ votes' = [votes EXCEPT ![a] = @ \cup {Vote(pp)}]
                   /\ SaveEntry(a, pp.entry, x)
  BY <1>1, AcceptVotesEffect
<1>3. PICK e \in Entry, n \in Nat : e = pp.entry /\ n = pp.pid
  BY <1>2 DEF Proposal
<1>4. MayVote(ent[a][e], pp) /\ m.type = "ACCEPT_REQ" /\ reqs' = reqs
  BY <1>2, <1>3 DEF AcceptVotes
<1>5. /\ ent'[a][e] = x
      /\ \A b \in Acceptor, f \in Entry :
           b # a \/ f # e => ent'[b][f] = ent[b][f]
      /\ \A b \in Acceptor, f \in Entry : RowStep(b, f)
  BY <1>1, <1>2, <1>3, OneEntryStep
<1>6. PICK u : u = Vote(pp) /\ u.entry = e /\ u.pid = n
  BY <1>3, VoteType
<1>7. /\ \A b \in Acceptor : b # a => votes'[b] = votes[b]
      /\ \/ votes'[a] = votes[a]
         \/ votes'[a] = votes[a] \cup {u} /\ disk'[a][e] = Reloaded(x)
  <2>1. votes \in [Acceptor -> SUBSET VoteRec]
        /\ disk \in [Acceptor -> [Entry -> EntryRec]]
    BY <1>1 DEF TypeOK, AcceptorTypeOK
  <2>2. CASE votes' = votes
    BY <2>2
  <2>3. CASE /\ votes' = [votes EXCEPT ![a] = @ \cup {Vote(pp)}]
             /\ SaveEntry(a, pp.entry, x)
    <3>1. disk' = [disk EXCEPT ![a][e] = Reloaded(x)]
      BY <1>3, <2>3 DEF SaveEntry
    <3>2. disk'[a][e] = Reloaded(x)
      BY <2>1, <3>1, ReloadedType, DiskUpdate
    <3> QED BY <1>6, <2>1, <2>3, <3>2
  <2> QED BY <1>2, <2>2, <2>3
<1>8. pp.status = "ACCEPTED" /\ forgot' = forgot /\ UNCHANGED lastChosen
  BY <1>2 DEF AcceptVotes, Proposal
<1>12. /\ Follows(ent[a][e], x) /\ Unmarked(ent[a][e], x)
       /\ \A b \in Nat : Holds(ent[a][e], b) => b <= n
       /\ \A b \in Nat : VotedFrom(ent[a][e], b) => b < n
       /\ VotedFrom(x, n)
  BY <1>1, <1>2, <1>3, <1>4, <1>8, BallotTypes, VoteFollows
<1>13. ASSUME NEW b \in Acceptor, NEW f \in Entry
       PROVE  Follows(ent[b][f], ent'[b][f]) /\ Unmarked(ent[b][f], ent'[b][f])
  <2>1. CASE b = a /\ f = e
    BY <1>5, <1>12, <2>1
  <2>2. CASE ~(b = a /\ f = e)
    BY <1>1, <1>5, <2>2, BallotTypes, SameFollows
  <2> QED BY <2>1, <2>2
<1>10. PICK q \in Proposal :
         \/ Respond(a, m, "ACCEPT_RSP", "OK", q, "ACCEPTED")
         \/ Respond(a, m, "ACCEPT_RSP", "WRITE_PLOG_FAIL", q, "ACCEPTED_FAILED")
  <2>1. PICK q \in Proposal : q = [pp EXCEPT !.val = 0]
    BY DEF Proposal
  <2> QED BY <1>2, <2>1 DEF AcceptVotes
<1>14. rsps \subseteq rsps'
  BY <1>10, RespondShows
<1>9. ASSUME NEW c \in Acceptor, NEW f \in Entry, NEW b \in Nat, Closed(c, f, b)
      PROVE  Closed(c, f, b)'
  <2>1. CASE f \in forgot[c]
    BY <1>8, <2>1 DEF Closed
  <2>2. CASE f \notin forgot[c]
    <3>1. \A v \in votes'[c] : v \in votes[c] \/ (v.entry = f => v.pid >= b)
      <4>1. c = a /\ f = e => b <= n
        BY <1>9, <1>12, <2>2 DEF Closed
      <4> QED BY <1>6, <1>7, <4>1
    <3> QED BY <1>1, <1>5, <1>8, <1>9, <1>13, <1>14, <3>1, FollowsClosed
  <2> QED BY <2>1, <2>2
<1>15. PromiseInv'
  BY <1>1, <1>9, <1>10, PromiseFrame
<1>16. DiskInv'
  BY <1>1, <1>5, <1>8, <1>13, FollowsDisk DEF IInv, BallotInv
<1>11. VoteInv'
  <2>1. \A v \in votes[a] : v.entry = e => v.pid < n
    BY <1>1, <1>12, BallotTypes DEF VoteInv
  <2>3. ASSUME NEW c \in Acceptor, NEW v \in votes'[c]
        PROVE  /\ v.entry \in Entry
               /\ VotedFrom(ent'[c][v.entry], v.pid)
               /\ VotedFrom(disk'[c][v.entry], v.pid)
    <3>1. CASE v \in votes[c]
      <4>1. /\ v.entry \in Entry /\ VotedFrom(ent[c][v.entry], v.pid)
            /\ VotedFrom(disk[c][v.entry], v.pid)
        BY <1>1, <3>1 DEF VoteInv
      <4>2. v.pid \in Nat
        BY <1>1, <3>1, <4>1, BallotTypes
      <4> QED BY <1>1, <1>5, <1>13, <4>1, <4>2, FollowsVoted
    <3>2. CASE c = a /\ v = u /\ disk'[a][e] = Reloaded(x)
      <4>1. VotedFrom(Reloaded(x), n)
        BY <1>12, ReloadedHolds
      <4> QED BY <1>5, <1>6, <1>12, <3>2, <4>1
    <3> QED BY <1>7, <3>1, <3>2
  <2>4. ASSUME NEW c \in Acceptor, NEW v \in votes'[c], NEW w \in votes'[c],
               v.entry = w.entry, v.pid = w.pid
        PROVE  v = w
    <3>1. CASE v \in votes[c] /\ w \in votes[c]
      BY <1>1, <2>4, <3>1 DEF VoteInv
    <3>2. CASE c = a /\ v = u /\ w \in votes[a]
      BY <1>6, <2>1, <2>4, <3>2
    <3>3. CASE c = a /\ w = u /\ v \in votes[a]
      BY <1>6, <2>1, <2>4, <3>3
    <3> QED BY <1>7, <3>1, <3>2, <3>3
  <2>5. ASSUME NEW c \in Acceptor, NEW v \in votes'[c]
        PROVE  \E r \in reqs' : /\ r.type = "ACCEPT_REQ"
                                /\ r.prop.entry = v.entry /\ r.prop.pid = v.pid
    <3>1. CASE v \in votes[c]
      BY <1>1, <1>4, <3>1 DEF VoteInv
    <3>2. CASE c = a /\ v = u
      BY <1>2, <1>3, <1>4, <1>6, <3>2
    <3> QED BY <1>7, <3>1, <3>2
  <2> QED BY <2>3, <2>4, <2>5 DEF VoteInv, VotedFrom, HasVote
<1> QED BY <1>1, <1>4, <1>9, <1>15, <1>11, <1>16, AcceptorFrame

-----------------------------------------------------------------------------
\* A crash puts the rows of a in the place of its entries, and leaves its last
\* chosen entry where it was.
LEMMA CrashEffect ==
    ASSUME TypeOK, DiskInv, NEW a \in Acceptor, CrashAcceptor(a)
    PROVE  /\ \A e \in Entry : ent'[a][e] = disk[a][e]
           /\ \A b \in Acceptor : b # a => ent'[b] = ent[b]
           /\ lastChosen' = lastChosen
           /\ globalMax' = [globalMax EXCEPT ![a] = lastChosen[a]]
           /\ UNCHANGED <<disk, votes, reqs, rsps>>
           /\ \A b \in Acceptor : forgot[b] \subseteq forgot'[b]
           /\ \A e \in Entry :
                disk[a][e] = EmptyEntry /\ Shown(a, e) => e \in forgot'[a]
<1>1. /\ ent \in [Acceptor -> [Entry -> EntryRec]]
      /\ lastChosen \in [Acceptor -> Nat]
      /\ forgot \in [Acceptor -> SUBSET Entry]
  BY DEF TypeOK, AcceptorTypeOK
<1>2. LastRow(a) = lastChosen[a]
  BY <1>1, LastRowType DEF DiskInv
<1>3. /\ ent' = [ent EXCEPT ![a] = disk[a]]
      /\ lastChosen' = [lastChosen EXCEPT ![a] = lastChosen[a]]
      /\ globalMax' = [globalMax EXCEPT ![a] = lastChosen[a]]
      /\ UNCHANGED <<disk, votes, reqs, rsps>>
  BY <1>2 DEF CrashAcceptor
<1> DEFINE F == {e \in Entry : disk[a][e] = EmptyEntry /\ Shown(a, e)}
<1>4. forgot' = [forgot EXCEPT ![a] = @ \cup F]
  BY DEF CrashAcceptor
<1>5. \A e \in Entry : disk[a][e] = EmptyEntry /\ Shown(a, e) => e \in F
  OBVIOUS
<1> HIDE DEF F
<1>6. forgot'[a] = forgot[a] \cup F /\ \A b \in Acceptor : b # a => forgot'[b] = forgot[b]
  BY <1>1, <1>4
<1>7. /\ ent'[a] = disk[a]
      /\ \A b \in Acceptor : b # a => ent'[b] = ent[b]
      /\ lastChosen' = lastChosen
  BY <1>1, <1>3
<1> QED BY <1>3, <1>5, <1>6, <1>7

\* What was closed on disk is closed after a crash; what was not, is forgotten.
LEMMA CrashAcceptorInv ==
    ASSUME IInv, NEW a \in Acceptor, CrashAcceptor(a), UNCHANGED proposerVars
    PROVE  IInv'
<1>1. TypeOK' /\ Shape' /\ TypeOK /\ Shape /\ DiskInv /\ VoteInv
  BY CrashAcceptorType DEF IInv, BallotInv
<1>2. /\ \A e \in Entry : ent'[a][e] = disk[a][e]
      /\ \A b \in Acceptor : b # a => ent'[b] = ent[b]
      /\ lastChosen' = lastChosen
      /\ UNCHANGED <<disk, votes, reqs, rsps>>
      /\ \A b \in Acceptor : forgot[b] \subseteq forgot'[b]
      /\ \A e \in Entry :
           disk[a][e] = EmptyEntry /\ Shown(a, e) => e \in forgot'[a]
  BY <1>1, CrashEffect
<1>3. ASSUME NEW c \in Acceptor, NEW f \in Entry, NEW b \in Nat, Closed(c, f, b)
      PROVE  Closed(c, f, b)'
  <2>1. CASE f \in forgot'[c]
    BY <2>1 DEF Closed
  <2>2. CASE f \notin forgot'[c]
    <3>1. /\ \A v \in votes[c] : v.entry = f => v.pid >= b
          /\ Holds(ent[c][f], b)
          /\ Holds(disk[c][f], b) \/ (disk[c][f] = EmptyEntry /\ Shown(c, f))
      BY <1>2, <1>3, <2>2 DEF Closed
    <3>2. CASE c = a
      <4>1. Holds(disk[a][f], b)
        BY <1>2, <2>2, <3>1, <3>2
      <4> QED BY <1>2, <3>1, <3>2, <4>1 DEF Closed, Holds
    <3>3. CASE c # a
      BY <1>2, <3>1, <3>3 DEF Closed, Holds, Shown, EmptyEntry
    <3> QED BY <3>2, <3>3
  <2> QED BY <2>1, <2>2
<1>4. PromiseInv'
  BY <1>2, <1>3, SamePromises
<1>5. VoteInv'
  <2> SUFFICES ASSUME NEW c \in Acceptor, NEW v \in votes[c]
               PROVE  /\ v.entry \in Entry
                      /\ VotedFrom(ent'[c][v.entry], v.pid)
                      /\ VotedFrom(disk'[c][v.entry], v.pid)
                      /\ \A w \in votes[c] : v.entry = w.entry /\ v.pid = w.pid => v = w
                      /\ \E m \in reqs : /\ m.type = "ACCEPT_REQ"
                                         /\ m.prop.entry = v.entry /\ m.prop.pid = v.pid
    BY <1>2 DEF VoteInv, VotedFrom, HasVote
  <2>1. /\ v.entry \in Entry
        /\ VotedFrom(ent[c][v.entry], v.pid) /\ VotedFrom(disk[c][v.entry], v.pid)
        /\ \A w \in votes[c] : v.entry = w.entry /\ v.pid = w.pid => v = w
        /\ \E m \in reqs : /\ m.type = "ACCEPT_REQ"
                           /\ m.prop.entry = v.entry /\ m.prop.pid = v.pid
    BY <1>1 DEF VoteInv
  <2>2. CASE c = a
    BY <1>2, <2>1, <2>2
  <2>3. CASE c # a
    BY <1>2, <2>1, <2>3
  <2> QED BY <2>2, <2>3
<1>6. DiskInv'
  <2>1. ASSUME NEW c \in Acceptor, NEW f \in Entry PROVE RowInv(c, f)'
    <3>1. RowInv(c, f)
      BY <1>1 DEF DiskInv
    <3>2. CASE c = a
      BY <1>2, <3>1, <3>2 DEF RowInv, HasVote, IsChosen, EmptyEntry
    <3>3. CASE c # a
      BY <1>2, <3>1, <3>3 DEF RowInv, HasVote, IsChosen, EmptyEntry
    <3> QED BY <3>2, <3>3
  <2>2. \A c \in Acceptor : ChosenRows(c)' = ChosenRows(c)
    BY <1>2 DEF ChosenRows
  <2> QED BY <1>1, <1>2, <2>1, <2>2 DEF DiskInv
<1> QED BY <1>1, <1>2, <1>3, <1>4, <1>5, <1>6, AcceptorFrame

-----------------------------------------------------------------------------
\* The part of an instance state that CallInv reads.
Kept(st, old) ==
    /\ st.inc = old.inc /\ st.term = old.term
    /\ st.req # None =>
         /\ old.req # None
         /\ st.req.entry = old.req.entry /\ st.req.pid = old.req.pid

\* What is closed is so as long as no acceptor moves.
LEMMA SameClosed ==
    ASSUME UNCHANGED acceptorVars, rsps' = rsps
    PROVE  \A a, e, b : Closed(a, e, b)' <=> Closed(a, e, b)
<1>1. UNCHANGED <<ent, votes, disk, forgot>>
  BY DEF acceptorVars, storeVars
<1> QED BY <1>1 DEF Closed, Holds, Shown, EmptyEntry

\* What a step of a proposer has to show.
LEMMA ProposerFrame ==
    ASSUME IInv, TypeOK', Shape', NEW p \in Proposer, NEW st \in InstanceState,
           inst' = [inst EXCEPT ![p] = st],
           UNCHANGED acceptorVars, UNCHANGED rsps,
           slaveFast \subseteq slaveFast', reqs \subseteq reqs',
           \A m \in reqs' : m \notin reqs /\ m.type = "ACCEPT_REQ" =>
              m.prop.pid >= 1 /\ SafeAt(m.prop.entry, m.prop.pid)',
           \A m \in reqs' : m \notin reqs => m.src = p,
           \A m \in reqs' : m.type = "PREPARE_REQ" /\ m.src = p =>
              m.inc <= st.inc /\ CallMatches(m, st),
           RoundClosed(st)
    PROVE  IInv'
<1>1. /\ inst'[p] = st
      /\ \A q \in Proposer : q # p => inst'[q] = inst[q]
  BY DEF IInv, TypeOK, ProposerTypeOK
<1>2. UNCHANGED <<ent, votes, disk, forgot, lastChosen, rsps>>
  BY DEF acceptorVars, storeVars
<1>8. \A a, e, b : Closed(a, e, b)' <=> Closed(a, e, b)
  BY SameClosed
<1>3. PromiseInv'
  BY <1>2, <1>8 DEF IInv, BallotInv, PromiseInv, Promised
<1>4. VoteInv'
  BY <1>2 DEF IInv, BallotInv, VoteInv, VotedFrom, HasVote
<1>9. DiskInv'
  BY <1>2 DEF IInv, BallotInv, DiskInv, RowInv, ChosenRows, EmptyEntry, HasVote, IsChosen
<1>5. ValidInv'
  <2>1. ASSUME NEW q \in Proposer PROVE RoundClosed(inst'[q])
    BY <1>1 DEF IInv, BallotInv, ValidInv
  <2> QED BY <1>8, <2>1 DEF ValidInv, RoundClosed
<1>6. CallInv'
  <2> SUFFICES ASSUME NEW m \in reqs', m.type = "PREPARE_REQ"
               PROVE  m.inc <= inst'[m.src].inc /\ CallMatches(m, inst'[m.src])
    BY DEF CallInv, CallMatches
  <2>1. CASE m.src = p
    BY <1>1, <2>1
  <2>2. CASE m.src # p
    <3>1. m \in reqs
      BY <2>2
    <3>2. m.src \in Proposer
      BY <3>1 DEF IInv, TypeOK, NetTypeOK, Request
    <3> QED BY <1>1, <2>2, <3>1, <3>2 DEF IInv, BallotInv, CallInv
  <2> QED BY <2>1, <2>2
<1>7. AskInv'
  <2> SUFFICES ASSUME NEW m \in reqs', m.type = "ACCEPT_REQ"
               PROVE  m.prop.pid >= 1 /\ SafeAt(m.prop.entry, m.prop.pid)'
    BY DEF AskInv
  <2>1. CASE m \notin reqs
    BY <2>1
  <2>2. CASE m \in reqs
    <3>1. m.prop.pid >= 1 /\ SafeAt(m.prop.entry, m.prop.pid)
      BY <2>2 DEF IInv, BallotInv, AskInv
    <3> QED BY <1>8, <3>1 DEF SafeAt
  <2> QED BY <2>1, <2>2
<1> QED BY <1>3, <1>4, <1>5, <1>6, <1>7, <1>9 DEF IInv, BallotInv

\* A request of type CHOSEN, or none at all, and the call goes on or ends.
LEMMA KeptFrame ==
    ASSUME IInv, TypeOK', Shape', NEW p \in Proposer, NEW st \in InstanceState,
           inst' = [inst EXCEPT ![p] = st],
           UNCHANGED acceptorVars, UNCHANGED <<rsps, slaveFast>>,
           reqs \subseteq reqs',
           \A m \in reqs' : m \notin reqs => m.type = "CHOSEN_REQ" /\ m.src = p,
           Kept(st, inst[p]), RoundClosed(st)
    PROVE  IInv'
<1>1. \A m \in reqs' : m.type = "PREPARE_REQ" /\ m.src = p =>
              m.inc <= st.inc /\ CallMatches(m, st)
  <2> SUFFICES ASSUME NEW m \in reqs', m.type = "PREPARE_REQ", m.src = p
               PROVE  m.inc <= st.inc /\ CallMatches(m, st)
    OBVIOUS
  <2>1. m.inc <= inst[p].inc /\ CallMatches(m, inst[p])
    BY DEF IInv, BallotInv, CallInv
  <2> QED BY <2>1 DEF Kept, CallMatches
<1> QED BY <1>1, ProposerFrame

\* The operators that end or continue a call keep what CallInv reads.
LEMMA FinishKept ==
    ASSUME NEW st \in InstanceState, NEW old, NEW code,
           st.inc = old.inc, st.term = old.term
    PROVE  Kept(Finish(st, code), old) /\ RoundClosed(Finish(st, code))
<1>1. /\ Finish(st, code).inc = st.inc /\ Finish(st, code).term = st.term
      /\ Finish(st, code).req = None
  BY DEF InstanceState, Finish, Answer
<1> QED BY <1>1 DEF Kept, RoundClosed

\* FinishIfDone keeps it.
LEMMA FinishIfDoneKept ==
    ASSUME NEW st \in InstanceState, NEW old, NEW code, Kept(st, old), RoundClosed(st)
    PROVE  Kept(FinishIfDone(st, code), old) /\ RoundClosed(FinishIfDone(st, code))
BY FinishKept DEF FinishIfDone, Kept

\* Recording a response keeps it.
LEMMA HeardKept ==
    ASSUME IInv, NEW p \in Proposer, NEW r \in rsps
    PROVE  Kept(Heard(inst[p], r), inst[p]) /\ RoundClosed(Heard(inst[p], r))
<1> DEFINE st == Heard(inst[p], r)
<1>1. inst[p] \in InstanceState /\ RoundClosed(inst[p])
  BY DEF IInv, TypeOK, ProposerTypeOK, BallotInv, ValidInv
<1>2. /\ st.inc = inst[p].inc /\ st.term = inst[p].term /\ st.req = inst[p].req
      /\ st.phase = inst[p].phase /\ st.valid = inst[p].valid
  BY <1>1 DEF InstanceState, Heard
<1> HIDE DEF st
<1>3. Kept(st, inst[p]) /\ RoundClosed(st)
  BY <1>1, <1>2 DEF Kept, RoundClosed
<1> QED BY <1>3 DEF st

\* CopyProposalMeta changes neither entry nor pid of the call.
LEMMA NotedKept ==
    ASSUME IInv, NEW p \in Proposer, NEW r \in rsps, inst[p].req # None
    PROVE  Kept(Noted(p, r), inst[p]) /\ RoundClosed(Noted(p, r))
<1> DEFINE st == Noted(p, r)
<1>1. RoundClosed(inst[p])
  BY DEF IInv, BallotInv, ValidInv
<1>2. /\ st.inc = inst[p].inc /\ st.term = inst[p].term
      /\ st.req.entry = inst[p].req.entry /\ st.req.pid = inst[p].req.pid
      /\ st.phase = inst[p].phase /\ st.valid = inst[p].valid
  BY NotedType DEF IInv, BallotInv
<1> HIDE DEF st
<1>3. Kept(st, inst[p]) /\ RoundClosed(st)
  BY <1>1, <1>2 DEF Kept, RoundClosed
<1> QED BY <1>3 DEF st

\* Neither update touches the call in progress.
LEMMA UpdateKept ==
    ASSUME NEW st \in InstanceState, NEW old, Kept(st, old), RoundClosed(st),
           NEW p, NEW n, NEW from
    PROVE  /\ Kept(UpdatePrepareId(st, n), old) /\ RoundClosed(UpdatePrepareId(st, n))
           /\ Kept(UpdateChosenInfo(st, p, n, from), old)
           /\ RoundClosed(UpdateChosenInfo(st, p, n, from))
<1> DEFINE s1 == UpdatePrepareId(st, n)
           s2 == UpdateChosenInfo(st, p, n, from)
<1>1. /\ s1.inc = st.inc /\ s1.term = st.term /\ s1.req = st.req
      /\ s1.phase = st.phase /\ s1.valid = st.valid
  BY DEF InstanceState, UpdatePrepareId
<1>2. /\ s2.inc = st.inc /\ s2.term = st.term /\ s2.req = st.req
      /\ s2.phase = st.phase /\ s2.valid = st.valid
  BY DEF InstanceState, UpdateChosenInfo
<1> HIDE DEF s1, s2
<1>3. Kept(s1, old) /\ RoundClosed(s1) /\ Kept(s2, old) /\ RoundClosed(s2)
  BY <1>1, <1>2 DEF Kept, RoundClosed
<1> QED BY <1>3 DEF s1, s2

\* A response counted in the prepare phase is a promise for the call in
\* progress, under exactly its pid: an older call's promise is dropped by its
\* term, a larger one is a rejection, and a smaller one is never given.
LEMMA CountedClosed ==
    ASSUME IInv, NEW p \in Proposer, NEW r \in rsps, UsableRsp(p, r)
    PROVE  /\ r.prop.pid = inst[p].req.pid
           /\ inst[p].req.pid > 0 =>
                \A a \in Counted(p, r).valid :
                   Closed(a, inst[p].req.entry, inst[p].req.pid)
           /\ Kept(Counted(p, r), inst[p]) /\ RoundClosed(Counted(p, r))
<1>1. TypeOK /\ Shape /\ CallInv /\ PromiseInv /\ RoundClosed(inst[p])
  BY DEF IInv, BallotInv, ValidInv
<1>2. /\ inst[p].req # None /\ inst[p].phase = "PREPARING"
      /\ r.req.src = p /\ r.req.inc = inst[p].inc
      /\ r.req.prop.term = inst[p].term - 1
      /\ r.type = "PREPARE_RSP" /\ Promised(r)
      /\ r.prop.pid <= inst[p].req.pid
  BY DEF UsableRsp, PrepareRspCounts, PrepareRsp, Expected
<1>3. r.req \in reqs /\ r.req.type = "PREPARE_REQ"
  BY <1>1, <1>2, RspFacts DEF RspShape
<1>4. r.req.prop.entry = inst[p].req.entry /\ r.req.prop.pid = inst[p].req.pid
  BY <1>1, <1>2, <1>3 DEF CallInv, CallMatches
<1>5. /\ r.prop.pid >= r.req.prop.pid
      /\ r.prop.pid > 0 => Closed(r.from, r.req.prop.entry, r.prop.pid)
  BY <1>1, <1>2 DEF PromiseInv
<1>6. r.prop.pid \in Nat /\ inst[p].req.pid \in Nat
  BY <1>1, <1>2, RspFacts DEF Proposal
<1>7. r.prop.pid = inst[p].req.pid
  BY <1>2, <1>4, <1>5, <1>6
<1> DEFINE st == Counted(p, r)
<1>8. /\ st.req.entry = inst[p].req.entry /\ st.req.pid = inst[p].req.pid
      /\ st.valid = inst[p].valid \cup {r.from}
      /\ st.inc = inst[p].inc /\ st.term = inst[p].term
  BY <1>1, CountedFacts
<1> HIDE DEF st
<1>9. inst[p].req.pid > 0 =>
        \A a \in st.valid : Closed(a, inst[p].req.entry, inst[p].req.pid)
  BY <1>1, <1>2, <1>4, <1>5, <1>7, <1>8 DEF RoundClosed
<1>10. Kept(st, inst[p]) /\ RoundClosed(st)
  BY <1>2, <1>8, <1>9 DEF Kept, RoundClosed
<1> QED BY <1>7, <1>9, <1>10 DEF st

-----------------------------------------------------------------------------
\* PrepareRspFailed counts nobody.
LEMMA PrepareRspFailedInv ==
    ASSUME IInv, NEW p \in Proposer, NEW r \in rsps,
           PrepareRspFailed(p, r), UNCHANGED acceptorVars
    PROVE  IInv'
<1> DEFINE s1 == Heard(inst[p], r)
           st == FinishIfDone(s1, "PREPARE_NOT_QUORUM")
<1>1. TypeOK' /\ Shape' /\ TypeOK /\ Shape
  BY PrepareRspFailedType DEF IInv, BallotInv
<1>2. s1 \in InstanceState /\ InstShape(s1)
  BY <1>1, RspFacts, HeardType
<1>3. st \in InstanceState
  BY <1>2, FinishIfDoneType DEF ErrCode
<1>4. Kept(st, inst[p]) /\ RoundClosed(st)
  BY <1>2, HeardKept, FinishIfDoneKept
<1>5. inst' = [inst EXCEPT ![p] = st] /\ UNCHANGED <<reqs, rsps, slaveFast>>
  BY DEF PrepareRspFailed
<1> HIDE DEF st
<1> QED BY <1>1, <1>3, <1>4, <1>5, KeptFrame

\* PrepareRspRejected counts nobody.
LEMMA PrepareRspRejectedInv ==
    ASSUME IInv, NEW p \in Proposer, NEW r \in rsps,
           PrepareRspRejected(p, r), UNCHANGED acceptorVars
    PROVE  IInv'
<1> DEFINE s1 == Noted(p, r)
           s2 == UpdatePrepareId(s1, r.prop.pid)
           st == FinishIfDone(s2, "PREPARE_NOT_QUORUM")
<1>1. TypeOK' /\ Shape' /\ TypeOK /\ Shape /\ inst[p].req # None
  BY PrepareRspRejectedType DEF IInv, BallotInv, PrepareRspRejected, PrepareRsp, Expected
<1>2. s1 \in InstanceState /\ InstShape(s1) /\ r.prop.pid \in Nat
  BY <1>1, RspFacts, NotedType
<1>3. s2 \in InstanceState /\ InstShape(s2)
  BY <1>2, UpdatePrepareIdType
<1>4. st \in InstanceState
  BY <1>3, FinishIfDoneType DEF ErrCode
<1>5. Kept(s2, inst[p]) /\ RoundClosed(s2)
  BY <1>1, <1>2, NotedKept, UpdateKept
<1>6. Kept(st, inst[p]) /\ RoundClosed(st)
  BY <1>3, <1>5, FinishIfDoneKept
<1>7. inst' = [inst EXCEPT ![p] = st] /\ UNCHANGED <<reqs, rsps, slaveFast>>
  BY DEF PrepareRspRejected
<1> HIDE DEF st
<1> QED BY <1>1, <1>4, <1>6, <1>7, KeptFrame

\* PrepareRspAborts ends the call.
LEMMA PrepareRspAbortsInv ==
    ASSUME IInv, NEW p \in Proposer, NEW r \in rsps,
           PrepareRspAborts(p, r), UNCHANGED acceptorVars
    PROVE  IInv'
<1> DEFINE s1 == Finish(inst[p], "CRASHED")
           st == [s1 EXCEPT !.phase = "ABORTED"]
<1>1. TypeOK' /\ Shape' /\ TypeOK /\ Shape
  BY PrepareRspAbortsType DEF IInv, BallotInv
<1>2. s1 \in InstanceState
  BY <1>1, RspFacts, FinishType DEF ErrCode, InstShape
<1>3. Kept(s1, inst[p]) /\ s1.req = None
  BY <1>1, <1>2, RspFacts, FinishKept DEF Finish, InstanceState
<1>4. inst' = [inst EXCEPT ![p] = st] /\ UNCHANGED <<reqs, rsps, slaveFast>>
  BY DEF PrepareRspAborts
<1> HIDE DEF s1
<1>5. st \in InstanceState /\ Kept(st, inst[p]) /\ RoundClosed(st)
  BY <1>2, <1>3 DEF InstanceState, Kept, RoundClosed
<1> HIDE DEF st
<1> QED BY <1>1, <1>4, <1>5, KeptFrame

\* PrepareRspProbed ends the call.
LEMMA PrepareRspProbedInv ==
    ASSUME IInv, NEW p \in Proposer, NEW r \in rsps,
           PrepareRspProbed(p, r), UNCHANGED acceptorVars
    PROVE  IInv'
<1> DEFINE s1 == Counted(p, r)
           st == Finish(s1, "OK")
<1>1. TypeOK' /\ Shape' /\ TypeOK /\ Shape
  BY PrepareRspProbedType DEF IInv, BallotInv
<1>2. s1 \in InstanceState /\ InstShape(s1) /\ Kept(s1, inst[p])
  BY <1>1, CountedFacts, CountedClosed DEF PrepareRspProbed
<1>3. st \in InstanceState
  BY <1>2, FinishType DEF ErrCode, InstShape
<1>4. Kept(st, inst[p]) /\ RoundClosed(st)
  BY <1>2, FinishKept DEF Kept
<1>5. inst' = [inst EXCEPT ![p] = st] /\ UNCHANGED <<reqs, rsps, slaveFast>>
  BY DEF PrepareRspProbed
<1> HIDE DEF st
<1> QED BY <1>1, <1>3, <1>4, <1>5, KeptFrame

\* PrepareRspWaits counts an acceptor that is closed below the pid.
LEMMA PrepareRspWaitsInv ==
    ASSUME IInv, NEW p \in Proposer, NEW r \in rsps,
           PrepareRspWaits(p, r), UNCHANGED acceptorVars
    PROVE  IInv'
<1> DEFINE s1 == Counted(p, r)
           st == FinishIfDone(s1, "OK")
<1>1. TypeOK' /\ Shape' /\ TypeOK /\ Shape
  BY PrepareRspWaitsType DEF IInv, BallotInv
<1>2. s1 \in InstanceState /\ InstShape(s1) /\ Kept(s1, inst[p]) /\ RoundClosed(s1)
  BY <1>1, CountedFacts, CountedClosed DEF PrepareRspWaits
<1>3. st \in InstanceState
  BY <1>2, FinishIfDoneType DEF ErrCode
<1>4. Kept(st, inst[p]) /\ RoundClosed(st)
  BY <1>2, FinishIfDoneKept
<1>5. inst' = [inst EXCEPT ![p] = st] /\ UNCHANGED <<reqs, rsps, slaveFast>>
  BY DEF PrepareRspWaits
<1> HIDE DEF st
<1> QED BY <1>1, <1>3, <1>4, <1>5, KeptFrame

\* The majority counted is closed below the pid the votes are asked under.
LEMMA PrepareRspAcceptsInv ==
    ASSUME IInv, NEW p \in Proposer, NEW r \in rsps,
           PrepareRspAccepts(p, r), UNCHANGED acceptorVars
    PROVE  IInv'
<1>1. TypeOK' /\ Shape' /\ TypeOK /\ Shape /\ CallInv
  BY PrepareRspAcceptsType DEF IInv, BallotInv
<1>2. PICK m \in Proposal, st \in InstanceState :
             /\ m.entry = inst[p].req.entry /\ m.pid = inst[p].req.pid
             /\ m.entry \in Entry
             /\ Send(p, "ACCEPT_REQ", m)
             /\ inst' = [inst EXCEPT ![p] = st]
             /\ st.req = m /\ st.phase = "ACCEPTING"
             /\ st.inc = inst[p].inc /\ st.term = inst[p].term
  BY <1>1, PrepareRspAcceptsEffect
<1>3. PICK n \in Request :
             /\ reqs' = reqs \cup {n}
             /\ n.type = "ACCEPT_REQ" /\ n.src = p /\ n.prop = m
  BY <1>1, <1>2, SendType
<1>4. /\ UNCHANGED <<rsps, slaveFast>> /\ UsableRsp(p, r) /\ r.prop.pid > 0
      /\ Enough(Counted(p, r))
  BY DEF PrepareRspAccepts
<1>5. PICK e \in Entry, b \in Nat : e = m.entry /\ b = m.pid /\ b >= 1
  <2>1. m.pid \in Nat
    BY DEF Proposal
  <2>2. m.pid > 0
    BY <1>2, <1>4, CountedClosed
  <2> QED BY <1>2, <2>1, <2>2
<1>6. SafeAt(e, b)'
  <2>1. PICK Q \in SUBSET Acceptor : Q = Counted(p, r).valid
    BY <1>1, <1>4, CountedFacts DEF InstanceState
  <2>2. IsMajority(Q)
    BY <1>4, <2>1 DEF Enough
  <2>3. \A a \in Q : Closed(a, e, b)
    BY <1>2, <1>4, <1>5, <2>1, CountedClosed
  <2>4. \A a \in Q : Closed(a, e, b)'
    BY <1>4, <2>3, SameClosed
  <2> QED BY <2>2, <2>4 DEF SafeAt
<1>7. \A q \in reqs' : q.type = "PREPARE_REQ" /\ q.src = p =>
              q.inc <= st.inc /\ CallMatches(q, st)
  <2> SUFFICES ASSUME NEW q \in reqs, q.type = "PREPARE_REQ", q.src = p
               PROVE  q.inc <= st.inc /\ CallMatches(q, st)
    BY <1>3
  <2>1. q.inc <= inst[p].inc /\ CallMatches(q, inst[p])
    BY <1>1 DEF CallInv
  <2>2. inst[p].req # None
    BY <1>4 DEF UsableRsp, PrepareRspCounts, PrepareRsp, Expected
  <2> QED BY <1>2, <2>1, <2>2 DEF CallMatches
<1>8. RoundClosed(st)
  BY <1>2 DEF RoundClosed
<1>9. \A q \in reqs' : q \notin reqs /\ q.type = "ACCEPT_REQ" =>
              q.prop.pid >= 1 /\ SafeAt(q.prop.entry, q.prop.pid)'
  BY <1>3, <1>5, <1>6
<1> QED BY <1>1, <1>2, <1>3, <1>4, <1>7, <1>8, <1>9, ProposerFrame

-----------------------------------------------------------------------------
\* AcceptRspFailed counts nobody.
LEMMA AcceptRspFailedInv ==
    ASSUME IInv, NEW p \in Proposer, NEW r \in rsps,
           AcceptRspFailed(p, r), UNCHANGED acceptorVars
    PROVE  IInv'
<1> DEFINE code == IF r.err # "OK" THEN r.err ELSE "PEER_ACCEPT_FAIL"
           s1 == Heard(inst[p], r)
           st == FinishIfDone(s1, code)
<1>1. TypeOK' /\ Shape' /\ TypeOK /\ Shape
  BY AcceptRspFailedType DEF IInv, BallotInv
<1>2. s1 \in InstanceState /\ InstShape(s1)
  BY <1>1, RspFacts, HeardType
<1>3. code \in ErrCode
  BY <1>1, RspFacts DEF ErrCode
<1>4. inst' = [inst EXCEPT ![p] = st] /\ UNCHANGED <<reqs, rsps, slaveFast>>
  BY DEF AcceptRspFailed
<1> HIDE DEF code
<1>5. st \in InstanceState
  BY <1>2, <1>3, FinishIfDoneType
<1>6. Kept(st, inst[p]) /\ RoundClosed(st)
  BY <1>2, HeardKept, FinishIfDoneKept
<1> HIDE DEF st
<1> QED BY <1>1, <1>4, <1>5, <1>6, KeptFrame

\* AcceptRspRejected counts nobody.
LEMMA AcceptRspRejectedInv ==
    ASSUME IInv, NEW p \in Proposer, NEW r \in rsps,
           AcceptRspRejected(p, r), UNCHANGED acceptorVars
    PROVE  IInv'
<1> DEFINE s1 == Noted(p, r)
           s2 == UpdatePrepareId(s1, r.prop.pid)
           st == FinishIfDone(s2, "PEER_ACCEPT_REJECTED")
<1>1. TypeOK' /\ Shape' /\ TypeOK /\ Shape /\ inst[p].req # None
  BY AcceptRspRejectedType DEF IInv, BallotInv, AcceptRspRejected, AcceptRsp, Expected
<1>2. s1 \in InstanceState /\ InstShape(s1) /\ r.prop.pid \in Nat
  BY <1>1, RspFacts, NotedType
<1>3. s2 \in InstanceState /\ InstShape(s2)
  BY <1>2, UpdatePrepareIdType
<1>4. st \in InstanceState
  BY <1>3, FinishIfDoneType DEF ErrCode
<1>5. Kept(s2, inst[p]) /\ RoundClosed(s2)
  BY <1>1, <1>2, NotedKept, UpdateKept
<1>6. Kept(st, inst[p]) /\ RoundClosed(st)
  BY <1>3, <1>5, FinishIfDoneKept
<1>7. inst' = [inst EXCEPT ![p] = st] /\ UNCHANGED <<reqs, rsps, slaveFast>>
  BY DEF AcceptRspRejected
<1> HIDE DEF st
<1> QED BY <1>1, <1>4, <1>6, <1>7, KeptFrame

\* AcceptRspOther counts nobody.
LEMMA AcceptRspOtherInv ==
    ASSUME IInv, NEW p \in Proposer, NEW r \in rsps,
           AcceptRspOther(p, r), UNCHANGED acceptorVars
    PROVE  IInv'
<1> DEFINE s1 == Noted(p, r)
           st == FinishIfDone(s1, "PEER_ACCEPT_OTHER_VALUE")
<1>1. TypeOK' /\ Shape' /\ TypeOK /\ Shape /\ inst[p].req # None
  BY AcceptRspOtherType DEF IInv, BallotInv, AcceptRspOther, AcceptRsp, Expected
<1>2. s1 \in InstanceState /\ InstShape(s1)
  BY <1>1, NotedType
<1>3. st \in InstanceState
  BY <1>2, FinishIfDoneType DEF ErrCode
<1>4. Kept(st, inst[p]) /\ RoundClosed(st)
  BY <1>1, <1>2, NotedKept, FinishIfDoneKept
<1>5. inst' = [inst EXCEPT ![p] = st] /\ UNCHANGED <<reqs, rsps, slaveFast>>
  BY DEF AcceptRspOther
<1> HIDE DEF st
<1> QED BY <1>1, <1>3, <1>4, <1>5, KeptFrame

\* Counting in the accept phase is outside RoundClosed.
LEMMA CountedAcceptKept ==
    ASSUME IInv, NEW p \in Proposer, NEW r \in rsps, AcceptRspCounts(p, r)
    PROVE  Kept(CountedAccept(p, r), inst[p]) /\ RoundClosed(CountedAccept(p, r))
<1> DEFINE st == CountedAccept(p, r)
<1>1. inst[p].req # None
  BY DEF AcceptRspCounts, AcceptRsp, Expected
<1>2. /\ st.inc = inst[p].inc /\ st.term = inst[p].term /\ st.phase = "ACCEPTING"
      /\ st.req.entry = inst[p].req.entry /\ st.req.pid = inst[p].req.pid
  BY CountedAcceptType DEF IInv, BallotInv
<1> HIDE DEF st
<1>3. Kept(st, inst[p]) /\ RoundClosed(st)
  BY <1>1, <1>2 DEF Kept, RoundClosed
<1> QED BY <1>3 DEF st

\* AcceptRspWaits counts in the accept phase only.
LEMMA AcceptRspWaitsInv ==
    ASSUME IInv, NEW p \in Proposer, NEW r \in rsps,
           AcceptRspWaits(p, r), UNCHANGED acceptorVars
    PROVE  IInv'
<1> DEFINE s1 == CountedAccept(p, r)
           st == FinishIfDone(s1, "OK")
<1>1. TypeOK' /\ Shape' /\ TypeOK /\ Shape /\ AcceptRspCounts(p, r)
  BY AcceptRspWaitsType DEF IInv, BallotInv, AcceptRspWaits
<1>2. s1 \in InstanceState /\ InstShape(s1)
  BY <1>1, CountedAcceptType
<1>3. st \in InstanceState
  BY <1>2, FinishIfDoneType DEF ErrCode
<1>4. Kept(st, inst[p]) /\ RoundClosed(st)
  BY <1>1, <1>2, CountedAcceptKept, FinishIfDoneKept
<1>5. inst' = [inst EXCEPT ![p] = st] /\ UNCHANGED <<reqs, rsps, slaveFast>>
  BY DEF AcceptRspWaits
<1> HIDE DEF st
<1> QED BY <1>1, <1>3, <1>4, <1>5, KeptFrame

\* AcceptRspChosen ends the call and asks for no vote.
LEMMA AcceptRspChosenInv ==
    ASSUME IInv, NEW p \in Proposer, NEW r \in rsps,
           AcceptRspChosen(p, r), UNCHANGED acceptorVars
    PROVE  IInv'
<1> DEFINE s1 == CountedAccept(p, r)
           s2 == UpdateChosenInfo(s1, p, r.prop.entry, r.prop.proposer)
           st == Finish(s2, "OK")
           pp == [r.prop EXCEPT !.val = 0, !.status = "CHOSEN"]
<1>1. TypeOK' /\ Shape' /\ TypeOK /\ Shape /\ AcceptRspCounts(p, r)
  BY AcceptRspChosenType DEF IInv, BallotInv, AcceptRspChosen
<1>2. s1 \in InstanceState /\ InstShape(s1) /\ Kept(s1, inst[p]) /\ RoundClosed(s1)
  BY <1>1, CountedAcceptType, CountedAcceptKept
<1>3. r.prop \in Proposal /\ r.prop.entry \in Entry
  BY <1>1, RspFacts DEF RspShape, AcceptRspCounts, AcceptRsp
<1>4. r.prop.entry \in Nat /\ r.prop.proposer \in Proposer
  BY <1>3 DEF Proposal
<1>5. pp \in Proposal /\ pp.entry \in Entry
  BY <1>3 DEF Proposal, Status
<1>6. s2 \in InstanceState /\ InstShape(s2) /\ Kept(s2, inst[p])
  BY <1>2, <1>4, UpdateChosenInfoType, UpdateKept
<1>7. st \in InstanceState
  BY <1>6, FinishType DEF ErrCode, InstShape
<1>8. Kept(st, inst[p]) /\ RoundClosed(st)
  BY <1>6, FinishKept DEF Kept
<1>9. /\ Send(p, "CHOSEN_REQ", pp) /\ inst' = [inst EXCEPT ![p] = st]
      /\ UNCHANGED <<rsps, slaveFast>>
  BY DEF AcceptRspChosen
<1> HIDE DEF st, pp
<1>10. PICK n \in Request :
             reqs' = reqs \cup {n} /\ n.type = "CHOSEN_REQ" /\ n.src = p
  BY <1>1, <1>5, <1>9, SendType
<1> QED BY <1>1, <1>7, <1>8, <1>9, <1>10, KeptFrame

-----------------------------------------------------------------------------
\* The requests of earlier calls are older than a new call's term.
LEMMA NewCallMatches ==
    ASSUME IInv, NEW p \in Proposer, NEW st, st.inc = inst[p].inc,
           st.term = inst[p].term + 1
    PROVE  \A m \in reqs : m.type = "PREPARE_REQ" /\ m.src = p =>
              m.inc <= st.inc /\ CallMatches(m, st)
<1> SUFFICES ASSUME NEW m \in reqs, m.type = "PREPARE_REQ", m.src = p
             PROVE  m.inc <= st.inc /\ CallMatches(m, st)
  OBVIOUS
<1>1. m.inc <= inst[p].inc /\ (m.inc = inst[p].inc => m.prop.term < inst[p].term)
  BY DEF IInv, BallotInv, CallInv, CallMatches
<1>2. inst[p].term \in Nat
  BY DEF IInv, TypeOK, ProposerTypeOK, InstanceState
<1>3. m.prop \in Proposal
  BY DEF IInv, TypeOK, NetTypeOK, Request
<1>4. m.prop.term \in Nat
  BY <1>3 DEF Proposal
<1> QED BY <1>1, <1>2, <1>4 DEF CallMatches

\* ProposePrepare opens an empty round under a new term.
LEMMA ProposePrepareInv ==
    ASSUME IInv, NEW p \in Proposer, NEW kind,
           ProposePrepare(p, kind), UNCHANGED acceptorVars
    PROVE  IInv'
<1> DEFINE pp == AllocProposal(p, kind)
           q == [pp EXCEPT !.val = 0]
           st == BeginCall(p, kind, "PREPARING", pp)
<1>1. TypeOK' /\ Shape' /\ TypeOK /\ Shape
  BY ProposePrepareType DEF IInv, BallotInv
<1>2. pp \in Proposal /\ pp.entry \in Entry /\ pp.term = inst[p].term
  BY <1>1, AllocType DEF ProposePrepare
<1>3. /\ q \in Proposal /\ q.entry = pp.entry /\ q.val = 0 /\ q.pid = pp.pid
      /\ q.term = pp.term
  BY <1>2 DEF Proposal
<1>4. /\ st \in InstanceState /\ st.req = pp /\ st.term = inst[p].term + 1
      /\ st.valid = {} /\ st.inc = inst[p].inc
  BY <1>1, <1>2, BeginCallType
<1>5. Send(p, "PREPARE_REQ", q) /\ inst' = [inst EXCEPT ![p] = st]
      /\ UNCHANGED <<rsps, slaveFast>>
  BY DEF ProposePrepare
<1> HIDE DEF pp, q, st
<1>6. PICK n \in Request :
             /\ reqs' = reqs \cup {n} /\ n.type = "PREPARE_REQ" /\ n.src = p
             /\ n.inc = inst[p].inc /\ n.prop = q
  BY <1>1, <1>2, <1>3, <1>5, SendType
<1>7. inst[p].term \in Nat /\ inst[p].inc \in Nat
  BY <1>1 DEF TypeOK, ProposerTypeOK, InstanceState
<1>8. n.inc <= st.inc /\ CallMatches(n, st)
  BY <1>2, <1>3, <1>4, <1>6, <1>7 DEF CallMatches
<1>9. \A m \in reqs' : m.type = "PREPARE_REQ" /\ m.src = p =>
              m.inc <= st.inc /\ CallMatches(m, st)
  BY <1>4, <1>6, <1>8, NewCallMatches
<1>10. RoundClosed(st)
  BY <1>4 DEF RoundClosed
<1> QED BY <1>1, <1>4, <1>5, <1>6, <1>9, <1>10, ProposerFrame

\* The master's first pid is 1, and nothing is below it; any other proposer
\* that skips the prepare phase is recorded in slaveFast.
LEMMA ProposeAcceptInv ==
    ASSUME IInv, NEW p \in Proposer, ProposeAccept(p), UNCHANGED acceptorVars
    PROVE  IInv'
<1> DEFINE p0 == AllocProposal(p, "write")
           pp == [p0 EXCEPT !.status = "ACCEPTED"]
           st == BeginCall(p, "write", "ACCEPTING", pp)
<1>1. TypeOK' /\ Shape' /\ TypeOK /\ Shape
  BY ProposeAcceptType DEF IInv, BallotInv
<1>2. p0 \in Proposal /\ p0.entry \in Entry
  BY <1>1, AllocType DEF ProposeAccept
<1>3. pp \in Proposal /\ pp.entry \in Entry
  BY <1>2 DEF Proposal, Status
<1>4. /\ Send(p, "ACCEPT_REQ", pp) /\ inst' = [inst EXCEPT ![p] = st]
      /\ UNCHANGED rsps
      /\ pp.pid = p + 1
      /\ slaveFast' = IF p = 0 THEN slaveFast ELSE slaveFast \cup {pp.entry}
  BY DEF ProposeAccept, CanSkipPrepare
<1> HIDE DEF pp
<1>5. /\ st \in InstanceState /\ st.term = inst[p].term + 1
      /\ st.phase = "ACCEPTING" /\ st.inc = inst[p].inc
  BY <1>1, <1>3, BeginCallType
<1> HIDE DEF st
<1>6. PICK n \in Request :
             /\ reqs' = reqs \cup {n} /\ n.type = "ACCEPT_REQ" /\ n.src = p
             /\ n.prop = pp
  BY <1>1, <1>3, <1>4, SendType
<1>7. pp.pid >= 1
  BY <1>4, SynodAssumption DEF Proposer
<1>8. PICK e, b : e = pp.entry /\ b = pp.pid
  OBVIOUS
<1>9. SafeAt(e, b)'
  BY <1>4, <1>8 DEF SafeAt
<1>10. \A m \in reqs' : m \notin reqs /\ m.type = "ACCEPT_REQ" =>
              m.prop.pid >= 1 /\ SafeAt(m.prop.entry, m.prop.pid)'
  BY <1>6, <1>7, <1>8, <1>9
<1>11. \A m \in reqs' : m.type = "PREPARE_REQ" /\ m.src = p =>
              m.inc <= st.inc /\ CallMatches(m, st)
  BY <1>5, <1>6, NewCallMatches
<1>12. RoundClosed(st)
  BY <1>5 DEF RoundClosed
<1>13. slaveFast \subseteq slaveFast'
  BY <1>4
<1> QED BY <1>1, <1>5, <1>4, <1>6, <1>10, <1>11, <1>12, <1>13, ProposerFrame

\* Timeout ends the call.
LEMMA TimeoutInv ==
    ASSUME IInv, NEW p \in Proposer, Timeout(p), UNCHANGED acceptorVars
    PROVE  IInv'
<1> DEFINE s1 == Finish(inst[p], "TIMEOUT")
           st == [s1 EXCEPT !.lastv = None]
<1>1. TypeOK' /\ Shape' /\ inst[p] \in InstanceState /\ ~inst[p].notified
  BY TimeoutType DEF IInv, BallotInv, TypeOK, ProposerTypeOK, Shape, InstShape
<1>2. s1 \in InstanceState /\ Kept(s1, inst[p]) /\ RoundClosed(s1)
  BY <1>1, FinishType, FinishKept DEF ErrCode
<1>3. inst' = [inst EXCEPT ![p] = st] /\ UNCHANGED <<reqs, rsps, slaveFast>>
  BY DEF Timeout
<1> HIDE DEF s1
<1>4. st \in InstanceState /\ Kept(st, inst[p]) /\ RoundClosed(st)
  BY <1>2 DEF InstanceState, Kept, RoundClosed
<1> HIDE DEF st
<1> QED BY <1>1, <1>3, <1>4, KeptFrame

\* What an earlier run of the process asked for is told apart by its run.
LEMMA RestartInv ==
    ASSUME IInv, NEW p \in Proposer, Restart(p), UNCHANGED acceptorVars
    PROVE  IInv'
<1>1. TypeOK' /\ Shape' /\ TypeOK /\ Shape /\ CallInv
  BY RestartType DEF IInv, BallotInv
<1>2. PICK st : /\ inst' = [inst EXCEPT ![p] = st]
                /\ st.inc = inst[p].inc + 1 /\ st.req = None
  <2> DEFINE ret == IF inst[p].req # None
                    THEN Answer(inst[p], "CRASHED").ret ELSE inst[p].ret
             ni == NewInstance(p, inst[p].inc + 1, inst[p].calls, ret)
  <2>1. inst' = [inst EXCEPT ![p] = ni]
    BY DEF Restart
  <2> HIDE DEF ret
  <2>2. ni.inc = inst[p].inc + 1 /\ ni.req = None
    BY DEF NewInstance
  <2> HIDE DEF ni
  <2> QED BY <2>1, <2>2
<1>3. UNCHANGED <<reqs, rsps, slaveFast>>
  BY DEF Restart
<1>4. st \in InstanceState
  <2>1. inst'[p] = st
    BY <1>1, <1>2 DEF TypeOK, ProposerTypeOK
  <2>2. inst'[p] \in InstanceState
    BY <1>1 DEF TypeOK, ProposerTypeOK
  <2> QED BY <2>1, <2>2
<1>5. inst[p].inc \in Nat
  BY <1>1 DEF TypeOK, ProposerTypeOK, InstanceState
<1>6. \A m \in reqs' : m.type = "PREPARE_REQ" /\ m.src = p =>
              m.inc <= st.inc /\ CallMatches(m, st)
  <2> SUFFICES ASSUME NEW m \in reqs, m.type = "PREPARE_REQ", m.src = p
               PROVE  m.inc <= st.inc /\ CallMatches(m, st)
    BY <1>3
  <2>1. m.inc <= inst[p].inc
    BY <1>1 DEF CallInv
  <2>2. m.inc \in Nat
    BY <1>1 DEF TypeOK, NetTypeOK, Request
  <2> QED BY <1>2, <1>5, <2>1, <2>2 DEF CallMatches
<1>7. RoundClosed(st)
  BY <1>2 DEF RoundClosed
<1> QED BY <1>1, <1>2, <1>3, <1>4, <1>6, <1>7, ProposerFrame

\* OnEntryChosen leaves a call in progress alone.
LEMMA ChosenNotifyInv ==
    ASSUME IInv, ChosenNotify
    PROVE  IInv'
<1>1. TypeOK' /\ Shape' /\ TypeOK /\ Shape
  BY ChosenNotifyType DEF IInv, BallotInv
<1>2. PICK p \in Proposer, a \in Acceptor, e \in Entry, fromPlog \in BOOLEAN :
         /\ OnEntryChosen(p, ent[a][e].acc, fromPlog)
         /\ UNCHANGED acceptorVars
  BY DEF ChosenNotify
<1> DEFINE st == UpdateChosenInfo(inst[p], p, ent[a][e].acc.entry, ent[a][e].acc.proposer)
<1>3. inst[p] \in InstanceState /\ RoundClosed(inst[p]) /\ Kept(inst[p], inst[p])
  BY <1>1 DEF TypeOK, ProposerTypeOK, IInv, BallotInv, ValidInv, Kept
<1>4. Kept(st, inst[p]) /\ RoundClosed(st)
  BY <1>3, UpdateKept
<1>5. inst' = [inst EXCEPT ![p] = st] /\ UNCHANGED <<reqs, rsps, slaveFast>>
  BY <1>2 DEF OnEntryChosen
<1> HIDE DEF st
<1>6. st \in InstanceState
  <2>1. inst'[p] = st
    BY <1>1, <1>5 DEF TypeOK, ProposerTypeOK
  <2>2. inst'[p] \in InstanceState
    BY <1>1 DEF TypeOK, ProposerTypeOK
  <2> QED BY <2>1, <2>2
<1> QED BY <1>1, <1>2, <1>4, <1>5, <1>6, KeptFrame

-----------------------------------------------------------------------------
\* Initially nothing was asked, promised or voted.
LEMMA InitInv == Init => IInv
<1> SUFFICES ASSUME Init PROVE IInv
  OBVIOUS
<1>1. TypeOK /\ Shape
  BY InitType
<1>2. \A p \in Proposer : inst[p].req = None
  BY DEF Init, ProposerInit, NewInstance
<1>3. ValidInv
  BY <1>2 DEF ValidInv, RoundClosed
<1>4. /\ reqs = {} /\ rsps = {} /\ \A a \in Acceptor : votes[a] = {}
      /\ \A a \in Acceptor, e \in Entry :
           ent[a][e] = EmptyEntry /\ disk[a][e] = EmptyEntry
      /\ \A a \in Acceptor : lastChosen[a] = 0
  BY DEF Init, AcceptorInit
<1>5. CallInv /\ PromiseInv /\ VoteInv /\ AskInv
  BY <1>4 DEF CallInv, PromiseInv, VoteInv, AskInv
<1>6. \A a \in Acceptor, e \in Entry : RowInv(a, e)
  BY <1>4 DEF RowInv, EmptyEntry, HasVote, IsChosen
<1>7. \A a \in Acceptor : ChosenRows(a) = {}
  BY <1>4 DEF ChosenRows, EmptyEntry
<1>8. DiskInv
  BY <1>4, <1>6, <1>7 DEF DiskInv
<1> QED BY <1>1, <1>3, <1>5, <1>8 DEF IInv, BallotInv

\* Every step of the synod preserves the invariant, and no response is taken
\* back.
LEMMA NextInv ==
    ASSUME IInv, [Next]_vars
    PROVE  IInv' /\ rsps \subseteq rsps'
<1>1. CASE AcceptorNext
  <2>1. PICK a \in Up : \E m \in {n \in reqs : Delivered(a, n)} :
       \/ PrepareLags(a, m) /\ UNCHANGED proposerVars
       \/ PrepareSeesVote(a, m) /\ UNCHANGED proposerVars
       \/ PrepareSeesPromise(a, m) /\ UNCHANGED proposerVars
       \/ PrepareNew(a, m) /\ UNCHANGED proposerVars
       \/ AcceptLags(a, m) /\ UNCHANGED proposerVars
       \/ AcceptVotes(a, m) /\ UNCHANGED proposerVars
       \/ AcceptDuplicate(a, m) /\ UNCHANGED proposerVars
       \/ AcceptRefused(a, m) /\ UNCHANGED proposerVars
       \/ HandleChosenReq(a, m) /\ UNCHANGED proposerVars
    BY <1>1 DEF AcceptorNext
  <2>2. a \in Acceptor
    BY NetworkAssumption
  <2>3. IInv'
    BY <2>1, <2>2, PrepareLagsInv, PrepareSeesVoteInv, PrepareSeesPromiseInv,
       PrepareNewInv, AcceptLagsInv, AcceptVotesInv, AcceptDuplicateInv,
       AcceptRefusedInv, HandleChosenReqInv
  <2>4. ASSUME NEW m, NEW type, NEW err, NEW pp, NEW status,
               Respond(a, m, type, err, pp, status)
        PROVE  rsps \subseteq rsps'
    BY <2>4 DEF Respond
  <2>5. rsps \subseteq rsps'
    BY <2>1, <2>4 DEF PrepareLags, PrepareSeesVote, PrepareSeesPromise, PrepareNew,
       AcceptLags, AcceptVotes, AcceptDuplicate, AcceptRefused, HandleChosenReq
  <2> QED BY <2>3, <2>5
<1>2. CASE ProposerNext
  <2>1. PICK p \in Proposer :
       \/ \E kind \in CallKinds :
            ProposePrepare(p, kind) /\ UNCHANGED acceptorVars
       \/ ProposeAccept(p) /\ UNCHANGED acceptorVars
       \/ \E r \in rsps :
            \/ HandlePrepareRsp(p, r) /\ UNCHANGED acceptorVars
            \/ HandleAcceptRsp(p, r) /\ UNCHANGED acceptorVars
       \/ Timeout(p) /\ UNCHANGED acceptorVars
       \/ Restart(p) /\ UNCHANGED acceptorVars
    BY <1>2 DEF ProposerNext
  <2>2. ASSUME NEW r \in rsps, HandlePrepareRsp(p, r), UNCHANGED acceptorVars
        PROVE  IInv' /\ rsps' = rsps
    <3>1. IInv'
      BY <2>2, PrepareRspFailedInv, PrepareRspRejectedInv, PrepareRspAbortsInv,
         PrepareRspAcceptsInv, PrepareRspProbedInv, PrepareRspWaitsInv
         DEF HandlePrepareRsp
    <3>2. rsps' = rsps
      BY <2>2 DEF HandlePrepareRsp, PrepareRspFailed, PrepareRspRejected,
         PrepareRspAborts, PrepareRspAccepts, PrepareRspProbed, PrepareRspWaits
    <3> QED BY <3>1, <3>2
  <2>3. ASSUME NEW r \in rsps, HandleAcceptRsp(p, r), UNCHANGED acceptorVars
        PROVE  IInv' /\ rsps' = rsps
    <3>1. IInv'
      BY <2>3, AcceptRspFailedInv, AcceptRspRejectedInv, AcceptRspOtherInv,
         AcceptRspChosenInv, AcceptRspWaitsInv DEF HandleAcceptRsp
    <3>2. rsps' = rsps
      BY <2>3 DEF HandleAcceptRsp, AcceptRspFailed, AcceptRspRejected,
         AcceptRspOther, AcceptRspChosen, AcceptRspWaits
    <3> QED BY <3>1, <3>2
  <2>4. ASSUME NEW kind, ProposePrepare(p, kind), UNCHANGED acceptorVars
        PROVE  IInv' /\ rsps' = rsps
    BY <2>4, ProposePrepareInv DEF ProposePrepare
  <2>5. ASSUME ProposeAccept(p), UNCHANGED acceptorVars
        PROVE  IInv' /\ rsps' = rsps
    BY <2>5, ProposeAcceptInv DEF ProposeAccept
  <2>6. ASSUME Timeout(p) \/ Restart(p), UNCHANGED acceptorVars
        PROVE  IInv' /\ rsps' = rsps
    BY <2>6, TimeoutInv, RestartInv DEF Timeout, Restart
  <2> QED BY <2>1, <2>2, <2>3, <2>4, <2>5, <2>6
<1>3. CASE ChosenNotify
  BY <1>3, ChosenNotifyInv DEF ChosenNotify, OnEntryChosen
<1>4. CASE UNCHANGED vars
  <2>1. TypeOK' /\ Shape'
    BY <1>4, NextType DEF IInv, BallotInv
  <2>2. /\ UNCHANGED <<reqs, rsps, ent, votes, disk, lastChosen, inst, slaveFast>>
        /\ UNCHANGED acceptorVars
    BY <1>4 DEF vars, acceptorVars, storeVars
  <2>8. \A a, e, b : Closed(a, e, b)' <=> Closed(a, e, b)
    BY <2>2, SameClosed
  <2>3. CallInv'
    BY <2>2 DEF IInv, BallotInv, CallInv, CallMatches
  <2>4. PromiseInv'
    BY <2>2, <2>8 DEF IInv, BallotInv, PromiseInv, Promised
  <2>5. ValidInv'
    BY <2>2, <2>8 DEF IInv, BallotInv, ValidInv, RoundClosed
  <2>6. VoteInv'
    BY <2>2 DEF IInv, BallotInv, VoteInv, VotedFrom, HasVote
  <2>7. AskInv'
    BY <2>2, <2>8 DEF IInv, BallotInv, AskInv, SafeAt
  <2>9. DiskInv'
    BY <2>2 DEF IInv, BallotInv, DiskInv, RowInv, ChosenRows, EmptyEntry, HasVote, IsChosen
  <2> QED BY <2>1, <2>2, <2>3, <2>4, <2>5, <2>6, <2>7, <2>9 DEF IInv, BallotInv
<1>5. CASE AcceptorCrash
  <2>1. PICK a \in Up : CrashAcceptor(a) /\ UNCHANGED proposerVars
    BY <1>5 DEF AcceptorCrash
  <2>2. a \in Acceptor
    BY NetworkAssumption
  <2>3. rsps' = rsps
    BY <2>1 DEF CrashAcceptor
  <2> QED BY <2>1, <2>2, <2>3, CrashAcceptorInv
<1> QED BY <1>1, <1>2, <1>3, <1>4, <1>5 DEF Next

-----------------------------------------------------------------------------
\* BallotInv holds in every state: what acceptors have promised, what
\* proposers have counted and what was asked and voted fit together, whatever
\* the network, the timers, failed saves and restarts do.
THEOREM BallotsSafe == Spec => []BallotInv
<1>1. Init => IInv
  BY InitInv
<1>2. IInv /\ [Next]_vars => IInv'
  BY NextInv
<1>3. IInv => BallotInv
  BY DEF IInv
<1> QED BY <1>1, <1>2, <1>3, PTL DEF Spec

\* Every variable keeps its type in every behaviour: the handlers of
\* acceptor.cpp and proposer.cpp and the loading of plog.cpp only ever build
\* well-formed messages, entries and instance states, in any order of
\* delivery, timeout, crash and restart.
THEOREM TypeCorrect == Spec => []TypeOK
<1>1. Init => IInv
  BY InitInv
<1>2. IInv /\ [Next]_vars => IInv'
  BY NextInv
<1>3. IInv => TypeOK
  BY DEF IInv
<1> QED BY <1>1, <1>2, <1>3, PTL DEF Spec

\* The invariant rules out two chosen values for one entry.
LEMMA InvAgreement == IInv => AgreementUnlessVoid
<1> SUFFICES ASSUME IInv, NEW v \in ChosenVotes, NEW w \in ChosenVotes,
                    v.entry = w.entry, v.entry \notin VoidEntries
             PROVE  v = w
  BY DEF AgreementUnlessVoid
<1> DEFINE Voters(u) == {a \in Acceptor : u \in votes[a]}
<1>1. TypeOK /\ VoteInv /\ AskInv
  BY DEF IInv, BallotInv
<1>2. /\ Voters(v) \in SUBSET Acceptor /\ Voters(w) \in SUBSET Acceptor
      /\ IsMajority(Voters(v)) /\ IsMajority(Voters(w))
  BY DEF ChosenVotes, Chosen
<1>3. ASSUME NEW u \in ChosenVotes, u.entry \notin VoidEntries
      PROVE  /\ u.pid \in Nat /\ u.pid >= 1
             /\ \/ u.pid = 1
                \/ \E Q \in SUBSET Acceptor :
                     IsMajority(Q) /\ \A a \in Q : Closed(a, u.entry, u.pid)
  <2>1. PICK a \in Acceptor : u \in votes[a]
    BY DEF ChosenVotes, AllVotes
  <2>2. u.pid \in Nat
    BY <1>1, <2>1 DEF TypeOK, AcceptorTypeOK, VoteRec
  <2>3. PICK m \in reqs : /\ m.type = "ACCEPT_REQ"
                          /\ m.prop.entry = u.entry /\ m.prop.pid = u.pid
    BY <1>1, <2>1 DEF VoteInv
  <2>4. u.pid >= 1 /\ SafeAt(u.entry, u.pid)
    BY <1>1, <2>3 DEF AskInv
  <2> QED BY <1>3, <2>2, <2>4 DEF SafeAt, VoidEntries
<1>4. ASSUME NEW x \in ChosenVotes, NEW y \in ChosenVotes,
             x.entry = y.entry, y.entry \notin VoidEntries, x.pid < y.pid
      PROVE  FALSE
  <2>1. x.pid \in Nat /\ y.pid \in Nat /\ x.pid >= 1
    BY <1>3, <1>4
  <2>2. PICK Q \in SUBSET Acceptor :
               IsMajority(Q) /\ \A a \in Q : Closed(a, y.entry, y.pid)
    BY <1>3, <1>4, <2>1
  <2>3. Voters(x) \in SUBSET Acceptor /\ IsMajority(Voters(x))
    BY DEF ChosenVotes, Chosen
  <2>4. PICK a \in Acceptor : a \in Q /\ a \in Voters(x)
    BY <2>2, <2>3, MajoritiesMeet
  <2>5. y.entry \notin forgot[a]
    BY <1>4 DEF VoidEntries
  <2>6. x.pid >= y.pid
    BY <1>4, <2>2, <2>4, <2>5 DEF Closed
  <2> QED BY <1>4, <2>1, <2>6
<1>5. v.pid = w.pid
  <2>1. v.pid \in Nat /\ w.pid \in Nat
    BY <1>3
  <2>2. ~(v.pid < w.pid) /\ ~(w.pid < v.pid)
    BY <1>4
  <2> QED BY <2>1, <2>2
<1>6. PICK a \in Acceptor : a \in Voters(v) /\ a \in Voters(w)
  BY <1>2, MajoritiesMeet
<1> QED BY <1>1, <1>5, <1>6 DEF VoteInv

\* No two values are ever chosen for an entry that no slave fast accepts and
\* whose promises no acceptor has forgotten, with any number of acceptors,
\* proposers, calls, entries, restarts, crashes and failed saves, although
\* handleAcceptReq drops promised_ with every vote, pids are used again after
\* a restart, and a crash brings back a promise as a zeroed vote.
THEOREM AgreementHolds == Spec => []AgreementUnlessVoid
<1>1. Init => IInv
  BY InitInv
<1>2. IInv /\ [Next]_vars => IInv'
  BY NextInv
<1>3. IInv => AgreementUnlessVoid
  BY InvAgreement
<1> QED BY <1>1, <1>2, <1>3, PTL DEF Spec

\* No handler of an acceptor makes it forget.
LEMMA HandlersForgetNot ==
    ASSUME AcceptorNext PROVE forgot' = forgot
<1>1. ASSUME NEW a, NEW m,
             \/ PrepareLags(a, m) \/ PrepareSeesVote(a, m)
             \/ PrepareSeesPromise(a, m) \/ PrepareNew(a, m)
      PROVE  forgot' = forgot
  BY <1>1 DEF PrepareLags, PrepareSeesVote, PrepareSeesPromise, PrepareNew,
     acceptorVars, storeVars
<1>2. ASSUME NEW a, NEW m,
             \/ AcceptLags(a, m) \/ AcceptVotes(a, m) \/ AcceptDuplicate(a, m)
             \/ AcceptRefused(a, m) \/ HandleChosenReq(a, m)
      PROVE  forgot' = forgot
  BY <1>2 DEF AcceptLags, AcceptVotes, AcceptDuplicate, AcceptRefused,
     HandleChosenReq, acceptorVars, storeVars
<1> QED BY <1>1, <1>2 DEF AcceptorNext

\* A step of the synod casts a vote or forgets a promise, never both.
LEMMA VotesOrForgets ==
    ASSUME [Next]_vars
    PROVE  votes' = votes \/ forgot' = forgot
<1>1. AcceptorNext => forgot' = forgot
  BY HandlersForgetNot
<1>2. AcceptorCrash => votes' = votes
  BY DEF AcceptorCrash, CrashAcceptor
<1>3. ProposerNext \/ ChosenNotify \/ UNCHANGED vars => votes' = votes
  BY DEF ProposerNext, ChosenNotify, acceptorVars, vars
<1> QED BY <1>1, <1>2, <1>3 DEF Next

\* No acceptor ever votes below a promise it has answered with, unless a crash
\* has made it forget that it did.
THEOREM PromisesKept == Spec => PromiseKept
<1> DEFINE Obeys == \A a \in Acceptor : \A v \in votes'[a] \ votes[a] : \A r \in rsps :
                      /\ r.from = a /\ r.type = "PREPARE_RSP" /\ Promised(r)
                      /\ r.req.prop.entry = v.entry /\ v.entry \notin forgot[a]
                      => v.pid >= r.prop.pid
<1>1. Init => IInv
  BY InitInv
<1>2. IInv /\ [Next]_vars => IInv'
  BY NextInv
<1>3. IInv /\ [Next]_vars => [Obeys]_vars
  <2> SUFFICES ASSUME IInv, [Next]_vars, NEW a \in Acceptor,
                      NEW v \in votes'[a] \ votes[a], NEW r \in rsps,
                      r.from = a, r.type = "PREPARE_RSP", Promised(r),
                      r.req.prop.entry = v.entry, v.entry \notin forgot[a]
               PROVE  v.pid >= r.prop.pid
    OBVIOUS
  <2>1. IInv' /\ r \in rsps'
    BY NextInv
  <2>2. v.pid \in Nat
    BY <2>1 DEF IInv, TypeOK, AcceptorTypeOK, VoteRec
  <2>3. r.prop.pid \in Nat
    BY RspFacts, SynodAssumption DEF IInv, TypeOK, NetTypeOK, Response, Proposal
  <2>4. r.prop.pid > 0 => Closed(a, v.entry, r.prop.pid)'
    BY <2>1 DEF IInv, BallotInv, PromiseInv, Promised
  <2>6. v.entry \notin forgot'[a]
    BY VotesOrForgets
  <2>5. r.prop.pid > 0 => v.pid >= r.prop.pid
    BY <2>4, <2>6 DEF Closed
  <2> QED BY <2>2, <2>3, <2>5
<1> QED BY <1>1, <1>2, <1>3, PTL DEF Spec, PromiseKept

-----------------------------------------------------------------------------
(* Where nothing can be lost nothing is forgotten.                         *)

\* Proposers answer nobody.
LEMMA ProposersOnlyAsk ==
    ASSUME ProposerNext \/ ChosenNotify \/ UNCHANGED vars
    PROVE  rsps' = rsps
<1>1. ASSUME NEW p \in Proposer, NEW r, HandlePrepareRsp(p, r) PROVE rsps' = rsps
  BY <1>1 DEF HandlePrepareRsp, PrepareRspFailed, PrepareRspRejected, PrepareRspAborts,
     PrepareRspAccepts, PrepareRspProbed, PrepareRspWaits
<1>2. ASSUME NEW p \in Proposer, NEW r, HandleAcceptRsp(p, r) PROVE rsps' = rsps
  BY <1>2 DEF HandleAcceptRsp, AcceptRspFailed, AcceptRspRejected, AcceptRspOther,
     AcceptRspChosen, AcceptRspWaits
<1>3. ProposerNext => rsps' = rsps
  BY <1>1, <1>2 DEF ProposerNext, ProposePrepare, ProposeAccept, Timeout, Restart
<1>4. ChosenNotify \/ UNCHANGED vars => rsps' = rsps
  BY DEF ChosenNotify, OnEntryChosen, vars
<1> QED BY <1>3, <1>4

\* The only promise that Respond can show is the one it answers with.
LEMMA RespondShown ==
    ASSUME NEW a \in Acceptor, NEW m, NEW type, NEW err, NEW pp \in Proposal, NEW status,
           Respond(a, m, type, err, pp, status),
           NEW b \in Acceptor, NEW f \in Entry, Shown(b, f)'
    PROVE  \/ Shown(b, f)
           \/ /\ b = a /\ f = m.prop.entry /\ type = "PREPARE_RSP"
              /\ err = "OK" /\ status = "PROMISED" /\ pp.pid > 0
<1> DEFINE q == [pp EXCEPT !.status = status, !.last = lastChosen[a]]
           z == [type |-> type, req |-> m, from |-> a, err |-> err, prop |-> q]
<1>1. rsps' = rsps \cup {z}
  BY DEF Respond
<1>2. q.pid = pp.pid /\ q.status = status
  BY DEF Proposal
<1>3. z.type = type /\ z.req = m /\ z.from = a /\ z.err = err /\ z.prop = q
  OBVIOUS
<1> HIDE DEF q, z
<1> QED BY <1>1, <1>2, <1>3 DEF Shown

\* A step that leaves entries and rows alone, and shows a promise only of an
\* entry that has a row.
LEMMA SavedSame ==
    ASSUME SavedInv, UNCHANGED <<ent, disk, forgot>>,
           \A a \in Acceptor, e \in Entry :
              MaxCrash > 0 /\ Shown(a, e)' => Shown(a, e) \/ disk[a][e] # EmptyEntry
    PROVE  SavedInv'
BY DEF SavedInv, EmptyEntry

\* A step that writes the row of the entry it changes.
LEMMA SavedRow ==
    ASSUME SavedInv, TypeOK, forgot' = forgot,
           NEW a \in Acceptor, NEW e \in Entry, NEW x \in EntryRec, NEW y \in EntryRec,
           ent' = [ent EXCEPT ![a][e] = x],
           MaxCrash > 0 => SaveEntry(a, e, y),
           \A b \in Acceptor, f \in Entry :
              Shown(b, f)' => Shown(b, f) \/ (b = a /\ f = e)
    PROVE  SavedInv'
<1>1. /\ ent \in [Acceptor -> [Entry -> EntryRec]]
      /\ disk \in [Acceptor -> [Entry -> EntryRec]]
  BY DEF TypeOK, AcceptorTypeOK
<1>2. \A b \in Acceptor, f \in Entry : b # a \/ f # e => ent'[b][f] = ent[b][f]
  BY <1>1, EntUpdate
<1>3. CASE ~(MaxCrash > 0)
  BY <1>3 DEF SavedInv
<1>4. CASE MaxCrash > 0
  <2>1. /\ disk'[a][e] = Reloaded(y)
        /\ \A b \in Acceptor, f \in Entry : b # a \/ f # e => disk'[b][f] = disk[b][f]
    BY <1>1, <1>4, ReloadedType, DiskUpdate DEF SaveEntry
  <2>2. Reloaded(y) # EmptyEntry
    BY ReloadedHolds DEF EmptyEntry
  <2>3. ASSUME NEW b \in Acceptor, NEW f \in Entry, disk'[b][f] = EmptyEntry
        PROVE  ent'[b][f] = EmptyEntry /\ ~Shown(b, f)'
    <3>1. b # a \/ f # e
      BY <2>1, <2>2, <2>3
    <3> QED BY <1>2, <1>4, <2>1, <2>3, <3>1 DEF SavedInv
  <2> QED BY <2>3 DEF SavedInv, EmptyEntry
<1> QED BY <1>3, <1>4

\* Every handler saves what it changes before it tells of it, if saves succeed.
LEMMA HandlersSave ==
    ASSUME SavedInv, IInv, NothingLost, NEW a \in Acceptor, NEW m \in reqs,
           \/ PrepareLags(a, m) \/ PrepareSeesVote(a, m) \/ PrepareSeesPromise(a, m)
           \/ PrepareNew(a, m) \/ AcceptLags(a, m) \/ AcceptVotes(a, m)
           \/ AcceptDuplicate(a, m) \/ AcceptRefused(a, m) \/ HandleChosenReq(a, m)
    PROVE  SavedInv'
<1>1. TypeOK /\ Shape
  BY DEF IInv, BallotInv
<1> DEFINE e == m.prop.entry
           y == ent[a][e]
<1>2. /\ m.prop \in Proposal /\ e \in Entry /\ y \in EntryRec
      /\ y.acc # None => y.acc \in Proposal
      /\ y.prom # None => y.prom \in Proposal
  BY <1>1, ReqFacts
<1>3. MaxCrash \in Nat /\ SaveOutcomes \subseteq BOOLEAN
  BY SaveAssumption
<1>4. ASSUME NEW saved \in SaveOutcomes, MaxCrash > 0 PROVE saved = TRUE
  <2>1. MaxCrash # 0
    BY <1>3, <1>4
  <2>2. FALSE \notin SaveOutcomes
    BY <2>1, Zenon DEF NothingLost
  <2>3. saved \in BOOLEAN /\ saved # FALSE
    BY <1>3, <2>2
  <2> QED BY <2>3, Zenon
<1>5. ASSUME NEW type, NEW err, NEW pp \in Proposal, NEW status,
             Respond(a, m, type, err, pp, status)
      PROVE  /\ \A b \in Acceptor, f \in Entry :
                  Shown(b, f)' => Shown(b, f) \/ (b = a /\ f = e)
             /\ type # "PREPARE_RSP" \/ err # "OK" \/ status # "PROMISED" \/ pp.pid = 0 =>
                  \A b \in Acceptor, f \in Entry : Shown(b, f)' => Shown(b, f)
  BY <1>5, RespondShown DEF Proposal
<1>6. ASSUME PrepareLags(a, m) PROVE SavedInv'
  BY <1>2, <1>5, <1>6, SavedSame DEF PrepareLags, acceptorVars, storeVars
<1>7. ASSUME PrepareSeesVote(a, m) PROVE SavedInv'
  <2>1. Respond(a, m, "PREPARE_RSP", "OK", y.acc, "ACCEPTED") /\ y.acc \in Proposal
    BY <1>2, <1>7 DEF PrepareSeesVote
  <2>2. UNCHANGED <<ent, disk, forgot>>
    BY <1>7 DEF PrepareSeesVote, storeVars
  <2> QED BY <1>5, <2>1, <2>2, SavedSame
<1>8. ASSUME PrepareSeesPromise(a, m) PROVE SavedInv'
  <2>1. Respond(a, m, "PREPARE_RSP", "OK", y.prom, "PROMISED") /\ y.prom \in Proposal
    BY <1>2, <1>8 DEF PrepareSeesPromise, HeldByPromise
  <2>2. UNCHANGED <<ent, disk, forgot>> /\ y.prom # None
    BY <1>8 DEF PrepareSeesPromise, HeldByPromise, storeVars
  <2>3. MaxCrash > 0 => disk[a][e] # EmptyEntry
    BY <1>2, <2>2 DEF SavedInv, EmptyEntry
  <2> QED BY <1>5, <2>1, <2>2, <2>3, SavedSame
<1>9. ASSUME PrepareNew(a, m) PROVE SavedInv'
  <2>1. forgot' = forgot
    BY <1>9 DEF PrepareNew
  <2>2. CASE m.prop.pid = 0
    <3>1. Respond(a, m, "PREPARE_RSP", "OK", m.prop, "PROMISED") /\ UNCHANGED <<ent, disk>>
      BY <1>9, <2>2 DEF PrepareNew
    <3> QED BY <1>2, <1>5, <2>1, <2>2, <3>1, SavedSame
  <2>3. CASE m.prop.pid # 0
    <3> DEFINE pq == [m.prop EXCEPT !.status = "PROMISED"]
               x == SetPromised(y, pq)
    <3>1. pq \in Proposal
      BY <1>2 DEF Proposal, Status
    <3>2. x \in EntryRec
      BY <1>2, <3>1, EntryOps
    <3>5. /\ ent' = [ent EXCEPT ![a][e] = x]
          /\ \E saved \in SaveOutcomes :
               IF saved
               THEN /\ SaveEntry(a, e, x)
                    /\ Respond(a, m, "PREPARE_RSP", "OK", m.prop, "PROMISED")
               ELSE /\ Respond(a, m, "PREPARE_RSP", "WRITE_PLOG_FAIL", m.prop,
                               "PROMISED_FAILED")
                    /\ UNCHANGED disk
      BY <1>9, <2>3 DEF PrepareNew
    <3>3. /\ ent' = [ent EXCEPT ![a][e] = x]
          /\ MaxCrash > 0 => SaveEntry(a, e, x)
          /\ \E err, status : Respond(a, m, "PREPARE_RSP", err, m.prop, status)
      BY <1>4, <3>5, Zenon
    <3> HIDE DEF x, pq
    <3>4. \A b \in Acceptor, f \in Entry :
            Shown(b, f)' => Shown(b, f) \/ (b = a /\ f = e)
      BY <1>2, <1>5, <3>3
    <3> QED BY <1>1, <1>2, <2>1, <3>2, <3>3, <3>4, SavedRow
  <2> QED BY <2>2, <2>3
<1>10. ASSUME AcceptLags(a, m) PROVE SavedInv'
  <2>1. Respond(a, m, "ACCEPT_RSP", "REMOTE_NEED_CATCHUP", ZeroProposal, "LOCAL_LAG_BEHIND")
    BY <1>10 DEF AcceptLags
  <2>2. UNCHANGED <<ent, disk, forgot>>
    BY <1>10 DEF AcceptLags, acceptorVars, storeVars
  <2> QED BY <1>5, <2>1, <2>2, ZeroType, SavedSame
<1>11. ASSUME AcceptVotes(a, m) PROVE SavedInv'
  <2>1. PICK pp \in Proposal, x \in EntryRec :
             /\ pp = [m.prop EXCEPT !.status = "ACCEPTED"]
             /\ pp.entry = m.prop.entry /\ pp.pid = m.prop.pid
             /\ pp.entry \in Entry
             /\ x.acc = pp
             /\ ent' = [ent EXCEPT ![a][pp.entry] = x]
             /\ StoreStep(a, pp.entry, x)
             /\ \/ votes' = votes
                \/ /\ votes' = [votes EXCEPT ![a] = @ \cup {Vote(pp)}]
                   /\ SaveEntry(a, pp.entry, x)
    BY <1>1, <1>11, AcceptVotesEffect
  <2>2. PICK q \in Proposal : q = [pp EXCEPT !.val = 0]
    BY DEF Proposal
  <2>3. PICK z \in EntryRec : z = SetAccepted(y, pp)
    BY <1>2, EntryOps
  <2>7. \E saved \in SaveOutcomes :
          IF saved
          THEN SaveEntry(a, e, z) /\ Respond(a, m, "ACCEPT_RSP", "OK", q, "ACCEPTED")
          ELSE Respond(a, m, "ACCEPT_RSP", "WRITE_PLOG_FAIL", q, "ACCEPTED_FAILED")
    BY <1>11, <2>1, <2>2, <2>3 DEF AcceptVotes
  <2>4. /\ MaxCrash > 0 => SaveEntry(a, e, z)
        /\ \E err, status : Respond(a, m, "ACCEPT_RSP", err, q, status)
    BY <1>4, <2>7, Zenon
  <2>5. \A b \in Acceptor, f \in Entry :
          Shown(b, f)' => Shown(b, f) \/ (b = a /\ f = e)
    BY <1>5, <2>4
  <2>6. ent' = [ent EXCEPT ![a][e] = x] /\ forgot' = forgot
    BY <1>11, <2>1 DEF AcceptVotes
  <2> QED BY <1>1, <1>2, <2>4, <2>5, <2>6, SavedRow
<1>12. ASSUME AcceptDuplicate(a, m) PROVE SavedInv'
  <2> DEFINE x == ClearPromised(y)
             q == [y.acc EXCEPT !.val = 0]
  <2>1. q \in Proposal /\ x \in EntryRec
    BY <1>2, <1>12, EntryOps DEF AcceptDuplicate, IsDuplicate, Proposal
  <2>4. /\ ent' = [ent EXCEPT ![a][e] = x] /\ forgot' = forgot
        /\ \E saved \in SaveOutcomes :
             IF saved THEN SaveEntry(a, e, x) ELSE UNCHANGED disk
        /\ Respond(a, m, "ACCEPT_RSP", "DUPLICATE_PROPOSAL_REQ", q, "ACCEPTED")
    BY <1>12 DEF AcceptDuplicate
  <2>2. /\ ent' = [ent EXCEPT ![a][e] = x] /\ forgot' = forgot
        /\ MaxCrash > 0 => SaveEntry(a, e, x)
        /\ Respond(a, m, "ACCEPT_RSP", "DUPLICATE_PROPOSAL_REQ", q, "ACCEPTED")
    BY <1>4, <2>4, Zenon
  <2> HIDE DEF x, q
  <2>3. \A b \in Acceptor, f \in Entry :
          Shown(b, f)' => Shown(b, f) \/ (b = a /\ f = e)
    BY <1>5, <2>1, <2>2
  <2> QED BY <1>1, <1>2, <2>1, <2>2, <2>3, SavedRow
<1>13. ASSUME AcceptRefused(a, m) PROVE SavedInv'
  <2> DEFINE q1 == [m.prop EXCEPT !.val = 0]
             q2 == [y.acc EXCEPT !.val = 0]
  <2>1. q1 \in Proposal /\ (y.acc # None => q2 \in Proposal)
    BY <1>2 DEF Proposal
  <2>2. /\ \/ Respond(a, m, "ACCEPT_RSP", "OK", q1, "ACCEPTED_FAILED")
           \/ y.acc # None /\ Respond(a, m, "ACCEPT_RSP", "INVALID_PROPOSAL_REQ", q2, "ACCEPTED_FAILED")
           \/ Respond(a, m, "ACCEPT_RSP", "INVALID_PLOG_DATA", q1, "ACCEPTED_FAILED")
        /\ UNCHANGED <<ent, disk, forgot>>
    BY <1>13 DEF AcceptRefused, storeVars
  <2> HIDE DEF q1, q2
  <2>3. \A b \in Acceptor, f \in Entry : Shown(b, f)' => Shown(b, f)
    BY <1>5, <2>1, <2>2
  <2> QED BY <2>2, <2>3, SavedSame
<1>14. ASSUME HandleChosenReq(a, m) PROVE SavedInv'
  <2>1. PICK f \in Entry, x \in EntryRec :
             /\ f = m.prop.entry
             /\ ent' = [ent EXCEPT ![a][f] = x]
             /\ SaveEntry(a, f, x)
             /\ UNCHANGED <<crashes, forgot>>
             /\ ent[a][f].acc # None
             /\ x.prom = ent[a][f].prom
             /\ x.acc \in Proposal
             /\ x.acc = [ent[a][f].acc EXCEPT !.status = "CHOSEN"]
             /\ x.acc.pid = ent[a][f].acc.pid
             /\ x.acc.status = "CHOSEN"
    BY <1>1, <1>14, HandleChosenReqEffect
  <2>2. /\ ent' = [ent EXCEPT ![a][f] = x] /\ SaveEntry(a, f, x) /\ forgot' = forgot
    BY <2>1
  <2>3. \A b \in Acceptor, g \in Entry : Shown(b, g)' => Shown(b, g)
    BY <1>14 DEF HandleChosenReq, Shown
  <2> QED BY <1>1, <2>2, <2>3, SavedRow
<1> QED BY <1>6, <1>7, <1>8, <1>9, <1>10, <1>11, <1>12, <1>13, <1>14

\* And no crash finds anything to forget.
LEMMA NextSaved ==
    ASSUME SavedInv, IInv, NothingLost, [Next]_vars
    PROVE  SavedInv'
<1>1. CASE AcceptorNext
  <2>1. PICK a \in Up, m \in reqs :
       \/ PrepareLags(a, m) \/ PrepareSeesVote(a, m) \/ PrepareSeesPromise(a, m)
       \/ PrepareNew(a, m) \/ AcceptLags(a, m) \/ AcceptVotes(a, m)
       \/ AcceptDuplicate(a, m) \/ AcceptRefused(a, m) \/ HandleChosenReq(a, m)
    BY <1>1 DEF AcceptorNext
  <2> QED BY <2>1, NetworkAssumption, HandlersSave
<1>2. CASE AcceptorCrash
  <2>1. PICK a \in Acceptor : CrashAcceptor(a)
    BY <1>2, NetworkAssumption DEF AcceptorCrash
  <2>2. TypeOK /\ DiskInv
    BY DEF IInv, BallotInv
  <2>3. crashes[a] \in Nat /\ crashes[a] < MaxCrash /\ MaxCrash \in Nat
    BY <2>1, <2>2, SaveAssumption DEF CrashAcceptor, TypeOK, AcceptorTypeOK
  <2>4. MaxCrash > 0
    BY <2>3
  <2>5. /\ \A e \in Entry : ent'[a][e] = disk[a][e]
        /\ \A b \in Acceptor : b # a => ent'[b] = ent[b]
        /\ UNCHANGED <<disk, rsps>>
    BY <2>1, <2>2, CrashEffect
  <2> DEFINE F == {e \in Entry : disk[a][e] = EmptyEntry /\ Shown(a, e)}
  <2>6. F = {}
    BY <2>4 DEF SavedInv
  <2>7. forgot' = [forgot EXCEPT ![a] = @ \cup F]
    BY <2>1 DEF CrashAcceptor
  <2> HIDE DEF F
  <2>8. \A b \in Acceptor : forgot'[b] = {}
    BY <2>2, <2>6, <2>7 DEF SavedInv, TypeOK, AcceptorTypeOK
  <2>9. ASSUME NEW b \in Acceptor, NEW e \in Entry, disk'[b][e] = EmptyEntry
        PROVE  ent'[b][e] = EmptyEntry /\ ~Shown(b, e)'
    BY <2>4, <2>5, <2>9 DEF SavedInv, Shown
  <2> QED BY <2>8, <2>9 DEF SavedInv, EmptyEntry
<1>3. CASE ProposerNext \/ ChosenNotify \/ UNCHANGED vars
  <2>1. UNCHANGED acceptorVars
    BY <1>3 DEF ProposerNext, ChosenNotify, vars
  <2>2. rsps' = rsps
    BY <1>3, ProposersOnlyAsk
  <2> QED BY <2>1, <2>2, SavedSame DEF acceptorVars, storeVars, Shown
<1> QED BY <1>1, <1>2, <1>3 DEF Next

\* Without crashes, or where every save succeeds, no two values are ever chosen
\* for an entry that no slave fast accepts.
THEOREM AgreementWithoutLoss == NothingLost /\ Spec => []AgreementUnlessSlaveFast
<1> DEFINE Inv == NothingLost /\ IInv /\ SavedInv
<1>1. NothingLost /\ Init => Inv
  <2> SUFFICES ASSUME NothingLost, Init PROVE SavedInv
    BY InitInv
  <2> QED BY DEF SavedInv, Init, AcceptorInit, Shown
<1>2. Inv /\ [Next]_vars => Inv'
  BY NextInv, NextSaved DEF NothingLost
<1>3. Inv => AgreementUnlessSlaveFast
  <2> SUFFICES ASSUME IInv, SavedInv PROVE AgreementUnlessSlaveFast
    OBVIOUS
  <2>1. VoidEntries = slaveFast
    BY DEF VoidEntries, SavedInv
  <2> QED BY <2>1, InvAgreement DEF AgreementUnlessVoid, AgreementUnlessSlaveFast
<1> QED BY <1>1, <1>2, <1>3, PTL DEF Spec

-----------------------------------------------------------------------------
\* Entry e of acceptor a, once marked CHOSEN, holds what it held.
Stays(a, e) ==
    ent[a][e].acc # None /\ ent[a][e].acc.status = "CHOSEN" =>
       ent'[a][e].acc = ent[a][e].acc

\* Only the entry the request names can change.
LEMMA StaysFrame ==
    ASSUME TypeOK, NEW a \in Acceptor, NEW e \in Entry, NEW x \in EntryRec,
           ent' = [ent EXCEPT ![a][e] = x],
           ent[a][e].acc # None /\ ent[a][e].acc.status = "CHOSEN" =>
              x.acc = ent[a][e].acc
    PROVE  \A b \in Acceptor, f \in Entry : Stays(b, f)
<1>1. /\ ent'[a][e] = x
      /\ \A b \in Acceptor, f \in Entry :
           b # a \/ f # e => ent'[b][f] = ent[b][f]
  BY EntUpdate DEF TypeOK, AcceptorTypeOK
<1> SUFFICES ASSUME NEW b \in Acceptor, NEW f \in Entry PROVE Stays(b, f)
  OBVIOUS
<1>2. CASE b = a /\ f = e
  BY <1>1, <1>2 DEF Stays
<1>3. CASE ~(b = a /\ f = e)
  BY <1>1, <1>3 DEF Stays
<1> QED BY <1>2, <1>3

\* No step of an acceptor replaces a vote marked CHOSEN.
LEMMA NextStays ==
    ASSUME IInv, [Next]_vars
    PROVE  \A b \in Acceptor, f \in Entry : Stays(b, f)
<1>1. TypeOK /\ Shape
  BY DEF IInv, BallotInv
<1>2. CASE ent' = ent
  BY <1>2 DEF Stays
<1>3. ASSUME NEW a \in Acceptor, NEW m \in reqs, PrepareNew(a, m), ent' # ent
      PROVE  \A b \in Acceptor, f \in Entry : Stays(b, f)
  <2> DEFINE e == m.prop.entry
             pp == [m.prop EXCEPT !.status = "PROMISED"]
             x == SetPromised(ent[a][e], pp)
  <2>1. m.prop \in Proposal /\ e \in Entry /\ ent[a][e] \in EntryRec
    BY <1>1, ReqFacts
  <2>2. pp \in Proposal
    BY <2>1 DEF Proposal, Status
  <2>3. x \in EntryRec /\ x.acc = ent[a][e].acc
    BY <2>1, <2>2, EntryOps
  <2>4. ent' = [ent EXCEPT ![a][e] = x]
    BY <1>3 DEF PrepareNew
  <2> HIDE DEF e, x
  <2> QED BY <1>1, <2>1, <2>3, <2>4, StaysFrame
<1>4. ASSUME NEW a \in Acceptor, NEW m \in reqs, AcceptVotes(a, m)
      PROVE  \A b \in Acceptor, f \in Entry : Stays(b, f)
  <2>1. PICK pp \in Proposal, x \in EntryRec :
             /\ pp = [m.prop EXCEPT !.status = "ACCEPTED"]
             /\ pp.entry = m.prop.entry /\ pp.pid = m.prop.pid
             /\ pp.entry \in Entry
             /\ x.acc = pp /\ (x.prom = None \/ x.prom = ent[a][pp.entry].prom)
             /\ ent' = [ent EXCEPT ![a][pp.entry] = x]
             /\ StoreStep(a, pp.entry, x)
             /\ \/ votes' = votes
                \/ /\ votes' = [votes EXCEPT ![a] = @ \cup {Vote(pp)}]
                   /\ SaveEntry(a, pp.entry, x)
    BY <1>1, <1>4, AcceptVotesEffect
  <2>2. MayVote(ent[a][pp.entry], pp)
    BY <1>4, <2>1 DEF AcceptVotes
  <2>3. ent[a][pp.entry].acc # None => ent[a][pp.entry].acc.status = "ACCEPTED"
    BY <2>2 DEF MayVote
  <2> QED BY <1>1, <2>1, <2>3, StaysFrame
<1>5. ASSUME NEW a \in Acceptor, NEW m \in reqs, AcceptDuplicate(a, m)
      PROVE  \A b \in Acceptor, f \in Entry : Stays(b, f)
  <2> DEFINE e == m.prop.entry
             x == ClearPromised(ent[a][e])
  <2>1. e \in Entry /\ ent[a][e] \in EntryRec /\ m.prop \in Proposal
    BY <1>1, ReqFacts
  <2>2. x \in EntryRec /\ x.acc = ent[a][e].acc
    BY <2>1, EntryOps
  <2>3. ent' = [ent EXCEPT ![a][e] = x]
    BY <1>5 DEF AcceptDuplicate
  <2> HIDE DEF e, x
  <2> QED BY <1>1, <2>1, <2>2, <2>3, StaysFrame
<1>6. ASSUME NEW a \in Acceptor, NEW m \in reqs, HandleChosenReq(a, m)
      PROVE  \A b \in Acceptor, f \in Entry : Stays(b, f)
  <2>1. PICK e \in Entry, x \in EntryRec :
             /\ e = m.prop.entry
             /\ ent' = [ent EXCEPT ![a][e] = x]
             /\ SaveEntry(a, e, x)
             /\ UNCHANGED <<crashes, forgot>>
             /\ ent[a][e].acc # None
             /\ x.prom = ent[a][e].prom
             /\ x.acc \in Proposal
             /\ x.acc = [ent[a][e].acc EXCEPT !.status = "CHOSEN"]
             /\ x.acc.pid = ent[a][e].acc.pid
             /\ x.acc.status = "CHOSEN"
    BY <1>1, <1>6, HandleChosenReqEffect
  <2>2. ent[a][e].acc.status # "CHOSEN"
    BY <1>6, <2>1 DEF HandleChosenReq
  <2> QED BY <1>1, <2>1, <2>2, StaysFrame
<1>7. CASE AcceptorNext
  <2>1. PICK a \in Up : \E m \in reqs :
       \/ ent' = ent
       \/ PrepareNew(a, m)
       \/ AcceptVotes(a, m)
       \/ AcceptDuplicate(a, m)
       \/ HandleChosenReq(a, m)
    BY <1>7, SMTT(30) DEF AcceptorNext, PrepareLags, PrepareSeesVote,
       PrepareSeesPromise, AcceptLags, AcceptRefused, acceptorVars
  <2>2. a \in Acceptor
    BY NetworkAssumption
  <2> QED BY <1>2, <1>3, <1>4, <1>5, <1>6, <2>1, <2>2
<1>8. ProposerNext \/ ChosenNotify \/ UNCHANGED vars => ent' = ent
  BY DEF ProposerNext, ChosenNotify, acceptorVars, vars
<1>9. CASE AcceptorCrash
  <2>1. PICK a \in Acceptor : CrashAcceptor(a)
    BY <1>9, NetworkAssumption DEF AcceptorCrash
  <2>2. /\ \A e \in Entry : ent'[a][e] = disk[a][e]
        /\ \A b \in Acceptor : b # a => ent'[b] = ent[b]
    BY <1>1, <2>1, CrashEffect DEF IInv, BallotInv
  <2>3. \A e \in Entry : RowInv(a, e)
    BY DEF IInv, BallotInv, DiskInv
  <2> QED BY <2>2, <2>3 DEF Stays, RowInv, IsChosen
<1> QED BY <1>2, <1>7, <1>8, <1>9 DEF Next

\* Once handleChosenReq has marked an entry CHOSEN no later request replaces
\* the vote or its mark: not a larger pid, a duplicate, or a failed save; and a
\* crash brings both back from the row.
THEOREM ChosenIsFinal == Spec => ChosenStays
<1> DEFINE Final == \A a \in Acceptor, e \in Entry :
                      LET pp == ent[a][e].acc IN
                      pp # None /\ pp.status = "CHOSEN" => ent'[a][e].acc = pp
<1>1. Init => IInv
  BY InitInv
<1>2. IInv /\ [Next]_vars => IInv'
  BY NextInv
<1>3. IInv /\ [Next]_vars => [Final]_vars
  BY NextStays DEF Stays
<1> QED BY <1>1, <1>2, <1>3, PTL DEF Spec, ChosenStays

-----------------------------------------------------------------------------
(* Synod implements Consensus.  A step casts at most one vote, so that at  *)
(* most one pair is new among the chosen ones; that its entry had none     *)
(* before is the agreement of the state after the step.                    *)

\* The requests of proposers and their answers leave the votes alone.
LEMMA ProposersCastNoVote ==
    ASSUME ProposerNext \/ ChosenNotify \/ UNCHANGED vars
    PROVE  /\ votes' = votes
           /\ VoidEntries \subseteq VoidEntries'
<1>1. votes' = votes /\ forgot' = forgot
  BY DEF ProposerNext, ChosenNotify, acceptorVars, storeVars, vars
<1>2. ASSUME NEW p \in Proposer, ProposeAccept(p)
      PROVE  slaveFast \subseteq slaveFast'
  BY <1>2 DEF ProposeAccept
<1>3. ASSUME NEW p \in Proposer, NEW r, HandlePrepareRsp(p, r) \/ HandleAcceptRsp(p, r)
      PROVE  slaveFast' = slaveFast
  <2>1. HandlePrepareRsp(p, r) => slaveFast' = slaveFast
    BY DEF HandlePrepareRsp, PrepareRspFailed, PrepareRspRejected, PrepareRspAborts,
       PrepareRspAccepts, PrepareRspProbed, PrepareRspWaits
  <2>2. HandleAcceptRsp(p, r) => slaveFast' = slaveFast
    BY DEF HandleAcceptRsp, AcceptRspFailed, AcceptRspRejected, AcceptRspOther,
       AcceptRspChosen, AcceptRspWaits
  <2> QED BY <1>3, <2>1, <2>2
<1>4. ASSUME NEW p \in Proposer, NEW kind, ProposePrepare(p, kind)
      PROVE  slaveFast' = slaveFast
  BY <1>4 DEF ProposePrepare
<1>5. ASSUME NEW p \in Proposer, Timeout(p) \/ Restart(p)
      PROVE  slaveFast' = slaveFast
  BY <1>5 DEF Timeout, Restart
<1>6. ASSUME ChosenNotify PROVE slaveFast' = slaveFast
  BY <1>6 DEF ChosenNotify, OnEntryChosen
<1>7. ASSUME ProposerNext PROVE slaveFast \subseteq slaveFast'
  <2>1. PICK p \in Proposer :
          \/ \E kind \in CallKinds : ProposePrepare(p, kind)
          \/ ProposeAccept(p)
          \/ \E r \in rsps : HandlePrepareRsp(p, r) \/ HandleAcceptRsp(p, r)
          \/ Timeout(p) \/ Restart(p)
    BY <1>7 DEF ProposerNext
  <2> QED BY <1>2, <1>3, <1>4, <1>5, <2>1
<1>8. ASSUME UNCHANGED vars PROVE slaveFast' = slaveFast
  BY <1>8 DEF vars
<1>9. slaveFast \subseteq slaveFast'
  BY <1>6, <1>7, <1>8
<1> QED BY <1>1, <1>9 DEF VoidEntries

\* A handler of an acceptor adds at most one vote, its own.
LEMMA AcceptorsCastOneVote ==
    ASSUME TypeOK, AcceptorNext
    PROVE  /\ VoidEntries' = VoidEntries
           /\ \/ votes' = votes
              \/ \E a \in Acceptor : \E v : votes' = [votes EXCEPT ![a] = votes[a] \cup {v}]
<1>1. PICK a \in Up : \E m \in {n \in reqs : Delivered(a, n)} :
       \/ PrepareLags(a, m) /\ UNCHANGED proposerVars
       \/ PrepareSeesVote(a, m) /\ UNCHANGED proposerVars
       \/ PrepareSeesPromise(a, m) /\ UNCHANGED proposerVars
       \/ PrepareNew(a, m) /\ UNCHANGED proposerVars
       \/ AcceptLags(a, m) /\ UNCHANGED proposerVars
       \/ AcceptVotes(a, m) /\ UNCHANGED proposerVars
       \/ AcceptDuplicate(a, m) /\ UNCHANGED proposerVars
       \/ AcceptRefused(a, m) /\ UNCHANGED proposerVars
       \/ HandleChosenReq(a, m) /\ UNCHANGED proposerVars
  BY DEF AcceptorNext
<1>2. a \in Acceptor
  BY NetworkAssumption
<1>3. ASSUME NEW m, \/ PrepareLags(a, m) \/ PrepareSeesVote(a, m)
                    \/ PrepareSeesPromise(a, m) \/ PrepareNew(a, m)
      PROVE  votes' = votes
  BY <1>3 DEF PrepareLags, PrepareSeesVote, PrepareSeesPromise, PrepareNew, acceptorVars
<1>4. ASSUME NEW m, \/ AcceptLags(a, m) \/ AcceptDuplicate(a, m)
                    \/ AcceptRefused(a, m) \/ HandleChosenReq(a, m)
      PROVE  votes' = votes
  BY <1>4 DEF AcceptLags, AcceptDuplicate, AcceptRefused, HandleChosenReq, acceptorVars
<1>5. ASSUME NEW m, AcceptVotes(a, m)
      PROVE  \/ votes' = votes
             \/ \E v : votes' = [votes EXCEPT ![a] = votes[a] \cup {v}]
  BY <1>5 DEF AcceptVotes
<1>6. slaveFast' = slaveFast
  BY <1>1 DEF proposerVars
<1>7. VoidEntries' = VoidEntries
  BY <1>6, HandlersForgetNot DEF VoidEntries
<1> QED BY <1>1, <1>2, <1>3, <1>4, <1>5, <1>7

\* What is chosen stays chosen when a vote v is added, and only v is new.
LEMMA ChosenGrows ==
    ASSUME TypeOK, NEW a \in Acceptor, NEW v,
           votes' = [votes EXCEPT ![a] = votes[a] \cup {v}]
    PROVE  ChosenVotes \subseteq ChosenVotes' /\ ChosenVotes' \subseteq ChosenVotes \cup {v}
<1> DEFINE Voters(u) == {b \in Acceptor : u \in votes[b]}
           NewVoters(u) == {b \in Acceptor : u \in votes'[b]}
<1>1. /\ \A b \in Acceptor : votes[b] \subseteq votes'[b]
      /\ \A b \in Acceptor : votes'[b] \subseteq votes[b] \cup {v}
  BY DEF TypeOK, AcceptorTypeOK
<1>2. ASSUME NEW u \in ChosenVotes PROVE u \in ChosenVotes'
  <2>1. u \in AllVotes /\ IsMajority(Voters(u))
    BY <1>2 DEF ChosenVotes, Chosen
  <2>2. u \in AllVotes'
    BY <1>1, <2>1 DEF AllVotes
  <2>3. Voters(u) \subseteq NewVoters(u) /\ NewVoters(u) \subseteq Acceptor
    BY <1>1
  <2>4. IsFiniteSet(NewVoters(u)) /\ IsFiniteSet(Voters(u))
    BY <2>3, SynodAssumption, FS_Subset
  <2>5. Cardinality(Voters(u)) <= Cardinality(NewVoters(u))
    BY <2>3, <2>4, FS_Subset
  <2>6. /\ Cardinality(Voters(u)) \in Nat /\ Cardinality(NewVoters(u)) \in Nat
        /\ Cardinality(Acceptor) \in Nat
    BY <2>4, SynodAssumption, FS_CardinalityType
  <2> HIDE DEF Voters, NewVoters
  <2>7. IsMajority(NewVoters(u))
    BY <2>1, <2>5, <2>6 DEF IsMajority
  <2> USE DEF NewVoters
  <2> QED BY <2>2, <2>7 DEF ChosenVotes, Chosen
<1>3. ASSUME NEW u \in ChosenVotes', u # v PROVE u \in ChosenVotes
  <2>1. u \in AllVotes' /\ IsMajority(NewVoters(u))
    BY <1>3 DEF ChosenVotes, Chosen, IsMajority
  <2>2. NewVoters(u) = Voters(u)
    BY <1>1, <1>3
  <2>3. u \in AllVotes
    BY <1>1, <1>3, <2>1 DEF AllVotes
  <2> QED BY <2>1, <2>2, <2>3 DEF ChosenVotes, Chosen
<1> QED BY <1>2, <1>3

\* A step of the synod is a step of the abstract specification, or none.
LEMMA StepRefines ==
    ASSUME IInv, [Next]_vars
    PROVE  [Abstract!Next]_<<ChosenValues, VoidEntries>>
<1>1. TypeOK /\ IInv' /\ AgreementUnlessVoid'
  <2>1. TypeOK /\ IInv'
    BY NextInv DEF IInv
  <2>2. AgreementUnlessVoid'
    BY <2>1, InvAgreement, PTL
  <2> QED BY <2>1, <2>2
<1>2. ASSUME votes' = votes PROVE ChosenValues' = ChosenValues
  BY <1>2 DEF ChosenValues, ChosenVotes, Chosen, AllVotes
<1>3. CASE ProposerNext \/ ChosenNotify \/ UNCHANGED vars
  <2>1. ChosenValues' = ChosenValues
    BY <1>2, <1>3, ProposersCastNoVote
  <2>2. VoidEntries \subseteq VoidEntries'
    BY <1>3, ProposersCastNoVote
  <2> QED BY <2>1, <2>2 DEF Abstract!Next, Abstract!GiveUp
<1>4. CASE AcceptorNext
  <2>1. VoidEntries' = VoidEntries
    BY <1>1, <1>4, AcceptorsCastOneVote
  <2>2. CASE votes' = votes
    BY <1>2, <2>1, <2>2
  <2>3. CASE \E a \in Acceptor : \E v : votes' = [votes EXCEPT ![a] = votes[a] \cup {v}]
    <3>0. PICK a \in Acceptor : \E v : votes' = [votes EXCEPT ![a] = votes[a] \cup {v}]
      BY <2>3
    <3>1. PICK v : votes' = [votes EXCEPT ![a] = votes[a] \cup {v}]
      BY <3>0
    <3>2. ChosenVotes \subseteq ChosenVotes' /\ ChosenVotes' \subseteq ChosenVotes \cup {v}
      BY <1>1, <3>1, ChosenGrows
    <3> DEFINE c == <<v.entry, ValueOf(v)>>
    <3>3. CASE v \notin ChosenVotes' \/ c \in ChosenValues
      <4>1. ChosenValues' = ChosenValues
        BY <3>2, <3>3 DEF ChosenValues, ValueOf
      <4> QED BY <2>1, <4>1
    <3>4. CASE v \in ChosenVotes' /\ c \notin ChosenValues
      <4>1. ChosenValues' = ChosenValues \cup {c} /\ c \in ChosenValues' \ ChosenValues
        BY <3>2, <3>4 DEF ChosenValues, ValueOf
      <4>2. ASSUME c[1] \notin VoidEntries, NEW d \in ChosenValues, d[1] = c[1]
            PROVE  FALSE
        <5>1. PICK w \in ChosenVotes : d = <<w.entry, ValueOf(w)>>
          BY <4>2 DEF ChosenValues
        <5>2. w.entry = v.entry /\ w \in ChosenVotes'
          BY <3>2, <4>2, <5>1
        <5>3. w = v
          BY <1>1, <2>1, <3>4, <4>2, <5>2 DEF AgreementUnlessVoid
        <5> QED BY <3>4, <5>1, <5>3
      <4> QED BY <2>1, <4>1, <4>2 DEF Abstract!Next, Abstract!Choose
    <3> QED BY <3>3, <3>4
  <2> QED BY <1>1, <1>4, <2>2, <2>3, AcceptorsCastOneVote
<1>5. CASE AcceptorCrash
  <2>1. PICK a \in Acceptor : CrashAcceptor(a) /\ UNCHANGED proposerVars
    BY <1>5, NetworkAssumption DEF AcceptorCrash
  <2>2. votes' = votes /\ \A b \in Acceptor : forgot[b] \subseteq forgot'[b]
    BY <1>1, <2>1, CrashEffect DEF IInv, BallotInv
  <2>3. VoidEntries \subseteq VoidEntries'
    BY <2>1, <2>2 DEF VoidEntries, proposerVars
  <2> QED BY <1>2, <2>2, <2>3 DEF Abstract!Next, Abstract!GiveUp
<1> QED BY <1>3, <1>4, <1>5 DEF Next

\* The synod implements consensus on every entry that is not void: values are
\* chosen one at a time, at most one for an entry, and for good, whatever is
\* lost, repeated, unsaved, crashed or restarted.
THEOREM SynodImplementsConsensus == Spec => ImplementsConsensus
<1>1. Init => Abstract!Init
  BY DEF Init, AcceptorInit, ProposerInit, Abstract!Init, ChosenValues, ChosenVotes, AllVotes, VoidEntries
<1>2. Init => IInv
  BY InitInv
<1>3. IInv /\ [Next]_vars => IInv'
  BY NextInv
<1>4. IInv /\ [Next]_vars => [Abstract!Next]_<<ChosenValues, VoidEntries>>
  BY StepRefines
<1> QED BY <1>1, <1>2, <1>3, <1>4, PTL DEF Spec, ImplementsConsensus, Abstract!Spec

-----------------------------------------------------------------------------
\* Division leaves a remainder below the divisor, and only one fits.
LEMMA DivMod ==
    ASSUME NEW n \in Nat \ {0}, NEW x \in Nat
    PROVE  /\ x \div n \in Int /\ x % n \in 0 .. n - 1
           /\ x = (x \div n) * n + (x % n)
OBVIOUS

\* A remainder below the divisor is the remainder.
LEMMA ModUnique ==
    ASSUME NEW n \in Nat \ {0}, NEW x \in Nat, NEW q \in Int, NEW s \in 0 .. n - 1,
           x = q * n + s
    PROVE  x % n = s
OBVIOUS

\* Whole steps lead from one id of a proposer to another.
LEMMA OwnIdStep ==
    ASSUME NEW p \in Proposer, NEW id \in Nat \ {0}, OwnId(p, id), NEW k \in Nat
    PROVE  OwnId(p, id + k * NumProposer)
<1> DEFINE N == NumProposer
           x == id - 1
           y == id + k * N - 1
           q == x \div N
<1>1. N \in Nat \ {0} /\ x \in Nat /\ p \in 0 .. N - 1 /\ x % N = p
  BY SynodAssumption DEF Proposer, OwnId
<1>2. q \in Int /\ x = q * N + p
  BY <1>1, DivMod
<1>3. k * N \in Nat
  BY <1>1
<1>4. y \in Nat /\ y = x + k * N
  BY <1>3
<1> HIDE DEF N, x, y, q
<1>5. y = (q + k) * N + p /\ q + k \in Int
  BY <1>1, <1>2, <1>4
<1>6. y % N = p
  BY <1>1, <1>4, <1>5, ModUnique
<1> QED BY <1>1, <1>4, <1>6 DEF OwnId, y, N

\* The generators stay in their progressions.
LEMMA OwnIdOps ==
    ASSUME NEW p \in Proposer, NEW id \in Nat \ {0}, OwnId(p, id), NEW v \in Nat
    PROVE  /\ OwnId(p, NextId(id, NumProposer))
           /\ OwnId(p, SetGreaterThan(id, NumProposer, v))
           /\ OwnId(p, p + 1)
<1>1. NumProposer \in Nat \ {0} /\ p \in 0 .. NumProposer - 1
  BY SynodAssumption DEF Proposer
<1>2. OwnId(p, id + 1 * NumProposer)
  BY OwnIdStep
<1>3. OwnId(p, NextId(id, NumProposer))
  BY <1>1, <1>2 DEF NextId
<1>4. OwnId(p, p + 1)
  <2>1. p = 0 * NumProposer + p /\ p \in Nat
    BY <1>1
  <2>2. p % NumProposer = p
    BY <1>1, <2>1, ModUnique
  <2>3. p + 1 - 1 = p
    BY <1>1
  <2> QED BY <1>1, <2>2, <2>3 DEF OwnId
<1>5. OwnId(p, SetGreaterThan(id, NumProposer, v))
  <2>1. CASE v <= id
    BY <2>1 DEF SetGreaterThan
  <2>2. CASE ~(v <= id)
    <3> DEFINE k == (v - id + NumProposer - 1) \div NumProposer
    <3>1. v - id + NumProposer - 1 \in Nat
      BY <1>1, <2>2
    <3>2. k \in Nat
      BY <1>1, <3>1
    <3>3. SetGreaterThan(id, NumProposer, v) = id + k * NumProposer
      BY <2>2 DEF SetGreaterThan
    <3> HIDE DEF k
    <3> QED BY <3>2, <3>3, OwnIdStep
  <2> QED BY <2>1, <2>2
<1> QED BY <1>3, <1>4, <1>5

-----------------------------------------------------------------------------
\* A vote that a majority has cast is one of the chosen ones.
LEMMA MajorityChooses ==
    ASSUME NEW Q \in SUBSET Acceptor, IsMajority(Q), NEW v,
           \A a \in Q : v \in votes[a]
    PROVE  Chosen(v) /\ v \in ChosenVotes
<1> DEFINE R == {a \in Acceptor : v \in votes[a]}
<1>1. Q \subseteq R /\ R \subseteq Acceptor
  OBVIOUS
<1>2. IsFiniteSet(R) /\ IsFiniteSet(Q) /\ IsFiniteSet(Acceptor)
  BY <1>1, SynodAssumption, FS_Subset
<1>3. Cardinality(Q) <= Cardinality(R)
  BY <1>1, <1>2, FS_Subset
<1>4. /\ Cardinality(Q) \in Nat /\ Cardinality(R) \in Nat
      /\ Cardinality(Acceptor) \in Nat
  BY <1>2, FS_CardinalityType
<1>5. Q # {}
  <2>1. Cardinality(Q) # 0
    BY <1>4 DEF IsMajority
  <2> QED BY <2>1, FS_EmptySet
<1>6. v \in AllVotes
  BY <1>5 DEF AllVotes
<1>7. IsMajority(R)
  <2> HIDE DEF R
  <2> QED BY <1>3, <1>4 DEF IsMajority
<1> QED BY <1>6, <1>7 DEF Chosen, ChosenVotes

\* A chosen vote has its majority, and is one of ChosenVotes.
LEMMA ChosenIsMember ==
    ASSUME NEW v
    PROVE  Chosen(v) <=> v \in ChosenVotes
<1>1. Chosen(v) => v \in ChosenVotes
  <2> SUFFICES ASSUME Chosen(v) PROVE v \in ChosenVotes
    OBVIOUS
  <2> DEFINE Q == {a \in Acceptor : v \in votes[a]}
  <2>1. IsMajority(Q) /\ Q \in SUBSET Acceptor /\ \A a \in Q : v \in votes[a]
    BY DEF Chosen
  <2> HIDE DEF Q
  <2> QED BY <2>1, MajorityChooses
<1> QED BY <1>1 DEF ChosenVotes

\* Nothing becomes chosen, or stops being so, without a vote.
LEMMA ChosenSame ==
    ASSUME votes' = votes
    PROVE  ChosenVotes' = ChosenVotes /\ \A v : Chosen(v)' <=> Chosen(v)
BY DEF ChosenVotes, Chosen, AllVotes

\* Two proposals with one vote name the same ballot and value.
LEMMA VoteFields ==
    ASSUME NEW x, NEW y, Vote(x) = Vote(y)
    PROVE  /\ x.entry = y.entry /\ x.pid = y.pid /\ x.vid = y.vid
           /\ x.proposer = y.proposer /\ x.val = y.val
<1>1. /\ Vote(x).entry = x.entry /\ Vote(x).pid = x.pid /\ Vote(x).vid = x.vid
      /\ Vote(x).proposer = x.proposer /\ Vote(x).val = x.val
  BY DEF Vote
<1>2. /\ Vote(y).entry = y.entry /\ Vote(y).pid = y.pid /\ Vote(y).vid = y.vid
      /\ Vote(y).proposer = y.proposer /\ Vote(y).val = y.val
  BY DEF Vote
<1> QED BY <1>1, <1>2

\* Neither the status nor the last chosen entry of a proposal is part of its
\* vote.
LEMMA VoteOps ==
    ASSUME NEW pp \in Proposal, NEW s \in Status, NEW n \in Nat, NEW src \in Proposal
    PROVE  /\ Vote([pp EXCEPT !.status = s]) = Vote(pp)
           /\ Vote([pp EXCEPT !.status = s, !.last = n]) = Vote(pp)
           /\ Vote(CopyProposalMeta(pp, src)) = Vote(pp)
           /\ [pp EXCEPT !.status = s, !.last = n].last = n
           /\ SameBallot([pp EXCEPT !.val = n], pp)
           /\ SameBallot([pp EXCEPT !.val = n, !.status = s], pp)
           /\ SameBallot([pp EXCEPT !.status = s, !.last = n], pp)
BY DEF Vote, Proposal, CopyProposalMeta, SameBallot

-----------------------------------------------------------------------------
\* The call in progress at p goes on in state st: same run, same value, no
\* answer yet, and only acceptors that voted for it are counted.
Goes(p, st) ==
    /\ st \in InstanceState /\ InstShape(st)
    /\ st.calls = inst[p].calls /\ st.vig = inst[p].vig /\ st.inc = inst[p].inc
    /\ st.ret = inst[p].ret
    /\ inst[p].req # None /\ st.req \in Proposal
    /\ Vote(st.req) = Vote(inst[p].req)
    /\ OwnId(p, st.ig)
    /\ st.phase = "ACCEPTING" => \A a \in st.valid : Vote(st.req) \in votes[a]
    /\ st.lastEntry = inst[p].lastEntry /\ st.lastFrom = inst[p].lastFrom

\* The state st that p goes into keeps the ids of all requests in order.
After(p, st) ==
    /\ st \in InstanceState /\ InstIds(p, st)
    /\ \A m \in reqs : m.type = "ACCEPT_REQ" /\ m.src = p => VidMatches(m, st)

\* A call that goes on keeps the ids in order ...
LEMMA GoesAfter ==
    ASSUME TypeOK, IdsInv, NEW p \in Proposer, NEW st, Goes(p, st)
    PROVE  After(p, st)
<1>1. InstIds(p, inst[p]) /\ st.req # None
  BY NoneAssumption DEF IdsInv, Goes
<1>2. /\ st.req.entry = inst[p].req.entry /\ st.req.pid = inst[p].req.pid
      /\ st.req.vid = inst[p].req.vid /\ st.req.proposer = inst[p].req.proposer
  BY VoteFields DEF Goes
<1>3. InstIds(p, st)
  BY <1>1, <1>2 DEF Goes, InstIds
<1>4. ASSUME NEW m \in reqs, m.type = "ACCEPT_REQ", m.src = p PROVE VidMatches(m, st)
  <2>1. VidMatches(m, inst[p])
    BY <1>4 DEF IdsInv
  <2> QED BY <1>2, <2>1 DEF VidMatches, Goes
<1> QED BY <1>3, <1>4 DEF After, Goes

\* ... and so does one that ends with an answer.
LEMMA FinishAfter ==
    ASSUME TypeOK, IdsInv, NEW p \in Proposer, NEW st \in InstanceState,
           After(p, st), st.req # None, ~st.notified, NEW code \in ErrCode
    PROVE  /\ After(p, Finish(st, code))
           /\ Finish(st, code).lastEntry = st.lastEntry
           /\ Finish(st, code).lastFrom = st.lastFrom
<1> DEFINE f == Finish(st, code)
<1>1. f \in InstanceState
  BY FinishType
<1>2. /\ f.lastEntry = st.lastEntry /\ f.lastFrom = st.lastFrom /\ f.ig = st.ig
      /\ f.vig = st.vig /\ f.inc = st.inc /\ f.calls = st.calls /\ f.req = None
      /\ f.ret = Append(st.ret, code)
  BY DEF Finish, Answer, InstanceState
<1>3. st.ret \in Seq(ErrCode)
  BY DEF InstanceState
<1>4. Len(Append(st.ret, code)) = Len(st.ret) + 1
  BY <1>3
<1>5. st.calls > 0 /\ Len(st.ret) = 0
  BY DEF After, InstIds
<1> HIDE DEF f
<1>6. InstIds(p, f)
  BY <1>2, <1>4, <1>5 DEF After, InstIds
<1>7. \A m \in reqs : m.type = "ACCEPT_REQ" /\ m.src = p => VidMatches(m, f)
  BY <1>2 DEF After, VidMatches
<1> QED BY <1>1, <1>2, <1>6, <1>7 DEF After, f

\* The same, when the last response decides which of the two happens.
LEMMA FinishIfDoneAfter ==
    ASSUME TypeOK, IdsInv, NEW p \in Proposer, NEW st, Goes(p, st), NEW code \in ErrCode
    PROVE  /\ After(p, FinishIfDone(st, code))
           /\ FinishIfDone(st, code).lastEntry = inst[p].lastEntry
           /\ FinishIfDone(st, code).lastFrom = inst[p].lastFrom
<1>1. /\ st \in InstanceState /\ After(p, st) /\ st.req # None /\ ~st.notified
      /\ st.lastEntry = inst[p].lastEntry /\ st.lastFrom = inst[p].lastFrom
  BY GoesAfter, NoneAssumption DEF Goes, InstShape
<1> QED BY <1>1, FinishAfter DEF FinishIfDone

-----------------------------------------------------------------------------
\* Recording a response lets the call go on.
LEMMA HeardGoes ==
    ASSUME TypeOK, Shape, IdsInv, NEW p \in Proposer, NEW r \in rsps, inst[p].req # None
    PROVE  Goes(p, Heard(inst[p], r))
<1> DEFINE st == Heard(inst[p], r)
<1>1. /\ inst[p] \in InstanceState /\ InstIds(p, inst[p]) /\ InstShape(inst[p])
      /\ inst[p].req \in Proposal /\ r \in Response
  BY RspFacts DEF IdsInv
<1>2. st \in InstanceState /\ InstShape(st)
  BY <1>1, HeardType
<1>3. /\ st.calls = inst[p].calls /\ st.vig = inst[p].vig /\ st.inc = inst[p].inc
      /\ st.ret = inst[p].ret /\ st.req = inst[p].req /\ st.ig = inst[p].ig
      /\ st.phase = inst[p].phase /\ st.valid = inst[p].valid
      /\ st.lastEntry = inst[p].lastEntry /\ st.lastFrom = inst[p].lastFrom
  BY <1>1 DEF Heard, InstanceState
<1> HIDE DEF st
<1>4. Goes(p, st)
  BY <1>1, <1>2, <1>3 DEF Goes, InstIds
<1> QED BY <1>4 DEF st

\* So does noting its term ...
LEMMA NotedGoes ==
    ASSUME TypeOK, Shape, IdsInv, NEW p \in Proposer, NEW r \in rsps, inst[p].req # None
    PROVE  Goes(p, Noted(p, r))
<1> DEFINE st == Heard(inst[p], r)
           q == CopyProposalMeta(st.req, r.prop)
           n == [st EXCEPT !.req = q]
<1>1. Goes(p, st)
  BY HeardGoes
<1>2. r.prop \in Proposal
  BY RspFacts
<1>3. st \in InstanceState /\ st.req \in Proposal
  BY <1>1 DEF Goes
<1>4. q \in Proposal /\ Vote(q) = Vote(st.req)
  BY <1>2, <1>3, CopyType, VoteOps, ZenonT(30) DEF Status
<1>5. n = Noted(p, r)
  BY DEF Noted
<1>6. n \in InstanceState /\ InstShape(n)
  BY <1>5, NotedType
<1> HIDE DEF st, q
<1>7. /\ n.calls = st.calls /\ n.vig = st.vig /\ n.inc = st.inc
      /\ n.ret = st.ret /\ n.req = q /\ n.ig = st.ig
      /\ n.phase = st.phase /\ n.valid = st.valid
      /\ n.lastEntry = st.lastEntry /\ n.lastFrom = st.lastFrom
  BY <1>3 DEF InstanceState
<1> HIDE DEF n
<1>8. Goes(p, n)
  BY <1>1, <1>4, <1>6, <1>7 DEF Goes
<1> QED BY <1>5, <1>8

\* ... and moving the id generator.
LEMMA UpdatePrepareIdGoes ==
    ASSUME NEW p \in Proposer, NEW st, Goes(p, st), NEW pid \in Nat
    PROVE  Goes(p, UpdatePrepareId(st, pid))
<1> DEFINE id == SetGreaterThan(st.ig, NumProposer, pid)
           n == [st EXCEPT !.ig = id]
<1>1. /\ st \in InstanceState /\ st.ig \in Nat \ {0} /\ OwnId(p, st.ig) /\ InstShape(st)
  BY DEF Goes, InstanceState
<1>2. OwnId(p, id)
  BY <1>1, OwnIdOps
<1>3. n = UpdatePrepareId(st, pid)
  BY DEF UpdatePrepareId
<1>4. n \in InstanceState /\ InstShape(n)
  BY <1>1, <1>3, UpdatePrepareIdType
<1> HIDE DEF id
<1>5. /\ n.calls = st.calls /\ n.vig = st.vig /\ n.inc = st.inc
      /\ n.ret = st.ret /\ n.req = st.req /\ n.ig = id
      /\ n.phase = st.phase /\ n.valid = st.valid
      /\ n.lastEntry = st.lastEntry /\ n.lastFrom = st.lastFrom
  BY <1>1 DEF InstanceState
<1> HIDE DEF n
<1>6. Goes(p, n)
  BY <1>2, <1>4, <1>5 DEF Goes
<1> QED BY <1>3, <1>6

\* A response counted in the prepare phase lets the call go on.
LEMMA CountedGoes ==
    ASSUME TypeOK, Shape, IdsInv, NEW p \in Proposer, NEW r \in rsps, UsableRsp(p, r)
    PROVE  Goes(p, Counted(p, r))
<1> DEFINE st == Noted(p, r)
           v == st.valid \cup {r.from}
           n == [st EXCEPT !.valid = v]
<1>1. inst[p].req # None
  BY DEF UsableRsp, PrepareRspCounts, PrepareRsp, Expected
<1>2. Goes(p, st)
  BY <1>1, NotedGoes
<1>3. /\ Counted(p, r) = n /\ n \in InstanceState /\ InstShape(n)
      /\ n.phase = "PREPARING"
  BY CountedFacts
<1> HIDE DEF st, v
<1>4. st \in InstanceState
  BY <1>2 DEF Goes
<1>5. /\ n.calls = st.calls /\ n.vig = st.vig /\ n.inc = st.inc
      /\ n.ret = st.ret /\ n.req = st.req /\ n.ig = st.ig
      /\ n.lastEntry = st.lastEntry /\ n.lastFrom = st.lastFrom
  BY <1>4 DEF InstanceState
<1> HIDE DEF n
<1>6. Goes(p, n)
  BY <1>2, <1>3, <1>5 DEF Goes
<1> QED BY <1>3, <1>6

\* An accepted response with the pid and the value id of the call in progress
\* reports a vote for its very value: handleAcceptRsp compares no more, but
\* within one run a value id belongs to one call.
LEMMA CountedVote ==
    ASSUME TypeOK, Shape, IdsInv, NEW p \in Proposer, NEW r \in rsps, AcceptRspCounts(p, r)
    PROVE  /\ Vote(inst[p].req) \in votes[r.from]
           /\ SameBallot(r.prop, inst[p].req)
<1>1. /\ inst[p].req # None /\ r.req.src = p /\ r.req.inc = inst[p].inc
      /\ r.type = "ACCEPT_RSP" /\ Accepted(r) /\ r.prop.vid = inst[p].req.vid
  BY DEF AcceptRspCounts, AcceptRsp, Expected
<1>2. r.req \in reqs /\ RspIds(r)
  BY RspFacts DEF RspShape, IdsInv
<1>3. /\ r.req.type = "ACCEPT_REQ" /\ Vote(r.req.prop) \in votes[r.from]
      /\ SameBallot(r.prop, r.req.prop)
  BY <1>1, <1>2 DEF RspIds
<1>4. VidMatches(r.req, inst[p])
  BY <1>1, <1>2, <1>3 DEF IdsInv
<1>5. Vote(r.req.prop) = Vote(inst[p].req)
  BY <1>1, <1>3, <1>4 DEF VidMatches, SameBallot
<1> QED BY <1>3, <1>5, VoteFields DEF SameBallot

\* A response counted in the accept phase lets the call go on.
LEMMA CountedAcceptGoes ==
    ASSUME TypeOK, Shape, IdsInv, NEW p \in Proposer, NEW r \in rsps, AcceptRspCounts(p, r)
    PROVE  Goes(p, CountedAccept(p, r))
<1> DEFINE st == Noted(p, r)
           v == st.valid \cup {r.from}
           n == [st EXCEPT !.valid = v]
<1>1. inst[p].req # None
  BY DEF AcceptRspCounts, AcceptRsp, Expected
<1>2. Goes(p, st)
  BY <1>1, NotedGoes
<1>3. n = CountedAccept(p, r)
  BY DEF CountedAccept
<1>4. n \in InstanceState /\ InstShape(n) /\ n.phase = "ACCEPTING"
  BY <1>3, CountedAcceptType
<1>5. Vote(inst[p].req) \in votes[r.from]
  BY CountedVote
<1> HIDE DEF st
<1>6. st \in InstanceState
  BY <1>2 DEF Goes
<1>7. /\ n.calls = st.calls /\ n.vig = st.vig /\ n.inc = st.inc
      /\ n.ret = st.ret /\ n.req = st.req /\ n.ig = st.ig
      /\ n.phase = st.phase /\ n.valid = v
      /\ n.lastEntry = st.lastEntry /\ n.lastFrom = st.lastFrom
  BY <1>6 DEF InstanceState
<1> HIDE DEF n
<1>8. Goes(p, n)
  BY <1>2, <1>4, <1>5, <1>7 DEF Goes, v
<1> QED BY <1>3, <1>8

-----------------------------------------------------------------------------
\* What a step of a proposer has to show for the ids.
LEMMA IdsFrame ==
    ASSUME TypeOK, IdsInv, NEW p \in Proposer, NEW st, After(p, st),
           inst' = [inst EXCEPT ![p] = st],
           UNCHANGED acceptorVars, UNCHANGED rsps, reqs \subseteq reqs',
           \A m \in reqs' : m \notin reqs =>
              /\ ReqIds(m)
              /\ m.type = "ACCEPT_REQ" => m.src = p /\ VidMatches(m, st)
    PROVE  IdsInv'
<1>1. /\ inst'[p] = st
      /\ \A q \in Proposer : q # p => inst'[q] = inst[q]
  BY DEF TypeOK, ProposerTypeOK
<1>2. ent' = ent /\ disk' = disk /\ votes' = votes
  BY DEF acceptorVars, storeVars
<1>3. ChosenVotes' = ChosenVotes
  BY <1>2, ChosenSame
<1>4. ASSUME NEW q \in Proposer PROVE InstIds(q, inst[q])'
  <2>1. InstIds(q, inst'[q])
    BY <1>1 DEF IdsInv, After
  <2> QED BY <1>2, <2>1 DEF InstIds
<1>5. ASSUME NEW m \in reqs' PROVE ReqIds(m)'
  <2>1. ReqIds(m)
    BY DEF IdsInv
  <2> QED BY <1>3, <2>1 DEF ReqIds
<1>6. ASSUME NEW m \in reqs', m.type = "ACCEPT_REQ" PROVE VidMatches(m, inst'[m.src])
  <2>1. CASE m.src = p
    BY <1>1, <1>6, <2>1 DEF After
  <2>2. CASE m.src # p
    <3>1. m \in reqs /\ m.src \in Proposer
      BY <1>6, <2>2 DEF TypeOK, NetTypeOK, Request
    <3> QED BY <1>1, <1>6, <2>2, <3>1 DEF IdsInv
  <2> QED BY <2>1, <2>2
<1>7. \A r \in rsps' : RspIds(r)'
  BY <1>2 DEF IdsInv, RspIds, Accepted
<1>8. ASSUME NEW v, Asked(v) PROVE Asked(v)'
  BY <1>8 DEF Asked
<1>9. ASSUME NEW a \in Acceptor, NEW e \in Entry 
      PROVE  EntIds(ent[a][e], e)' /\ EntIds(disk[a][e], e)'
  <2>1. EntIds(ent[a][e], e) /\ EntIds(disk[a][e], e)
    BY DEF IdsInv
  <2> QED BY <1>2, <1>8, <2>1 DEF EntIds
<1>10. ASSUME NEW a \in Acceptor, NEW v \in votes[a] PROVE Asked(v)'
  BY <1>8 DEF IdsInv
<1> QED BY <1>2, <1>4, <1>5, <1>6, <1>7, <1>9, <1>10 DEF IdsInv, VidMatches

\* No one is told anything new of what is chosen.
Untold ==
    /\ UNCHANGED acceptorVars /\ UNCHANGED reqs
    /\ \A p \in Proposer : /\ inst'[p].lastEntry = inst[p].lastEntry
                           /\ inst'[p].lastFrom = inst[p].lastFrom

\* Most steps of a proposer send nothing and learn nothing.
LEMMA QuietIds ==
    ASSUME TypeOK, IdsInv, NEW p \in Proposer, NEW st, After(p, st),
           st.lastEntry = inst[p].lastEntry, st.lastFrom = inst[p].lastFrom,
           inst' = [inst EXCEPT ![p] = st],
           UNCHANGED acceptorVars, UNCHANGED <<reqs, rsps, slaveFast>>
    PROVE  IdsInv' /\ Untold
<1>1. IdsInv'
  BY IdsFrame
<1>2. \A q \in Proposer : inst'[q] = IF q = p THEN st ELSE inst[q]
  BY DEF TypeOK, ProposerTypeOK
<1> QED BY <1>1, <1>2 DEF Untold

\* PrepareRspFailed only records the response.
LEMMA PrepareRspFailedIds ==
    ASSUME TypeOK, Shape, IdsInv, NEW p \in Proposer, NEW r \in rsps,
           PrepareRspFailed(p, r), UNCHANGED acceptorVars
    PROVE  IdsInv' /\ Untold
<1> DEFINE st == FinishIfDone(Heard(inst[p], r), "PREPARE_NOT_QUORUM")
<1>1. inst[p].req # None
  BY DEF PrepareRspFailed, PrepareRsp, Expected
<1>2. /\ After(p, st) /\ st.lastEntry = inst[p].lastEntry
      /\ st.lastFrom = inst[p].lastFrom
  BY <1>1, HeardGoes, FinishIfDoneAfter DEF ErrCode
<1>3. inst' = [inst EXCEPT ![p] = st] /\ UNCHANGED <<reqs, rsps, slaveFast>>
  BY DEF PrepareRspFailed
<1> HIDE DEF st
<1> QED BY <1>2, <1>3, QuietIds

\* PrepareRspRejected also moves the id generator, within its progression.
LEMMA PrepareRspRejectedIds ==
    ASSUME TypeOK, Shape, IdsInv, NEW p \in Proposer, NEW r \in rsps,
           PrepareRspRejected(p, r), UNCHANGED acceptorVars
    PROVE  IdsInv' /\ Untold
<1> DEFINE s1 == UpdatePrepareId(Noted(p, r), r.prop.pid)
           st == FinishIfDone(s1, "PREPARE_NOT_QUORUM")
<1>1. inst[p].req # None /\ r.prop.pid \in Nat
  BY RspFacts DEF PrepareRspRejected, PrepareRsp, Expected
<1>2. Goes(p, s1)
  BY <1>1, NotedGoes, UpdatePrepareIdGoes
<1>3. inst' = [inst EXCEPT ![p] = st] /\ UNCHANGED <<reqs, rsps, slaveFast>>
  BY DEF PrepareRspRejected
<1> HIDE DEF s1
<1>4. /\ After(p, st) /\ st.lastEntry = inst[p].lastEntry
      /\ st.lastFrom = inst[p].lastFrom
  BY <1>2, FinishIfDoneAfter DEF ErrCode
<1> HIDE DEF st
<1> QED BY <1>3, <1>4, QuietIds

\* A state that differs in fields no id depends on.
LEMMA AfterSame ==
    ASSUME NEW p \in Proposer, NEW s1, NEW st \in InstanceState, After(p, s1),
           st.calls = s1.calls, st.vig = s1.vig, st.inc = s1.inc,
           st.ret = s1.ret, st.ig = s1.ig, s1.req = None, st.req = None
    PROVE  After(p, st)
<1>1. InstIds(p, st)
  BY DEF After, InstIds
<1>2. \A m \in reqs : m.type = "ACCEPT_REQ" /\ m.src = p => VidMatches(m, st)
  BY DEF After, VidMatches
<1> QED BY <1>1, <1>2 DEF After

\* A call that ends without having gone on first: an abort, or the timer.
LEMMA EndsAfter ==
    ASSUME TypeOK, Shape, IdsInv, NEW p \in Proposer, inst[p].req # None,
           NEW code \in ErrCode
    PROVE  /\ Finish(inst[p], code) \in InstanceState
           /\ After(p, Finish(inst[p], code))
           /\ Finish(inst[p], code).req = None
           /\ Finish(inst[p], code).lastEntry = inst[p].lastEntry
           /\ Finish(inst[p], code).lastFrom = inst[p].lastFrom
<1>1. inst[p] \in InstanceState /\ ~inst[p].notified
  BY DEF TypeOK, ProposerTypeOK, Shape, InstShape
<1>2. After(p, inst[p])
  BY <1>1 DEF After, IdsInv
<1>3. Finish(inst[p], code).req = None
  BY <1>1 DEF Finish, Answer, InstanceState
<1> QED BY <1>1, <1>2, <1>3, FinishAfter, FinishType

\* PrepareRspAborts ends the call.
LEMMA PrepareRspAbortsIds ==
    ASSUME TypeOK, Shape, IdsInv, NEW p \in Proposer, NEW r \in rsps,
           PrepareRspAborts(p, r), UNCHANGED acceptorVars
    PROVE  IdsInv' /\ Untold
<1> DEFINE s1 == Finish(inst[p], "CRASHED")
           st == [s1 EXCEPT !.phase = "ABORTED"]
<1>1. inst[p].req # None
  BY DEF PrepareRspAborts, PrepareRspCounts, PrepareRsp, Expected
<1>2. /\ s1 \in InstanceState /\ After(p, s1) /\ s1.req = None
      /\ s1.lastEntry = inst[p].lastEntry /\ s1.lastFrom = inst[p].lastFrom
  BY <1>1, EndsAfter DEF ErrCode
<1>3. inst' = [inst EXCEPT ![p] = st] /\ UNCHANGED <<reqs, rsps, slaveFast>>
  BY DEF PrepareRspAborts
<1> HIDE DEF s1
<1>4. /\ st \in InstanceState /\ st.calls = s1.calls /\ st.vig = s1.vig
      /\ st.inc = s1.inc /\ st.ret = s1.ret /\ st.ig = s1.ig /\ st.req = s1.req
      /\ st.lastEntry = s1.lastEntry /\ st.lastFrom = s1.lastFrom
  BY <1>2 DEF InstanceState
<1> HIDE DEF st
<1>5. After(p, st)
  BY <1>2, <1>4, AfterSame
<1> QED BY <1>2, <1>3, <1>4, <1>5, QuietIds

\* Timeout ends the call.
LEMMA TimeoutIds ==
    ASSUME TypeOK, Shape, IdsInv, NEW p \in Proposer, Timeout(p), UNCHANGED acceptorVars
    PROVE  IdsInv' /\ Untold
<1> DEFINE s1 == Finish(inst[p], "TIMEOUT")
           st == [s1 EXCEPT !.lastv = None]
<1>1. inst[p].req # None
  BY DEF Timeout
<1>2. /\ s1 \in InstanceState /\ After(p, s1) /\ s1.req = None
      /\ s1.lastEntry = inst[p].lastEntry /\ s1.lastFrom = inst[p].lastFrom
  BY <1>1, EndsAfter DEF ErrCode
<1>3. inst' = [inst EXCEPT ![p] = st] /\ UNCHANGED <<reqs, rsps, slaveFast>>
  BY DEF Timeout
<1> HIDE DEF s1
<1>4. /\ st \in InstanceState /\ st.calls = s1.calls /\ st.vig = s1.vig
      /\ st.inc = s1.inc /\ st.ret = s1.ret /\ st.ig = s1.ig /\ st.req = s1.req
      /\ st.lastEntry = s1.lastEntry /\ st.lastFrom = s1.lastFrom
  BY <1>2 DEF InstanceState
<1> HIDE DEF st
<1>5. After(p, st)
  BY <1>2, <1>4, AfterSame
<1> QED BY <1>2, <1>3, <1>4, <1>5, QuietIds

\* PrepareRspProbed ends the call.
LEMMA PrepareRspProbedIds ==
    ASSUME TypeOK, Shape, IdsInv, NEW p \in Proposer, NEW r \in rsps,
           PrepareRspProbed(p, r), UNCHANGED acceptorVars
    PROVE  IdsInv' /\ Untold
<1> DEFINE s1 == Counted(p, r)
           st == Finish(s1, "OK")
<1>1. Goes(p, s1)
  BY CountedGoes DEF PrepareRspProbed
<1>2. inst' = [inst EXCEPT ![p] = st] /\ UNCHANGED <<reqs, rsps, slaveFast>>
  BY DEF PrepareRspProbed
<1> HIDE DEF s1
<1>3. /\ s1 \in InstanceState /\ After(p, s1) /\ s1.req # None /\ ~s1.notified
      /\ s1.lastEntry = inst[p].lastEntry /\ s1.lastFrom = inst[p].lastFrom
  BY <1>1, GoesAfter, NoneAssumption DEF Goes, InstShape
<1>4. /\ After(p, st) /\ st.lastEntry = inst[p].lastEntry
      /\ st.lastFrom = inst[p].lastFrom
  BY <1>3, FinishAfter DEF ErrCode
<1> HIDE DEF st
<1> QED BY <1>2, <1>4, QuietIds

\* PrepareRspWaits counts the response.
LEMMA PrepareRspWaitsIds ==
    ASSUME TypeOK, Shape, IdsInv, NEW p \in Proposer, NEW r \in rsps,
           PrepareRspWaits(p, r), UNCHANGED acceptorVars
    PROVE  IdsInv' /\ Untold
<1> DEFINE st == FinishIfDone(Counted(p, r), "OK")
<1>1. /\ After(p, st) /\ st.lastEntry = inst[p].lastEntry
      /\ st.lastFrom = inst[p].lastFrom
  BY CountedGoes, FinishIfDoneAfter DEF PrepareRspWaits, ErrCode
<1>2. inst' = [inst EXCEPT ![p] = st] /\ UNCHANGED <<reqs, rsps, slaveFast>>
  BY DEF PrepareRspWaits
<1> HIDE DEF st
<1> QED BY <1>1, <1>2, QuietIds

\* AcceptRspFailed only records the response.
LEMMA AcceptRspFailedIds ==
    ASSUME TypeOK, Shape, IdsInv, NEW p \in Proposer, NEW r \in rsps,
           AcceptRspFailed(p, r), UNCHANGED acceptorVars
    PROVE  IdsInv' /\ Untold
<1> DEFINE code == IF r.err # "OK" THEN r.err ELSE "PEER_ACCEPT_FAIL"
           st == FinishIfDone(Heard(inst[p], r), code)
<1>1. code \in ErrCode
  BY RspFacts DEF ErrCode
<1>2. inst[p].req # None
  BY DEF AcceptRspFailed, AcceptRsp, Expected
<1>3. inst' = [inst EXCEPT ![p] = st] /\ UNCHANGED <<reqs, rsps, slaveFast>>
  BY DEF AcceptRspFailed
<1> HIDE DEF code
<1>4. /\ After(p, st) /\ st.lastEntry = inst[p].lastEntry
      /\ st.lastFrom = inst[p].lastFrom
  BY <1>1, <1>2, HeardGoes, FinishIfDoneAfter
<1> HIDE DEF st
<1> QED BY <1>3, <1>4, QuietIds

\* AcceptRspRejected also moves the id generator, within its progression.
LEMMA AcceptRspRejectedIds ==
    ASSUME TypeOK, Shape, IdsInv, NEW p \in Proposer, NEW r \in rsps,
           AcceptRspRejected(p, r), UNCHANGED acceptorVars
    PROVE  IdsInv' /\ Untold
<1> DEFINE s1 == UpdatePrepareId(Noted(p, r), r.prop.pid)
           st == FinishIfDone(s1, "PEER_ACCEPT_REJECTED")
<1>1. inst[p].req # None /\ r.prop.pid \in Nat
  BY RspFacts DEF AcceptRspRejected, AcceptRsp, Expected
<1>2. Goes(p, s1)
  BY <1>1, NotedGoes, UpdatePrepareIdGoes
<1>3. inst' = [inst EXCEPT ![p] = st] /\ UNCHANGED <<reqs, rsps, slaveFast>>
  BY DEF AcceptRspRejected
<1> HIDE DEF s1
<1>4. /\ After(p, st) /\ st.lastEntry = inst[p].lastEntry
      /\ st.lastFrom = inst[p].lastFrom
  BY <1>2, FinishIfDoneAfter DEF ErrCode
<1> HIDE DEF st
<1> QED BY <1>3, <1>4, QuietIds

\* AcceptRspOther only records the response.
LEMMA AcceptRspOtherIds ==
    ASSUME TypeOK, Shape, IdsInv, NEW p \in Proposer, NEW r \in rsps,
           AcceptRspOther(p, r), UNCHANGED acceptorVars
    PROVE  IdsInv' /\ Untold
<1> DEFINE st == FinishIfDone(Noted(p, r), "PEER_ACCEPT_OTHER_VALUE")
<1>1. inst[p].req # None
  BY DEF AcceptRspOther, AcceptRsp, Expected
<1>2. /\ After(p, st) /\ st.lastEntry = inst[p].lastEntry
      /\ st.lastFrom = inst[p].lastFrom
  BY <1>1, NotedGoes, FinishIfDoneAfter DEF ErrCode
<1>3. inst' = [inst EXCEPT ![p] = st] /\ UNCHANGED <<reqs, rsps, slaveFast>>
  BY DEF AcceptRspOther
<1> HIDE DEF st
<1> QED BY <1>2, <1>3, QuietIds

\* AcceptRspWaits counts the response.
LEMMA AcceptRspWaitsIds ==
    ASSUME TypeOK, Shape, IdsInv, NEW p \in Proposer, NEW r \in rsps,
           AcceptRspWaits(p, r), UNCHANGED acceptorVars
    PROVE  IdsInv' /\ Untold
<1> DEFINE st == FinishIfDone(CountedAccept(p, r), "OK")
<1>1. /\ After(p, st) /\ st.lastEntry = inst[p].lastEntry
      /\ st.lastFrom = inst[p].lastFrom
  BY CountedAcceptGoes, FinishIfDoneAfter DEF AcceptRspWaits, ErrCode
<1>2. inst' = [inst EXCEPT ![p] = st] /\ UNCHANGED <<reqs, rsps, slaveFast>>
  BY DEF AcceptRspWaits
<1> HIDE DEF st
<1> QED BY <1>1, <1>2, QuietIds

-----------------------------------------------------------------------------
\* A step of a proposer tells its acceptors of its last chosen entry only,
\* asks for the vote of its call in progress only, and takes for chosen only
\* what a majority has voted for.
Tells ==
    /\ UNCHANGED acceptorVars /\ reqs \subseteq reqs'
    /\ \A q \in Proposer : inst'[q].lastEntry > 0 =>
         \/ /\ inst'[q].lastEntry = inst[q].lastEntry
            /\ inst'[q].lastFrom = inst[q].lastFrom
         \/ \E v \in ChosenVotes : /\ v.entry = inst'[q].lastEntry
                                   /\ v.proposer = inst'[q].lastFrom
    /\ \A m \in reqs' : m \notin reqs =>
         /\ m.type # "CHOSEN_REQ" => m.prop.last = inst[m.src].lastEntry
         /\ m.type = "ACCEPT_REQ" =>
              /\ m.inc = inst'[m.src].inc /\ inst'[m.src].req # None
              /\ Vote(m.prop) = Vote(inst'[m.src].req)

\* A quiet step tells nothing.
LEMMA UntoldTells == Untold => Tells
BY DEF Untold, Tells

\* A step that changes one instance and sends one request.
LEMMA SendFrame ==
    ASSUME TypeOK, IdsInv, NEW p \in Proposer, NEW st, After(p, st),
           inst' = [inst EXCEPT ![p] = st],
           UNCHANGED acceptorVars, UNCHANGED rsps,
           NEW n, reqs' = reqs \cup {n}, n.src = p, n.inc = st.inc, ReqIds(n),
           n.type # "CHOSEN_REQ" => n.prop.last = inst[p].lastEntry,
           n.type = "ACCEPT_REQ" =>
              VidMatches(n, st) /\ st.req # None /\ Vote(n.prop) = Vote(st.req),
           st.lastEntry > 0 =>
              \/ st.lastEntry = inst[p].lastEntry /\ st.lastFrom = inst[p].lastFrom
              \/ \E v \in ChosenVotes : v.entry = st.lastEntry /\ v.proposer = st.lastFrom
    PROVE  IdsInv' /\ Tells
<1>1. IdsInv'
  BY IdsFrame
<1>2. \A q \in Proposer : inst'[q] = IF q = p THEN st ELSE inst[q]
  BY DEF TypeOK, ProposerTypeOK
<1> QED BY <1>1, <1>2 DEF Tells

\* PrepareRspAccepts asks for the vote of the call in progress.
LEMMA PrepareRspAcceptsIds ==
    ASSUME TypeOK, Shape, IdsInv, NEW p \in Proposer, NEW r \in rsps,
           PrepareRspAccepts(p, r), UNCHANGED acceptorVars
    PROVE  IdsInv' /\ Tells
<1> DEFINE s1 == Counted(p, r)
           pp == [s1.req EXCEPT !.status = "ACCEPTED", !.last = s1.lastEntry]
           st == [ToAccepting(s1) EXCEPT !.lastv = None, !.req = pp]
           n == [type |-> "ACCEPT_REQ", src |-> p, inc |-> inst[p].inc, prop |-> pp]
<1>1. Goes(p, s1)
  BY CountedGoes DEF PrepareRspAccepts
<1>2. /\ s1 \in InstanceState /\ s1.req \in Proposal /\ s1.lastEntry \in Nat
      /\ ~s1.notified /\ s1.req # None /\ InstIds(p, s1)
  BY <1>1, GoesAfter, NoneAssumption DEF Goes, InstShape, InstanceState, After
<1>3. reqs' = reqs \cup {n} /\ inst' = [inst EXCEPT ![p] = st] /\ UNCHANGED rsps
  BY <1>2 DEF PrepareRspAccepts, Send
<1>4. pp \in Proposal /\ Vote(pp) = Vote(s1.req) /\ pp.last = s1.lastEntry
  BY <1>2 DEF Status, Proposal, Vote
<1>5. n.type = "ACCEPT_REQ" /\ n.src = p /\ n.inc = inst[p].inc /\ n.prop = pp
  OBVIOUS
<1> HIDE DEF s1, pp, n
<1>6. /\ st \in InstanceState
      /\ st.calls = s1.calls /\ st.vig = s1.vig /\ st.inc = s1.inc
      /\ st.ret = s1.ret /\ st.req = pp /\ st.ig = s1.ig /\ st.valid = {}
      /\ st.phase = "ACCEPTING" /\ ~st.notified
      /\ st.lastEntry = s1.lastEntry /\ st.lastFrom = s1.lastFrom
  BY <1>2, <1>4 DEF ToAccepting, InstanceState
<1> HIDE DEF st
<1>7. InstShape(st)
  <2>1. pp.entry = inst[p].req.entry
    BY <1>1, <1>4, VoteFields DEF Goes
  <2>2. inst[p].req.entry \in Entry
    BY <1>1 DEF Shape, InstShape, Goes
  <2> QED BY <1>6, <2>1, <2>2 DEF InstShape
<1>8. Goes(p, st)
  BY <1>1, <1>4, <1>6, <1>7 DEF Goes
<1>9. After(p, st) /\ st.req # None
  BY <1>4, <1>6, <1>8, GoesAfter, NoneAssumption
<1>10. ReqIds(n) /\ VidMatches(n, st)
  <2>1. InstIds(p, st) /\ st.inc = inst[p].inc
    BY <1>8, <1>9 DEF After, Goes
  <2>2. st.vig \in Nat /\ st.calls \in Nat /\ st.inc \in Nat /\ pp.vid \in Nat
    BY <1>4, <1>6 DEF InstanceState, Proposal
  <2>3. MaxCalls[p] \in Nat /\ ClockStart[p][st.inc] \in Nat
    BY <2>1, <2>2, ProposerAssumption DEF InstIds
  <2>4. ReqIds(n)
    BY <1>5, <1>6, <1>9, <2>1 DEF InstIds, ReqIds
  <2>5. VidMatches(n, st)
    BY <1>5, <1>6, <1>9, <2>1, <2>2, <2>3 DEF InstIds, VidMatches
  <2> QED BY <2>4, <2>5
<1>11. st.inc = inst[p].inc /\ st.lastEntry = inst[p].lastEntry /\ st.lastFrom = inst[p].lastFrom
  BY <1>8 DEF Goes
<1> QED BY ZenonT(30), <1>3, <1>4, <1>5, <1>6, <1>9, <1>10, <1>11, SendFrame

\* AcceptRspChosen tells everyone of a vote that a majority has cast.
LEMMA AcceptRspChosenIds ==
    ASSUME TypeOK, Shape, IdsInv, NEW p \in Proposer, NEW r \in rsps,
           AcceptRspChosen(p, r), UNCHANGED acceptorVars
    PROVE  IdsInv' /\ Tells
<1> DEFINE s1 == CountedAccept(p, r)
           s2 == UpdateChosenInfo(s1, p, r.prop.entry, r.prop.proposer)
           st == Finish(s2, "OK")
           pp == [r.prop EXCEPT !.val = 0, !.status = "CHOSEN"]
           n == [type |-> "CHOSEN_REQ", src |-> p, inc |-> inst[p].inc, prop |-> pp]
           u == Vote(inst[p].req)
<1>1. /\ reqs' = reqs \cup {n} /\ inst' = [inst EXCEPT ![p] = st] /\ UNCHANGED rsps
      /\ AcceptRspCounts(p, r) /\ IsMajority(s1.valid)
  BY DEF AcceptRspChosen, Send
<1>2. Goes(p, s1) /\ s1.phase = "ACCEPTING"
  BY <1>1, CountedAcceptGoes, CountedAcceptType
<1>3. SameBallot(r.prop, inst[p].req) /\ inst[p].req # None
  BY <1>1, CountedVote DEF AcceptRspCounts, AcceptRsp, Expected
<1>4. r.prop \in Proposal
  BY RspFacts
<1>5. SameBallot(pp, r.prop) /\ pp \in Proposal
  BY <1>4, VoteOps, ProposalType DEF Status
<1>6. n.type = "CHOSEN_REQ" /\ n.src = p /\ n.inc = inst[p].inc /\ n.prop = pp
  OBVIOUS
<1>7. r.prop.entry \in Nat /\ r.prop.proposer \in Proposer
  BY <1>4 DEF Proposal
<1>8. u.entry = inst[p].req.entry /\ u.pid = inst[p].req.pid /\ u.vid = inst[p].req.vid
      /\ u.proposer = inst[p].req.proposer
  BY DEF Vote
<1> HIDE DEF s1, pp, n, u
<1>9. s1.valid \in SUBSET Acceptor /\ \A a \in s1.valid : u \in votes[a]
  BY <1>2 DEF Goes, InstanceState, u
<1>10. u \in ChosenVotes
  BY <1>1, <1>9, MajorityChooses
<1>11. s1 \in InstanceState /\ After(p, s1) /\ s1.req # None /\ InstShape(s1) /\ ~s1.notified
  BY <1>2, GoesAfter, NoneAssumption DEF Goes, InstShape
<1>12. s2 \in InstanceState
  BY <1>7, <1>11, UpdateChosenInfoType
<1>13. /\ s2.calls = s1.calls /\ s2.vig = s1.vig /\ s2.inc = s1.inc /\ s2.ret = s1.ret
       /\ s2.req = s1.req /\ s2.valid = s1.valid /\ s2.phase = s1.phase
       /\ s2.notified = s1.notified
       /\ s2.ig = s1.ig \/ s2.ig = p + 1
       /\ \/ s2.lastEntry = s1.lastEntry /\ s2.lastFrom = s1.lastFrom
          \/ s2.lastEntry = r.prop.entry /\ s2.lastFrom = r.prop.proposer
  BY <1>11 DEF UpdateChosenInfo, InstanceState
<1> HIDE DEF s2
<1>14. OwnId(p, s2.ig)
  <2>1. OwnId(p, s1.ig) /\ s1.ig \in Nat \ {0}
    BY <1>2 DEF Goes, InstanceState
  <2> QED BY <1>13, <2>1, OwnIdOps
<1>15. After(p, s2)
  <2>1. InstIds(p, s2)
    BY <1>11, <1>13, <1>14 DEF After, InstIds
  <2>2. \A m \in reqs : m.type = "ACCEPT_REQ" /\ m.src = p => VidMatches(m, s2)
    BY <1>11, <1>13 DEF After, VidMatches
  <2> QED BY <1>12, <2>1, <2>2 DEF After
<1>16. After(p, st) /\ st.lastEntry = s2.lastEntry /\ st.lastFrom = s2.lastFrom
  BY <1>11, <1>12, <1>13, <1>15, FinishAfter DEF ErrCode
<1>17. st.inc = inst[p].inc
  <2>1. s2.inc = inst[p].inc
    BY <1>2, <1>13 DEF Goes
  <2>2. st.inc = s2.inc
    BY <1>12 DEF Finish, Answer, InstanceState
  <2> QED BY <2>1, <2>2
<1> HIDE DEF st
<1>18. ReqIds(n)
  <2>1. SameBallot(u, pp)
    BY <1>3, <1>5, <1>8 DEF SameBallot
  <2>2. pp.pid > 0 => OwnId(pp.proposer, pp.pid)
    BY <1>3, <1>5 DEF IdsInv, InstIds, SameBallot
  <2> QED BY <1>6, <1>10, <2>1, <2>2 DEF ReqIds
<1>19. \/ st.lastEntry = inst[p].lastEntry /\ st.lastFrom = inst[p].lastFrom
       \/ \E v \in ChosenVotes : v.entry = st.lastEntry /\ v.proposer = st.lastFrom
  <2>1. u.entry = r.prop.entry /\ u.proposer = r.prop.proposer
    BY <1>3, <1>8 DEF SameBallot
  <2>2. s1.lastEntry = inst[p].lastEntry /\ s1.lastFrom = inst[p].lastFrom
    BY <1>2 DEF Goes
  <2> QED BY <1>10, <1>13, <1>16, <2>1, <2>2
<1> QED BY <1>1, <1>6, <1>16, <1>17, <1>18, <1>19, SendFrame

\* allocPaxosMsg takes a pid of p's progression and the next value id, and
\* names the last chosen entry.
LEMMA AllocIds ==
    ASSUME TypeOK, IdsInv, NEW p \in Proposer, NEW kind, MayPropose(p)
    PROVE  LET pp == AllocProposal(p, kind) IN
           /\ pp.proposer = p /\ pp.vid = inst[p].vig /\ pp.last = inst[p].lastEntry
           /\ pp.pid > 0 => OwnId(p, pp.pid)
<1>1. InstIds(p, inst[p])
  BY DEF IdsInv
<1> QED BY <1>1 DEF AllocProposal, InstIds

\* A new call has no answer yet and a value id that no request has.
LEMMA BeginCallAfter ==
    ASSUME TypeOK, IdsInv, NEW p \in Proposer, NEW kind, NEW pp \in Proposal,
           NEW phase \in {"PREPARING", "ACCEPTING"}, pp.entry \in Entry,
           MayPropose(p), pp.proposer = p, pp.vid = inst[p].vig,
           pp.pid > 0 => OwnId(p, pp.pid)
    PROVE  LET st == BeginCall(p, kind, phase, pp) IN
           /\ After(p, st) /\ st.req = pp /\ st.inc = inst[p].inc
           /\ st.vig = inst[p].vig + 1
           /\ st.lastEntry = inst[p].lastEntry /\ st.lastFrom = inst[p].lastFrom
<1> DEFINE st == BeginCall(p, kind, phase, pp)
<1>1. inst[p] \in InstanceState /\ InstIds(p, inst[p])
  BY DEF TypeOK, ProposerTypeOK, IdsInv
<1>2. /\ inst[p].vig \in Nat /\ inst[p].calls \in Nat /\ inst[p].inc \in Nat
      /\ inst[p].ig \in Nat \ {0}
  BY <1>1 DEF InstanceState
<1>3. MaxCalls[p] \in Nat /\ ClockStart[p][inst[p].inc] \in Nat
  BY <1>1, <1>2, ProposerAssumption DEF InstIds
<1>4. inst[p].calls + 1 <= MaxCalls[p]
  BY <1>2, <1>3 DEF MayPropose
<1>5. st \in InstanceState /\ st.req = pp /\ st.valid = {} /\ st.inc = inst[p].inc
  BY BeginCallType
<1>6. /\ st.calls = inst[p].calls + 1 /\ st.vig = inst[p].vig + 1 /\ st.ret = <<>>
      /\ st.ig = inst[p].ig \/ st.ig = NextId(inst[p].ig, NumProposer)
      /\ st.lastEntry = inst[p].lastEntry /\ st.lastFrom = inst[p].lastFrom
  BY <1>1 DEF BeginCall, InstanceState, NextId
<1>7. OwnId(p, st.ig)
  <2>1. OwnId(p, inst[p].ig)
    BY <1>1 DEF InstIds
  <2> QED BY <1>2, <1>6, <2>1, OwnIdOps
<1> HIDE DEF st
<1>8. pp # None
  BY NoneAssumption
<1>9. InstIds(p, st)
  BY <1>1, <1>2, <1>3, <1>4, <1>5, <1>6, <1>7, <1>8, SMTT(30) DEF InstIds
<1>10. ASSUME NEW m \in reqs, m.type = "ACCEPT_REQ", m.src = p PROVE VidMatches(m, st)
  <2>1. VidMatches(m, inst[p]) /\ m.prop.vid \in Nat
    BY <1>10 DEF IdsInv, TypeOK, NetTypeOK, Request, Proposal
  <2> QED BY <1>2, <1>5, <1>6, <2>1 DEF VidMatches
<1>11. After(p, st)
  BY <1>5, <1>9, <1>10 DEF After
<1> QED BY <1>5, <1>6, <1>11 DEF st

\* ProposePrepare asks for no vote yet.
LEMMA ProposePrepareIds ==
    ASSUME TypeOK, Shape, IdsInv, NEW p \in Proposer, NEW kind,
           ProposePrepare(p, kind), UNCHANGED acceptorVars
    PROVE  IdsInv' /\ Tells
<1> DEFINE pp == AllocProposal(p, kind)
           q == [pp EXCEPT !.val = 0]
           st == BeginCall(p, kind, "PREPARING", pp)
           n == [type |-> "PREPARE_REQ", src |-> p, inc |-> inst[p].inc, prop |-> q]
<1>1. /\ MayPropose(p) /\ reqs' = reqs \cup {n} /\ inst' = [inst EXCEPT ![p] = st]
      /\ UNCHANGED rsps
  BY DEF ProposePrepare, Send
<1>2. /\ pp \in Proposal /\ pp.entry \in Entry
      /\ pp.proposer = p /\ pp.vid = inst[p].vig /\ pp.last = inst[p].lastEntry
      /\ pp.pid > 0 => OwnId(p, pp.pid)
  BY <1>1, AllocType, AllocIds
<1>3. n.type = "PREPARE_REQ" /\ n.src = p /\ n.inc = inst[p].inc /\ n.prop = q
  OBVIOUS
<1> HIDE DEF pp
<1>4. q.pid = pp.pid /\ q.proposer = pp.proposer /\ q.last = pp.last
  BY <1>2 DEF Proposal
<1>5. /\ After(p, st) /\ st.inc = inst[p].inc
      /\ st.lastEntry = inst[p].lastEntry /\ st.lastFrom = inst[p].lastFrom
  BY <1>1, <1>2, BeginCallAfter
<1> HIDE DEF q, st, n
<1>6. ReqIds(n)
  BY <1>2, <1>3, <1>4 DEF ReqIds
<1> QED BY <1>1, <1>2, <1>3, <1>4, <1>5, <1>6, SendFrame

\* ProposeAccept asks for the vote of the new call at once.
LEMMA ProposeAcceptIds ==
    ASSUME TypeOK, Shape, IdsInv, NEW p \in Proposer,
           ProposeAccept(p), UNCHANGED acceptorVars
    PROVE  IdsInv' /\ Tells
<1> DEFINE p0 == AllocProposal(p, "write")
           pp == [p0 EXCEPT !.status = "ACCEPTED"]
           st == BeginCall(p, "write", "ACCEPTING", pp)
           n == [type |-> "ACCEPT_REQ", src |-> p, inc |-> inst[p].inc, prop |-> pp]
<1>1. /\ MayPropose(p) /\ reqs' = reqs \cup {n} /\ inst' = [inst EXCEPT ![p] = st]
      /\ UNCHANGED rsps
  BY DEF ProposeAccept, Send
<1>2. /\ p0 \in Proposal /\ p0.entry \in Entry
      /\ p0.proposer = p /\ p0.vid = inst[p].vig /\ p0.last = inst[p].lastEntry
      /\ p0.pid > 0 => OwnId(p, p0.pid)
  BY <1>1, AllocType, AllocIds
<1>3. n.type = "ACCEPT_REQ" /\ n.src = p /\ n.inc = inst[p].inc /\ n.prop = pp
  OBVIOUS
<1> HIDE DEF p0
<1>4. /\ pp \in Proposal /\ pp.entry = p0.entry /\ pp.pid = p0.pid
      /\ pp.vid = p0.vid /\ pp.proposer = p0.proposer /\ pp.last = p0.last
  BY <1>2 DEF Proposal, Status
<1> HIDE DEF pp
<1>5. /\ After(p, st) /\ st.req = pp /\ st.inc = inst[p].inc
      /\ st.vig = inst[p].vig + 1
      /\ st.lastEntry = inst[p].lastEntry /\ st.lastFrom = inst[p].lastFrom
  BY <1>1, <1>2, <1>4, BeginCallAfter
<1> HIDE DEF st, n
<1>6. ReqIds(n)
  BY <1>2, <1>3, <1>4 DEF ReqIds
<1>7. VidMatches(n, st)
  <2>1. InstIds(p, st) /\ st \in InstanceState
    BY <1>5 DEF After
  <2>2. st.vig \in Nat /\ st.calls \in Nat /\ st.inc \in Nat /\ pp.vid \in Nat
    BY <1>4, <2>1 DEF InstanceState, Proposal
  <2>3. MaxCalls[p] \in Nat /\ ClockStart[p][st.inc] \in Nat
    BY <2>1, <2>2, ProposerAssumption DEF InstIds
  <2>4. pp # None
    BY <1>4, NoneAssumption
  <2> QED BY <1>3, <1>5, <2>1, <2>2, <2>3, <2>4 DEF InstIds, VidMatches
<1>8. st.req # None
  BY <1>4, <1>5, NoneAssumption
<1> QED BY <1>1, <1>2, <1>3, <1>4, <1>5, <1>6, <1>7, <1>8, SendFrame

\* A restart answers the call in progress, forgets what was chosen, and takes
\* its value ids from a new range.
LEMMA RestartIds ==
    ASSUME TypeOK, Shape, IdsInv, NEW p \in Proposer, Restart(p), UNCHANGED acceptorVars
    PROVE  IdsInv' /\ Tells
<1> DEFINE old == inst[p]
           ret == IF old.req # None THEN Answer(old, "CRASHED").ret ELSE old.ret
           st == NewInstance(p, old.inc + 1, old.calls, ret)
<1>1. old \in InstanceState /\ InstIds(p, old) /\ ~old.notified
  BY DEF TypeOK, ProposerTypeOK, IdsInv, Shape, InstShape
<1>2. /\ old.inc \in Nat /\ old.calls \in Nat /\ old.ret \in Seq(ErrCode)
      /\ old.inc < MaxInc
  BY <1>1 DEF InstanceState, Restart
<1>3. old.inc + 1 \in 0 .. MaxInc
  BY SMTT(30), <1>2, ProposerAssumption
<1>4. ret = IF old.req # None THEN Append(old.ret, "CRASHED") ELSE old.ret
  BY <1>1 DEF Answer, InstanceState
<1>5. ret \in Seq(ErrCode) /\ Len(ret) = IF old.calls > 0 THEN 1 ELSE 0
  <2>1. "CRASHED" \in ErrCode
    BY DEF ErrCode
  <2>2. CASE old.req # None
    <3>1. Len(old.ret) = 0 /\ old.calls > 0
      BY <1>1, <2>2 DEF InstIds
    <3>2. /\ Append(old.ret, "CRASHED") \in Seq(ErrCode)
          /\ Len(Append(old.ret, "CRASHED")) = Len(old.ret) + 1
      BY <1>2, <2>1
    <3> QED BY <1>4, <2>2, <3>1, <3>2
  <2>3. CASE old.req = None
    BY <1>1, <1>2, <1>4, <2>3 DEF InstIds
  <2> QED BY <2>2, <2>3
<1>6. inst' = [inst EXCEPT ![p] = st] /\ UNCHANGED <<reqs, rsps>>
  BY DEF Restart
<1> HIDE DEF ret
<1>7. st \in InstanceState
  BY <1>2, <1>3, <1>5, NewInstanceType
<1>8. /\ st.req = None /\ st.calls = old.calls /\ st.ret = ret /\ st.ig = p + 1
      /\ st.inc = old.inc + 1 /\ st.vig = ClockStart[p][old.inc + 1]
      /\ st.lastEntry = 0
  BY DEF NewInstance
<1> HIDE DEF st
<1>9. OwnId(p, p + 1)
  BY <1>1, OwnIdOps DEF InstIds, InstanceState
<1>10. MaxCalls[p] \in Nat /\ ClockStart[p][old.inc + 1] \in Nat
  BY <1>3, ProposerAssumption
<1>11. InstIds(p, st)
  BY <1>1, <1>2, <1>3, <1>5, <1>8, <1>9, <1>10 DEF InstIds
<1>12. ASSUME NEW m \in reqs, m.type = "ACCEPT_REQ", m.src = p PROVE VidMatches(m, st)
  <2>1. VidMatches(m, old) /\ m.inc \in Nat
    BY <1>12 DEF IdsInv, TypeOK, NetTypeOK, Request
  <2> QED BY <1>2, <1>8, <2>1 DEF VidMatches
<1>13. After(p, st)
  BY <1>7, <1>11, <1>12 DEF After
<1>14. IdsInv'
  BY <1>6, <1>13, IdsFrame
<1>15. \A q \in Proposer : inst'[q] = IF q = p THEN st ELSE inst[q]
  BY <1>6 DEF TypeOK, ProposerTypeOK
<1> QED BY <1>6, <1>8, <1>14, <1>15 DEF Tells

\* A proposer told of an entry that a plog holds as CHOSEN: it learns of a
\* chosen vote if everything marked CHOSEN is chosen.
LEMMA ChosenNotifyIds ==
    ASSUME TypeOK, Shape, IdsInv, ChosenNotify
    PROVE  IdsInv' /\ (MarkedIsChosen => Tells)
<1>1. PICK p \in Proposer, a \in Acceptor, e \in Entry, fromPlog \in BOOLEAN :
         /\ ent[a][e].acc # None /\ ent[a][e].acc.status = "CHOSEN"
         /\ OnEntryChosen(p, ent[a][e].acc, fromPlog)
         /\ UNCHANGED acceptorVars
  BY DEF ChosenNotify
<1> DEFINE pp == ent[a][e].acc
           st == UpdateChosenInfo(inst[p], p, pp.entry, pp.proposer)
<1>2. pp \in Proposal
  BY <1>1 DEF TypeOK, AcceptorTypeOK, EntryRec
<1>3. pp.entry \in Nat /\ pp.proposer \in Proposer
  BY <1>2 DEF Proposal
<1>4. inst[p] \in InstanceState /\ InstShape(inst[p]) /\ InstIds(p, inst[p])
  BY DEF TypeOK, ProposerTypeOK, Shape, IdsInv
<1>5. inst' = [inst EXCEPT ![p] = st] /\ UNCHANGED <<reqs, rsps>>
  BY <1>1 DEF OnEntryChosen
<1>6. st \in InstanceState
  BY <1>3, <1>4, UpdateChosenInfoType
<1> HIDE DEF pp
<1>7. /\ st.calls = inst[p].calls /\ st.vig = inst[p].vig /\ st.inc = inst[p].inc
      /\ st.ret = inst[p].ret /\ st.req = inst[p].req /\ st.valid = inst[p].valid
      /\ st.phase = inst[p].phase
      /\ st.ig = inst[p].ig \/ st.ig = p + 1
      /\ \/ st.lastEntry = inst[p].lastEntry /\ st.lastFrom = inst[p].lastFrom
         \/ st.lastEntry = pp.entry /\ st.lastFrom = pp.proposer
  BY <1>4 DEF UpdateChosenInfo, InstanceState
<1> HIDE DEF st
<1>8. OwnId(p, st.ig)
  <2>1. OwnId(p, inst[p].ig) /\ inst[p].ig \in Nat \ {0}
    BY <1>4 DEF InstIds, InstanceState
  <2> QED BY <1>7, <2>1, OwnIdOps
<1>9. After(p, st)
  <2>1. InstIds(p, st)
    BY <1>4, <1>7, <1>8 DEF InstIds
  <2>2. \A m \in reqs : m.type = "ACCEPT_REQ" /\ m.src = p => VidMatches(m, st)
    BY <1>7 DEF IdsInv, VidMatches
  <2> QED BY <1>6, <2>1, <2>2 DEF After
<1>10. IdsInv'
  BY <1>1, <1>5, <1>9, IdsFrame
<1>11. ASSUME MarkedIsChosen PROVE Tells
  <2>1. Vote(pp) \in ChosenVotes
    BY <1>1, <1>11, ChosenIsMember DEF MarkedIsChosen, pp
  <2>2. Vote(pp).entry = pp.entry /\ Vote(pp).proposer = pp.proposer
    BY DEF Vote
  <2>3. \A q \in Proposer : inst'[q] = IF q = p THEN st ELSE inst[q]
    BY <1>5 DEF TypeOK, ProposerTypeOK
  <2> QED BY <1>1, <1>5, <1>7, <2>1, <2>2, <2>3 DEF Tells
<1> QED BY <1>10, <1>11

-----------------------------------------------------------------------------
\* A row holds the vote of its entry, or the zeroed one.
LEMMA ReloadedIds ==
    ASSUME NEW x, NEW e, EntIds(x, e)
    PROVE  EntIds(Reloaded(x), e)
<1>1. Reloaded(x).acc = x.acc \/ Reloaded(x).acc = ZeroProposal
  BY DEF Reloaded
<1> QED BY <1>1 DEF EntIds

\* What a step of an acceptor has to show for the ids.
LEMMA AcceptorIdsFrame ==
    ASSUME TypeOK, IdsInv, UNCHANGED proposerVars, UNCHANGED reqs,
           \A b \in Acceptor : votes[b] \subseteq votes'[b],
           ChosenVotes \subseteq ChosenVotes',
           \A b \in Acceptor : \A v \in votes'[b] : v \in votes[b] \/ Asked(v),
           \A r \in rsps' : r \in rsps \/ RspIds(r)',
           \A b \in Acceptor, e \in Entry : EntIds(ent'[b][e], e) /\ RowStep(b, e)
    PROVE  IdsInv'
<1>1. inst' = inst
  BY DEF proposerVars
<1>2. ASSUME NEW p \in Proposer PROVE InstIds(p, inst[p])'
  <2>1. InstIds(p, inst[p]) /\ inst[p] \in InstanceState
    BY DEF IdsInv, TypeOK, ProposerTypeOK
  <2>2. \A a \in inst[p].valid : votes[a] \subseteq votes'[a]
    BY <2>1 DEF InstanceState
  <2> QED BY <1>1, <2>1, <2>2 DEF InstIds
<1>3. ASSUME NEW m \in reqs PROVE ReqIds(m)'
  <2>1. ReqIds(m)
    BY DEF IdsInv
  <2> QED BY <2>1 DEF ReqIds
<1>4. ASSUME NEW m \in reqs, m.type = "ACCEPT_REQ" PROVE VidMatches(m, inst[m.src])'
  BY <1>1, <1>4 DEF IdsInv, VidMatches
<1>5. ASSUME NEW r \in rsps' PROVE RspIds(r)'
  <2>1. CASE r \in rsps
    <3>1. RspIds(r) /\ r.from \in Acceptor
      BY <2>1 DEF IdsInv, TypeOK, NetTypeOK, Response
    <3> QED BY <3>1 DEF RspIds, Accepted
  <2> QED BY <2>1
<1>6. \A v : Asked(v)' <=> Asked(v)
  BY DEF Asked
<1>7. ASSUME NEW b \in Acceptor, NEW v \in votes'[b] PROVE Asked(v)'
  BY <1>6 DEF IdsInv
<1>8. ASSUME NEW b \in Acceptor, NEW e \in Entry
      PROVE  EntIds(ent[b][e], e)' /\ EntIds(disk[b][e], e)'
  <2>1. EntIds(disk[b][e], e) /\ EntIds(ent'[b][e], e) /\ RowStep(b, e)
    BY DEF IdsInv
  <2>2. EntIds(disk'[b][e], e)
    BY <2>1, ReloadedIds DEF RowStep
  <2> QED BY <1>6, <2>1, <2>2 DEF EntIds
<1> QED BY <1>2, <1>3, <1>4, <1>5, <1>7, <1>8 DEF IdsInv

\* A step of acceptor a that casts no vote, marks none and reports none: it
\* answers request m, may note what m tells of the last chosen entry, and may
\* save the entry that m is about.
Answers(a, m) ==
    /\ UNCHANGED <<votes, lastChosen, reqs>>
    /\ \A b \in Acceptor, e \in Entry : ent'[b][e].acc = ent[b][e].acc /\ RowStep(b, e)
    /\ \A r \in rsps' : r \in rsps \/ ~(r.type = "ACCEPT_RSP" /\ Accepted(r))
    /\ \/ globalMax' = globalMax
       \/ m.type # "CHOSEN_REQ" /\ NoteCatchup(a, m.prop)

\* Such a step leaves every id where it was.
LEMMA AnswersIds ==
    ASSUME TypeOK, IdsInv, NEW a \in Acceptor, NEW m \in reqs, Answers(a, m),
           UNCHANGED proposerVars
    PROVE  IdsInv'
<1>1. votes' = votes /\ reqs' = reqs
  BY DEF Answers
<1>2. ChosenVotes' = ChosenVotes
  BY <1>1, ChosenSame
<1>3. \A b \in Acceptor, e \in Entry : EntIds(ent'[b][e], e) /\ RowStep(b, e)
  BY DEF Answers, IdsInv, EntIds
<1>4. \A r \in rsps' : r \in rsps \/ RspIds(r)'
  BY DEF Answers, RspIds, Accepted
<1> QED BY <1>1, <1>2, <1>3, <1>4, AcceptorIdsFrame

\* A response that reports no vote.
LEMMA RespondAnswers ==
    ASSUME TypeOK, NEW a \in Acceptor, NEW m, NEW type, NEW err, NEW pp \in Proposal,
           NEW status \in Status, Respond(a, m, type, err, pp, status),
           type = "ACCEPT_RSP" => err # "OK" \/ status # "ACCEPTED"
    PROVE  \A r \in rsps' : r \in rsps \/ ~(r.type = "ACCEPT_RSP" /\ Accepted(r))
<1> DEFINE q == [pp EXCEPT !.status = status, !.last = lastChosen[a]]
           z == [type |-> type, req |-> m, from |-> a, err |-> err, prop |-> q]
<1>1. q.status = status
  BY DEF Proposal
<1>2. rsps' = rsps \cup {z}
  BY DEF Respond
<1>3. z.type = type /\ z.err = err /\ z.prop = q
  OBVIOUS
<1> HIDE DEF q, z
<1> QED BY <1>1, <1>2, <1>3 DEF Accepted

\* The four outcomes of handlePrepareReq.
LEMMA PrepareAnswers ==
    ASSUME TypeOK, Shape, NEW a \in Acceptor, NEW m \in reqs,
           \/ PrepareLags(a, m) \/ PrepareSeesVote(a, m)
           \/ PrepareSeesPromise(a, m) \/ PrepareNew(a, m)
    PROVE  Answers(a, m)
<1>1. /\ m.prop \in Proposal /\ m.prop.entry \in Entry
      /\ ent[a][m.prop.entry] \in EntryRec
      /\ ent[a][m.prop.entry].acc # None => ent[a][m.prop.entry].acc \in Proposal
      /\ ent[a][m.prop.entry].prom # None => ent[a][m.prop.entry].prom \in Proposal
  BY ReqFacts
<1>2. CASE PrepareLags(a, m)
  <2>1. \A r \in rsps' : r \in rsps \/ ~(r.type = "ACCEPT_RSP" /\ Accepted(r))
    BY <1>1, <1>2, RespondAnswers DEF PrepareLags, Status
  <2> QED BY <1>2, <2>1 DEF PrepareLags, Answers, RowStep, acceptorVars, storeVars
<1>3. CASE PrepareSeesVote(a, m)
  <2>1. \A r \in rsps' : r \in rsps \/ ~(r.type = "ACCEPT_RSP" /\ Accepted(r))
    BY <1>1, <1>3, RespondAnswers DEF PrepareSeesVote, Status
  <2> QED BY <1>3, <2>1 DEF PrepareSeesVote, Answers, RowStep, acceptorVars, storeVars
<1>4. CASE PrepareSeesPromise(a, m)
  <2>1. \A r \in rsps' : r \in rsps \/ ~(r.type = "ACCEPT_RSP" /\ Accepted(r))
    BY <1>1, <1>4, RespondAnswers DEF PrepareSeesPromise, HeldByPromise, Status
  <2> QED BY <1>4, <2>1 DEF PrepareSeesPromise, Answers, RowStep, acceptorVars, storeVars
<1>5. CASE PrepareNew(a, m)
  <2>1. \A r \in rsps' : r \in rsps \/ ~(r.type = "ACCEPT_RSP" /\ Accepted(r))
    BY <1>1, <1>5, RespondAnswers DEF PrepareNew, Status
  <2> DEFINE e == m.prop.entry
             pp == [m.prop EXCEPT !.status = "PROMISED"]
             x == SetPromised(ent[a][e], pp)
  <2>2. pp \in Proposal
    BY <1>1, ProposalType DEF Status
  <2>3. x \in EntryRec /\ x.acc = ent[a][e].acc
    BY <1>1, <2>2, EntryOps
  <2>4. \/ UNCHANGED <<ent, disk>>
        \/ ent' = [ent EXCEPT ![a][e] = x] /\ StoreStep(a, e, x)
    BY <1>5 DEF PrepareNew, StoreStep
  <2> HIDE DEF x, e, pp
  <2>5. \A b \in Acceptor, f \in Entry :
          ent'[b][f].acc = ent[b][f].acc /\ RowStep(b, f)
    <3>1. CASE ent' = [ent EXCEPT ![a][e] = x] /\ StoreStep(a, e, x)
      <4>1. /\ ent'[a][e] = x
            /\ \A b \in Acceptor, f \in Entry :
                 b # a \/ f # e => ent'[b][f] = ent[b][f]
            /\ \A b \in Acceptor, f \in Entry : RowStep(b, f)
        BY <1>1, <2>3, <3>1, OneEntryStep DEF e
      <4> QED BY <2>3, <4>1
    <3> QED BY <2>4, <3>1 DEF RowStep
  <2> QED BY <1>5, <2>1, <2>5 DEF PrepareNew, Answers
<1> QED BY <1>2, <1>3, <1>4, <1>5

\* The outcomes of handleAcceptReq that cast no vote.
LEMMA AcceptAnswers ==
    ASSUME TypeOK, Shape, NEW a \in Acceptor, NEW m \in reqs,
           AcceptLags(a, m) \/ AcceptDuplicate(a, m) \/ AcceptRefused(a, m)
    PROVE  Answers(a, m)
<1> DEFINE e == m.prop.entry
           y == ent[a][e]
           q1 == [m.prop EXCEPT !.val = 0]
           q2 == [y.acc EXCEPT !.val = 0]
<1>1. /\ m.prop \in Proposal /\ e \in Entry /\ y \in EntryRec
      /\ y.acc # None => y.acc \in Proposal
  BY ReqFacts
<1>2. q1 \in Proposal /\ (y.acc # None => q2 \in Proposal)
  BY <1>1 DEF Proposal
<1>3. CASE AcceptLags(a, m)
  <2>1. ZeroProposal \in Proposal
    BY SynodAssumption DEF ZeroProposal, Proposal, Proposer, Status
  <2>2. \A r \in rsps' : r \in rsps \/ ~(r.type = "ACCEPT_RSP" /\ Accepted(r))
    BY <1>3, <2>1, RespondAnswers DEF AcceptLags, Status
  <2> QED BY <1>3, <2>2 DEF AcceptLags, Answers, RowStep, acceptorVars, storeVars
<1>4. CASE AcceptDuplicate(a, m)
  <2> DEFINE x == ClearPromised(y)
  <2>1. /\ Respond(a, m, "ACCEPT_RSP", "DUPLICATE_PROPOSAL_REQ", q2, "ACCEPTED")
        /\ ent' = [ent EXCEPT ![a][e] = x] /\ StoreStep(a, e, x)
        /\ y.acc # None
    BY <1>4 DEF AcceptDuplicate, IsDuplicate, StoreStep
  <2>2. x \in EntryRec /\ x.acc = y.acc
    BY <1>1, <2>1, EntryOps
  <2> HIDE DEF x, q2
  <2>3. \A r \in rsps' : r \in rsps \/ ~(r.type = "ACCEPT_RSP" /\ Accepted(r))
    BY <1>2, <2>1, RespondAnswers DEF Status
  <2>4. /\ ent'[a][e] = x
        /\ \A b \in Acceptor, f \in Entry : b # a \/ f # e => ent'[b][f] = ent[b][f]
        /\ \A b \in Acceptor, f \in Entry : RowStep(b, f)
    BY <1>1, <2>1, <2>2, OneEntryStep
  <2>5. \A b \in Acceptor, f \in Entry :
          ent'[b][f].acc = ent[b][f].acc /\ RowStep(b, f)
    BY <2>2, <2>4
  <2> QED BY <1>4, <2>3, <2>5 DEF AcceptDuplicate, Answers
<1>5. CASE AcceptRefused(a, m)
  <2>1. \/ Respond(a, m, "ACCEPT_RSP", "OK", q1, "ACCEPTED_FAILED")
        \/ y.acc # None /\ Respond(a, m, "ACCEPT_RSP", "INVALID_PROPOSAL_REQ", q2, "ACCEPTED_FAILED")
        \/ Respond(a, m, "ACCEPT_RSP", "INVALID_PLOG_DATA", q1, "ACCEPTED_FAILED")
    BY <1>5 DEF AcceptRefused
  <2> HIDE DEF q1, q2
  <2>2. \A r \in rsps' : r \in rsps \/ ~(r.type = "ACCEPT_RSP" /\ Accepted(r))
    BY <1>2, <2>1, RespondAnswers DEF Status
  <2> QED BY <1>5, <2>2 DEF AcceptRefused, Answers, RowStep, storeVars
<1> QED BY <1>3, <1>4, <1>5

\* Votes are only added, and with them chosen ones.
LEMMA VotesGrow ==
    ASSUME TypeOK, NEW a \in Acceptor, NEW v,
           votes' = votes \/ votes' = [votes EXCEPT ![a] = @ \cup {v}]
    PROVE  /\ \A b \in Acceptor : votes[b] \subseteq votes'[b]
           /\ \A b \in Acceptor : votes'[b] \subseteq votes[b] \cup {v}
           /\ ChosenVotes \subseteq ChosenVotes'
           /\ \A u : Chosen(u) => Chosen(u)'
<1>1. /\ \A b \in Acceptor : votes[b] \subseteq votes'[b]
      /\ \A b \in Acceptor : votes'[b] \subseteq votes[b] \cup {v}
  BY DEF TypeOK, AcceptorTypeOK
<1>2. ChosenVotes \subseteq ChosenVotes'
  <2>1. CASE votes' = votes
    BY <2>1, ChosenSame
  <2>2. CASE votes' = [votes EXCEPT ![a] = votes[a] \cup {v}]
    BY <2>2, ChosenGrows
  <2> QED BY <2>1, <2>2
<1>3. ASSUME NEW u, Chosen(u) PROVE Chosen(u)'
  <2>1. u \in ChosenVotes'
    BY <1>2, <1>3, ChosenIsMember
  <2> QED BY <2>1 DEF ChosenVotes
<1> QED BY <1>1, <1>2, <1>3

\* A vote that is cast was asked for, and its report names its ballot.
LEMMA AcceptVotesIds ==
    ASSUME TypeOK, Shape, IdsInv, NEW a \in Acceptor, NEW m \in reqs,
           AcceptVotes(a, m), UNCHANGED proposerVars
    PROVE  /\ IdsInv'
           /\ \A b \in Acceptor, e \in Entry :
                \/ ent'[b][e].acc = ent[b][e].acc
                \/ ent'[b][e].acc.status = "ACCEPTED"
           /\ ChosenVotes \subseteq ChosenVotes'
           /\ \A u : Chosen(u) => Chosen(u)'
<1>1. PICK pp \in Proposal, x \in EntryRec :
             /\ pp = [m.prop EXCEPT !.status = "ACCEPTED"]
             /\ pp.entry = m.prop.entry /\ pp.pid = m.prop.pid
             /\ pp.entry \in Entry
             /\ x.acc = pp
             /\ ent' = [ent EXCEPT ![a][pp.entry] = x]
             /\ StoreStep(a, pp.entry, x)
             /\ \/ votes' = votes
                \/ /\ votes' = [votes EXCEPT ![a] = @ \cup {Vote(pp)}]
                   /\ SaveEntry(a, pp.entry, x)
  BY AcceptVotesEffect
<1>2. m.prop \in Proposal /\ m.type = "ACCEPT_REQ" /\ reqs' = reqs
  BY ReqFacts DEF AcceptVotes
<1>3. Vote(pp) = Vote(m.prop) /\ pp.status = "ACCEPTED"
  BY <1>1, <1>2 DEF Vote, Proposal
<1>4. PICK u : u = Vote(pp)
  OBVIOUS
<1>5. /\ \A b \in Acceptor : votes[b] \subseteq votes'[b]
      /\ \A b \in Acceptor : votes'[b] \subseteq votes[b] \cup {u}
      /\ ChosenVotes \subseteq ChosenVotes'
      /\ \A w : Chosen(w) => Chosen(w)'
  BY <1>1, <1>4, VotesGrow
<1>6. Asked(u)
  BY <1>2, <1>3, <1>4 DEF Asked
<1>7. /\ ent'[a][pp.entry] = x
      /\ \A b \in Acceptor, f \in Entry :
           b # a \/ f # pp.entry => ent'[b][f] = ent[b][f]
      /\ \A b \in Acceptor, f \in Entry : RowStep(b, f)
  BY <1>1, OneEntryStep
<1>8. ASSUME NEW b \in Acceptor, NEW e \in Entry PROVE EntIds(ent'[b][e], e)
  <2>1. CASE b = a /\ e = pp.entry
    <3>1. ent'[b][e].acc = pp
      BY <1>1, <1>7, <2>1
    <3> QED BY <1>4, <1>6, <2>1, <3>1 DEF EntIds
  <2>2. CASE ~(b = a /\ e = pp.entry)
    <3>1. ent'[b][e] = ent[b][e] /\ EntIds(ent[b][e], e)
      BY <1>7, <2>2 DEF IdsInv
    <3> QED BY <3>1
  <2> QED BY <2>1, <2>2
<1>9. PICK q \in Proposal : q = [pp EXCEPT !.val = 0] /\ SameBallot(q, m.prop)
  <2>1. [pp EXCEPT !.val = 0] \in Proposal /\ SameBallot([pp EXCEPT !.val = 0], m.prop)
    BY <1>1, <1>2 DEF SameBallot, Proposal
  <2> QED BY <2>1
<1>10. \/ Respond(a, m, "ACCEPT_RSP", "OK", q, "ACCEPTED") /\ u \in votes'[a]
       \/ Respond(a, m, "ACCEPT_RSP", "WRITE_PLOG_FAIL", q, "ACCEPTED_FAILED")
  <2>1. votes \in [Acceptor -> SUBSET VoteRec]
    BY DEF TypeOK, AcceptorTypeOK
  <2>2. \/ /\ votes' = [votes EXCEPT ![a] = @ \cup {u}]
           /\ Respond(a, m, "ACCEPT_RSP", "OK", q, "ACCEPTED")
        \/ Respond(a, m, "ACCEPT_RSP", "WRITE_PLOG_FAIL", q, "ACCEPTED_FAILED")
    BY <1>1, <1>4, <1>9 DEF AcceptVotes
  <2>3. votes' = [votes EXCEPT ![a] = @ \cup {u}] => u \in votes'[a]
    BY <2>1
  <2> QED BY <2>2, <2>3
<1>11. PICK s : s = [q EXCEPT !.status = "ACCEPTED", !.last = lastChosen[a]]
  OBVIOUS
<1>12. PICK z :
         z = [type |-> "ACCEPT_RSP", req |-> m, from |-> a, err |-> "OK", prop |-> s]
  OBVIOUS
<1>13. \A r \in rsps' : r \in rsps \/ RspIds(r)'
  <2>1. CASE Respond(a, m, "ACCEPT_RSP", "OK", q, "ACCEPTED") /\ u \in votes'[a]
    <3>1. rsps' = rsps \cup {z} /\ z.req = m /\ z.from = a /\ z.prop = s
      BY <1>11, <1>12, <2>1 DEF Respond
    <3>2. SameBallot(s, m.prop)
      BY <1>9, <1>11 DEF SameBallot, Proposal
    <3>3. RspIds(z)'
      BY <1>2, <1>3, <1>4, <2>1, <3>1, <3>2 DEF RspIds
    <3> QED BY <3>1, <3>3
  <2>2. CASE Respond(a, m, "ACCEPT_RSP", "WRITE_PLOG_FAIL", q, "ACCEPTED_FAILED")
    <3>1. \A r \in rsps' : r \in rsps \/ ~(r.type = "ACCEPT_RSP" /\ Accepted(r))
      BY <1>9, <2>2, RespondAnswers DEF Status
    <3> QED BY <3>1 DEF RspIds, Accepted
  <2> QED BY <1>10, <2>1, <2>2
<1>14. IdsInv'
  BY <1>2, <1>5, <1>6, <1>7, <1>8, <1>13, AcceptorIdsFrame
<1> QED BY ZenonT(30), <1>1, <1>3, <1>5, <1>7, <1>14

\* A chosen vote was asked for, under a pid that is not the zeroed one.
LEMMA ChosenAsked ==
    ASSUME TypeOK, AskInv, IdsInv, NEW v \in ChosenVotes
    PROVE  /\ Asked(v) /\ v.pid > 0
           /\ \E n \in reqs : n.type = "ACCEPT_REQ" /\ Vote(n.prop) = v
<1>1. Asked(v)
  BY DEF ChosenVotes, AllVotes, IdsInv
<1>2. PICK n \in reqs : n.type = "ACCEPT_REQ" /\ Vote(n.prop) = v
  BY <1>1 DEF Asked
<1>3. n.prop.pid \in Nat
  BY DEF TypeOK, NetTypeOK, Request, Proposal
<1>4. n.prop.pid >= 1
  BY <1>2 DEF AskInv
<1>5. v.pid = n.prop.pid
  BY <1>2 DEF Vote
<1> QED BY <1>1, <1>2, <1>3, <1>4, <1>5

\* The vote that a CHOSEN request matches is that of the entry: a zeroed one
\* has pid 0, and no vote was chosen under it.
LEMMA MatchedVote ==
    ASSUME TypeOK, Shape, AskInv, IdsInv, NEW a \in Acceptor, NEW m \in reqs,
           HandleChosenReq(a, m)
    PROVE  LET pp == ent[a][m.prop.entry].acc IN
           /\ pp \in Proposal /\ pp # None
           /\ pp.entry = m.prop.entry /\ pp.pid = m.prop.pid /\ pp.vid = m.prop.vid
           /\ Asked(Vote(pp))
<1> DEFINE e == m.prop.entry
           pp == ent[a][e].acc
<1>1. e \in Entry /\ ent[a][e] \in EntryRec /\ pp # None /\ m.type = "CHOSEN_REQ"
      /\ pp.pid = m.prop.pid /\ pp.vid = m.prop.vid
  BY ReqFacts DEF HandleChosenReq, ChosenMatches
<1>2. PICK v \in ChosenVotes : SameBallot(v, m.prop)
  BY <1>1 DEF IdsInv, ReqIds
<1>3. pp.pid > 0
  BY <1>1, <1>2, ChosenAsked DEF SameBallot
<1>4. pp # ZeroProposal
  BY <1>3 DEF ZeroProposal
<1>5. pp.entry = e /\ Asked(Vote(pp))
  BY <1>1, <1>4 DEF IdsInv, EntIds
<1> QED BY <1>1, <1>5 DEF EntryRec

\* handleChosenReq marks the vote held and changes nothing else of it.
LEMMA HandleChosenReqIds ==
    ASSUME TypeOK, Shape, AskInv, IdsInv, NEW a \in Acceptor, NEW m \in reqs,
           HandleChosenReq(a, m), UNCHANGED proposerVars
    PROVE  /\ IdsInv'
           /\ m.prop.entry \in Entry /\ ent[a][m.prop.entry].acc # None
           /\ Vote(ent'[a][m.prop.entry].acc) = Vote(ent[a][m.prop.entry].acc)
           /\ \A b \in Acceptor, e \in Entry :
                b # a \/ e # m.prop.entry => ent'[b][e] = ent[b][e]
<1> DEFINE e == m.prop.entry
           y == ent[a][e]
           q == [y.acc EXCEPT !.status = "CHOSEN"]
           x == [y EXCEPT !.acc = q]
<1>1. e \in Entry /\ y \in EntryRec /\ y.acc # None /\ y.acc \in Proposal
  BY ReqFacts DEF HandleChosenReq, ChosenMatches
<1>2. q \in Proposal /\ Vote(q) = Vote(y.acc) /\ q.entry = y.acc.entry
  BY <1>1 DEF Proposal, Status, Vote
<1>3. /\ ent' = [ent EXCEPT ![a][e] = x] /\ StoreStep(a, e, x)
      /\ UNCHANGED <<votes, reqs, rsps>>
  BY DEF HandleChosenReq, SetChosen, StoreStep
<1> HIDE DEF q
<1>4. x \in EntryRec /\ x.acc = q
  BY <1>1, <1>2 DEF EntryRec
<1> HIDE DEF x
<1>5. /\ ent'[a][e] = x
      /\ \A b \in Acceptor, f \in Entry : b # a \/ f # e => ent'[b][f] = ent[b][f]
      /\ \A b \in Acceptor, f \in Entry : RowStep(b, f)
  BY <1>1, <1>3, <1>4, OneEntryStep
<1>6. ChosenVotes' = ChosenVotes
  BY <1>3, ChosenSame
<1>7. ASSUME NEW b \in Acceptor, NEW f \in Entry PROVE EntIds(ent'[b][f], f)
  <2>1. CASE b = a /\ f = e
    <3>1. y.acc.entry = e /\ Asked(Vote(y.acc))
      BY MatchedVote
    <3> QED BY <1>2, <1>4, <1>5, <2>1, <3>1 DEF EntIds
  <2>2. CASE ~(b = a /\ f = e)
    BY <1>5, <2>2 DEF IdsInv
  <2> QED BY <2>1, <2>2
<1>8. IdsInv'
  BY <1>3, <1>5, <1>6, <1>7, AcceptorIdsFrame
<1> QED BY <1>1, <1>2, <1>4, <1>5, <1>8

-----------------------------------------------------------------------------
\* A crash brings back rows, with the ids they were saved with.
LEMMA CrashIds ==
    ASSUME TypeOK, DiskInv, IdsInv, NEW a \in Acceptor, CrashAcceptor(a),
           UNCHANGED proposerVars
    PROVE  IdsInv'
<1>1. /\ \A e \in Entry : ent'[a][e] = disk[a][e]
      /\ \A b \in Acceptor : b # a => ent'[b] = ent[b]
      /\ UNCHANGED <<disk, votes, reqs, rsps>>
  BY CrashEffect
<1>2. \A b \in Acceptor, e \in Entry : EntIds(ent'[b][e], e) /\ RowStep(b, e)
  BY <1>1 DEF IdsInv, RowStep
<1>3. ChosenVotes' = ChosenVotes
  BY <1>1, ChosenSame
<1> QED BY <1>1, <1>2, <1>3, AcceptorIdsFrame

\* At the start every generator stands at its first id.
LEMMA InitIds == Init => IdsInv
<1> SUFFICES ASSUME Init PROVE IdsInv
  OBVIOUS
<1>1. ASSUME NEW p \in Proposer PROVE InstIds(p, inst[p])
  <2>1. inst[p] = NewInstance(p, 0, 0, <<>>)
    BY DEF Init, ProposerInit
  <2>2. /\ inst[p].req = None /\ inst[p].calls = 0 /\ inst[p].ret = <<>>
        /\ inst[p].ig = p + 1 /\ inst[p].inc = 0 /\ inst[p].vig = ClockStart[p][0]
    BY <2>1 DEF NewInstance
  <2>3. MaxCalls[p] \in Nat /\ MaxInc \in Nat /\ ClockStart[p][0] \in Nat
    <3>1. 0 \in 0 .. MaxInc
      BY ProposerAssumption
    <3> QED BY <3>1, ProposerAssumption
  <2>4. OwnId(p, p + 1)
    <3>1. NumProposer \in Nat \ {0} /\ p \in 0 .. NumProposer - 1 /\ p = 0 * NumProposer + p
      BY SynodAssumption DEF Proposer
    <3>2. p % NumProposer = p /\ p + 1 - 1 = p
      BY <3>1, ModUnique
    <3> QED BY <3>1, <3>2 DEF OwnId
  <2>5. Len(<<>>) = 0
    OBVIOUS
  <2> QED BY <2>2, <2>3, <2>4, <2>5 DEF InstIds
<1>2. /\ reqs = {} /\ rsps = {}
      /\ \A a \in Acceptor, e \in Entry :
           ent[a][e].acc = None /\ disk[a][e].acc = None
      /\ \A a \in Acceptor : votes[a] = {}
  BY DEF Init, AcceptorInit, EmptyEntry
<1> QED BY <1>1, <1>2 DEF IdsInv, EntIds

\* Every step keeps the ids in order.
LEMMA NextIds ==
    ASSUME IInv, IdsInv, [Next]_vars
    PROVE  IdsInv'
<1>0. TypeOK /\ Shape /\ AskInv /\ DiskInv
  BY DEF IInv, BallotInv
<1>1. CASE AcceptorNext
  <2>1. PICK a \in Up : \E m \in {n \in reqs : Delivered(a, n)} :
       \/ PrepareLags(a, m) /\ UNCHANGED proposerVars
       \/ PrepareSeesVote(a, m) /\ UNCHANGED proposerVars
       \/ PrepareSeesPromise(a, m) /\ UNCHANGED proposerVars
       \/ PrepareNew(a, m) /\ UNCHANGED proposerVars
       \/ AcceptLags(a, m) /\ UNCHANGED proposerVars
       \/ AcceptVotes(a, m) /\ UNCHANGED proposerVars
       \/ AcceptDuplicate(a, m) /\ UNCHANGED proposerVars
       \/ AcceptRefused(a, m) /\ UNCHANGED proposerVars
       \/ HandleChosenReq(a, m) /\ UNCHANGED proposerVars
    BY <1>1 DEF AcceptorNext
  <2>2. a \in Acceptor
    BY NetworkAssumption
  <2> QED BY <1>0, <2>1, <2>2, PrepareAnswers, AcceptAnswers, AnswersIds,
             AcceptVotesIds, HandleChosenReqIds
<1>2. CASE ProposerNext
  <2>1. PICK p \in Proposer :
       \/ \E kind \in CallKinds :
            ProposePrepare(p, kind) /\ UNCHANGED acceptorVars
       \/ ProposeAccept(p) /\ UNCHANGED acceptorVars
       \/ \E r \in rsps :
            \/ HandlePrepareRsp(p, r) /\ UNCHANGED acceptorVars
            \/ HandleAcceptRsp(p, r) /\ UNCHANGED acceptorVars
       \/ Timeout(p) /\ UNCHANGED acceptorVars
       \/ Restart(p) /\ UNCHANGED acceptorVars
    BY <1>2 DEF ProposerNext
  <2>2. ASSUME NEW r \in rsps, HandlePrepareRsp(p, r), UNCHANGED acceptorVars
        PROVE  IdsInv'
    BY <1>0, <2>2, PrepareRspFailedIds, PrepareRspRejectedIds, PrepareRspAbortsIds,
       PrepareRspAcceptsIds, PrepareRspProbedIds, PrepareRspWaitsIds
       DEF HandlePrepareRsp
  <2>3. ASSUME NEW r \in rsps, HandleAcceptRsp(p, r), UNCHANGED acceptorVars
        PROVE  IdsInv'
    BY <1>0, <2>3, AcceptRspFailedIds, AcceptRspRejectedIds, AcceptRspOtherIds,
       AcceptRspChosenIds, AcceptRspWaitsIds DEF HandleAcceptRsp
  <2> QED
    BY <1>0, <2>1, <2>2, <2>3, ProposePrepareIds, ProposeAcceptIds, TimeoutIds, RestartIds
<1>3. CASE ChosenNotify
  BY <1>0, <1>3, ChosenNotifyIds
<1>4. CASE AcceptorCrash
  <2>1. PICK a \in Acceptor : CrashAcceptor(a) /\ UNCHANGED proposerVars
    BY <1>4, NetworkAssumption DEF AcceptorCrash
  <2> QED BY <1>0, <2>1, CrashIds
<1>5. CASE UNCHANGED vars
  <2>1. /\ UNCHANGED proposerVars /\ UNCHANGED <<reqs, rsps, votes, ent, disk>>
        /\ ChosenVotes' = ChosenVotes
    BY <1>5, ChosenSame DEF vars, acceptorVars, storeVars, proposerVars
  <2>2. \A b \in Acceptor, e \in Entry : EntIds(ent'[b][e], e) /\ RowStep(b, e)
    BY <2>1 DEF IdsInv, RowStep
  <2> QED BY <1>0, <2>1, <2>2, AcceptorIdsFrame
<1> QED BY <1>1, <1>2, <1>3, <1>4, <1>5 DEF Next

\* All that the ids rest on: the ballots, for the zeroed vote of a loaded row
\* matches no CHOSEN request because nothing is chosen under pid 0.
IdsIInv == IInv /\ IdsInv

\* Every pid and value id stays with the call that took it.
THEOREM IdsKept == Spec => []IdsInv
<1>1. Init => IdsIInv
  BY InitInv, InitIds DEF IdsIInv
<1>2. IdsIInv /\ [Next]_vars => IdsIInv'
  BY NextInv, NextIds DEF IdsIInv
<1>3. IdsIInv => IdsInv
  BY DEF IdsIInv
<1> QED BY <1>1, <1>2, <1>3, PTL DEF Spec

\* Proposal ids never collide between proposers: SetGreaterThan stays in the
\* progression whatever pid it is given, UpdateChosenInfo and restarts go back
\* to its start, and a CHOSEN request repeats the pid of its accept request.
THEOREM PidsKept == Spec => []OwnPids
<1>1. IdsInv => OwnPids
  BY DEF IdsInv, ReqIds, OwnId, OwnPids
<1> QED BY <1>1, IdsKept, PTL

\* A client is answered exactly once per call, whichever of the responses, the
\* timer and a restart comes first.
THEOREM AnswersOnce == Spec => []AnsweredOnce
<1>1. Shape /\ IdsInv => AnsweredOnce
  BY DEF IdsInv, InstIds, Shape, InstShape, AnsweredOnce
<1>2. Init => IdsIInv
  BY InitInv, InitIds DEF IdsIInv
<1>3. IdsIInv /\ [Next]_vars => IdsIInv'
  BY NextInv, NextIds DEF IdsIInv
<1>4. IdsIInv => AnsweredOnce
  BY <1>1 DEF IdsIInv, IInv, BallotInv
<1> QED BY <1>2, <1>3, <1>4, PTL DEF Spec

-----------------------------------------------------------------------------
\* Two accept requests of one proposer with one value id ask for one vote: in
\* one run by VidMatches, and between two runs the ids never meet.
LEMMA RunsTellApart ==
    ASSUME TypeOK', IdsInv', DistinctValueIds,
           NEW m \in reqs', NEW n \in reqs',
           m.type = "ACCEPT_REQ", n.type = "ACCEPT_REQ",
           m.src = n.src, m.prop.vid = n.prop.vid,
           n.inc = inst'[n.src].inc, inst'[n.src].req # None,
           Vote(n.prop) = Vote(inst'[n.src].req)
    PROVE  Vote(m.prop) = Vote(n.prop)
<1> DEFINE p == n.src
           st == inst'[p]
<1>1. p \in Proposer /\ m.inc \in Nat /\ n.inc \in Nat /\ n.prop.vid \in Nat
  BY DEF TypeOK, NetTypeOK, Request, Proposal
<1>2. VidMatches(m, st) /\ VidMatches(n, st) /\ st.inc <= MaxInc
  BY <1>1 DEF IdsInv, VidMatches, InstIds
<1>3. st.req.vid = n.prop.vid
  BY VoteFields
<1>4. CASE m.inc = st.inc
  BY <1>2, <1>3, <1>4 DEF VidMatches
<1>5. CASE m.inc # st.inc
  <2>1. m.inc \in 0 .. MaxInc /\ n.inc \in 0 .. MaxInc /\ m.inc # n.inc
    BY <1>1, <1>2, <1>5, ProposerAssumption DEF VidMatches
  <2>2. /\ ClockStart[p][m.inc] \in Nat /\ ClockStart[p][n.inc] \in Nat
        /\ MaxCalls[p] \in Nat
    BY <1>1, <2>1, ProposerAssumption
  <2>3. \/ ClockStart[p][m.inc] + MaxCalls[p] <= ClockStart[p][n.inc]
        \/ ClockStart[p][n.inc] + MaxCalls[p] <= ClockStart[p][m.inc]
    BY <1>1, <2>1 DEF DistinctValueIds
  <2>4. /\ ClockStart[p][m.inc] <= n.prop.vid
        /\ n.prop.vid < ClockStart[p][m.inc] + MaxCalls[p]
        /\ ClockStart[p][n.inc] <= n.prop.vid
        /\ n.prop.vid < ClockStart[p][n.inc] + MaxCalls[p]
    BY <1>2 DEF VidMatches
  <2> QED BY <1>1, <2>2, <2>3, <2>4
<1> QED BY <1>4, <1>5

\* A step of a proposer.
LEMMA TellsLearn ==
    ASSUME TypeOK, TypeOK', IdsInv', DistinctValueIds, LearnInv, Tells
    PROVE  LearnInv'
<1>1. votes' = votes /\ ent' = ent /\ lastChosen' = lastChosen /\ globalMax' = globalMax
  BY DEF Tells, acceptorVars
<1>2. ChosenVotes' = ChosenVotes /\ \A v : Chosen(v)' <=> Chosen(v)
  BY <1>1, ChosenSame
<1>3. VidsTellApart'
  <2> SUFFICES ASSUME NEW m \in reqs', NEW n \in reqs',
                      m.type = "ACCEPT_REQ", n.type = "ACCEPT_REQ",
                      m.src = n.src, m.prop.vid = n.prop.vid
               PROVE  Vote(m.prop) = Vote(n.prop)
    BY DEF VidsTellApart
  <2>1. CASE m \in reqs /\ n \in reqs
    BY <2>1 DEF LearnInv, VidsTellApart
  <2>2. CASE n \notin reqs
    BY <2>2, RunsTellApart DEF Tells
  <2>3. CASE m \notin reqs
    BY <2>3, RunsTellApart DEF Tells
  <2> QED BY <2>1, <2>2, <2>3
<1>4. ToldIsChosen'
  <2> SUFFICES ASSUME NEW m \in reqs', m.type # "CHOSEN_REQ", m.prop.last > 0
               PROVE  \E v \in ChosenVotes : v.entry = m.prop.last
    BY <1>2 DEF ToldIsChosen
  <2>1. CASE m \in reqs
    BY <2>1 DEF LearnInv, ToldIsChosen
  <2>2. CASE m \notin reqs
    <3>1. m.src \in Proposer /\ m.prop.last = inst[m.src].lastEntry
      BY <2>2 DEF Tells, TypeOK, NetTypeOK, Request
    <3> QED BY <3>1 DEF LearnInv, ChosenInfoSound
  <2> QED BY <2>1, <2>2
<1>5. ChosenInfoSound'
  BY <1>2 DEF Tells, LearnInv, ChosenInfoSound
<1>6. MarkedIsChosen'
  BY <1>1, <1>2 DEF LearnInv, MarkedIsChosen
<1>7. LagSignalSound'
  BY <1>1, <1>2 DEF LearnInv, LagSignalSound
<1> QED BY <1>3, <1>4, <1>5, <1>6, <1>7 DEF LearnInv

\* A step of an acceptor.
LEMMA AcceptorLearns ==
    ASSUME LearnInv, UNCHANGED proposerVars, UNCHANGED reqs,
           ChosenVotes \subseteq ChosenVotes', MarkedIsChosen', LagSignalSound'
    PROVE  LearnInv'
<1>1. VidsTellApart'
  BY DEF LearnInv, VidsTellApart
<1>2. ToldIsChosen'
  BY DEF LearnInv, ToldIsChosen
<1>3. ChosenInfoSound'
  BY DEF LearnInv, ChosenInfoSound, proposerVars
<1> QED BY <1>1, <1>2, <1>3 DEF LearnInv

\* CheckLocalAndMayTriggerCatchup notes a chosen entry or nothing.
LEMMA NoteCatchupLearns ==
    ASSUME TypeOK, LearnInv, NEW a \in Acceptor, NEW m \in reqs,
           lastChosen' = lastChosen, ChosenVotes \subseteq ChosenVotes',
           \/ globalMax' = globalMax
           \/ m.type # "CHOSEN_REQ" /\ NoteCatchup(a, m.prop)
    PROVE  LagSignalSound'
<1>1. LagSignalSound /\ m.prop.last \in Nat
  BY DEF LearnInv, TypeOK, NetTypeOK, Request, Proposal
<1>2. \A b \in Acceptor : globalMax[b] \in Nat /\ lastChosen[b] \in Nat
  BY DEF TypeOK, AcceptorTypeOK
<1>3. CASE globalMax' = globalMax
  BY <1>1, <1>3 DEF LagSignalSound
<1>4. CASE m.type # "CHOSEN_REQ" /\ NoteCatchup(a, m.prop)
  <2>1. m.prop.last > 0 => \E v \in ChosenVotes : v.entry = m.prop.last
    BY <1>4 DEF LearnInv, ToldIsChosen
  <2>2. /\ \A b \in Acceptor : b # a => globalMax'[b] = globalMax[b]
        /\ \/ globalMax'[a] = globalMax[a]
           \/ globalMax'[a] = m.prop.last /\ globalMax[a] < m.prop.last
    BY <1>4 DEF NoteCatchup, SetMaxChosen, TypeOK, AcceptorTypeOK
  <2>3. ASSUME NEW b \in Acceptor
        PROVE  /\ lastChosen[b] <= globalMax'[b]
               /\ globalMax'[b] > 0 => \E v \in ChosenVotes : v.entry = globalMax'[b]
    <3>1. CASE globalMax'[b] = globalMax[b]
      BY <1>1, <3>1 DEF LagSignalSound
    <3>2. CASE b = a /\ globalMax'[a] = m.prop.last /\ globalMax[a] < m.prop.last
      BY <1>1, <1>2, <2>1, <3>2 DEF LagSignalSound
    <3> QED BY <2>2, <3>1, <3>2
  <2> QED BY <2>3 DEF LagSignalSound
<1> QED BY <1>3, <1>4

\* An answer without a vote teaches at most the catch-up signal.
LEMMA AnswersLearn ==
    ASSUME TypeOK, LearnInv, NEW a \in Acceptor, NEW m \in reqs, Answers(a, m),
           UNCHANGED proposerVars
    PROVE  LearnInv'
<1>1. ChosenVotes' = ChosenVotes /\ \A v : Chosen(v)' <=> Chosen(v)
  BY ChosenSame DEF Answers
<1>2. LagSignalSound'
  BY <1>1, NoteCatchupLearns DEF Answers
<1>3. MarkedIsChosen'
  BY <1>1 DEF LearnInv, MarkedIsChosen, Answers
<1> QED BY <1>1, <1>2, <1>3, AcceptorLearns DEF Answers

\* A new vote is not marked, and those that are stay chosen.
LEMMA AcceptVotesLearn ==
    ASSUME TypeOK, Shape, IdsInv, LearnInv, NEW a \in Acceptor, NEW m \in reqs,
           AcceptVotes(a, m), UNCHANGED proposerVars
    PROVE  LearnInv'
<1>1. /\ \A b \in Acceptor, e \in Entry :
           ent'[b][e].acc = ent[b][e].acc \/ ent'[b][e].acc.status = "ACCEPTED"
      /\ ChosenVotes \subseteq ChosenVotes'
      /\ \A u : Chosen(u) => Chosen(u)'
  BY AcceptVotesIds
<1>2. m.type = "ACCEPT_REQ" /\ lastChosen' = lastChosen /\ reqs' = reqs
      /\ NoteCatchup(a, m.prop)
  BY DEF AcceptVotes
<1>3. LagSignalSound'
  BY <1>1, <1>2, NoteCatchupLearns
<1>4. MarkedIsChosen'
  <2> SUFFICES ASSUME NEW b \in Acceptor, NEW e \in Entry, ent'[b][e].acc # None,
                      ent'[b][e].acc.status = "CHOSEN"
               PROVE  Chosen(Vote(ent[b][e].acc))'
    BY DEF MarkedIsChosen
  <2>1. ent'[b][e].acc = ent[b][e].acc
    BY <1>1
  <2>2. PICK u : u = Vote(ent[b][e].acc)
    OBVIOUS
  <2>3. Chosen(u)'
    BY <1>1, <2>1, <2>2 DEF LearnInv, MarkedIsChosen
  <2>4. u = Vote(ent'[b][e].acc)
    BY <2>1, <2>2
  <2> QED BY <2>3, <2>4 DEF Chosen
<1> QED BY <1>1, <1>2, <1>3, <1>4, AcceptorLearns

\* A CHOSEN request names entry, pid and value id; the vote held under them is
\* the chosen one, because the pid tells the proposer and the value id the call.
LEMMA HandleChosenReqLearn ==
    ASSUME TypeOK, Shape, AskInv, IdsInv, LearnInv, NEW a \in Acceptor, NEW m \in reqs,
           HandleChosenReq(a, m), UNCHANGED proposerVars
    PROVE  LearnInv'
<1>1. /\ m.type = "CHOSEN_REQ" /\ ChosenMatches(ent[a][m.prop.entry], m.prop)
      /\ SetChosen(a, m.prop.entry) /\ UNCHANGED <<votes, reqs, rsps>>
  BY DEF HandleChosenReq
<1>2. PICK e \in Entry : e = m.prop.entry
  BY HandleChosenReqIds
<1>3. PICK pp : pp = ent[a][e].acc
  OBVIOUS
<1>4. /\ pp # None /\ Vote(ent'[a][e].acc) = Vote(pp)
      /\ \A b \in Acceptor, f \in Entry : b # a \/ f # e => ent'[b][f] = ent[b][f]
  BY <1>2, <1>3, HandleChosenReqIds
<1>5. pp.pid = m.prop.pid /\ pp.vid = m.prop.vid /\ pp.entry = e /\ Asked(Vote(pp))
  BY <1>2, <1>3, MatchedVote
<1>6. PICK v \in ChosenVotes : SameBallot(v, m.prop)
  BY <1>1 DEF IdsInv, ReqIds
<1>7. Asked(v)
  BY ChosenAsked
<1>8. PICK k \in reqs : k.type = "ACCEPT_REQ" /\ Vote(k.prop) = Vote(pp)
  BY <1>5 DEF Asked
<1>9. PICK n \in reqs : n.type = "ACCEPT_REQ" /\ Vote(n.prop) = v
  BY <1>7 DEF Asked
<1>10. k.prop.pid = pp.pid /\ k.prop.vid = pp.vid
  BY <1>8, VoteFields
<1>11. n.prop.pid = v.pid /\ n.prop.vid = v.vid
  BY <1>9 DEF Vote
<1>12. /\ k.prop.pid = n.prop.pid /\ k.prop.vid = n.prop.vid
  BY <1>5, <1>6, <1>10, <1>11 DEF SameBallot
<1>13. k.src = n.src
  <2>1. /\ k.prop.pid > 0 => OwnId(k.src, k.prop.pid)
        /\ n.prop.pid > 0 => OwnId(n.src, n.prop.pid)
    BY <1>8, <1>9 DEF IdsInv, ReqIds
  <2>2. k.prop.pid > 0
    <3>1. k.prop.pid \in Nat
      BY DEF TypeOK, NetTypeOK, Request, Proposal
    <3>2. k.prop.pid >= 1
      BY <1>8 DEF AskInv
    <3> QED BY <3>1, <3>2
  <2> QED BY <1>12, <2>1, <2>2 DEF OwnId
<1>14. Vote(pp) = v
  BY <1>8, <1>9, <1>12, <1>13 DEF LearnInv, VidsTellApart
<1>15. ChosenVotes' = ChosenVotes /\ \A u : Chosen(u)' <=> Chosen(u)
  BY <1>1, ChosenSame
<1>16. MarkedIsChosen'
  <2> SUFFICES ASSUME NEW b \in Acceptor, NEW f \in Entry, ent'[b][f].acc # None,
                      ent'[b][f].acc.status = "CHOSEN"
               PROVE  Chosen(Vote(ent[b][f].acc))'
    BY DEF MarkedIsChosen
  <2>1. PICK u : u = Vote(ent'[b][f].acc)
    OBVIOUS
  <2>2. Chosen(u)
    <3>1. CASE b = a /\ f = e
      BY <1>4, <1>6, <1>14, <2>1, <3>1, ChosenIsMember
    <3>2. CASE ~(b = a /\ f = e)
      BY <1>4, <2>1, <3>2 DEF LearnInv, MarkedIsChosen
    <3> QED BY <3>1, <3>2
  <2> QED BY <1>15, <2>1, <2>2 DEF Chosen
<1>17. LagSignalSound'
  <2>1. LagSignalSound /\ v.entry = e /\ e \in Nat
    BY <1>2, <1>6, SynodAssumption DEF LearnInv, SameBallot, Entry
  <2>2. \A b \in Acceptor : globalMax[b] \in Nat /\ lastChosen[b] \in Nat
    BY DEF TypeOK, AcceptorTypeOK
  <2>3. \A b \in Acceptor :
          /\ globalMax'[b] = IF b = a /\ globalMax[b] < e THEN e ELSE globalMax[b]
          /\ lastChosen'[b] = IF b = a /\ lastChosen[b] < e THEN e ELSE lastChosen[b]
    BY <1>1, <1>2 DEF SetChosen, SetMaxChosen, TypeOK, AcceptorTypeOK
  <2>4. ASSUME NEW b \in Acceptor
        PROVE  /\ lastChosen'[b] <= globalMax'[b]
               /\ globalMax'[b] > 0 => \E u \in ChosenVotes : u.entry = globalMax'[b]
    <3>1. lastChosen[b] <= globalMax[b]
      BY <2>1 DEF LagSignalSound
    <3>2. globalMax[b] > 0 => \E u \in ChosenVotes : u.entry = globalMax[b]
      BY <2>1 DEF LagSignalSound
    <3> QED BY <1>6, <2>1, <2>2, <2>3, <3>1, <3>2
  <2> QED BY <1>15, <2>4 DEF LagSignalSound
<1> QED BY <1>1, <1>15, <1>16, <1>17, AcceptorLearns

\* The rows that a crash brings back mark as chosen what memory did, and the
\* last of them becomes the catch-up signal.
LEMMA CrashLearns ==
    ASSUME TypeOK, DiskInv, IdsInv, LearnInv, NEW a \in Acceptor, CrashAcceptor(a),
           UNCHANGED proposerVars
    PROVE  LearnInv'
<1>1. /\ \A e \in Entry : ent'[a][e] = disk[a][e]
      /\ \A b \in Acceptor : b # a => ent'[b] = ent[b]
      /\ lastChosen' = lastChosen /\ globalMax' = [globalMax EXCEPT ![a] = lastChosen[a]]
      /\ UNCHANGED <<disk, votes, reqs, rsps>>
  BY CrashEffect
<1>2. ChosenVotes' = ChosenVotes /\ \A v : Chosen(v)' <=> Chosen(v)
  BY <1>1, ChosenSame
<1>3. ASSUME NEW e \in Entry, IsChosen(disk[a][e])
      PROVE  Chosen(Vote(disk[a][e].acc)) /\ Vote(disk[a][e].acc).entry = e
  <2>1. ent[a][e].acc = disk[a][e].acc
    BY <1>3 DEF DiskInv, RowInv
  <2>2. disk[a][e].acc # ZeroProposal
    BY <1>3 DEF IsChosen, ZeroProposal
  <2>3. disk[a][e].acc.entry = e
    BY <1>3, <2>2 DEF IdsInv, EntIds, IsChosen
  <2>4. Chosen(Vote(ent[a][e].acc))
    BY <1>3, <2>1 DEF LearnInv, MarkedIsChosen, IsChosen
  <2> QED BY <2>1, <2>3, <2>4 DEF Vote
<1>4. MarkedIsChosen'
  <2> SUFFICES ASSUME NEW b \in Acceptor, NEW e \in Entry, IsChosen(ent'[b][e])
               PROVE  Chosen(Vote(ent[b][e].acc))'
    BY DEF MarkedIsChosen, IsChosen
  <2>1. PICK u : u = Vote(ent'[b][e].acc)
    OBVIOUS
  <2>2. Chosen(u)
    <3>1. CASE b = a
      BY <1>1, <1>3, <2>1, <3>1
    <3>2. CASE b # a
      BY <1>1, <2>1, <3>2 DEF LearnInv, MarkedIsChosen, IsChosen
    <3> QED BY <3>1, <3>2
  <2> QED BY <1>2, <2>1, <2>2 DEF Chosen
<1>5. LagSignalSound'
  <2>1. LagSignalSound /\ lastChosen[a] \in Nat
    BY DEF LearnInv, TypeOK, AcceptorTypeOK
  <2>2. \A b \in Acceptor :
          globalMax'[b] = IF b = a THEN lastChosen[a] ELSE globalMax[b]
    BY <1>1 DEF TypeOK, AcceptorTypeOK
  <2>3. lastChosen[a] > 0 => \E v \in ChosenVotes : v.entry = lastChosen[a]
    <3> SUFFICES ASSUME lastChosen[a] > 0
                 PROVE  \E v \in ChosenVotes : v.entry = lastChosen[a]
      OBVIOUS
    <3>1. PICK e \in Entry : e = lastChosen[a] /\ IsChosen(disk[a][e])
      BY DEF DiskInv, ChosenRows, IsChosen
    <3> QED BY <1>3, <3>1, ChosenIsMember
  <2> QED BY <1>1, <1>2, <2>1, <2>2, <2>3 DEF LagSignalSound
<1> QED BY <1>1, <1>2, <1>4, <1>5, AcceptorLearns

\* At the start nothing is taken for chosen.
LEMMA InitLearn == Init => LearnInv
<1> SUFFICES ASSUME Init PROVE LearnInv
  OBVIOUS
<1>1. /\ reqs = {}
      /\ \A a \in Acceptor, e \in Entry : ent[a][e].acc = None
      /\ \A a \in Acceptor : lastChosen[a] = 0 /\ globalMax[a] = 0
  BY DEF Init, AcceptorInit, EmptyEntry
<1>2. ASSUME NEW p \in Proposer PROVE inst[p].lastEntry = 0
  <2>1. inst[p] = NewInstance(p, 0, 0, <<>>)
    BY DEF Init, ProposerInit
  <2> QED BY <2>1 DEF NewInstance
<1> QED BY <1>1, <1>2 DEF LearnInv, VidsTellApart, ToldIsChosen, MarkedIsChosen,
           ChosenInfoSound, LagSignalSound

\* Every step keeps what is taken for chosen within what is chosen.
LEMMA NextLearn ==
    ASSUME IInv, IInv', IdsInv, IdsInv', DistinctValueIds, LearnInv, [Next]_vars
    PROVE  LearnInv'
<1>0. TypeOK /\ TypeOK' /\ Shape /\ AskInv /\ DiskInv
  BY DEF IInv, BallotInv
<1>1. CASE AcceptorNext
  <2>1. PICK a \in Up : \E m \in {n \in reqs : Delivered(a, n)} :
       \/ PrepareLags(a, m) /\ UNCHANGED proposerVars
       \/ PrepareSeesVote(a, m) /\ UNCHANGED proposerVars
       \/ PrepareSeesPromise(a, m) /\ UNCHANGED proposerVars
       \/ PrepareNew(a, m) /\ UNCHANGED proposerVars
       \/ AcceptLags(a, m) /\ UNCHANGED proposerVars
       \/ AcceptVotes(a, m) /\ UNCHANGED proposerVars
       \/ AcceptDuplicate(a, m) /\ UNCHANGED proposerVars
       \/ AcceptRefused(a, m) /\ UNCHANGED proposerVars
       \/ HandleChosenReq(a, m) /\ UNCHANGED proposerVars
    BY <1>1 DEF AcceptorNext
  <2>2. a \in Acceptor
    BY NetworkAssumption
  <2> QED BY <1>0, <2>1, <2>2, PrepareAnswers, AcceptAnswers, AnswersLearn,
             AcceptVotesLearn, HandleChosenReqLearn
<1>2. CASE ProposerNext
  <2>1. PICK p \in Proposer :
       \/ \E kind \in CallKinds :
            ProposePrepare(p, kind) /\ UNCHANGED acceptorVars
       \/ ProposeAccept(p) /\ UNCHANGED acceptorVars
       \/ \E r \in rsps :
            \/ HandlePrepareRsp(p, r) /\ UNCHANGED acceptorVars
            \/ HandleAcceptRsp(p, r) /\ UNCHANGED acceptorVars
       \/ Timeout(p) /\ UNCHANGED acceptorVars
       \/ Restart(p) /\ UNCHANGED acceptorVars
    BY <1>2 DEF ProposerNext
  <2>2. ASSUME NEW r \in rsps, HandlePrepareRsp(p, r), UNCHANGED acceptorVars
        PROVE  Tells
    BY <1>0, <2>2, PrepareRspFailedIds, PrepareRspRejectedIds, PrepareRspAbortsIds,
       PrepareRspAcceptsIds, PrepareRspProbedIds, PrepareRspWaitsIds, UntoldTells
       DEF HandlePrepareRsp
  <2>3. ASSUME NEW r \in rsps, HandleAcceptRsp(p, r), UNCHANGED acceptorVars
        PROVE  Tells
    BY <1>0, <2>3, AcceptRspFailedIds, AcceptRspRejectedIds, AcceptRspOtherIds,
       AcceptRspChosenIds, AcceptRspWaitsIds, UntoldTells DEF HandleAcceptRsp
  <2>4. Tells
    BY <1>0, <2>1, <2>2, <2>3, ProposePrepareIds, ProposeAcceptIds, TimeoutIds,
       RestartIds, UntoldTells
  <2> QED BY <1>0, <2>4, TellsLearn
<1>3. CASE ChosenNotify
  <2>1. MarkedIsChosen
    BY DEF LearnInv
  <2>2. Tells
    BY <1>0, <1>3, <2>1, ChosenNotifyIds
  <2> QED BY <1>0, <2>2, TellsLearn
<1>4. CASE AcceptorCrash
  <2>1. PICK a \in Acceptor : CrashAcceptor(a) /\ UNCHANGED proposerVars
    BY <1>4, NetworkAssumption DEF AcceptorCrash
  <2> QED BY <1>0, <2>1, CrashLearns
<1>5. CASE UNCHANGED vars
  <2>1. UNCHANGED acceptorVars /\ UNCHANGED <<reqs, inst>>
    BY <1>5 DEF vars
  <2>2. Tells
    BY <2>1 DEF Tells
  <2> QED BY <1>0, <2>2, TellsLearn
<1> QED BY <1>1, <1>2, <1>3, <1>4, <1>5 DEF Next

\* The whole invariant, with the assumption on the clocks it is kept under.
LearnIInv == IInv /\ IdsInv /\ DistinctValueIds /\ LearnInv

\* What the servers take for chosen is chosen, if no two runs of a process draw
\* the same value ids.
THEOREM Learned == DistinctValueIds /\ Spec => []LearnInv
<1>1. DistinctValueIds /\ Init => LearnIInv
  BY InitInv, InitIds, InitLearn DEF LearnIInv
<1>2. LearnIInv /\ [Next]_vars => LearnIInv'
  <2> SUFFICES ASSUME LearnIInv, [Next]_vars PROVE LearnIInv'
    OBVIOUS
  <2>1. IInv' /\ IdsInv'
    BY NextInv, NextIds DEF LearnIInv
  <2>2. LearnInv'
    BY <2>1, NextLearn DEF LearnIInv
  <2> QED BY <2>1, <2>2 DEF LearnIInv, DistinctValueIds
<1>3. LearnIInv => LearnInv
  BY DEF LearnIInv
<1> QED BY <1>1, <1>2, <1>3, PTL DEF Spec

\* A plog entry that handleChosenReq marked CHOSEN holds the value that a
\* majority accepted, though the request named it by pid and value id only.
THEOREM MarksAreChosen == DistinctValueIds /\ Spec => []MarkedIsChosen
<1>1. LearnInv => MarkedIsChosen
  BY DEF LearnInv
<1> QED BY <1>1, Learned, PTL

\* What UpdateChosenInfo notes, after an accept round or on a notification,
\* was chosen, and proposed by the proposer noted: canSkipPrepare may rely on it.
THEOREM ChosenInfoHolds == DistinctValueIds /\ Spec => []ChosenInfoSound
<1>1. LearnInv => ChosenInfoSound
  BY DEF LearnInv
<1> QED BY <1>1, Learned, PTL

\* global_max_chosen_entry_ names a chosen entry and is never behind the
\* acceptor's own last chosen entry.
THEOREM LagSignalHolds == DistinctValueIds /\ Spec => []LagSignalSound
<1>1. LearnInv => LagSignalSound
  BY DEF LearnInv
<1> QED BY <1>1, Learned, PTL

=============================================================================
