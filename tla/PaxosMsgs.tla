----------------------------- MODULE PaxosMsgs -----------------------------
(***************************************************************************)
(* What the proposers and the acceptors of one plog instance share: the    *)
(* configuration, struct Proposal and the two kinds of message of          *)
(* core/ptype.h, and the network between them.                             *)
(*                                                                         *)
(* The network is two growing sets.  A request is broadcast once and may   *)
(* be handled by each acceptor never (lost), once, or again later          *)
(* (duplicated, reordered); the same holds for a response.                 *)
(***************************************************************************)
EXTENDS Integers, FiniteSets

CONSTANTS
    Acceptor,      \* the synod; config_->total_acceptor_ is its size
    NumProposer,   \* config_->total_proposer_
    None,          \* a null shared_ptr
    MaxEntry       \* bound: last plog entry that is ever proposed to

ASSUME SynodAssumption ==
    /\ IsFiniteSet(Acceptor) /\ Acceptor # {}
    /\ NumProposer \in Nat \ {0}
    /\ MaxEntry \in Nat

VARIABLES
    reqs,          \* every request broadcast so far
    rsps           \* every response sent so far

-----------------------------------------------------------------------------
\* Proposer ids: the member ids PaxosGroupBase hands out, 0 is the master.
Proposer == 0 .. NumProposer - 1
Entry == 1 .. MaxEntry

\* config_->total_acceptor_ / 2 + 1 responses.
IsMajority(Q) == Cardinality(Q) >= Cardinality(Acceptor) \div 2 + 1

Status == {"INIT", "PREPARED", "PROMISED", "ACCEPTED", "CHOSEN",
           "PROMISED_FAILED", "ACCEPTED_FAILED", "LOCAL_LAG_BEHIND",
           "REMOTE_LAG_BEHIND"}

ErrCode == {"OK", "TIMEOUT", "PREPARE_NOT_QUORUM", "PREPARE_PEER_VALUE",
            "PEER_ACCEPT_FAIL", "PEER_ACCEPT_REJECTED",
            "PEER_ACCEPT_OTHER_VALUE", "WRITE_PLOG_FAIL",
            "INVALID_PLOG_DATA", "INVALID_PROPOSAL_REQ",
            "DUPLICATE_PROPOSAL_REQ", "REMOTE_NEED_CATCHUP", "CRASHED"}

\* struct Proposal.  vid is value_id_, last is last_chosen_ (0 where the code
\* has ~0, "nothing chosen yet").  data_ is abstracted to val: the number of
\* the Propose call of proposer that supplied it, 0 when size_ is 0.
Proposal == [entry : Nat, pid : Nat, term : Nat, vid : Nat, val : Nat,
             proposer : Proposer, last : Nat, status : Status]

\* AllocProposalMsg(0): a zeroed proposal.
ZeroProposal == [entry |-> 0, pid |-> 0, term |-> 0, vid |-> 0, val |-> 0,
                 proposer |-> 0, last |-> 0, status |-> "INIT"]

\* A request.  src and inc (the run of the process that sent it) stand for
\* the reqid_ under which the connection keeps the response callback.
Request == [type : {"PREPARE_REQ", "ACCEPT_REQ", "CHOSEN_REQ"},
            src : Proposer, inc : Nat, prop : Proposal]

\* A response of acceptor from to request req.
Response == [type : {"PREPARE_RSP", "ACCEPT_RSP"}, req : Request,
             from : Acceptor, err : ErrCode, prop : Proposal]

ASSUME NoneAssumption == None \notin Proposal

\* CopyProposalMeta(dst, src): the larger term wins (opaque_ is not modelled).
CopyProposalMeta(dst, src) ==
    [dst EXCEPT !.term = IF src.term > @ THEN src.term ELSE @]

\* The types of the network.
NetTypeOK == reqs \subseteq Request /\ rsps \subseteq Response

=============================================================================
