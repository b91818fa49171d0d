--------------------------- MODULE SynodConsensus ---------------------------
(***************************************************************************)
(* Synod seen as Consensus: a value is the Propose call that supplied it,  *)
(* it is chosen when a majority has reported the vote for it, and an entry *)
(* is void once a proposer other than the master fast accepts in it or a   *)
(* crash makes an acceptor forget a promise there.                         *)
(***************************************************************************)
EXTENDS SynodInv

ValueOf(v) == [proposer |-> v.proposer, val |-> v.val]

ChosenValues == {<<v.entry, ValueOf(v)>> : v \in ChosenVotes}

Abstract == INSTANCE Consensus WITH
    chosen <- ChosenValues,
    void <- VoidEntries

\* Whatever the acceptors forget and the proposers repeat, the synod behaves
\* as a sequence of single choices that are never taken back.
ImplementsConsensus == Abstract!Spec

=============================================================================
