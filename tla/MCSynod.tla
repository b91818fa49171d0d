------------------------------ MODULE MCSynod ------------------------------
(***************************************************************************)
(* Synod for TLC.                                                          *)
(***************************************************************************)
EXTENDS SynodConsensus, TLC

\* Every proposer starts its k-th run in the same second as the others.
SameClock == [p \in Proposer |-> [k \in 0 .. MaxInc |-> 1]]

\* The runs of a process start in different seconds.
MovingClock == [p \in Proposer |-> [k \in 0 .. MaxInc |-> 1 + 10 * k]]

\* How many calls each proposer gets, the master first.
Calls(c0, c1) == [p \in Proposer |-> IF p = 0 THEN c0 ELSE c1]
Calls11 == Calls(1, 1)
Calls12 == Calls(1, 2)
Calls20 == Calls(2, 0)
Calls21 == Calls(2, 1)

\* The acceptors that run are interchangeable.
AcceptorSymmetry == Permutations(Up)

=============================================================================
