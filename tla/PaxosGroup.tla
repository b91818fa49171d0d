----------------------------- MODULE PaxosGroup -----------------------------
(***************************************************************************)
(* core/paxos_group.cpp: the tables that say which member of which group a *)
(* server is, as the constructors build them, and their look-ups.  Member  *)
(* ids are the proposer ids: member 0 is the master of the instance.       *)
(***************************************************************************)
EXTENDS Integers, SequencesExt, FiniteSetsExt

CONSTANTS
    N,          \* members of a synod: 3 or 5
    NumGroup,   \* rows of the tables: 6 or 120
    NumInst     \* bound: instances looked up, more than there are rows

VARIABLES
    arr,        \* the array that GenGroup permutes; positions count from 1
    mapping,    \* mapping_: member id to server id
    reverse,    \* mapping_reverse_: server id to member id
    built       \* whether the constructor is done

vars == <<arr, mapping, reverse, built>>

Id == 0 .. N - 1

Init ==
    /\ arr = [i \in 1 .. N |-> i - 1]
    /\ mapping = <<>> /\ reverse = <<>>
    /\ built = FALSE

-----------------------------------------------------------------------------
\* std::next_permutation finds no larger permutation.
IsLast(a) == \A i \in 1 .. N - 1 : a[i] > a[i + 1]

Swapped(a, i, j) == [a EXCEPT ![i] = a[j], ![j] = a[i]]

\* std::next_permutation: the last ascent is stepped up and the tail turned round.
NextPermutation(a) ==
    LET i == Max({k \in 1 .. N - 1 : a[k] < a[k + 1]})
        j == Max({k \in i + 1 .. N : a[k] > a[i]})
        b == Swapped(a, i, j)
    IN SubSeq(b, 1, i) \o Reverse(SubSeq(b, i + 1, N))

\* Mutation: the table of members is taken for its own inverse.
MutReverseRow(row) == [s \in Id |-> row[s + 1]]

\* GenGroupRervse for one row: where server s stands.
ReverseRow(row) == [s \in Id |-> CHOOSE k \in Id : row[k + 1] = s]

\* One round of GenGroup; after the last permutation the inverse is built.
GenGroup ==
    /\ ~built
    /\ mapping' = Append(mapping, arr)
    /\ arr' = IF IsLast(arr) THEN arr ELSE NextPermutation(arr)
    /\ built' = IsLast(arr)
    /\ reverse' = IF built' THEN [g \in DOMAIN mapping' |-> ReverseRow(mapping'[g])] ELSE <<>>

Next == GenGroup

Spec == Init /\ [][Next]_vars

-----------------------------------------------------------------------------
Row(pinst) == (pinst % NumGroup) + 1

GetMemberIdBySvrId(pinst, id) == IF id \in Id THEN reverse[Row(pinst)][id] ELSE -1
GetSvrIdByMemberId(pinst, id) == IF id \in Id THEN mapping[Row(pinst)][id + 1] ELSE -1

\* The loop fills the table and does not overrun it, which GenGroup asserts.
TableFits == Len(mapping) <= NumGroup /\ (built => Len(mapping) = NumGroup)

\* Every instance has each member once, one master among them, so that no two
\* servers draw the same proposal ids, and the two look-ups agree.
OneServerPerMember ==
    \A pinst \in 0 .. NumInst - 1 :
       /\ \A s \in Id : GetSvrIdByMemberId(pinst, GetMemberIdBySvrId(pinst, s)) = s
       /\ {GetMemberIdBySvrId(pinst, s) : s \in Id} = Id
       /\ GetMemberIdBySvrId(pinst, N) = -1

\* Over one turn of the table every server is in every place equally often:
\* the masters are spread evenly over the servers.
MastersSpread ==
    \A s \in Id, k \in Id :
       Cardinality({g \in 0 .. NumGroup - 1 : GetMemberIdBySvrId(g, s) = k}) * N = NumGroup

\* The tables that the constructor builds are full, are permutations with their
\* inverses, and spread the masters evenly.
TablesRight == TableFits /\ (built => OneServerPerMember /\ MastersSpread)

=============================================================================
