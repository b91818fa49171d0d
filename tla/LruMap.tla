------------------------------- MODULE LruMap -------------------------------
(***************************************************************************)
(* The map of util/lrumap.hpp: a list of nodes in the order of their last  *)
(* use and an index from keys to nodes.  A node is its key and its value;  *)
(* the index holds the node an iterator points to, so that a list and an   *)
(* index that disagree can be told from ones that agree.                   *)
(***************************************************************************)
EXTENDS Integers, SequencesExt, FiniteSetsExt

EmptyMap == [order |-> <<>>, kv |-> <<>>]

Exists(m, k) == k \in DOMAIN m.kv

\* The list without the node that an iterator of the index points to.
Erased(order, node) ==
    RemoveAt(order, CHOOSE i \in DOMAIN order : order[i] = node)

Unindexed(kv, k) == [x \in DOMAIN kv \ {k} |-> kv[x]]

\* Put: the new node comes first, the key's old node goes; if there are too many
\* keys then the last node goes as well.
Put(m, k, v, max) ==
    LET old == IF Exists(m, k) THEN Erased(m.order, m.kv[k]) ELSE m.order
        order == <<[key |-> k, val |-> v]>> \o old
        kv == [x \in DOMAIN m.kv \cup {k} |-> IF x = k THEN Head(order) ELSE m.kv[x]]
    IN IF Cardinality(DOMAIN kv) > max
       THEN [order |-> Front(order), kv |-> Unindexed(kv, Last(order).key)]
       ELSE [order |-> order, kv |-> kv]

\* GetPtr of a key that exists: its node comes first.
GetPtr(m, k) == [order |-> <<m.kv[k]>> \o Erased(m.order, m.kv[k]), kv |-> m.kv]

\* Del of a key that exists.
Del(m, k) == [order |-> Erased(m.order, m.kv[k]), kv |-> Unindexed(m.kv, k)]

=============================================================================
