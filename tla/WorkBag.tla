------------------------------ MODULE WorkBag ------------------------------
(***************************************************************************)
(* What a worker of util/worker_pool.hpp promises: it holds a bounded      *)
(* number of accepted items and handles each of them at most once, in any  *)
(* order, and nothing else.                                                *)
(***************************************************************************)
EXTENDS Integers, FiniteSets

CONSTANTS Item, Capacity

VARIABLES held, done

Init == held = {} /\ done = {}

Accept(i) ==
    /\ i \notin held \cup done
    /\ Cardinality(held) < Capacity
    /\ held' = held \cup {i}
    /\ UNCHANGED done

Handle(i) ==
    /\ i \in held
    /\ held' = held \ {i}
    /\ done' = done \cup {i}

Next == \E i \in Item : Accept(i) \/ Handle(i)

Spec == Init /\ [][Next]_<<held, done>>

=============================================================================
