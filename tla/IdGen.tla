------------------------------- MODULE IdGen -------------------------------
(***************************************************************************)
(* The proposal-id generator of util/idgen.hpp.  An IdGen object is its    *)
(* current id; its step never changes after construction, so the           *)
(* operators take it as an argument.                                       *)
(***************************************************************************)
EXTENDS Integers

\* GetAndInc() returns the current id and moves to this one.
NextId(id, step) == id + step

\* Mutation: the id past v, in or out of the generator's progression.
MutSetPast(id, step, v) == IF v <= id THEN id ELSE v + 1

\* SetGreaterThan(v): the first id of the generator's own arithmetic
\* progression that is at least v (the name promises "greater").
SetGreaterThan(id, step, v) ==
    IF v <= id THEN id ELSE id + ((v - id + step - 1) \div step) * step

=============================================================================
