----------------------------- MODULE Consensus -----------------------------
(***************************************************************************)
(* What a synod promises for one plog instance: entry by entry one value   *)
(* is chosen, and what is chosen stays so.  The promise is off for an      *)
(* entry once it is void.                                                  *)
(***************************************************************************)

VARIABLES
    chosen,  \* the pairs of an entry and a value chosen for it
    void     \* the entries nothing is promised for

Init == chosen = {} /\ void = {}

\* Some pair c joins: of an entry without a value, or of a void one.
Choose ==
    /\ \E c \in chosen' \ chosen :
         /\ chosen' = chosen \cup {c}
         /\ c[1] \in void \/ \A d \in chosen : d[1] # c[1]
    /\ UNCHANGED void

\* The promise is taken back for one or more entries, and for good.
GiveUp ==
    /\ void \subseteq void' /\ void' # void
    /\ UNCHANGED chosen

Next == Choose \/ GiveUp

Spec == Init /\ [][Next]_<<chosen, void>>

=============================================================================
