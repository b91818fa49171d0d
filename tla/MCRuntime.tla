----------------------------- MODULE MCRuntime -----------------------------
(***************************************************************************)
(* The parts of Runtime and those of the network and the configuration for *)
(* TLC, each with the bounds its safety properties need.                   *)
(***************************************************************************)
EXTENDS Runtime

CONSTANTS
    c1, c2, Message, Rounds, Capacity, Clock,   \* RemoteConn
    N, NumGroup, NumInst                        \* PaxosGroup

VARIABLES
    msg, at, reqid, table, wire, called, gone,
    arr, mapping, reverse, built

Remote == INSTANCE RemoteConn WITH Conns <- <<c1, c2>>
Group == INSTANCE PaxosGroup

ASSUME RemoteIsSound == Remote!RemoteAssumption

remoteVars == <<msg, at, reqid, table, wire, called, gone>>
groupVars == <<arr, mapping, reverse, built>>
vars == <<partVars, remoteVars, groupVars>>

Init == PartsInit /\ Remote!Init /\ Group!Init

Next ==
    \/ PartsNext /\ UNCHANGED <<remoteVars, groupVars>>
    \/ part = "remote" /\ Remote!Next /\ UNCHANGED <<partVars, groupVars>>
    \/ part = "group" /\ Group!Next /\ UNCHANGED <<partVars, remoteVars>>

Spec == Init /\ [][Next]_vars

\* WorkerPool: the branch of Enqueue that moves head and tail back never runs.
NoRepair == Pool!NoRepair

\* WorkerPool: Dequeue says RT_EMPTY only if the queue was empty during the call.
EmptyWasEmpty == Pool!EmptyWasEmpty

\* WorkerPool: queue, counter and wait group implement the bounded bag WorkBag.
ImplementsBag == Pool!ImplementsBag

\* RemoteConn: a callback gets at most one answer, the one to its own broadcast.
OwnAnswer == Remote!OwnAnswer

\* RemoteConn: what was sent is found under its id until it is answered or given up.
CallbackFound == Remote!CallbackFound

\* PaxosGroup: the group tables are permutations that spread the masters evenly.
TablesRight == Group!TablesRight

=============================================================================
