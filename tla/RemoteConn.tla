----------------------------- MODULE RemoteConn -----------------------------
(***************************************************************************)
(* The remote connections of network/conn.h under the broadcasts of        *)
(* Proposer::doBatchRpcRequest.  Each broadcast is made by a thread of its *)
(* own and hands one message object to all connections; the proposer       *)
(* broadcasts the same object again in its next round (the accept message  *)
(* becomes the CHOSEN message).  Each connection writes its own request id *)
(* into that object.                                                       *)
(*                                                                         *)
(* External: DoWrite, which the user of the library implements (it is      *)
(* taken to serialise the message before it returns), and the peer, whose  *)
(* acceptor answers with the request id it was sent.  Requests and         *)
(* responses are delayed, lost, duplicated and reordered.                  *)
(***************************************************************************)
EXTENDS IdGen, LruMap, Bags

B == INSTANCE BagsExt

CONSTANTS
    Conns,      \* conn_: a sequence of connections
    Message,    \* the message objects
    Rounds,     \* bound: broadcasts of one object
    Capacity,   \* concur_num: entries of reqToRemote_
    Clock       \* tv_sec when the connections were made

\* There are connections, each is there once, and a table has room for the
\* callback that is put into it.
RemoteAssumption ==
    /\ Conns \in Seq(Range(Conns)) /\ Conns # <<>> /\ IsInjective(Conns)
    /\ Rounds \in Nat /\ Capacity \in Nat \ {0} /\ Clock \in Nat

Conn == Range(Conns)

VARIABLES
    msg,       \* per object: reqid_, the round it was last prepared for
    at,        \* per object: the connection its broadcast is at and the next step
    reqid,     \* per connection: the generator reqid_
    table,     \* per connection: reqToRemote_, from ids to callbacks
    wire,      \* per connection: what was sent
    called,    \* history: the bag of callbacks called, with what the response answers
    gone       \* history: callbacks evicted, or deleted after a failed write

vars == <<msg, at, reqid, table, wire, called, gone>>

\* The callback of a round of a broadcast, and what a response to it answers.
Callback == Message \X (1 .. Rounds)

\* IdGenByDate(0xff, 1).
FirstId == SetGreaterThan(1, 1, Clock % 256)

Init ==
    /\ msg = [m \in Message |-> [id |-> 0, round |-> 0]]
    /\ at = [m \in Message |-> [pc |-> "idle", i |-> 1]]
    /\ reqid = [c \in Conn |-> FirstId]
    /\ table = [c \in Conn |-> EmptyMap]
    /\ wire = [c \in Conn |-> {}]
    /\ called = [c \in Conn |-> EmptyBag] /\ gone = [c \in Conn |-> {}]

-----------------------------------------------------------------------------
ConnOf(m) == Conns[at[m].i]
This(m) == <<m, msg[m].round>>

Advance(m) ==
    at' = [at EXCEPT ![m] = IF @.i = Len(Conns) THEN [pc |-> "idle", i |-> 1]
                                                ELSE [pc |-> "assign", i |-> @.i + 1]]

\* doBatchRpcRequest.
Broadcast(m) ==
    /\ at[m].pc = "idle" /\ msg[m].round < Rounds
    /\ msg' = [msg EXCEPT ![m].round = @ + 1]
    /\ at' = [at EXCEPT ![m].pc = "assign"]
    /\ UNCHANGED <<reqid, table, wire, called, gone>>

\* Mutation: the generator is not moved under the lock.
MutAssign(m) ==
    LET c == ConnOf(m)
        t == Put(table[c], reqid[c], This(m), Capacity)
    IN
    /\ at[m].pc = "assign"
    /\ msg' = [msg EXCEPT ![m].id = reqid[c]]
    /\ table' = [table EXCEPT ![c] = t]
    /\ gone' = [gone EXCEPT ![c] = @ \cup {table[c].kv[k].val : k \in DOMAIN table[c].kv \ DOMAIN t.kv}]
    /\ at' = [at EXCEPT ![m].pc = "write"]
    /\ UNCHANGED <<reqid, wire, called>>

\* DoRpcRequest, under the lock: the object gets the next id, and the table the
\* callback; the oldest one may have to go.
Assign(m) ==
    LET c == ConnOf(m)
        t == Put(table[c], reqid[c], This(m), Capacity)
    IN
    /\ at[m].pc = "assign"
    /\ msg' = [msg EXCEPT ![m].id = reqid[c]]
    /\ reqid' = [reqid EXCEPT ![c] = NextId(@, 1)]
    /\ table' = [table EXCEPT ![c] = t]
    /\ gone' = [gone EXCEPT ![c] = @ \cup {table[c].kv[k].val : k \in DOMAIN table[c].kv \ DOMAIN t.kv}]
    /\ at' = [at EXCEPT ![m].pc = "write"]
    /\ UNCHANGED <<wire, called>>

\* What is sent: the object as it is at that moment.
Serialised(m) == [id |-> msg[m].id, answers |-> This(m)]

\* DoWrite.
Write(m) ==
    /\ at[m].pc = "write"
    /\ wire' = [wire EXCEPT ![ConnOf(m)] = @ \cup {Serialised(m)}]
    /\ Advance(m)
    /\ UNCHANGED <<msg, reqid, table, called, gone>>

\* DoWrite fails: the entry is deleted, if it is still there.
WriteFails(m) ==
    LET c == ConnOf(m) IN
    /\ at[m].pc = "write"
    /\ table' = [table EXCEPT ![c] = IF Exists(@, msg[m].id) THEN Del(@, msg[m].id) ELSE @]
    /\ gone' = [gone EXCEPT ![c] = @ \cup {This(m)}]
    /\ Advance(m)
    /\ UNCHANGED <<msg, reqid, wire, called>>

-----------------------------------------------------------------------------
\* Mutation: the callback stays in the table.
MutTakeCallback(c, r) ==
    /\ Exists(table[c], r.id)
    /\ called' = [called EXCEPT ![c] = B!BagAdd(@, <<table[c].kv[r.id].val, r.answers>>)]
    /\ table' = [table EXCEPT ![c] = GetPtr(@, r.id)]
    /\ UNCHANGED <<msg, at, reqid, wire, gone>>

\* HandleRecv of a response to something that was sent, which may come any
\* number of times: an id in the table makes the message a response; the callback
\* leaves the table and is called.  (Any other message is taken for a request
\* and goes to onReq_, which nobody sets; no state changes.)
TakeCallback(c, r) ==
    /\ Exists(table[c], r.id)
    /\ called' = [called EXCEPT ![c] = B!BagAdd(@, <<table[c].kv[r.id].val, r.answers>>)]
    /\ table' = [table EXCEPT ![c] = Del(GetPtr(@, r.id), r.id)]
    /\ UNCHANGED <<msg, at, reqid, wire, gone>>

HandleRecv(c) == \E r \in wire[c] : TakeCallback(c, r)

Next ==
    \/ \E m \in Message : Broadcast(m) \/ Assign(m) \/ Write(m) \/ WriteFails(m)
    \/ \E c \in Conn : HandleRecv(c)

Spec == Init /\ [][Next]_vars

-----------------------------------------------------------------------------
CalledFor(c) == {x[1] : x \in BagToSet(called[c])}

\* A callback is called at most once per connection and only with the answer to
\* its own round of its own broadcast, though all connections write into one
\* object and threads of several broadcasts take ids in any order; and it is
\* never called after it was evicted or taken back.
OwnAnswer ==
    \A c \in Conn :
       /\ \A x \in BagToSet(called[c]) : x[2] = x[1] /\ called[c][x] = 1
       /\ gone[c] \cap (CalledFor(c) \cup {table[c].kv[k].val : k \in DOMAIN table[c].kv}) = {}

\* A callback is lost only if it is evicted or taken back: what was sent, if its
\* callback still waits, carries the id under which the table has it.  A
\* response that finds nothing in the table is a second one, or too late.
CallbackFound ==
    \A c \in Conn : \A r \in wire[c] :
       \/ r.answers \in CalledFor(c) \cup gone[c]
       \/ Exists(table[c], r.id) /\ table[c].kv[r.id].val = r.answers

=============================================================================
