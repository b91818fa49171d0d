-------------------------- MODULE RemoteConnProofs --------------------------
(***************************************************************************)
(* Callbacks and request ids of the remote connections, for any number of  *)
(* connections, message objects and rounds, and tables of any size.        *)
(*                                                                         *)
(* On each connection an id belongs to one round of one broadcast: among   *)
(* what was sent, what waits in the table, and what a broadcast is about   *)
(* to send.  A callback enters the table once, and is then waiting, called *)
(* or gone.                                                                *)
(***************************************************************************)
EXTENDS RemoteConn, LruMapProofs

-----------------------------------------------------------------------------
(* The invariant.                                                          *)

Place == 1 .. Len(Conns)

ConnTypeOK ==
    /\ msg \in [Message -> [id : Nat, round : 0 .. Rounds]]
    /\ at \in [Message -> [pc : {"idle", "assign", "write"}, i : Place]]
    /\ \A m \in Message : at[m].pc # "idle" => msg[m].round > 0
    /\ reqid \in [Conn -> Nat]
    /\ DOMAIN table = Conn /\ DOMAIN wire = Conn /\ DOMAIN called = Conn /\ DOMAIN gone = Conn

\* The callback of a round has been put into the table of the i-th connection.
Given(cb, i) ==
    /\ cb \in Callback
    /\ \/ cb[2] < msg[cb[1]].round
       \/ /\ cb[2] = msg[cb[1]].round
          /\ \/ at[cb[1]].pc = "idle" \/ i < at[cb[1]].i
             \/ i = at[cb[1]].i /\ at[cb[1]].pc = "write"

\* Object m has the id of the i-th connection, which is about to write it.
Writing(m, i) == at[m].pc = "write" /\ at[m].i = i

\* What the table of connection c has, as pairs of an id and a callback.
Tabled(c) == {[id |-> k, answers |-> table[c].kv[k].val] : k \in DOMAIN table[c].kv}

\* The ids of the i-th connection and the callbacks they stand for.
Known(i) ==
    wire[Conns[i]] \cup Tabled(Conns[i])
    \cup {Serialised(m) : m \in {x \in Message : Writing(x, i)}}

Found(c, x) ==
    \/ x.answers \in CalledFor(c) \cup gone[c]
    \/ Exists(table[c], x.id) /\ table[c].kv[x.id].val = x.answers

IdsApart(i) ==
    /\ \A x \in Known(i) : x.id \in Nat /\ x.id < reqid[Conns[i]] /\ Given(x.answers, i)
    /\ \A x, y \in Known(i) : x.id = y.id <=> x.answers = y.answers

NotYetSent(i) ==
    \A m \in Message : Writing(m, i) => \A r \in wire[Conns[i]] : r.answers # This(m)

CalledOnce(c) ==
    /\ IsABag(called[c])
    /\ \A x \in DOMAIN called[c] :
          x[2] = x[1] /\ called[c][x] = 1 /\ \E r \in wire[c] : r.answers = x[1]

\* A callback waits, or is called, or is gone.
OneFate(i) ==
    /\ \A cb \in gone[Conns[i]] : Given(cb, i)
    /\ \A x \in Tabled(Conns[i]) : x.answers \notin gone[Conns[i]] \cup CalledFor(Conns[i])
    /\ CalledFor(Conns[i]) \cap gone[Conns[i]] = {}

ConnInv(i) ==
    /\ LruOK(table[Conns[i]]) /\ IdsApart(i) /\ NotYetSent(i)
    /\ \A x \in Known(i) : Found(Conns[i], x)
    /\ CalledOnce(Conns[i]) /\ OneFate(i)

RemoteInv == RemoteAssumption /\ ConnTypeOK /\ \A i \in Place : ConnInv(i)

\* Connections and their places.
LEMMA PlacesApart ==
    ASSUME RemoteAssumption
    PROVE  /\ Conn = {Conns[i] : i \in Place} /\ \A i \in Place : Conns[i] \in Conn
           /\ \A i, j \in Place : Conns[i] = Conns[j] => i = j
           /\ Len(Conns) \in Nat \ {0} /\ 1 \in Place
BY OnceEach DEF RemoteAssumption, Conn, Place

\* What holds of each callback that is given, and of no other.
LEMMA NotGiven ==
    ASSUME ConnTypeOK, NEW m \in Message, at[m].pc = "assign"
    PROVE  This(m) \in Callback /\ ~Given(This(m), at[m].i)
<1>1. msg[m].round \in 1 .. Rounds
  BY DEF ConnTypeOK
<1>2. This(m) \in Callback /\ This(m)[1] = m /\ This(m)[2] = msg[m].round
  BY <1>1 DEF This, Callback
<1>3. at[m].i \in Int
  BY DEF ConnTypeOK, Place
<1> QED BY <1>1, <1>2, <1>3 DEF Given

\* A connection that a step does not touch, while callbacks are given elsewhere.
LEMMA Untouched ==
    ASSUME NEW i \in Place, ConnInv(i),
           UNCHANGED <<table[Conns[i]], wire[Conns[i]], called[Conns[i]], gone[Conns[i]], reqid[Conns[i]]>>,
           \A cb : Given(cb, i) => Given(cb, i)',
           \A m \in Message : Writing(m, i)' <=> Writing(m, i),
           \A m \in Message : Writing(m, i) => msg'[m] = msg[m]
    PROVE  ConnInv(i)'
<1>1. \A m \in Message : Writing(m, i) => Serialised(m)' = Serialised(m) /\ This(m)' = This(m)
  BY DEF Serialised, This
<1>2. Known(i)' = Known(i) /\ Tabled(Conns[i])' = Tabled(Conns[i])
  <2>1. {Serialised(m) : m \in {x \in Message : Writing(x, i)}}'
        = {Serialised(m) : m \in {x \in Message : Writing(x, i)}}
    BY <1>1
  <2> QED BY <2>1 DEF Known, Tabled
<1>3. CalledFor(Conns[i])' = CalledFor(Conns[i])
  BY DEF CalledFor, BagToSet
<1>4. IdsApart(i)'
  BY <1>2 DEF ConnInv, IdsApart
<1>5. NotYetSent(i)'
  BY <1>1 DEF ConnInv, NotYetSent
<1>6. (\A x \in Known(i) : Found(Conns[i], x))'
  BY <1>2, <1>3 DEF ConnInv, Found, Exists
<1>7. CalledOnce(Conns[i])' /\ LruOK(table[Conns[i]])'
  BY DEF ConnInv, CalledOnce, LruOK, IsABag
<1>8. OneFate(i)'
  BY <1>2, <1>3 DEF ConnInv, OneFate
<1> QED BY <1>4, <1>5, <1>6, <1>7, <1>8 DEF ConnInv

-----------------------------------------------------------------------------
(* The steps.                                                              *)

\* What a callback is given as stays so while its object goes on.
LEMMA GivenGrows ==
    ASSUME RemoteAssumption, ConnTypeOK, NEW i \in Place, NEW m \in Message,
           \A x \in Message \ {m} : at'[x] = at[x] /\ msg'[x] = msg[x],
           \/ Broadcast(m) \/ Assign(m) \/ Write(m) \/ WriteFails(m)
    PROVE  \A cb : Given(cb, i) => Given(cb, i)'
<1> SUFFICES ASSUME NEW cb, Given(cb, i) PROVE Given(cb, i)'
  OBVIOUS
<1>1. cb[1] \in Message /\ cb[2] \in Nat
  BY DEF Given, Callback
<1>2. CASE cb[1] # m
  BY <1>1, <1>2 DEF Given
<1>3. CASE cb[1] = m
  <2>1. CASE Broadcast(m)
    BY <1>1, <1>3, <2>1 DEF Given, Broadcast, ConnTypeOK
  <2>2. CASE Assign(m)
    <3>1. msg'[m].round = msg[m].round /\ at[m].pc = "assign" /\ at'[m].pc = "write"
          /\ at'[m].i = at[m].i
      BY <2>2 DEF Assign, ConnTypeOK
    <3> QED BY <1>1, <1>3, <3>1 DEF Given
  <2>3. CASE Write(m) \/ WriteFails(m)
    <3>1. msg' = msg /\ at[m].pc = "write" /\ Advance(m)
      BY <2>3 DEF Write, WriteFails
    <3>2. \/ at'[m].pc = "idle"
          \/ at'[m].pc = "assign" /\ at'[m].i = at[m].i + 1
      BY <3>1 DEF Advance, ConnTypeOK
    <3>3. at[m].i \in Int /\ i \in Int
      BY DEF ConnTypeOK, Place
    <3> QED BY <1>1, <1>3, <3>1, <3>2, <3>3 DEF Given
  <2> QED BY <2>1, <2>2, <2>3
<1> QED BY <1>2, <1>3

\* The initial state.
LEMMA InitRemote == RemoteAssumption /\ Init => RemoteInv
<1> SUFFICES ASSUME RemoteAssumption, Init PROVE RemoteInv
  OBVIOUS
<1>1. FirstId \in Nat
  <2>1. Clock % 256 \in Nat
    BY DEF RemoteAssumption
  <2> QED BY <2>1 DEF FirstId, SetGreaterThan
<1>2. ConnTypeOK
  BY <1>1, PlacesApart DEF Init, ConnTypeOK, RemoteAssumption
<1>3. ASSUME NEW i \in Place PROVE ConnInv(i)
  <2> DEFINE c == Conns[i]
  <2>1. c \in Conn /\ table[c] = EmptyMap /\ wire[c] = {} /\ called[c] = EmptyBag /\ gone[c] = {}
    BY PlacesApart DEF Init
  <2>2. DOMAIN table[c].kv = {} /\ table[c].order = <<>>
    BY <2>1 DEF EmptyMap
  <2>3. \A m \in Message : ~Writing(m, i)
    BY DEF Init, Writing
  <2>4. Known(i) = {} /\ Tabled(c) = {}
    BY <2>1, <2>2, <2>3 DEF Known, Tabled
  <2>5. DOMAIN called[c] = {} /\ CalledFor(c) = {}
    BY <2>1 DEF EmptyBag, SetToBag, CalledFor, BagToSet
  <2>6. IsABag(called[c])
    BY <2>1 DEF EmptyBag, SetToBag, IsABag
  <2>7. LruOK(table[c])
    <3>1. <<>> \in Seq({}) /\ Len(<<>>) = 0
      OBVIOUS
    <3>2. /\ IsInjective(<<>>) <=> \A a, b \in 1 .. Len(<<>>) : <<>>[a] = <<>>[b] => a = b
          /\ Range(<<>>) = {<<>>[a] : a \in 1 .. Len(<<>>)} /\ <<>> \in Seq(Range(<<>>))
      BY <3>1, OnceEach
    <3>3. 1 .. Len(<<>>) = {}
      BY <3>1
    <3> QED BY <2>2, <3>2, <3>3, FS_EmptySet DEF LruOK
  <2> QED BY <2>1, <2>3, <2>4, <2>5, <2>6, <2>7
       DEF ConnInv, IdsApart, NotYetSent, CalledOnce, OneFate
<1> QED BY <1>2, <1>3 DEF RemoteInv

\* Broadcast begins a round, of which no connection knows yet.
LEMMA BroadcastKeeps == ASSUME RemoteInv, NEW m \in Message, Broadcast(m) PROVE RemoteInv'
<1> USE DEF RemoteInv
<1>1. /\ at[m].pc = "idle" /\ msg[m].round < Rounds
      /\ msg' = [msg EXCEPT ![m].round = @ + 1]
      /\ at' = [at EXCEPT ![m].pc = "assign"]
      /\ UNCHANGED <<reqid, table, wire, called, gone>>
  BY DEF Broadcast
<1>2. /\ msg'[m].round = msg[m].round + 1 /\ at'[m].pc = "assign"
      /\ \A x \in Message \ {m} : at'[x] = at[x] /\ msg'[x] = msg[x]
  BY <1>1 DEF ConnTypeOK
<1>3. ConnTypeOK'
  <2>1. msg[m].round + 1 \in 0 .. Rounds
    BY <1>1 DEF ConnTypeOK, RemoteAssumption
  <2>2. msg' \in [Message -> [id : Nat, round : 0 .. Rounds]]
    BY <1>1, <2>1 DEF ConnTypeOK
  <2>3. at' \in [Message -> [pc : {"idle", "assign", "write"}, i : Place]]
    BY <1>1 DEF ConnTypeOK
  <2>4. \A x \in Message : at'[x].pc # "idle" => msg'[x].round > 0
    BY <1>2, <2>1 DEF ConnTypeOK
  <2> QED BY <1>1, <2>2, <2>3, <2>4 DEF ConnTypeOK
<1>4. ASSUME NEW i \in Place PROVE ConnInv(i)'
  <2>1. \A cb : Given(cb, i) => Given(cb, i)'
    BY <1>2, GivenGrows
  <2>2. \A x \in Message : Writing(x, i)' <=> Writing(x, i)
    BY <1>1, <1>2 DEF Writing
  <2>3. \A x \in Message : Writing(x, i) => msg'[x] = msg[x]
    BY <1>1, <1>2 DEF Writing
  <2> QED BY <1>1, <2>1, <2>2, <2>3, Untouched
<1> QED BY <1>3, <1>4

\* Assign puts a callback under an id that the connection has not used.
LEMMA AssignKeeps == ASSUME RemoteInv, NEW m \in Message, Assign(m) PROVE RemoteInv'
<1> USE DEF RemoteInv
<1>0. PICK i \in Place, c \in Conn : i = at[m].i /\ c = Conns[i] /\ c = ConnOf(m)
  <2>1. at[m].i \in Place
    BY DEF ConnTypeOK
  <2> QED BY <2>1, PlacesApart DEF ConnOf
<1>00. PICK cb, k, t : cb = This(m) /\ k = reqid[c] /\ t = Put(table[c], k, cb, Capacity)
  OBVIOUS
<1>1. /\ i = at[m].i /\ c = Conns[i] /\ c = ConnOf(m)
      /\ cb = This(m) /\ k = reqid[c] /\ t = Put(table[c], k, cb, Capacity)
  BY <1>0, <1>00
<1>2. /\ at[m].pc = "assign"
      /\ msg' = [msg EXCEPT ![m].id = k] /\ reqid' = [reqid EXCEPT ![c] = @ + 1]
      /\ table' = [table EXCEPT ![c] = t]
      /\ gone' = [gone EXCEPT ![c] = @ \cup {table[c].kv[n].val : n \in DOMAIN table[c].kv \ DOMAIN t.kv}]
      /\ at' = [at EXCEPT ![m].pc = "write"] /\ UNCHANGED <<wire, called>>
  BY <1>1 DEF Assign, NextId
<1>3. /\ msg'[m].id = k /\ msg'[m].round = msg[m].round
      /\ at'[m].pc = "write" /\ at'[m].i = i
      /\ \A x \in Message \ {m} : at'[x] = at[x] /\ msg'[x] = msg[x]
  BY <1>1, <1>2 DEF ConnTypeOK
<1>4. /\ reqid'[c] = k + 1 /\ table'[c] = t
      /\ gone'[c] = gone[c] \cup {table[c].kv[n].val : n \in DOMAIN table[c].kv \ DOMAIN t.kv}
      /\ \A d \in Conn \ {c} : reqid'[d] = reqid[d] /\ table'[d] = table[d] /\ gone'[d] = gone[d]
      /\ k \in Nat
  BY <1>1, <1>2 DEF ConnTypeOK
<1>5. ConnTypeOK'
  <2>1. msg' \in [Message -> [id : Nat, round : 0 .. Rounds]]
    BY <1>2, <1>4 DEF ConnTypeOK
  <2>2. at' \in [Message -> [pc : {"idle", "assign", "write"}, i : Place]]
    BY <1>2 DEF ConnTypeOK
  <2>3. \A x \in Message : at'[x].pc # "idle" => msg'[x].round > 0
    BY <1>2, <1>3 DEF ConnTypeOK
  <2>4. reqid' \in [Conn -> Nat]
    BY <1>2, <1>4 DEF ConnTypeOK
  <2> QED BY <1>2, <2>1, <2>2, <2>3, <2>4 DEF ConnTypeOK
<1>6. \A j \in Place : \A x : Given(x, j) => Given(x, j)'
  BY <1>3, GivenGrows
<1>7. cb \in Callback /\ ~Given(cb, i) /\ Given(cb, i)'
  <2>1. cb \in Callback /\ ~Given(cb, i)
    BY <1>1, <1>2, NotGiven
  <2>2. cb[1] = m /\ cb[2] = msg[m].round
    BY <1>1 DEF This
  <2> QED BY <1>3, <2>1, <2>2 DEF Given
<1>8. ASSUME NEW j \in Place, j # i PROVE ConnInv(j)'
  <2>1. Conns[j] \in Conn \ {c}
    BY <1>1, <1>8, PlacesApart
  <2>2. \A x \in Message : Writing(x, j)' <=> Writing(x, j)
    BY <1>1, <1>2, <1>3, <1>8 DEF Writing
  <2>3. \A x \in Message : Writing(x, j) => msg'[x] = msg[x]
    BY <1>2, <1>3 DEF Writing
  <2> QED BY <1>2, <1>4, <1>6, <2>1, <2>2, <2>3, Untouched
<1>9. PICK new : new = [id |-> k, answers |-> cb]
  OBVIOUS
<1>10. new.id = k /\ new.answers = cb
  BY <1>9
<1>11. ConnInv(i)
  OBVIOUS
<1>12. /\ LruOK(t) /\ k \in DOMAIN t.kv /\ t.kv[k].val = cb
       /\ DOMAIN t.kv \subseteq DOMAIN table[c].kv \cup {k}
       /\ \A x \in DOMAIN t.kv \ {k} : t.kv[x] = table[c].kv[x]
  <2>1. LruOK(table[c]) /\ Capacity \in Nat \ {0}
    BY <1>1, <1>11 DEF ConnInv, RemoteAssumption
  <2> QED BY <1>1, <2>1, PutKeeps
<1>13. Serialised(m)' = new /\ This(m)' = cb
  BY <1>1, <1>3, <1>9 DEF Serialised, This
<1>14. \A x \in Message \ {m} :
          Writing(x, i)' => Writing(x, i) /\ Serialised(x)' = Serialised(x) /\ This(x)' = This(x)
  BY <1>2, <1>3 DEF Writing, Serialised, This
<1>15. Tabled(c)' \subseteq Tabled(c) \cup {new}
  <2>1. ASSUME NEW x \in DOMAIN t.kv
        PROVE  [id |-> x, answers |-> t.kv[x].val] \in Tabled(c) \cup {new}
    BY <1>9, <1>12 DEF Tabled
  <2> QED BY <1>4, <2>1 DEF Tabled
<1>16. Known(i)' \subseteq Known(i) \cup {new}
  <2>1. \A x \in Message : Writing(x, i)' => Serialised(x)' \in Known(i) \cup {new}
    BY <1>13, <1>14 DEF Known
  <2> QED BY <1>1, <1>2, <1>15, <2>1 DEF Known
<1>17. \A x \in Known(i) : x.id # k /\ x.answers # cb /\ x.id \in Nat /\ x.id < k
  BY <1>1, <1>7, <1>11 DEF ConnInv, IdsApart
<1>18. IdsApart(i)'
  <2>1. \A x \in Known(i)' : x.id \in Nat /\ x.id < k + 1 /\ Given(x.answers, i)'
    BY <1>1, <1>4, <1>6, <1>7, <1>10, <1>11, <1>16, <1>17 DEF ConnInv, IdsApart
  <2>2. \A x, y \in Known(i)' : x.id = y.id <=> x.answers = y.answers
    BY <1>10, <1>11, <1>16, <1>17 DEF ConnInv, IdsApart
  <2> QED BY <1>1, <1>4, <2>1, <2>2 DEF IdsApart
<1>19. wire[c] \subseteq Known(i) /\ Tabled(c) \subseteq Known(i)
  BY <1>1 DEF Known
<1>20. NotYetSent(i)'
  BY <1>1, <1>2, <1>11, <1>13, <1>14, <1>17, <1>19 DEF ConnInv, NotYetSent
<1>21. CalledFor(c)' = CalledFor(c) /\ cb \notin CalledFor(c)
  <2>1. CalledFor(c)' = CalledFor(c)
    BY <1>2 DEF CalledFor, BagToSet
  <2>2. \A x \in CalledFor(c) : \E r \in wire[c] : r.answers = x
    BY <1>1, <1>11 DEF ConnInv, CalledOnce, CalledFor, BagToSet
  <2> QED BY <1>17, <1>19, <2>1, <2>2
<1>22. \A x \in Known(i)' : Found(c, x)'
  <2>1. Found(c, new)'
    BY <1>4, <1>10, <1>12 DEF Found, Exists
  <2>2. ASSUME NEW x \in Known(i) PROVE Found(c, x)'
    <3>1. Found(c, x) /\ x.id # k
      BY <1>1, <1>11, <1>17 DEF ConnInv
    <3> QED BY <1>4, <1>12, <1>21, <3>1 DEF Found, Exists
  <2> QED BY <1>16, <2>1, <2>2
<1>23. CalledOnce(c)'
  BY <1>1, <1>2, <1>11 DEF ConnInv, CalledOnce, IsABag
<1>24. \A x \in gone'[c] : x \in gone[c] \/ \E y \in Tabled(c) : y.answers = x /\ y.id \notin DOMAIN t.kv
  <2>1. ASSUME NEW n \in DOMAIN table[c].kv \ DOMAIN t.kv
        PROVE  \E y \in Tabled(c) : y.answers = table[c].kv[n].val /\ y.id \notin DOMAIN t.kv
    <3>1. [id |-> n, answers |-> table[c].kv[n].val] \in Tabled(c)
      BY DEF Tabled
    <3> QED BY <3>1
  <2> QED BY <1>4, <2>1
<1>25. OneFate(i)'
  <2>1. \A x \in gone[c] : Given(x, i)
    BY <1>1, <1>11 DEF ConnInv, OneFate
  <2>2. \A x \in Known(i) : Given(x.answers, i)
    BY <1>11 DEF ConnInv, IdsApart
  <2>3. \A x \in gone'[c] : Given(x, i) /\ x # cb
    BY <1>7, <1>19, <1>24, <2>1, <2>2
  <2>4. \A x \in Tabled(c)' : x = new \/ (x \in Tabled(c) /\ x.id \in DOMAIN t.kv)
    <3>1. \A x \in Tabled(c)' : x.id \in DOMAIN t.kv
      BY <1>4 DEF Tabled
    <3> QED BY <1>15, <3>1
  <2>5. ASSUME NEW x \in Tabled(c)' PROVE x.answers \notin gone'[c] \cup CalledFor(c)
    <3>1. CASE x = new
      BY <1>10, <1>21, <2>3, <3>1
    <3>2. CASE x \in Tabled(c) /\ x.id \in DOMAIN t.kv
      <4>1. x.answers \notin gone[c] \cup CalledFor(c)
        BY <1>1, <1>11, <3>2 DEF ConnInv, OneFate
      <4>2. \A y \in Tabled(c) : y.answers = x.answers => y.id = x.id
        BY <1>11, <1>19, <3>2 DEF ConnInv, IdsApart
      <4> QED BY <1>24, <3>2, <4>1, <4>2
    <3> QED BY <2>4, <3>1, <3>2
  <2>6. CalledFor(c) \cap gone'[c] = {}
    BY <1>1, <1>11, <1>24 DEF ConnInv, OneFate
  <2> QED BY <1>1, <1>6, <1>21, <2>3, <2>5, <2>6 DEF OneFate
<1>26. ConnInv(i)'
  BY <1>1, <1>4, <1>12, <1>18, <1>20, <1>22, <1>23, <1>25 DEF ConnInv
<1> QED BY <1>5, <1>8, <1>26

\* The end of a write, done or failed: the broadcast goes on to the next connection.
LEMMA WriteEnds ==
    ASSUME RemoteInv, NEW m \in Message, Write(m) \/ WriteFails(m)
    PROVE  /\ at' \in [Message -> [pc : {"idle", "assign", "write"}, i : Place]]
           /\ \A x \in Message : at'[x].pc # "idle" => msg[x].round > 0
           /\ msg' = msg /\ reqid' = reqid
           /\ \A x \in Message, i \in Place : Writing(x, i)' <=> Writing(x, i) /\ x # m
           /\ \A i \in Place : \A cb : Given(cb, i) => Given(cb, i)'
<1> USE DEF RemoteInv
<1>1. at[m].pc = "write" /\ Advance(m) /\ msg' = msg /\ reqid' = reqid
  BY DEF Write, WriteFails
<1>2. at[m].i \in Place /\ Len(Conns) \in Nat \ {0}
  BY PlacesApart DEF ConnTypeOK
<1>3. PICK next \in [pc : {"idle", "assign"}, i : Place] : at' = [at EXCEPT ![m] = next]
  <2>1. CASE at[m].i = Len(Conns)
    <3>1. at' = [at EXCEPT ![m] = [pc |-> "idle", i |-> 1]]
      BY <1>1, <2>1 DEF Advance
    <3>2. [pc |-> "idle", i |-> 1] \in [pc : {"idle", "assign"}, i : Place]
      BY PlacesApart
    <3> QED BY <3>1, <3>2
  <2>2. CASE at[m].i # Len(Conns)
    <3>1. at' = [at EXCEPT ![m] = [pc |-> "assign", i |-> at[m].i + 1]]
      BY <1>1, <2>2 DEF Advance
    <3>2. [pc |-> "assign", i |-> at[m].i + 1] \in [pc : {"idle", "assign"}, i : Place]
      BY <1>2, <2>2 DEF Place
    <3> QED BY <3>1, <3>2
  <2> QED BY <2>1, <2>2
<1>4. at'[m] = next /\ \A x \in Message \ {m} : at'[x] = at[x]
  BY <1>3 DEF ConnTypeOK
<1>5. at' \in [Message -> [pc : {"idle", "assign", "write"}, i : Place]]
  BY <1>3, <1>4 DEF ConnTypeOK
<1>6. \A x \in Message : at'[x].pc # "idle" => msg[x].round > 0
  BY <1>1, <1>4 DEF ConnTypeOK
<1>7. \A x \in Message, i \in Place : Writing(x, i)' <=> Writing(x, i) /\ x # m
  BY <1>1, <1>4 DEF Writing
<1>8. \A i \in Place : \A cb : Given(cb, i) => Given(cb, i)'
  BY <1>1, <1>4, GivenGrows
<1> QED BY <1>1, <1>5, <1>6, <1>7, <1>8

\* Write sends what the object has, whose callback was put into the table.
LEMMA WriteKeeps == ASSUME RemoteInv, NEW m \in Message, Write(m) PROVE RemoteInv'
<1> USE DEF RemoteInv
<1>1. PICK i \in Place, c \in Conn : i = at[m].i /\ c = Conns[i] /\ c = ConnOf(m)
  <2>1. at[m].i \in Place
    BY DEF ConnTypeOK
  <2> QED BY <2>1, PlacesApart DEF ConnOf
<1>2. /\ Writing(m, i) /\ wire' = [wire EXCEPT ![c] = @ \cup {Serialised(m)}]
      /\ UNCHANGED <<msg, reqid, table, called, gone>>
  BY <1>1 DEF Write, Writing
<1>3. /\ wire'[c] = wire[c] \cup {Serialised(m)}
      /\ \A d \in Conn \ {c} : wire'[d] = wire[d]
  BY <1>2 DEF ConnTypeOK
<1>4. ConnTypeOK'
  BY <1>2, WriteEnds DEF ConnTypeOK
<1>5. \A x \in Message, j \in Place : Writing(x, j)' <=> Writing(x, j) /\ x # m
  BY WriteEnds
<1>6. \A j \in Place : \A x : Given(x, j) => Given(x, j)'
  BY WriteEnds
<1>7. ASSUME NEW j \in Place, j # i PROVE ConnInv(j)'
  <2>1. Conns[j] \in Conn \ {c}
    BY <1>1, <1>7, PlacesApart
  <2>2. \A x \in Message : Writing(x, j)' <=> Writing(x, j)
    BY <1>2, <1>5, <1>7 DEF Writing
  <2> QED BY <1>2, <1>3, <1>6, <2>1, <2>2, Untouched
<1>8. ConnInv(i)
  OBVIOUS
<1>9. \A x \in Message : Serialised(x)' = Serialised(x) /\ This(x)' = This(x)
  BY <1>2 DEF Serialised, This
<1>10. Serialised(m) \in Known(i) /\ Serialised(m).answers = This(m)
  BY <1>2 DEF Known, Serialised
<1>11. Known(i)' \subseteq Known(i) /\ Tabled(c)' = Tabled(c)
  <2>1. Tabled(c)' = Tabled(c)
    BY <1>2 DEF Tabled
  <2>2. \A x \in Message : Writing(x, i)' => Serialised(x)' \in Known(i)
    BY <1>5, <1>9 DEF Known
  <2> QED BY <1>1, <1>3, <1>10, <2>1, <2>2 DEF Known
<1>12. IdsApart(i)'
  BY <1>2, <1>6, <1>8, <1>11 DEF ConnInv, IdsApart
<1>13. NotYetSent(i)'
  <2>1. ASSUME NEW x \in Message, Writing(x, i)', NEW r \in wire'[c] PROVE r.answers # This(x)
    <3>1. x # m /\ Writing(x, i)
      BY <1>5, <2>1
    <3>2. CASE r \in wire[c]
      BY <1>1, <1>8, <3>1, <3>2 DEF ConnInv, NotYetSent
    <3>3. CASE r = Serialised(m)
      BY <1>10, <3>1, <3>3 DEF This
    <3> QED BY <1>3, <3>2, <3>3
  <2> QED BY <1>1, <1>9, <2>1 DEF NotYetSent
<1>14. CalledFor(c)' = CalledFor(c)
  BY <1>2 DEF CalledFor, BagToSet
<1>15. \A x \in Known(i)' : Found(c, x)'
  BY <1>1, <1>2, <1>8, <1>11, <1>14 DEF ConnInv, Found, Exists
<1>16. CalledOnce(c)'
  BY <1>1, <1>2, <1>3, <1>8 DEF ConnInv, CalledOnce, IsABag
<1>17. OneFate(i)'
  BY <1>1, <1>2, <1>6, <1>8, <1>11, <1>14 DEF ConnInv, OneFate
<1>18. LruOK(table[c])'
  BY <1>1, <1>2, <1>8 DEF ConnInv, LruOK
<1>19. ConnInv(i)'
  BY <1>1, <1>2, <1>12, <1>13, <1>15, <1>16, <1>17, <1>18 DEF ConnInv
<1> QED BY <1>2, <1>4, <1>7, <1>19

\* A failed write takes the callback back, which nobody has called.
LEMMA WriteFailsKeeps == ASSUME RemoteInv, NEW m \in Message, WriteFails(m) PROVE RemoteInv'
<1> USE DEF RemoteInv
<1>1. PICK i \in Place, c \in Conn : i = at[m].i /\ c = Conns[i] /\ c = ConnOf(m)
  <2>1. at[m].i \in Place
    BY DEF ConnTypeOK
  <2> QED BY <2>1, PlacesApart DEF ConnOf
<1>2. PICK cb, k : cb = This(m) /\ k = msg[m].id
  OBVIOUS
<1>3. PICK t : t = IF Exists(table[c], k) THEN Del(table[c], k) ELSE table[c]
  OBVIOUS
<1>4. /\ Writing(m, i)
      /\ table' = [table EXCEPT ![c] = t] /\ gone' = [gone EXCEPT ![c] = @ \cup {cb}]
      /\ UNCHANGED <<msg, reqid, wire, called>>
  BY <1>1, <1>2, <1>3 DEF WriteFails, Writing
<1>5. /\ table'[c] = t /\ gone'[c] = gone[c] \cup {cb}
      /\ \A d \in Conn \ {c} : table'[d] = table[d] /\ gone'[d] = gone[d]
  BY <1>4 DEF ConnTypeOK
<1>6. ConnTypeOK'
  BY <1>4, WriteEnds DEF ConnTypeOK
<1>7. \A x \in Message, j \in Place : Writing(x, j)' <=> Writing(x, j) /\ x # m
  BY WriteEnds
<1>8. \A j \in Place : \A x : Given(x, j) => Given(x, j)'
  BY WriteEnds
<1>9. ASSUME NEW j \in Place, j # i PROVE ConnInv(j)'
  <2>1. Conns[j] \in Conn \ {c}
    BY <1>1, <1>9, PlacesApart
  <2>2. \A x \in Message : Writing(x, j)' <=> Writing(x, j)
    BY <1>4, <1>7, <1>9 DEF Writing
  <2> QED BY <1>4, <1>5, <1>8, <2>1, <2>2, Untouched
<1>10. ConnInv(i)
  OBVIOUS
<1>11. /\ LruOK(t) /\ DOMAIN t.kv = DOMAIN table[c].kv \ {k}
       /\ \A x \in DOMAIN t.kv : t.kv[x] = table[c].kv[x]
  <2>1. LruOK(table[c])
    BY <1>1, <1>10 DEF ConnInv
  <2>2. CASE k \in DOMAIN table[c].kv
    BY <1>3, <2>1, <2>2, DelKeeps DEF Exists
  <2>3. CASE k \notin DOMAIN table[c].kv
    BY <1>3, <2>1, <2>3 DEF Exists
  <2> QED BY <2>2, <2>3
<1>12. \A x \in Message : Serialised(x)' = Serialised(x) /\ This(x)' = This(x)
  BY <1>4 DEF Serialised, This
<1>13. Serialised(m) \in Known(i) /\ Serialised(m).answers = cb /\ Serialised(m).id = k
  BY <1>2, <1>4 DEF Known, Serialised
<1>14. \A x \in Known(i) : x.id = k <=> x.answers = cb
  BY <1>10, <1>13 DEF ConnInv, IdsApart
<1>15. Tabled(c)' \subseteq {x \in Tabled(c) : x.id # k}
  BY <1>5, <1>11 DEF Tabled
<1>16. Known(i)' \subseteq Known(i) /\ Tabled(c) \subseteq Known(i) /\ wire[c] \subseteq Known(i)
  <2>1. \A x \in Message : Writing(x, i)' => Serialised(x)' \in Known(i)
    BY <1>7, <1>12 DEF Known
  <2> QED BY <1>1, <1>4, <1>15, <2>1 DEF Known
<1>17. IdsApart(i)'
  BY <1>4, <1>8, <1>10, <1>16 DEF ConnInv, IdsApart
<1>18. NotYetSent(i)'
  BY <1>4, <1>7, <1>10, <1>12 DEF ConnInv, NotYetSent
<1>19. CalledFor(c)' = CalledFor(c) /\ cb \notin CalledFor(c)
  <2>1. CalledFor(c)' = CalledFor(c)
    BY <1>4 DEF CalledFor, BagToSet
  <2>2. \A x \in CalledFor(c) : \E r \in wire[c] : r.answers = x
    BY <1>1, <1>10 DEF ConnInv, CalledOnce, CalledFor, BagToSet
  <2>3. \A r \in wire[c] : r.answers # cb
    BY <1>1, <1>2, <1>4, <1>10 DEF ConnInv, NotYetSent
  <2> QED BY <2>1, <2>2, <2>3
<1>20. \A x \in Known(i)' : Found(c, x)'
  <2>1. ASSUME NEW x \in Known(i) PROVE Found(c, x)'
    <3>1. Found(c, x)
      BY <1>1, <1>10 DEF ConnInv
    <3>2. CASE x.id = k
      BY <1>5, <1>14, <3>2 DEF Found
    <3>3. CASE x.id # k
      BY <1>5, <1>11, <1>19, <3>1, <3>3 DEF Found, Exists
    <3> QED BY <3>2, <3>3
  <2> QED BY <1>16, <2>1
<1>21. CalledOnce(c)'
  BY <1>1, <1>4, <1>10 DEF ConnInv, CalledOnce, IsABag
<1>22. OneFate(i)'
  <2>1. Given(cb, i)
    BY <1>10, <1>13 DEF ConnInv, IdsApart
  <2>2. \A x \in gone'[c] : Given(x, i)
    BY <1>1, <1>5, <1>10, <2>1 DEF ConnInv, OneFate
  <2>3. \A x \in Tabled(c)' : x.answers \notin gone'[c] \cup CalledFor(c)
    BY <1>1, <1>5, <1>10, <1>14, <1>15, <1>16 DEF ConnInv, OneFate
  <2>4. CalledFor(c) \cap gone'[c] = {}
    BY <1>1, <1>5, <1>10, <1>19 DEF ConnInv, OneFate
  <2> QED BY <1>1, <1>8, <1>19, <2>2, <2>3, <2>4 DEF OneFate
<1>23. ConnInv(i)'
  BY <1>1, <1>5, <1>11, <1>17, <1>18, <1>20, <1>21, <1>22 DEF ConnInv
<1> QED BY <1>4, <1>6, <1>9, <1>23

\* A response takes its callback out of the table and calls it, the first time.
LEMMA HandleRecvKeeps == ASSUME RemoteInv, NEW c \in Conn, HandleRecv(c) PROVE RemoteInv'
<1> USE DEF RemoteInv
<1>1. PICK i \in Place : c = Conns[i]
  BY PlacesApart
<1>2. PICK r \in wire[c] : TakeCallback(c, r)
  BY DEF HandleRecv
<1>3. PICK k, cb, g, t, b :
         /\ k = r.id /\ cb = table[c].kv[k].val
         /\ g = GetPtr(table[c], k) /\ t = Del(g, k)
         /\ b = B!BagAdd(called[c], <<cb, r.answers>>)
  OBVIOUS
<1>4. /\ k \in DOMAIN table[c].kv
      /\ called' = [called EXCEPT ![c] = b] /\ table' = [table EXCEPT ![c] = t]
      /\ UNCHANGED <<msg, at, reqid, wire, gone>>
  BY <1>2, <1>3 DEF TakeCallback, Exists
<1>5. /\ table'[c] = t /\ called'[c] = b
      /\ \A d \in Conn \ {c} : table'[d] = table[d] /\ called'[d] = called[d]
  BY <1>4 DEF ConnTypeOK
<1>6. ConnTypeOK'
  BY <1>4 DEF ConnTypeOK
<1>7. ASSUME NEW j \in Place PROVE \A x : Given(x, j)' <=> Given(x, j)
  BY <1>4 DEF Given
<1>8. \A x \in Message, j \in Place : Writing(x, j)' <=> Writing(x, j)
  BY <1>4 DEF Writing
<1>9. ASSUME NEW j \in Place, j # i PROVE ConnInv(j)'
  <2>1. Conns[j] \in Conn \ {c}
    BY <1>1, <1>9, PlacesApart
  <2> QED BY <1>4, <1>5, <1>7, <1>8, <2>1, Untouched
<1>10. ConnInv(i)
  OBVIOUS
<1>11. /\ LruOK(t) /\ DOMAIN t.kv = DOMAIN table[c].kv \ {k}
       /\ \A x \in DOMAIN t.kv : t.kv[x] = table[c].kv[x]
  <2>1. LruOK(table[c])
    BY <1>1, <1>10 DEF ConnInv
  <2>2. LruOK(g) /\ g.kv = table[c].kv
    BY <1>3, <1>4, <2>1, GetPtrKeeps
  <2> QED BY <1>3, <1>4, <2>2, DelKeeps
<1>12. [id |-> k, answers |-> cb] \in Tabled(c)
  BY <1>3, <1>4 DEF Tabled
<1>13. Tabled(c) \subseteq Known(i) /\ wire[c] \subseteq Known(i)
  BY <1>1 DEF Known
<1>14. r.answers = cb
  BY <1>3, <1>10, <1>12, <1>13 DEF ConnInv, IdsApart
<1>15. \A x \in Known(i) : x.id = k <=> x.answers = cb
  BY <1>3, <1>10, <1>13, <1>14 DEF ConnInv, IdsApart
<1>16. cb \notin CalledFor(c) \cup gone[c]
  BY <1>1, <1>10, <1>12 DEF ConnInv, OneFate
<1>17. Tabled(c)' \subseteq {x \in Tabled(c) : x.id # k}
  BY <1>5, <1>11 DEF Tabled
<1>18. Known(i)' \subseteq Known(i)
  <2>1. \A x \in Message : Writing(x, i)' => Serialised(x)' \in Known(i)
    BY <1>4, <1>8 DEF Known, Serialised, This
  <2> QED BY <1>1, <1>4, <1>13, <1>17, <2>1 DEF Known
<1>19. IdsApart(i)'
  BY <1>4, <1>7, <1>10, <1>18 DEF ConnInv, IdsApart
<1>20. NotYetSent(i)'
  BY <1>4, <1>8, <1>10 DEF ConnInv, NotYetSent, This
<1>21. IsABag(called[c]) /\ <<cb, cb>> \notin DOMAIN called[c]
  BY <1>1, <1>10, <1>16 DEF ConnInv, CalledOnce, CalledFor, BagToSet
<1>22. /\ IsABag(b) /\ DOMAIN b = DOMAIN called[c] \cup {<<cb, cb>>} /\ b[<<cb, cb>>] = 1
       /\ \A y \in DOMAIN called[c] : b[y] = called[c][y]
  <2>1. PICK x : x = <<cb, cb>>
    OBVIOUS
  <2>2. x = <<cb, r.answers>> /\ x \notin DOMAIN called[c]
    BY <1>14, <1>21, <2>1
  <2>3. /\ b = [e \in DOMAIN called[c] \cup {x} |-> IF e = x THEN 1 ELSE called[c][e]]
        /\ \A y \in DOMAIN called[c] : called[c][y] \in Nat \ {0}
    <3>1. b = [e \in DOMAIN called[c] \cup {x} |-> IF e = x THEN 1 ELSE called[c][e]]
      BY <1>3, <2>2, Zenon DEF B!BagAdd
    <3>2. called[c] \in [DOMAIN called[c] -> Nat \ {0}]
      BY <1>21 DEF IsABag
    <3> QED BY <3>1, <3>2
  <2>4. DOMAIN b = DOMAIN called[c] \cup {x} /\ b[x] = 1 /\ \A y \in DOMAIN called[c] : b[y] = called[c][y]
    BY <2>2, <2>3
  <2>5. b \in [DOMAIN b -> Nat \ {0}]
    BY <2>3, <2>4
  <2> QED BY <2>1, <2>4, <2>5 DEF IsABag
<1>23. CalledFor(c)' = CalledFor(c) \cup {cb}
  BY <1>5, <1>22 DEF CalledFor, BagToSet
<1>24. CalledOnce(c)'
  <2>1. \A x \in DOMAIN called[c] :
           x[2] = x[1] /\ called[c][x] = 1 /\ \E s \in wire[c] : s.answers = x[1]
    BY <1>1, <1>10 DEF ConnInv, CalledOnce
  <2> QED BY <1>4, <1>5, <1>14, <1>22, <2>1 DEF CalledOnce
<1>25. \A x \in Known(i)' : Found(c, x)'
  <2>1. ASSUME NEW x \in Known(i) PROVE Found(c, x)'
    <3>1. Found(c, x)
      BY <1>1, <1>10 DEF ConnInv
    <3>2. CASE x.id = k
      BY <1>15, <1>23, <3>2 DEF Found
    <3>3. CASE x.id # k
      BY <1>4, <1>5, <1>11, <1>23, <3>1, <3>3 DEF Found, Exists
    <3> QED BY <3>2, <3>3
  <2> QED BY <1>18, <2>1
<1>26. OneFate(i)'
  <2>1. \A x \in Tabled(c)' : x.answers \notin gone[c] \cup CalledFor(c) \cup {cb}
    BY <1>1, <1>10, <1>13, <1>15, <1>17 DEF ConnInv, OneFate
  <2>2. (\A x \in gone[c] : Given(x, i)) /\ CalledFor(c) \cap gone[c] = {}
    BY <1>1, <1>10 DEF ConnInv, OneFate
  <2> QED BY <1>1, <1>4, <1>7, <1>16, <1>23, <2>1, <2>2 DEF OneFate
<1>27. ConnInv(i)'
  BY <1>1, <1>5, <1>11, <1>19, <1>20, <1>24, <1>25, <1>26 DEF ConnInv
<1> QED BY <1>4, <1>6, <1>9, <1>27

-----------------------------------------------------------------------------
(* The theorems.                                                           *)

\* No step disturbs the ids and callbacks.
LEMMA NextKeepsRemote == RemoteInv /\ [Next]_vars => RemoteInv'
<1> SUFFICES ASSUME RemoteInv, [Next]_vars PROVE RemoteInv'
  OBVIOUS
<1>1. CASE \E m \in Message : Broadcast(m) \/ Assign(m) \/ Write(m) \/ WriteFails(m)
  BY <1>1, BroadcastKeeps, AssignKeeps, WriteKeeps, WriteFailsKeeps
<1>2. CASE \E c \in Conn : HandleRecv(c)
  BY <1>2, HandleRecvKeeps
<1>3. CASE UNCHANGED vars
  <2>1. ConnTypeOK'
    BY <1>3 DEF RemoteInv, ConnTypeOK, vars
  <2>2. ASSUME NEW i \in Place PROVE ConnInv(i)'
    <3>1. \A cb : Given(cb, i) => Given(cb, i)'
      BY <1>3 DEF Given, vars
    <3>2. \A m \in Message : Writing(m, i)' <=> Writing(m, i)
      BY <1>3 DEF Writing, vars
    <3>3. ConnInv(i)
      BY DEF RemoteInv
    <3> QED BY <1>3, <3>1, <3>2, <3>3, Untouched DEF vars
  <2> QED BY <2>1, <2>2 DEF RemoteInv
<1> QED BY <1>1, <1>2, <1>3 DEF Next

\* Ids and callbacks stay apart whatever the connections and broadcasts do.
THEOREM RemoteHolds == RemoteAssumption /\ Spec => []RemoteInv
BY InitRemote, NextKeepsRemote, PTL DEF Spec

\* A callback is called once per connection, with the answer to its own round of its
\* own broadcast, and never after it was evicted or taken back.
LEMMA InvOwnAnswer == RemoteInv => OwnAnswer
<1> SUFFICES ASSUME RemoteInv, NEW c \in Conn
             PROVE  /\ \A x \in BagToSet(called[c]) : x[2] = x[1] /\ called[c][x] = 1
                    /\ gone[c] \cap (CalledFor(c) \cup {table[c].kv[k].val : k \in DOMAIN table[c].kv}) = {}
  BY DEF OwnAnswer
<1>1. PICK i \in Place : c = Conns[i] /\ ConnInv(i)
  BY PlacesApart DEF RemoteInv
<1>2. \A x \in BagToSet(called[c]) : x[2] = x[1] /\ called[c][x] = 1
  BY <1>1 DEF ConnInv, CalledOnce, BagToSet
<1>3. ASSUME NEW k \in DOMAIN table[c].kv PROVE table[c].kv[k].val \notin gone[c]
  <2>1. [id |-> k, answers |-> table[c].kv[k].val] \in Tabled(c)
    BY DEF Tabled
  <2> QED BY <1>1, <2>1 DEF ConnInv, OneFate
<1>4. CalledFor(c) \cap gone[c] = {}
  BY <1>1 DEF ConnInv, OneFate
<1> QED BY <1>2, <1>3, <1>4

\* A response finds its callback unless that was called, evicted or taken back.
LEMMA InvCallbackFound == RemoteInv => CallbackFound
<1> SUFFICES ASSUME RemoteInv, NEW c \in Conn, NEW r \in wire[c] PROVE Found(c, r)
  BY DEF CallbackFound, Found
<1>1. PICK i \in Place : c = Conns[i] /\ ConnInv(i)
  BY PlacesApart DEF RemoteInv
<1>2. r \in Known(i)
  BY <1>1 DEF Known
<1> QED BY <1>1, <1>2 DEF ConnInv

=============================================================================
