--------------------------- MODULE IoUringProofs ---------------------------
(***************************************************************************)
(* Requests, contexts, eventfds and places in the rings of one worker, for *)
(* any callers, depths and batches, with failed submissions, interrupted   *)
(* calls and a stop at any moment.                                         *)
(*                                                                         *)
(* A request that is not done is in one place only: the queue, the         *)
(* worker's hand, or one context.  A context in use is in one ring only,   *)
(* until a submission fails and leaves its entries in the submission ring. *)
(* The next successful submission then ends the process, so that no        *)
(* completion of such an entry is ever taken for a request's.              *)
(***************************************************************************)
EXTENDS IoUring, FiniteSetTheorems, WellFoundedInduction, TLAPS

Result == Request \cup {Unset, SqeError, SubmitError}
Context == Nat \ {0}
Entry == Context \cup {Notifier}
Place == {"idle", "enqueue", "count", "notify", "wait", "returned"}
Call == [pc : Place, n : Nat, fd : Fd \cup {0}, ret : Result]
WorkerLocals ==
    [pc : {"top", "reap", "fill", "prepare", "submit", "aborted", "exited"},
     block : BOOLEAN, rearm : BOOLEAN, sqe : {0, 1}, batch : Seq(Context),
     uncompleted : Int, req : Request \cup {Unset}]

UringTypeOK ==
    /\ caller \in [Caller -> Call]
    /\ queue \in Seq(Request) /\ accepted \subseteq Request /\ done \in [Request -> Nat]
    /\ fdPool \in Seq(Fd) /\ fdVal \in [Fd -> Nat]
    /\ wk \in WorkerLocals
    /\ ctxPool \in Seq(Context)
    /\ DOMAIN ctxReq \subseteq Context /\ IsFiniteSet(DOMAIN ctxReq)
    /\ ctxReq \in [DOMAIN ctxReq -> Request]
    /\ sq \in Seq(Entry) /\ cq \in Seq(Entry)
    /\ kernel \subseteq Entry /\ IsFiniteSet(kernel)
    /\ event \in {"none", "signal", "submit", "stop"}

Live == wk.pc # "aborted"

\* The call a thread is in, or was in last, and how many it may make.
Current(c) == <<c, caller[c].n>>
Limit(c) == IF c \in SyncCaller THEN MaxSync ELSE MaxAsync

\* Calls are numbered; the current one has been accepted only after "enqueue",
\* and has an eventfd if it waits.
Asked ==
    /\ \A c \in Caller : caller[c].n <= Limit(c) /\ (InCall(c) => caller[c].n > 0)
    /\ \A r \in accepted : r[2] <= caller[r[1]].n
    /\ \A c \in Caller : caller[c].pc = "enqueue" => Current(c) \notin accepted
    /\ \A c \in SyncCaller : InCall(c) => caller[c].fd \in Fd

\* A request that was accepted and is not done.
Waiting(r) == r \in accepted /\ done[r] = 0
Queued(r) == r \in Range(queue)
InContext(r) == r \in Range(ctxReq)

\* Requests under way are in one place, once, and not done.
OnePlace ==
    /\ IsInjective(queue) /\ \A r \in Range(queue) : Waiting(r)
    /\ wk.pc = "prepare" => Waiting(wk.req) /\ ~Queued(wk.req) /\ ~InContext(wk.req)
    /\ IsInjective(ctxReq) /\ \A r \in Range(ctxReq) : Waiting(r) /\ ~Queued(r)

\* Contexts in use are not idle; those in a batch have not yet been submitted,
\* and what the kernel has and what it completed are contexts in use.
Contexts ==
    /\ Len(ctxPool) <= Iodepth /\ IsInjective(ctxPool) /\ Range(ctxPool) \cap DOMAIN ctxReq = {}
    /\ IsInjective(wk.batch)
    /\ Live =>
          /\ Range(wk.batch) \subseteq DOMAIN ctxReq
          /\ kernel \cup Range(cq) \subseteq (DOMAIN ctxReq \ Range(wk.batch)) \cup {Notifier}
          /\ IsInjective(cq) /\ kernel \cap Range(cq) = {}

\* The submission ring ends with the notifier's entry, if it is armed again, and
\* the batch; there is nothing else in it while no submission has failed.
Ring ==
    /\ wk.pc \in {"top", "reap", "exited"} => wk.batch = <<>> /\ wk.sqe = 0
    /\ Len(sq) <= Iodepth
    /\ Live =>
          /\ Total <= Len(sq)
          /\ \A i \in 1 .. Len(wk.batch) : sq[Len(sq) - Len(wk.batch) + i] = wk.batch[i]
          /\ wk.sqe = 1 => wk.rearm /\ sq[Len(sq) - Len(wk.batch)] = Notifier
          /\ wk.rearm => Notifier \notin kernel \cup Range(cq)
    /\ event # "submit" => Live /\ Len(sq) = Total

\* What is uncompleted, and how much more may be submitted.
Counts ==
    /\ Total <= MaxBatch /\ (wk.pc = "prepare" => Total < MaxBatch)
    /\ Cardinality(kernel) + Len(cq) <= 2 * Iodepth
    /\ Live =>
          /\ wk.uncompleted = Cardinality(kernel) + Len(cq)
          /\ wk.uncompleted + (IF wk.rearm THEN 1 ELSE 0) <= 2 * Iodepth - 1
          /\ wk.pc = "prepare" \/ Range(sq) \cap Context # {} => wk.uncompleted < Iodepth

\* While no call was interrupted: a call has its eventfd alone, and in it is
\* whether it is done; all other eventfds are empty.
Eventfds ==
    event # "signal" =>
       /\ IsInjective(fdPool)
       /\ \A c \in SyncCaller : InCall(c) =>
             /\ caller[c].fd \in Fd \ Range(fdPool)
             /\ fdVal[caller[c].fd] = done[Current(c)]
             /\ \A d \in SyncCaller : InCall(d) /\ caller[d].fd = caller[c].fd => d = c
       /\ \A x \in Fd : (\A c \in SyncCaller : InCall(c) => caller[c].fd # x) => fdVal[x] = 0

\* Where a call is once its request has been accepted.
Issuing == {"count", "notify", "wait", "returned"}

\* While no call was interrupted: who has returned is done, and who is done has
\* the result.
Results ==
    event # "signal" =>
       /\ \A r \in accepted : r[1] \in SyncCaller /\ (r # Current(r[1]) \/ ~InCall(r[1])) =>
             done[r] = 1
       /\ \A c \in SyncCaller : Current(c) \in accepted /\ done[Current(c)] = 1 =>
             caller[c].ret \in {Current(c), SqeError, SubmitError}
       /\ \A c \in SyncCaller : caller[c].pc \in Issuing => Current(c) \in accepted

UringInv ==
    /\ UringTypeOK /\ DoneOnce /\ Asked /\ OnePlace /\ Contexts /\ Ring /\ Counts
    /\ Eventfds /\ Results

-----------------------------------------------------------------------------
(* Sizes, sequences and pools.                                             *)

\* A set of natural numbers has a smallest one.
LEMMA HasMin ==
    ASSUME NEW S \in SUBSET Nat, S # {}
    PROVE  Min(S) \in S
<1>1. IsWellFoundedOn(OpToRel(<, Nat), Nat)
  BY NatLessThanWellFounded, Zenon
<1>2. PICK x \in S : \A y \in S : ~(<<y, x>> \in OpToRel(<, Nat))
  BY <1>1, WFMin, Zenon
<1>3. ASSUME NEW y \in S PROVE x <= y
  <2>1. ~(y < x)
    BY <1>2, <1>3, Zenon DEF OpToRel
  <2> QED BY <2>1, <1>3
<1> QED BY <1>3, Zenon DEF Min

\* A new object has a number that is not in use, and not above their number.
LEMMA FreshIsNew ==
    ASSUME NEW used, IsFiniteSet(used)
    PROVE  Fresh(used) \in (1 .. Cardinality(used) + 1) \ used
<1> DEFINE n == Cardinality(used) + 1
           S == (1 .. n) \ used
<1>1. n \in Nat
  BY FS_CardinalityType
<1>2. S # {}
  <2> SUFFICES ASSUME 1 .. n \subseteq used PROVE FALSE
    OBVIOUS
  <2>1. Cardinality(1 .. n) <= Cardinality(used)
    BY FS_Subset
  <2>2. Cardinality(1 .. n) = n
    BY <1>1, FS_Interval
  <2> QED BY <2>1, <2>2, FS_CardinalityType
<1>3. Min(S) \in S
  <2>1. S \in SUBSET Nat
    BY <1>1
  <2> HIDE DEF S
  <2> QED BY <2>1, <1>2, HasMin
<1> QED BY <1>3 DEF Fresh

\* The depth of the ring, with the notifier's place, and the largest batch.
LEMMA Sizes == Iodepth \in Nat /\ Iodepth >= 2 /\ MaxBatch \in 1 .. Iodepth
<1> DEFINE b == IF OptBatch <= 0 THEN 256 ELSE OptBatch
<1>1. Depth \in Nat /\ Depth >= 1 /\ b \in Nat /\ b >= 1
  BY UringAssumption DEF Depth
<1>2. Min({b, Depth}) \in {b, Depth} /\ Min({b, Depth}) <= Depth
  <2> HIDE DEF b
  <2>1. \E x \in {b, Depth} : \A y \in {b, Depth} : x <= y
    BY <1>1
  <2>2. Min({b, Depth}) \in {b, Depth} /\ \A y \in {b, Depth} : Min({b, Depth}) <= y
    BY <2>1, Zenon DEF Min
  <2> QED BY <2>2
<1>3. MaxBatch = Min({b, Depth}) + 1
  BY DEF MaxBatch
<1> HIDE DEF b
<1> QED BY <1>1, <1>2, <1>3 DEF Iodepth

\* What appending to a sequence adds to its elements.
LEMMA Appended ==
    ASSUME NEW S, NEW s \in Seq(S), NEW x \in S
    PROVE  /\ Append(s, x) \in Seq(S) /\ Range(Append(s, x)) = Range(s) \cup {x}
           /\ IsInjective(s) /\ x \notin Range(s) => IsInjective(Append(s, x))
<1>1. Append(s, x) \in Seq(S) /\ Len(Append(s, x)) = Len(s) + 1 /\ Len(s) \in Nat
      /\ DOMAIN Append(s, x) = 1 .. Len(s) + 1 /\ DOMAIN s = 1 .. Len(s)
  OBVIOUS
<1>2. /\ Append(s, x)[Len(s) + 1] = x
      /\ \A i \in 1 .. Len(s) : Append(s, x)[i] = s[i]
  OBVIOUS
<1> DEFINE t == Append(s, x)
<1> HIDE DEF t
<1> SUFFICES /\ Range(t) = Range(s) \cup {x}
             /\ IsInjective(s) /\ x \notin Range(s) => IsInjective(t)
  BY <1>1 DEF t
<1>3. /\ DOMAIN t = 1 .. Len(s) + 1 /\ t[Len(s) + 1] = x
      /\ \A i \in 1 .. Len(s) : t[i] = s[i]
  BY <1>1, <1>2 DEF t
<1>4. \A i \in DOMAIN t : i \in 1 .. Len(s) \/ i = Len(s) + 1
  BY <1>1, <1>3
<1>5. Range(t) = Range(s) \cup {x}
  BY <1>1, <1>3, <1>4 DEF Range
<1>6. ASSUME IsInjective(s), x \notin Range(s) PROVE IsInjective(t)
  BY <1>1, <1>3, <1>4, <1>6 DEF Range, IsInjective
<1> QED BY <1>5, <1>6

\* Taking the first element out of a sequence.
LEMMA HeadTaken ==
    ASSUME NEW S, NEW s \in Seq(S), s # <<>>
    PROVE  /\ Head(s) \in S /\ Tail(s) \in Seq(S) /\ Len(Tail(s)) = Len(s) - 1
           /\ Len(s) \in Nat \ {0}
           /\ Range(s) = Range(Tail(s)) \cup {Head(s)}
           /\ IsInjective(s) => IsInjective(Tail(s)) /\ Head(s) \notin Range(Tail(s))
<1>1. /\ Head(s) \in S /\ Tail(s) \in Seq(S) /\ Len(Tail(s)) = Len(s) - 1
      /\ Len(s) \in Nat \ {0} /\ Head(s) = s[1]
      /\ \A i \in 1 .. Len(s) - 1 : Tail(s)[i] = s[i + 1]
      /\ DOMAIN s = 1 .. Len(s) /\ DOMAIN Tail(s) = 1 .. Len(s) - 1
  OBVIOUS
<1> DEFINE t == Tail(s)
<1> HIDE DEF t
<1>2. /\ \A i \in 1 .. Len(s) - 1 : t[i] = s[i + 1]
      /\ DOMAIN s = 1 .. Len(s) /\ DOMAIN t = 1 .. Len(s) - 1
  BY <1>1 DEF t
<1>3. \A i \in DOMAIN s : i = 1 \/ (i - 1 \in DOMAIN t /\ s[i] = t[i - 1])
  BY <1>1, <1>2
<1>4. \A i \in DOMAIN t : i + 1 \in DOMAIN s /\ t[i] = s[i + 1] /\ i + 1 # 1
  BY <1>1, <1>2
<1>5. Range(s) = Range(t) \cup {s[1]}
  <2>1. 1 \in DOMAIN s
    BY <1>1
  <2> QED BY <2>1, <1>3, <1>4 DEF Range
<1>6. ASSUME IsInjective(s) PROVE IsInjective(t) /\ s[1] \notin Range(t)
  <2>1. 1 \in DOMAIN s
    BY <1>1
  <2>2. s[1] \notin Range(t)
    BY <2>1, <1>4, <1>6 DEF Range, IsInjective
  <2>3. ASSUME NEW i \in DOMAIN t, NEW j \in DOMAIN t, t[i] = t[j] PROVE i = j
    <3>1. i + 1 = j + 1
      BY <2>3, <1>4, <1>6 DEF IsInjective
    <3> QED BY <3>1, <1>2
  <2> QED BY <2>2, <2>3 DEF IsInjective
<1> QED BY <1>1, <1>5, <1>6 DEF t

\* Taking the last element out of a sequence.
LEMMA LastTaken ==
    ASSUME NEW S, NEW s \in Seq(S), s # <<>>
    PROVE  /\ Last(s) \in S /\ Front(s) \in Seq(S) /\ Len(Front(s)) = Len(s) - 1
           /\ Last(s) \in Range(s) /\ Range(Front(s)) \subseteq Range(s)
           /\ IsInjective(s) => IsInjective(Front(s)) /\ Last(s) \notin Range(Front(s))
<1>1. /\ Len(s) \in Nat \ {0} /\ DOMAIN s = 1 .. Len(s) /\ s[Len(s)] \in S
  OBVIOUS
<1>2. /\ SubSeq(s, 1, Len(s) - 1) \in Seq(S)
      /\ DOMAIN SubSeq(s, 1, Len(s) - 1) = 1 .. Len(s) - 1
      /\ \A i \in 1 .. Len(s) - 1 : SubSeq(s, 1, Len(s) - 1)[i] = s[i]
  OBVIOUS
<1> DEFINE t == Front(s)
<1>3. t \in Seq(S) /\ DOMAIN t = 1 .. Len(s) - 1 /\ \A i \in DOMAIN t : t[i] = s[i]
  BY <1>2 DEF Front
<1> HIDE DEF t
<1>7. Len(t) = Len(s) - 1
  <2>1. Len(t) \in Nat /\ DOMAIN t = 1 .. Len(t)
    BY <1>3
  <2>2. ASSUME NEW a \in Nat, NEW b \in Nat, 1 .. a = 1 .. b PROVE a <= b
    <3>1. CASE a = 0
      BY <3>1
    <3>2. CASE a # 0
      <4>1. a \in 1 .. a
        BY <3>2
      <4> QED BY <4>1, <2>2
    <3> QED BY <3>1, <3>2
  <2>3. Len(s) - 1 \in Nat
    BY <1>1
  <2>4. Len(t) <= Len(s) - 1 /\ Len(s) - 1 <= Len(t)
    BY <2>1, <2>2, <2>3, <1>3
  <2> QED BY <2>1, <2>3, <2>4
<1>4. /\ Len(s) \in DOMAIN s /\ Len(s) \notin DOMAIN t
      /\ \A i \in DOMAIN t : i \in DOMAIN s /\ t[i] = s[i]
  BY <1>1, <1>3
<1>5. s[Len(s)] \in Range(s) /\ Range(t) \subseteq Range(s)
  BY <1>4 DEF Range
<1>6. IsInjective(s) => IsInjective(t) /\ s[Len(s)] \notin Range(t)
  BY <1>4 DEF Range, IsInjective
<1> QED BY <1>1, <1>3, <1>5, <1>6, <1>7 DEF Last, t

\* An object that is released is in the pool or gone.
LEMMA Released ==
    ASSUME NEW S, NEW pool \in Seq(S), NEW x \in S, NEW capacity \in Nat
    PROVE  /\ Release(pool, x, capacity) \in Seq(S)
           /\ Len(pool) <= capacity => Len(Release(pool, x, capacity)) <= capacity
           /\ Range(Release(pool, x, capacity)) \subseteq Range(pool) \cup {x}
           /\ IsInjective(pool) /\ x \notin Range(pool) => IsInjective(Release(pool, x, capacity))
<1>1. Len(Append(pool, x)) = Len(pool) + 1 /\ Len(pool) \in Nat
  OBVIOUS
<1> QED BY <1>1, Appended DEF Release

\* Several that are released are in the pool or gone.
LEMMA AllReleased ==
    ASSUME NEW S, NEW pool \in Seq(S), NEW objs \in Seq(S), NEW capacity \in Nat,
           Len(pool) <= capacity
    PROVE  LET p == ReleaseAll(pool, objs, capacity) IN
           /\ p \in Seq(S) /\ Len(p) <= capacity
           /\ Range(p) \subseteq Range(pool) \cup Range(objs)
           /\ IsInjective(pool) /\ IsInjective(objs) /\ Range(pool) \cap Range(objs) = {} =>
                 IsInjective(p)
<1> DEFINE p == ReleaseAll(pool, objs, capacity)
           n == Len(pool)
<1> SUFFICES /\ p \in Seq(S) /\ Len(p) <= capacity
             /\ Range(p) \subseteq Range(pool) \cup Range(objs)
             /\ IsInjective(pool) /\ IsInjective(objs) /\ Range(pool) \cap Range(objs) = {} =>
                   IsInjective(p)
  OBVIOUS
<1>1. /\ n \in Nat /\ Len(objs) \in Nat
      /\ DOMAIN pool = 1 .. n /\ DOMAIN objs = 1 .. Len(objs)
  OBVIOUS
<1>2. \E m \in 0 .. Len(objs) :
         /\ p \in Seq(S) /\ n + m <= capacity /\ DOMAIN p = 1 .. n + m
         /\ \A i \in 1 .. n : p[i] = pool[i]
         /\ \A i \in 1 .. m : p[n + i] = objs[i]
  <2>1. CASE n + Len(objs) <= capacity
    <3>1. p = pool \o objs
      BY <2>1 DEF ReleaseAll
    <3>2. /\ pool \o objs \in Seq(S) /\ DOMAIN (pool \o objs) = 1 .. n + Len(objs)
          /\ \A i \in 1 .. n : (pool \o objs)[i] = pool[i]
          /\ \A i \in 1 .. Len(objs) : (pool \o objs)[n + i] = objs[i]
      BY <1>1
    <3>3. /\ p \in Seq(S) /\ n + Len(objs) <= capacity /\ DOMAIN p = 1 .. n + Len(objs)
          /\ \A i \in 1 .. n : p[i] = pool[i]
          /\ \A i \in 1 .. Len(objs) : p[n + i] = objs[i]
      <4> HIDE DEF p, n
      <4> QED BY <3>1, <3>2, <2>1
    <3> HIDE DEF p, n
    <3> WITNESS Len(objs) \in 0 .. Len(objs)
    <3> QED BY <3>3
  <2>2. CASE ~(n + Len(objs) <= capacity)
    <3> DEFINE m == capacity - n
               q == SubSeq(objs, 1, m)
    <3>1. p = pool \o q /\ m \in 0 .. Len(objs) /\ n + m <= capacity
      BY <2>2, <1>1 DEF ReleaseAll
    <3> HIDE DEF m
    <3>2. q \in Seq(S) /\ Len(q) = m /\ \A i \in 1 .. m : q[i] = objs[i]
      BY <3>1, <1>1
    <3> HIDE DEF q
    <3>3. /\ pool \o q \in Seq(S) /\ DOMAIN (pool \o q) = 1 .. n + Len(q)
          /\ \A i \in 1 .. n : (pool \o q)[i] = pool[i]
          /\ \A i \in 1 .. Len(q) : (pool \o q)[n + i] = q[i]
      BY SMTT(30), <1>1, <3>2
    <3>4. /\ p \in Seq(S) /\ n + m <= capacity /\ DOMAIN p = 1 .. n + m
          /\ \A i \in 1 .. n : p[i] = pool[i]
          /\ \A i \in 1 .. m : p[n + i] = objs[i]
      <4> HIDE DEF p, n
      <4> QED BY <3>1, <3>2, <3>3
    <3> HIDE DEF p, n
    <3> QED BY <3>1, <3>4
  <2> QED BY <2>1, <2>2
<1> HIDE DEF p, n
<1>3. PICK m \in 0 .. Len(objs) :
         /\ p \in Seq(S) /\ n + m <= capacity /\ DOMAIN p = 1 .. n + m
         /\ \A i \in 1 .. n : p[i] = pool[i]
         /\ \A i \in 1 .. m : p[n + i] = objs[i]
  BY <1>2
<1>4. ASSUME NEW i \in DOMAIN p
      PROVE  \/ i \in DOMAIN pool /\ p[i] = pool[i]
             \/ i - n \in DOMAIN objs /\ p[i] = objs[i - n]
  <2>1. CASE i <= n
    BY <2>1, <1>1, <1>3
  <2>2. CASE i > n
    <3>1. i - n \in 1 .. m /\ i = n + (i - n)
      BY <2>2, <1>1, <1>3
    <3>2. p[n + (i - n)] = objs[i - n]
      BY <3>1, <1>3
    <3> QED BY <3>1, <3>2, <1>1, <1>3
  <2> QED BY <2>1, <2>2, <1>1, <1>3
<1>5. Range(p) \subseteq Range(pool) \cup Range(objs) /\ Len(p) <= capacity
  BY <1>1, <1>3, <1>4 DEF Range
<1>6. ASSUME IsInjective(pool), IsInjective(objs), Range(pool) \cap Range(objs) = {},
             NEW i \in DOMAIN p, NEW j \in DOMAIN p, p[i] = p[j]
      PROVE  i = j
  <2>1. /\ i \in DOMAIN pool => pool[i] \in Range(pool)
        /\ j \in DOMAIN pool => pool[j] \in Range(pool)
        /\ i - n \in DOMAIN objs => objs[i - n] \in Range(objs)
        /\ j - n \in DOMAIN objs => objs[j - n] \in Range(objs)
    BY DEF Range
  <2>2. i = j \/ i - n = j - n
    BY <2>1, <1>4, <1>6 DEF IsInjective
  <2> QED BY <2>2, <1>1, <1>3
<1> QED BY <1>3, <1>5, <1>6 DEF IsInjective

\* An object that is allocated is new, or was idle and is not any more.
LEMMA Allocated ==
    ASSUME NEW S, NEW pool \in Seq(S), NEW used, pool = <<>> => IsFiniteSet(used),
           NEW a, a \in {AllocLast(pool, used), AllocFirst(pool, used)}
    PROVE  /\ a.obj \notin used \ Range(pool)
           /\ a.pool \in Seq(S) /\ Len(a.pool) <= Len(pool)
           /\ IsInjective(pool) => IsInjective(a.pool) /\ a.obj \notin Range(a.pool)
           /\ Range(a.pool) \subseteq Range(pool)
           /\ \/ a.obj \in Range(pool) /\ a.obj \in S
              \/ /\ pool = <<>> /\ Cardinality(used) \in Nat
                 /\ a.obj \in 1 .. Cardinality(used) + 1 /\ a.obj \notin used
<1>1. CASE pool = <<>>
  <2>1. a = [obj |-> Fresh(used), pool |-> pool]
    BY <1>1 DEF AllocLast, AllocFirst
  <2>2. Fresh(used) \in (1 .. Cardinality(used) + 1) \ used /\ Cardinality(used) \in Nat
    BY <1>1, FreshIsNew, FS_CardinalityType
  <2>3. Range(pool) = {}
    BY <1>1 DEF Range
  <2>4. a.obj = Fresh(used) /\ a.pool = pool /\ Len(pool) <= Len(pool)
    BY <2>1
  <2> QED BY <2>2, <2>3, <2>4, <1>1
<1>2. CASE pool # <<>>
  <2>1. \/ a = [obj |-> Last(pool), pool |-> Front(pool)]
        \/ a = [obj |-> Head(pool), pool |-> Tail(pool)]
    BY <1>2 DEF AllocLast, AllocFirst
  <2>2. /\ Last(pool) \in S /\ Front(pool) \in Seq(S) /\ Len(Front(pool)) <= Len(pool)
        /\ Last(pool) \in Range(pool) /\ Range(Front(pool)) \subseteq Range(pool)
        /\ IsInjective(pool) => IsInjective(Front(pool)) /\ Last(pool) \notin Range(Front(pool))
    BY <1>2, LastTaken
  <2>3. /\ Head(pool) \in S /\ Tail(pool) \in Seq(S) /\ Len(Tail(pool)) <= Len(pool)
        /\ Head(pool) \in Range(pool) /\ Range(Tail(pool)) \subseteq Range(pool)
        /\ IsInjective(pool) => IsInjective(Tail(pool)) /\ Head(pool) \notin Range(Tail(pool))
    BY <1>2, HeadTaken
  <2>4. \/ a.obj = Last(pool) /\ a.pool = Front(pool)
        \/ a.obj = Head(pool) /\ a.pool = Tail(pool)
    BY <2>1
  <2> QED BY <2>2, <2>3, <2>4
<1> QED BY <1>1, <1>2

\* A sequence has no more elements than places, and as many if none is repeated.
LEMMA RangeCount ==
    ASSUME NEW S, NEW s \in Seq(S)
    PROVE  /\ IsFiniteSet(Range(s)) /\ Cardinality(Range(s)) \in Nat
           /\ Cardinality(Range(s)) <= Len(s)
           /\ IsInjective(s) => Cardinality(Range(s)) = Len(s)
<1>1. Len(s) \in Nat /\ DOMAIN s = 1 .. Len(s) /\ s \in [1 .. Len(s) -> S]
  OBVIOUS
<1>2. IsFiniteSet(1 .. Len(s)) /\ Cardinality(1 .. Len(s)) = Len(s)
  BY <1>1, FS_Interval
<1>3. s \in [1 .. Len(s) -> Range(s)]
  BY <1>1 DEF Range
<1>4. s \in Surjection(1 .. Len(s), Range(s))
  BY <1>1, <1>3 DEF Surjection, Range
<1>5. IsInjective(s) => s \in Injection(1 .. Len(s), Range(s))
  BY <1>3 DEF Injection
<1> QED BY <1>2, <1>4, <1>5, FS_Surjection, FS_CardinalityType

-----------------------------------------------------------------------------
(* What a step that leaves a part of the state alone keeps.                *)

\* No call begins.
NoCallBegins ==
    \A c \in Caller :
       /\ caller'[c].n = caller[c].n
       /\ InCall(c)' => InCall(c)
       /\ caller'[c].pc = "enqueue" => caller[c].pc = "enqueue"
       /\ c \in SyncCaller => caller'[c].fd = caller[c].fd

\* The calls that wait go on: at most their place in issueRequest changes.
WaitsGoOn ==
    \A c \in SyncCaller :
       /\ caller'[c].n = caller[c].n /\ caller'[c].fd = caller[c].fd
       /\ caller'[c].ret = caller[c].ret
       /\ InCall(c)' <=> InCall(c)

\* The numbering of calls.
LEMMA AskedStays ==
    ASSUME Asked, NoCallBegins, accepted' = accepted, accepted \subseteq Request
    PROVE  Asked'
<1>1. \A r \in Request : r[1] \in Caller
  BY DEF Request, Caller
<1>2. SyncCaller \subseteq Caller
  BY DEF Caller
<1> QED BY <1>1, <1>2 DEF Asked, NoCallBegins, Current

\* The places of requests.
LEMMA OnePlaceStays ==
    ASSUME OnePlace, UNCHANGED <<queue, ctxReq, accepted, done>>,
           wk'.pc = "prepare" => wk.pc = "prepare" /\ wk'.req = wk.req
    PROVE  OnePlace'
BY DEF OnePlace, Waiting, Queued, InContext

\* The contexts.
LEMMA ContextsStay ==
    ASSUME Contexts, UNCHANGED <<ctxPool, ctxReq, kernel, cq>>, Live' => Live,
           wk'.batch = wk.batch
    PROVE  Contexts'
BY DEF Contexts

\* The submission ring.
LEMMA RingStays ==
    ASSUME Ring, UNCHANGED <<sq, kernel, cq>>, Live' <=> Live,
           wk'.batch = wk.batch, wk'.sqe = wk.sqe, wk'.rearm = wk.rearm,
           wk'.pc \in {"top", "reap", "exited"} => wk.batch = <<>> /\ wk.sqe = 0,
           event' # "submit" => event # "submit"
    PROVE  Ring'
BY DEF Ring, Total

\* The counters.
LEMMA CountsStay ==
    ASSUME Counts, UNCHANGED <<sq, kernel, cq>>, Live' => Live,
           wk'.batch = wk.batch, wk'.sqe = wk.sqe, wk'.rearm = wk.rearm,
           wk'.uncompleted = wk.uncompleted,
           wk'.pc = "prepare" => Total < MaxBatch /\ wk.uncompleted < Iodepth
    PROVE  Counts'
BY DEF Counts, Total

\* The eventfds.
LEMMA EventfdsStay ==
    ASSUME Eventfds, WaitsGoOn, UNCHANGED <<fdPool, fdVal, done>>,
           event' # "signal" => event # "signal"
    PROVE  Eventfds'
<1> SUFFICES ASSUME event' # "signal" PROVE Eventfds'
  BY DEF Eventfds
<1>1. \A c \in SyncCaller : /\ caller'[c].fd = caller[c].fd /\ (InCall(c)' <=> InCall(c))
                            /\ Current(c)' = Current(c)
  BY DEF WaitsGoOn, Current
<1> QED BY <1>1 DEF Eventfds

\* The results.
LEMMA ResultsStay ==
    ASSUME Results, WaitsGoOn, UNCHANGED <<accepted, done>>,
           event' # "signal" => event # "signal",
           \A c \in SyncCaller : caller'[c].pc \in Issuing => caller[c].pc \in Issuing
    PROVE  Results'
<1> SUFFICES ASSUME event' # "signal" PROVE Results'
  BY DEF Results
<1>1. \A c \in SyncCaller : /\ caller'[c].ret = caller[c].ret /\ (InCall(c)' <=> InCall(c))
                            /\ Current(c)' = Current(c)
  BY DEF WaitsGoOn, Current
<1>2. \A r : r[1] \in SyncCaller => Current(r[1])' = Current(r[1])
  BY <1>1
<1> QED BY <1>1, <1>2 DEF Results

\* All that a step of a caller leaves alone.
LEMMA RestStays ==
    ASSUME UringInv, UNCHANGED <<queue, workerVars, ringVars, accepted, done>>,
           event' # "submit" => event # "submit"
    PROVE  DoneOnce' /\ OnePlace' /\ Contexts' /\ Ring' /\ Counts'
<1> USE DEF UringInv, workerVars, ringVars
<1>1. DoneOnce' /\ OnePlace' /\ Contexts' /\ Ring'
  BY OnePlaceStays, ContextsStay, RingStays DEF Live, Ring, DoneOnce
<1>2. Counts'
  BY CountsStay DEF Live, Counts
<1> QED BY <1>1, <1>2

-----------------------------------------------------------------------------
(* The initial state.                                                      *)

\* Nothing is under way but the notifier's poll request.
LEMMA InitUring == Init => UringInv
<1> SUFFICES ASSUME Init PROVE UringInv
  OBVIOUS
<1> USE DEF Init
<1>1. /\ DOMAIN (<< >>) = {} /\ Range(<< >>) = {} /\ Len(<< >>) = 0
      /\ IsInjective(<< >>) /\ \A S : << >> \in Seq(S)
  BY DEF Range, IsInjective
<1>2. IsFiniteSet({}) /\ IsFiniteSet({Notifier}) /\ Cardinality({Notifier}) = 1
  BY FS_EmptySet, FS_Singleton
<1>3. Iodepth \in Nat /\ Iodepth >= 2 /\ MaxBatch \in 1 .. Iodepth
  BY Sizes
<1>4. UringTypeOK
  <2>1. caller \in [Caller -> Call]
    BY DEF Result, Call, Place
  <2>2. ctxReq \in [DOMAIN ctxReq -> Request]
    BY <1>1
  <2>3. wk \in WorkerLocals
    BY <1>1 DEF WorkerLocals
  <2> QED BY <2>1, <2>2, <2>3, <1>1, <1>2 DEF UringTypeOK, Entry
<1>5. Asked
  BY UringAssumption DEF Asked, Limit, InCall, Caller
<1>6. OnePlace
  BY <1>1 DEF OnePlace
<1>7. Contexts
  BY <1>1, <1>3 DEF Contexts
<1>8. Ring
  BY <1>1, <1>3 DEF Ring, Total, Live
<1>9. Counts
  BY <1>1, <1>2, <1>3 DEF Counts, Total, Live
<1>10. Eventfds
  BY <1>1 DEF Eventfds, InCall, Caller
<1>11. Results
  BY DEF Results, Caller, Issuing
<1>12. DoneOnce
  BY DEF DoneOnce
<1> QED BY <1>4, <1>5, <1>6, <1>7, <1>8, <1>9, <1>10, <1>11, <1>12 DEF UringInv

-----------------------------------------------------------------------------
(* The callers.                                                            *)

\* A call that goes from one place of issueRequest to another.
LEMMA CallMoves ==
    ASSUME UringTypeOK, NEW c \in Caller, NEW p \in Place,
           caller' = [caller EXCEPT ![c].pc = p]
    PROVE  /\ caller' \in [Caller -> Call]
           /\ caller'[c].pc = p /\ caller'[c].n = caller[c].n
           /\ caller'[c].fd = caller[c].fd /\ caller'[c].ret = caller[c].ret
           /\ \A d \in Caller \ {c} : caller'[d] = caller[d]
BY DEF UringTypeOK, Call

\* A step of issueRequest after the request is in the queue.
LEMMA IssueKeeps ==
    ASSUME UringInv, NEW c \in Caller, caller[c].pc \in {"count", "notify"},
           NEW p \in {"notify", Issued(c)}, caller' = [caller EXCEPT ![c].pc = p],
           UNCHANGED <<queue, fdPool, fdVal, workerVars, ringVars, stopVars, accepted, done>>
    PROVE  UringInv'
<1> USE DEF UringInv
<1>0. p \in Place /\ p \in {"notify", "idle", "wait"} /\ (c \in SyncCaller => p # "idle")
  BY DEF Issued, Place
<1>2. /\ caller' \in [Caller -> Call]
      /\ caller'[c].pc = p /\ caller'[c].n = caller[c].n
      /\ caller'[c].fd = caller[c].fd /\ caller'[c].ret = caller[c].ret
      /\ \A d \in Caller \ {c} : caller'[d] = caller[d]
  BY <1>0, CallMoves
<1>3. NoCallBegins
  BY <1>0, <1>2 DEF NoCallBegins, InCall
<1>4. /\ WaitsGoOn
      /\ \A d \in SyncCaller : caller'[d].pc \in Issuing => caller[d].pc \in Issuing
  BY <1>0, <1>2 DEF WaitsGoOn, InCall, Caller, Issuing
<1> USE DEF workerVars, ringVars, stopVars
<1>5. UringTypeOK'
  BY <1>2 DEF UringTypeOK
<1>6. Asked' /\ Eventfds' /\ Results'
  BY <1>3, <1>4, AskedStays, EventfdsStay, ResultsStay DEF UringTypeOK
<1>7. DoneOnce' /\ OnePlace' /\ Contexts' /\ Ring' /\ Counts'
  BY RestStays
<1> QED BY <1>5, <1>6, <1>7

\* An asynchronous call begins.
LEMMA AsyncCallKeeps == ASSUME UringInv, NEW c \in Caller, AsyncCall(c) PROVE UringInv'
<1> USE DEF UringInv, AsyncCall
<1>1. c \notin SyncCaller /\ Limit(c) = MaxAsync /\ MaxAsync \in Nat
  BY UringAssumption DEF Limit
<1>2. /\ caller' \in [Caller -> Call]
      /\ caller'[c].pc = "enqueue" /\ caller'[c].n = caller[c].n + 1 /\ caller[c].n \in Nat
      /\ \A d \in Caller \ {c} : caller'[d] = caller[d]
  <2>1. caller \in [Caller -> Call]
    BY DEF UringTypeOK
  <2>2. caller[c].n \in Nat /\ Unset \in Result
    BY <2>1 DEF Call, Result
  <2> DEFINE l == [pc |-> "enqueue", n |-> caller[c].n + 1, fd |-> 0, ret |-> Unset]
  <2>3. l \in Call /\ l.pc = "enqueue" /\ l.n = caller[c].n + 1
    BY <2>2 DEF Call, Place
  <2>4. caller' = [caller EXCEPT ![c] = l]
    OBVIOUS
  <2> HIDE DEF l
  <2> QED BY <2>1, <2>2, <2>3, <2>4
<1>3. /\ WaitsGoOn
      /\ \A d \in SyncCaller : caller'[d].pc \in Issuing => caller[d].pc \in Issuing
  BY <1>1, <1>2 DEF WaitsGoOn, InCall, Caller, Issuing
<1> USE DEF workerVars, ringVars, stopVars
<1>4. UringTypeOK'
  BY <1>2 DEF UringTypeOK
<1>5. Asked'
  <2>1. \A r \in accepted : r[1] \in Caller /\ r[2] \in Nat
    BY UringAssumption DEF UringTypeOK, Request, Caller
  <2>2. \A d \in Caller : Limit(d)' = Limit(d)
    BY DEF Limit
  <2>3. \A d \in Caller : caller'[d].n <= Limit(d)' /\ (InCall(d)' => caller'[d].n > 0)
    BY <2>2, <1>1, <1>2 DEF Asked, InCall
  <2>4. \A r \in accepted : r[2] <= caller'[r[1]].n
    BY <2>1, <1>2 DEF Asked
  <2>5. \A d \in Caller : caller'[d].pc = "enqueue" => Current(d)' \notin accepted
    <3>1. Current(c)' \notin accepted
      BY <1>2, <2>1 DEF Current, Asked
    <3> QED BY <3>1, <1>2 DEF Current, Asked
  <2>6. \A d \in SyncCaller : InCall(d)' => caller'[d].fd \in Fd
    BY <1>1, <1>3 DEF WaitsGoOn, Asked
  <2> QED BY <2>3, <2>4, <2>5, <2>6 DEF Asked
<1>6. Eventfds' /\ Results'
  BY <1>3, EventfdsStay, ResultsStay
<1>7. DoneOnce' /\ OnePlace' /\ Contexts' /\ Ring' /\ Counts'
  BY RestStays
<1> QED BY <1>4, <1>5, <1>6, <1>7

\* The current call of a thread in a call is a request.
LEMMA CurrentIsRequest ==
    ASSUME UringTypeOK, Asked, NEW c \in Caller, caller[c].n > 0
    PROVE  Current(c) \in Request
<1>1. caller[c].n \in Nat /\ caller[c].n <= Limit(c) /\ (c \in SyncCaller \/ c \in AsyncCaller)
  BY DEF UringTypeOK, Call, Asked, Caller
<1>2. c \in SyncCaller => caller[c].n \in 1 .. MaxSync
  BY <1>1, UringAssumption DEF Limit
<1>3. c \in AsyncCaller => caller[c].n \in 1 .. MaxAsync
  BY <1>1, UringAssumption DEF Limit
<1> QED BY <1>1, <1>2, <1>3 DEF Current, Request

\* The request of a call is put into the queue: no other place has it.
LEMMA EnqueueKeeps == ASSUME UringInv, NEW c \in Caller, Enqueue(c) PROVE UringInv'
<1> USE DEF UringInv, Enqueue
<1>0. PICK r : r = Current(c)
  OBVIOUS
<1>1. r \in Request /\ r \notin accepted
  <2>1. caller[c].n > 0
    BY DEF Asked, InCall
  <2> QED BY <2>1, <1>0, CurrentIsRequest DEF Asked
<1>2. done[r] = 0 /\ ~Queued(r) /\ ~InContext(r) /\ (wk.pc = "prepare" => wk.req # r)
  <2>1. done[r] \in Nat /\ done[r] <= 0
    BY <1>1 DEF DoneOnce, UringTypeOK
  <2>2. done[r] = 0
    BY <2>1
  <2> QED BY <2>2, <1>1 DEF OnePlace, Waiting, Queued, InContext
<1>3. /\ caller' \in [Caller -> Call]
      /\ caller'[c].pc = "count" /\ caller'[c].n = caller[c].n
      /\ caller'[c].fd = caller[c].fd /\ caller'[c].ret = caller[c].ret
      /\ \A d \in Caller \ {c} : caller'[d] = caller[d]
  BY CallMoves DEF Place
<1>4. WaitsGoOn /\ NoCallBegins
  BY <1>3 DEF WaitsGoOn, InCall, Caller, NoCallBegins
<1>5. queue' = Append(queue, r) /\ accepted' = accepted \cup {r}
  BY <1>0 DEF Current
<1>6. /\ queue' \in Seq(Request) /\ Range(queue') = Range(queue) \cup {r}
      /\ IsInjective(queue')
  <2>1. queue \in Seq(Request) /\ IsInjective(queue) /\ r \notin Range(queue)
    BY <1>2 DEF UringTypeOK, OnePlace, Queued
  <2>2. /\ Append(queue, r) \in Seq(Request) /\ Range(Append(queue, r)) = Range(queue) \cup {r}
        /\ IsInjective(Append(queue, r))
    BY SMTT(30), <2>1, <1>1, Appended
  <2> QED BY <2>2, <1>5
<1>a. \A d \in Caller : Current(d)' = Current(d)
  BY <1>4 DEF NoCallBegins, Current
<1>b. r[1] = c /\ r[2] = caller[c].n /\ caller[c].n \in Nat
  BY <1>0 DEF Current, UringTypeOK, Call
<1> USE DEF workerVars, ringVars, stopVars
<1>7. UringTypeOK'
  BY <1>1, <1>3, <1>5, <1>6 DEF UringTypeOK
<1>8. DoneOnce'
  BY <1>2, <1>5 DEF DoneOnce
<1>9. Asked'
  <2>1. \A d \in Caller : caller'[d].n <= Limit(d)' /\ (InCall(d)' => caller'[d].n > 0)
    BY <1>4 DEF Asked, NoCallBegins, Limit
  <2>2. \A q \in accepted' : q[2] <= caller'[q[1]].n
    <3>1. \A q \in accepted : q[1] \in Caller
      BY DEF UringTypeOK, Request, Caller
    <3> QED BY <3>1, <1>4, <1>5, <1>b DEF Asked, NoCallBegins
  <2>3. ASSUME NEW d \in Caller, caller'[d].pc = "enqueue" PROVE Current(d)' \notin accepted'
    <3>1. d # c
      BY <2>3, <1>3
    <3>2. Current(d) # r
      BY <3>1, <1>b DEF Current
    <3> QED BY <2>3, <3>2, <1>3, <1>5, <1>a, <3>1 DEF Asked
  <2>4. \A d \in SyncCaller : InCall(d)' => caller'[d].fd \in Fd
    BY <1>4 DEF WaitsGoOn, Asked
  <2> QED BY <2>1, <2>2, <2>3, <2>4 DEF Asked
<1>10. OnePlace'
  <2>1. \A q : Waiting(q) => Waiting(q)'
    BY <1>5 DEF Waiting
  <2>2. Waiting(r)'
    BY <1>2, <1>5 DEF Waiting
  <2>3. wk' = wk /\ ctxReq' = ctxReq
    OBVIOUS
  <2> QED BY <2>1, <2>2, <2>3, <1>2, <1>6 DEF OnePlace, Queued, InContext
<1>11. Contexts' /\ Ring' /\ Counts'
  <2>1. Contexts' /\ Ring'
    BY ContextsStay, RingStays DEF Live, Ring
  <2>2. Counts'
    BY CountsStay DEF Live, Counts
  <2> QED BY <2>1, <2>2
<1>12. Eventfds'
  BY <1>4, EventfdsStay
<1>13. Results'
  <2> SUFFICES ASSUME event # "signal" PROVE Results'
    BY DEF Results
  <2>1. \A d \in SyncCaller : /\ Current(d)' = Current(d) /\ caller'[d].ret = caller[d].ret
                              /\ (InCall(d)' <=> InCall(d))
    BY <1>4, <1>a DEF WaitsGoOn, Caller
  <2>2. \A q \in accepted' : q[1] \in SyncCaller /\ (q # Current(q[1])' \/ ~InCall(q[1])') =>
             done'[q] = 1
    <3>1. c \in SyncCaller => r = Current(c)' /\ InCall(c)'
      BY <1>0, <1>3, <1>a DEF InCall
    <3>2. \A q \in accepted : q[1] \in SyncCaller => Current(q[1])' = Current(q[1])
      BY <2>1
    <3> QED BY <3>1, <3>2, <2>1, <1>5, <1>b DEF Results
  <2>3. ASSUME NEW d \in SyncCaller, Current(d)' \in accepted', done'[Current(d)'] = 1
        PROVE  caller'[d].ret \in {Current(d)', SqeError, SubmitError}
    <3>1. Current(d) # r
      BY <2>1, <2>3, <1>2
    <3> QED BY <3>1, <2>1, <2>3, <1>5 DEF Results
  <2>4. ASSUME NEW d \in SyncCaller, caller'[d].pc \in Issuing PROVE Current(d)' \in accepted'
    <3>1. CASE d = c
      BY <3>1, <1>0, <1>5, <1>a
    <3>2. CASE d # c
      BY <3>2, <2>1, <2>4, <1>3, <1>5 DEF Results, Caller
    <3> QED BY <3>1, <3>2
  <2> QED BY <2>2, <2>3, <2>4, Zenon DEF Results
<1> QED BY <1>7, <1>8, <1>9, <1>10, <1>11, <1>12, <1>13

\* A synchronous call ends and its eventfd, which is empty then, is idle; if its
\* request was accepted, it is done.
Ends(c, p) ==
    /\ InCall(c) /\ (p = "returned" => caller[c].pc = "wait")
    /\ caller' = [caller EXCEPT ![c].pc = p]
    /\ fdPool' = Release(fdPool, caller[c].fd, Iodepth)
    /\ fdVal' \in [Fd -> Nat]
    /\ UNCHANGED <<queue, workerVars, ringVars, accepted, done>>
    /\ event' = event \/ (event' = "signal" /\ event # "submit")
    /\ event' # "signal" =>
          /\ \A x \in Fd : fdVal'[x] = (IF x = caller[c].fd THEN 0 ELSE fdVal[x])
          /\ Current(c) \in accepted => done[Current(c)] = 1

\* A call that ends.
LEMMA CallEnds ==
    ASSUME UringInv, NEW c \in SyncCaller, NEW p \in {"idle", "returned"}, Ends(c, p)
    PROVE  UringInv'
<1> USE DEF Ends
<1> USE DEF UringInv
<1>1. /\ caller' \in [Caller -> Call]
      /\ caller'[c].pc = p /\ caller'[c].n = caller[c].n
      /\ caller'[c].fd = caller[c].fd /\ caller'[c].ret = caller[c].ret
      /\ \A d \in Caller \ {c} : caller'[d] = caller[d]
  BY CallMoves DEF Caller, Place
<1>2. /\ \A d \in Caller : caller'[d].n = caller[d].n
      /\ \A d \in SyncCaller : caller'[d].fd = caller[d].fd /\ caller'[d].ret = caller[d].ret
      /\ \A d \in SyncCaller : InCall(d)' <=> InCall(d) /\ d # c
      /\ c \in Caller
  BY <1>1 DEF InCall, Caller
<1>3. NoCallBegins
  BY <1>1, <1>2 DEF NoCallBegins, InCall
<1>4. PICK x \in Fd : x = caller[c].fd
  BY DEF Asked
<1>5. /\ fdPool' \in Seq(Fd) /\ Range(fdPool') \subseteq Range(fdPool) \cup {x}
      /\ IsInjective(fdPool) /\ x \notin Range(fdPool) => IsInjective(fdPool')
  <2>1. fdPool \in Seq(Fd) /\ Iodepth \in Nat
    BY Sizes DEF UringTypeOK
  <2>2. fdPool' = Release(fdPool, x, Iodepth)
    BY <1>4
  <2>3. /\ Release(fdPool, x, Iodepth) \in Seq(Fd)
        /\ Range(Release(fdPool, x, Iodepth)) \subseteq Range(fdPool) \cup {x}
        /\ IsInjective(fdPool) /\ x \notin Range(fdPool) =>
              IsInjective(Release(fdPool, x, Iodepth))
    BY <2>1, Released, Zenon
  <2> QED BY <2>2, <2>3
<1>6. UringTypeOK'
  <2>1. event' \in {"none", "signal", "submit", "stop"}
    BY DEF UringTypeOK
  <2> QED BY <1>1, <1>5, <2>1 DEF UringTypeOK, workerVars, ringVars
<1>7. Asked'
  BY <1>3, AskedStays DEF UringTypeOK
<1>8. DoneOnce' /\ OnePlace' /\ Contexts' /\ Ring' /\ Counts'
  BY RestStays
<1>9. \A d \in SyncCaller : Current(d)' = Current(d)
  BY <1>2 DEF Current, Caller
<1>10. Eventfds'
  <2> SUFFICES ASSUME event' # "signal" PROVE Eventfds'
    BY DEF Eventfds
  <2>1. /\ IsInjective(fdPool) /\ x \notin Range(fdPool)
        /\ \A d \in SyncCaller : InCall(d) =>
             /\ caller[d].fd \in Fd \ Range(fdPool)
             /\ fdVal[caller[d].fd] = done[Current(d)]
             /\ \A e \in SyncCaller : InCall(e) /\ caller[e].fd = caller[d].fd => e = d
        /\ \A y \in Fd : (\A d \in SyncCaller : InCall(d) => caller[d].fd # y) => fdVal[y] = 0
    BY <1>4 DEF Eventfds
  <2>2. \A y \in Fd : fdVal'[y] = (IF y = x THEN 0 ELSE fdVal[y])
    BY <1>4
  <2>3. \A d \in SyncCaller : InCall(d)' => caller[d].fd # x
    BY <2>1, <1>2, <1>4
  <2>4. IsInjective(fdPool')
    BY <2>1, <1>5
  <2>5. ASSUME NEW d \in SyncCaller, InCall(d)'
        PROVE  /\ caller'[d].fd \in Fd \ Range(fdPool')
               /\ fdVal'[caller'[d].fd] = done'[Current(d)']
               /\ \A e \in SyncCaller : InCall(e)' /\ caller'[e].fd = caller'[d].fd => e = d
    <3>1. InCall(d) /\ caller[d].fd # x /\ caller'[d].fd = caller[d].fd
      BY <2>3, <2>5, <1>2
    <3> QED BY <3>1, <2>1, <2>2, <1>2, <1>5, <1>9
  <2>6. ASSUME NEW y \in Fd, \A d \in SyncCaller : InCall(d)' => caller'[d].fd # y
        PROVE  fdVal'[y] = 0
    <3>1. CASE y = x
      BY <3>1, <2>2
    <3>2. CASE y # x
      <4>1. \A d \in SyncCaller : InCall(d) => caller[d].fd # y
        BY <3>2, <2>6, <1>2, <1>4
      <4> QED BY <4>1, <3>2, <2>1, <2>2
    <3> QED BY <3>1, <3>2
  <2> QED BY <2>4, <2>5, <2>6, Zenon DEF Eventfds
<1>11. Results'
  <2> SUFFICES ASSUME event' # "signal" PROVE Results'
    BY DEF Results
  <2>0. event # "signal"
    OBVIOUS
  <2>1. ASSUME NEW q \in accepted, q[1] \in SyncCaller, q # Current(q[1])' \/ ~InCall(q[1])'
        PROVE  done[q] = 1
    <3>1. q # Current(q[1]) \/ ~InCall(q[1]) \/ q = Current(c)
      BY <2>1, <1>2, <1>9
    <3> QED BY <2>0, <3>1, <2>1 DEF Results
  <2>2. \A d \in SyncCaller : Current(d) \in accepted /\ done[Current(d)] = 1 =>
             caller'[d].ret \in {Current(d), SqeError, SubmitError}
    BY <2>0, <1>2 DEF Results
  <2>3. \A d \in SyncCaller : caller'[d].pc \in Issuing => Current(d) \in accepted
    BY <2>0, <1>1, <1>2 DEF Results, Issuing
  <2>4. accepted' = accepted /\ done' = done
    OBVIOUS
  <2> QED BY <2>1, <2>2, <2>3, <2>4, <1>9 DEF Results
<1> QED BY <1>6, <1>7, <1>8, <1>10, <1>11

\* The queue is full.
LEMMA QueueFullKeeps == ASSUME UringInv, NEW c \in Caller, QueueFull(c) PROVE UringInv'
<1> USE DEF UringInv, QueueFull
<1>0. caller[c].n > 0 /\ InCall(c)
  BY DEF Asked, InCall
<1>1. Current(c) \in Request /\ Current(c) \notin accepted
  BY <1>0, CurrentIsRequest DEF Asked
<1>2. done[Current(c)] = 0
  <2>1. done[Current(c)] \in Nat /\ done[Current(c)] <= 0
    BY <1>1 DEF DoneOnce, UringTypeOK
  <2> QED BY <2>1
<1>3. CASE c \in SyncCaller
  <2>1. fdPool' = Release(fdPool, caller[c].fd, Iodepth)
    BY <1>3
  <2>2. fdVal' \in [Fd -> Nat]
    BY DEF UringTypeOK
  <2>3. ASSUME event # "signal", NEW x \in Fd
        PROVE  fdVal'[x] = (IF x = caller[c].fd THEN 0 ELSE fdVal[x])
    <3>1. fdVal[caller[c].fd] = 0
      BY <1>0, <1>2, <1>3, <2>3 DEF Eventfds
    <3> QED BY <3>1
  <2>4. UNCHANGED <<queue, workerVars, ringVars, accepted, done>> /\ event' = event
    BY DEF stopVars
  <2>5. caller' = [caller EXCEPT ![c].pc = "idle"]
    OBVIOUS
  <2>6. Ends(c, "idle")
    BY <1>0, <1>1, <1>3, <2>1, <2>2, <2>3, <2>4, <2>5 DEF Ends
  <2> QED BY <1>3, <2>6, CallEnds
<1>4. CASE c \notin SyncCaller
  <2>1. /\ caller' \in [Caller -> Call]
        /\ caller'[c].pc = "idle" /\ caller'[c].n = caller[c].n
        /\ \A d \in Caller \ {c} : caller'[d] = caller[d]
    BY CallMoves DEF Place
  <2>2. NoCallBegins
    BY <1>4, <2>1 DEF NoCallBegins, InCall
  <2>3. /\ WaitsGoOn
        /\ \A d \in SyncCaller : caller'[d].pc \in Issuing => caller[d].pc \in Issuing
    BY <1>4, <2>1 DEF WaitsGoOn, InCall, Caller
  <2> USE DEF workerVars, ringVars, stopVars
  <2>4. UringTypeOK'
    BY <1>4, <2>1 DEF UringTypeOK
  <2>5. Asked' /\ Eventfds' /\ Results'
    BY <1>4, <2>2, <2>3, AskedStays, EventfdsStay, ResultsStay DEF UringTypeOK
  <2>6. DoneOnce' /\ OnePlace' /\ Contexts' /\ Ring' /\ Counts'
    BY RestStays
  <2> QED BY <2>4, <2>5, <2>6
<1> QED BY <1>3, <1>4

\* The result is there: the call returns.
LEMMA SyncReturnKeeps == ASSUME UringInv, NEW c \in SyncCaller, SyncReturn(c) PROVE UringInv'
<1> USE DEF UringInv, SyncReturn
<1>1. InCall(c) /\ caller[c].fd \in Fd
  BY DEF InCall, Asked
<1>2. fdVal' \in [Fd -> Nat] /\ \A x \in Fd : fdVal'[x] = (IF x = caller[c].fd THEN 0 ELSE fdVal[x])
  BY <1>1 DEF UringTypeOK
<1>3. ASSUME event # "signal", Current(c) \in accepted PROVE done[Current(c)] = 1
  <2>1. done[Current(c)] > 0
    BY <1>1, <1>3 DEF Eventfds
  <2>2. done[Current(c)] \in Nat /\ done[Current(c)] <= 1
    BY <1>3 DEF UringTypeOK, DoneOnce
  <2> QED BY <2>1, <2>2
<1>4. UNCHANGED <<queue, workerVars, ringVars, accepted, done>> /\ event' = event
  BY DEF stopVars
<1>5. /\ caller' = [caller EXCEPT ![c].pc = "returned"] /\ caller[c].pc = "wait"
      /\ fdPool' = Release(fdPool, caller[c].fd, Iodepth)
  OBVIOUS
<1>6. Ends(c, "returned")
  BY <1>1, <1>2, <1>3, <1>4, <1>5 DEF Ends
<1> QED BY <1>6, CallEnds

\* A signal interrupts the wait: no claim is left about eventfds and results.
LEMMA SyncInterruptedKeeps ==
    ASSUME UringInv, NEW c \in SyncCaller, SyncInterrupted(c) PROVE UringInv'
<1> USE DEF UringInv, SyncInterrupted
<1>1. InCall(c) /\ fdVal' \in [Fd -> Nat]
  BY DEF InCall, UringTypeOK
<1>2. event' = "signal" /\ event # "submit"
  BY DEF Happens
<1>3. Ends(c, "returned")
  BY <1>1, <1>2 DEF Ends
<1> QED BY <1>3, CallEnds

\* There are fewer calls that wait than threads, so that a new eventfd is one
\* of Fd.
LEMMA NewFd ==
    ASSUME UringTypeOK, fdPool = <<>>
    PROVE  IsFiniteSet(UsedFds) /\ Cardinality(UsedFds) <= Cardinality(SyncCaller)
<1> DEFINE W == {d \in SyncCaller : InCall(d)}
           F == {caller[d].fd : d \in W}
           f == [d \in W |-> caller[d].fd]
<1>1. Range(fdPool) = {}
  BY DEF Range
<1>2. UsedFds = F
  BY <1>1 DEF UsedFds
<1>3. IsFiniteSet(W) /\ Cardinality(W) <= Cardinality(SyncCaller)
  BY UringAssumption, FS_Subset
<1>4. f \in Surjection(W, F)
  BY DEF Surjection
<1>5. IsFiniteSet(F) /\ Cardinality(F) <= Cardinality(W)
  <2> HIDE DEF W, F, f
  <2> QED BY <1>3, <1>4, FS_Surjection
<1>6. Cardinality(F) \in Nat /\ Cardinality(W) \in Nat /\ Cardinality(SyncCaller) \in Nat
  <2> HIDE DEF W, F, f
  <2> QED BY <1>3, <1>5, UringAssumption, FS_CardinalityType
<1> HIDE DEF W, F, f
<1> QED BY <1>2, <1>3, <1>5, <1>6

\* A synchronous call begins with an eventfd of its own, which is empty.
LEMMA SyncCallKeeps == ASSUME UringInv, NEW c \in Caller, SyncCall(c) PROVE UringInv'
<1> USE DEF UringInv, SyncCall
<1>0. PICK a : a = AllocFirst(fdPool, UsedFds)
  OBVIOUS
<1>1. c \in SyncCaller /\ fdPool' = a.pool
  BY <1>0
<1>2. /\ a.obj \notin UsedFds \ Range(fdPool)
      /\ a.pool \in Seq(Fd)
      /\ IsInjective(fdPool) => IsInjective(a.pool) /\ a.obj \notin Range(a.pool)
      /\ Range(a.pool) \subseteq Range(fdPool)
      /\ a.obj \in Fd
  <2>1. fdPool \in Seq(Fd)
    BY DEF UringTypeOK
  <2>2. fdPool = <<>> => IsFiniteSet(UsedFds) /\ Cardinality(UsedFds) <= Cardinality(SyncCaller)
    BY NewFd
  <2>3. /\ a.obj \notin UsedFds \ Range(fdPool)
        /\ a.pool \in Seq(Fd)
        /\ IsInjective(fdPool) => IsInjective(a.pool) /\ a.obj \notin Range(a.pool)
        /\ Range(a.pool) \subseteq Range(fdPool)
        /\ \/ a.obj \in Range(fdPool) /\ a.obj \in Fd
           \/ /\ fdPool = <<>> /\ Cardinality(UsedFds) \in Nat
              /\ a.obj \in 1 .. Cardinality(UsedFds) + 1 /\ a.obj \notin UsedFds
    BY <2>1, <2>2, <1>0, Allocated
  <2>4. a.obj \in Fd
    <3>1. CASE fdPool = <<>> /\ a.obj \in 1 .. Cardinality(UsedFds) + 1 /\ Cardinality(UsedFds) \in Nat
      <4>1. Cardinality(SyncCaller) \in Nat
        BY UringAssumption, FS_CardinalityType
      <4> QED BY <4>1, <3>1, <2>2, Sizes DEF Fd
    <3> QED BY <3>1, <2>3
  <2> QED BY <2>3, <2>4
<1>3. PICK k \in Nat : k = caller[c].n /\ k < MaxSync
  BY DEF UringTypeOK, Call
<1> DEFINE l == [pc |-> "enqueue", n |-> k + 1, fd |-> a.obj, ret |-> Unset]
<1>4. /\ caller' = [caller EXCEPT ![c] = l] /\ caller \in [Caller -> Call] /\ l \in Call
      /\ l.pc = "enqueue" /\ l.n = k + 1 /\ l.fd = a.obj
  <2>1. l \in Call
    BY <1>2 DEF Call, Place, Result
  <2> QED BY <2>1, <1>0, <1>3 DEF UringTypeOK
<1> HIDE DEF l
<1>5. /\ caller' \in [Caller -> Call]
      /\ caller'[c].pc = "enqueue" /\ caller'[c].n = k + 1 /\ caller'[c].fd = a.obj
      /\ \A d \in Caller \ {c} : caller'[d] = caller[d]
  BY <1>4
<1>6. /\ InCall(c)' /\ ~InCall(c)
      /\ \A d \in SyncCaller \ {c} : /\ InCall(d)' <=> InCall(d)
                                     /\ caller'[d] = caller[d] /\ Current(d)' = Current(d)
  BY <1>5 DEF InCall, Caller, Current
<1>7. PICK r : r = <<c, k + 1>>
  OBVIOUS
<1>8. r = Current(c)' /\ r \in Request /\ r[1] = c /\ r[2] = k + 1
  BY <1>1, <1>3, <1>5, <1>7, UringAssumption DEF Current, Request
<1>9. r \notin accepted
  BY <1>3, <1>8 DEF Asked
<1>10. done[r] = 0
  <2>1. done[r] \in Nat /\ done[r] <= 0
    BY <1>8, <1>9 DEF DoneOnce, UringTypeOK
  <2> QED BY <2>1
<1> USE DEF workerVars, ringVars, stopVars
<1>11. UringTypeOK'
  BY <1>1, <1>2, <1>5 DEF UringTypeOK
<1>12. Asked'
  <2>1. \A q \in accepted : q[1] \in Caller /\ q[2] \in Nat
    BY UringAssumption DEF UringTypeOK, Request, Caller
  <2>2. \A d \in Caller : caller'[d].n <= Limit(d)' /\ (InCall(d)' => caller'[d].n > 0)
    <3>1. Limit(c)' = MaxSync /\ MaxSync \in Nat
      BY <1>1, UringAssumption DEF Limit
    <3>2. caller'[c].n <= Limit(c)' /\ caller'[c].n > 0
      BY <3>1, <1>3, <1>5
    <3> QED BY <3>2, <1>5 DEF Asked, InCall, Limit
  <2>3. \A q \in accepted : q[2] <= caller'[q[1]].n
    BY <2>1, <1>3, <1>5 DEF Asked
  <2>4. \A d \in Caller : caller'[d].pc = "enqueue" => Current(d)' \notin accepted
    <3>1. \A d \in Caller \ {c} : Current(d)' = Current(d) /\ caller'[d] = caller[d]
      BY <1>5 DEF Current
    <3> QED BY <3>1, <1>8, <1>9 DEF Asked
  <2>5. \A d \in SyncCaller : InCall(d)' => caller'[d].fd \in Fd
    BY <1>2, <1>5, <1>6 DEF Asked
  <2> QED BY <2>2, <2>3, <2>4, <2>5 DEF Asked
<1>13. Eventfds'
  <2> SUFFICES ASSUME event # "signal" PROVE Eventfds'
    BY DEF Eventfds
  <2>1. /\ IsInjective(fdPool)
        /\ \A d \in SyncCaller : InCall(d) =>
             /\ caller[d].fd \in Fd \ Range(fdPool)
             /\ fdVal[caller[d].fd] = done[Current(d)]
             /\ \A e \in SyncCaller : InCall(e) /\ caller[e].fd = caller[d].fd => e = d
        /\ \A y \in Fd : (\A d \in SyncCaller : InCall(d) => caller[d].fd # y) => fdVal[y] = 0
    BY DEF Eventfds
  <2>2. \A d \in SyncCaller : InCall(d) => caller[d].fd # a.obj
    <3>1. \A d \in SyncCaller : InCall(d) => caller[d].fd \in UsedFds
      BY DEF UsedFds
    <3> QED BY <3>1, <2>1, <1>2
  <2>3. fdVal[a.obj] = 0
    BY <2>1, <2>2, <1>2
  <2>4. IsInjective(fdPool')
    BY <2>1, <1>1, <1>2
  <2>5. ASSUME NEW d \in SyncCaller, InCall(d)'
        PROVE  /\ caller'[d].fd \in Fd \ Range(fdPool')
               /\ fdVal'[caller'[d].fd] = done'[Current(d)']
               /\ \A e \in SyncCaller : InCall(e)' /\ caller'[e].fd = caller'[d].fd => e = d
    <3>1. CASE d = c
      <4>1. caller'[d].fd \in Fd \ Range(fdPool')
        BY <3>1, <2>1, <1>1, <1>2, <1>5
      <4>2. fdVal'[caller'[d].fd] = done'[Current(d)']
        BY <3>1, <2>3, <1>5, <1>8, <1>10
      <4> QED BY <4>1, <4>2, <3>1, <2>2, <1>5, <1>6
    <3>2. CASE d # c
      <4>1. InCall(d) /\ caller'[d].fd = caller[d].fd /\ Current(d)' = Current(d)
        BY <3>2, <2>5, <1>6
      <4> QED BY <4>1, <2>1, <2>2, <1>1, <1>2, <1>5, <1>6
    <3> QED BY <3>1, <3>2
  <2>6. ASSUME NEW y \in Fd, \A d \in SyncCaller : InCall(d)' => caller'[d].fd # y
        PROVE  fdVal'[y] = 0
    <3>1. \A d \in SyncCaller : InCall(d) => caller[d].fd # y
      BY <2>6, <1>6
    <3> QED BY <3>1, <2>1
  <2> QED BY <2>4, <2>5, <2>6, Zenon DEF Eventfds
<1>14. Results'
  <2> SUFFICES ASSUME event # "signal" PROVE Results'
    BY DEF Results
  <2>1. ASSUME NEW q \in accepted, q[1] \in SyncCaller, q # Current(q[1])' \/ ~InCall(q[1])'
        PROVE  done[q] = 1
    <3>1. q # Current(q[1]) \/ ~InCall(q[1])
      BY <2>1, <1>6
    <3> QED BY <3>1, <2>1 DEF Results
  <2>2. \A d \in SyncCaller : Current(d)' \in accepted /\ done[Current(d)'] = 1 =>
             caller'[d].ret \in {Current(d)', SqeError, SubmitError}
    BY <1>6, <1>8, <1>9 DEF Results
  <2>3. \A d \in SyncCaller : caller'[d].pc \in Issuing => Current(d)' \in accepted
    BY <1>5, <1>6 DEF Results, Issuing
  <2>4. accepted' = accepted /\ done' = done
    OBVIOUS
  <2> QED BY <2>1, <2>2, <2>3, <2>4 DEF Results
<1>15. DoneOnce' /\ OnePlace' /\ Contexts' /\ Ring' /\ Counts'
  BY RestStays
<1> QED BY <1>11, <1>12, <1>13, <1>14, <1>15

-----------------------------------------------------------------------------
(* The kernel, Stop, and the worker's steps that call no done_.            *)

\* All that a step of the worker leaves alone.
LEMMA CallersStay ==
    ASSUME UringInv, UNCHANGED <<caller, fdPool, fdVal, accepted, done>>,
           event' # "signal" => event # "signal"
    PROVE  DoneOnce' /\ Asked' /\ Eventfds' /\ Results'
<1> USE DEF UringInv
<1>1. NoCallBegins /\ WaitsGoOn
  BY DEF NoCallBegins, WaitsGoOn, InCall
<1> QED BY <1>1, AskedStays, EventfdsStay, ResultsStay DEF DoneOnce, UringTypeOK

\* The kernel completes an entry.
LEMMA CompletionKeeps ==
    ASSUME UringInv, NEW x \in kernel, kernel' = kernel \ {x}, cq' = Append(cq, x),
           UNCHANGED <<caller, queue, fdPool, fdVal, workerVars, sq, stopVars, accepted, done>>
    PROVE  UringInv'
<1> USE DEF UringInv, workerVars, stopVars
<1>0. x \in Entry /\ kernel \subseteq Entry /\ IsFiniteSet(kernel) /\ cq \in Seq(Entry)
  BY DEF UringTypeOK
<1>1. /\ Append(cq, x) \in Seq(Entry) /\ Range(Append(cq, x)) = Range(cq) \cup {x}
      /\ IsInjective(cq) /\ x \notin Range(cq) => IsInjective(Append(cq, x))
  BY <1>0, Appended, Zenon
<1>2. Len(Append(cq, x)) = Len(cq) + 1 /\ Len(cq) \in Nat
  BY <1>0
<1>3. /\ IsFiniteSet(kernel \ {x}) /\ Cardinality(kernel \ {x}) = Cardinality(kernel) - 1
      /\ Cardinality(kernel) \in Nat
  BY <1>0, FS_RemoveElement, FS_CardinalityType
<1>4. kernel' \cup Range(cq') = kernel \cup Range(cq) /\ kernel' \subseteq kernel
  BY <1>1
<1>5. UringTypeOK'
  BY <1>1, <1>3 DEF UringTypeOK
<1>6. OnePlace'
  BY OnePlaceStays
<1>7. Contexts'
  <2>1. Live => IsInjective(cq') /\ kernel' \cap Range(cq') = {}
    BY <1>1 DEF Contexts
  <2> QED BY <2>1, <1>4 DEF Contexts, Live
<1>8. Ring'
  BY <1>4 DEF Ring, Live, Total
<1>9. Counts'
  BY <1>2, <1>3 DEF Counts, Live, Total
<1>10. DoneOnce' /\ Asked' /\ Eventfds' /\ Results'
  BY CallersStay
<1> QED BY <1>5, <1>6, <1>7, <1>8, <1>9, <1>10

\* The worker's locals change only where it is, or what it has in hand.
LEMMA LocalsKeep ==
    ASSUME UringInv, UNCHANGED <<caller, fdPool, fdVal, ctxPool, ctxReq, ringVars, accepted, done>>,
           event' \in {"none", "signal", "submit", "stop"},
           event' # "signal" => event # "signal", event' # "submit" => event # "submit",
           wk' \in WorkerLocals, wk.pc # "aborted", wk'.pc # "aborted",
           wk'.batch = wk.batch, wk'.sqe = wk.sqe, wk'.rearm = wk.rearm,
           wk'.uncompleted = wk.uncompleted,
           wk'.pc \in {"top", "reap", "exited"} => wk.batch = <<>> /\ wk.sqe = 0,
           wk'.pc = "prepare" => Total < MaxBatch /\ wk.uncompleted < Iodepth,
           queue' \in Seq(Request), OnePlace'
    PROVE  UringInv'
<1> USE DEF UringInv, ringVars
<1>1. UringTypeOK'
  BY DEF UringTypeOK
<1>2. Contexts' /\ Ring' /\ Counts'
  BY ContextsStay, RingStays, CountsStay DEF Live
<1>3. DoneOnce' /\ Asked' /\ Eventfds' /\ Results'
  BY CallersStay
<1> QED BY <1>1, <1>2, <1>3

\* The top of the loop, and a wait that is interrupted.
LEMMA WorkerTopKeeps == ASSUME UringInv, WorkerTop \/ WaitInterrupted PROVE UringInv'
<1> USE DEF WorkerTop, WaitInterrupted, callerVars, stopVars
<1>1. UringTypeOK /\ OnePlace /\ Ring /\ wk \in WorkerLocals
  BY DEF UringInv, UringTypeOK
<1>2. PICK p \in {"top", "reap", "exited"} : wk' = [wk EXCEPT !.pc = p]
  <2>1. \/ wk' = [wk EXCEPT !.pc = "top"]
        \/ wk' = [wk EXCEPT !.pc = "reap"]
        \/ wk' = [wk EXCEPT !.pc = "exited"]
    OBVIOUS
  <2> QED BY <2>1
<1>3. /\ wk' \in WorkerLocals /\ wk'.pc = p
      /\ wk'.batch = wk.batch /\ wk'.sqe = wk.sqe /\ wk'.rearm = wk.rearm
      /\ wk'.uncompleted = wk.uncompleted
  BY <1>1, <1>2 DEF WorkerLocals
<1>4. OnePlace'
  BY <1>1, <1>3, OnePlaceStays
<1>5. wk.batch = <<>> /\ wk.sqe = 0
  BY <1>1 DEF Ring
<1>6. event' = event /\ event \in {"none", "signal", "submit", "stop"} /\ queue' \in Seq(Request)
  BY <1>1 DEF UringTypeOK
<1> QED BY <1>3, <1>4, <1>5, <1>6, LocalsKeep

\* A request goes from the queue into the worker's hand.
LEMMA TakeRequestKeeps == ASSUME UringInv, TakeRequest PROVE UringInv'
<1> USE DEF TakeRequest, callerVars, stopVars
<1>1. UringTypeOK /\ OnePlace /\ wk \in WorkerLocals /\ queue \in Seq(Request)
  BY DEF UringInv, UringTypeOK
<1>2. PICK r : r = Head(queue)
  OBVIOUS
<1>3. /\ r \in Request /\ Tail(queue) \in Seq(Request)
      /\ Range(queue) = Range(Tail(queue)) \cup {r}
      /\ IsInjective(queue) => IsInjective(Tail(queue)) /\ r \notin Range(Tail(queue))
  BY <1>1, <1>2, HeadTaken
<1>4. /\ wk' \in WorkerLocals /\ wk'.pc = "prepare" /\ wk'.req = r
      /\ wk'.batch = wk.batch /\ wk'.sqe = wk.sqe /\ wk'.rearm = wk.rearm
      /\ wk'.uncompleted = wk.uncompleted
  BY <1>1, <1>2, <1>3 DEF WorkerLocals
<1>5. OnePlace'
  <2>1. Waiting(r) /\ ~InContext(r) /\ \A q : Waiting(q)' <=> Waiting(q)
    BY <1>1, <1>3 DEF OnePlace, InContext, Queued, Waiting
  <2>2. queue' = Tail(queue) /\ ctxReq' = ctxReq
    OBVIOUS
  <2> QED BY <2>1, <2>2, <1>1, <1>3, <1>4 DEF OnePlace, InContext, Queued
<1>6. event' = event /\ event \in {"none", "signal", "submit", "stop"} /\ queue' \in Seq(Request)
  BY <1>1, <1>3 DEF UringTypeOK
<1>7. Total < MaxBatch /\ wk.uncompleted < Iodepth
  BY DEF MayTakeMore, Total
<1>8. wk.pc # "aborted" /\ UNCHANGED <<caller, fdPool, fdVal, ctxPool, ctxReq, ringVars, accepted, done>>
  OBVIOUS
<1> QED BY <1>4, <1>5, <1>6, <1>7, <1>8, LocalsKeep

\* There is nothing to submit.
LEMMA NothingToSubmitKeeps == ASSUME UringInv, NothingToSubmit PROVE UringInv'
<1> USE DEF NothingToSubmit, callerVars, stopVars
<1>1. UringTypeOK /\ OnePlace /\ wk \in WorkerLocals
  BY DEF UringInv, UringTypeOK
<1>2. wk.batch = <<>> /\ wk.sqe = 0 /\ wk.pc \in {"fill", "submit"}
  <2>1. Len(wk.batch) \in Nat /\ wk.sqe \in {0, 1} /\ wk.batch \in Seq(Context)
    BY <1>1 DEF WorkerLocals
  <2>2. Len(wk.batch) = 0 /\ wk.sqe = 0
    BY <2>1 DEF Total
  <2> QED BY <2>1, <2>2 DEF ReadyToSubmit
<1>3. PICK b \in BOOLEAN : b = (Total < MaxBatch)
  <2>1. Total < MaxBatch
    BY Sizes
  <2> QED BY <2>1, Zenon
<1>4. /\ wk' \in WorkerLocals /\ wk'.pc = "top"
      /\ wk'.batch = wk.batch /\ wk'.sqe = wk.sqe /\ wk'.rearm = wk.rearm
      /\ wk'.uncompleted = wk.uncompleted
  <2>1. wk' = [wk EXCEPT !.pc = "top", !.block = b, !.batch = <<>>, !.sqe = 0]
    BY <1>3 DEF NextTurn
  <2> QED BY <2>1, <1>1, <1>2 DEF WorkerLocals
<1>5. OnePlace'
  BY <1>1, <1>4, OnePlaceStays
<1>6. event' = event /\ event \in {"none", "signal", "submit", "stop"} /\ queue' \in Seq(Request)
  BY <1>1 DEF UringTypeOK
<1>7. wk.pc # "aborted" /\ UNCHANGED <<caller, fdPool, fdVal, ctxPool, ctxReq, ringVars, accepted, done>>
  BY <1>2
<1> QED BY <1>2, <1>4, <1>5, <1>6, <1>7, LocalsKeep

\* Stop.
LEMMA StopKeeps == ASSUME UringInv, Stop PROVE UringInv'
<1> USE DEF Stop, callerVars, UringInv
<1>1. /\ event' \in {"none", "signal", "submit", "stop"}
      /\ event' # "signal" => event # "signal"
      /\ event' # "submit" => event # "submit"
  BY DEF Happens, UringTypeOK
<1>2. UringTypeOK'
  BY <1>1 DEF UringTypeOK, workerVars, ringVars
<1>3. OnePlace' /\ Contexts' /\ Ring' /\ Counts'
  BY <1>1, RestStays
<1>4. DoneOnce' /\ Asked' /\ Eventfds' /\ Results'
  BY <1>1, CallersStay
<1> QED BY <1>2, <1>3, <1>4

-----------------------------------------------------------------------------
(* A turn of the worker: a completion, or none, and the notifier.          *)

\* The ring and the counters, when at most one completion has been taken out
\* and the notifier's entry has been added.
LEMMA TurnKeeps ==
    ASSUME UringInv, wk.pc = "reap", NEW reaped \in {0, 1}, NEW rearm \in BOOLEAN,
           Turn(reaped, rearm), kernel' = kernel, event' = event,
           cq' \in Seq(Entry), Len(cq') = Len(cq) - reaped, Range(cq') \subseteq Range(cq),
           rearm => (wk.rearm \/ reaped = 1) /\ Notifier \notin kernel \cup Range(cq')
    PROVE  /\ wk' \in WorkerLocals /\ wk'.pc = "fill" /\ wk'.batch = <<>>
           /\ sq' \in Seq(Entry) /\ Ring' /\ Counts'
<1> USE DEF UringInv
<1>1. /\ wk \in WorkerLocals /\ sq \in Seq(Entry) /\ wk.batch = <<>> /\ wk.sqe = 0
      /\ IsFiniteSet(kernel) /\ cq \in Seq(Entry) /\ Notifier \in Entry
  BY DEF UringTypeOK, Ring, Entry
<1>2. PICK k \in {0, 1} : k = (IF Arms(rearm) THEN 1 ELSE 0)
  OBVIOUS
<1>3. /\ wk'.pc = "fill" /\ wk'.batch = <<>> /\ wk'.sqe = k /\ wk'.rearm = rearm
      /\ wk'.uncompleted = wk.uncompleted - reaped /\ wk.uncompleted \in Int
      /\ wk' \in WorkerLocals
  <2>0. wk.uncompleted \in Int
    BY <1>1 DEF WorkerLocals
  <2>1. PICK u \in Int : u = wk.uncompleted - reaped
    BY <2>0
  <2>2. wk' = [wk EXCEPT !.pc = "fill", !.uncompleted = u, !.rearm = rearm, !.sqe = k]
    BY <2>1, <1>2 DEF Turn
  <2>3. /\ wk'.pc = "fill" /\ wk'.batch = <<>> /\ wk'.sqe = k /\ wk'.rearm = rearm
        /\ wk'.uncompleted = u
    BY <2>2, <1>1 DEF WorkerLocals
  <2>4. wk' \in WorkerLocals
    BY <2>2, <1>1 DEF WorkerLocals
  <2> QED BY <2>0, <2>1, <2>3, <2>4
<1>4. /\ sq' \in Seq(Entry) /\ Len(sq') = Len(sq) + k /\ Len(sq) \in Nat
      /\ k = 1 => rearm /\ sq'[Len(sq')] = Notifier
      /\ Range(sq') \cap Context = Range(sq) \cap Context
      /\ Len(sq') <= Iodepth
  <2>0. Len(sq) \in Nat /\ Len(sq) <= Iodepth /\ Iodepth \in Nat
    BY <1>1, Sizes DEF Ring
  <2>1. CASE k = 1
    <3>1. sq' = Append(sq, Notifier) /\ rearm /\ Len(sq) < Iodepth
      BY <2>1, <1>2 DEF Turn, Arms
    <3>2. /\ Append(sq, Notifier) \in Seq(Entry)
          /\ Range(Append(sq, Notifier)) = Range(sq) \cup {Notifier}
      BY <1>1, Appended
    <3>3. Len(Append(sq, Notifier)) = Len(sq) + 1 /\ Append(sq, Notifier)[Len(sq) + 1] = Notifier
      BY <1>1
    <3>4. Notifier \notin Context
      BY UringAssumption DEF Context
    <3> QED BY <3>1, <3>2, <3>3, <3>4, <2>0, <2>1
  <2>2. CASE k = 0
    <3>1. sq' = sq
      BY <2>2, <1>2 DEF Turn
    <3> QED BY <3>1, <2>0, <2>2, <1>1
  <2> QED BY <2>1, <2>2
<1>5. Total = 0 /\ Total' = k
  BY <1>1, <1>3 DEF Total
<1>6. Ring'
  <2>1. Live /\ Live' /\ Len(wk'.batch) = 0
    BY <1>3 DEF Live
  <2>2. event # "submit" => Len(sq) = 0
    BY <1>5 DEF Ring
  <2> QED BY <2>1, <2>2, <1>3, <1>4, <1>5 DEF Ring
<1>7. Counts'
  <2>0. Len(cq) \in Nat /\ Len(cq') \in Nat /\ Cardinality(kernel) \in Nat
    BY <1>1, FS_CardinalityType
  <2>1. Live /\ Live' /\ Iodepth \in Nat /\ MaxBatch \in 1 .. Iodepth
    BY <1>3, Sizes DEF Live
  <2>2. /\ wk.uncompleted = Cardinality(kernel) + Len(cq)
        /\ wk.uncompleted + (IF wk.rearm THEN 1 ELSE 0) <= 2 * Iodepth - 1
        /\ Range(sq) \cap Context # {} => wk.uncompleted < Iodepth
        /\ Cardinality(kernel) + Len(cq) <= 2 * Iodepth
    BY <2>1 DEF Counts
  <2>3. wk'.uncompleted = Cardinality(kernel') + Len(cq')
    BY <2>0, <2>2, <1>3
  <2>4. wk'.uncompleted + (IF wk'.rearm THEN 1 ELSE 0) <= 2 * Iodepth - 1
    <3>1. CASE rearm
      <4>1. CASE wk.rearm
        BY SMTT(30), <3>1, <4>1, <2>0, <2>1, <2>2, <1>3
      <4>2. CASE reaped = 1
        BY <3>1, <4>2, <2>0, <2>1, <2>2, <1>3
      <4> QED BY <3>1, <4>1, <4>2
    <3>2. CASE ~rearm
      BY <3>2, <2>0, <2>1, <2>2, <1>3
    <3> QED BY <3>1, <3>2
  <2>5. Range(sq') \cap Context # {} => wk'.uncompleted < Iodepth
    BY SMTT(30), <2>0, <2>1, <2>2, <1>3, <1>4
  <2>6. Cardinality(kernel') + Len(cq') <= 2 * Iodepth
    BY <2>0, <2>1, <2>2
  <2>7. Total' <= MaxBatch
    BY <2>1, <1>5
  <2> QED BY <2>3, <2>4, <2>5, <2>6, <2>7, <1>3 DEF Counts
<1> QED BY <1>3, <1>4, <1>6, <1>7

\* No completion is there.
LEMMA PeekEmptyKeeps == ASSUME UringInv, PeekEmpty PROVE UringInv'
<1> USE DEF UringInv, PeekEmpty, callerVars, stopVars
<1>1. PICK b \in BOOLEAN : b = wk.rearm
  BY DEF UringTypeOK, WorkerLocals
<1>2. /\ b => Notifier \notin kernel \cup Range(cq')
      /\ cq' \in Seq(Entry) /\ Len(cq') = Len(cq) - 0 /\ Range(cq') \subseteq Range(cq)
  BY <1>1 DEF Ring, Live, UringTypeOK
<1>3. /\ wk' \in WorkerLocals /\ wk'.pc = "fill" /\ wk'.batch = <<>>
      /\ sq' \in Seq(Entry) /\ Ring' /\ Counts'
  <2>1. Turn(0, b) /\ kernel' = kernel /\ event' = event /\ wk.pc = "reap" /\ UringInv
    BY <1>1
  <2> HIDE DEF UringInv, PeekEmpty
  <2> QED BY <2>1, <1>1, <1>2, TurnKeeps
<1>4. UringTypeOK'
  BY <1>3 DEF UringTypeOK
<1>5. OnePlace'
  BY <1>3, OnePlaceStays
<1>6. Contexts'
  BY <1>3, ContextsStay DEF Ring, Live
<1>7. DoneOnce' /\ Asked' /\ Eventfds' /\ Results'
  BY CallersStay
<1> QED BY <1>3, <1>4, <1>5, <1>6, <1>7

\* The notifier's completion.
LEMMA ReapNotifierKeeps == ASSUME UringInv, ReapNotifier PROVE UringInv'
<1> USE DEF UringInv, ReapNotifier, callerVars, stopVars
<1>0. Live /\ cq \in Seq(Entry) /\ IsInjective(cq) /\ kernel \cap Range(cq) = {}
  BY DEF Live, Contexts, UringTypeOK
<1>1. /\ Tail(cq) \in Seq(Entry) /\ Len(Tail(cq)) = Len(cq) - 1
      /\ Range(cq) = Range(Tail(cq)) \cup {Notifier}
      /\ IsInjective(Tail(cq)) /\ Notifier \notin Range(Tail(cq))
  BY <1>0, HeadTaken
<1>2. cq' = Tail(cq) /\ Notifier \notin kernel \cup Range(cq') /\ Range(cq') \subseteq Range(cq)
  BY <1>0, <1>1
<1>3. /\ wk' \in WorkerLocals /\ wk'.pc = "fill" /\ wk'.batch = <<>>
      /\ sq' \in Seq(Entry) /\ Ring' /\ Counts'
  <2>1. Turn(1, TRUE) /\ kernel' = kernel /\ event' = event /\ wk.pc = "reap" /\ UringInv
    OBVIOUS
  <2>2. cq' \in Seq(Entry) /\ Len(cq') = Len(cq) - 1
    BY <1>1, <1>2
  <2> HIDE DEF UringInv, ReapNotifier
  <2> QED BY <2>1, <2>2, <1>2, TurnKeeps
<1>4. UringTypeOK'
  BY <1>1, <1>2, <1>3 DEF UringTypeOK
<1>5. OnePlace'
  BY <1>3, OnePlaceStays
<1>6. Contexts'
  <2>1. wk.batch = <<>>
    BY DEF Ring
  <2> QED BY <2>1, <1>0, <1>1, <1>2, <1>3 DEF Contexts
<1>7. DoneOnce' /\ Asked' /\ Eventfds' /\ Results'
  BY CallersStay
<1> QED BY <1>3, <1>4, <1>5, <1>6, <1>7

-----------------------------------------------------------------------------
(* The steps that call done_.                                              *)

\* The callers, when done_ is called for one request that waits for it.
LEMMA DoneKeeps ==
    ASSUME UringInv, NEW r \in Request, Waiting(r), NEW res \in {r, SqeError, SubmitError},
           DoneFor(r, res), UNCHANGED <<fdPool, accepted>>, event' = event
    PROVE  /\ caller' \in [Caller -> Call] /\ fdVal' \in [Fd -> Nat] /\ done' \in [Request -> Nat]
           /\ done'[r] = 1 /\ \A q \in Request \ {r} : done'[q] = done[q]
           /\ DoneOnce' /\ Asked' /\ Eventfds' /\ Results'
<1> USE DEF UringInv
<1>0. PICK c : c = r[1]
  OBVIOUS
<1>1. /\ caller \in [Caller -> Call] /\ fdVal \in [Fd -> Nat] /\ done \in [Request -> Nat]
      /\ done[r] = 0 /\ r \in accepted /\ c \in Caller /\ res \in Result
  BY <1>0 DEF UringTypeOK, Waiting, Request, Caller, Result
<1>2. done' \in [Request -> Nat] /\ done'[r] = 1 /\ \A q \in Request \ {r} : done'[q] = done[q]
  BY <1>1 DEF DoneFor
<1>3. /\ caller' \in [Caller -> Call]
      /\ \A d \in Caller : /\ caller'[d].pc = caller[d].pc /\ caller'[d].n = caller[d].n
                           /\ caller'[d].fd = caller[d].fd
      /\ \A d \in Caller : d # c => caller'[d] = caller[d]
      /\ c \in SyncCaller => caller'[c].ret = res
  <2>1. CASE c \in SyncCaller
    <3>1. caller' = [caller EXCEPT ![c].ret = res]
      BY <2>1, <1>0 DEF DoneFor
    <3> QED BY <3>1, <2>1, <1>1 DEF Call
  <2>2. CASE c \notin SyncCaller
    BY <2>2, <1>0, <1>1 DEF DoneFor
  <2> QED BY <2>1, <2>2
<1>4. /\ \A d \in Caller : (InCall(d)' <=> InCall(d)) /\ Current(d)' = Current(d)
      /\ SyncCaller \subseteq Caller
  BY <1>3 DEF InCall, Current, Caller
<1>5. fdVal' \in [Fd -> Nat]
  <2>1. caller[c].fd \in Fd \cup {0}
    BY <1>1 DEF Call
  <2>2. CASE c \in SyncCaller /\ caller[c].fd # 0
    <3>1. fdVal' = [fdVal EXCEPT ![caller[c].fd] = @ + 1]
      BY <2>2, <1>0 DEF DoneFor
    <3> QED BY <3>1, <2>1, <2>2, <1>1
  <2>3. CASE ~(c \in SyncCaller /\ caller[c].fd # 0)
    BY <2>3, <1>0, <1>1 DEF DoneFor
  <2> QED BY <2>2, <2>3
<1>6. DoneOnce'
  BY <1>1, <1>2 DEF DoneOnce
<1>7. Asked'
  <2>1. NoCallBegins
    BY <1>3, <1>4 DEF NoCallBegins
  <2> QED BY <2>1, AskedStays DEF UringTypeOK
<1>8. ASSUME c \in SyncCaller, event # "signal"
      PROVE  r = Current(c) /\ InCall(c) /\ caller[c].fd \in Fd
  <2>1. r = Current(c) /\ InCall(c)
    BY <1>0, <1>1, <1>8 DEF Results
  <2> QED BY <2>1, <1>8 DEF Asked
<1>9. \A d \in SyncCaller : d # c => Current(d) # r
  BY <1>0 DEF Current
<1>10. Eventfds'
  <2> SUFFICES ASSUME event # "signal" PROVE Eventfds'
    BY DEF Eventfds
  <2>1. /\ IsInjective(fdPool)
        /\ \A d \in SyncCaller : InCall(d) =>
             /\ caller[d].fd \in Fd \ Range(fdPool)
             /\ fdVal[caller[d].fd] = done[Current(d)]
             /\ \A e \in SyncCaller : InCall(e) /\ caller[e].fd = caller[d].fd => e = d
        /\ \A y \in Fd : (\A d \in SyncCaller : InCall(d) => caller[d].fd # y) => fdVal[y] = 0
    BY DEF Eventfds
  <2>2. \A y \in Fd : fdVal'[y] = IF c \in SyncCaller /\ y = caller[c].fd THEN fdVal[y] + 1
                                                                        ELSE fdVal[y]
    <3>1. CASE c \in SyncCaller
      <4>1. caller[c].fd \in Fd /\ caller[c].fd # 0
        BY <3>1, <1>8, Sizes DEF Fd
      <4>2. fdVal' = [fdVal EXCEPT ![caller[c].fd] = @ + 1]
        BY <4>1, <3>1, <1>0 DEF DoneFor
      <4> QED BY <4>1, <4>2, <1>1, <3>1
    <3>2. CASE c \notin SyncCaller
      BY <3>2, <1>0 DEF DoneFor
    <3> QED BY <3>1, <3>2
  <2>3. ASSUME NEW d \in SyncCaller, InCall(d)
        PROVE  fdVal'[caller[d].fd] = done'[Current(d)]
    <3>0. caller[d].fd \in Fd /\ fdVal[caller[d].fd] = done[Current(d)]
      BY <2>1, <2>3
    <3>1. CASE d = c
      <4>1. r = Current(c)
        BY <3>1, <1>8
      <4> QED BY <3>0, <3>1, <4>1, <2>2, <1>1, <1>2
    <3>2. CASE d # c
      <4>1. c \in SyncCaller => caller[c].fd # caller[d].fd
        BY <3>2, <2>1, <2>3, <1>8
      <4>2. Current(d) \in Request
        <5>1. d \in Caller /\ caller[d].n > 0
          BY <2>3, <1>4 DEF Asked
        <5> QED BY <5>1, CurrentIsRequest
      <4>3. done'[Current(d)] = done[Current(d)]
        BY <4>2, <3>2, <1>2, <1>9
      <4> QED BY <4>1, <4>3, <3>0, <2>2
    <3> QED BY <3>1, <3>2
  <2>4. ASSUME NEW y \in Fd, \A d \in SyncCaller : InCall(d) => caller[d].fd # y
        PROVE  fdVal'[y] = 0
    <3>1. c \in SyncCaller => y # caller[c].fd
      BY <2>4, <1>8
    <3> QED BY <3>1, <2>1, <2>2, <2>4
  <2>5. \A d \in SyncCaller : /\ InCall(d)' <=> InCall(d)
                              /\ Current(d)' = Current(d) /\ caller'[d].fd = caller[d].fd
    BY <1>3, <1>4
  <2> QED BY <2>1, <2>3, <2>4, <2>5 DEF Eventfds
<1>11. Results'
  <2> SUFFICES ASSUME event # "signal" PROVE Results'
    BY DEF Results
  <2>1. accepted' = accepted /\ accepted \subseteq Request
    BY DEF UringTypeOK
  <2>2. ASSUME NEW q \in accepted, q[1] \in SyncCaller, q # Current(q[1])' \/ ~InCall(q[1])'
        PROVE  done'[q] = 1
    <3>1. q # Current(q[1]) \/ ~InCall(q[1])
      BY <2>2, <1>4
    <3>2. done[q] = 1 /\ q # r
      BY <2>2, <3>1, <1>1 DEF Results
    <3> QED BY <3>2, <2>1, <1>2
  <2>3. ASSUME NEW d \in SyncCaller, Current(d)' \in accepted, done'[Current(d)'] = 1
        PROVE  caller'[d].ret \in {Current(d)', SqeError, SubmitError}
    <3>0. Current(d)' = Current(d) /\ d \in Caller
      BY <1>4
    <3>1. CASE d = c
      BY <3>0, <3>1, <1>3, <1>8
    <3>2. CASE d # c
      <4>1. done[Current(d)] = 1 /\ caller'[d].ret = caller[d].ret
        BY <3>0, <3>2, <2>1, <2>3, <1>2, <1>3, <1>9
      <4> QED BY <4>1, <3>0, <2>3 DEF Results
    <3> QED BY <3>1, <3>2
  <2>4. \A d \in SyncCaller : caller'[d].pc \in Issuing => Current(d)' \in accepted
    BY <1>3, <1>4 DEF Results
  <2> QED BY <2>1, <2>2, <2>3, <2>4 DEF Results
<1> QED BY <1>2, <1>3, <1>5, <1>6, <1>7, <1>10, <1>11

\* A request's completion.
LEMMA ReapRequestKeeps == ASSUME UringInv, ReapRequest PROVE UringInv'
<1> USE DEF UringInv, ReapRequest, stopVars
<1>0. PICK x : x = Head(cq)
  OBVIOUS
<1>1. /\ Live /\ cq \in Seq(Entry) /\ IsInjective(cq) /\ kernel \cap Range(cq) = {}
      /\ wk.batch = <<>> /\ x # Notifier
  BY <1>0 DEF Live, Contexts, UringTypeOK, Ring
<1>2. /\ Tail(cq) \in Seq(Entry) /\ Len(Tail(cq)) = Len(cq) - 1
      /\ Range(cq) = Range(Tail(cq)) \cup {x}
      /\ IsInjective(Tail(cq)) /\ x \notin Range(Tail(cq))
  BY <1>0, <1>1, HeadTaken
<1>3. x \in DOMAIN ctxReq /\ x \in Context /\ x \notin Range(ctxPool)
  BY <1>1, <1>2 DEF Contexts, UringTypeOK
<1>4. PICK r \in Request : r = ctxReq[x]
  BY <1>3 DEF UringTypeOK
<1>5. Waiting(r) /\ ~Queued(r) /\ r \in Range(ctxReq)
  BY <1>3, <1>4 DEF OnePlace, Range
<1>6. /\ caller' \in [Caller -> Call] /\ fdVal' \in [Fd -> Nat] /\ done' \in [Request -> Nat]
      /\ done'[r] = 1 /\ \A q \in Request \ {r} : done'[q] = done[q]
      /\ DoneOnce' /\ Asked' /\ Eventfds' /\ Results'
  <2>1. DoneFor(r, r) /\ UNCHANGED <<fdPool, accepted>> /\ event' = event /\ UringInv
    BY <1>0, <1>4
  <2> HIDE DEF UringInv, ReapRequest
  <2> QED BY <2>1, <1>5, DoneKeeps
<1>7. /\ cq' = Tail(cq) /\ kernel' = kernel /\ event' = event /\ queue' = queue
      /\ ctxReq' = [y \in DOMAIN ctxReq \ {x} |-> ctxReq[y]] /\ accepted' = accepted
      /\ ctxPool' = Release(ctxPool, x, Iodepth)
  BY <1>0
<1>8. /\ ctxPool' \in Seq(Context) /\ Len(ctxPool') <= Iodepth
      /\ Range(ctxPool') \subseteq Range(ctxPool) \cup {x} /\ IsInjective(ctxPool')
  <2>1. ctxPool \in Seq(Context) /\ Iodepth \in Nat /\ Len(ctxPool) <= Iodepth /\ IsInjective(ctxPool)
    BY Sizes DEF UringTypeOK, Contexts
  <2>2. /\ Release(ctxPool, x, Iodepth) \in Seq(Context)
        /\ Len(ctxPool) <= Iodepth => Len(Release(ctxPool, x, Iodepth)) <= Iodepth
        /\ Range(Release(ctxPool, x, Iodepth)) \subseteq Range(ctxPool) \cup {x}
        /\ IsInjective(ctxPool) /\ x \notin Range(ctxPool) =>
              IsInjective(Release(ctxPool, x, Iodepth))
    BY <2>1, <1>3, Released, Zenon
  <2> QED BY <2>1, <2>2, <1>3, <1>7
<1>9. /\ wk' \in WorkerLocals /\ wk'.pc = "fill" /\ wk'.batch = <<>>
      /\ sq' \in Seq(Entry) /\ Ring' /\ Counts'
  <2>1. PICK b \in BOOLEAN : b = wk.rearm
    BY DEF UringTypeOK, WorkerLocals
  <2>2. Turn(1, b) /\ kernel' = kernel /\ event' = event /\ wk.pc = "reap" /\ UringInv
    BY <2>1
  <2>3. /\ cq' \in Seq(Entry) /\ Len(cq') = Len(cq) - 1 /\ Range(cq') \subseteq Range(cq)
        /\ b => Notifier \notin kernel \cup Range(cq')
    BY <2>1, <1>1, <1>2, <1>7 DEF Ring
  <2> HIDE DEF UringInv, ReapRequest
  <2> QED BY <2>1, <2>2, <2>3, TurnKeeps
<1>10. /\ DOMAIN ctxReq' = DOMAIN ctxReq \ {x} /\ Range(ctxReq') \subseteq Range(ctxReq) \ {r}
       /\ IsInjective(ctxReq')
       /\ ctxReq' \in [DOMAIN ctxReq' -> Request] /\ IsFiniteSet(DOMAIN ctxReq')
  <2>1. DOMAIN ctxReq' = DOMAIN ctxReq \ {x} /\ \A y \in DOMAIN ctxReq' : ctxReq'[y] = ctxReq[y]
    BY <1>7
  <2>2. IsFiniteSet(DOMAIN ctxReq \ {x})
    BY FS_RemoveElement DEF UringTypeOK
  <2>3. IsInjective(ctxReq) /\ ctxReq \in [DOMAIN ctxReq -> Request]
    BY DEF OnePlace, UringTypeOK
  <2>4. ctxReq' \in [DOMAIN ctxReq' -> Request]
    BY <2>1, <2>3, <1>7
  <2>5. IsInjective(ctxReq') /\ Range(ctxReq') \subseteq Range(ctxReq) \ {r}
    BY <2>1, <2>3, <1>3, <1>4 DEF IsInjective, Range
  <2> QED BY <2>1, <2>2, <2>4, <2>5
<1>11. UringTypeOK'
  BY <1>2, <1>6, <1>7, <1>8, <1>9, <1>10 DEF UringTypeOK
<1>12. OnePlace'
  <2>1. \A q \in Request : Waiting(q) /\ q # r => Waiting(q)'
    BY <1>6, <1>7 DEF Waiting
  <2>2. Range(queue) \subseteq Request /\ Range(ctxReq) \subseteq Request
    BY DEF OnePlace, Waiting, UringTypeOK
  <2> QED BY <2>1, <2>2, <1>5, <1>7, <1>9, <1>10 DEF OnePlace, Queued, InContext
<1>13. Contexts'
  <2>1. Range(ctxPool') \cap DOMAIN ctxReq' = {}
    BY <1>8, <1>10 DEF Contexts
  <2>2. Range(wk'.batch) = {} /\ IsInjective(wk'.batch) /\ Range(wk.batch) = {}
    BY <1>1, <1>9 DEF Range, IsInjective
  <2>3. kernel' \cup Range(cq') \subseteq DOMAIN ctxReq' \cup {Notifier}
    BY <2>2, <1>1, <1>2, <1>7, <1>10 DEF Contexts
  <2> QED BY <2>1, <2>2, <2>3, <1>1, <1>2, <1>7, <1>8 DEF Contexts
<1> QED BY <1>6, <1>9, <1>11, <1>12, <1>13

\* The context that the allocator hands out is in use by nobody.
LEMMA NewContext ==
    ASSUME UringInv, NEW a, a = AllocLast(ctxPool, UsedCtxs)
    PROVE  /\ a.obj \in Context \ DOMAIN ctxReq
           /\ a.pool \in Seq(Context) /\ Len(a.pool) <= Iodepth /\ IsInjective(a.pool)
           /\ Range(a.pool) \subseteq Range(ctxPool) /\ a.obj \notin Range(a.pool)
<1> USE DEF UringInv
<1>1. /\ ctxPool \in Seq(Context) /\ IsInjective(ctxPool) /\ Len(ctxPool) <= Iodepth
      /\ Range(ctxPool) \cap DOMAIN ctxReq = {} /\ IsFiniteSet(DOMAIN ctxReq)
  BY DEF UringTypeOK, Contexts
<1>2. IsFiniteSet(UsedCtxs)
  BY <1>1, RangeCount, FS_Union DEF UsedCtxs
<1>3. /\ a.obj \notin UsedCtxs \ Range(ctxPool)
      /\ a.pool \in Seq(Context) /\ Len(a.pool) <= Len(ctxPool)
      /\ IsInjective(ctxPool) => IsInjective(a.pool) /\ a.obj \notin Range(a.pool)
      /\ Range(a.pool) \subseteq Range(ctxPool)
      /\ \/ a.obj \in Range(ctxPool) /\ a.obj \in Context
         \/ /\ ctxPool = <<>> /\ Cardinality(UsedCtxs) \in Nat
            /\ a.obj \in 1 .. Cardinality(UsedCtxs) + 1 /\ a.obj \notin UsedCtxs
  BY <1>1, <1>2, Allocated
<1>4. a.obj \in Context
  BY <1>3 DEF Context
<1>5. a.obj \notin DOMAIN ctxReq
  BY <1>1, <1>3 DEF UsedCtxs
<1>6. Len(a.pool) <= Iodepth
  BY <1>1, <1>3, Sizes
<1> QED BY <1>1, <1>3, <1>4, <1>5, <1>6

\* A request gets a context and a place at the end of the submission ring.
LEMMA PrepareRequestKeeps == ASSUME UringInv, PrepareRequest PROVE UringInv'
<1> USE DEF UringInv, PrepareRequest, callerVars, stopVars
<1>0. PICK a : a = AllocLast(ctxPool, UsedCtxs)
  OBVIOUS
<1>1. PICK x \in Context : x = a.obj
  BY <1>0, NewContext
<1>2. /\ x \notin DOMAIN ctxReq /\ x \notin Range(a.pool) /\ x # Notifier /\ x \in Entry
      /\ a.pool \in Seq(Context) /\ Len(a.pool) <= Iodepth /\ IsInjective(a.pool)
      /\ Range(a.pool) \subseteq Range(ctxPool)
  BY <1>0, <1>1, NewContext, UringAssumption DEF Context, Entry
<1>3. PICK r \in Request : r = wk.req /\ Waiting(r) /\ ~Queued(r) /\ ~InContext(r)
  BY DEF OnePlace, Waiting, UringTypeOK
<1>4. /\ wk.pc = "prepare" /\ Live /\ Len(sq) < Iodepth
      /\ ctxPool' = a.pool /\ sq' = Append(sq, x)
      /\ ctxReq' = [y \in DOMAIN ctxReq \cup {x} |-> IF y = x THEN r ELSE ctxReq[y]]
      /\ wk' = [wk EXCEPT !.pc = "fill", !.batch = Append(wk.batch, x), !.req = Unset]
  BY <1>0, <1>1, <1>3 DEF Live
<1>5. /\ wk \in WorkerLocals /\ wk.batch \in Seq(Context) /\ sq \in Seq(Entry)
      /\ wk.sqe \in {0, 1}
  BY DEF UringTypeOK, WorkerLocals
<1>6. /\ Append(wk.batch, x) \in Seq(Context)
      /\ Range(Append(wk.batch, x)) = Range(wk.batch) \cup {x}
      /\ IsInjective(Append(wk.batch, x))
  <2>1. IsInjective(wk.batch) /\ x \notin Range(wk.batch)
    BY <1>2, <1>4 DEF Contexts
  <2> QED BY <2>1, <1>5, Appended
<1>7. /\ wk' \in WorkerLocals /\ wk'.pc = "fill" /\ wk'.batch = Append(wk.batch, x)
      /\ wk'.sqe = wk.sqe /\ wk'.rearm = wk.rearm /\ wk'.uncompleted = wk.uncompleted
  <2>1. PICK bt \in Seq(Context) : bt = Append(wk.batch, x)
    BY <1>6
  <2>2. wk' = [wk EXCEPT !.pc = "fill", !.batch = bt, !.req = Unset]
    BY <2>1, <1>4
  <2>3. /\ wk' \in WorkerLocals /\ wk'.pc = "fill" /\ wk'.batch = bt
        /\ wk'.sqe = wk.sqe /\ wk'.rearm = wk.rearm /\ wk'.uncompleted = wk.uncompleted
    BY <2>2, <1>5 DEF WorkerLocals
  <2> QED BY <2>1, <2>3
<1>8. sq' \in Seq(Entry) /\ Range(sq') = Range(sq) \cup {x}
  BY <1>2, <1>4, <1>5, Appended
<1>9. /\ DOMAIN ctxReq' = DOMAIN ctxReq \cup {x} /\ Range(ctxReq') = Range(ctxReq) \cup {r}
      /\ IsInjective(ctxReq') /\ ctxReq' \in [DOMAIN ctxReq' -> Request]
      /\ IsFiniteSet(DOMAIN ctxReq') /\ DOMAIN ctxReq' \subseteq Context
  <2>1. /\ DOMAIN ctxReq' = DOMAIN ctxReq \cup {x} /\ ctxReq'[x] = r
        /\ \A y \in DOMAIN ctxReq : ctxReq'[y] = ctxReq[y]
    BY <1>2, <1>4
  <2>2. IsFiniteSet(DOMAIN ctxReq \cup {x})
    BY FS_AddElement DEF UringTypeOK
  <2>3. /\ IsInjective(ctxReq) /\ ctxReq \in [DOMAIN ctxReq -> Request]
        /\ r \notin Range(ctxReq) /\ DOMAIN ctxReq \subseteq Context
    BY <1>3 DEF OnePlace, UringTypeOK, InContext
  <2>4. ctxReq' \in [DOMAIN ctxReq' -> Request]
    BY <2>1, <2>3, <1>4
  <2>5. Range(ctxReq') = Range(ctxReq) \cup {r}
    BY <2>1 DEF Range
  <2>6. IsInjective(ctxReq')
    BY <2>1, <2>3 DEF IsInjective, Range
  <2> QED BY <2>1, <2>2, <2>3, <2>4, <2>5, <2>6
<1>10. UringTypeOK'
  BY <1>2, <1>4, <1>7, <1>8, <1>9 DEF UringTypeOK
<1>11. OnePlace'
  <2>1. \A q : Waiting(q)' <=> Waiting(q)
    BY DEF Waiting
  <2>2. queue' = queue
    OBVIOUS
  <2> QED BY <2>1, <2>2, <1>3, <1>7, <1>9 DEF OnePlace, Queued, InContext
<1>12. Contexts'
  BY <1>2, <1>4, <1>6, <1>7, <1>9 DEF Contexts
<1>13. Ring'
  <2> DEFINE m == Len(wk.batch)
             n == Len(sq)
  <2>1. /\ m \in Nat /\ n \in Nat /\ Len(wk'.batch) = m + 1 /\ Len(sq') = n + 1
        /\ n < Iodepth /\ Iodepth \in Nat
    BY <1>4, <1>5, <1>7, Sizes
  <2>2. /\ wk'.batch[m + 1] = x /\ sq'[n + 1] = x
        /\ \A i \in 1 .. m : wk'.batch[i] = wk.batch[i]
        /\ \A i \in 1 .. n : sq'[i] = sq[i]
    BY <1>4, <1>5, <1>7
  <2>3. /\ m + wk.sqe <= n /\ \A i \in 1 .. m : sq[n - m + i] = wk.batch[i]
        /\ wk.sqe = 1 => wk.rearm /\ sq[n - m] = Notifier
        /\ wk.rearm => Notifier \notin kernel \cup Range(cq)
        /\ event # "submit" => n = m + wk.sqe
    BY <1>4 DEF Ring, Total
  <2> HIDE DEF m, n
  <2>4. Len(sq') <= Iodepth
    BY <2>1
  <2>5. Total' = m + 1 + wk.sqe
    BY <2>1, <1>7 DEF Total
  <2>6. Total' <= Len(sq')
    BY <2>1, <2>3, <2>5, <1>5
  <2>7. ASSUME NEW i \in 1 .. Len(wk'.batch)
        PROVE  sq'[Len(sq') - Len(wk'.batch) + i] = wk'.batch[i]
    <3>1. CASE i = m + 1
      <4>1. Len(sq') - Len(wk'.batch) + i = n + 1
        BY <3>1, <2>1
      <4> QED BY <4>1, <3>1, <2>2
    <3>2. CASE i # m + 1
      <4>0. i \in 1 .. m + 1
        BY <2>1, <2>7
      <4>1. i \in 1 .. m /\ Len(sq') - Len(wk'.batch) + i = n - m + i
        BY SMTT(30), <4>0, <3>2, <2>1
      <4>2. n - m + i \in 1 .. n
        BY SMTT(30), <4>1, <2>1, <2>3, <1>5
      <4> QED BY ZenonT(30), <4>1, <4>2, <2>2, <2>3
    <3> QED BY <3>1, <3>2
  <2>8. wk'.sqe = 1 => wk'.rearm /\ sq'[Len(sq') - Len(wk'.batch)] = Notifier
    <3> SUFFICES ASSUME wk.sqe = 1
                 PROVE  wk.rearm /\ sq'[Len(sq') - Len(wk'.batch)] = Notifier
      BY <1>7
    <3>1. Len(sq') - Len(wk'.batch) = n - m /\ n - m \in 1 .. n
      BY <2>1, <2>3
    <3> QED BY <3>1, <2>2, <2>3
  <2>9. event' # "submit" => Live' /\ Len(sq') = Total'
    BY <2>1, <2>3, <2>5, <1>5, <1>7 DEF Live
  <2>10. wk'.rearm => Notifier \notin kernel' \cup Range(cq')
    BY <2>3, <1>7
  <2> QED BY <2>4, <2>6, <2>7, <2>8, <2>9, <2>10, <1>7 DEF Ring
<1>14. Counts'
  <2>1. /\ Total' = Total + 1 /\ Total \in Nat /\ MaxBatch \in Nat
    <3>1. Len(Append(wk.batch, x)) = Len(wk.batch) + 1 /\ Len(wk.batch) \in Nat
      BY <1>5
    <3> QED BY <3>1, <1>5, <1>7, Sizes DEF Total
  <2>2. Total' <= MaxBatch
    BY <2>1, <1>4 DEF Counts
  <2>3. wk.uncompleted < Iodepth
    BY <1>4 DEF Counts
  <2> QED BY <2>2, <2>3, <1>4, <1>7 DEF Counts
<1>15. DoneOnce' /\ Asked' /\ Eventfds' /\ Results'
  BY CallersStay
<1> QED BY <1>10, <1>11, <1>12, <1>13, <1>14, <1>15

\* There is no place in the submission ring: done_ with an error.
LEMMA NoSqeKeeps == ASSUME UringInv, NoSqe PROVE UringInv'
<1> USE DEF UringInv, NoSqe, stopVars, ringVars
<1>0. PICK a : a = AllocLast(ctxPool, UsedCtxs)
  OBVIOUS
<1>1. PICK x \in Context : x = a.obj
  BY <1>0, NewContext
<1>2. /\ x \notin DOMAIN ctxReq /\ x \notin Range(a.pool)
      /\ a.pool \in Seq(Context) /\ Len(a.pool) <= Iodepth /\ IsInjective(a.pool)
      /\ Range(a.pool) \subseteq Range(ctxPool)
  BY <1>0, <1>1, NewContext
<1>3. PICK r \in Request : r = wk.req /\ Waiting(r) /\ ~Queued(r) /\ ~InContext(r)
  BY DEF OnePlace, Waiting, UringTypeOK
<1>4. /\ caller' \in [Caller -> Call] /\ fdVal' \in [Fd -> Nat] /\ done' \in [Request -> Nat]
      /\ done'[r] = 1 /\ \A q \in Request \ {r} : done'[q] = done[q]
      /\ DoneOnce' /\ Asked' /\ Eventfds' /\ Results'
  <2>1. DoneFor(r, SqeError) /\ UNCHANGED <<fdPool, accepted>> /\ event' = event /\ UringInv
    BY <1>3
  <2> HIDE DEF UringInv, NoSqe
  <2> QED BY <2>1, <1>3, DoneKeeps
<1>5. /\ wk' \in WorkerLocals /\ wk'.pc = "submit"
      /\ wk'.batch = wk.batch /\ wk'.sqe = wk.sqe /\ wk'.rearm = wk.rearm
      /\ wk'.uncompleted = wk.uncompleted
  <2>1. wk \in WorkerLocals
    BY DEF UringTypeOK
  <2> QED BY <2>1 DEF WorkerLocals
<1>6. /\ ctxPool' \in Seq(Context) /\ Len(ctxPool') <= Iodepth
      /\ Range(ctxPool') \subseteq Range(ctxPool) \cup {x} /\ IsInjective(ctxPool')
  <2>1. /\ Release(a.pool, x, Iodepth) \in Seq(Context)
        /\ Len(a.pool) <= Iodepth => Len(Release(a.pool, x, Iodepth)) <= Iodepth
        /\ Range(Release(a.pool, x, Iodepth)) \subseteq Range(a.pool) \cup {x}
        /\ IsInjective(a.pool) /\ x \notin Range(a.pool) =>
              IsInjective(Release(a.pool, x, Iodepth))
    <3>1. Iodepth \in Nat
      BY Sizes
    <3> QED BY <3>1, <1>2, Released, Zenon
  <2>2. ctxPool' = Release(a.pool, x, Iodepth)
    BY <1>0, <1>1
  <2> QED BY <2>1, <2>2, <1>2
<1>7. UringTypeOK'
  BY <1>4, <1>5, <1>6 DEF UringTypeOK
<1>8. OnePlace'
  <2>1. \A q \in Request : Waiting(q) /\ q # r => Waiting(q)'
    BY <1>4 DEF Waiting
  <2>2. Range(queue) \subseteq Request /\ Range(ctxReq) \subseteq Request
    BY DEF OnePlace, Waiting, UringTypeOK
  <2>3. queue' = queue /\ ctxReq' = ctxReq /\ r \notin Range(queue) /\ r \notin Range(ctxReq)
    BY <1>3 DEF Queued, InContext
  <2> QED BY <2>1, <2>2, <2>3, <1>5 DEF OnePlace, Queued
<1>9. Contexts'
  <2>1. Live /\ Live'
    BY <1>5 DEF Live
  <2> QED BY <2>1, <1>2, <1>5, <1>6 DEF Contexts
<1>10. Ring' /\ Counts'
  BY <1>5, RingStays, CountsStay DEF Live
<1> QED BY <1>4, <1>7, <1>8, <1>9, <1>10

-----------------------------------------------------------------------------
(* Submissions.                                                            *)

\* If the submission ring holds as many entries as there are to submit, it holds
\* the batch and perhaps the notifier's entry, once each, and the kernel has
\* none of them.
LEMMA RingContents ==
    ASSUME UringInv, Live, Len(sq) = Total
    PROVE  /\ Range(sq) \subseteq Range(wk.batch) \cup (IF wk.sqe = 1 THEN {Notifier} ELSE {})
           /\ Range(wk.batch) \subseteq Range(sq) /\ IsInjective(sq)
           /\ (kernel \cup Range(cq)) \cap Range(sq) = {}
<1> USE DEF UringInv
<1> DEFINE m == Len(wk.batch)
           n == Len(sq)
<1>1. /\ wk.batch \in Seq(Context) /\ sq \in Seq(Entry) /\ wk.sqe \in {0, 1}
      /\ m \in Nat /\ n \in Nat /\ DOMAIN sq = 1 .. n /\ DOMAIN wk.batch = 1 .. m
      /\ n = m + wk.sqe
  BY DEF UringTypeOK, WorkerLocals, Total
<1>2. /\ \A i \in 1 .. m : sq[n - m + i] = wk.batch[i] /\ wk.batch[i] \in Context
      /\ wk.sqe = 1 => wk.rearm /\ sq[n - m] = Notifier
      /\ wk.rearm => Notifier \notin kernel \cup Range(cq)
  <2>1. \A i \in 1 .. m : wk.batch[i] \in Context
    BY <1>1
  <2> QED BY <2>1 DEF Ring
<1>3. /\ IsInjective(wk.batch) /\ Notifier \notin Context
      /\ kernel \cup Range(cq) \subseteq (DOMAIN ctxReq \ Range(wk.batch)) \cup {Notifier}
      /\ Range(wk.batch) \subseteq Context
  <2>1. Range(wk.batch) \subseteq Context
    BY <1>1 DEF Range
  <2> QED BY <2>1, UringAssumption DEF Contexts, Context
<1> HIDE DEF m, n
<1>4. ASSUME NEW j \in DOMAIN sq
      PROVE  \/ j = 1 /\ wk.sqe = 1 /\ sq[j] = Notifier
             \/ j - wk.sqe \in DOMAIN wk.batch /\ sq[j] = wk.batch[j - wk.sqe] /\ sq[j] \in Context
  <2>0. j \in 1 .. n /\ n - m = wk.sqe
    BY <1>1, <1>4
  <2>1. CASE j <= wk.sqe
    <3>0. wk.sqe = 1
      BY <2>0, <2>1, <1>1
    <3>1. j = 1 /\ wk.sqe = 1 /\ n - m = 1
      BY <3>0, <2>0, <2>1, <1>1
    <3> QED BY <3>1, <1>2
  <2>2. CASE ~(j <= wk.sqe)
    <3>a. PICK k \in {0, 1} : k = wk.sqe
      BY <1>1
    <3>b. m \in Nat /\ n \in Nat /\ n = m + k /\ ~(j <= k)
      BY <3>a, <2>2, <1>1
    <3>c. j \in Nat /\ j <= m + k /\ j > k /\ n - m = k
      BY <3>b, <2>0
    <3>d. j - k \in 1 .. m /\ k + (j - k) = j
      BY <3>b, <3>c
    <3>1. j - wk.sqe \in 1 .. m /\ n - m + (j - wk.sqe) = j
      BY <3>a, <3>c, <3>d
    <3>2. sq[n - m + (j - wk.sqe)] = wk.batch[j - wk.sqe] /\ wk.batch[j - wk.sqe] \in Context
      BY <3>1, <1>2
    <3> QED BY <3>1, <3>2, <1>1
  <2> QED BY <2>1, <2>2
<1>5. Range(sq) \subseteq Range(wk.batch) \cup (IF wk.sqe = 1 THEN {Notifier} ELSE {})
  BY <1>4 DEF Range
<1>6. IsInjective(sq)
  <2> SUFFICES ASSUME NEW i \in DOMAIN sq, NEW j \in DOMAIN sq, sq[i] = sq[j] PROVE i = j
    BY DEF IsInjective
  <2>1. CASE sq[i] = Notifier
    BY <2>1, <1>3, <1>4
  <2>2. CASE sq[i] # Notifier
    <3>1. /\ i - wk.sqe \in DOMAIN wk.batch /\ j - wk.sqe \in DOMAIN wk.batch
          /\ wk.batch[i - wk.sqe] = wk.batch[j - wk.sqe]
      BY <2>2, <1>4
    <3>2. i - wk.sqe = j - wk.sqe
      BY <3>1, <1>3 DEF IsInjective
    <3> QED BY <3>2, <1>1
  <2> QED BY <2>1, <2>2
<1>7. (kernel \cup Range(cq)) \cap Range(sq) = {}
  BY <1>2, <1>3, <1>5
<1>8. Range(wk.batch) \subseteq Range(sq)
  <2>1. ASSUME NEW i \in 1 .. m PROVE n - m + i \in DOMAIN sq
    <3>1. PICK k \in {0, 1} : k = wk.sqe
      BY <1>1
    <3>2. n = m + k /\ n \in Nat /\ m \in Nat
      BY <3>1, <1>1
    <3>3. n - m + i \in 1 .. n
      BY <3>2
    <3> QED BY <3>3, <1>1
  <2>2. \A i \in DOMAIN wk.batch : n - m + i \in DOMAIN sq /\ sq[n - m + i] = wk.batch[i]
    BY <2>1, <1>1, <1>2
  <2> QED BY <2>2 DEF Range
<1> QED BY <1>5, <1>6, <1>7, <1>8

\* The size of what the kernel has after it took all that is in the ring.
LEMMA KernelGrows ==
    ASSUME UringTypeOK
    PROVE  /\ IsFiniteSet(kernel \cup Range(sq)) /\ Cardinality(kernel \cup Range(sq)) \in Nat
           /\ Cardinality(kernel) \in Nat /\ Len(sq) \in Nat
           /\ Cardinality(kernel \cup Range(sq)) <= Cardinality(kernel) + Len(sq)
           /\ Range(sq) \cap Context = {} =>
                 Cardinality(kernel \cup Range(sq)) <= Cardinality(kernel) + 1
           /\ IsInjective(sq) /\ kernel \cap Range(sq) = {} =>
                 Cardinality(kernel \cup Range(sq)) = Cardinality(kernel) + Len(sq)
<1>1. IsFiniteSet(kernel) /\ sq \in Seq(Entry) /\ Cardinality(kernel) \in Nat /\ Len(sq) \in Nat
  BY FS_CardinalityType DEF UringTypeOK
<1>2. /\ IsFiniteSet(Range(sq)) /\ Cardinality(Range(sq)) \in Nat
      /\ Cardinality(Range(sq)) <= Len(sq)
      /\ IsInjective(sq) => Cardinality(Range(sq)) = Len(sq)
  BY <1>1, RangeCount
<1>3. PICK U : U = kernel \cup Range(sq)
  OBVIOUS
<1>4. PICK I : I = kernel \cap Range(sq)
  OBVIOUS
<1>5. /\ IsFiniteSet(U) /\ Cardinality(U) = Cardinality(kernel) + Cardinality(Range(sq)) - Cardinality(I)
  BY <1>1, <1>2, <1>3, <1>4, FS_Union
<1>6. IsFiniteSet(I) /\ Cardinality(I) \in Nat /\ Cardinality(U) \in Nat
  <2>1. I \subseteq kernel
    BY <1>4
  <2>2. IsFiniteSet(I)
    BY <2>1, <1>1, FS_Subset
  <2> QED BY <2>2, <1>5, FS_CardinalityType
<1>7. I = {} => Cardinality(I) = 0
  BY FS_EmptySet
<1>8. Range(sq) \cap Context = {} => Cardinality(Range(sq)) <= 1
  <2> SUFFICES ASSUME Range(sq) \cap Context = {} PROVE Cardinality(Range(sq)) <= 1
    OBVIOUS
  <2>1. Range(sq) \subseteq {Notifier}
    BY <1>1 DEF Range, Entry
  <2>2. IsFiniteSet({Notifier}) /\ Cardinality({Notifier}) = 1
    BY FS_Singleton
  <2>3. Cardinality(Range(sq)) <= Cardinality({Notifier})
    BY <2>1, <2>2, FS_Subset
  <2> QED BY <2>2, <2>3
<1> QED BY <1>1, <1>2, <1>3, <1>4, <1>5, <1>6, <1>7, <1>8

\* The worker's locals after a turn.
LEMMA NextTurnIs ==
    ASSUME NEW w \in WorkerLocals, wk \in WorkerLocals
    PROVE  /\ NextTurn(w) \in WorkerLocals /\ NextTurn(w).pc = "top"
           /\ NextTurn(w).batch = <<>> /\ NextTurn(w).sqe = 0
           /\ NextTurn(w).rearm = w.rearm /\ NextTurn(w).uncompleted = w.uncompleted
<1>1. PICK b \in BOOLEAN : NextTurn(w) =
                [w EXCEPT !.pc = "top", !.block = b, !.batch = <<>>, !.sqe = 0]
  <2>1. Total \in Nat /\ MaxBatch \in Nat
    BY Sizes DEF Total, WorkerLocals
  <2>2. (Total < MaxBatch) \in BOOLEAN
    BY <2>1
  <2> QED BY <2>2 DEF NextTurn
<1>2. << >> \in Seq(Context)
  OBVIOUS
<1> QED BY <1>1, <1>2, ZenonT(30) DEF WorkerLocals

\* The kernel takes all that is in the submission ring, which is what the worker
\* expects, or the process ends.
LEMMA SubmitKeeps == ASSUME UringInv, Submit PROVE UringInv'
<1> USE DEF UringInv, Submit, callerVars, stopVars
<1>1. /\ wk \in WorkerLocals /\ wk.pc \in {"fill", "submit"} /\ Live
      /\ kernel' = kernel \cup Range(sq) /\ sq' = <<>> /\ cq' = cq
      /\ queue' = queue /\ ctxPool' = ctxPool /\ ctxReq' = ctxReq /\ event' = event
      /\ sq \in Seq(Entry) /\ cq \in Seq(Entry)
  BY DEF ReadyToSubmit, Live, UringTypeOK
<1>2. /\ IsFiniteSet(kernel \cup Range(sq)) /\ Cardinality(kernel \cup Range(sq)) \in Nat
      /\ Cardinality(kernel) \in Nat /\ Len(sq) \in Nat
      /\ Cardinality(kernel \cup Range(sq)) <= Cardinality(kernel) + Len(sq)
      /\ Range(sq) \cap Context = {} =>
            Cardinality(kernel \cup Range(sq)) <= Cardinality(kernel) + 1
      /\ IsInjective(sq) /\ kernel \cap Range(sq) = {} =>
            Cardinality(kernel \cup Range(sq)) = Cardinality(kernel) + Len(sq)
  BY KernelGrows
<1>3. /\ Len(sq') = 0 /\ Range(sq') = {} /\ << >> \in Seq(Entry) /\ Len(cq) \in Nat
  BY <1>1 DEF Range
<1>4. /\ Iodepth \in Nat /\ Iodepth >= 2 /\ MaxBatch \in 1 .. Iodepth
      /\ Total <= MaxBatch /\ Total <= Len(sq) /\ Len(sq) <= Iodepth
      /\ Total \in Nat
  BY <1>1, Sizes DEF Counts, Ring, Total, WorkerLocals
<1>5. /\ wk.uncompleted = Cardinality(kernel) + Len(cq)
      /\ wk.uncompleted + (IF wk.rearm THEN 1 ELSE 0) <= 2 * Iodepth - 1
      /\ Range(sq) \cap Context # {} => wk.uncompleted < Iodepth
  BY <1>1 DEF Counts
<1>6. Cardinality(kernel') + Len(cq') <= 2 * Iodepth
  <2>1. CASE Range(sq) \cap Context = {}
    <3>1. wk.uncompleted <= 2 * Iodepth - 1
      BY <1>2, <1>3, <1>4, <1>5
    <3> QED BY <3>1, <2>1, <1>1, <1>2, <1>3, <1>4, <1>5
  <2>2. CASE Range(sq) \cap Context # {}
    BY <2>2, <1>1, <1>2, <1>3, <1>4, <1>5
  <2> QED BY <2>1, <2>2
<1>7. kernel' \subseteq Entry /\ IsFiniteSet(kernel')
  <2>1. Range(sq) \subseteq Entry
    BY <1>1 DEF Range
  <2> QED BY <2>1, <1>1, <1>2 DEF UringTypeOK
<1>8. DoneOnce' /\ Asked' /\ Eventfds' /\ Results'
  BY CallersStay
<1>9. CASE Len(sq) = Total
  <2>1. PICK v : v = [wk EXCEPT !.rearm = FALSE, !.uncompleted = wk.uncompleted + Total]
    OBVIOUS
  <2>2. PICK u \in Int : u = wk.uncompleted + Total
    BY <1>1, <1>4 DEF WorkerLocals
  <2>3. v = [wk EXCEPT !.rearm = FALSE, !.uncompleted = u]
    BY <2>1, <2>2
  <2>4. v \in WorkerLocals /\ v.rearm = FALSE /\ v.uncompleted = u
    BY <2>3, <1>1 DEF WorkerLocals
  <2>5. wk' = NextTurn(v)
    BY <1>9, <2>1
  <2>6. /\ wk' \in WorkerLocals /\ wk'.pc = "top" /\ wk'.batch = <<>> /\ wk'.sqe = 0
        /\ wk'.rearm = FALSE /\ wk'.uncompleted = u
    BY <1>1, <2>4, <2>5, NextTurnIs
  <2>7. /\ Range(sq) \subseteq Range(wk.batch) \cup (IF wk.sqe = 1 THEN {Notifier} ELSE {})
        /\ Range(wk.batch) \subseteq Range(sq) /\ IsInjective(sq)
        /\ (kernel \cup Range(cq)) \cap Range(sq) = {}
    <3> HIDE DEF UringInv, Submit
    <3> QED BY <1>1, <1>9, RingContents
  <2>8. Cardinality(kernel') = Cardinality(kernel) + Total
    BY <2>7, <1>1, <1>2, <1>9
  <2>9. /\ Range(wk'.batch) = {} /\ IsInjective(wk'.batch) /\ Len(wk'.batch) = 0
        /\ Live' /\ Total' = 0
    BY <2>6 DEF Range, IsInjective, Live, Total
  <2>10. UringTypeOK'
    BY <2>6, <1>1, <1>3, <1>7 DEF UringTypeOK
  <2>11. OnePlace'
    BY <2>6, OnePlaceStays
  <2>12. Contexts'
    <3>1. /\ kernel \cup Range(cq) \subseteq DOMAIN ctxReq \cup {Notifier}
          /\ Range(wk.batch) \subseteq DOMAIN ctxReq /\ IsInjective(cq)
          /\ kernel \cap Range(cq) = {}
      BY <1>1 DEF Contexts
    <3>2. kernel' \cup Range(cq') \subseteq DOMAIN ctxReq' \cup {Notifier}
      BY <3>1, <2>7, <1>1
    <3>3. kernel' \cap Range(cq') = {}
      BY <3>1, <2>7, <1>1
    <3> QED BY <3>1, <3>2, <3>3, <2>9, <1>1 DEF Contexts
  <2>13. Ring'
    BY <2>6, <2>9, <1>3, <1>4 DEF Ring
  <2>14. Counts'
    <3>1. wk'.uncompleted = Cardinality(kernel') + Len(cq')
      BY <2>2, <2>6, <2>8, <1>1, <1>2, <1>3, <1>4, <1>5
    <3>2. wk'.uncompleted <= 2 * Iodepth - 1
      <4>1. CASE Range(sq) \cap Context # {}
        BY <4>1, <2>2, <2>6, <1>2, <1>3, <1>4, <1>5
      <4>2. CASE Range(sq) \cap Context = {}
        <5>1. Total <= 1
          <6>1. Cardinality(kernel') <= Cardinality(kernel) + 1
            BY <4>2, <1>1, <1>2
          <6> QED BY <6>1, <2>8, <1>2, <1>4
        <5>2. wk.sqe = 1 /\ wk.rearm
          <6>1. Len(wk.batch) = 0
            <7>1. /\ wk.batch \in Seq(Context) /\ IsInjective(wk.batch)
                  /\ Range(wk.batch) \subseteq Context
              BY <1>1 DEF WorkerLocals, Contexts, Range
            <7>2. Range(wk.batch) = {}
              BY <7>1, <2>7, <4>2
            <7> QED BY <7>1, <7>2, RangeCount, FS_EmptySet
          <6>2. wk.sqe = 1
            BY <6>1, <1>1 DEF Total, WorkerLocals
          <6> QED BY <6>2, <1>1 DEF Ring
        <5> QED BY <5>1, <5>2, <2>2, <2>6, <1>2, <1>3, <1>4, <1>5
      <4> QED BY <4>1, <4>2
    <3>3. /\ wk'.uncompleted + (IF wk'.rearm THEN 1 ELSE 0) <= 2 * Iodepth - 1
      BY <3>2, <2>2, <2>6, <1>4
    <3> QED BY <3>1, <3>3, <2>6, <2>9, <1>3, <1>4, <1>6 DEF Counts
  <2> QED BY <2>10, <2>11, <2>12, <2>13, <2>14, <1>8
<1>10. CASE Len(sq) # Total
  <2>1. wk' = [wk EXCEPT !.pc = "aborted"]
    BY <1>10
  <2>2. /\ wk' \in WorkerLocals /\ wk'.pc = "aborted" /\ wk'.batch = wk.batch
        /\ wk'.sqe = wk.sqe /\ wk'.rearm = wk.rearm
    BY <2>1, <1>1 DEF WorkerLocals
  <2>3. event = "submit" /\ ~Live'
    BY <2>2, <1>10 DEF Ring, Live
  <2>4. UringTypeOK'
    BY <2>2, <1>1, <1>3, <1>7 DEF UringTypeOK
  <2>5. OnePlace'
    BY <2>2, OnePlaceStays
  <2>6. Contexts'
    BY <2>2, <2>3, <1>1 DEF Contexts
  <2>7. Ring'
    BY <2>2, <2>3, <1>1, <1>3, <1>4 DEF Ring
  <2>8. Counts'
    BY <2>2, <2>3, <1>4, <1>6 DEF Counts, Total
  <2> QED BY <2>4, <2>5, <2>6, <2>7, <2>8, <1>8
<1> QED BY <1>9, <1>10

\* A submission fails: done_ for each request of the batch, which is the current
\* one of its caller.
LEMMA SubmitFailedKeeps == ASSUME UringInv, SubmitFailed PROVE UringInv'
<1> USE DEF UringInv
<1>0. PICK R : R = {ctxReq[x] : x \in Range(wk.batch)}
  OBVIOUS
<1>1. /\ wk \in WorkerLocals /\ wk.pc \in {"fill", "submit"} /\ Live
      /\ event \in {"none", "submit"} /\ event' = "submit"
      /\ queue' = queue /\ accepted' = accepted /\ fdPool' = fdPool
      /\ kernel' = kernel /\ sq' = sq /\ cq' = cq
  BY DEF SubmitFailed, ReadyToSubmit, Live, Happens, UringTypeOK, ringVars
<1>2. /\ done' = [r \in Request |-> IF r \in R THEN done[r] + 1 ELSE done[r]]
      /\ caller' = [c \in Caller |->
                      IF c \in SyncCaller /\ \E r \in R : r[1] = c
                      THEN [caller[c] EXCEPT !.ret = SubmitError] ELSE caller[c]]
      /\ fdVal' = [x \in Fd |->
                     fdVal[x] + Cardinality({r \in R : r[1] \in SyncCaller /\ caller[r[1]].fd = x})]
      /\ ctxPool' = ReleaseAll(ctxPool, wk.batch, Iodepth)
      /\ ctxReq' = [x \in DOMAIN ctxReq \ Range(wk.batch) |-> ctxReq[x]]
      /\ wk' = NextTurn(wk)
  BY <1>0 DEF SubmitFailed
<1>3. /\ caller \in [Caller -> Call] /\ done \in [Request -> Nat] /\ fdVal \in [Fd -> Nat]
      /\ accepted \subseteq Request /\ SyncCaller \subseteq Caller
      /\ wk.batch \in Seq(Context) /\ IsInjective(wk.batch)
      /\ Range(wk.batch) \subseteq DOMAIN ctxReq
  BY <1>1 DEF UringTypeOK, WorkerLocals, Contexts, Caller
<1>4. \A r \in R : /\ r \in Range(ctxReq) /\ r \in Request /\ r \in accepted
                   /\ done[r] = 0 /\ ~Queued(r)
  <2>1. R \subseteq Range(ctxReq)
    BY <1>0, <1>3 DEF Range
  <2> QED BY <2>1, <1>3 DEF OnePlace, Waiting
<1>5. /\ done' \in [Request -> Nat]
      /\ \A r \in Request : done'[r] = IF r \in R THEN 1 ELSE done[r]
  BY <1>2, <1>3, <1>4
<1>6. /\ caller' \in [Caller -> Call]
      /\ \A c \in Caller : /\ caller'[c].pc = caller[c].pc /\ caller'[c].n = caller[c].n
                           /\ caller'[c].fd = caller[c].fd
      /\ \A c \in SyncCaller : caller'[c].ret = IF \E r \in R : r[1] = c THEN SubmitError
                                                                        ELSE caller[c].ret
  <2>1. SubmitError \in Result
    BY DEF Result
  <2>2. ASSUME NEW c \in Caller
        PROVE  /\ caller'[c] \in Call
               /\ caller'[c].pc = caller[c].pc /\ caller'[c].n = caller[c].n
               /\ caller'[c].fd = caller[c].fd
               /\ c \in SyncCaller =>
                     caller'[c].ret = IF \E r \in R : r[1] = c THEN SubmitError ELSE caller[c].ret
    <3>1. CASE c \in SyncCaller /\ \E r \in R : r[1] = c
      <4>1. caller'[c] = [caller[c] EXCEPT !.ret = SubmitError] /\ caller[c] \in Call
        BY <3>1, <1>2, <1>3
      <4> QED BY <4>1, <3>1, <2>1 DEF Call
    <3>2. CASE ~(c \in SyncCaller /\ \E r \in R : r[1] = c)
      <4>1. caller'[c] = caller[c] /\ caller[c] \in Call
        BY <3>2, <1>2, <1>3
      <4> QED BY <4>1, <3>2
    <3> QED BY <3>1, <3>2
  <2>3. caller' = [c \in Caller |-> caller'[c]]
    BY <1>2
  <2> QED BY <2>2, <2>3, <1>3
<1>7. /\ \A c \in Caller : (InCall(c)' <=> InCall(c)) /\ Current(c)' = Current(c)
      /\ \A c \in Caller : Current(c)[1] = c
  BY <1>6 DEF InCall, Current
<1>8. \A r \in R : r[1] \in SyncCaller => r = Current(r[1]) /\ InCall(r[1])
  <2>1. \A r \in R : r[1] \in SyncCaller /\ (r # Current(r[1]) \/ ~InCall(r[1])) => done[r] = 1
    BY <1>1, <1>4 DEF Results
  <2> QED BY <2>1, <1>4
<1>9. /\ IsInjective(fdPool)
      /\ \A d \in SyncCaller : InCall(d) =>
           /\ caller[d].fd \in Fd \ Range(fdPool)
           /\ fdVal[caller[d].fd] = done[Current(d)]
           /\ \A e \in SyncCaller : InCall(e) /\ caller[e].fd = caller[d].fd => e = d
      /\ \A y \in Fd : (\A d \in SyncCaller : InCall(d) => caller[d].fd # y) => fdVal[y] = 0
  BY <1>1 DEF Eventfds
<1>10. ASSUME NEW c \in SyncCaller, InCall(c), Current(c) \in R
       PROVE  fdVal'[caller[c].fd] = fdVal[caller[c].fd] + 1
  <2>1. {r \in R : r[1] \in SyncCaller /\ caller[r[1]].fd = caller[c].fd} = {Current(c)}
    BY <1>3, <1>7, <1>8, <1>9, <1>10
  <2>2. Cardinality({Current(c)}) = 1
    BY FS_Singleton
  <2>3. caller[c].fd \in Fd
    BY <1>9, <1>10
  <2> QED BY <2>1, <2>2, <2>3, <1>2
<1>11. ASSUME NEW x \in Fd, \A c \in SyncCaller : InCall(c) /\ caller[c].fd = x => Current(c) \notin R
       PROVE  fdVal'[x] = fdVal[x]
  <2>1. {r \in R : r[1] \in SyncCaller /\ caller[r[1]].fd = x} = {}
    BY <1>8, <1>11
  <2>2. Cardinality({}) = 0
    BY FS_EmptySet
  <2>3. fdVal'[x] = fdVal[x] + 0 /\ fdVal[x] \in Nat
    BY <2>1, <2>2, <1>2, <1>3
  <2> QED BY <2>3
<1>12. fdVal' \in [Fd -> Nat]
  <2>1. ASSUME NEW x \in Fd PROVE fdVal'[x] \in Nat
    <3>1. CASE \E c \in SyncCaller : InCall(c) /\ caller[c].fd = x /\ Current(c) \in R
      <4>1. fdVal'[x] = fdVal[x] + 1 /\ fdVal[x] \in Nat
        BY <3>1, <1>3, <1>10
      <4> QED BY <4>1
    <3>2. CASE ~(\E c \in SyncCaller : InCall(c) /\ caller[c].fd = x /\ Current(c) \in R)
      <4>1. fdVal'[x] = fdVal[x] /\ fdVal[x] \in Nat
        BY <3>2, <1>3, <1>11
      <4> QED BY <4>1
    <3> QED BY <3>1, <3>2
  <2>2. fdVal' = [x \in Fd |-> fdVal'[x]]
    BY <1>2
  <2> QED BY <2>1, <2>2
<1>13. Eventfds'
  <2>1. ASSUME NEW d \in SyncCaller, InCall(d) PROVE fdVal'[caller[d].fd] = done'[Current(d)]
    <3>0. /\ caller[d].fd \in Fd /\ fdVal[caller[d].fd] = done[Current(d)]
          /\ \A e \in SyncCaller : InCall(e) /\ caller[e].fd = caller[d].fd => e = d
      BY <1>9, <2>1
    <3>1. Current(d) \in Request
      <4>1. d \in Caller /\ caller[d].n > 0
        BY <2>1, <1>3 DEF Asked
      <4> QED BY <4>1, CurrentIsRequest
    <3>2. CASE Current(d) \in R
      <4>1. done[Current(d)] = 0 /\ done'[Current(d)] = 1
        BY <3>1, <3>2, <1>4, <1>5
      <4> QED BY <4>1, <3>0, <3>2, <2>1, <1>10
    <3>3. CASE Current(d) \notin R
      <4>1. done'[Current(d)] = done[Current(d)]
        BY <3>1, <3>3, <1>5
      <4>2. \A e \in SyncCaller : InCall(e) /\ caller[e].fd = caller[d].fd => Current(e) \notin R
        BY <3>0, <3>3
      <4> QED BY <4>1, <4>2, <3>0, <1>11
    <3> QED BY <3>2, <3>3
  <2>2. ASSUME NEW y \in Fd, \A d \in SyncCaller : InCall(d) => caller[d].fd # y
        PROVE  fdVal'[y] = 0
    <3>1. fdVal'[y] = fdVal[y]
      BY <2>2, <1>11
    <3> QED BY <3>1, <2>2, <1>9
  <2>3. \A d \in SyncCaller : /\ InCall(d)' <=> InCall(d)
                              /\ Current(d)' = Current(d) /\ caller'[d].fd = caller[d].fd
    BY <1>3, <1>6, <1>7
  <2> QED BY <2>1, <2>2, <2>3, <1>1, <1>9 DEF Eventfds
<1>14. Results'
  <2>1. ASSUME NEW q \in accepted, q[1] \in SyncCaller, q # Current(q[1])' \/ ~InCall(q[1])'
        PROVE  done'[q] = 1
    <3>1. q # Current(q[1]) \/ ~InCall(q[1])
      BY <2>1, <1>3, <1>7
    <3>2. done[q] = 1
      BY <3>1, <2>1, <1>1 DEF Results
    <3> QED BY <3>2, <1>3, <1>5
  <2>2. ASSUME NEW d \in SyncCaller, Current(d)' \in accepted, done'[Current(d)'] = 1
        PROVE  caller'[d].ret \in {Current(d)', SqeError, SubmitError}
    <3>0. Current(d)' = Current(d) /\ d \in Caller /\ Current(d) \in Request
      BY <2>2, <1>3, <1>7
    <3>1. CASE \E r \in R : r[1] = d
      BY <3>1, <1>6
    <3>2. CASE ~(\E r \in R : r[1] = d)
      <4>1. Current(d) \notin R
        BY <3>0, <3>2, <1>7
      <4>2. done[Current(d)] = 1 /\ caller'[d].ret = caller[d].ret
        BY <4>1, <3>0, <3>2, <2>2, <1>5, <1>6
      <4> QED BY <4>2, <3>0, <2>2, <1>1 DEF Results
    <3> QED BY <3>1, <3>2
  <2>3. \A d \in SyncCaller : caller'[d].pc \in Issuing => Current(d)' \in accepted
    BY <1>1, <1>3, <1>6, <1>7 DEF Results
  <2> QED BY <2>1, <2>2, <2>3, <1>1 DEF Results
<1>15. DoneOnce'
  <2>1. \A r \in Request : done'[r] <= IF r \in accepted THEN 1 ELSE 0
    BY <1>4, <1>5 DEF DoneOnce
  <2> QED BY <2>1, <1>1 DEF DoneOnce
<1>16. Asked'
  <2>1. NoCallBegins
    BY <1>3, <1>6, <1>7 DEF NoCallBegins
  <2> QED BY <2>1, <1>1, <1>3, AskedStays
<1>17. /\ wk' \in WorkerLocals /\ wk'.pc = "top" /\ wk'.batch = <<>> /\ wk'.sqe = 0
       /\ wk'.rearm = wk.rearm /\ wk'.uncompleted = wk.uncompleted
  BY <1>1, <1>2, NextTurnIs
<1>18. /\ ctxPool' \in Seq(Context) /\ Len(ctxPool') <= Iodepth
       /\ Range(ctxPool') \subseteq Range(ctxPool) \cup Range(wk.batch)
       /\ IsInjective(ctxPool')
  <2>1. /\ ctxPool \in Seq(Context) /\ Iodepth \in Nat /\ Len(ctxPool) <= Iodepth
        /\ IsInjective(ctxPool) /\ Range(ctxPool) \cap Range(wk.batch) = {}
    BY <1>3, Sizes DEF UringTypeOK, Contexts
  <2>2. LET p == ReleaseAll(ctxPool, wk.batch, Iodepth) IN
        /\ p \in Seq(Context) /\ Len(p) <= Iodepth
        /\ Range(p) \subseteq Range(ctxPool) \cup Range(wk.batch)
        /\ IsInjective(ctxPool) /\ IsInjective(wk.batch) /\ Range(ctxPool) \cap Range(wk.batch) = {} =>
              IsInjective(p)
    BY <2>1, <1>3, AllReleased, Zenon
  <2> QED BY <2>1, <2>2, <1>2, <1>3
<1>19. /\ DOMAIN ctxReq' = DOMAIN ctxReq \ Range(wk.batch)
       /\ Range(ctxReq') \subseteq Range(ctxReq) \ R /\ IsInjective(ctxReq')
       /\ ctxReq' \in [DOMAIN ctxReq' -> Request] /\ IsFiniteSet(DOMAIN ctxReq')
  <2>1. /\ DOMAIN ctxReq' = DOMAIN ctxReq \ Range(wk.batch)
        /\ \A y \in DOMAIN ctxReq' : ctxReq'[y] = ctxReq[y]
    BY <1>2
  <2>2. IsInjective(ctxReq) /\ ctxReq \in [DOMAIN ctxReq -> Request] /\ IsFiniteSet(DOMAIN ctxReq)
    BY DEF OnePlace, UringTypeOK
  <2>3. IsFiniteSet(DOMAIN ctxReq')
    BY <2>1, <2>2, FS_Subset
  <2>4. ctxReq' \in [DOMAIN ctxReq' -> Request]
    BY <2>1, <2>2, <1>2
  <2>5. IsInjective(ctxReq')
    BY <2>1, <2>2 DEF IsInjective
  <2>6. ASSUME NEW y \in DOMAIN ctxReq' PROVE ctxReq'[y] \in Range(ctxReq) \ R
    <3>1. y \in DOMAIN ctxReq /\ y \notin Range(wk.batch) /\ ctxReq'[y] = ctxReq[y]
      BY <2>1, <2>6
    <3>2. ctxReq[y] \notin R
      BY <3>1, <2>2, <1>0, <1>3 DEF IsInjective
    <3> QED BY <3>1, <3>2 DEF Range
  <2>7. Range(ctxReq') \subseteq Range(ctxReq) \ R
    BY <2>6 DEF Range
  <2> QED BY <2>1, <2>3, <2>4, <2>5, <2>7
<1>20. UringTypeOK'
  BY <1>1, <1>5, <1>6, <1>12, <1>17, <1>18, <1>19 DEF UringTypeOK
<1>21. OnePlace'
  <2>1. \A q \in Request : Waiting(q) /\ q \notin R => Waiting(q)'
    BY <1>1, <1>5 DEF Waiting
  <2>2. \A q \in Range(queue) \cup Range(ctxReq) : q \in Request /\ Waiting(q)
    BY <1>3 DEF OnePlace, Waiting
  <2>3. \A q \in Range(queue) : q \notin R
    BY <1>4 DEF Queued
  <2> QED BY <2>1, <2>2, <2>3, <1>1, <1>17, <1>19 DEF OnePlace, Queued
<1>22. Contexts'
  <2>1. Range(wk'.batch) = {} /\ IsInjective(wk'.batch)
    BY <1>17 DEF Range, IsInjective
  <2>2. Range(ctxPool') \cap DOMAIN ctxReq' = {}
    BY <1>3, <1>18, <1>19 DEF Contexts
  <2>3. kernel' \cup Range(cq') \subseteq DOMAIN ctxReq' \cup {Notifier}
    BY <1>1, <1>19 DEF Contexts
  <2> QED BY <2>1, <2>2, <2>3, <1>1, <1>18 DEF Contexts
<1>23. Total' = 0 /\ Len(wk'.batch) = 0 /\ Live'
  BY <1>17 DEF Total, Live
<1>24. Ring'
  <2>1. Len(sq) \in Nat
    BY DEF UringTypeOK
  <2> QED BY <2>1, <1>1, <1>17, <1>23 DEF Ring
<1>25. Counts'
  BY <1>1, <1>17, <1>23, Sizes DEF Counts
<1> QED BY <1>13, <1>14, <1>15, <1>16, <1>20, <1>21, <1>22, <1>24, <1>25

-----------------------------------------------------------------------------
(* All steps, and what follows for the running program.                    *)

\* Every step keeps the invariant.
LEMMA NextKeepsUring == UringInv /\ [Next]_vars => UringInv'
<1> SUFFICES ASSUME UringInv, [Next]_vars PROVE UringInv'
  OBVIOUS
<1>1. CASE UNCHANGED vars
  <2>1. UringTypeOK'
    BY <1>1 DEF vars, UringInv, UringTypeOK, stopVars, workerVars, ringVars, callerVars
  <2>2. DoneOnce' /\ OnePlace' /\ Contexts' /\ Ring' /\ Counts'
    BY <1>1, RestStays DEF vars, workerVars, ringVars
  <2>3. Asked' /\ Eventfds' /\ Results'
    BY <1>1, CallersStay DEF vars
  <2> QED BY <2>1, <2>2, <2>3 DEF UringInv
<1>2. ASSUME NEW c \in Caller, SyncCall(c) \/ AsyncCall(c) \/ CallerStep(c) PROVE UringInv'
  <2>1. CASE SyncCall(c)
    BY <2>1, SyncCallKeeps
  <2>2. CASE AsyncCall(c)
    BY <2>2, AsyncCallKeeps
  <2>3. CASE Enqueue(c)
    BY <2>3, EnqueueKeeps
  <2>4. CASE QueueFull(c)
    BY <2>4, QueueFullKeeps
  <2>5. CASE CountRequest(c)
    <3>1. PICK p \in {"notify", Issued(c)} : caller' = [caller EXCEPT ![c].pc = p]
      BY <2>5 DEF CountRequest
    <3> QED BY <3>1, <2>5, IssueKeeps DEF CountRequest
  <2>6. CASE Notify(c)
    BY <2>6, IssueKeeps DEF Notify
  <2>7. CASE SyncReturn(c)
    BY <2>7, SyncReturnKeeps DEF SyncReturn
  <2> QED BY <1>2, <2>1, <2>2, <2>3, <2>4, <2>5, <2>6, <2>7 DEF CallerStep
<1>3. ASSUME NEW c \in SyncCaller, SyncInterrupted(c) PROVE UringInv'
  BY <1>3, SyncInterruptedKeeps
<1>4. CASE KernelStep
  <2>1. PICK x \in kernel : /\ kernel' = kernel \ {x} /\ cq' = Append(cq, x)
                            /\ UNCHANGED <<caller, queue, fdPool, fdVal, workerVars, sq, stopVars,
                                           accepted, done>>
    BY <1>4 DEF KernelStep, KernelPolls, KernelCompletes, callerVars
  <2> QED BY <2>1, CompletionKeeps
<1>5. CASE WorkerStep
  BY <1>5, WorkerTopKeeps, PeekEmptyKeeps, ReapRequestKeeps, ReapNotifierKeeps, TakeRequestKeeps,
     PrepareRequestKeeps, NoSqeKeeps, NothingToSubmitKeeps, SubmitKeeps DEF WorkerStep
<1>6. CASE WaitInterrupted
  BY <1>6, WorkerTopKeeps
<1>7. CASE SubmitFailed
  BY <1>7, SubmitFailedKeeps
<1>8. CASE Stop
  BY <1>8, StopKeeps
<1> QED BY <1>1, <1>2, <1>3, <1>4, <1>5, <1>6, <1>7, <1>8 DEF Next

\* The invariant holds throughout.
THEOREM UringHolds == Spec => []UringInv
<1>1. Init => UringInv
  BY InitUring
<1>2. UringInv /\ [Next]_vars => UringInv'
  BY NextKeepsUring
<1> QED BY <1>1, <1>2, PTL DEF Spec

\* done_ is called at most once for a request, and never for one that the queue
\* refused.
THEOREM DoneOnceHolds == Spec => []DoneOnce
<1>1. UringInv => DoneOnce
  BY DEF UringInv
<1> QED BY <1>1, UringHolds, PTL

\* doIoOpSync returns the result of its own request.
THEOREM SyncResultHolds == Spec => []SyncResult
<1>1. UringInv => SyncResult
  <2> SUFFICES ASSUME UringInv, NEW c \in SyncCaller, caller[c].pc = "returned", event # "signal"
               PROVE  caller[c].ret \in {<<c, caller[c].n>>, SqeError, SubmitError}
    BY DEF SyncResult
  <2>1. Current(c) \in accepted /\ Current(c)[1] = c /\ ~InCall(c)
    BY DEF UringInv, Results, Issuing, Current, InCall
  <2>2. done[Current(c)] = 1
    BY <2>1 DEF UringInv, Results
  <2> QED BY <2>1, <2>2 DEF UringInv, Results, Current
<1> QED BY <1>1, UringHolds, PTL

\* An idle eventfd is empty and nobody's; an idle context is in no ring.
THEOREM IdleIsFreeHolds == Spec => []IdleIsFree
<1>1. UringInv => IdleIsFree
  <2> SUFFICES ASSUME UringInv PROVE IdleIsFree
    OBVIOUS
  <2> USE DEF UringInv
  <2>1. ASSUME event # "signal", NEW x \in Range(fdPool)
        PROVE  fdVal[x] = 0 /\ \A c \in SyncCaller : InCall(c) => caller[c].fd # x
    <3>1. x \in Fd
      BY <2>1 DEF UringTypeOK, Range
    <3>2. \A c \in SyncCaller : InCall(c) => caller[c].fd # x
      BY <2>1 DEF Eventfds
    <3> QED BY <3>1, <3>2, <2>1 DEF Eventfds
  <2>2. ASSUME event # "submit"
        PROVE  /\ IsInjective(ctxPool)
               /\ Range(ctxPool) \cap (kernel \cup Range(sq) \cup Range(cq)) = {}
    <3>1. Live /\ Len(sq) = Total
      BY <2>2 DEF Ring
    <3>2. Range(sq) \subseteq Range(wk.batch) \cup (IF wk.sqe = 1 THEN {Notifier} ELSE {})
      <4> HIDE DEF UringInv
      <4> QED BY <3>1, RingContents
    <3>3. Range(ctxPool) \subseteq Context /\ Notifier \notin Context
      BY UringAssumption DEF UringTypeOK, Range, Context
    <3> QED BY <3>1, <3>2, <3>3 DEF Contexts
  <2> QED BY <2>1, <2>2 DEF IdleIsFree
<1> QED BY <1>1, UringHolds, PTL

\* uncompleted counts what the kernel has not completed or nobody has reaped,
\* and that always fits the completion ring.
THEOREM CompletionsFitHolds == Spec => []CompletionsFit
<1>1. UringInv => CompletionsFit
  BY DEF UringInv, Counts, CompletionsFit, Live
<1> QED BY <1>1, UringHolds, PTL

=============================================================================
