-------------------------- MODULE WorkerPoolProofs --------------------------
(***************************************************************************)
(* The worker and its queue implement the bounded bag, for any number of   *)
(* feeders, any size of the ring and any number of calls.                  *)
(*                                                                         *)
(* The copies of head and tail in the registers may be stale, but the      *)
(* words only grow: a stale tail makes the ring look fuller than it is,    *)
(* and never emptier.  Positions do not identify items: a feeder that      *)
(* waits for a slot may be overtaken by the one that claimed the position  *)
(* a whole ring later.  So the invariant counts positions on one side and  *)
(* follows each item on the other, without relating the two by slot.       *)
(***************************************************************************)
EXTENDS WorkerPool, FiniteSetTheorems, TLAPS

Before == {"enqHead", "enqTail", "enqClaim"}   \* an item without a position
Placing == {"enqTake", "enqFill"}              \* an item with one, not in its slot
FeederPc == {"idle", "enqFull", "enqOk", "notify"} \cup Before \cup Placing
WorkerPc == {"idle", "top", "deqHead", "deqTail", "deqClaim", "deqTake", "deqEmpty",
             "deqOk", "sub", "exited"}

PoolTypeOK ==
    /\ head \in Nat /\ tail \in Nat
    /\ slot \in [0 .. Size - 1 ->
                   [flag : {"NULL", "SETTOOK", "SETED"}, data : Item \cup {NoItem}]]
    /\ reg \in [Thread -> [pc : FeederPc \cup WorkerPc, h : Nat, t : Nat,
                           item : Item \cup {NoItem}]]
    /\ \A f \in Feeder : reg[f].pc \in FeederPc
    /\ reg[Worker].pc \in WorkerPc
    /\ calls \in [Feeder -> 0 .. MaxWork]
    /\ accepted \in SUBSET Item /\ handled \in SUBSET accepted
    /\ sawEmpty \in BOOLEAN

\* The worker has claimed a position whose item it has not handled.
Fetching == reg[Worker].pc \in {"deqTake", "deqOk"}

\* Positions are counted by the items accepted and handled.
Counted ==
    /\ head = Cardinality(accepted)
    /\ tail = Cardinality(handled) + (IF Fetching THEN 1 ELSE 0)
    /\ tail <= head /\ head <= tail + Size

\* A copy of tail in Enqueue is not ahead of tail.
FeederCopies == \A f \in Feeder : reg[f].pc = "enqClaim" => reg[f].t <= tail

\* The worker's copy of tail is right, and its copy of head is not ahead of head;
\* if that copy says empty then the queue was.
WorkerCopies ==
    /\ reg[Worker].pc \in {"deqTail", "deqClaim"} =>
          reg[Worker].h <= head /\ (reg[Worker].h <= tail => sawEmpty)
    /\ reg[Worker].pc = "deqClaim" => reg[Worker].t = tail
    /\ reg[Worker].pc = "deqEmpty" => sawEmpty

\* What a feeder carries is its latest item, accepted once it has a position.
Carried ==
    /\ \A f \in Feeder : reg[f].pc \in Before \cup Placing =>
          calls[f] > 0 /\ reg[f].item = <<f, calls[f]>>
    /\ \A f \in Feeder : reg[f].pc \in Before => <<f, calls[f]>> \notin accepted
    /\ \A f \in Feeder : reg[f].pc \in Placing => reg[f].item \in accepted \ handled
    /\ \A f \in Feeder, n \in 1 .. MaxWork : <<f, n>> \in accepted => n <= calls[f]

Full(s) == slot[s].flag = "SETED"

\* An item is in one place only: with a feeder, in a slot, or with the worker.
OnePlace ==
    /\ \A s \in 0 .. Size - 1 : Full(s) =>
          /\ slot[s].data \in accepted \ handled
          /\ \A f \in Feeder : reg[f].pc \in Placing => reg[f].item # slot[s].data
          /\ \A r \in 0 .. Size - 1 : Full(r) /\ r # s => slot[r].data # slot[s].data
    /\ reg[Worker].pc = "deqOk" =>
          /\ reg[Worker].item \in accepted \ handled
          /\ \A f \in Feeder : reg[f].pc \in Placing => reg[f].item # reg[Worker].item
          /\ \A s \in 0 .. Size - 1 : Full(s) => slot[s].data # reg[Worker].item

PoolInv ==
    PoolAssumption /\ PoolTypeOK /\ Counted /\ FeederCopies /\ WorkerCopies /\ Carried
    /\ OnePlace

-----------------------------------------------------------------------------
\* Items are finitely many, and fewer than a word counts.
LEMMA ItemsCounted ==
    ASSUME PoolAssumption
    PROVE  IsFiniteSet(Item) /\ Cardinality(Item) \in Nat /\ Cardinality(Item) < Word
<1>1. IsFiniteSet(1 .. MaxWork) /\ Cardinality(1 .. MaxWork) = MaxWork
  BY FS_Interval DEF PoolAssumption
<1>2. IsFiniteSet(Item) /\ Cardinality(Item) = Cardinality(Feeder) * MaxWork
  BY <1>1, FS_Product DEF PoolAssumption
<1> QED BY <1>2, FS_CardinalityType DEF PoolAssumption

\* The items of a set are finitely many; one more item is one more, within a word.
LEMMA OneMoreItem ==
    ASSUME PoolAssumption, NEW S \in SUBSET Item, NEW i \in Item, i \notin S
    PROVE  /\ IsFiniteSet(S) /\ Cardinality(S) \in Nat
           /\ Cardinality(S \cup {i}) = Cardinality(S) + 1
           /\ Cardinality(S) + 1 < Word
<1>1. IsFiniteSet(Item) /\ Cardinality(Item) < Word
  BY ItemsCounted
<1>2. IsFiniteSet(S) /\ Cardinality(S) \in Nat
  BY <1>1, FS_Subset, FS_CardinalityType
<1>3. Cardinality(S \cup {i}) = Cardinality(S) + 1
  BY <1>2, FS_AddElement
<1>4. Cardinality(S \cup {i}) <= Cardinality(Item)
  BY <1>1, FS_Subset
<1>5. Cardinality(Item) \in Nat /\ Word \in Nat
  BY ItemsCounted DEF PoolAssumption
<1> QED BY <1>1, <1>2, <1>3, <1>4, <1>5

\* The history of an empty queue, which every step keeps.
Sees == sawEmpty' = (head' = tail' \/ (sawEmpty /\ reg'[Worker].pc # "deqHead"))

\* The initial state.
LEMMA InitPool == ASSUME PoolAssumption, Init PROVE PoolInv
<1>1. PoolTypeOK
  BY DEF PoolTypeOK, PoolAssumption, Init, QueueInit, At, FeederPc, WorkerPc
<1>2. Counted
  BY FS_EmptySet DEF Counted, PoolAssumption, Init, QueueInit, At, Fetching
<1>3. FeederCopies /\ WorkerCopies /\ Carried /\ OnePlace
  BY DEF FeederCopies, WorkerCopies, Carried, OnePlace, Full, PoolAssumption, Init,
     QueueInit, At, Before, Placing
<1> QED BY <1>1, <1>2, <1>3 DEF PoolInv

\* A position is claimed only if there is room: the copy of tail is not ahead.
LEMMA ClaimHasRoom ==
    ASSUME PoolInv, NEW f \in Feeder, EnqClaim(f)
    PROVE  head < tail + Size /\ reg[f].item \in Item \ accepted
<1>1. /\ reg[f].t <= tail /\ reg[f].h = head /\ reg[f].t \in Nat
      /\ Size > reg[f].h - reg[f].t
  BY DEF PoolInv, PoolTypeOK, PoolAssumption, FeederCopies, EnqClaim, HasRoom
<1>2. head < tail + Size
  BY <1>1 DEF PoolInv, PoolTypeOK, PoolAssumption
<1>3. reg[f].item = <<f, calls[f]>> /\ reg[f].item \notin accepted
  BY DEF PoolInv, Carried, Before, EnqClaim
<1>4. calls[f] \in 1 .. MaxWork
  BY DEF PoolInv, PoolTypeOK, PoolAssumption, Carried, Before, EnqClaim
<1>5. <<f, calls[f]>> \in Item
  BY <1>4 DEF PoolInv, PoolAssumption
<1> QED BY <1>2, <1>3, <1>5

\* A step of a feeder that changes its own registers, and perhaps begins a call,
\* but no position, slot or item.
Prepares(f) ==
    /\ UNCHANGED <<head, tail, slot, accepted, handled>>
    /\ \E r \in [pc : FeederPc \ Placing, h : Nat, t : Nat, item : Item \cup {NoItem}] :
         /\ reg' = [reg EXCEPT ![f] = r]
         /\ r.pc = "enqClaim" => r.t <= tail
         /\ r.pc \in Before =>
               /\ calls'[f] > 0 /\ r.item = <<f, calls'[f]>>
               /\ <<f, calls'[f]>> \notin accepted
    /\ calls' = calls \/ (calls[f] < MaxWork /\ calls' = [calls EXCEPT ![f] = @ + 1])
    /\ reg[f].pc \notin Placing

\* Such a step keeps the invariant.
LEMMA PreparesKeep ==
    ASSUME PoolInv, Sees, NEW f \in Feeder, Prepares(f)
    PROVE  PoolInv'
<1> USE DEF PoolInv, PoolAssumption
<1>1. PICK r \in [pc : FeederPc \ Placing, h : Nat, t : Nat, item : Item \cup {NoItem}] :
         /\ reg' = [reg EXCEPT ![f] = r]
         /\ r.pc = "enqClaim" => r.t <= tail
         /\ r.pc \in Before =>
               /\ calls'[f] > 0 /\ r.item = <<f, calls'[f]>>
               /\ <<f, calls'[f]>> \notin accepted
  BY DEF Prepares
<1>2. /\ reg'[Worker] = reg[Worker] /\ reg'[f] = r
      /\ \A g \in Feeder : g # f => reg'[g] = reg[g]
  BY <1>1 DEF PoolTypeOK
<1>3. UNCHANGED <<head, tail, slot, accepted, handled>>
  BY DEF Prepares
<1>4. calls' \in [Feeder -> 0 .. MaxWork] /\ \A g \in Feeder : calls'[g] >= calls[g]
                                          /\ (g # f => calls'[g] = calls[g])
  BY SMTT(30) DEF Prepares, PoolTypeOK
<1>5. PoolTypeOK'
  BY <1>1, <1>2, <1>3, <1>4 DEF PoolTypeOK, Sees
<1>6. Counted'
  BY <1>2, <1>3 DEF Counted, Fetching
<1>7. FeederCopies'
  BY <1>1, <1>2, <1>3 DEF FeederCopies
<1>8. WorkerCopies'
  BY <1>2, <1>3 DEF WorkerCopies, Sees
<1>9. Carried'
  <2>1. r.pc \notin Placing
    OBVIOUS
  <2>2. \A g \in Feeder, n \in 1 .. MaxWork : <<g, n>> \in accepted' => n <= calls'[g]
    BY <1>3, <1>4 DEF Carried, PoolTypeOK
  <2> QED BY <1>1, <1>2, <1>3, <1>4, <2>1, <2>2 DEF Carried
<1>10. OnePlace'
  BY <1>1, <1>2, <1>3 DEF OnePlace, Full
<1> QED BY <1>5, <1>6, <1>7, <1>8, <1>9, <1>10

\* The calls of AddWork that do not touch the ring, the reads of Enqueue and its
\* branch for an overflow of head, which moves nothing.
LEMMA FeederPrepares ==
    ASSUME PoolInv, NEW f \in Feeder,
           \/ AddWork(f) \/ AddFull(f) \/ AddPending(f) \/ AddNotify(f)
           \/ (EnqReadHead(f) \/ EnqReadTail(f) \/ EnqRetry(f) \/ EnqFull(f) \/ EnqRepair(f))
                /\ UNCHANGED poolVars
    PROVE  Prepares(f)
<1> USE DEF PoolInv, PoolAssumption
<1> DEFINE R == [pc : FeederPc \ Placing, h : Nat, t : Nat, item : Item \cup {NoItem}]
<1>0. /\ reg[f] \in [pc : FeederPc \cup WorkerPc, h : Nat, t : Nat, item : Item \cup {NoItem}]
      /\ calls[f] \in 0 .. MaxWork /\ head \in Nat /\ tail \in Nat
  BY DEF PoolTypeOK
<1>1. CASE AddWork(f)
  <2>1. calls' = [calls EXCEPT ![f] = @ + 1] /\ calls[f] < MaxWork /\ calls'[f] = calls[f] + 1
    BY <1>1 DEF AddWork, PoolTypeOK
  <2>2. <<f, calls[f] + 1>> \in Item /\ <<f, calls[f] + 1>> \notin accepted
    BY <1>0, <2>1 DEF Carried
  <2>3. CASE status = 1
    <3>1. At("enqHead", <<f, calls[f] + 1>>) \in R
      BY <2>2 DEF At, FeederPc, Before, Placing
    <3>2. reg' = [reg EXCEPT ![f] = At("enqHead", <<f, calls[f] + 1>>)]
      BY <1>1, <2>3 DEF AddWork
    <3>3. At("enqHead", <<f, calls[f] + 1>>).item = <<f, calls'[f]>> /\ calls'[f] > 0
      BY <1>0, <2>1 DEF At
    <3>4. UNCHANGED <<head, tail, slot, accepted, handled>> /\ reg[f].pc \notin Placing
      BY <1>1 DEF AddWork, Placing
    <3>5. At("enqHead", <<f, calls[f] + 1>>).pc # "enqClaim"
      BY DEF At
    <3> HIDE DEF PoolInv, PoolAssumption
    <3> QED BY <2>1, <2>2, <3>1, <3>2, <3>3, <3>4, <3>5 DEF Prepares
  <2>4. CASE status # 1
    <3>1. reg' = [reg EXCEPT ![f] = reg[f]] /\ reg[f].pc = "idle"
      BY <1>1, <2>4 DEF AddWork, PoolTypeOK
    <3>2. reg[f] \in R
      BY <1>0, <3>1 DEF FeederPc, Placing, Before
    <3> QED BY <1>1, <2>1, <3>1, <3>2 DEF Prepares, AddWork, Before, Placing
  <2> QED BY <2>3, <2>4
<1>2. CASE AddFull(f)
  <2>1. At("idle", NoItem) \in R
    BY DEF At, FeederPc, Placing, Before
  <2> QED BY <1>2, <2>1 DEF Prepares, AddFull, poolVars, At, Before, Placing
<1>3. CASE AddPending(f)
  <2>1. At("idle", NoItem) \in R /\ At("notify", NoItem) \in R
    BY DEF At, FeederPc, Placing, Before
  <2> QED BY <1>3, <2>1 DEF Prepares, AddPending, At, Before, Placing
<1>4. CASE AddNotify(f)
  <2>1. At("idle", NoItem) \in R
    BY DEF At, FeederPc, Placing, Before
  <2> QED BY <1>4, <2>1 DEF Prepares, AddNotify, At, Before, Placing
<1>5. CASE EnqReadHead(f) /\ UNCHANGED poolVars
  <2> DEFINE r == [reg[f] EXCEPT !.pc = "enqTail", !.h = head]
  <2>1. r \in R /\ r.pc = "enqTail" /\ r.item = reg[f].item
    BY <1>0 DEF FeederPc, Placing, Before
  <2>2. reg' = [reg EXCEPT ![f] = r] /\ reg[f].pc = "enqHead"
    BY <1>5 DEF EnqReadHead, PoolTypeOK
  <2> QED BY <1>5, <2>1, <2>2 DEF Prepares, EnqReadHead, poolVars, Before, Placing, Carried
<1>6. CASE EnqReadTail(f) /\ UNCHANGED poolVars
  <2> DEFINE r == [reg[f] EXCEPT !.pc = "enqClaim", !.t = tail]
  <2>1. r \in R /\ r.pc = "enqClaim" /\ r.item = reg[f].item /\ r.t = tail
    BY <1>0 DEF FeederPc, Placing, Before
  <2>2. reg' = [reg EXCEPT ![f] = r] /\ reg[f].pc = "enqTail"
    BY <1>6 DEF EnqReadTail, PoolTypeOK
  <2>3. UNCHANGED <<head, tail, slot, accepted, handled, calls>>
    BY <1>6 DEF EnqReadTail, poolVars
  <2>4. /\ reg[f].pc \notin Placing /\ r.t <= tail
        /\ calls'[f] > 0 /\ r.item = <<f, calls'[f]>> /\ <<f, calls'[f]>> \notin accepted
    BY <1>0, <2>1, <2>2, <2>3 DEF Carried, Before, Placing
  <2> HIDE DEF r, PoolInv, PoolAssumption
  <2> QED BY <2>1, <2>2, <2>3, <2>4 DEF Prepares
<1>7. CASE EnqRetry(f) /\ UNCHANGED poolVars
  <2>1. At("enqHead", reg[f].item) \in R
    BY <1>0 DEF At, FeederPc, Placing, Before
  <2>2. reg' = [reg EXCEPT ![f] = At("enqHead", reg[f].item)] /\ reg[f].pc = "enqClaim"
    BY <1>7 DEF EnqRetry, PoolTypeOK
  <2> QED BY <1>7, <2>1, <2>2 DEF Prepares, EnqRetry, poolVars, At, Before, Placing, Carried
<1>8. CASE EnqFull(f) /\ UNCHANGED poolVars
  <2>1. At("enqFull", reg[f].item) \in R
    BY <1>0 DEF At, FeederPc, Placing, Before
  <2>2. reg' = [reg EXCEPT ![f] = At("enqFull", reg[f].item)] /\ reg[f].pc = "enqClaim"
    BY <1>8 DEF EnqFull, PoolTypeOK
  <2> QED BY <1>8, <2>1, <2>2 DEF Prepares, EnqFull, poolVars, At, Before, Placing
<1>9. CASE EnqRepair(f) /\ UNCHANGED poolVars
  <2>1. At("enqHead", reg[f].item) \in R
    BY <1>0 DEF At, FeederPc, Placing, Before
  <2>2. reg' = [reg EXCEPT ![f] = At("enqHead", reg[f].item)] /\ reg[f].pc = "enqClaim"
    BY <1>9 DEF EnqRepair, PoolTypeOK
  <2>3. head # reg[f].h
    BY <1>0, <1>9, <2>2 DEF EnqRepair, FeederCopies, Counted
  <2>4. UNCHANGED <<head, tail, slot, accepted, handled, calls>>
    BY <1>9, <2>3 DEF EnqRepair, poolVars
  <2> QED BY <2>1, <2>2, <2>4 DEF Prepares, At, Before, Placing, Carried
<1> QED BY <1>1, <1>2, <1>3, <1>4, <1>5, <1>6, <1>7, <1>8, <1>9

\* A position is claimed: one more is accepted, and it was nowhere before.
LEMMA ClaimKeeps ==
    ASSUME PoolInv, Sees, NEW f \in Feeder, AddClaim(f)
    PROVE  PoolInv'
<1> USE DEF PoolInv, PoolAssumption
<1> DEFINE i == reg[f].item
<1>1. head < tail + Size /\ i \in Item \ accepted
  BY ClaimHasRoom DEF AddClaim
<1>2. /\ Cardinality(accepted \cup {i}) = Cardinality(accepted) + 1
      /\ Cardinality(accepted) + 1 < Word
  BY <1>1, OneMoreItem DEF PoolTypeOK
<1>3. head' = head + 1 /\ accepted' = accepted \cup {i}
  <2>1. head + 1 < Word /\ head + 1 \in Nat
    BY <1>2 DEF Counted, PoolTypeOK
  <2>2. (head + 1) % Word = head + 1
    BY <2>1
  <2> QED BY <2>2 DEF AddClaim, EnqClaim
<1>4. /\ reg[f].pc = "enqClaim" /\ reg' = [reg EXCEPT ![f] = [@ EXCEPT !.pc = "enqTake", !.t = 0]]
      /\ UNCHANGED <<tail, slot, calls, handled>>
  BY DEF AddClaim, EnqClaim, PoolTypeOK
<1>5. /\ reg'[Worker] = reg[Worker] /\ reg'[f].pc = "enqTake" /\ reg'[f].item = i
      /\ \A g \in Feeder : g # f => reg'[g] = reg[g]
  BY <1>4 DEF PoolTypeOK
<1>6. i = <<f, calls[f]>> /\ calls[f] \in 1 .. MaxWork
  BY <1>4 DEF Carried, PoolTypeOK, Before
<1>7. PoolTypeOK'
  <2>1. reg' \in [Thread -> [pc : FeederPc \cup WorkerPc, h : Nat, t : Nat,
                             item : Item \cup {NoItem}]]
    <3>1. "enqTake" \in FeederPc
      BY DEF FeederPc, Placing
    <3>2. reg[f] \in [pc : FeederPc \cup WorkerPc, h : Nat, t : Nat, item : Item \cup {NoItem}]
      BY DEF PoolTypeOK
    <3>3. [reg[f] EXCEPT !.pc = "enqTake", !.t = 0] \in
             [pc : FeederPc \cup WorkerPc, h : Nat, t : Nat, item : Item \cup {NoItem}]
      BY <3>1, <3>2
    <3> QED BY <1>4, <3>3 DEF PoolTypeOK
  <2>2. \A g \in Feeder : reg'[g].pc \in FeederPc
    BY <1>5 DEF PoolTypeOK, FeederPc, Placing
  <2>3. head' \in Nat /\ accepted' \in SUBSET Item /\ handled' \in SUBSET accepted'
    <3>1. head + 1 \in Nat /\ accepted \cup {i} \in SUBSET Item
      BY <1>1 DEF PoolTypeOK
    <3> QED BY <1>3, <1>4, <3>1 DEF PoolTypeOK
  <2>4. reg'[Worker].pc \in WorkerPc /\ sawEmpty' \in BOOLEAN
    BY <1>5 DEF PoolTypeOK, Sees
  <2> QED BY <1>4, <2>1, <2>2, <2>3, <2>4 DEF PoolTypeOK
<1>8. Counted'
  <2>1. tail' = tail /\ handled' = handled /\ (Fetching' <=> Fetching)
    BY <1>4, <1>5 DEF Fetching
  <2>2. head' = Cardinality(accepted')
    BY <1>2, <1>3 DEF Counted
  <2>3. tail <= head + 1 /\ head + 1 <= tail + Size
    BY <1>1, SMTT(30) DEF Counted, PoolTypeOK
  <2> QED BY <1>3, <2>1, <2>2, <2>3 DEF Counted
<1>9. FeederCopies'
  BY <1>4, <1>5 DEF FeederCopies
<1>10. WorkerCopies'
  <2>1. head <= head' /\ (sawEmpty /\ reg[Worker].pc # "deqHead" => sawEmpty')
    BY <1>3, <1>5 DEF Sees, PoolTypeOK
  <2>2. reg[Worker].pc \in {"deqTail", "deqClaim"} => reg[Worker].h <= head'
    BY <2>1, <1>3 DEF WorkerCopies, PoolTypeOK
  <2> QED BY <1>4, <1>5, <2>1, <2>2 DEF WorkerCopies
<1>11. Carried'
  <2>1. \A g \in Feeder : reg'[g].pc \in Before => <<g, calls'[g]>> \notin accepted'
    BY <1>3, <1>4, <1>5, <1>6 DEF Carried, Before
  <2>2. \A g \in Feeder : reg'[g].pc \in Placing => reg'[g].item \in accepted' \ handled'
    BY <1>1, <1>3, <1>4, <1>5, SMTT(30) DEF Carried, PoolTypeOK
  <2>3. \A g \in Feeder, n \in 1 .. MaxWork : <<g, n>> \in accepted' => n <= calls'[g]
    BY <1>3, <1>4, <1>6 DEF Carried
  <2>4. \A g \in Feeder : reg'[g].pc \in Before \cup Placing =>
           calls'[g] > 0 /\ reg'[g].item = <<g, calls'[g]>>
    BY <1>4, <1>5, <1>6 DEF Carried
  <2> QED BY <2>1, <2>2, <2>3, <2>4 DEF Carried
<1>12. OnePlace'
  <2>1. \A s \in 0 .. Size - 1 : Full(s)' => Full(s) /\ slot'[s].data = slot[s].data
    BY <1>4 DEF Full
  <2>2. \A s \in 0 .. Size - 1 : Full(s)' =>
           /\ slot'[s].data \in accepted' \ handled'
           /\ \A g \in Feeder : reg'[g].pc \in Placing => reg'[g].item # slot'[s].data
    BY <1>1, <1>3, <1>4, <1>5, <2>1 DEF OnePlace
  <2>3. reg'[Worker].pc = "deqOk" =>
           /\ reg'[Worker].item \in accepted' \ handled'
           /\ \A g \in Feeder : reg'[g].pc \in Placing => reg'[g].item # reg'[Worker].item
    BY <1>1, <1>3, <1>4, <1>5 DEF OnePlace
  <2> QED BY <1>4, <1>5, <2>1, <2>2, <2>3 DEF OnePlace
<1> QED BY <1>7, <1>8, <1>9, <1>10, <1>11, <1>12

\* A slot is taken for a claimed position.
LEMMA TakeKeeps ==
    ASSUME PoolInv, Sees, NEW f \in Feeder, EnqTake(f), UNCHANGED poolVars
    PROVE  PoolInv'
<1> USE DEF PoolInv, PoolAssumption
<1> DEFINE pos == reg[f].h % Size
<1>1. /\ reg[f].pc = "enqTake" /\ reg' = [reg EXCEPT ![f] = [@ EXCEPT !.pc = "enqFill"]]
      /\ UNCHANGED <<head, tail, calls, accepted, handled>>
      /\ slot' = [slot EXCEPT ![pos] = [@ EXCEPT !.flag = "SETTOOK"]]
  BY DEF EnqTake, PoolTypeOK, poolVars
<1>2. /\ reg'[Worker] = reg[Worker] /\ reg'[f].pc = "enqFill" /\ reg'[f].item = reg[f].item
      /\ \A g \in Feeder : g # f => reg'[g] = reg[g]
  BY <1>1 DEF PoolTypeOK
<1>3. pos \in 0 .. Size - 1
  BY DEF PoolTypeOK
<1>4. \A s \in 0 .. Size - 1 : Full(s)' => Full(s) /\ slot'[s].data = slot[s].data
  BY <1>1, <1>3 DEF Full, PoolTypeOK
<1>5. \A g \in Feeder : /\ reg'[g].item = reg[g].item
                        /\ reg'[g].pc \in Placing <=> reg[g].pc \in Placing
                        /\ reg'[g].pc \in Before <=> reg[g].pc \in Before
  BY <1>1, <1>2 DEF Placing, Before
<1>6. PoolTypeOK'
  <2>1. reg' \in [Thread -> [pc : FeederPc \cup WorkerPc, h : Nat, t : Nat,
                             item : Item \cup {NoItem}]]
    <3>1. "enqFill" \in FeederPc
      BY DEF FeederPc, Placing
    <3>2. reg[f] \in [pc : FeederPc \cup WorkerPc, h : Nat, t : Nat, item : Item \cup {NoItem}]
      BY DEF PoolTypeOK
    <3>3. [reg[f] EXCEPT !.pc = "enqFill"] \in
             [pc : FeederPc \cup WorkerPc, h : Nat, t : Nat, item : Item \cup {NoItem}]
      BY <3>1, <3>2
    <3> QED BY <1>1, <3>3 DEF PoolTypeOK
  <2>2. \A g \in Feeder : reg'[g].pc \in FeederPc
    BY <1>2 DEF PoolTypeOK, FeederPc, Placing
  <2>3. slot' \in [0 .. Size - 1 -> [flag : {"NULL", "SETTOOK", "SETED"}, data : Item \cup {NoItem}]]
    <3>1. slot[pos] \in [flag : {"NULL", "SETTOOK", "SETED"}, data : Item \cup {NoItem}]
      BY <1>3 DEF PoolTypeOK
    <3>2. [slot[pos] EXCEPT !.flag = "SETTOOK"] \in
             [flag : {"NULL", "SETTOOK", "SETED"}, data : Item \cup {NoItem}]
      BY <3>1
    <3> QED BY <1>1, <3>2 DEF PoolTypeOK
  <2> QED BY <1>1, <1>2, <2>1, <2>2, <2>3 DEF PoolTypeOK, Sees
<1>7. Counted' /\ FeederCopies' /\ WorkerCopies'
  BY <1>1, <1>2 DEF Counted, Fetching, FeederCopies, WorkerCopies, Sees
<1>8. Carried'
  BY <1>1, <1>5 DEF Carried
<1>9. OnePlace'
  BY <1>1, <1>2, <1>4, <1>5 DEF OnePlace
<1> QED BY <1>6, <1>7, <1>8, <1>9

\* The item moves from the feeder to the slot.
LEMMA FillKeeps ==
    ASSUME PoolInv, Sees, NEW f \in Feeder, EnqFill(f), UNCHANGED poolVars
    PROVE  PoolInv'
<1> USE DEF PoolInv, PoolAssumption
<1> DEFINE pos == reg[f].h % Size
           i == reg[f].item
<1>1. /\ reg[f].pc = "enqFill" /\ reg' = [reg EXCEPT ![f] = At("enqOk", NoItem)]
      /\ UNCHANGED <<head, tail, calls, accepted, handled>>
      /\ slot' = [slot EXCEPT ![pos] = [flag |-> "SETED", data |-> i]]
  BY DEF EnqFill, PoolTypeOK, poolVars
<1>2. /\ reg'[Worker] = reg[Worker] /\ reg'[f].pc = "enqOk"
      /\ \A g \in Feeder : g # f => reg'[g] = reg[g]
  BY <1>1 DEF PoolTypeOK, At
<1>3. pos \in 0 .. Size - 1 /\ slot'[pos].data = i
      /\ \A s \in 0 .. Size - 1 : s # pos => slot'[s] = slot[s]
  <2>1. pos \in 0 .. Size - 1
    BY DEF PoolTypeOK
  <2> QED BY <1>1, <2>1 DEF PoolTypeOK
<1>4. i \in accepted \ handled /\ i = <<f, calls[f]>>
  BY <1>1 DEF Carried, Placing
<1>5. \A g \in Feeder : /\ reg'[g].pc \in Placing => g # f /\ reg[g].pc \in Placing /\ reg'[g] = reg[g]
                        /\ reg'[g].pc \in Before => g # f /\ reg[g].pc \in Before /\ reg'[g] = reg[g]
  BY <1>2 DEF Placing, Before
<1>6. \A g \in Feeder : reg'[g].pc \in Placing => reg'[g].item # i
  BY <1>4, <1>5 DEF Carried
<1>7. PoolTypeOK'
  <2>1. At("enqOk", NoItem) \in [pc : FeederPc \cup WorkerPc, h : Nat, t : Nat, item : Item \cup {NoItem}]
    BY DEF At, FeederPc
  <2>2. reg' \in [Thread -> [pc : FeederPc \cup WorkerPc, h : Nat, t : Nat,
                             item : Item \cup {NoItem}]]
    BY <1>1, <2>1 DEF PoolTypeOK
  <2>3. \A g \in Feeder : reg'[g].pc \in FeederPc
    BY <1>2 DEF PoolTypeOK, FeederPc
  <2>4. slot' \in [0 .. Size - 1 -> [flag : {"NULL", "SETTOOK", "SETED"}, data : Item \cup {NoItem}]]
    BY <1>1, <1>3, <1>4 DEF PoolTypeOK
  <2> QED BY <1>1, <1>2, <2>2, <2>3, <2>4 DEF PoolTypeOK, Sees
<1>8. Counted' /\ FeederCopies' /\ WorkerCopies'
  BY <1>1, <1>2 DEF Counted, Fetching, FeederCopies, WorkerCopies, Sees
<1>9. Carried'
  BY <1>1, <1>5 DEF Carried
<1>10. OnePlace'
  <2>1. \A s \in 0 .. Size - 1 : s # pos => (Full(s)' <=> Full(s)) /\ slot'[s].data = slot[s].data
    BY <1>3 DEF Full
  <2>2. \A s \in 0 .. Size - 1 : Full(s) => slot[s].data # i
    BY <1>1 DEF OnePlace, Placing
  <2>3. ASSUME NEW s \in 0 .. Size - 1, Full(s)'
        PROVE  /\ slot'[s].data \in accepted' \ handled'
               /\ \A g \in Feeder : reg'[g].pc \in Placing => reg'[g].item # slot'[s].data
    BY <1>1, <1>3, <1>4, <1>5, <1>6, <2>1, <2>3 DEF OnePlace
  <2>4. ASSUME NEW s \in 0 .. Size - 1, NEW r \in 0 .. Size - 1, Full(s)', Full(r)', r # s
        PROVE  slot'[r].data # slot'[s].data
    BY <1>3, <2>1, <2>2, <2>4 DEF OnePlace
  <2>5. reg[Worker].pc = "deqOk" => reg[Worker].item # i
    BY <1>1 DEF OnePlace, Placing
  <2>6. ASSUME reg'[Worker].pc = "deqOk"
        PROVE  /\ reg'[Worker].item \in accepted' \ handled'
               /\ \A g \in Feeder : reg'[g].pc \in Placing => reg'[g].item # reg'[Worker].item
               /\ \A s \in 0 .. Size - 1 : Full(s)' => slot'[s].data # reg'[Worker].item
    BY <1>1, <1>2, <1>3, <1>5, <2>1, <2>5, <2>6 DEF OnePlace
  <2> QED BY <2>3, <2>4, <2>6 DEF OnePlace
<1> QED BY <1>7, <1>8, <1>9, <1>10

\* A step of the worker that changes its own registers, holding no item before
\* or after.
Looks ==
    /\ UNCHANGED <<head, tail, slot, accepted, handled, calls>>
    /\ \E r \in [pc : WorkerPc \ {"deqTake", "deqOk"}, h : Nat, t : Nat,
                 item : Item \cup {NoItem}] :
         /\ reg' = [reg EXCEPT ![Worker] = r]
         /\ r.pc \in {"deqTail", "deqClaim"} =>
               r.h <= head /\ (r.h <= tail => head = tail \/ sawEmpty)
         /\ r.pc = "deqClaim" => r.t = tail
         /\ r.pc = "deqEmpty" => sawEmpty
    /\ ~Fetching

\* Such a step keeps the invariant.
LEMMA LooksKeep == ASSUME PoolInv, Sees, Looks PROVE PoolInv'
<1> USE DEF PoolInv, PoolAssumption
<1>1. PICK r \in [pc : WorkerPc \ {"deqTake", "deqOk"}, h : Nat, t : Nat,
                  item : Item \cup {NoItem}] :
         /\ reg' = [reg EXCEPT ![Worker] = r]
         /\ r.pc \in {"deqTail", "deqClaim"} =>
               r.h <= head /\ (r.h <= tail => head = tail \/ sawEmpty)
         /\ r.pc = "deqClaim" => r.t = tail
         /\ r.pc = "deqEmpty" => sawEmpty
  BY DEF Looks
<1>2. reg'[Worker] = r /\ \A g \in Feeder : reg'[g] = reg[g]
  BY <1>1 DEF PoolTypeOK
<1>3. UNCHANGED <<head, tail, slot, accepted, handled, calls>> /\ ~Fetching
  BY DEF Looks
<1>4. PoolTypeOK'
  <2>1. r \in [pc : FeederPc \cup WorkerPc, h : Nat, t : Nat, item : Item \cup {NoItem}]
    OBVIOUS
  <2>2. reg' \in [Thread -> [pc : FeederPc \cup WorkerPc, h : Nat, t : Nat,
                             item : Item \cup {NoItem}]]
    BY <1>1, <2>1 DEF PoolTypeOK
  <2> QED BY <1>2, <1>3, <2>2 DEF PoolTypeOK, Sees
<1>5. Counted' /\ FeederCopies'
  BY <1>2, <1>3 DEF Counted, Fetching, FeederCopies
<1>6. WorkerCopies'
  BY <1>1, <1>2, <1>3 DEF WorkerCopies, Sees
<1>7. Carried' /\ OnePlace'
  BY <1>2, <1>3 DEF Carried, OnePlace, Full
<1> QED BY <1>4, <1>5, <1>6, <1>7

\* The loop of the worker but for the item it takes, and its calls of Dequeue up
\* to the claim.
LEMMA WorkerLooks ==
    ASSUME PoolInv,
           \/ StartWorker /\ reg[Worker].pc = "idle"
           \/ WorkerTop \/ WorkerWaits \/ WorkerSubtracts
           \/ (DeqReadHead(Worker) \/ DeqReadTail(Worker) \/ DeqEmpty(Worker))
                /\ UNCHANGED poolVars
    PROVE  Looks
<1> USE DEF PoolInv, PoolAssumption
<1> DEFINE R == [pc : WorkerPc \ {"deqTake", "deqOk"}, h : Nat, t : Nat, item : Item \cup {NoItem}]
<1>1. /\ reg[Worker] \in [pc : FeederPc \cup WorkerPc, h : Nat, t : Nat,
                          item : Item \cup {NoItem}]
      /\ head \in Nat /\ tail \in Nat /\ tail <= head
  BY DEF PoolTypeOK, Counted
<1>2. ASSUME NEW pc \in {"top", "deqHead", "deqEmpty", "exited"} PROVE At(pc, NoItem) \in R
  BY DEF At, WorkerPc
<1>3. CASE StartWorker /\ reg[Worker].pc = "idle"
  BY <1>2, <1>3 DEF Looks, StartWorker, At, Fetching
<1>4. CASE WorkerTop
  BY <1>2, <1>4 DEF Looks, WorkerTop, At, Fetching, poolVars
<1>5. CASE WorkerWaits
  BY <1>2, <1>5 DEF Looks, WorkerWaits, At, Fetching
<1>6. CASE WorkerSubtracts
  BY <1>2, <1>6 DEF Looks, WorkerSubtracts, At, Fetching
<1>7. CASE DeqReadHead(Worker) /\ UNCHANGED poolVars
  <2> DEFINE r == [reg[Worker] EXCEPT !.pc = "deqTail", !.h = head]
  <2>1. r \in R /\ r.pc = "deqTail" /\ r.h = head
    BY <1>1 DEF WorkerPc
  <2>2. /\ reg' = [reg EXCEPT ![Worker] = r] /\ reg[Worker].pc = "deqHead"
        /\ UNCHANGED <<head, tail, slot, accepted, handled, calls>>
    BY <1>7 DEF DeqReadHead, PoolTypeOK, poolVars
  <2>3. r.h <= head /\ (r.h <= tail => head = tail)
    BY <1>1, <2>1
  <2> QED BY <2>1, <2>2, <2>3 DEF Looks, Fetching
<1>8. CASE DeqReadTail(Worker) /\ UNCHANGED poolVars
  <2> DEFINE r == [reg[Worker] EXCEPT !.pc = "deqClaim", !.t = tail]
  <2>1. r \in R /\ r.pc = "deqClaim" /\ r.h = reg[Worker].h /\ r.t = tail
    BY <1>1 DEF WorkerPc
  <2>2. /\ reg' = [reg EXCEPT ![Worker] = r] /\ reg[Worker].pc = "deqTail"
        /\ UNCHANGED <<head, tail, slot, accepted, handled, calls>>
    BY <1>8 DEF DeqReadTail, PoolTypeOK, poolVars
  <2>3. r.h <= head /\ (r.h <= tail => sawEmpty)
    BY <2>1, <2>2 DEF WorkerCopies
  <2> QED BY <2>1, <2>2, <2>3 DEF Looks, Fetching
<1>9. CASE DeqEmpty(Worker) /\ UNCHANGED poolVars
  <2>1. /\ reg' = [reg EXCEPT ![Worker] = At("deqEmpty", NoItem)]
        /\ reg[Worker].pc = "deqClaim" /\ reg[Worker].h <= reg[Worker].t
        /\ UNCHANGED <<head, tail, slot, accepted, handled, calls>>
    BY <1>9 DEF DeqEmpty, PoolTypeOK, poolVars
  <2>2. sawEmpty
    BY <2>1 DEF WorkerCopies
  <2> QED BY <1>2, <2>1, <2>2 DEF Looks, Fetching, At
<1> QED BY <1>3, <1>4, <1>5, <1>6, <1>7, <1>8, <1>9

\* The worker claims a position; nobody else does, so the copy of tail is right.
LEMMA DeqClaimKeeps ==
    ASSUME PoolInv, Sees, DeqClaim(Worker), UNCHANGED poolVars
    PROVE  PoolInv'
<1> USE DEF PoolInv, PoolAssumption
<1>1. /\ reg[Worker].pc = "deqClaim" /\ reg[Worker].t = tail /\ tail < reg[Worker].h
      /\ reg[Worker].h <= head /\ head \in Nat /\ tail \in Nat /\ reg[Worker].h \in Nat
  BY DEF DeqClaim, WorkerCopies, PoolTypeOK
<1>2. /\ IsFiniteSet(accepted) /\ head <= Cardinality(Item)
      /\ Cardinality(Item) \in Nat /\ Cardinality(Item) < Word
  <2>1. IsFiniteSet(Item) /\ Cardinality(Item) \in Nat /\ Cardinality(Item) < Word
    BY ItemsCounted
  <2> QED BY <2>1, FS_Subset DEF Counted, PoolTypeOK
<1>3. /\ tail' = tail + 1 /\ tail + 1 <= head
      /\ UNCHANGED <<head, slot, accepted, handled, calls>>
      /\ reg' = [reg EXCEPT ![Worker] = [@ EXCEPT !.pc = "deqTake", !.h = 0]]
  <2>1. (tail + 1) % Word = tail + 1 /\ tail + 1 <= head
    BY <1>1, <1>2
  <2> QED BY <1>1, <2>1 DEF DeqClaim, poolVars, PoolTypeOK
<1>4. reg'[Worker].pc = "deqTake" /\ \A g \in Feeder : reg'[g] = reg[g]
  BY <1>3 DEF PoolTypeOK
<1>5. PoolTypeOK'
  <2>1. [reg[Worker] EXCEPT !.pc = "deqTake", !.h = 0] \in
           [pc : FeederPc \cup WorkerPc, h : Nat, t : Nat, item : Item \cup {NoItem}]
    <3>1. "deqTake" \in WorkerPc
      BY DEF WorkerPc
    <3>2. reg[Worker] \in [pc : FeederPc \cup WorkerPc, h : Nat, t : Nat, item : Item \cup {NoItem}]
      BY DEF PoolTypeOK
    <3> QED BY <3>1, <3>2
  <2>2. reg' \in [Thread -> [pc : FeederPc \cup WorkerPc, h : Nat, t : Nat,
                             item : Item \cup {NoItem}]]
    BY <1>3, <2>1 DEF PoolTypeOK
  <2>3. tail' \in Nat /\ reg'[Worker].pc \in WorkerPc /\ sawEmpty' \in BOOLEAN
    BY <1>1, <1>3, <1>4 DEF PoolTypeOK, Sees, WorkerPc
  <2> QED BY <1>3, <1>4, <2>2, <2>3 DEF PoolTypeOK
<1>6. Counted'
  <2>1. IsFiniteSet(handled) /\ Cardinality(handled) \in Nat
    BY <1>2, FS_Subset, FS_CardinalityType DEF PoolTypeOK
  <2> QED BY <1>1, <1>3, <1>4, <2>1 DEF Counted, Fetching
<1>7. FeederCopies'
  BY <1>1, <1>3, <1>4 DEF FeederCopies, PoolTypeOK
<1>8. WorkerCopies'
  BY <1>4 DEF WorkerCopies
<1>9. Carried' /\ OnePlace'
  BY <1>3, <1>4 DEF Carried, OnePlace, Full
<1> QED BY <1>5, <1>6, <1>7, <1>8, <1>9

\* The item moves from the slot to the worker.
LEMMA DeqTakeKeeps ==
    ASSUME PoolInv, Sees, DeqTake(Worker), UNCHANGED poolVars
    PROVE  PoolInv'
<1> USE DEF PoolInv, PoolAssumption
<1> DEFINE pos == reg[Worker].t % Size
           i == slot[pos].data
<1>1. /\ reg[Worker].pc = "deqTake" /\ reg' = [reg EXCEPT ![Worker] = At("deqOk", i)]
      /\ UNCHANGED <<head, tail, calls, accepted, handled>>
      /\ slot' = [slot EXCEPT ![pos] = [flag |-> "NULL", data |-> NoItem]] /\ Full(pos)
  BY DEF DeqTake, PoolTypeOK, poolVars, Full
<1>2. /\ reg'[Worker].pc = "deqOk" /\ reg'[Worker].item = i
      /\ \A g \in Feeder : reg'[g] = reg[g]
  BY <1>1 DEF PoolTypeOK, At
<1>3. pos \in 0 .. Size - 1
  BY DEF PoolTypeOK
<1>4. \A s \in 0 .. Size - 1 : Full(s)' => s # pos /\ Full(s) /\ slot'[s] = slot[s]
  BY <1>1, <1>3 DEF Full, PoolTypeOK
<1>5. /\ i \in accepted \ handled
      /\ \A g \in Feeder : reg[g].pc \in Placing => reg[g].item # i
  BY <1>1, <1>3 DEF OnePlace
<1>6. PoolTypeOK'
  <2>1. At("deqOk", i) \in [pc : FeederPc \cup WorkerPc, h : Nat, t : Nat, item : Item \cup {NoItem}]
    BY <1>5 DEF At, WorkerPc, PoolTypeOK
  <2>2. reg' \in [Thread -> [pc : FeederPc \cup WorkerPc, h : Nat, t : Nat,
                             item : Item \cup {NoItem}]]
    BY <1>1, <2>1 DEF PoolTypeOK
  <2>3. slot' \in [0 .. Size - 1 -> [flag : {"NULL", "SETTOOK", "SETED"}, data : Item \cup {NoItem}]]
    BY <1>1, <1>3 DEF PoolTypeOK
  <2> QED BY <1>1, <1>2, <2>2, <2>3 DEF PoolTypeOK, WorkerPc, Sees
<1>7. Counted' /\ FeederCopies' /\ WorkerCopies'
  BY <1>1, <1>2 DEF Counted, Fetching, FeederCopies, WorkerCopies
<1>8. Carried'
  BY <1>1, <1>2 DEF Carried
<1>9. OnePlace'
  <2>1. \A s \in 0 .. Size - 1 : Full(s)' => slot'[s].data # i
    BY <1>1, <1>3, <1>4 DEF OnePlace
  <2>2. ASSUME NEW s \in 0 .. Size - 1, Full(s)'
        PROVE  /\ slot'[s].data \in accepted' \ handled'
               /\ \A g \in Feeder : reg'[g].pc \in Placing => reg'[g].item # slot'[s].data
               /\ \A r \in 0 .. Size - 1 : Full(r)' /\ r # s => slot'[r].data # slot'[s].data
    <3>1. Full(s) /\ slot'[s] = slot[s]
      BY <1>4, <2>2
    <3>2. /\ slot[s].data \in accepted \ handled
          /\ \A g \in Feeder : reg[g].pc \in Placing => reg[g].item # slot[s].data
          /\ \A r \in 0 .. Size - 1 : Full(r) /\ r # s => slot[r].data # slot[s].data
      BY <3>1 DEF OnePlace
    <3>3. \A r \in 0 .. Size - 1 : Full(r)' => Full(r) /\ slot'[r] = slot[r]
      BY <1>4
    <3> HIDE DEF PoolInv, PoolAssumption, pos
    <3> QED BY <1>1, <1>2, <3>1, <3>2, <3>3
  <2>3. /\ reg'[Worker].item \in accepted' \ handled'
        /\ \A g \in Feeder : reg'[g].pc \in Placing => reg'[g].item # reg'[Worker].item
        /\ \A s \in 0 .. Size - 1 : Full(s)' => slot'[s].data # reg'[Worker].item
    BY <1>1, <1>2, <1>5, <2>1
  <2> QED BY <2>2, <2>3 DEF OnePlace
<1> QED BY <1>6, <1>7, <1>8, <1>9

\* The item the worker holds is handled.
LEMMA HandlesKeeps ==
    ASSUME PoolInv, Sees, WorkerHandles
    PROVE  PoolInv'
<1> USE DEF PoolInv, PoolAssumption
<1> DEFINE i == reg[Worker].item
<1>1. /\ reg[Worker].pc = "deqOk" /\ reg' = [reg EXCEPT ![Worker] = At("sub", NoItem)]
      /\ UNCHANGED <<head, tail, slot, calls, accepted>>
      /\ handled' = handled \cup {i}
  BY DEF WorkerHandles
<1>2. reg'[Worker].pc = "sub" /\ \A g \in Feeder : reg'[g] = reg[g]
  BY <1>1 DEF PoolTypeOK, At
<1>3. /\ i \in accepted \ handled
      /\ \A g \in Feeder : reg[g].pc \in Placing => reg[g].item # i
      /\ \A s \in 0 .. Size - 1 : Full(s) => slot[s].data # i
  BY <1>1 DEF OnePlace
<1>4. Cardinality(handled \cup {i}) = Cardinality(handled) + 1 /\ Cardinality(handled) \in Nat
  BY <1>3, OneMoreItem DEF PoolTypeOK
<1>5. PoolTypeOK'
  <2>1. At("sub", NoItem) \in [pc : FeederPc \cup WorkerPc, h : Nat, t : Nat, item : Item \cup {NoItem}]
    BY DEF At, WorkerPc
  <2>2. reg' \in [Thread -> [pc : FeederPc \cup WorkerPc, h : Nat, t : Nat,
                             item : Item \cup {NoItem}]]
    BY <1>1, <2>1 DEF PoolTypeOK
  <2> QED BY <1>1, <1>2, <1>3, <2>2 DEF PoolTypeOK, WorkerPc, Sees
<1>6. Counted'
  BY <1>1, <1>2, <1>4, SMTT(30) DEF Counted, Fetching, PoolTypeOK
<1>7. FeederCopies' /\ WorkerCopies'
  BY <1>1, <1>2 DEF FeederCopies, WorkerCopies
<1>8. Carried'
  BY <1>1, <1>2, <1>3 DEF Carried
<1>9. OnePlace'
  BY <1>1, <1>2, <1>3 DEF OnePlace, Full
<1> QED BY <1>5, <1>6, <1>7, <1>8, <1>9

\* The worker's thread has done nothing before StartWorker.
Started == status = 0 => reg[Worker].pc = "idle"

PoolIInv == PoolInv /\ Started

\* Nobody works in the queue before the pool is started.
LEMMA StartedKept ==
    ASSUME PoolIInv, Step
    PROVE  Started'
<1> USE DEF PoolIInv, PoolInv, PoolAssumption, Started
<1>1. CASE StartWorker
  BY <1>1 DEF StartWorker
<1>2. CASE StopWorker \/ StopStep
  BY <1>2 DEF StopWorker, StopStep, StopNotify, StopJoin, queueVars
<1>3. CASE WorkerStep
  BY <1>3 DEF WorkerStep, WorkerTop, WorkerDequeues, WorkerWaits, WorkerHandles,
     WorkerSubtracts, DequeueStep, DeqReadHead, DeqReadTail, DeqClaim, DeqEmpty, DeqTake,
     poolVars
<1>4. ASSUME NEW f \in Feeder, AddWork(f) \/ FeederStep(f) PROVE Started'
  <2>1. status' = status /\ reg'[Worker] = reg[Worker]
    BY <1>4 DEF AddWork, FeederStep, AddClaim, AddEnqueues, AddFull, AddPending, AddNotify,
       EnqClaim, EnqueueStep, EnqReadHead, EnqReadTail, EnqRetry, EnqFull, EnqRepair, EnqTake,
       EnqFill, poolVars, PoolTypeOK
  <2> QED BY <2>1
<1> QED BY <1>1, <1>2, <1>3, <1>4 DEF Step

\* Every step keeps the invariant.
LEMMA StepKeepsPool == ASSUME PoolIInv, Sees, Step PROVE PoolIInv'
<1>1. CASE StartWorker
  BY <1>1, LooksKeep, WorkerLooks, StartedKept DEF PoolIInv, Started, StartWorker
<1>2. CASE StopWorker \/ StopStep
  <2>1. UNCHANGED <<head, tail, slot, reg, calls, accepted, handled>>
    BY <1>2 DEF StopWorker, StopStep, StopNotify, StopJoin, queueVars
  <2>2. PoolTypeOK' /\ Counted' /\ FeederCopies' /\ WorkerCopies'
    BY <2>1 DEF PoolIInv, PoolInv, PoolTypeOK, Counted, Fetching, FeederCopies, WorkerCopies, Sees
  <2>3. Carried' /\ OnePlace'
    BY <2>1 DEF PoolIInv, PoolInv, Carried, OnePlace, Full
  <2> QED BY <2>2, <2>3, StartedKept DEF PoolIInv, PoolInv, PoolAssumption
<1>3. CASE WorkerStep
  <2>1. CASE WorkerTop \/ WorkerWaits \/ WorkerSubtracts
    BY <2>1, LooksKeep, WorkerLooks, StartedKept DEF PoolIInv
  <2>2. CASE WorkerHandles
    BY <2>2, HandlesKeeps, StartedKept DEF PoolIInv
  <2>3. CASE WorkerDequeues
    BY <2>3, LooksKeep, WorkerLooks, DeqClaimKeeps, DeqTakeKeeps, StartedKept
       DEF PoolIInv, WorkerDequeues, DequeueStep
  <2> QED BY <1>3, <2>1, <2>2, <2>3 DEF WorkerStep
<1>4. ASSUME NEW f \in Feeder, AddWork(f) \/ FeederStep(f) PROVE PoolIInv'
  <2>1. CASE AddClaim(f)
    BY <2>1, ClaimKeeps, StartedKept DEF PoolIInv
  <2>2. CASE AddWork(f) \/ AddFull(f) \/ AddPending(f) \/ AddNotify(f)
    BY <2>2, PreparesKeep, FeederPrepares, StartedKept DEF PoolIInv
  <2>3. CASE AddEnqueues(f)
    BY <2>3, PreparesKeep, FeederPrepares, TakeKeeps, FillKeeps, StartedKept
       DEF PoolIInv, AddEnqueues, EnqueueStep
  <2> QED BY <1>4, <2>1, <2>2, <2>3 DEF FeederStep
<1> QED BY <1>1, <1>2, <1>3, <1>4 DEF Step

\* Every step keeps the invariant.
LEMMA NextKeepsPool == ASSUME PoolIInv, [Next]_vars PROVE PoolIInv'
<1>1. CASE Next
  BY <1>1, StepKeepsPool DEF Next, Sees
<1>2. CASE UNCHANGED vars
  <2>1. UNCHANGED <<head, tail, slot, reg, status, calls, accepted, handled, sawEmpty>>
    BY <1>2 DEF vars
  <2>2. PoolTypeOK' /\ Counted' /\ FeederCopies' /\ WorkerCopies'
    BY <2>1 DEF PoolIInv, PoolInv, PoolTypeOK, Counted, Fetching, FeederCopies, WorkerCopies
  <2>3. Carried' /\ OnePlace' /\ Started'
    BY <2>1 DEF PoolIInv, PoolInv, Carried, OnePlace, Full, Started
  <2> QED BY <2>2, <2>3 DEF PoolIInv, PoolInv, PoolAssumption
<1> QED BY <1>1, <1>2

\* The initial state.
LEMMA InitPoolI == ASSUME PoolAssumption, Init PROVE PoolIInv
<1>1. Started
  BY DEF Started, Init, At, PoolAssumption
<1> QED BY <1>1, InitPool DEF PoolIInv

\* The invariant of the worker and its queue.
THEOREM PoolHolds == PoolAssumption /\ Spec => []PoolIInv
<1>1. PoolAssumption /\ Init => PoolIInv
  BY InitPoolI
<1>2. PoolIInv /\ [Next]_vars => PoolIInv'
  BY NextKeepsPool
<1> QED BY <1>1, <1>2, PTL DEF Spec

\* The compare-and-swap of the branch of Enqueue that takes head to have
\* overflowed never succeeds.
LEMMA InvNoRepair == PoolIInv => NoRepair
<1> SUFFICES ASSUME PoolIInv, NEW f \in Feeder, reg[f].pc = "enqClaim", reg[f].h < reg[f].t
             PROVE  head # reg[f].h
  BY DEF NoRepair
<1>1. /\ reg[f].t <= tail /\ tail <= head /\ head \in Nat /\ tail \in Nat
      /\ reg[f].h \in Nat /\ reg[f].t \in Nat
  BY DEF PoolIInv, PoolInv, PoolTypeOK, PoolAssumption, Counted, FeederCopies
<1> QED BY <1>1

\* The invariant knows what Dequeue saw.
LEMMA InvEmptyWasEmpty == PoolIInv => EmptyWasEmpty
  BY DEF PoolIInv, PoolInv, WorkerCopies, EmptyWasEmpty

\* The branch of Enqueue for an overflow of head never takes effect.
THEOREM PoolNoRepair == PoolAssumption /\ Spec => []NoRepair
  BY PoolHolds, InvNoRepair, PTL

\* RT_EMPTY is said only of a queue that was empty during the call.
THEOREM PoolEmptyWasEmpty == PoolAssumption /\ Spec => []EmptyWasEmpty
  BY PoolHolds, InvEmptyWasEmpty, PTL

-----------------------------------------------------------------------------
\* The bag starts empty.
LEMMA InitBag == Init => Bag!Init
  BY DEF Init, Bag!Init

\* A claim is an acceptance by the bag, which is not full.
LEMMA ClaimAccepts ==
    ASSUME PoolIInv, NEW f \in Feeder, AddClaim(f)
    PROVE  Bag!Next
<1> DEFINE i == reg[f].item
<1>1. head < tail + Size /\ i \in Item \ accepted
  BY ClaimHasRoom DEF AddClaim, PoolIInv
<1>2. accepted' = accepted \cup {i} /\ handled' = handled
  BY DEF AddClaim
<1>3. handled \subseteq accepted /\ accepted \subseteq Item
  BY DEF PoolIInv, PoolInv, PoolTypeOK
<1>4. Cardinality(accepted \ handled) < Size + 1
  <2>1. IsFiniteSet(accepted) /\ IsFiniteSet(handled)
    BY <1>3, ItemsCounted, FS_Subset DEF PoolIInv, PoolInv
  <2>2. /\ Cardinality(accepted \ handled) = Cardinality(accepted) - Cardinality(handled)
        /\ Cardinality(handled) \in Nat
    <3>1. accepted \cap handled = handled
      BY <1>3
    <3> QED BY <2>1, <3>1, FS_Difference, FS_CardinalityType
  <2>3. /\ head = Cardinality(accepted) /\ tail <= Cardinality(handled) + 1
        /\ head \in Nat /\ tail \in Nat /\ Size \in Nat
    BY <2>2 DEF PoolIInv, PoolInv, PoolTypeOK, PoolAssumption, Counted
  <2> QED BY <1>1, <2>2, <2>3
<1>5. i \notin (accepted \ handled) \cup handled
  BY <1>1, <1>3
<1>6. (accepted \ handled)' = (accepted \ handled) \cup {i}
  BY <1>1, <1>2, <1>3
<1>7. Bag!Accept(i)
  <2>1. Bag!Cardinality(accepted \ handled) = Cardinality(accepted \ handled)
    BY DEF Bag!Cardinality, Cardinality
  <2> QED BY <1>2, <1>4, <1>5, <1>6, <2>1 DEF Bag!Accept
<1> QED BY <1>1, <1>7 DEF Bag!Next

\* The worker handles an item of the bag.
LEMMA WorkerHandlesItem ==
    ASSUME PoolIInv, WorkerHandles
    PROVE  Bag!Next
<1> DEFINE i == reg[Worker].item
<1>1. i \in accepted \ handled
  BY DEF WorkerHandles, PoolIInv, PoolInv, OnePlace
<1>2. accepted' = accepted /\ handled' = handled \cup {i}
  BY DEF WorkerHandles
<1>3. i \in Item
  BY <1>1 DEF PoolIInv, PoolInv, PoolTypeOK
<1>4. (accepted \ handled)' = (accepted \ handled) \ {i}
  BY <1>2
<1>5. Bag!Handle(i)
  BY <1>1, <1>2, <1>4 DEF Bag!Handle
<1> QED BY <1>3, <1>5 DEF Bag!Next

\* Nothing else changes what is accepted or handled.
LEMMA StepsOfBag ==
    ASSUME PoolIInv, [Next]_vars
    PROVE  [Bag!Next]_<<accepted \ handled, handled>>
<1>1. CASE UNCHANGED <<accepted, handled>>
  BY <1>1
<1>2. CASE Step
  <2>1. CASE StartWorker \/ StopWorker \/ StopStep
    BY <1>1, <2>1 DEF StartWorker, StopWorker, StopStep, StopNotify, StopJoin
  <2>2. CASE WorkerStep
    <3>1. WorkerHandles \/ UNCHANGED <<accepted, handled>>
      BY <2>2 DEF WorkerStep, WorkerTop, WorkerDequeues, WorkerWaits, WorkerSubtracts, poolVars
    <3> QED BY <1>1, <3>1, WorkerHandlesItem
  <2>3. ASSUME NEW f \in Feeder, AddWork(f) \/ FeederStep(f)
        PROVE  [Bag!Next]_<<accepted \ handled, handled>>
    <3>1. AddClaim(f) \/ UNCHANGED <<accepted, handled>>
      BY <2>3 DEF AddWork, FeederStep, AddEnqueues, AddFull, AddPending, AddNotify, poolVars
    <3> QED BY <1>1, <3>1, ClaimAccepts
  <2> QED BY <1>2, <2>1, <2>2, <2>3 DEF Step
<1> QED BY <1>1, <1>2 DEF Next, vars

\* The queue, the counter and the wait group together are a bounded bag: no item
\* is handled twice, none that was not accepted, and there is a limit to what is
\* held, however stale the copies of head and tail are.
THEOREM PoolImplementsBag == PoolAssumption /\ Spec => ImplementsBag
<1>1. Init => Bag!Init
  BY InitBag
<1>2. PoolIInv /\ [Next]_vars => [Bag!Next]_<<accepted \ handled, handled>>
  BY StepsOfBag
<1> QED BY <1>1, <1>2, PoolHolds, PTL DEF Spec, ImplementsBag, Bag!Spec

=============================================================================
