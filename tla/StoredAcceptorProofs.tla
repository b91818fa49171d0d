------------------------ MODULE StoredAcceptorProofs ------------------------
(***************************************************************************)
(* What the acceptor of a server keeps over its entry cache and its disk,  *)
(* for caches, plogs and disks of any size, failing saves and crashes.     *)
(*                                                                         *)
(* For an entry the memory has not lost, what it holds (a vote, or a       *)
(* promise while there is none) is no less than what it has answered, and  *)
(* the disk has the vote it has reported.  If all rows are loaded at the   *)
(* start, the counters are those of the whole disk, so that every chosen   *)
(* row is below the last chosen entry, which turns its requests away.      *)
(***************************************************************************)
EXTENDS StoredAcceptor, LruMapProofs

-----------------------------------------------------------------------------
(* The invariant.                                                          *)

EntryRec == [acc : Proposal \cup {None}, prom : Proposal \cup {None}]

\* What may stand in the place of a vote: a vote, or the dummy of a row.
VoteOK(p) == p = Dummy \/ p.status \in {"ACCEPTED", "CHOSEN"}

ValueOK(x) == x \in EntryRec /\ (x.acc # None => VoteOK(x.acc))
RowOK(r) == r \in Row /\ VoteOK(r.p1)

Counters == [inUse : 0 .. Ones, last : 0 .. Ones, global : 0 .. Ones, firstValid : 0 .. Ones,
             firstUnchosen : 0 .. Ones, maxContinue : 0 .. Ones]

CacheOK(m) ==
    LruOK(m) /\ DOMAIN m.kv \subseteq Entry /\ \A e \in DOMAIN m.kv : ValueOK(m.kv[e].val)

DiskOK ==
    /\ DOMAIN disk = Entry /\ disk[0] = None
    /\ \A e \in Rows : RowOK(disk[e])

StoredTypeOK ==
    /\ CacheOK(cache) /\ DiskOK /\ cnt \in Counters
    /\ promised \in [Entry -> Nat] /\ voted \in [Entry -> [pid : Nat, vid : Nat]]
    /\ lagSeen \in Nat /\ crashes \in Nat /\ lost \subseteq Entry

\* A vote p is the one reported for e, or one of a larger id.
Covers(p, e) ==
    p.pid > voted[e].pid \/ (p.pid = voted[e].pid /\ p.vid = voted[e].vid)

\* What an entry holds of e is no less than what has been answered.
Holds(x, e) ==
    /\ x.acc = None =>
          voted[e] = NoVote /\ promised[e] <= (IF x.prom = None THEN 0 ELSE x.prom.pid)
    /\ x.acc # None /\ x.acc.status # "INIT" =>
          promised[e] <= x.acc.pid /\ Covers(x.acc, e)
    /\ x = EmptyEntry => disk[e] = None

\* What the cache has of e.
Value(e) == IF Exists(cache, e) THEN cache.kv[e].val ELSE EmptyEntry

Kept(e) ==
    /\ Holds(Value(e), e)
    /\ voted[e] # NoVote => disk[e] # None /\ Covers(disk[e].p1, e)

IsChosen(p) == p # None /\ p.status = "CHOSEN"

\* The counters know of every chosen entry.
ChosenKnown(e) ==
    /\ e \in Rows /\ IsChosen(disk[e].p1) =>
          e <= cnt.last /\ (Value(e) = EmptyEntry \/ IsChosen(Value(e).acc))
    /\ IsChosen(Value(e).acc) => e <= cnt.last

CountersRight ==
    /\ cnt.inUse \in Entry /\ cnt.last \in 0 .. cnt.inUse /\ cnt.global \in Entry
    /\ \A e \in DOMAIN cache.kv \cup Rows : e <= cnt.inUse
    /\ lagSeen > cnt.last => cnt.global >= lagSeen
    /\ \A e \in Entry : ChosenKnown(e)

StoredInv ==
    /\ StoredTypeOK
    /\ \A e \in Entry \ lost : Kept(e)
    /\ Loads => CountersRight

-----------------------------------------------------------------------------
(* Entries, rows and the cache.                                            *)

\* The bounds, and the larger of two numbers.
LEMMA Bounds ==
    /\ MaxEntry \in Nat /\ Entry \subseteq Nat /\ 0 \in Entry
    /\ CacheSize \in Nat \ {0} /\ Ones = MaxEntry + 1
BY PlogAssumption DEF Entry, CacheSize, Ones

LEMMA MaxOfTwo ==
    ASSUME NEW a \in Int, NEW b \in Int
    PROVE  Max({a, b}) = IF a >= b THEN a ELSE b
<1>1. \E x \in {a, b} : \A y \in {a, b} : x >= y
  OBVIOUS
<1>2. Max({a, b}) \in {a, b} /\ \A y \in {a, b} : Max({a, b}) >= y
  BY <1>1, Zenon DEF Max
<1> QED BY <1>2

\* The cache after an entry has been put into it.
LEMMA PutOK ==
    ASSUME NEW m, CacheOK(m), NEW e \in Entry, NEW y, ValueOK(y),
           NEW t, t = Put(m, e, y, CacheSize)
    PROVE  /\ CacheOK(t) /\ e \in DOMAIN t.kv /\ t.kv[e].val = y
           /\ DOMAIN t.kv \subseteq DOMAIN m.kv \cup {e}
           /\ \A x \in DOMAIN t.kv \ {e} : t.kv[x] = m.kv[x]
<1>1. LruOK(m) /\ CacheSize \in Nat \ {0}
  BY Bounds DEF CacheOK
<1>2. /\ LruOK(t) /\ e \in DOMAIN t.kv /\ t.kv[e].val = y
      /\ DOMAIN t.kv \subseteq DOMAIN m.kv \cup {e}
      /\ \A x \in DOMAIN t.kv \ {e} : t.kv[x] = m.kv[x]
  BY <1>1, PutKeeps
<1> QED BY <1>2 DEF CacheOK

\* Rows and entries are well formed, and the vote of an entry is that of its row.
LEMMA RowsAndEntries ==
    /\ Dummy \in Proposal /\ ValueOK(EmptyEntry)
    /\ \A x : ValueOK(x) =>
          /\ RowOK(SerializeTo(x)) /\ SerializeTo(x) # None
          /\ SerializeTo(x).p1 = IF x.acc = None THEN Dummy ELSE x.acc
    /\ \A r : RowOK(r) =>
          /\ ValueOK(UnserializeFrom(r)) /\ r # None /\ UnserializeFrom(r).acc = r.p1
          /\ UnserializeFrom(r).acc # None /\ UnserializeFrom(r) # EmptyEntry
<1>1. Dummy \in Proposal /\ VoteOK(Dummy) /\ None \notin Proposal /\ None \notin Row
  BY NoneAssumption DEF Dummy, Proposal, VoteOK
<1>2. ValueOK(EmptyEntry)
  BY DEF EmptyEntry, ValueOK, EntryRec
<1>3. ASSUME NEW x, ValueOK(x)
      PROVE  /\ RowOK(SerializeTo(x))
             /\ SerializeTo(x).p1 = IF x.acc = None THEN Dummy ELSE x.acc
  BY <1>1, <1>3 DEF SerializeTo, ValueOK, EntryRec, RowOK, Row
<1>4. ASSUME NEW r, RowOK(r)
      PROVE  /\ ValueOK(UnserializeFrom(r)) /\ UnserializeFrom(r).acc = r.p1
             /\ UnserializeFrom(r).acc # None /\ UnserializeFrom(r) # EmptyEntry
  <2>1. r.p1 \in Proposal /\ r.p2 \in Proposal /\ VoteOK(r.p1)
    BY <1>4 DEF RowOK, Row
  <2> QED BY <1>1, <2>1 DEF UnserializeFrom, ValueOK, EntryRec, EmptyEntry
<1>5. \A r : RowOK(r) => r # None
  BY <1>1 DEF RowOK
<1> QED BY <1>1, <1>2, <1>3, <1>4, <1>5

\* What a handler finds in an entry is well formed, and it is what the cache has
\* unless the entry is lost or above all that were in use.
LEMMA Fetched ==
    ASSUME StoredTypeOK, NEW e \in Entry
    PROVE  /\ ValueOK(Fetch(e)) /\ ValueOK(Value(e))
           /\ Kept(e) => Fetch(e) = Value(e)
           /\ CountersRight => Fetch(e) = Value(e)
<1>1. Exists(cache, e) => Fetch(e) = cache.kv[e].val /\ Value(e) = Fetch(e) /\ ValueOK(Fetch(e))
  BY DEF Fetch, Value, Exists, StoredTypeOK, CacheOK
<1>2. disk[e] # None => e \in Rows /\ RowOK(disk[e])
  BY DEF Rows, StoredTypeOK, DiskOK
<1>3. ~Exists(cache, e) => Value(e) = EmptyEntry /\ ValueOK(Fetch(e)) /\ ValueOK(Value(e))
  BY <1>2, RowsAndEntries DEF Fetch, Value
<1>4. ASSUME ~Exists(cache, e), disk[e] = None \/ ~AboveInUse(e)
      PROVE  Fetch(e) = Value(e)
  BY <1>4 DEF Fetch, Value
<1>5. Kept(e) /\ ~Exists(cache, e) => disk[e] = None
  BY <1>3 DEF Kept, Holds
<1>6. CountersRight /\ disk[e] # None => ~AboveInUse(e)
  <2> SUFFICES ASSUME CountersRight, disk[e] # None PROVE ~AboveInUse(e)
    OBVIOUS
  <2>1. cnt.inUse \in 0 .. MaxEntry /\ e <= cnt.inUse
    BY <1>2 DEF CountersRight, Entry
  <2> QED BY <2>1, Bounds DEF AboveInUse, Entry
<1> QED BY <1>1, <1>3, <1>4, <1>5, <1>6

-----------------------------------------------------------------------------
(* Loading.                                                                *)

\* A set of numbers that is not empty has a smallest one.
LEMMA SmallestOf ==
    ASSUME NEW S \in SUBSET Nat, S # {}
    PROVE  \E x \in S : \A y \in S : x <= y
<1>1. IsWellFoundedOn(OpToRel(<, Nat), Nat)
  BY NatLessThanWellFounded, Zenon
<1>2. PICK x \in S : \A y \in S : ~(<<y, x>> \in OpToRel(<, Nat))
  BY <1>1, WFMin, Zenon
<1>3. ASSUME NEW y \in S PROVE x <= y
  <2>1. ~(y < x)
    BY <1>2, <1>3, Zenon DEF OpToRel
  <2> QED BY <2>1, <1>3
<1> QED BY <1>3

\* Where loading begins.
LoadStart(committed) == [cache |-> EmptyMap, cnt |-> ClearedCounters(committed)]

\* f has what is loaded up to each entry from 0 to n.
LoadsUpTo(f, committed, n) ==
    f = [e \in 0 .. n |->
           IF e = 0 THEN LoadStart(committed)
           ELSE IF e \in Rows THEN RecoverEntry(f[e - 1], e) ELSE f[e - 1]]

\* There is such a function, though it is defined by recursion.
LEMMA LoadExists ==
    ASSUME NEW committed, NEW n \in Nat
    PROVE  \E f : LoadsUpTo(f, committed, n)
<1> DEFINE Missing == {k \in Nat : ~ \E f : LoadsUpTo(f, committed, k)}
<1> SUFFICES ASSUME Missing # {} PROVE FALSE
  OBVIOUS
<1>1. PICK k \in Missing : \A j \in Missing : k <= j
  <2>1. Missing \in SUBSET Nat
    OBVIOUS
  <2> HIDE DEF Missing
  <2> QED BY <2>1, SmallestOf
<1>2. k # 0
  <2> DEFINE f == [e \in 0 .. 0 |-> LoadStart(committed)]
  <2>1. LoadsUpTo(f, committed, 0)
    <3>1. \A e \in 0 .. 0 : e = 0
      OBVIOUS
    <3> QED BY <3>1 DEF LoadsUpTo
  <2> QED BY <2>1
<1>3. k - 1 \in Nat /\ k - 1 \notin Missing
  BY <1>1, <1>2
<1>4. PICK g : LoadsUpTo(g, committed, k - 1)
  BY <1>3
<1> DEFINE f == [e \in 0 .. k |->
                   IF e = k THEN (IF k \in Rows THEN RecoverEntry(g[k - 1], k) ELSE g[k - 1])
                   ELSE g[e]]
<1>5. /\ \A e \in 0 .. k - 1 : e \in 0 .. k /\ e # k /\ f[e] = g[e]
      /\ f[k] = IF k \in Rows THEN RecoverEntry(g[k - 1], k) ELSE g[k - 1]
  BY <1>2, <1>3
<1>6. \A e \in 0 .. k - 1 :
        g[e] = IF e = 0 THEN LoadStart(committed)
               ELSE IF e \in Rows THEN RecoverEntry(g[e - 1], e) ELSE g[e - 1]
  BY <1>4, Zenon DEF LoadsUpTo
<1>7. \A e \in 0 .. k :
        f[e] = IF e = 0 THEN LoadStart(committed)
               ELSE IF e \in Rows THEN RecoverEntry(f[e - 1], e) ELSE f[e - 1]
  <2> HIDE DEF f
  <2> SUFFICES ASSUME NEW e \in 0 .. k
               PROVE  f[e] = IF e = 0 THEN LoadStart(committed)
                             ELSE IF e \in Rows THEN RecoverEntry(f[e - 1], e) ELSE f[e - 1]
    OBVIOUS
  <2>1. CASE e = 0
    <3>1. e \in 0 .. k - 1
      BY <1>3, <2>1
    <3> QED BY <1>5, <1>6, <2>1, <3>1
  <2>2. CASE e = k /\ e # 0
    <3>1. e - 1 \in 0 .. k - 1
      BY <1>3, <2>2
    <3> QED BY <1>5, <2>2, <3>1
  <2>3. CASE e # k /\ e # 0
    <3>1. e \in 0 .. k - 1 /\ e - 1 \in 0 .. k - 1
      BY <1>3, <2>3
    <3> QED BY <1>5, <1>6, <2>3, <3>1
  <2> QED BY <2>1, <2>2, <2>3
<1>8. LoadsUpTo(f, committed, k)
  <2>1. f = [e \in 0 .. k |-> f[e]]
    OBVIOUS
  <2> HIDE DEF f
  <2> QED BY <1>7, <2>1, Zenon DEF LoadsUpTo
<1> QED BY <1>8

\* What RecoverRange has for each entry.
LEMMA RangeLoads ==
    ASSUME NEW committed
    PROVE  \A e \in Entry : RecoverRange(committed)[e] =
              IF e = 0 THEN LoadStart(committed)
              ELSE IF e \in Rows THEN RecoverEntry(RecoverRange(committed)[e - 1], e)
              ELSE RecoverRange(committed)[e - 1]
<1>1. PICK g : LoadsUpTo(g, committed, MaxEntry)
  BY LoadExists, Bounds
<1>2. \E f : f = [e \in Entry |->
                    IF e = 0 THEN [cache |-> EmptyMap, cnt |-> ClearedCounters(committed)]
                    ELSE IF e \in Rows THEN RecoverEntry(f[e - 1], e) ELSE f[e - 1]]
  BY <1>1, Zenon DEF LoadsUpTo, LoadStart, Entry
<1> DEFINE f == RecoverRange(committed)
<1>3. f = [e \in Entry |->
             IF e = 0 THEN LoadStart(committed)
             ELSE IF e \in Rows THEN RecoverEntry(f[e - 1], e) ELSE f[e - 1]]
  BY <1>2, Zenon DEF RecoverRange, LoadStart
<1> HIDE DEF f
<1>4. \A e \in Entry : f[e] = IF e = 0 THEN LoadStart(committed)
                              ELSE IF e \in Rows THEN RecoverEntry(f[e - 1], e) ELSE f[e - 1]
  BY <1>3, Zenon
<1> QED BY <1>4, Zenon DEF f

\* The rows up to entry n are loaded, or some of them have left the cache again.
Loaded(s, n) ==
    /\ LruOK(s.cache)
    /\ \A e \in DOMAIN s.cache.kv :
          e \in Rows /\ e <= n /\ s.cache.kv[e].val = UnserializeFrom(disk[e])
    /\ s.cnt \in Counters /\ s.cnt.global = 0
    /\ s.cnt.last <= s.cnt.inUse /\ s.cnt.inUse <= n
    /\ \A e \in Rows : e <= n =>
          e <= s.cnt.inUse /\ (IsChosen(disk[e].p1) => e <= s.cnt.last)

LEMMA StartLoaded ==
    ASSUME NEW committed \in Entry
    PROVE  Loaded(LoadStart(committed), 0)
<1>1. LruOK(EmptyMap)
  <2>1. <<>> \in Seq({}) /\ Len(<<>>) = 0 /\ 1 .. Len(<<>>) = {}
    OBVIOUS
  <2>2. /\ IsInjective(<<>>) <=> \A a, b \in 1 .. Len(<<>>) : <<>>[a] = <<>>[b] => a = b
        /\ Range(<<>>) = {<<>>[a] : a \in 1 .. Len(<<>>)} /\ <<>> \in Seq(Range(<<>>))
    BY <2>1, OnceEach
  <2>3. EmptyMap.order = <<>> /\ DOMAIN EmptyMap.kv = {}
    BY DEF EmptyMap
  <2> QED BY <2>1, <2>2, <2>3, FS_EmptySet DEF LruOK
<1>2. DOMAIN EmptyMap.kv = {}
  BY DEF EmptyMap
<1>3. FreshCounters \in Counters
  BY Bounds DEF FreshCounters, Counters
<1>4. /\ ClearedCounters(committed) \in Counters /\ ClearedCounters(committed).global = 0
      /\ ClearedCounters(committed).last = 0 /\ ClearedCounters(committed).inUse = 0
  <2>1. 0 \in 0 .. Ones /\ committed \in 0 .. Ones
    BY Bounds DEF Entry
  <2>2. ASSUME NEW r \in Counters
        PROVE  LET c == [r EXCEPT !.inUse = 0, !.last = 0, !.global = 0, !.maxContinue = committed]
               IN  c \in Counters /\ c.global = 0 /\ c.last = 0 /\ c.inUse = 0
    BY <2>1 DEF Counters
  <2> QED BY <1>3, <2>2 DEF ClearedCounters
<1>5. \A e \in Rows : ~(e <= 0)
  BY Bounds DEF Rows, Entry
<1> DEFINE s == LoadStart(committed)
<1>6. s.cache = EmptyMap /\ s.cnt = ClearedCounters(committed)
  BY DEF LoadStart
<1> HIDE DEF s
<1> QED BY <1>1, <1>2, <1>4, <1>5, <1>6 DEF Loaded, s

\* The counters c become d by a row.
Counted(d, c, e, chosen) ==
    d = [c EXCEPT
           !.last = IF chosen /\ e > @ THEN e ELSE @,
           !.maxContinue = IF chosen /\ e = @ + 1 THEN e ELSE @,
           !.firstUnchosen = IF ~chosen /\ e < @ THEN e ELSE @,
           !.firstValid = IF e < @ THEN e ELSE @,
           !.inUse = IF e > @ THEN e ELSE @]

LEMMA RowCounters ==
    ASSUME NEW c \in Counters, NEW e \in 0 .. Ones, NEW chosen \in BOOLEAN,
           NEW d, Counted(d, c, e, chosen)
    PROVE  /\ d \in Counters /\ d.global = c.global
           /\ d.last = IF chosen /\ e > c.last THEN e ELSE c.last
           /\ d.maxContinue = IF chosen /\ e = c.maxContinue + 1 THEN e ELSE c.maxContinue
           /\ d.firstUnchosen = IF ~chosen /\ e < c.firstUnchosen THEN e ELSE c.firstUnchosen
           /\ d.firstValid = IF e < c.firstValid THEN e ELSE c.firstValid
           /\ d.inUse = IF e > c.inUse THEN e ELSE c.inUse
<1> DEFINE last == IF chosen /\ e > c.last THEN e ELSE c.last
           cont == IF chosen /\ e = c.maxContinue + 1 THEN e ELSE c.maxContinue
           unchosen == IF ~chosen /\ e < c.firstUnchosen THEN e ELSE c.firstUnchosen
           valid == IF e < c.firstValid THEN e ELSE c.firstValid
           inUse == IF e > c.inUse THEN e ELSE c.inUse
<1>1. d = [c EXCEPT !.last = last, !.maxContinue = cont, !.firstUnchosen = unchosen,
                    !.firstValid = valid, !.inUse = inUse]
  BY DEF Counters, Counted
<1>2. /\ last \in 0 .. Ones /\ cont \in 0 .. Ones /\ unchosen \in 0 .. Ones
      /\ valid \in 0 .. Ones /\ inUse \in 0 .. Ones
  BY DEF Counters
<1> HIDE DEF last, cont, unchosen, valid, inUse
<1>3. /\ d \in Counters /\ d.global = c.global /\ d.last = last /\ d.maxContinue = cont
      /\ d.firstUnchosen = unchosen /\ d.firstValid = valid /\ d.inUse = inUse
  BY <1>1, <1>2 DEF Counters
<1> QED BY <1>3 DEF last, cont, unchosen, valid, inUse

\* One more row, or none.
LEMMA RowLoaded ==
    ASSUME StoredTypeOK, NEW e \in Rows, NEW s, Loaded(s, e - 1)
    PROVE  Loaded(RecoverEntry(s, e), e)
<1> DEFINE t == RecoverEntry(s, e)
<1> DEFINE chosen == RowStatus(e) = "CHOSEN"
<1>1. e \in Entry /\ e \in Nat /\ e # 0 /\ e <= MaxEntry /\ RowOK(disk[e])
  BY Bounds DEF Rows, StoredTypeOK, DiskOK, Entry
<1>2. chosen <=> IsChosen(disk[e].p1)
  <2>1. disk[e].p1 # None /\ UnserializeFrom(disk[e]).acc = disk[e].p1
    BY <1>1, RowsAndEntries
  <2> QED BY <2>1 DEF RowStatus, IsChosen
<1>3. /\ t.cache = Put(s.cache, e, UnserializeFrom(disk[e]), CacheSize)
      /\ Counted(t.cnt, s.cnt, e, chosen)
  BY DEF RecoverEntry, Counted
<1> HIDE DEF t, chosen
<1>4. /\ LruOK(t.cache) /\ e \in DOMAIN t.cache.kv
      /\ t.cache.kv[e].val = UnserializeFrom(disk[e])
      /\ DOMAIN t.cache.kv \subseteq DOMAIN s.cache.kv \cup {e}
      /\ \A x \in DOMAIN t.cache.kv \ {e} : t.cache.kv[x] = s.cache.kv[x]
  BY <1>3, PutKeeps, Bounds DEF Loaded
<1>5. \A x \in DOMAIN t.cache.kv :
        x \in Rows /\ x <= e /\ t.cache.kv[x].val = UnserializeFrom(disk[x])
  <2> SUFFICES ASSUME NEW x \in DOMAIN t.cache.kv, x # e
               PROVE  x \in Rows /\ x <= e /\ t.cache.kv[x].val = UnserializeFrom(disk[x])
    BY <1>1, <1>4
  <2>1. x \in Rows /\ x <= e - 1 /\ s.cache.kv[x].val = UnserializeFrom(disk[x])
    BY <1>4 DEF Loaded
  <2>2. x \in Nat
    BY <2>1, Bounds DEF Rows
  <2> QED BY <1>1, <1>4, <2>1, <2>2
<1>6. s.cnt \in Counters /\ e \in 0 .. Ones /\ s.cnt.last \in Nat /\ s.cnt.inUse \in Nat
  BY <1>1, Bounds DEF Loaded, Counters
<1>7. /\ t.cnt \in Counters /\ t.cnt.global = s.cnt.global
      /\ t.cnt.last = IF chosen /\ e > s.cnt.last THEN e ELSE s.cnt.last
      /\ t.cnt.inUse = IF e > s.cnt.inUse THEN e ELSE s.cnt.inUse
  <2>1. chosen \in BOOLEAN
    BY DEF chosen
  <2> QED BY <1>3, <1>6, <2>1, RowCounters
<1>8. t.cnt.global = 0 /\ t.cnt.last <= t.cnt.inUse /\ t.cnt.inUse <= e
  BY <1>1, <1>6, <1>7 DEF Loaded
<1>9. \A x \in Rows : x <= e =>
        x <= t.cnt.inUse /\ (IsChosen(disk[x].p1) => x <= t.cnt.last)
  <2> SUFFICES ASSUME NEW x \in Rows, x <= e
               PROVE  x <= t.cnt.inUse /\ (IsChosen(disk[x].p1) => x <= t.cnt.last)
    OBVIOUS
  <2>1. x \in Nat
    BY Bounds DEF Rows
  <2>2. CASE x = e
    BY <1>1, <1>2, <1>6, <1>7, <2>2
  <2>3. CASE x # e
    <3>1. x <= e - 1
      BY <1>1, <2>1, <2>3
    <3>2. x <= s.cnt.inUse /\ (IsChosen(disk[x].p1) => x <= s.cnt.last)
      BY <3>1 DEF Loaded
    <3> QED BY <1>1, <1>6, <1>7, <2>1, <3>2
  <2> QED BY <2>2, <2>3
<1> QED BY <1>4, <1>5, <1>7, <1>8, <1>9 DEF Loaded, t

LEMMA NoRowLoaded ==
    ASSUME StoredTypeOK, NEW e \in Entry \ Rows, e # 0, NEW s, Loaded(s, e - 1)
    PROVE  Loaded(s, e)
<1>1. e \in Nat /\ \A x \in Rows : x \in Nat /\ x # e
  BY Bounds DEF Rows
<1>2. \A x \in Rows : x <= e <=> x <= e - 1
  BY <1>1
<1>3. s.cnt.inUse \in Int /\ (s.cnt.inUse <= e - 1 => s.cnt.inUse <= e)
  BY <1>1 DEF Loaded, Counters
<1> QED BY <1>2, <1>3 DEF Loaded

RowsTo(n) == {e \in Rows : e <= n}
Chosen == {e \in Rows : disk[e].p1.status = "CHOSEN"}
ChosenTo(n) == {e \in Chosen : e <= n}

\* x is the largest of the numbers S, or 0; or the smallest of them, or ~0.
Largest(x, S) == x \in S \cup {0} /\ \A y \in S : y <= x
Smallest(x, S) == x \in S \cup {Ones} /\ \A y \in S : x <= y

\* The counters after the rows up to n.
CountersExact(c, n) ==
    /\ Largest(c.inUse, RowsTo(n)) /\ Largest(c.last, ChosenTo(n))
    /\ Smallest(c.firstValid, RowsTo(n)) /\ Smallest(c.firstUnchosen, RowsTo(n) \ Chosen)
    /\ c.maxContinue \in Entry /\ 1 .. c.maxContinue \subseteq Chosen
    /\ c.maxContinue < n => c.maxContinue + 1 \notin Chosen

\* The cache after them: the newest ones, as many as there is room for.
CacheExact(m, n) ==
    /\ Descending(m)
    /\ \A x \in DOMAIN m.kv, y \in RowsTo(n) : y > x => y \in DOMAIN m.kv
    /\ Cardinality(DOMAIN m.kv) <= CacheSize
    /\ DOMAIN m.kv = RowsTo(n) \/ Cardinality(DOMAIN m.kv) = CacheSize

Recovered(s, n) == Loaded(s, n) /\ CountersExact(s.cnt, n) /\ CacheExact(s.cache, n)

\* One more row.
LEMMA OneMore ==
    ASSUME NEW e \in Entry, e # 0
    PROVE  /\ e \in Nat /\ e - 1 \in Nat /\ e <= MaxEntry
           /\ RowsTo(e) = RowsTo(e - 1) \cup {x \in Rows : x = e}
           /\ ChosenTo(e) = ChosenTo(e - 1) \cup {x \in Chosen : x = e}
           /\ \A x \in RowsTo(e - 1) : x \in Nat /\ x < e
           /\ ChosenTo(e - 1) \subseteq RowsTo(e - 1)
<1>1. e \in Nat /\ e - 1 \in Nat /\ e <= MaxEntry /\ Rows \subseteq Nat /\ Chosen \subseteq Rows
  BY Bounds DEF Rows, Entry, Chosen
<1>2. \A x \in Rows : (x <= e <=> x <= e - 1 \/ x = e) /\ (x <= e - 1 => x < e)
  BY <1>1
<1>3. RowsTo(e) = RowsTo(e - 1) \cup {x \in Rows : x = e}
  BY <1>2 DEF RowsTo
<1>4. ChosenTo(e) = ChosenTo(e - 1) \cup {x \in Chosen : x = e}
  BY <1>1, <1>2 DEF ChosenTo
<1>5. /\ \A x \in RowsTo(e - 1) : x \in Nat /\ x < e
      /\ ChosenTo(e - 1) \subseteq RowsTo(e - 1)
  BY <1>1, <1>2 DEF RowsTo, ChosenTo
<1> QED BY <1>1, <1>3, <1>4, <1>5

LEMMA StartExact ==
    ASSUME NEW committed \in Entry, 1 .. committed \subseteq Chosen
    PROVE  Recovered(LoadStart(committed), 0)
<1> DEFINE s == LoadStart(committed)
<1>1. Loaded(s, 0)
  BY StartLoaded
<1>2. RowsTo(0) = {} /\ ChosenTo(0) = {}
  BY Bounds DEF RowsTo, ChosenTo, Rows, Entry, Chosen
<1>3. /\ s.cnt.inUse = 0 /\ s.cnt.last = 0 /\ s.cnt.firstValid = Ones
      /\ s.cnt.firstUnchosen = Ones /\ s.cnt.maxContinue = committed
  BY DEF LoadStart, ClearedCounters, FreshCounters
<1>4. s.cache.order = <<>> /\ DOMAIN s.cache.kv = {}
  BY DEF LoadStart, EmptyMap
<1> HIDE DEF s
<1>5. CountersExact(s.cnt, 0)
  <2>1. committed \in Nat
    BY Bounds
  <2> QED BY <1>2, <1>3, <2>1 DEF CountersExact, Largest, Smallest
<1>6. CacheExact(s.cache, 0)
  <2>1. Cardinality({}) = 0 /\ CacheSize \in Nat
    BY FS_EmptySet, Bounds
  <2>2. Len(s.cache.order) = 0
    BY <1>4
  <2> QED BY <1>2, <1>4, <2>1, <2>2 DEF CacheExact, Descending
<1> QED BY <1>1, <1>5, <1>6 DEF Recovered, s

LEMMA CacheWithRow ==
    ASSUME NEW e \in Rows, NEW s, Recovered(s, e - 1)
    PROVE  CacheExact(RecoverEntry(s, e).cache, e)
<1> DEFINE m == s.cache
<1> DEFINE t == RecoverEntry(s, e).cache
<1> DEFINE D == DOMAIN m.kv
<1>1. e \in Entry /\ e # 0
  BY DEF Rows
<1>2. /\ e \in Nat /\ RowsTo(e) = RowsTo(e - 1) \cup {e}
      /\ \A x \in RowsTo(e - 1) : x \in Nat /\ x < e
  BY <1>1, OneMore
<1>3. t = Put(m, e, UnserializeFrom(disk[e]), CacheSize)
  BY DEF RecoverEntry
<1>4. LruOK(m) /\ D \subseteq RowsTo(e - 1)
  BY DEF Recovered, Loaded, RowsTo
<1>5. /\ Descending(m)
      /\ \A x \in D, y \in RowsTo(e - 1) : y > x => y \in D
      /\ Cardinality(D) <= CacheSize
      /\ D = RowsTo(e - 1) \/ Cardinality(D) = CacheSize
  BY DEF Recovered, CacheExact
<1>6. D \subseteq Int /\ e \in Int /\ \A x \in D : x < e
  BY <1>2, <1>4
<1>7. IsFiniteSet(D) /\ CacheSize \in Nat \ {0}
  BY <1>4, Bounds DEF LruOK
<1> HIDE DEF t
<1>8. /\ Descending(t)
      /\ Cardinality(D \cup {e}) > CacheSize =>
            \E x \in D : DOMAIN t.kv = (D \cup {e}) \ {x} /\ \A y \in D : x <= y
      /\ ~(Cardinality(D \cup {e}) > CacheSize) => DOMAIN t.kv = D \cup {e}
  <2> DEFINE row == UnserializeFrom(disk[e])
  <2>1. t = Put(m, e, row, CacheSize)
    BY <1>3
  <2> HIDE DEF m, row
  <2>2. LruOK(m) /\ Descending(m) /\ Above(e, m) /\ CacheSize \in Nat \ {0}
    BY <1>4, <1>5, <1>6, <1>7 DEF Above
  <2> QED BY <2>1, <2>2, PutAbove
<1> HIDE DEF m, D
<1>9. e \notin D
  BY <1>6
<1>10. /\ IsFiniteSet(D \cup {e}) /\ Cardinality(D \cup {e}) = Cardinality(D) + 1
       /\ Cardinality(D) \in Nat
  BY <1>7, <1>9, FS_AddElement, FS_CardinalityType
<1>11. ASSUME Cardinality(D \cup {e}) > CacheSize PROVE CacheExact(t, e)
  <2>1. PICK x \in D : DOMAIN t.kv = (D \cup {e}) \ {x} /\ \A y \in D : x <= y
    BY <1>8, <1>11
  <2>2. Cardinality(D) = CacheSize
    BY <1>5, <1>7, <1>10, <1>11
  <2>3. Cardinality(DOMAIN t.kv) = CacheSize
    <3>1. Cardinality((D \cup {e}) \ {x}) = Cardinality(D \cup {e}) - 1
      BY <1>10, FS_RemoveElement
    <3> QED BY <1>10, <2>1, <2>2, <3>1
  <2>4. ASSUME NEW y \in DOMAIN t.kv, NEW z \in RowsTo(e), z > y PROVE z \in DOMAIN t.kv
    <3>1. CASE z = e
      BY <1>9, <2>1, <3>1
    <3>2. CASE z # e
      <4>1. z \in RowsTo(e - 1) /\ z < e /\ z \in Nat
        BY <1>2, <3>2
      <4>2. y # e /\ y \in D
        BY <1>2, <2>1, <2>4, <4>1
      <4>3. z \in D /\ x <= y
        BY <1>5, <2>1, <2>4, <4>1, <4>2
      <4>4. z # x
        <5>1. x \in Int /\ y \in Int /\ z \in Int
          BY <1>6, <4>2, <4>3
        <5> QED BY <2>4, <4>3, <5>1
      <4> QED BY <2>1, <4>3, <4>4
    <3> QED BY <3>1, <3>2
  <2> QED BY <1>7, <1>8, <2>3, <2>4 DEF CacheExact
<1>12. ASSUME ~(Cardinality(D \cup {e}) > CacheSize) PROVE CacheExact(t, e)
  <2>1. DOMAIN t.kv = D \cup {e} /\ D = RowsTo(e - 1)
    BY <1>5, <1>7, <1>8, <1>10, <1>12
  <2>2. DOMAIN t.kv = RowsTo(e) /\ Cardinality(DOMAIN t.kv) <= CacheSize
    BY <1>2, <1>7, <1>10, <1>12, <2>1
  <2> QED BY <1>8, <2>2 DEF CacheExact
<1> QED BY <1>11, <1>12 DEF t

LEMMA CountersWithRow ==
    ASSUME StoredTypeOK, NEW e \in Rows, NEW s, Recovered(s, e - 1)
    PROVE  CountersExact(RecoverEntry(s, e).cnt, e)
<1> DEFINE c == s.cnt
           d == RecoverEntry(s, e).cnt
           chosen == RowStatus(e) = "CHOSEN"
<1>1. e \in Entry /\ e # 0 /\ RowOK(disk[e])
  BY DEF Rows, StoredTypeOK, DiskOK
<1>2. /\ e \in Nat /\ e - 1 \in Nat /\ e <= MaxEntry
      /\ RowsTo(e) = RowsTo(e - 1) \cup {e}
      /\ ChosenTo(e) = ChosenTo(e - 1) \cup {x \in Chosen : x = e}
      /\ \A x \in RowsTo(e - 1) : x \in Nat /\ x < e
      /\ ChosenTo(e - 1) \subseteq RowsTo(e - 1)
  BY <1>1, OneMore
<1>3. chosen \in BOOLEAN /\ (chosen <=> e \in Chosen)
  BY <1>1, RowsAndEntries DEF RowStatus, Chosen
<1>4. Counted(d, c, e, chosen)
  BY DEF RecoverEntry, Counted
<1>5. c \in Counters /\ e \in 0 .. Ones
  BY <1>2, Bounds DEF Recovered, Loaded
<1>6. CountersExact(c, e - 1)
  BY DEF Recovered
<1> HIDE DEF c, d, chosen
<1>7. /\ d.last = IF chosen /\ e > c.last THEN e ELSE c.last
      /\ d.maxContinue = IF chosen /\ e = c.maxContinue + 1 THEN e ELSE c.maxContinue
      /\ d.firstUnchosen = IF ~chosen /\ e < c.firstUnchosen THEN e ELSE c.firstUnchosen
      /\ d.firstValid = IF e < c.firstValid THEN e ELSE c.firstValid
      /\ d.inUse = IF e > c.inUse THEN e ELSE c.inUse
  BY <1>3, <1>4, <1>5, RowCounters
<1>8. /\ c.last \in Nat /\ c.firstUnchosen \in Nat /\ c.firstValid \in Nat /\ c.inUse \in Nat
      /\ c.maxContinue \in Nat
  BY <1>5, Bounds DEF Counters
<1>9. Largest(d.inUse, RowsTo(e))
  <2>1. Largest(c.inUse, RowsTo(e - 1))
    BY <1>6 DEF CountersExact
  <2>2. \A y \in RowsTo(e - 1) : y <= c.inUse /\ y \in Nat /\ y < e
    BY <1>2, <2>1 DEF Largest
  <2>3. c.inUse \in RowsTo(e - 1) \cup {0}
    BY <2>1 DEF Largest
  <2>4. d.inUse \in RowsTo(e) \cup {0} /\ e <= d.inUse /\ c.inUse <= d.inUse /\ d.inUse \in Nat
    BY <1>2, <1>7, <1>8, <2>3
  <2>5. \A y \in RowsTo(e) : y <= d.inUse
    BY <1>2, <1>8, <2>2, <2>4
  <2> QED BY <2>4, <2>5 DEF Largest
<1>10. Largest(d.last, ChosenTo(e))
  <2>1. Largest(c.last, ChosenTo(e - 1))
    BY <1>6 DEF CountersExact
  <2>2. \A y \in ChosenTo(e - 1) : y <= c.last /\ y \in Nat /\ y < e
    BY <1>2, <2>1 DEF Largest
  <2>3. c.last \in ChosenTo(e - 1) \cup {0}
    BY <2>1 DEF Largest
  <2>4. d.last \in ChosenTo(e) \cup {0} /\ c.last <= d.last /\ d.last \in Nat
    BY <1>2, <1>3, <1>7, <1>8, <2>3
  <2>5. e \in Chosen => e <= d.last
    BY <1>2, <1>3, <1>7, <1>8
  <2>6. \A y \in ChosenTo(e) : y <= d.last
    BY <1>2, <1>8, <2>2, <2>4, <2>5
  <2> QED BY <2>4, <2>6 DEF Largest
<1>11. Smallest(d.firstValid, RowsTo(e))
  <2>1. Smallest(c.firstValid, RowsTo(e - 1))
    BY <1>6 DEF CountersExact
  <2>2. d.firstValid \in RowsTo(e) \cup {Ones}
    BY <1>2, <1>7, <2>1 DEF Smallest
  <2>3. d.firstValid <= e /\ d.firstValid <= c.firstValid /\ d.firstValid \in Nat
    BY <1>2, <1>7, <1>8
  <2>4. \A y \in RowsTo(e) : d.firstValid <= y
    BY <1>2, <1>8, <2>1, <2>3 DEF Smallest
  <2> QED BY <2>2, <2>4 DEF Smallest
<1>12. Smallest(d.firstUnchosen, RowsTo(e) \ Chosen)
  <2>1. Smallest(c.firstUnchosen, RowsTo(e - 1) \ Chosen)
    BY <1>6 DEF CountersExact
  <2>2. d.firstUnchosen \in (RowsTo(e) \ Chosen) \cup {Ones}
    BY <1>2, <1>3, <1>7, <2>1 DEF Smallest
  <2>3. /\ e \notin Chosen => d.firstUnchosen <= e
        /\ d.firstUnchosen <= c.firstUnchosen /\ d.firstUnchosen \in Nat
    BY <1>2, <1>3, <1>7, <1>8
  <2>4. \A y \in RowsTo(e) \ Chosen : d.firstUnchosen <= y
    BY <1>2, <1>8, <2>1, <2>3 DEF Smallest
  <2> QED BY <2>2, <2>4 DEF Smallest
<1>13. /\ d.maxContinue \in Entry /\ 1 .. d.maxContinue \subseteq Chosen
       /\ d.maxContinue < e => d.maxContinue + 1 \notin Chosen
  <2>1. /\ c.maxContinue \in Entry /\ 1 .. c.maxContinue \subseteq Chosen
        /\ c.maxContinue < e - 1 => c.maxContinue + 1 \notin Chosen
    BY <1>6 DEF CountersExact
  <2>2. CASE chosen /\ e = c.maxContinue + 1
    <3>1. d.maxContinue = e /\ ~(e < e)
      BY <1>2, <1>7, <2>2
    <3>2. \A x \in 1 .. e : x \in 1 .. c.maxContinue \/ x = e
      BY <1>2, <1>8, <2>2
    <3> QED BY <1>1, <1>3, <2>1, <2>2, <3>1, <3>2
  <2>3. CASE ~(chosen /\ e = c.maxContinue + 1)
    <3>1. d.maxContinue = c.maxContinue
      BY <1>7, <2>3
    <3>2. c.maxContinue < e => c.maxContinue < e - 1 \/ e = c.maxContinue + 1
      BY <1>2, <1>8
    <3> QED BY <1>3, <2>1, <2>3, <3>1, <3>2
  <2> QED BY <2>2, <2>3
<1> QED BY <1>9, <1>10, <1>11, <1>12, <1>13 DEF CountersExact, d

LEMMA RowExact ==
    ASSUME StoredTypeOK, NEW e \in Rows, NEW s, Recovered(s, e - 1)
    PROVE  Recovered(RecoverEntry(s, e), e)
BY RowLoaded, CacheWithRow, CountersWithRow DEF Recovered

LEMMA NoRowExact ==
    ASSUME StoredTypeOK, NEW e \in Entry \ Rows, e # 0, NEW s, Recovered(s, e - 1)
    PROVE  Recovered(s, e)
<1>1. e \in Nat /\ e - 1 \in Nat /\ e \notin Chosen
  BY Bounds DEF Chosen
<1>2. RowsTo(e) = RowsTo(e - 1) /\ ChosenTo(e) = ChosenTo(e - 1)
  <2>1. {x \in Rows : x = e} = {} /\ {x \in Chosen : x = e} = {}
    BY <1>1
  <2>2. /\ RowsTo(e) = RowsTo(e - 1) \cup {x \in Rows : x = e}
        /\ ChosenTo(e) = ChosenTo(e - 1) \cup {x \in Chosen : x = e}
    BY OneMore
  <2> QED BY <2>1, <2>2
<1>3. Loaded(s, e)
  BY NoRowLoaded DEF Recovered
<1>4. CacheExact(s.cache, e)
  BY <1>2 DEF Recovered, CacheExact
<1>5. CountersExact(s.cnt, e)
  <2>1. s.cnt.maxContinue \in Nat
    BY Bounds DEF Recovered, CountersExact
  <2>2. s.cnt.maxContinue < e => s.cnt.maxContinue < e - 1 \/ s.cnt.maxContinue + 1 = e
    BY <1>1, <2>1
  <2> QED BY <1>1, <1>2, <2>2 DEF Recovered, CountersExact
<1> QED BY <1>3, <1>4, <1>5 DEF Recovered

\* All that is loaded, with what the memory then knows of it.
LEMMA RangeExact ==
    ASSUME StoredTypeOK, NEW committed \in Entry, 1 .. committed \subseteq Chosen,
           NEW n \in Entry
    PROVE  Recovered(RecoverRange(committed)[n], n)
<1> DEFINE f == RecoverRange(committed)
<1> DEFINE Missing == {k \in Entry : ~Recovered(f[k], k)}
<1>1. \A e \in Entry : f[e] = IF e = 0 THEN LoadStart(committed)
                              ELSE IF e \in Rows THEN RecoverEntry(f[e - 1], e) ELSE f[e - 1]
  BY RangeLoads
<1> HIDE DEF f
<1> SUFFICES ASSUME Missing # {} PROVE FALSE
  BY DEF f
<1>2. PICK k \in Missing : \A j \in Missing : k <= j
  <2>1. Missing \in SUBSET Nat
    BY Bounds
  <2> HIDE DEF Missing
  <2> QED BY <2>1, SmallestOf
<1>3. k # 0
  BY <1>1, StartExact, Bounds
<1>4. k \in Entry /\ k - 1 \in Entry /\ k - 1 \notin Missing
  <2>1. k \in Entry
    OBVIOUS
  <2>2. k - 1 \in Entry /\ ~(k <= k - 1)
    BY <1>3, <2>1, Bounds DEF Entry
  <2> HIDE DEF Missing
  <2> QED BY <1>2, <2>1, <2>2
<1>5. Recovered(f[k - 1], k - 1)
  BY <1>4
<1>6. f[k] = IF k \in Rows THEN RecoverEntry(f[k - 1], k) ELSE f[k - 1]
  BY <1>1, <1>3, <1>4
<1>7. Recovered(f[k], k)
  <2>1. CASE k \in Rows
    BY <1>5, <1>6, <2>1, RowExact
  <2>2. CASE k \notin Rows
    BY <1>3, <1>4, <1>5, <1>6, <2>2, NoRowExact
  <2> QED BY <2>1, <2>2
<1> QED BY <1>7

\* What is committed is chosen.
LEMMA CommittedAreChosen ==
    ASSUME StoredTypeOK, NEW committed \in Entry,
           \A e \in 1 .. committed : disk[e] # None /\ RowStatus(e) = "CHOSEN"
    PROVE  1 .. committed \subseteq Chosen
<1> SUFFICES ASSUME NEW e \in 1 .. committed PROVE e \in Chosen
  OBVIOUS
<1>1. e \in Rows
  <2>1. e \in Entry \ {0}
    BY Bounds DEF Entry
  <2> QED BY <2>1 DEF Rows
<1>2. RowStatus(e) = disk[e].p1.status
  BY <1>1, RowsAndEntries DEF RowStatus, StoredTypeOK, DiskOK
<1> QED BY <1>1, <1>2 DEF Chosen

-----------------------------------------------------------------------------
(* Requests.                                                               *)

\* A request for e changes the disk, and what is answered, at most at e.
OnlyAt(e) ==
    /\ DOMAIN disk' = Entry /\ \A f \in Entry \ {e} : disk'[f] = disk[f]
    /\ promised' \in [Entry -> Nat] /\ \A f \in Entry \ {e} : promised'[f] = promised[f]
    /\ voted' \in [Entry -> [pid : Nat, vid : Nat]]
    /\ \A f \in Entry \ {e} : voted'[f] = voted[f]

\* What leaves the cache is lost.
Evicts == lost' = lost \cup (DOMAIN cache.kv \ DOMAIN cache'.kv)

\* The cache after a request for e, and the other entries.
LEMMA CacheKept ==
    ASSUME StoredTypeOK, NEW e \in Entry, NEW y, ValueOK(y), Keep(e, y)
    PROVE  /\ CacheOK(cache)' /\ Value(e)' = y /\ e \in DOMAIN cache'.kv
           /\ DOMAIN cache'.kv \subseteq DOMAIN cache.kv \cup {e}
           /\ \A f \in Entry \ {e} : Value(f)' = Value(f) \/ Value(f)' = EmptyEntry
           /\ Evicts => \A f \in Entry \ lost' : f # e => Value(f)' = Value(f)
<1>1. /\ CacheOK(cache') /\ e \in DOMAIN cache'.kv /\ cache'.kv[e].val = y
      /\ DOMAIN cache'.kv \subseteq DOMAIN cache.kv \cup {e}
      /\ \A x \in DOMAIN cache'.kv \ {e} : cache'.kv[x] = cache.kv[x]
  BY PutOK DEF Keep, StoredTypeOK
<1>2. CacheOK(cache)' /\ Value(e)' = y
  BY <1>1 DEF CacheOK, ValueOK, VoteOK, LruOK, Value, Exists
<1>3. ASSUME NEW f \in Entry \ {e}
      PROVE  /\ Value(f)' = Value(f) \/ Value(f)' = EmptyEntry
             /\ Evicts /\ f \notin lost' => Value(f)' = Value(f)
  <2>1. CASE f \in DOMAIN cache'.kv
    BY <1>1, <2>1 DEF Value, Exists
  <2>2. CASE f \notin DOMAIN cache'.kv
    BY <1>1, <2>2 DEF Value, Exists, Evicts
  <2> QED BY <2>1, <2>2
<1> QED BY <1>1, <1>2, <1>3

\* The other entries are kept.
LEMMA OthersKept ==
    ASSUME StoredInv, NEW e \in Entry, NEW y, ValueOK(y), Keep(e, y), OnlyAt(e), Evicts,
           e \notin lost' => Kept(e)'
    PROVE  \A f \in Entry \ lost' : Kept(f)'
<1> SUFFICES ASSUME NEW f \in Entry \ lost', f # e PROVE Kept(f)'
  OBVIOUS
<1>1. Kept(f)
  BY DEF StoredInv, Evicts
<1>2. Value(f)' = Value(f)
  BY CacheKept DEF StoredInv
<1>3. promised'[f] = promised[f] /\ voted'[f] = voted[f] /\ disk'[f] = disk[f]
  BY DEF OnlyAt
<1> QED BY <1>1, <1>2, <1>3 DEF Kept, Holds, Covers

\* The entries in use, once e is among them.
LEMMA InUseAbove ==
    ASSUME CountersRight, NEW e \in Entry
    PROVE  /\ InUse(e) \in 0 .. MaxEntry /\ InUse(e) \in Entry
           /\ cnt.inUse <= InUse(e) /\ e <= InUse(e)
<1>1. cnt.inUse \in 0 .. MaxEntry /\ e \in 0 .. MaxEntry /\ MaxEntry \in Nat
  BY Bounds DEF CountersRight, Entry
<1>2. Exists(cache, e) => e <= cnt.inUse
  BY DEF CountersRight, Exists
<1>3. AboveInUse(e) <=> e > cnt.inUse
  BY <1>1, Bounds DEF AboveInUse
<1> QED BY <1>1, <1>2, <1>3 DEF InUse, Entry

\* The counters know of the other entries.
LEMMA OthersKnown ==
    ASSUME StoredTypeOK, CountersRight, NEW e \in Entry, NEW y, ValueOK(y), Keep(e, y), OnlyAt(e),
           cnt'.inUse = InUse(e), cnt'.last \in Nat, cnt.last <= cnt'.last,
           cnt'.last <= InUse(e), cnt'.global \in Entry,
           lagSeen' > cnt'.last => cnt'.global >= lagSeen', ChosenKnown(e)'
    PROVE  CountersRight'
<1>1. cnt.inUse \in 0 .. MaxEntry /\ e \in 0 .. MaxEntry /\ MaxEntry \in Nat
  BY Bounds DEF CountersRight, Entry
<1>2. InUse(e) \in Entry /\ cnt.inUse <= InUse(e) /\ e <= InUse(e)
  BY InUseAbove
<1>3. \A f \in DOMAIN cache'.kv \cup Rows' : f <= cnt'.inUse
  <2> SUFFICES ASSUME NEW f \in DOMAIN cache'.kv \cup Rows', f # e PROVE f <= InUse(e)
    BY <1>2
  <2>1. f \in DOMAIN cache.kv \cup Rows
    BY CacheKept DEF Rows, OnlyAt
  <2>2. f \in Nat /\ f <= cnt.inUse
    BY <2>1, Bounds DEF CountersRight, StoredTypeOK, CacheOK, Rows
  <2>3. cnt.inUse \in Nat
    BY <1>1
  <2>4. InUse(e) \in Nat
    BY <1>2, Bounds
  <2> QED BY <1>2, <2>2, <2>3, <2>4
<1>4. ASSUME NEW f \in Entry, f # e PROVE ChosenKnown(f)'
  <2>1. ChosenKnown(f)
    BY DEF CountersRight
  <2>2. Value(f)' = Value(f) \/ Value(f)' = EmptyEntry
    BY <1>4, CacheKept
  <2>3. disk'[f] = disk[f] /\ (f \in Rows' <=> f \in Rows)
    BY <1>4 DEF OnlyAt, Rows
  <2>4. f <= cnt.last => f <= cnt'.last
    <3>1. cnt.last \in Nat /\ f \in Nat
      BY <1>1, Bounds DEF CountersRight
    <3> QED BY <3>1
  <2>5. ~IsChosen(EmptyEntry.acc)
    BY DEF IsChosen, EmptyEntry
  <2> QED BY <2>1, <2>2, <2>3, <2>4, <2>5 DEF ChosenKnown, IsChosen
<1>5. cnt'.last \in 0 .. cnt'.inUse
  BY <1>2, Bounds
<1> QED BY <1>2, <1>3, <1>4, <1>5 DEF CountersRight

\* The types after a request for e.
LEMMA TypesKept ==
    ASSUME StoredTypeOK, NEW e \in Entry, e # 0 \/ disk' = disk,
           NEW y, ValueOK(y), Keep(e, y), OnlyAt(e), Evicts,
           disk'[e] = disk[e] \/ RowOK(disk'[e]),
           cnt' \in Counters, lagSeen' \in Nat, crashes' = crashes
    PROVE  StoredTypeOK'
<1>1. CacheOK(cache)'
  BY CacheKept
<1>2. DiskOK'
  <2>1. disk'[0] = None
    BY Bounds DEF StoredTypeOK, DiskOK, OnlyAt
  <2>2. ASSUME NEW f \in Rows' PROVE RowOK(disk'[f])
    <3>1. CASE disk'[f] = disk[f]
      BY <2>2, <3>1 DEF Rows, StoredTypeOK, DiskOK
    <3>2. CASE disk'[f] # disk[f]
      BY <2>2, <3>2 DEF Rows, OnlyAt
    <3> QED BY <3>1, <3>2
  <2> QED BY <2>1, <2>2 DEF DiskOK, RowOK, VoteOK, OnlyAt
<1>3. lost' \subseteq Entry
  BY DEF Evicts, StoredTypeOK, CacheOK
<1> QED BY <1>1, <1>2, <1>3 DEF StoredTypeOK, OnlyAt

\* The counters once a request for e is admitted.
LEMMA Admitted ==
    ASSUME StoredTypeOK, NEW e \in Entry, e # 0, Admit(e)
    PROVE  /\ cnt' \in Counters /\ lagSeen' \in Nat /\ crashes' = crashes
           /\ CountersRight =>
                /\ cnt'.inUse = InUse(e) /\ cnt'.last = cnt.last /\ cnt'.global \in Entry
                /\ lagSeen' > cnt'.last => cnt'.global >= lagSeen'
                /\ e > cnt.last
<1>1. e \in 1 .. MaxEntry /\ MaxEntry \in Nat /\ Ones = MaxEntry + 1
  BY Bounds DEF Entry
<1>2. /\ cnt.inUse \in 0 .. Ones /\ cnt.last \in 0 .. Ones /\ cnt.global \in 0 .. Ones
      /\ cnt \in Counters /\ lagSeen \in Nat
  BY DEF StoredTypeOK, Counters
<1>3. InUse(e) \in 0 .. Ones
  BY <1>1, <1>2 DEF InUse
<1>4. Raised(cnt.global, Remote(e)) \in 0 .. Ones
  BY <1>1, <1>2 DEF Raised, Remote
<1>5. /\ cnt' \in Counters /\ cnt'.inUse = InUse(e) /\ cnt'.last = cnt.last
      /\ cnt'.global = IF Remote(e) > cnt.last THEN Raised(cnt.global, Remote(e)) ELSE cnt.global
  BY <1>2, <1>3, <1>4 DEF Admit, Noted, Counters
<1>6. lagSeen' = (IF lagSeen >= Remote(e) THEN lagSeen ELSE Remote(e)) /\ lagSeen' \in Nat
  BY <1>1, <1>2, MaxOfTwo DEF Admit, Remote
<1>7. ASSUME CountersRight
      PROVE  /\ cnt'.global \in Entry /\ e > cnt.last
             /\ lagSeen' > cnt'.last => cnt'.global >= lagSeen'
  <2>1. /\ cnt.global \in 0 .. MaxEntry /\ cnt.last \in 0 .. MaxEntry
        /\ lagSeen > cnt.last => cnt.global >= lagSeen
    BY <1>1, <1>7 DEF CountersRight, Entry
  <2>2. e > cnt.last
    BY <1>1, <2>1 DEF Admit, RemoteLags
  <2> QED BY <1>1, <1>2, <1>5, <1>6, <2>1, <2>2 DEF Raised, Remote, Entry
<1> QED BY <1>5, <1>6, <1>7 DEF Admit

\* What is left to show of a request that is admitted.
LEMMA AdmitKeeps ==
    ASSUME StoredInv, NEW e \in Entry, e # 0, Admit(e), NEW y, ValueOK(y), Keep(e, y), OnlyAt(e),
           Evicts, trouble' = trouble,
           disk'[e] = disk[e] \/ RowOK(disk'[e]),
           Kept(e) => Kept(e)',
           IsChosen(y.acc) => IsChosen(Fetch(e).acc),
           disk'[e] # disk[e] /\ IsChosen(disk'[e].p1) => IsChosen(Fetch(e).acc)
    PROVE  StoredInv'
<1>1. StoredTypeOK'
  BY TypesKept, Admitted DEF StoredInv
<1>2. \A f \in Entry \ lost' : Kept(f)'
  <2>1. e \notin lost' => Kept(e)'
    BY DEF Evicts, StoredInv
  <2> QED BY <2>1, OthersKept
<1>3. ASSUME Loads' PROVE CountersRight'
  <2>1. CountersRight
    BY <1>3 DEF Loads, StoredInv
  <2>2. /\ cnt'.inUse = InUse(e) /\ cnt'.last = cnt.last /\ cnt'.global \in Entry
        /\ lagSeen' > cnt'.last => cnt'.global >= lagSeen'
        /\ e > cnt.last
    BY <2>1, Admitted DEF StoredInv
  <2>3. Fetch(e) = Value(e) /\ Value(e)' = y
    BY <2>1, Fetched, CacheKept DEF StoredInv
  <2>4. e \in Nat /\ cnt.last \in Nat /\ cnt.inUse \in Nat /\ cnt.last <= cnt.inUse
    BY <2>1, Bounds DEF CountersRight
  <2>5. ~(e <= cnt.last) /\ ChosenKnown(e)
    BY <2>1, <2>2, <2>4 DEF CountersRight
  <2>6. ~IsChosen(Value(e).acc) /\ (e \in Rows => ~IsChosen(disk[e].p1))
    BY <2>5 DEF ChosenKnown
  <2>7. ChosenKnown(e)'
    <3>1. ~IsChosen(Value(e).acc)'
      BY <2>3, <2>6 DEF IsChosen
    <3>2. e \in Rows' => ~IsChosen(disk'[e].p1)
      BY <2>3, <2>6 DEF Rows
    <3> QED BY <3>1, <3>2 DEF ChosenKnown, IsChosen
  <2>8. cnt.inUse <= InUse(e)
    BY <2>1, <2>4, Bounds DEF InUse, AboveInUse, CountersRight, Entry
  <2>9. cnt'.last \in Nat /\ cnt.last <= cnt'.last /\ cnt'.last <= InUse(e)
    <3>1. InUse(e) \in Nat
      BY <2>4 DEF InUse
    <3> QED BY <2>2, <2>4, <2>8, <3>1
  <2> QED BY <2>1, <2>2, <2>7, <2>9, OthersKnown DEF StoredInv
<1> QED BY <1>1, <1>2, <1>3 DEF StoredInv

-----------------------------------------------------------------------------
(* The handlers, one by one.                                               *)

\* What every handler may rely on.
LEMMA Before ==
    ASSUME StoredInv, NEW e \in 1 .. MaxEntry
    PROVE  /\ e \in Entry /\ e # 0 /\ ValueOK(Fetch(e)) /\ (Kept(e) => Fetch(e) = Value(e))
           /\ DOMAIN disk = Entry /\ promised \in [Entry -> Nat] /\ promised[e] \in Nat
           /\ voted \in [Entry -> [pid : Nat, vid : Nat]] /\ voted[e].pid \in Nat
           /\ Fetch(e) = [acc |-> Fetch(e).acc, prom |-> Fetch(e).prom]
           /\ Fetch(e).prom # None => Fetch(e).prom \in Proposal /\ Fetch(e).prom.pid \in Nat
           /\ Fetch(e).acc # None =>
                Fetch(e).acc \in Proposal /\ Fetch(e).acc.pid \in Nat /\ VoteOK(Fetch(e).acc)
<1>1. e \in Entry /\ e # 0
  BY Bounds DEF Entry
<1>2. ValueOK(Fetch(e)) /\ (Kept(e) => Fetch(e) = Value(e))
  BY <1>1, Fetched DEF StoredInv
<1>3. /\ DOMAIN disk = Entry /\ promised \in [Entry -> Nat]
      /\ voted \in [Entry -> [pid : Nat, vid : Nat]]
  BY DEF StoredInv, StoredTypeOK, DiskOK
<1>4. promised[e] \in Nat /\ voted[e].pid \in Nat
  BY <1>1, <1>3
<1> DEFINE x == Fetch(e)
<1>5. /\ x = [acc |-> x.acc, prom |-> x.prom]
      /\ x.prom # None => x.prom \in Proposal /\ x.prom.pid \in Nat
      /\ x.acc # None => x.acc \in Proposal /\ x.acc.pid \in Nat /\ VoteOK(x.acc)
  <2> HIDE DEF x
  <2>1. x \in EntryRec /\ (x.acc # None => VoteOK(x.acc))
    BY <1>2 DEF ValueOK, x
  <2>2. x.prom \in Proposal \cup {None} /\ x.acc \in Proposal \cup {None}
        /\ x = [acc |-> x.acc, prom |-> x.prom]
    BY <2>1 DEF EntryRec
  <2> QED BY <2>1, <2>2 DEF Proposal
<1> QED BY <1>1, <1>2, <1>3, <1>4, <1>5

\* A larger promise given to a proposer, or none.
LEMMA PromiseRaised ==
    ASSUME StoredInv, NEW e \in 1 .. MaxEntry, NEW pid \in Nat,
           promised' = promised \/ promised' = [promised EXCEPT ![e] = Max({@, pid})]
    PROVE  /\ promised' \in [Entry -> Nat] /\ \A f \in Entry \ {e} : promised'[f] = promised[f]
           /\ promised'[e] = promised[e] \/ (promised'[e] >= promised[e] /\ promised'[e] \in {promised[e], pid})
<1>1. e \in Entry /\ promised \in [Entry -> Nat] /\ promised[e] \in Nat
  BY Before
<1>2. Max({promised[e], pid}) = IF promised[e] >= pid THEN promised[e] ELSE pid
  BY <1>1, MaxOfTwo
<1>3. CASE promised' = promised
  BY <1>1, <1>3
<1>4. CASE promised' = [promised EXCEPT ![e] = Max({@, pid})]
  BY <1>1, <1>2, <1>4
<1> QED BY <1>3, <1>4

LEMMA SeenKeeps ==
    ASSUME StoredInv, NEW e \in 1 .. MaxEntry, NEW pid \in 0 .. MaxPid, PrepareSeen(e, pid),
           Evicts, trouble' = trouble
    PROVE  StoredInv'
<1> PICK x : x = Fetch(e)
  OBVIOUS
<1>1. /\ e \in Entry /\ e # 0 /\ ValueOK(x) /\ Admit(e) /\ Keep(e, x)
      /\ disk' = disk /\ voted' = voted /\ pid \in Nat
      /\ promised' = [promised EXCEPT ![e] =
            IF x.acc = None /\ x.prom # None /\ x.prom.pid = pid THEN Max({@, pid}) ELSE @]
  BY Before, StoredAssumption DEF PrepareSeen
<1>2. \/ promised' = promised
      \/ /\ x.acc = None /\ x.prom # None /\ x.prom.pid = pid
         /\ promised' = [promised EXCEPT ![e] = Max({@, pid})]
  BY <1>1, Before
<1>3. /\ promised' \in [Entry -> Nat] /\ \A f \in Entry \ {e} : promised'[f] = promised[f]
      /\ promised'[e] = promised[e] \/ promised'[e] = pid
  BY <1>1, <1>2, PromiseRaised
<1>4. OnlyAt(e)
  BY <1>1, <1>3, Before DEF OnlyAt
<1>5. ASSUME Kept(e) PROVE Kept(e)'
  <2>1. Value(e) = x /\ Value(e)' = x
    BY <1>1, <1>5, Before, CacheKept DEF StoredInv
  <2>2. Holds(x, e) /\ (voted[e] # NoVote => disk[e] # None /\ Covers(disk[e].p1, e))
    BY <1>5, <2>1 DEF Kept
  <2>3. x.acc = None =>
          voted[e] = NoVote /\ promised'[e] <= (IF x.prom = None THEN 0 ELSE x.prom.pid)
    BY <1>1, <1>2, <1>3, <2>2 DEF Holds
  <2>4. x.acc # None => promised'[e] = promised[e]
    BY <1>2
  <2> QED BY <1>1, <2>1, <2>2, <2>3, <2>4 DEF Kept, Holds, Covers
<1> QED BY <1>1, <1>4, <1>5, AdmitKeeps

LEMMA NewKeeps ==
    ASSUME StoredInv, NEW e \in 1 .. MaxEntry, NEW pid \in 0 .. MaxPid, PrepareNew(e, pid),
           Evicts, trouble' = trouble
    PROVE  StoredInv'
<1> PICK x : x = Fetch(e)
  OBVIOUS
<1> PICK p : p = [pid |-> pid, vid |-> 0, status |-> "PROMISED"]
  OBVIOUS
<1> PICK y : y = [x EXCEPT !.prom = p]
  OBVIOUS
<1>1. /\ e \in Entry /\ e # 0 /\ ValueOK(x) /\ Admit(e) /\ Keep(e, y) /\ pid \in Nat \ {0}
      /\ x.acc = None /\ (x.prom # None => x.prom.pid \in Nat /\ x.prom.pid < pid)
      /\ voted' = voted /\ x = [acc |-> x.acc, prom |-> x.prom]
      /\ \/ disk' = [disk EXCEPT ![e] = SerializeTo(y)]
            /\ promised' = [promised EXCEPT ![e] = Max({@, pid})]
         \/ disk' = disk /\ promised' = promised
  <2>1. pid \in Nat \ {0}
    BY StoredAssumption DEF PrepareNew
  <2> QED BY <2>1, Before DEF PrepareNew, Save
<1>2. p \in Proposal /\ p # None /\ p.pid = pid
  BY <1>1, NoneAssumption DEF Proposal
<1>3. y = [acc |-> None, prom |-> p] /\ y.acc = None /\ y.prom = p
  BY <1>1
<1>4. ValueOK(y) /\ y # EmptyEntry
  <2>1. y \in EntryRec
    BY <1>2, <1>3 DEF EntryRec
  <2>2. EmptyEntry.prom = None
    BY DEF EmptyEntry
  <2> QED BY <1>2, <1>3, <2>1, <2>2 DEF ValueOK
<1>5. RowOK(SerializeTo(y)) /\ SerializeTo(y).p1 = Dummy /\ SerializeTo(y) # None
  BY <1>3, <1>4, RowsAndEntries, Zenon
<1>6. /\ promised' \in [Entry -> Nat] /\ \A f \in Entry \ {e} : promised'[f] = promised[f]
      /\ promised'[e] = promised[e] \/ promised'[e] = pid
  BY <1>1, PromiseRaised
<1>7. /\ DOMAIN disk' = Entry /\ \A f \in Entry \ {e} : disk'[f] = disk[f]
      /\ disk'[e] = disk[e] \/ disk'[e] = SerializeTo(y)
  BY <1>1, Before
<1>8. OnlyAt(e)
  BY <1>1, <1>6, <1>7, Before DEF OnlyAt
<1>9. ASSUME Kept(e) PROVE Kept(e)'
  <2>1. Value(e) = x /\ Value(e)' = y
    BY <1>1, <1>4, <1>9, Before, CacheKept DEF StoredInv
  <2>2. voted[e] = NoVote /\ promised[e] <= (IF x.prom = None THEN 0 ELSE x.prom.pid)
    BY <1>1, <1>9, <2>1 DEF Kept, Holds
  <2>3. promised'[e] <= pid
    BY <1>1, <1>6, <2>2, Before
  <2>4. voted'[e] = NoVote /\ y.acc = None /\ y.prom = p
    BY <1>1, <1>2, <1>3, <2>2
  <2> QED BY <1>2, <1>4, <2>1, <2>3, <2>4 DEF Kept, Holds
<1>10. ~IsChosen(y.acc) /\ ~IsChosen(Dummy)
  BY <1>3 DEF IsChosen, Dummy
<1> QED BY <1>1, <1>4, <1>5, <1>7, <1>8, <1>9, <1>10, AdmitKeeps

\* A row that is saved, or not.
LEMMA RowSaved ==
    ASSUME StoredInv, NEW e \in 1 .. MaxEntry, NEW z, ValueOK(z),
           disk' = disk \/ Save(e, z)
    PROVE  /\ DOMAIN disk' = Entry /\ \A f \in Entry \ {e} : disk'[f] = disk[f]
           /\ disk'[e] = disk[e] \/ RowOK(disk'[e])
           /\ Save(e, z) => /\ disk'[e] # None
                            /\ disk'[e].p1 = IF z.acc = None THEN Dummy ELSE z.acc
<1>1. e \in Entry /\ DOMAIN disk = Entry
  BY Before
<1>2. /\ RowOK(SerializeTo(z)) /\ SerializeTo(z) # None
      /\ SerializeTo(z).p1 = IF z.acc = None THEN Dummy ELSE z.acc
  BY RowsAndEntries, Zenon
<1>3. CASE disk' = disk /\ ~Save(e, z)
  BY <1>1, <1>3
<1>4. CASE Save(e, z)
  <2>1. DOMAIN disk' = Entry /\ disk'[e] = SerializeTo(z) /\ \A f \in Entry \ {e} : disk'[f] = disk[f]
    BY <1>1, <1>4 DEF Save
  <2> QED BY <1>2, <2>1
<1> QED BY <1>3, <1>4

\* A new vote is no less than what has been answered.
LEMMA VoteAbove ==
    ASSUME StoredInv, NEW e \in 1 .. MaxEntry, NEW pid \in 1 .. MaxPid, NEW vid \in Vid,
           AcceptVotes(e, pid, vid), Kept(e)
    PROVE  promised[e] <= pid /\ voted[e].pid < pid
<1> PICK x : x = Fetch(e)
  OBVIOUS
<1>1. /\ e \in Entry /\ pid \in Nat /\ pid > 0
      /\ \/ x.acc = None /\ (x.prom # None => x.prom.pid \in Nat /\ x.prom.pid <= pid)
         \/ /\ x.acc # None /\ x.acc.status = "ACCEPTED"
            /\ x.acc.pid \in Nat /\ x.acc.pid < pid
      /\ Holds(x, e)
  <2>1. pid \in Nat /\ pid > 0
    BY StoredAssumption
  <2>2. Holds(x, e)
    BY Before DEF Kept
  <2> QED BY <2>1, <2>2, Before DEF AcceptVotes
<1>2. CASE x.acc = None
  <2>1. voted[e] = NoVote /\ promised[e] <= pid
    BY <1>1, <1>2, Before DEF Holds
  <2> QED BY <1>1, <2>1 DEF NoVote
<1>3. CASE x.acc # None
  BY <1>1, <1>3, Before DEF Holds, Covers
<1> QED BY <1>2, <1>3

LEMMA VotesKeeps ==
    ASSUME StoredInv, NEW e \in 1 .. MaxEntry, NEW pid \in 1 .. MaxPid, NEW vid \in Vid,
           AcceptVotes(e, pid, vid), Evicts, trouble' = trouble
    PROVE  StoredInv'
<1> PICK x : x = Fetch(e)
  OBVIOUS
<1> PICK p : p = [pid |-> pid, vid |-> vid, status |-> "ACCEPTED"]
  OBVIOUS
<1> PICK y : y = [x EXCEPT !.acc = p]
  OBVIOUS
<1> PICK z : z \in {y, [y EXCEPT !.prom = None]} /\ Keep(e, z)
             /\ \/ /\ Save(e, y)
                   /\ voted' = [voted EXCEPT ![e] = [pid |-> pid, vid |-> vid]]
                \/ disk' = disk /\ voted' = voted
  BY Zenon DEF AcceptVotes
<1>1. /\ e \in Entry /\ e # 0 /\ ValueOK(x) /\ Admit(e)
      /\ pid \in Nat /\ vid \in Nat /\ pid > 0
      /\ \/ x.acc = None /\ (x.prom # None => x.prom.pid \in Nat /\ x.prom.pid <= pid)
         \/ /\ x.acc # None /\ x.acc.status = "ACCEPTED"
            /\ x.acc.pid \in Nat /\ x.acc.pid < pid
      /\ promised' = promised /\ x = [acc |-> x.acc, prom |-> x.prom]
  <2>1. pid \in Nat /\ vid \in Nat /\ pid > 0
    BY StoredAssumption
  <2> QED BY <2>1, Before DEF AcceptVotes
<1>2. p \in Proposal /\ p # None /\ VoteOK(p) /\ p.pid = pid /\ p.vid = vid /\ ~IsChosen(p)
  BY <1>1, NoneAssumption DEF Proposal, VoteOK, IsChosen
<1>3. y = [acc |-> p, prom |-> x.prom] /\ y.acc = p /\ y.prom = x.prom
  BY <1>1
<1>4. z.acc = p /\ z.prom \in {x.prom, None} /\ z = [acc |-> p, prom |-> z.prom]
  BY <1>3
<1>5. ValueOK(y) /\ ValueOK(z) /\ z # EmptyEntry
  <2>1. x.prom \in Proposal \cup {None}
    BY <1>1 DEF ValueOK, EntryRec
  <2>2. y \in EntryRec /\ z \in EntryRec
    BY <1>2, <1>3, <1>4, <2>1 DEF EntryRec
  <2>3. EmptyEntry.acc = None
    BY DEF EmptyEntry
  <2> QED BY <1>2, <1>3, <1>4, <2>2, <2>3 DEF ValueOK
<1>6. /\ DOMAIN disk' = Entry /\ \A f \in Entry \ {e} : disk'[f] = disk[f]
      /\ disk'[e] = disk[e] \/ RowOK(disk'[e])
      /\ Save(e, y) => disk'[e] # None /\ disk'[e].p1 = p
  BY <1>2, <1>3, <1>5, RowSaved
<1>7. /\ voted' \in [Entry -> [pid : Nat, vid : Nat]]
      /\ \A f \in Entry \ {e} : voted'[f] = voted[f]
      /\ \/ Save(e, y) /\ voted'[e].pid = pid /\ voted'[e].vid = vid
         \/ disk' = disk /\ voted' = voted
  BY <1>1, Before
<1>8. OnlyAt(e)
  BY <1>1, <1>6, <1>7, Before DEF OnlyAt
<1>9. ASSUME Kept(e) PROVE Kept(e)'
  <2>1. Value(e) = x /\ Value(e)' = z
    BY <1>1, <1>5, <1>9, Before, CacheKept DEF StoredInv
  <2>2. Holds(x, e) /\ (voted[e] # NoVote => disk[e] # None /\ Covers(disk[e].p1, e))
    BY <1>9, <2>1 DEF Kept
  <2>3. promised'[e] <= pid /\ voted[e].pid < pid
    BY <1>1, <1>9, VoteAbove
  <2>4. Covers(p, e)'
    BY <1>2, <1>7, <2>3 DEF Covers
  <2>5. voted'[e] # NoVote => disk'[e] # None /\ Covers(disk[e].p1, e)'
    BY <1>6, <1>7, <2>2, <2>4 DEF Covers
  <2> QED BY <1>2, <1>4, <1>5, <2>1, <2>3, <2>4, <2>5 DEF Kept, Holds, Covers
<1>10. ~IsChosen(z.acc)
  BY <1>2, <1>4
<1>11. disk'[e] # disk[e] => ~IsChosen(disk'[e].p1)
  BY <1>2, <1>6, <1>7
<1> QED BY <1>1, <1>5, <1>6, <1>8, <1>9, <1>10, <1>11, AdmitKeeps

LEMMA DuplicateKeeps ==
    ASSUME StoredInv, NEW e \in 1 .. MaxEntry, NEW pid \in 1 .. MaxPid, NEW vid \in Vid,
           AcceptDuplicate(e, pid, vid), Evicts, trouble' = trouble
    PROVE  StoredInv'
<1> PICK x : x = Fetch(e)
  OBVIOUS
<1> PICK y : y = [x EXCEPT !.prom = None]
  OBVIOUS
<1>1. /\ e \in Entry /\ e # 0 /\ ValueOK(x) /\ Admit(e) /\ Keep(e, y)
      /\ x.acc # None /\ x.acc.status \in {"ACCEPTED", "CHOSEN"}
      /\ promised' = promised /\ voted' = voted /\ x = [acc |-> x.acc, prom |-> x.prom]
      /\ Save(e, y) \/ disk' = disk
  BY Before DEF AcceptDuplicate
<1>2. y = [acc |-> x.acc, prom |-> None] /\ y.acc = x.acc
  BY <1>1
<1>3. ValueOK(y) /\ y # EmptyEntry
  <2>1. x.acc \in Proposal \cup {None} /\ VoteOK(x.acc)
    BY <1>1 DEF ValueOK, EntryRec
  <2>2. y \in EntryRec
    BY <1>2, <2>1 DEF EntryRec
  <2>3. EmptyEntry.acc = None
    BY DEF EmptyEntry
  <2> QED BY <1>1, <1>2, <2>1, <2>2, <2>3 DEF ValueOK
<1>4. /\ DOMAIN disk' = Entry /\ \A f \in Entry \ {e} : disk'[f] = disk[f]
      /\ disk'[e] = disk[e] \/ RowOK(disk'[e])
      /\ Save(e, y) => disk'[e] # None /\ disk'[e].p1 = x.acc
  BY <1>1, <1>2, <1>3, RowSaved
<1>5. OnlyAt(e)
  BY <1>1, <1>4, Before DEF OnlyAt
<1>6. ASSUME Kept(e) PROVE Kept(e)'
  <2>1. Value(e) = x /\ Value(e)' = y
    BY <1>1, <1>3, <1>6, Before, CacheKept DEF StoredInv
  <2>2. Holds(x, e) /\ (voted[e] # NoVote => disk[e] # None /\ Covers(disk[e].p1, e))
    BY <1>6, <2>1 DEF Kept
  <2>3. promised[e] <= x.acc.pid /\ Covers(x.acc, e)
    BY <1>1, <2>2 DEF Holds
  <2>4. Save(e, y) \/ disk'[e] = disk[e]
    BY <1>1
  <2> QED BY <1>1, <1>2, <1>3, <1>4, <2>1, <2>2, <2>3, <2>4 DEF Kept, Holds, Covers
<1>7. IsChosen(y.acc) => IsChosen(x.acc)
  BY <1>2
<1>8. disk'[e] # disk[e] /\ IsChosen(disk'[e].p1) => IsChosen(x.acc)
  BY <1>1, <1>4
<1> QED BY <1>1, <1>3, <1>4, <1>5, <1>6, <1>7, <1>8, AdmitKeeps

LEMMA RefusedKeeps ==
    ASSUME StoredInv, NEW e \in 1 .. MaxEntry, NEW pid \in 1 .. MaxPid, NEW vid \in Vid,
           AcceptRefused(e, pid, vid), Evicts, trouble' = trouble
    PROVE  StoredInv'
<1> PICK x : x = Fetch(e)
  OBVIOUS
<1>1. /\ e \in Entry /\ e # 0 /\ ValueOK(x) /\ Admit(e) /\ Keep(e, x)
      /\ disk' = disk /\ promised' = promised /\ voted' = voted
  BY Before DEF AcceptRefused
<1>2. OnlyAt(e)
  BY <1>1, Before DEF OnlyAt
<1>3. ASSUME Kept(e) PROVE Kept(e)'
  <2>1. Value(e) = x /\ Value(e)' = x
    BY <1>1, <1>3, Before, CacheKept DEF StoredInv
  <2> QED BY <1>1, <1>3, <2>1 DEF Kept, Holds, Covers
<1> QED BY <1>1, <1>2, <1>3, AdmitKeeps

\* An entry is looked up and nothing else.
LEMMA TouchKeeps ==
    ASSUME StoredInv, NEW e \in Entry, Keep(e, Fetch(e)), Evicts,
           cnt' = [cnt EXCEPT !.inUse = InUse(e)],
           UNCHANGED <<disk, promised, voted, lagSeen, crashes, trouble>>
    PROVE  StoredInv'
<1> PICK x : x = Fetch(e)
  OBVIOUS
<1>1. /\ ValueOK(x) /\ Keep(e, x) /\ StoredTypeOK
      /\ Kept(e) => Value(e) = x
      /\ CountersRight => Value(e) = x
  BY Fetched DEF StoredInv
<1>2. OnlyAt(e)
  BY DEF OnlyAt, StoredInv, StoredTypeOK, DiskOK
<1>3. Value(e)' = x
  BY <1>1, CacheKept
<1>4. cnt \in Counters /\ InUse(e) \in 0 .. Ones
  <2>1. cnt.inUse \in 0 .. Ones /\ e \in 0 .. Ones
    BY <1>1, Bounds DEF StoredTypeOK, Counters, Entry
  <2> QED BY <1>1, <2>1 DEF InUse, StoredTypeOK
<1>5. /\ cnt' \in Counters /\ cnt'.inUse = InUse(e)
      /\ cnt'.last = cnt.last /\ cnt'.global = cnt.global
  BY <1>4 DEF Counters
<1>6. StoredTypeOK'
  <2>1. lagSeen' \in Nat
    BY <1>1 DEF StoredTypeOK
  <2> QED BY <1>1, <1>2, <1>5, <2>1, TypesKept
<1>7. \A f \in Entry \ lost' : Kept(f)'
  <2>1. Kept(e) => Kept(e)'
    BY <1>1, <1>3 DEF Kept, Holds, Covers
  <2>2. e \notin lost' => Kept(e)'
    BY <2>1 DEF StoredInv, Evicts
  <2> QED BY <1>1, <1>2, <2>2, OthersKept
<1>8. ASSUME CountersRight PROVE CountersRight'
  <2>1. /\ cnt.last \in Nat /\ cnt.last <= cnt.inUse /\ cnt.global \in Entry
        /\ cnt.inUse \in Nat /\ ChosenKnown(e)
        /\ lagSeen > cnt.last => cnt.global >= lagSeen
    BY <1>8, Bounds DEF CountersRight
  <2>2. cnt.last <= InUse(e)
    <3>1. InUse(e) \in Nat /\ cnt.inUse <= InUse(e)
      BY <1>8, InUseAbove
    <3> QED BY <2>1, <3>1
  <2>3. ChosenKnown(e)'
    BY <1>1, <1>3, <1>5, <1>8, <2>1 DEF ChosenKnown, Rows, IsChosen
  <2> QED BY <1>1, <1>2, <1>5, <1>8, <2>1, <2>2, <2>3, OthersKnown
<1> QED BY <1>6, <1>7, <1>8 DEF StoredInv, Loads

\* The vote that is there is marked CHOSEN, and saved so.
LEMMA MarkedKeeps ==
    ASSUME StoredInv, NEW e \in 1 .. MaxEntry, NEW x, x = Fetch(e),
           x.acc # None, x.acc.status = "ACCEPTED",
           NEW y, y = [x EXCEPT !.acc.status = "CHOSEN"], Keep(e, y), Save(e, y),
           cnt' = [cnt EXCEPT !.inUse = InUse(e), !.last = Raised(@, e), !.global = Raised(@, e)],
           UNCHANGED <<promised, voted, lagSeen, crashes, trouble>>, Evicts
    PROVE  StoredInv'
<1>1. /\ e \in Entry /\ e # 0 /\ ValueOK(x) /\ StoredTypeOK
      /\ x = [acc |-> x.acc, prom |-> x.prom] /\ x.acc \in Proposal
      /\ Kept(e) => Value(e) = x
  BY Before DEF StoredInv
<1> PICK p : p = [x.acc EXCEPT !.status = "CHOSEN"]
  OBVIOUS
<1>2. /\ p \in Proposal /\ p # None /\ VoteOK(p) /\ p.status = "CHOSEN"
      /\ p.pid = x.acc.pid /\ p.vid = x.acc.vid
  BY <1>1, NoneAssumption DEF Proposal, VoteOK
<1>3. y = [acc |-> p, prom |-> x.prom] /\ y.acc = p
  BY <1>1
<1>4. ValueOK(y) /\ y # EmptyEntry
  <2>1. x.prom \in Proposal \cup {None}
    BY <1>1 DEF ValueOK, EntryRec
  <2>2. y \in EntryRec
    BY <1>2, <1>3, <2>1 DEF EntryRec
  <2>3. EmptyEntry.acc = None
    BY DEF EmptyEntry
  <2> QED BY <1>2, <1>3, <2>2, <2>3 DEF ValueOK
<1>5. /\ DOMAIN disk' = Entry /\ \A f \in Entry \ {e} : disk'[f] = disk[f]
      /\ disk'[e] = disk[e] \/ RowOK(disk'[e])
      /\ disk'[e] # None /\ disk'[e].p1 = p
  BY <1>2, <1>3, <1>4, RowSaved
<1>6. OnlyAt(e)
  BY <1>5, Before DEF OnlyAt
<1>7. Value(e)' = y
  BY <1>1, <1>4, CacheKept
<1>8. \A f \in Entry \ lost' : Kept(f)'
  <2>1. ASSUME Kept(e) PROVE Kept(e)'
    <3>1. promised[e] <= p.pid /\ Covers(p, e)
      BY <1>1, <1>2, <2>1 DEF Kept, Holds, Covers
    <3> QED BY <1>2, <1>3, <1>4, <1>5, <1>7, <3>1 DEF Kept, Holds, Covers
  <2>2. e \notin lost' => Kept(e)'
    BY <1>1, <2>1 DEF StoredInv, Evicts
  <2> QED BY <1>1, <1>4, <1>6, <2>2, OthersKept
<1>9. /\ e \in 0 .. MaxEntry /\ MaxEntry \in Nat /\ Ones = MaxEntry + 1 /\ cnt \in Counters
      /\ cnt.inUse \in 0 .. Ones /\ cnt.last \in 0 .. Ones /\ cnt.global \in 0 .. Ones
  BY <1>1, Bounds DEF StoredTypeOK, Counters, Entry
<1>10. /\ cnt' \in Counters /\ cnt'.inUse = InUse(e)
       /\ cnt'.last = Raised(cnt.last, e) /\ cnt'.global = Raised(cnt.global, e)
  <2>1. InUse(e) \in 0 .. Ones /\ Raised(cnt.last, e) \in 0 .. Ones
        /\ Raised(cnt.global, e) \in 0 .. Ones
    BY <1>9 DEF InUse, Raised
  <2> QED BY <1>9, <2>1 DEF Counters
<1>11. StoredTypeOK'
  <2>1. lagSeen' \in Nat
    BY <1>1 DEF StoredTypeOK
  <2> QED BY <1>1, <1>4, <1>5, <1>6, <1>10, <2>1, TypesKept
<1>12. ASSUME CountersRight PROVE CountersRight'
  <2>1. /\ cnt.last \in 0 .. MaxEntry /\ cnt.last <= cnt.inUse /\ cnt.global \in 0 .. MaxEntry
        /\ cnt.inUse \in 0 .. MaxEntry /\ (lagSeen > cnt.last => cnt.global >= lagSeen)
    BY <1>9, <1>12, Bounds DEF CountersRight, Entry
  <2>2. InUse(e) \in 0 .. MaxEntry /\ cnt.inUse <= InUse(e) /\ e <= InUse(e)
    BY <1>1, <1>12, InUseAbove
  <2>3. /\ cnt'.last = (IF cnt.last < e THEN e ELSE cnt.last)
        /\ cnt'.global = (IF cnt.global < e THEN e ELSE cnt.global)
    BY <1>9, <1>10, <2>1 DEF Raised
  <2>4. /\ cnt'.last \in Nat /\ cnt.last <= cnt'.last /\ cnt'.last <= InUse(e)
        /\ cnt'.global \in Entry /\ e <= cnt'.last
    BY <1>9, <2>1, <2>2, <2>3 DEF Entry
  <2>5. lagSeen' > cnt'.last => cnt'.global >= lagSeen'
    <3>1. lagSeen \in Nat
      BY <1>1 DEF StoredTypeOK
    <3> QED BY <1>9, <2>1, <2>3, <3>1
  <2>6. ChosenKnown(e)'
    <3>1. IsChosen(Value(e).acc)'
      BY <1>2, <1>3, <1>7 DEF IsChosen
    <3> QED BY <2>4, <3>1 DEF ChosenKnown
  <2> QED BY <1>1, <1>4, <1>6, <1>10, <1>12, <2>4, <2>5, <2>6, OthersKnown
<1> QED BY <1>8, <1>11, <1>12 DEF StoredInv, Loads

LEMMA ChosenKeeps ==
    ASSUME StoredInv, NEW e \in 1 .. MaxEntry, NEW pid \in 1 .. MaxPid, NEW vid \in Vid,
           HandleChosenReq(e, pid, vid), Evicts, trouble' = trouble
    PROVE  StoredInv'
<1> PICK x : x = Fetch(e)
  OBVIOUS
<1> DEFINE matches == x.acc # None /\ x.acc.pid = pid /\ x.acc.vid = vid /\ x.acc.status # "CHOSEN"
<1>1. matches => x.acc.status = "ACCEPTED" /\ [x EXCEPT !.acc.status = "ACCEPTED"] = x
  <2> SUFFICES ASSUME matches
               PROVE  x.acc.status = "ACCEPTED" /\ [x EXCEPT !.acc.status = "ACCEPTED"] = x
    OBVIOUS
  <2>1. /\ x = [acc |-> x.acc, prom |-> x.prom] /\ x.acc \in Proposal /\ VoteOK(x.acc)
    BY Before
  <2>2. x.acc.status = "ACCEPTED"
    BY <2>1 DEF VoteOK, Dummy
  <2>3. [x.acc EXCEPT !.status = "ACCEPTED"] = x.acc
    BY <2>1, <2>2 DEF Proposal
  <2> QED BY <2>1, <2>2, <2>3
<1>2. \/ /\ matches
         /\ Keep(e, [x EXCEPT !.acc.status = "CHOSEN"]) /\ Save(e, [x EXCEPT !.acc.status = "CHOSEN"])
         /\ cnt' = [cnt EXCEPT !.inUse = InUse(e), !.last = Raised(@, e), !.global = Raised(@, e)]
      \/ /\ Keep(e, IF matches THEN [x EXCEPT !.acc.status = "ACCEPTED"] ELSE x)
         /\ cnt' = [cnt EXCEPT !.inUse = InUse(e)]
         /\ disk' = disk
  BY DEF HandleChosenReq
<1>3. UNCHANGED <<promised, voted, lagSeen, crashes, trouble>> /\ e \in Entry
  BY Before DEF HandleChosenReq
<1>4. CASE matches /\ Keep(e, [x EXCEPT !.acc.status = "CHOSEN"])
           /\ Save(e, [x EXCEPT !.acc.status = "CHOSEN"])
           /\ cnt' = [cnt EXCEPT !.inUse = InUse(e), !.last = Raised(@, e), !.global = Raised(@, e)]
  BY <1>1, <1>3, <1>4, MarkedKeeps
<1>5. CASE Keep(e, IF matches THEN [x EXCEPT !.acc.status = "ACCEPTED"] ELSE x)
           /\ cnt' = [cnt EXCEPT !.inUse = InUse(e)] /\ disk' = disk
  <2>1. Keep(e, x)
    BY <1>1, <1>5
  <2> QED BY <1>3, <1>5, <2>1, TouchKeeps
<1> QED BY <1>2, <1>4, <1>5

LEMMA NextEntryKeeps ==
    ASSUME StoredInv, NextEntry, Evicts, trouble' = trouble
    PROVE  StoredInv'
<1> PICK e \in Entry : Keep(e, Fetch(e)) /\ cnt' = [cnt EXCEPT !.inUse = InUse(e)]
                       /\ UNCHANGED <<disk, promised, voted, lagSeen, crashes>>
  BY DEF NextEntry, GetNextEntry
<1> QED BY TouchKeeps

\* What a server comes up with.
LEMMA CameUp ==
    ASSUME StoredTypeOK, StartPlog
    PROVE  /\ disk' = disk /\ cnt' \in Counters /\ LruOK(cache')
           /\ \A e \in DOMAIN cache'.kv :
                 e \in Rows /\ cache'.kv[e].val = UnserializeFrom(disk[e])
           /\ Loads =>
                /\ cnt'.inUse \in Entry /\ cnt'.last \in 0 .. cnt'.inUse /\ cnt'.global \in Entry
                /\ \A e \in Rows : e <= cnt'.inUse /\ (IsChosen(disk[e].p1) => e <= cnt'.last)
<1>1. disk' = disk
  BY DEF StartPlog
<1>2. CASE "fresh" \in trouble
  <2>1. cache' = EmptyMap /\ cnt' = FreshCounters /\ ~Loads
    BY <1>2 DEF StartPlog, Loads
  <2>2. FreshCounters \in Counters
    BY Bounds DEF FreshCounters, Counters
  <2>3. LruOK(EmptyMap) /\ DOMAIN EmptyMap.kv = {}
    <3>1. Loaded(LoadStart(0), 0) /\ LoadStart(0).cache = EmptyMap
      BY StartLoaded, Bounds DEF LoadStart
    <3> QED BY <3>1 DEF Loaded, EmptyMap
  <2> QED BY <1>1, <2>1, <2>2, <2>3
<1>3. CASE "fresh" \notin trouble
  <2>1. PICK committed \in Entry, n \in Entry :
          /\ \A e \in 1 .. committed : disk[e] # None /\ RowStatus(e) = "CHOSEN"
          /\ "load" \notin trouble => n = MaxEntry
          /\ cache' = RecoverRange(committed)[n].cache
          /\ cnt' = [RecoverRange(committed)[n].cnt EXCEPT
                !.global = IF RecoverRange(committed)[n].cnt.last > @
                           THEN RecoverRange(committed)[n].cnt.last ELSE @]
    <3>1. MaxEntry \in Entry
      BY Bounds DEF Entry
    <3> QED BY <1>3, <3>1 DEF StartPlog, LoadAllFromDisk
  <2> PICK s : s = RecoverRange(committed)[n]
    OBVIOUS
  <2>2. Loaded(s, n)
    <3>1. 1 .. committed \subseteq Chosen
      BY <2>1, CommittedAreChosen
    <3> QED BY <3>1, RangeExact DEF Recovered
  <2>3. /\ cache' = s.cache
        /\ cnt' = [s.cnt EXCEPT !.global = IF s.cnt.last > @ THEN s.cnt.last ELSE @]
    BY <2>1
  <2>4. s.cnt \in Counters /\ s.cnt.global = 0 /\ s.cnt.last \in 0 .. Ones /\ s.cnt.inUse \in 0 .. Ones
    BY <2>2 DEF Loaded, Counters
  <2>5. /\ cnt' \in Counters /\ cnt'.last = s.cnt.last /\ cnt'.inUse = s.cnt.inUse
        /\ cnt'.global = s.cnt.last
    BY <2>3, <2>4 DEF Counters
  <2>6. s.cnt.last <= s.cnt.inUse /\ s.cnt.inUse <= n
    BY <2>2 DEF Loaded
  <2>7. n \in 0 .. MaxEntry /\ MaxEntry \in Nat
    BY Bounds DEF Entry
  <2>8. cnt'.inUse \in Entry /\ cnt'.last \in 0 .. cnt'.inUse /\ cnt'.global \in Entry
    BY <2>4, <2>5, <2>6, <2>7 DEF Entry
  <2>9. ASSUME Loads, NEW e \in Rows
        PROVE  e <= cnt'.inUse /\ (IsChosen(disk[e].p1) => e <= cnt'.last)
    <3>1. n = MaxEntry
      BY <2>1, <2>9 DEF Loads
    <3>2. e <= MaxEntry
      BY <2>7 DEF Rows, Entry
    <3> QED BY <2>2, <2>5, <3>1, <3>2 DEF Loaded
  <2>10. LruOK(cache') /\ \A e \in DOMAIN cache'.kv :
            e \in Rows /\ cache'.kv[e].val = UnserializeFrom(disk[e])
    BY <2>2, <2>3 DEF Loaded
  <2> QED BY <1>1, <2>5, <2>8, <2>9, <2>10
<1> QED BY <1>2, <1>3

LEMMA CrashKeeps ==
    ASSUME StoredInv, Crash, trouble' = trouble,
           lost' = lost \cup {e \in DOMAIN cache.kv : Unsaved(e)} \cup (Rows \ DOMAIN cache'.kv)
    PROVE  StoredInv'
<1>1. StoredTypeOK /\ promised' = promised /\ voted' = voted /\ lagSeen' = 0
      /\ crashes' = crashes + 1
  BY DEF StoredInv, Crash
<1>2. /\ disk' = disk /\ cnt' \in Counters /\ LruOK(cache')
      /\ \A e \in DOMAIN cache'.kv : e \in Rows /\ cache'.kv[e].val = UnserializeFrom(disk[e])
      /\ Loads =>
           /\ cnt'.inUse \in Entry /\ cnt'.last \in 0 .. cnt'.inUse /\ cnt'.global \in Entry
           /\ \A e \in Rows : e <= cnt'.inUse /\ (IsChosen(disk[e].p1) => e <= cnt'.last)
  BY <1>1, CameUp DEF Crash
<1>3. ASSUME NEW e \in Rows
      PROVE  /\ e \in Entry /\ disk[e] # None /\ ValueOK(UnserializeFrom(disk[e]))
             /\ UnserializeFrom(disk[e]).acc = disk[e].p1 /\ disk[e].p1 # None
             /\ UnserializeFrom(disk[e]) # EmptyEntry
  <2>1. RowOK(disk[e]) /\ e \in Entry /\ disk[e] # None
    BY <1>1 DEF StoredTypeOK, DiskOK, Rows
  <2> QED BY <2>1, RowsAndEntries
<1>4. StoredTypeOK'
  <2>1. CacheOK(cache')
    BY <1>2, <1>3 DEF CacheOK
  <2>2. lost' \subseteq Entry
    BY <1>1 DEF StoredTypeOK, CacheOK, Rows
  <2> QED BY <1>1, <1>2, <2>1, <2>2
          DEF StoredTypeOK, CacheOK, LruOK, ValueOK, VoteOK, DiskOK, RowOK, Rows
<1>5. ASSUME NEW e \in Entry \ lost' PROVE Kept(e)'
  <2>1. Kept(e) /\ (Exists(cache, e) => ~Unsaved(e)) /\ (e \in Rows => Exists(cache', e))
    BY DEF StoredInv, Exists
  <2>2. ~Exists(cache, e) => Value(e) = EmptyEntry
    BY DEF Value
  <2>3. CASE e \in Rows
    <3> PICK x : x = Value(e)
      OBVIOUS
    <3> PICK y : y = UnserializeFrom(disk[e])
      OBVIOUS
    <3>1. Value(e)' = y
      BY <1>2, <2>1, <2>3 DEF Value, Exists
    <3>2. x # EmptyEntry /\ Exists(cache, e) /\ x = cache.kv[e].val
      BY <1>3, <2>1, <2>2, <2>3 DEF Kept, Holds, Value
    <3>3. disk[e] = SerializeTo(x) \/ y = x
      BY <1>3, <2>1, <2>3, <3>2 DEF Unsaved
    <3>4. y.acc.status # "INIT" => y.acc = x.acc /\ x.acc # None
      <4>1. ValueOK(x) /\ y.acc = disk[e].p1 /\ y.acc # None
        BY <1>1, <1>3, <2>3, Fetched
      <4>2. SerializeTo(x).p1 = (IF x.acc = None THEN Dummy ELSE x.acc)
        BY <4>1, RowsAndEntries, Zenon
      <4>3. Dummy.status = "INIT"
        BY DEF Dummy
      <4> QED BY <3>3, <4>1, <4>2, <4>3
    <3>5. Holds(x, e) /\ (voted[e] # NoVote => disk[e] # None /\ Covers(disk[e].p1, e))
      BY <2>1 DEF Kept
    <3>6. y.acc # None /\ y # EmptyEntry
      BY <1>3, <2>3
    <3> QED BY <1>1, <1>2, <3>1, <3>4, <3>5, <3>6 DEF Kept, Holds, Covers
  <2>4. CASE e \notin Rows
    <3>1. disk[e] = None
      BY <1>1, <2>4 DEF Rows, StoredTypeOK, DiskOK
    <3>2. Value(e)' = EmptyEntry
      BY <1>2, <2>4 DEF Value, Exists
    <3>3. Value(e) = EmptyEntry
      BY <2>1, <2>2, <3>1 DEF Unsaved, Value
    <3>4. EmptyEntry.acc = None /\ EmptyEntry.prom = None
      BY DEF EmptyEntry
    <3> QED BY <1>1, <1>2, <2>1, <3>1, <3>2, <3>3, <3>4 DEF Kept, Holds, Covers
  <2> QED BY <2>3, <2>4
<1>6. ASSUME Loads PROVE CountersRight'
  <2>1. ASSUME NEW e \in Entry PROVE ChosenKnown(e)'
    <3>1. ~IsChosen(EmptyEntry.acc)
      BY DEF IsChosen, EmptyEntry
    <3>2. CASE e \in DOMAIN cache'.kv
      <4>1. e \in Rows /\ Value(e)' = UnserializeFrom(disk[e])
        BY <1>2, <3>2 DEF Value, Exists
      <4>2. UnserializeFrom(disk[e]).acc = disk[e].p1
        BY <1>3, <4>1
      <4> QED BY <1>2, <1>6, <4>1, <4>2 DEF ChosenKnown, IsChosen
    <3>3. CASE e \notin DOMAIN cache'.kv
      <4>1. Value(e)' = EmptyEntry
        BY <3>3 DEF Value, Exists
      <4>2. Rows' = Rows
        BY <1>2 DEF Rows
      <4> QED BY <1>2, <1>6, <3>1, <4>1, <4>2 DEF ChosenKnown, IsChosen
    <3> QED BY <3>2, <3>3
  <2>2. \A e \in DOMAIN cache'.kv \cup Rows' : e <= cnt'.inUse
    BY <1>2, <1>6 DEF Rows
  <2>3. ~(lagSeen' > cnt'.last)
    BY <1>1, <1>2, <1>6
  <2> QED BY <1>2, <1>6, <2>1, <2>2, <2>3 DEF CountersRight
<1> QED BY <1>4, <1>5, <1>6 DEF StoredInv, Loads

-----------------------------------------------------------------------------
(* The specification.                                                      *)

LEMMA InitStored == Init => StoredInv
<1> SUFFICES ASSUME Init PROVE StoredInv
  OBVIOUS
<1>1. /\ trouble \in Troubles /\ cache = EmptyMap /\ disk = [e \in Entry |-> None]
      /\ cnt = (IF "fresh" \in trouble THEN FreshCounters ELSE ClearedCounters(0))
      /\ promised = [e \in Entry |-> 0] /\ voted = [e \in Entry |-> NoVote]
      /\ lagSeen = 0 /\ crashes = 0 /\ lost = {}
  BY DEF Init, PlogInit
<1>2. Loaded(LoadStart(0), 0) /\ LoadStart(0).cache = EmptyMap
      /\ LoadStart(0).cnt = ClearedCounters(0)
  BY StartLoaded, Bounds DEF LoadStart
<1>3. LruOK(EmptyMap) /\ DOMAIN EmptyMap.kv = {}
  BY <1>2 DEF Loaded, EmptyMap
<1>4. /\ ClearedCounters(0) \in Counters /\ ClearedCounters(0).global = 0
      /\ ClearedCounters(0).last = 0 /\ ClearedCounters(0).inUse = 0
  <2>1. LoadStart(0).cnt.last \in Nat /\ LoadStart(0).cnt.inUse \in Nat
    BY <1>2 DEF Loaded, Counters
  <2> QED BY <1>2, <2>1 DEF Loaded
<1>5. FreshCounters \in Counters
  BY Bounds DEF FreshCounters, Counters
<1>6. /\ Rows = {} /\ disk[0] = None /\ \A e \in Entry : disk[e] = None
      /\ \A e \in Entry : Value(e) = EmptyEntry /\ voted[e] = NoVote /\ promised[e] = 0
  BY <1>1, <1>3, Bounds DEF Rows, Value, Exists
<1>7. StoredTypeOK
  <2>1. CacheOK(cache)
    BY <1>1, <1>3 DEF CacheOK
  <2>2. DiskOK
    BY <1>1, <1>6 DEF DiskOK
  <2>3. voted \in [Entry -> [pid : Nat, vid : Nat]] /\ promised \in [Entry -> Nat]
    BY <1>1 DEF NoVote
  <2> QED BY <1>1, <1>4, <1>5, <2>1, <2>2, <2>3 DEF StoredTypeOK
<1>8. \A e \in Entry \ lost : Kept(e)
  <2>1. EmptyEntry.acc = None /\ EmptyEntry.prom = None
    BY DEF EmptyEntry
  <2> QED BY <1>6, <2>1 DEF Kept, Holds
<1>9. Loads => CountersRight
  <2>1. \A e \in Entry : ChosenKnown(e)
    <3>1. ~IsChosen(EmptyEntry.acc)
      BY DEF EmptyEntry, IsChosen
    <3> QED BY <1>6, <3>1 DEF ChosenKnown
  <2>2. Loads => cnt = ClearedCounters(0)
    BY <1>1 DEF Loads
  <2> QED BY <1>1, <1>3, <1>4, <1>6, <2>1, <2>2, Bounds DEF CountersRight
<1> QED BY <1>7, <1>8, <1>9 DEF StoredInv

\* What leaves the memory in a step that is not a crash has left the cache.
LEMMA NotACrash ==
    ASSUME Next, crashes' = crashes
    PROVE  Evicts
BY DEF Next, Evicts

LEMMA StepKeeps ==
    ASSUME StoredInv, [Next]_vars
    PROVE  StoredInv'
<1>1. CASE UNCHANGED vars
  <2> USE <1>1 DEF vars
  <2>1. trouble' = trouble
    OBVIOUS
  <2>2. StoredTypeOK'
    BY DEF StoredInv, StoredTypeOK, CacheOK, LruOK, ValueOK, VoteOK, DiskOK, RowOK, Rows
  <2>3. \A e \in Entry \ lost' : Kept(e)'
    BY DEF StoredInv, Kept, Holds, Covers, Value, Exists
  <2>4. Loads' => CountersRight'
    BY DEF StoredInv, Loads, CountersRight, ChosenKnown, IsChosen, Value, Exists, Rows
  <2> QED BY <2>2, <2>3, <2>4 DEF StoredInv
<1>2. CASE Next
  <2>1. Step /\ trouble' = trouble /\ (crashes' = crashes => Evicts)
    BY <1>2, NotACrash DEF Next
  <2>2. CASE \E e \in 1 .. MaxEntry, pid \in 0 .. MaxPid : PrepareSeen(e, pid) \/ PrepareNew(e, pid)
    <3>1. PICK e \in 1 .. MaxEntry, pid \in 0 .. MaxPid : PrepareSeen(e, pid) \/ PrepareNew(e, pid)
      BY <2>2
    <3>2. Evicts
      BY <2>1, <3>1 DEF PrepareSeen, PrepareNew, Admit
    <3> QED BY <2>1, <3>1, <3>2, SeenKeeps, NewKeeps
  <2>3. CASE \E e \in 1 .. MaxEntry, pid \in 1 .. MaxPid, vid \in Vid :
                \/ AcceptVotes(e, pid, vid)
                \/ AcceptDuplicate(e, pid, vid)
                \/ AcceptRefused(e, pid, vid)
                \/ HandleChosenReq(e, pid, vid)
    <3>1. PICK e \in 1 .. MaxEntry, pid \in 1 .. MaxPid, vid \in Vid :
                \/ AcceptVotes(e, pid, vid)
                \/ AcceptDuplicate(e, pid, vid)
                \/ AcceptRefused(e, pid, vid)
                \/ HandleChosenReq(e, pid, vid)
      BY <2>3
    <3>2. Evicts
      BY <2>1, <3>1 DEF AcceptVotes, AcceptDuplicate, AcceptRefused, HandleChosenReq, Admit
    <3> QED BY <2>1, <3>1, <3>2, VotesKeeps, DuplicateKeeps, RefusedKeeps, ChosenKeeps
  <2>4. CASE NextEntry
    BY <2>1, <2>4, NextEntryKeeps DEF NextEntry
  <2>5. CASE Crash
    <3>1. crashes' # crashes
      BY <2>5 DEF Crash, StoredInv, StoredTypeOK
    <3>2. lost' = lost \cup {e \in DOMAIN cache.kv : Unsaved(e)} \cup (Rows \ DOMAIN cache'.kv)
      BY <1>2, <3>1 DEF Next
    <3> QED BY <2>1, <2>5, <3>2, CrashKeeps
  <2> QED BY <2>1, <2>2, <2>3, <2>4, <2>5 DEF Step
<1> QED BY <1>1, <1>2

\* The vote of an entry is the only thing that changes what was reported of it.
LEMMA VotesAreAccepted ==
    ASSUME Next, NEW e \in Entry, voted'[e] # voted[e], StoredInv
    PROVE  \E pid \in 1 .. MaxPid, vid \in Vid :
              /\ e \in 1 .. MaxEntry /\ AcceptVotes(e, pid, vid)
              /\ voted'[e] = [pid |-> pid, vid |-> vid]
<1>1. voted' # voted /\ e \in DOMAIN voted
  BY DEF StoredInv, StoredTypeOK
<1>2. PICK f \in 1 .. MaxEntry, pid \in 1 .. MaxPid, vid \in Vid : AcceptVotes(f, pid, vid)
  BY <1>1, Zenon DEF Next, Step, PrepareSeen, PrepareNew, AcceptDuplicate, AcceptRefused,
            HandleChosenReq, NextEntry, Crash
<1>3. voted' = voted \/ voted' = [voted EXCEPT ![f] = [pid |-> pid, vid |-> vid]]
  BY <1>2 DEF AcceptVotes
<1>4. e = f /\ voted'[e] = [pid |-> pid, vid |-> vid]
  BY <1>1, <1>3
<1> QED BY <1>2, <1>4

LEMMA NeverBelowStep ==
    ASSUME StoredInv, [Next]_vars, NEW e \in Entry \ lost', voted'[e] # voted[e]
    PROVE  voted'[e].pid >= promised[e] /\ voted'[e].pid > voted[e].pid
<1>1. Next
  BY DEF vars
<1>2. PICK pid \in 1 .. MaxPid, vid \in Vid :
         /\ e \in 1 .. MaxEntry /\ AcceptVotes(e, pid, vid)
         /\ voted'[e] = [pid |-> pid, vid |-> vid]
  BY <1>1, VotesAreAccepted
<1>3. crashes' = crashes
  BY <1>2 DEF AcceptVotes, Admit
<1>4. Kept(e)
  BY <1>1, <1>3, NotACrash DEF Evicts, StoredInv
<1>5. promised[e] <= pid /\ voted[e].pid < pid
  BY <1>2, <1>4, VoteAbove
<1>6. pid \in Nat /\ voted[e].pid \in Nat /\ promised[e] \in Nat /\ voted'[e].pid = pid
  BY <1>2, Before, StoredAssumption
<1> QED BY <1>5, <1>6

LEMMA ChosenStays ==
    ASSUME StoredInv, [Next]_vars, NEW e \in Entry,
           Loads, disk[e] # None, disk[e].p1.status = "CHOSEN"
    PROVE  disk'[e] = disk[e]
<1>1. /\ StoredTypeOK /\ CountersRight /\ e \in Rows /\ IsChosen(disk[e].p1)
      /\ DOMAIN disk = Entry /\ e # 0
  <2>1. StoredTypeOK /\ CountersRight /\ e \in Rows /\ DOMAIN disk = Entry /\ e # 0
    BY DEF StoredInv, StoredTypeOK, DiskOK, Rows
  <2>2. RowOK(disk[e])
    BY <2>1 DEF StoredTypeOK, DiskOK
  <2>3. disk[e].p1 # None
    BY <2>2, NoneAssumption DEF RowOK, Row
  <2> QED BY <2>1, <2>3 DEF IsChosen
<1>2. e <= cnt.last /\ (Value(e) = EmptyEntry \/ IsChosen(Value(e).acc)) /\ Fetch(e) = Value(e)
  BY <1>1, Fetched DEF CountersRight, ChosenKnown
<1>3. ~Admit(e)
  <2>1. e \in Nat /\ cnt.last \in Nat
    BY <1>1, Bounds DEF CountersRight
  <2>2. Admit(e) => e > cnt.last
    BY <1>1, Admitted
  <2> QED BY <1>2, <2>1, <2>2
<1>4. ASSUME NEW f \in Entry, NEW z, Save(f, z), f # e PROVE disk'[e] = disk[e]
  BY <1>1, <1>4 DEF Save
<1>5. CASE UNCHANGED vars
  BY <1>5 DEF vars
<1>6. ASSUME NEW f \in 1 .. MaxEntry, NEW pid \in 0 .. MaxPid,
             PrepareSeen(f, pid) \/ PrepareNew(f, pid)
      PROVE  disk'[e] = disk[e]
  <2>1. f \in Entry /\ f # e
    BY <1>3, <1>6, Before DEF PrepareSeen, PrepareNew
  <2> QED BY <1>4, <1>6, <2>1 DEF PrepareSeen, PrepareNew
<1>7. ASSUME NEW f \in 1 .. MaxEntry, NEW pid \in 1 .. MaxPid, NEW vid \in Vid,
             \/ AcceptVotes(f, pid, vid)
             \/ AcceptDuplicate(f, pid, vid)
             \/ AcceptRefused(f, pid, vid)
      PROVE  disk'[e] = disk[e]
  <2>1. f \in Entry /\ f # e
    BY <1>3, <1>7, Before DEF AcceptVotes, AcceptDuplicate, AcceptRefused
  <2> QED BY <1>4, <1>7, <2>1 DEF AcceptVotes, AcceptDuplicate, AcceptRefused
<1>8. ASSUME NEW f \in 1 .. MaxEntry, NEW pid \in 1 .. MaxPid, NEW vid \in Vid,
             HandleChosenReq(f, pid, vid)
      PROVE  disk'[e] = disk[e]
  <2>1. f \in Entry
    BY Before
  <2>2. CASE f # e
    BY <1>4, <1>8, <2>1, <2>2 DEF HandleChosenReq
  <2>3. CASE f = e
    <3>1. Fetch(e).acc = None \/ Fetch(e).acc.status = "CHOSEN"
      BY <1>2 DEF EmptyEntry, IsChosen
    <3> QED BY <1>8, <2>3, <3>1 DEF HandleChosenReq
  <2> QED BY <2>2, <2>3
<1>9. CASE NextEntry
  BY <1>9 DEF NextEntry, GetNextEntry
<1>10. CASE Crash
  BY <1>10 DEF Crash, StartPlog
<1> QED BY <1>5, <1>6, <1>7, <1>8, <1>9, <1>10 DEF Next, Step

-----------------------------------------------------------------------------
\* An entry the memory has not lost holds no less than what has been answered of
\* it, the disk has what was reported, and a server that loads its rows knows of
\* every chosen one.
THEOREM StoredHolds == Spec => []StoredInv
<1>1. StoredInv /\ [Next]_vars => StoredInv'
  BY StepKeeps
<1> QED BY <1>1, InitStored, PTL DEF Spec

\* A reported vote is on disk until a later one replaces it, though SaveEntry
\* fails in between and the server crashes.
THEOREM VoteOnDiskHolds == Spec => []VoteOnDisk
<1>1. StoredInv => VoteOnDisk
  BY DEF StoredInv, Kept, Covers, VoteOnDisk
<1> QED BY <1>1, StoredHolds, PTL

\* A server that has admitted a request of a proposer ahead of it says so when
\* IsLocalChosenLagBehind is asked, and the assertion there holds.
THEOREM LagKnownHolds == Spec => []LagKnown
<1>1. ASSUME StoredInv PROVE LagKnown
  <2> SUFFICES ASSUME Loads PROVE /\ LagAsked => cnt.inUse >= cnt.last
                                  /\ lagSeen > cnt.last => IsLocalChosenLagBehind
    BY DEF LagKnown
  <2>1. /\ cnt.inUse \in 0 .. MaxEntry /\ cnt.last \in 0 .. cnt.inUse /\ cnt.global \in 0 .. MaxEntry
        /\ lagSeen > cnt.last => cnt.global >= lagSeen
        /\ lagSeen \in Nat /\ Ones = MaxEntry + 1 /\ MaxEntry \in Nat
    BY <1>1, Bounds DEF StoredInv, StoredTypeOK, CountersRight, Entry
  <2> QED BY <2>1 DEF LagAsked, IsLocalChosenLagBehind
<1> QED BY <1>1, StoredHolds, PTL

\* No vote is reported below a promise or a vote that was reported before it, by
\* whatever run of the server: cache, rows and recovery keep what the handlers
\* have answered.
THEOREM NeverBelowHolds == Spec => NeverBelow
<1>1. StoredInv /\ [Next]_vars =>
        [\A e \in Entry \ lost' : voted'[e] # voted[e] =>
            voted'[e].pid >= promised[e] /\ voted'[e].pid > voted[e].pid]_vars
  BY NeverBelowStep
<1> QED BY <1>1, StoredHolds, PTL DEF Spec, NeverBelow

\* A row marked CHOSEN is never written again with anything else, though its entry
\* leaves the cache and CreateEntry makes it again without a look at the disk.
THEOREM ChosenDurableHolds == Spec => ChosenDurable
<1>1. StoredInv /\ [Next]_vars =>
        [\A e \in Entry : Loads /\ disk[e] # None /\ disk[e].p1.status = "CHOSEN" =>
            disk'[e] = disk[e]]_vars
  BY ChosenStays
<1> QED BY <1>1, StoredHolds, PTL DEF Spec, ChosenDurable

-----------------------------------------------------------------------------
(* What a full load leaves.                                                *)

LEMMA LargestIsMax ==
    ASSUME NEW S, S \subseteq Int, NEW x \in S, \A y \in S : y <= x
    PROVE  Max(S) = x
<1>1. \E z \in S : \A y \in S : z >= y
  OBVIOUS
<1>2. Max(S) \in S /\ \A y \in S : Max(S) >= y
  BY <1>1, Zenon DEF Max
<1> DEFINE m == Max(S)
<1>3. m \in Int /\ x \in Int /\ m >= x /\ m <= x
  BY <1>2
<1> HIDE DEF m
<1>4. m = x
  BY <1>3
<1> QED BY <1>4 DEF m

LEMMA SmallestIsMin ==
    ASSUME NEW S, S \subseteq Int, NEW x \in S, \A y \in S : x <= y
    PROVE  Min(S) = x
<1>1. \E z \in S : \A y \in S : z <= y
  OBVIOUS
<1>2. Min(S) \in S /\ \A y \in S : Min(S) <= y
  BY <1>1, Zenon DEF Min
<1> DEFINE m == Min(S)
<1>3. m \in Int /\ x \in Int /\ m >= x /\ m <= x
  BY <1>2
<1> HIDE DEF m
<1>4. m = x
  BY <1>3
<1> QED BY <1>4 DEF m

\* The rows in the cache are those with less newer ones than there is room for.
LEMMA NewestAreCached ==
    ASSUME NEW n \in Entry, NEW s, Recovered(s, n)
    PROVE  DOMAIN s.cache.kv =
              {e \in RowsTo(n) : Cardinality({f \in RowsTo(n) : f > e}) < CacheSize}
<1> DEFINE D == DOMAIN s.cache.kv
           Newer(e) == {f \in RowsTo(n) : f > e}
<1>1. RowsTo(n) \subseteq Nat /\ IsFiniteSet(RowsTo(n))
  <2>1. RowsTo(n) \subseteq 0 .. MaxEntry
    BY DEF RowsTo, Rows, Entry
  <2>2. 0 .. MaxEntry \subseteq Nat /\ IsFiniteSet(0 .. MaxEntry)
    BY Bounds, FS_Interval
  <2> QED BY <2>1, <2>2, FS_Subset
<1>2. D \subseteq RowsTo(n)
  BY DEF Recovered, Loaded, RowsTo
<1>3. IsFiniteSet(D) /\ CacheSize \in Nat
  BY <1>1, <1>2, FS_Subset, Bounds
<1>4. /\ \A x \in D, y \in RowsTo(n) : y > x => y \in D
      /\ Cardinality(D) <= CacheSize
      /\ D = RowsTo(n) \/ Cardinality(D) = CacheSize
  BY DEF Recovered, CacheExact
<1> HIDE DEF D
<1>5. ASSUME NEW e \in D PROVE Cardinality(Newer(e)) < CacheSize
  <2>1. Newer(e) \subseteq D \ {e}
    BY <1>1, <1>2, <1>4
  <2>2. IsFiniteSet(D \ {e}) /\ Cardinality(D \ {e}) = Cardinality(D) - 1
    BY <1>3, <1>5, FS_RemoveElement
  <2>3. Cardinality(Newer(e)) <= Cardinality(D \ {e})
    <3> HIDE DEF Newer
    <3> QED BY <2>1, <2>2, FS_Subset
  <2>4. Cardinality(D) \in Nat /\ Cardinality(Newer(e)) \in Nat
    <3>1. IsFiniteSet(Newer(e))
      <4> HIDE DEF Newer
      <4> QED BY <2>1, <2>2, FS_Subset
    <3> HIDE DEF Newer
    <3> QED BY <1>3, <3>1, FS_CardinalityType
  <2> HIDE DEF Newer
  <2> QED BY <1>3, <1>4, <2>2, <2>3, <2>4
<1>6. ASSUME NEW e \in RowsTo(n) \ D PROVE ~(Cardinality(Newer(e)) < CacheSize)
  <2>1. Cardinality(D) = CacheSize
    BY <1>4, <1>6
  <2>2. D \subseteq Newer(e)
    <3> SUFFICES ASSUME NEW y \in D PROVE y > e
      BY <1>2
    <3>1. y \in Nat /\ e \in Nat /\ y # e
      BY <1>1, <1>2, <1>6
    <3>2. ~(e > y)
      BY <1>4, <1>6
    <3> QED BY <3>1, <3>2
  <2>3. IsFiniteSet(Newer(e))
    <3>1. Newer(e) \subseteq RowsTo(n)
      OBVIOUS
    <3> HIDE DEF Newer
    <3> QED BY <1>1, <3>1, FS_Subset
  <2>4. Cardinality(D) <= Cardinality(Newer(e)) /\ Cardinality(Newer(e)) \in Nat
    <3> HIDE DEF Newer
    <3> QED BY <2>2, <2>3, FS_Subset, FS_CardinalityType
  <2> HIDE DEF Newer
  <2> QED BY <1>3, <2>1, <2>4
<1> HIDE DEF Newer
<1>7. D = {e \in RowsTo(n) : Cardinality(Newer(e)) < CacheSize}
  BY <1>2, <1>5, <1>6
<1> QED BY <1>7 DEF D, Newer

\* The counters and the cache of a server that comes up over its rows.
LEMMA CrashRecovers ==
    ASSUME StoredTypeOK, StartPlog, Loads
    PROVE  /\ cnt' = [inUse |-> Max(Rows \cup {0}),
                      last |-> Max(Chosen \cup {0}),
                      global |-> Max(Chosen \cup {0}),
                      firstValid |-> Min(Rows \cup {Ones}),
                      firstUnchosen |-> Min((Rows \ Chosen) \cup {Ones}),
                      maxContinue |-> Max({n \in Entry : 1 .. n \subseteq Chosen})]
           /\ DOMAIN cache'.kv =
                 {e \in Rows : Cardinality({f \in Rows : f > e}) < CacheSize}
<1>1. PICK committed \in Entry :
        /\ \A e \in 1 .. committed : disk[e] # None /\ RowStatus(e) = "CHOSEN"
        /\ cache' = RecoverRange(committed)[MaxEntry].cache
        /\ cnt' = [RecoverRange(committed)[MaxEntry].cnt EXCEPT
              !.global = IF RecoverRange(committed)[MaxEntry].cnt.last > @
                         THEN RecoverRange(committed)[MaxEntry].cnt.last ELSE @]
  BY DEF StartPlog, LoadAllFromDisk, Loads
<1>2. 1 .. committed \subseteq Chosen
  BY <1>1, CommittedAreChosen
<1> PICK s : s = RecoverRange(committed)[MaxEntry]
  OBVIOUS
<1> DEFINE c == s.cnt
<1>3. MaxEntry \in Entry
  BY Bounds DEF Entry
<1>4. Recovered(s, MaxEntry)
  BY <1>2, <1>3, RangeExact
<1>5. RowsTo(MaxEntry) = Rows /\ ChosenTo(MaxEntry) = Chosen
  <2>1. \A e \in Rows : e <= MaxEntry
    BY Bounds DEF Rows, Entry
  <2> QED BY <2>1 DEF RowsTo, ChosenTo, Chosen
<1>6. Rows \subseteq Int /\ Chosen \subseteq Int /\ Ones \in Int /\ Chosen \subseteq Entry
  <2>1. Rows \subseteq Entry /\ Chosen \subseteq Entry
    BY DEF Rows, Chosen
  <2>2. Entry \subseteq Int /\ Ones \in Int
    BY Bounds
  <2> QED BY <2>1, <2>2
<1>7. cnt' = [c EXCEPT !.global = IF c.last > @ THEN c.last ELSE @] /\ cache' = s.cache
  BY <1>1
<1>8. CountersExact(c, MaxEntry) /\ c \in Counters /\ c.global = 0
  BY <1>4 DEF Recovered, Loaded
<1> HIDE DEF c
<1>9. c.inUse = Max(Rows \cup {0})
  <2>1. c.inUse \in Rows \cup {0} /\ \A y \in Rows : y <= c.inUse
    BY <1>5, <1>8 DEF CountersExact, Largest
  <2>2. 0 <= c.inUse
    BY <1>8, Bounds DEF Counters
  <2>3. \A y \in Rows \cup {0} : y <= c.inUse
    BY <2>1, <2>2
  <2>4. Rows \cup {0} \subseteq Int
    BY <1>6
  <2> HIDE DEF Rows
  <2> QED BY <2>1, <2>3, <2>4, LargestIsMax
<1>10. c.last = Max(Chosen \cup {0})
  <2>1. c.last \in Chosen \cup {0} /\ \A y \in Chosen : y <= c.last
    BY <1>5, <1>8 DEF CountersExact, Largest
  <2>2. 0 <= c.last
    BY <1>8, Bounds DEF Counters
  <2>3. \A y \in Chosen \cup {0} : y <= c.last
    BY <2>1, <2>2
  <2>4. Chosen \cup {0} \subseteq Int
    BY <1>6
  <2> QED BY <2>1, <2>3, <2>4, LargestIsMax
<1>11. c.firstValid = Min(Rows \cup {Ones})
  <2>1. c.firstValid \in Rows \cup {Ones} /\ \A y \in Rows : c.firstValid <= y
    BY <1>5, <1>8 DEF CountersExact, Smallest
  <2>2. c.firstValid <= Ones
    BY <1>8, Bounds DEF Counters
  <2>3. \A y \in Rows \cup {Ones} : c.firstValid <= y
    BY <2>1, <2>2
  <2>4. Rows \cup {Ones} \subseteq Int
    BY <1>6
  <2> QED BY <2>1, <2>3, <2>4, SmallestIsMin
<1>12. c.firstUnchosen = Min((Rows \ Chosen) \cup {Ones})
  <2>1. /\ c.firstUnchosen \in (Rows \ Chosen) \cup {Ones}
        /\ \A y \in Rows \ Chosen : c.firstUnchosen <= y
    BY <1>5, <1>8 DEF CountersExact, Smallest
  <2>2. c.firstUnchosen <= Ones
    BY <1>8, Bounds DEF Counters
  <2>3. \A y \in (Rows \ Chosen) \cup {Ones} : c.firstUnchosen <= y
    BY <2>1, <2>2
  <2>4. (Rows \ Chosen) \cup {Ones} \subseteq Int
    BY <1>6
  <2> QED BY <2>1, <2>3, <2>4, SmallestIsMin
<1>13. c.maxContinue = Max({n \in Entry : 1 .. n \subseteq Chosen})
  <2> DEFINE m == c.maxContinue
             Runs == {n \in Entry : 1 .. n \subseteq Chosen}
  <2>1. m \in Entry /\ 1 .. m \subseteq Chosen /\ (m < MaxEntry => m + 1 \notin Chosen)
    BY <1>8 DEF CountersExact
  <2>2. m \in Runs
    BY <2>1
  <2>3. ASSUME NEW n \in Runs PROVE n <= m
    <3>1. n \in 0 .. MaxEntry /\ m \in 0 .. MaxEntry /\ MaxEntry \in Nat
      BY <2>1, Bounds DEF Entry
    <3> HIDE DEF m
    <3>2. CASE n > m
      <4>1. m + 1 \in 1 .. n /\ m < MaxEntry
        BY <3>1, <3>2
      <4> QED BY <2>1, <4>1
    <3> QED BY <3>1, <3>2
  <2>4. Runs \subseteq Int
    <3>1. Runs \subseteq Entry
      OBVIOUS
    <3>2. Entry \subseteq Int
      BY Bounds
    <3> HIDE DEF Runs
    <3> QED BY <3>1, <3>2
  <2> HIDE DEF m, Runs
  <2>5. Max(Runs) = m
    BY <2>2, <2>3, <2>4, LargestIsMax
  <2> QED BY <2>5 DEF m, Runs
<1>14. cnt' = [inUse |-> c.inUse, last |-> c.last, global |-> c.last,
               firstValid |-> c.firstValid, firstUnchosen |-> c.firstUnchosen,
               maxContinue |-> c.maxContinue]
  BY <1>7, <1>8, Bounds DEF Counters
<1>15. DOMAIN cache'.kv = {e \in Rows : Cardinality({f \in Rows : f > e}) < CacheSize}
  BY <1>3, <1>4, <1>5, <1>7, NewestAreCached
<1> QED BY <1>9, <1>10, <1>11, <1>12, <1>13, <1>14, <1>15

LEMMA OnlyCrashes ==
    ASSUME Step, crashes' # crashes
    PROVE  Crash
<1>1. ASSUME NEW e, NEW pid, PrepareSeen(e, pid) \/ PrepareNew(e, pid)
      PROVE  crashes' = crashes
  BY <1>1 DEF PrepareSeen, PrepareNew, Admit
<1>2. ASSUME NEW e, NEW pid, NEW vid,
             \/ AcceptVotes(e, pid, vid)
             \/ AcceptDuplicate(e, pid, vid)
             \/ AcceptRefused(e, pid, vid)
             \/ HandleChosenReq(e, pid, vid)
      PROVE  crashes' = crashes
  BY <1>2 DEF AcceptVotes, AcceptDuplicate, AcceptRefused, HandleChosenReq, Admit
<1>3. NextEntry => crashes' = crashes
  BY DEF NextEntry
<1> QED BY <1>1, <1>2, <1>3 DEF Step

\* LoadAllFromDisk finds every row that is on disk: its counters are those of the
\* whole plog, wherever the last committed entry was, and the cache has the newest
\* rows.
THEOREM RecoveredAllHolds == Spec => RecoveredAll
<1> DEFINE Exact ==
      LET chosen == {e \in Rows : disk[e].p1.status = "CHOSEN"} IN
      /\ cnt' = [inUse |-> Max(Rows \cup {0}),
                 last |-> Max(chosen \cup {0}),
                 global |-> Max(chosen \cup {0}),
                 firstValid |-> Min(Rows \cup {Ones}),
                 firstUnchosen |-> Min((Rows \ chosen) \cup {Ones}),
                 maxContinue |-> Max({n \in Entry : 1 .. n \subseteq chosen})]
      /\ DOMAIN cache'.kv =
            {e \in Rows : Cardinality({f \in Rows : f > e}) < CacheSize}
<1>1. ASSUME StoredInv, [Next]_vars, crashes' # crashes, Loads PROVE Exact
  <2>1. Step
    BY <1>1 DEF vars, Next
  <2>2. Crash
    BY <1>1, <2>1, OnlyCrashes
  <2>3. StoredTypeOK /\ StartPlog
    BY <1>1, <2>2 DEF StoredInv, Crash
  <2> QED BY <1>1, <2>3, CrashRecovers DEF Chosen
<1>2. StoredInv /\ [Next]_vars => [crashes' # crashes /\ Loads => Exact]_vars
  <2> HIDE DEF Exact
  <2> QED BY <1>1
<1> QED BY <1>2, StoredHolds, PTL DEF Spec, RecoveredAll

=============================================================================
