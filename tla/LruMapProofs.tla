---------------------------- MODULE LruMapProofs ----------------------------
(***************************************************************************)
(* What the operations of the LRU map keep, for keys, values and sizes of  *)
(* any kind: the list and the index have the same nodes, and Put never     *)
(* evicts what it has just put.                                            *)
(***************************************************************************)
EXTENDS LruMap, FiniteSetTheorems, SequenceTheorems, TLAPS

\* The list has the nodes that the index points to, each once.
LruOK(m) ==
    /\ IsFiniteSet(DOMAIN m.kv)
    /\ m.order \in Seq(Range(m.order)) /\ IsInjective(m.order)
    /\ Range(m.order) = {m.kv[k] : k \in DOMAIN m.kv}
    /\ \A k \in DOMAIN m.kv : m.kv[k].key = k

\* What is injective, element by element.
LEMMA OnceEach ==
    ASSUME NEW S, NEW s \in Seq(S)
    PROVE  /\ IsInjective(s) <=> \A i, j \in 1 .. Len(s) : s[i] = s[j] => i = j
           /\ Range(s) = {s[i] : i \in 1 .. Len(s)} /\ Range(s) \subseteq S
           /\ s \in Seq(Range(s))
BY DEF IsInjective, Range

\* The list without the element at one place.
LEMMA RemoveAtPlace ==
    ASSUME NEW S, NEW s \in Seq(S), NEW i \in 1 .. Len(s)
    PROVE  /\ RemoveAt(s, i) \in Seq(S) /\ Len(RemoveAt(s, i)) = Len(s) - 1
           /\ \A j \in 1 .. Len(s) - 1 : RemoveAt(s, i)[j] = s[IF j < i THEN j ELSE j + 1]
<1> DEFINE u == SubSeq(s, 1, i - 1)
<1> DEFINE w == SubSeq(s, i + 1, Len(s))
<1>1. /\ u \in Seq(S) /\ Len(u) = i - 1
      /\ \A j \in 1 .. i - 1 : u[j] = s[j]
  <2>1. /\ 1 \in Int /\ i - 1 \in Int
        /\ \A j \in 1 .. i - 1 : s[j] \in S
    OBVIOUS
  <2>2. /\ u \in Seq(S) /\ Len(u) = IF 1 <= i - 1 THEN (i - 1) - 1 + 1 ELSE 0
        /\ \A j \in 1 .. (i - 1) - 1 + 1 : u[j] = s[1 + j - 1]
    BY <2>1, SubSeqProperties
  <2> HIDE DEF u
  <2> QED BY <2>2
<1>2. /\ w \in Seq(S) /\ Len(w) = Len(s) - i
      /\ \A j \in 1 .. Len(s) - i : w[j] = s[i + j]
  <2>1. /\ i + 1 \in Int /\ Len(s) \in Int
        /\ \A j \in i + 1 .. Len(s) : s[j] \in S
    OBVIOUS
  <2>2. /\ w \in Seq(S) /\ Len(w) = IF i + 1 <= Len(s) THEN Len(s) - (i + 1) + 1 ELSE 0
        /\ \A j \in 1 .. Len(s) - (i + 1) + 1 : w[j] = s[(i + 1) + j - 1]
    BY <2>1, SubSeqProperties
  <2> HIDE DEF w
  <2> QED BY <2>2
<1>3. /\ u \o w \in Seq(S) /\ Len(u \o w) = Len(u) + Len(w)
      /\ \A j \in 1 .. Len(u) + Len(w) : (u \o w)[j] = IF j <= Len(u) THEN u[j] ELSE w[j - Len(u)]
  BY <1>1, <1>2, ConcatProperties
<1>4. RemoveAt(s, i) = u \o w
  BY DEF RemoveAt
<1> HIDE DEF u, w
<1>5. ASSUME NEW j \in 1 .. Len(s) - 1
      PROVE  (u \o w)[j] = s[IF j < i THEN j ELSE j + 1]
  <2>1. j \in 1 .. Len(u) + Len(w)
    BY <1>1, <1>2
  <2>2. CASE j < i
    BY <1>1, <1>3, <2>1, <2>2
  <2>3. CASE ~(j < i)
    <3>1. j - Len(u) \in 1 .. Len(s) - i /\ i + (j - Len(u)) = j + 1 /\ ~(j <= Len(u))
      BY <1>1, <2>3
    <3> QED BY <1>2, <1>3, <2>1, <2>3, <3>1
  <2> QED BY <2>2, <2>3
<1> QED BY <1>1, <1>2, <1>3, <1>4, <1>5

\* Of the nodes of a list Erased takes one away.
LEMMA ErasedLeaves ==
    ASSUME NEW S, NEW s \in Seq(S), IsInjective(s), NEW x \in Range(s)
    PROVE  /\ Erased(s, x) \in Seq(S) /\ IsInjective(Erased(s, x))
           /\ Range(Erased(s, x)) = Range(s) \ {x}
<1> DEFINE i == CHOOSE j \in DOMAIN s : s[j] = x
<1>1. i \in 1 .. Len(s) /\ s[i] = x
  BY DEF Range
<1> DEFINE t == RemoveAt(s, i)
<1>2. /\ t \in Seq(S) /\ Len(t) = Len(s) - 1
      /\ \A j \in 1 .. Len(s) - 1 : t[j] = s[IF j < i THEN j ELSE j + 1]
  BY <1>1, RemoveAtPlace
<1>3. Erased(s, x) = t
  BY DEF Erased
<1> HIDE DEF i, t
<1>4. /\ \A j, k \in 1 .. Len(s) : s[j] = s[k] => j = k
      /\ Range(s) = {s[j] : j \in 1 .. Len(s)}
  BY OnceEach
<1>5. ASSUME NEW j \in 1 .. Len(t), NEW k \in 1 .. Len(t), t[j] = t[k] PROVE j = k
  <2>1. /\ (IF j < i THEN j ELSE j + 1) \in 1 .. Len(s)
        /\ (IF k < i THEN k ELSE k + 1) \in 1 .. Len(s)
    BY <1>1, <1>2
  <2>2. (IF j < i THEN j ELSE j + 1) = (IF k < i THEN k ELSE k + 1)
    BY <1>2, <1>4, <1>5, <2>1
  <2> QED BY <1>1, <1>2, <2>2
<1>6. ASSUME NEW j \in 1 .. Len(t) PROVE t[j] \in Range(s) \ {x}
  <2>1. (IF j < i THEN j ELSE j + 1) \in 1 .. Len(s) /\ (IF j < i THEN j ELSE j + 1) # i
    BY <1>1, <1>2
  <2>2. PICK k \in 1 .. Len(s) : k # i /\ t[j] = s[k]
    BY <1>2, <2>1
  <2> QED BY <1>1, <1>4, <2>2
<1>7. ASSUME NEW y \in Range(s) \ {x} PROVE \E j \in 1 .. Len(t) : t[j] = y
  <2>1. PICK k \in 1 .. Len(s) : s[k] = y
    BY SMTT(30), OnceEach
  <2>2. k # i
    BY <1>1, <2>1
  <2>3. CASE k < i
    BY <1>1, <1>2, <2>1, <2>3
  <2>4. CASE k > i
    <3>1. k - 1 \in 1 .. Len(t) /\ ~(k - 1 < i) /\ k - 1 + 1 = k
      BY <1>1, <1>2, <2>1, <2>4
    <3> QED BY <1>2, <2>1, <3>1
  <2> QED BY <1>1, <2>1, <2>2, <2>3, <2>4
<1>8. IsInjective(t)
  BY <1>2, <1>5, OnceEach
<1>9. Range(t) = {t[j] : j \in 1 .. Len(t)}
  BY <1>2, OnceEach
<1>10. Range(t) = Range(s) \ {x}
  BY <1>6, <1>7, <1>9
<1> QED BY <1>2, <1>3, <1>8, <1>10

\* A node put in front of a list that does not have it.
LEMMA InFront ==
    ASSUME NEW S, NEW s \in Seq(S), IsInjective(s), NEW x \in S, x \notin Range(s)
    PROVE  /\ <<x>> \o s \in Seq(S) /\ IsInjective(<<x>> \o s)
           /\ Range(<<x>> \o s) = Range(s) \cup {x}
           /\ Len(<<x>> \o s) = Len(s) + 1 /\ (<<x>> \o s)[1] = x
<1> DEFINE t == <<x>> \o s
<1>1. /\ t \in Seq(S) /\ Len(t) = 1 + Len(s)
      /\ \A j \in 1 .. 1 + Len(s) : t[j] = IF j <= 1 THEN x ELSE s[j - 1]
  <2>1. <<x>> \in Seq(S) /\ Len(<<x>>) = 1 /\ <<x>>[1] = x
    OBVIOUS
  <2>2. /\ t \in Seq(S) /\ Len(t) = Len(<<x>>) + Len(s)
        /\ \A j \in 1 .. Len(<<x>>) + Len(s) :
              t[j] = IF j <= Len(<<x>>) THEN <<x>>[j] ELSE s[j - Len(<<x>>)]
    BY <2>1, ConcatProperties
  <2> HIDE DEF t
  <2> QED BY <2>1, <2>2
<1> HIDE DEF t
<1>2. /\ \A j, k \in 1 .. Len(s) : s[j] = s[k] => j = k
      /\ Range(s) = {s[j] : j \in 1 .. Len(s)}
  BY OnceEach
<1>3. ASSUME NEW j \in 1 .. Len(t), NEW k \in 1 .. Len(t), t[j] = t[k] PROVE j = k
  <2>1. CASE j = 1 \/ k = 1
    BY SMTT(30), <1>1, <1>2, <1>3, <2>1
  <2>2. CASE j > 1 /\ k > 1
    <3>1. j - 1 \in 1 .. Len(s) /\ k - 1 \in 1 .. Len(s) /\ s[j - 1] = s[k - 1]
      BY <1>1, <1>3, <2>2
    <3> QED BY <1>2, <3>1
  <2> QED BY <2>1, <2>2
<1>4. \A y : y \in Range(s) \cup {x} <=> \E j \in 1 .. Len(t) : t[j] = y
  <2>1. ASSUME NEW y \in Range(s) PROVE \E j \in 1 .. Len(t) : t[j] = y
    <3>1. PICK j \in 1 .. Len(s) : s[j] = y
      BY <1>2
    <3>2. j + 1 \in 1 .. Len(t) /\ ~(j + 1 <= 1) /\ j + 1 - 1 = j
      BY <1>1
    <3>3. t[j + 1] = s[j]
      BY <1>1, <3>2
    <3> QED BY <3>1, <3>2, <3>3
  <2>2. ASSUME NEW j \in 1 .. Len(t) PROVE t[j] \in Range(s) \cup {x}
    BY <1>1, <1>2
  <2>3. 1 \in 1 .. Len(t) /\ t[1] = x
    BY <1>1
  <2> QED BY <2>1, <2>2, <2>3
<1>5. IsInjective(t) /\ Range(t) = {t[j] : j \in 1 .. Len(t)}
  BY <1>1, <1>3, OnceEach
<1>6. Range(t) = Range(s) \cup {x}
  BY <1>4, <1>5
<1> QED BY <1>1, <1>5, <1>6 DEF t

\* A list without its last element.
LEMMA FrontLoses ==
    ASSUME NEW S, NEW s \in Seq(S), IsInjective(s), s # <<>>
    PROVE  /\ Front(s) \in Seq(S) /\ IsInjective(Front(s))
           /\ Range(Front(s)) = Range(s) \ {Last(s)}
           /\ Last(s) = s[Len(s)] /\ Last(s) \in Range(s)
           /\ Len(Front(s)) = Len(s) - 1 /\ \A i \in 1 .. Len(s) - 1 : Front(s)[i] = s[i]
<1> DEFINE n == Len(s)
<1> DEFINE t == SubSeq(s, 1, n - 1)
<1>1. n \in Nat \ {0} /\ \A i \in 1 .. n : s[i] \in S
  OBVIOUS
<1>2. t \in Seq(S) /\ Len(t) = n - 1 /\ \A i \in 1 .. n - 1 : t[i] = s[i]
  <2>1. 1 \in Int /\ n - 1 \in Int /\ \A i \in 1 .. n - 1 : s[i] \in S
    BY <1>1
  <2>2. /\ t \in Seq(S) /\ Len(t) = IF 1 <= n - 1 THEN (n - 1) - 1 + 1 ELSE 0
        /\ \A i \in 1 .. (n - 1) - 1 + 1 : t[i] = s[1 + i - 1]
    <3> HIDE DEF n
    <3> QED BY <2>1, SubSeqProperties
  <2> HIDE DEF t, n
  <2> QED BY <1>1, <2>2
<1>3. Front(s) = t /\ Last(s) = s[n]
  BY DEF Front, Last
<1>4. /\ \A i, j \in 1 .. n : s[i] = s[j] => i = j
      /\ Range(s) = {s[i] : i \in 1 .. n}
  BY OnceEach
<1> HIDE DEF n, t
<1>5. \A i, j \in 1 .. Len(t) : t[i] = t[j] => i = j
  BY <1>1, <1>2, <1>4
<1>6. IsInjective(t) /\ Range(t) = {t[i] : i \in 1 .. Len(t)}
  BY <1>2, <1>5, OnceEach
<1>7. Range(t) = {s[i] : i \in 1 .. n - 1}
  BY <1>1, <1>2, <1>6
<1>8. \A i \in 1 .. n : i \in 1 .. n - 1 <=> s[i] # s[n]
  BY <1>1, <1>4
<1>9. Range(t) = Range(s) \ {s[n]} /\ s[n] \in Range(s)
  <2>1. n \in 1 .. n
    BY <1>1
  <2>2. \A y : y \in Range(t) <=> \E i \in 1 .. n : i \in 1 .. n - 1 /\ y = s[i]
    BY <1>1, <1>7
  <2>3. \A y : y \in Range(t) <=> y \in Range(s) /\ y # s[n]
    BY <1>4, <1>8, <2>2
  <2>4. s[n] \in Range(s)
    BY <1>4, <2>1
  <2>5. Range(t) = Range(s) \ {s[n]}
    BY <2>3
  <2> QED BY <2>4, <2>5
<1> QED BY <1>2, <1>3, <1>6, <1>9 DEF n

\* Put leaves the key's new node, and of the others those that were there.
LEMMA PutKeeps ==
    ASSUME NEW m, LruOK(m), NEW k, NEW v, NEW max \in Nat \ {0},
           NEW t, t = Put(m, k, v, max)
    PROVE  /\ LruOK(t)
           /\ k \in DOMAIN t.kv /\ t.kv[k].val = v
           /\ DOMAIN t.kv \subseteq DOMAIN m.kv \cup {k}
           /\ \A x \in DOMAIN t.kv \ {k} : t.kv[x] = m.kv[x]
<1> DEFINE node == [key |-> k, val |-> v]
<1> DEFINE S == Range(m.order) \cup {node}
<1> DEFINE old == IF Exists(m, k) THEN Erased(m.order, m.kv[k]) ELSE m.order
<1> DEFINE order == <<node>> \o old
<1> DEFINE kv == [x \in DOMAIN m.kv \cup {k} |-> IF x = k THEN node ELSE m.kv[x]]
<1>1. m.order \in Seq(S) /\ IsInjective(m.order) /\ node \in S
  BY DEF LruOK
<1>2. \A y \in Range(m.order) : y.key \in DOMAIN m.kv /\ y = m.kv[y.key]
  BY DEF LruOK
<1>3. /\ old \in Seq(S) /\ IsInjective(old)
      /\ Range(old) = {m.kv[x] : x \in DOMAIN m.kv \ {k}}
  <2>1. CASE k \in DOMAIN m.kv
    <3>1. m.kv[k] \in Range(m.order)
      BY <2>1 DEF LruOK
    <3>2. /\ Erased(m.order, m.kv[k]) \in Seq(S) /\ IsInjective(Erased(m.order, m.kv[k]))
          /\ Range(Erased(m.order, m.kv[k])) = Range(m.order) \ {m.kv[k]}
      <4> HIDE DEF S
      <4> QED BY <1>1, <3>1, ErasedLeaves
    <3>3. old = Erased(m.order, m.kv[k])
      BY <2>1 DEF Exists
    <3>4. \A x \in DOMAIN m.kv : m.kv[x] = m.kv[k] => x = k
      BY <2>1 DEF LruOK
    <3> HIDE DEF S, old
    <3> QED BY <2>1, <3>2, <3>3, <3>4 DEF LruOK
  <2>2. CASE k \notin DOMAIN m.kv
    <3>1. old = m.order
      BY <2>2 DEF Exists
    <3> QED BY <1>1, <2>2, <3>1 DEF LruOK
  <2> QED BY <2>1, <2>2
<1>4. node \notin Range(old)
  BY <1>3 DEF LruOK
<1>5. /\ order \in Seq(S) /\ IsInjective(order)
      /\ Range(order) = Range(old) \cup {node}
      /\ Len(order) = Len(old) + 1 /\ order[1] = node
  <2> HIDE DEF S, old, node
  <2> QED BY <1>1, <1>3, <1>4, InFront
<1>6. Head(order) = node /\ Len(order) \in Nat \ {0} /\ order # <<>>
  BY <1>3, <1>5
<1>7. t = IF Cardinality(DOMAIN kv) > max
          THEN [order |-> Front(order), kv |-> Unindexed(kv, Last(order).key)]
          ELSE [order |-> order, kv |-> kv]
  BY <1>6, Zenon DEF Put
<1>8. IsFiniteSet(DOMAIN kv) /\ DOMAIN kv = DOMAIN m.kv \cup {k}
  BY FS_AddElement DEF LruOK
<1>9. /\ \A x \in DOMAIN kv : kv[x].key = x
      /\ Range(order) = {kv[x] : x \in DOMAIN kv}
      /\ kv[k].val = v /\ \A x \in DOMAIN m.kv \ {k} : kv[x] = m.kv[x]
  <2>1. \A x \in DOMAIN kv : kv[x] = IF x = k THEN node ELSE m.kv[x]
    OBVIOUS
  <2>2. node.key = k /\ node.val = v
    OBVIOUS
  <2> HIDE DEF kv, node, old, order
  <2>3. Range(order) = {kv[x] : x \in DOMAIN kv}
    <3>1. \A y \in Range(order) : \E x \in DOMAIN kv : y = kv[x]
      BY <1>3, <1>5, <1>8, <2>1
    <3>2. \A x \in DOMAIN kv : kv[x] \in Range(order)
      BY <1>3, <1>5, <1>8, <2>1
    <3> QED BY <3>1, <3>2
  <2> QED BY <1>8, <2>1, <2>2, <2>3 DEF LruOK
<1> HIDE DEF kv, order, old, S
<1>10. CASE ~(Cardinality(DOMAIN kv) > max)
  <2>1. t.order = order /\ t.kv = kv
    BY <1>7, <1>10
  <2>2. order \in Seq(Range(order))
    BY <1>5, OnceEach
  <2>3. LruOK(t)
    BY <1>5, <1>8, <1>9, <2>1, <2>2 DEF LruOK
  <2> QED BY <1>8, <1>9, <2>1, <2>3
<1>11. CASE Cardinality(DOMAIN kv) > max
  <2>1. t.order = Front(order) /\ t.kv = Unindexed(kv, Last(order).key)
    BY <1>7, <1>11
  <2>2. /\ Front(order) \in Seq(S) /\ IsInjective(Front(order))
        /\ Range(Front(order)) = Range(order) \ {Last(order)}
        /\ Last(order) = order[Len(order)] /\ Last(order) \in Range(order)
    BY <1>5, <1>6, FrontLoses
  <2>3. Last(order) # node
    <3>1. PICK x \in DOMAIN kv : x # k
      <4>1. DOMAIN kv # {k}
        <5>1. Cardinality({k}) = 1
          BY FS_Singleton
        <5> QED BY <1>11, <5>1
      <4> QED BY <1>8, <4>1
    <3>2. kv[x] \in Range(order) /\ kv[x] # node
      BY <1>9, <3>1
    <3>3. PICK i \in 1 .. Len(order) : order[i] = kv[x]
      BY <1>5, <3>2, OnceEach
    <3>4. \A i1, j1 \in 1 .. Len(order) : order[i1] = order[j1] => i1 = j1
      BY <1>5, OnceEach
    <3>5. i # 1
      BY <1>5, <3>2, <3>3
    <3> QED BY <1>5, <1>6, <2>2, <3>3, <3>4, <3>5
  <2>4. PICK z \in DOMAIN kv : Last(order) = kv[z]
    BY <1>9, <2>2
  <2>5. z # k /\ Last(order).key = z
    <3>1. kv[k] = node
      BY DEF kv
    <3> QED BY <1>9, <2>3, <2>4, <3>1
  <2>6. DOMAIN t.kv = DOMAIN kv \ {z} /\ \A x \in DOMAIN kv \ {z} : t.kv[x] = kv[x]
    BY <2>1, <2>5 DEF Unindexed
  <2>7. IsFiniteSet(DOMAIN t.kv)
    BY <1>8, <2>6, FS_Subset
  <2>8. t.order \in Seq(Range(t.order))
    BY <2>1, <2>2, OnceEach
  <2>9. Range(t.order) = {t.kv[x] : x \in DOMAIN t.kv}
    <3>1. \A x \in DOMAIN kv : kv[x] = kv[z] => x = z
      BY <1>9
    <3> QED BY <1>9, <2>1, <2>2, <2>4, <2>6, <3>1
  <2>10. LruOK(t)
    BY <1>9, <2>1, <2>2, <2>6, <2>7, <2>8, <2>9 DEF LruOK
  <2> QED BY <1>8, <1>9, <2>5, <2>6, <2>10
<1> QED BY <1>10, <1>11

\* The nodes of a map whose keys are numbers stand in descending order.
Descending(m) ==
    \A i, j \in 1 .. Len(m.order) : i < j => m.order[i].key > m.order[j].key

\* The keys are numbers, and k is one above all of them.
Above(k, m) == k \in Int /\ DOMAIN m.kv \subseteq Int /\ \A x \in DOMAIN m.kv : x < k

\* Put of a key above all others keeps that order, and evicts the smallest key.
LEMMA PutAbove ==
    ASSUME NEW m, LruOK(m), Descending(m), NEW k, Above(k, m), NEW v, NEW max \in Nat \ {0}, NEW t, t = Put(m, k, v, max)
    PROVE  /\ Descending(t)
           /\ Cardinality(DOMAIN m.kv \cup {k}) > max =>
                 \E x \in DOMAIN m.kv :
                    /\ DOMAIN t.kv = (DOMAIN m.kv \cup {k}) \ {x}
                    /\ \A y \in DOMAIN m.kv : x <= y
           /\ ~(Cardinality(DOMAIN m.kv \cup {k}) > max) =>
                 DOMAIN t.kv = DOMAIN m.kv \cup {k}
<1>0. k \in Int /\ DOMAIN m.kv \subseteq Int /\ \A x \in DOMAIN m.kv : x < k
  BY DEF Above
<1> DEFINE node == [key |-> k, val |-> v]
<1> DEFINE S == Range(m.order) \cup {node}
<1> DEFINE n == Len(m.order)
<1> DEFINE order == <<node>> \o m.order
<1> DEFINE kv == [x \in DOMAIN m.kv \cup {k} |-> IF x = k THEN node ELSE m.kv[x]]
<1>1. m.order \in Seq(S) /\ IsInjective(m.order) /\ node \in S /\ node.key = k
  BY DEF LruOK
<1>2. k \notin DOMAIN m.kv
  BY <1>0
<1>3. \A y \in Range(m.order) : y.key \in DOMAIN m.kv /\ y = m.kv[y.key]
  BY DEF LruOK
<1>4. /\ n \in Nat /\ \A i \in 1 .. n : m.order[i] \in Range(m.order)
      /\ \A y \in Range(m.order) : \E i \in 1 .. n : y = m.order[i]
  <2> HIDE DEF S
  <2>1. Range(m.order) = {m.order[i] : i \in 1 .. n}
    BY <1>1, OnceEach
  <2> QED BY <1>1, <2>1
<1>5. /\ order \in Seq(S) /\ Len(order) = n + 1 /\ order[1] = node
      /\ \A i \in 2 .. n + 1 : order[i] = m.order[i - 1]
  <2>1. <<node>> \in Seq(S) /\ Len(<<node>>) = 1 /\ <<node>>[1] = node
    BY <1>1
  <2>2. /\ order \in Seq(S) /\ Len(order) = Len(<<node>>) + Len(m.order)
        /\ \A i \in 1 .. Len(<<node>>) + Len(m.order) :
              order[i] = IF i <= Len(<<node>>) THEN <<node>>[i]
                         ELSE m.order[i - Len(<<node>>)]
    <3> HIDE DEF node, S
    <3> QED BY <1>1, <2>1, ConcatProperties
  <2> HIDE DEF node, order, S
  <2>3. ASSUME NEW i \in 2 .. n + 1 PROVE order[i] = m.order[i - 1]
    <3>1. i \in 1 .. 1 + n /\ ~(i <= 1)
      BY <1>4
    <3> QED BY <2>1, <2>2, <3>1
  <2>4. 1 \in 1 .. 1 + n /\ n + 1 = 1 + n
    BY <1>4
  <2>5. order[1] = node
    BY <2>1, <2>2, <2>4
  <2> QED BY <2>1, <2>2, <2>3, <2>4, <2>5
<1>6. order # <<>> /\ Head(order) = node
  <2> HIDE DEF node, order, S
  <2> QED BY <1>4, <1>5
<1>7. t = IF Cardinality(DOMAIN kv) > max
          THEN [order |-> Front(order), kv |-> Unindexed(kv, Last(order).key)]
          ELSE [order |-> order, kv |-> kv]
  BY <1>2, <1>6, Zenon DEF Put, Exists
<1>8. DOMAIN kv = DOMAIN m.kv \cup {k}
  OBVIOUS
<1>9. \A i \in 1 .. n : m.order[i].key \in DOMAIN m.kv /\ m.order[i].key \in Int
  BY <1>0, <1>3, <1>4
<1> HIDE DEF node, order, kv, S, n
<1>10. \A i, j \in 1 .. n + 1 : i < j => order[i].key > order[j].key
  <2> SUFFICES ASSUME NEW i \in 1 .. n + 1, NEW j \in 1 .. n + 1, i < j
               PROVE  order[i].key > order[j].key
    OBVIOUS
  <2>1. j - 1 \in 1 .. n /\ order[j] = m.order[j - 1]
    BY <1>4, <1>5
  <2>2. CASE i = 1
    BY <1>0, <1>1, <1>5, <1>9, <2>1, <2>2
  <2>3. CASE i # 1
    <3>1. i \in 2 .. n + 1 /\ i - 1 \in 1 .. n /\ i - 1 < j - 1
      BY <1>4, <2>3
    <3>2. order[i] = m.order[i - 1]
      BY <1>5, <3>1
    <3> QED BY <2>1, <3>1, <3>2 DEF Descending, n
  <2> QED BY <2>2, <2>3
<1>11. CASE ~(Cardinality(DOMAIN kv) > max)
  BY <1>5, <1>7, <1>8, <1>10, <1>11 DEF Descending
<1>12. CASE Cardinality(DOMAIN kv) > max
  <2>1. t.order = Front(order) /\ t.kv = Unindexed(kv, Last(order).key)
    BY <1>7, <1>12
  <2>2. IsInjective(order)
    <3>1. \A i, j \in 1 .. n + 1 : order[i] = order[j] => i = j
      <4>1. \A i, j \in 1 .. n + 1 : i < j => order[i] # order[j]
        <5>1. ASSUME NEW i \in 1 .. n + 1 PROVE order[i].key \in Int
          <6>1. i = 1 \/ (i \in 2 .. n + 1 /\ i - 1 \in 1 .. n)
            BY <1>4
          <6> QED BY <1>0, <1>1, <1>5, <1>9, <6>1
        <5>2. ASSUME NEW i \in 1 .. n + 1, NEW j \in 1 .. n + 1, i < j
              PROVE  order[i] # order[j]
          <6>1. order[i].key > order[j].key /\ order[i].key \in Int
            BY <1>10, <5>1, <5>2
          <6> QED BY <6>1
        <5> QED BY <5>2
      <4> QED BY <1>4, <4>1
    <3> QED BY <1>5, <3>1, OnceEach
  <2>3. /\ Len(Front(order)) = n /\ \A i \in 1 .. n : Front(order)[i] = order[i]
        /\ Last(order) = order[n + 1]
    <3>1. /\ Last(order) = order[Len(order)] /\ Len(Front(order)) = Len(order) - 1
          /\ \A i \in 1 .. Len(order) - 1 : Front(order)[i] = order[i]
      BY <1>5, <1>6, <2>2, FrontLoses
    <3> QED BY <1>4, <1>5, <3>1
  <2>4. n # 0
    <3>1. DOMAIN m.kv # {}
      <4>1. Cardinality({k}) = 1
        BY FS_Singleton
      <4> QED BY <1>8, <1>12, <4>1
    <3>2. PICK x \in DOMAIN m.kv : m.kv[x] \in Range(m.order)
      BY <3>1 DEF LruOK
    <3> QED BY <1>4, <3>2
  <2>5. n \in 1 .. n /\ Last(order) = m.order[n]
    BY <1>4, <1>5, <2>3, <2>4
  <2> DEFINE z == m.order[n].key
  <2>6. DOMAIN t.kv = (DOMAIN m.kv \cup {k}) \ {z}
    BY <1>8, <2>1, <2>5 DEF Unindexed
  <2>7. z \in DOMAIN m.kv /\ z \in Int
    BY <1>9, <2>5
  <2>8. \A y \in DOMAIN m.kv : z <= y
    <3> SUFFICES ASSUME NEW y \in DOMAIN m.kv PROVE z <= y
      OBVIOUS
    <3>1. m.kv[y] \in Range(m.order) /\ m.kv[y].key = y
      BY DEF LruOK
    <3>2. PICK i \in 1 .. n : m.kv[y] = m.order[i]
      BY <1>4, <3>1
    <3>3. m.order[i].key = y /\ y \in Int /\ (i < n => y > z)
      BY <1>0, <2>5, <3>1, <3>2 DEF Descending, n
    <3> QED BY <1>4, <2>7, <3>2, <3>3
  <2>9. Descending(t)
    <3>1. \A i \in 1 .. n : i \in 1 .. n + 1
      BY <1>4
    <3> QED BY <1>10, <2>1, <2>3, <3>1 DEF Descending
  <2> HIDE DEF z
  <2> QED BY <1>8, <1>12, <2>6, <2>7, <2>8, <2>9
<1> QED BY <1>8, <1>11, <1>12

\* GetPtr moves a node to the front; the index is the same.
LEMMA GetPtrKeeps ==
    ASSUME NEW m, LruOK(m), NEW k \in DOMAIN m.kv, NEW t, t = GetPtr(m, k)
    PROVE  LruOK(t) /\ t.kv = m.kv
<1> DEFINE S == Range(m.order)
<1> DEFINE x == m.kv[k]
<1>1. m.order \in Seq(S) /\ IsInjective(m.order) /\ x \in S
  BY DEF LruOK
<1>2. t.kv = m.kv /\ t.order = <<x>> \o Erased(m.order, x)
  BY DEF GetPtr
<1> HIDE DEF S, x
<1>3. /\ Erased(m.order, x) \in Seq(S) /\ IsInjective(Erased(m.order, x))
      /\ Range(Erased(m.order, x)) = Range(m.order) \ {x}
  BY <1>1, ErasedLeaves DEF S
<1>4. /\ t.order \in Seq(S) /\ IsInjective(t.order)
      /\ Range(t.order) = (Range(m.order) \ {x}) \cup {x}
  BY <1>1, <1>2, <1>3, InFront
<1>5. Range(t.order) = Range(m.order)
  BY <1>1, <1>4 DEF S
<1>6. t.order \in Seq(Range(t.order))
  BY <1>4, OnceEach
<1> QED BY <1>2, <1>4, <1>5, <1>6 DEF LruOK

\* Del takes one key away.
LEMMA DelKeeps ==
    ASSUME NEW m, LruOK(m), NEW k \in DOMAIN m.kv, NEW t, t = Del(m, k)
    PROVE  /\ LruOK(t) /\ DOMAIN t.kv = DOMAIN m.kv \ {k}
           /\ \A y \in DOMAIN t.kv : t.kv[y] = m.kv[y]
<1> DEFINE S == Range(m.order)
<1> DEFINE x == m.kv[k]
<1>1. m.order \in Seq(S) /\ IsInjective(m.order) /\ x \in S
  BY DEF LruOK
<1>2. t.order = Erased(m.order, x) /\ t.kv = Unindexed(m.kv, k)
  BY DEF Del
<1>3. DOMAIN t.kv = DOMAIN m.kv \ {k} /\ \A y \in DOMAIN t.kv : t.kv[y] = m.kv[y]
  BY <1>2 DEF Unindexed
<1>4. \A y \in DOMAIN m.kv : m.kv[y] = x <=> y = k
  BY DEF LruOK
<1> HIDE DEF S, x
<1>5. /\ t.order \in Seq(S) /\ IsInjective(t.order)
      /\ Range(t.order) = Range(m.order) \ {x}
  BY <1>1, <1>2, ErasedLeaves DEF S
<1>6. t.order \in Seq(Range(t.order))
  BY <1>5, OnceEach
<1>7. Range(t.order) = {t.kv[y] : y \in DOMAIN t.kv}
  <2>1. ASSUME NEW z \in Range(t.order) PROVE \E y \in DOMAIN t.kv : z = t.kv[y]
    BY <1>3, <1>4, <1>5 DEF LruOK
  <2>2. ASSUME NEW y \in DOMAIN t.kv PROVE t.kv[y] \in Range(t.order)
    BY <1>3, <1>4, <1>5 DEF LruOK
  <2> QED BY <2>1, <2>2
<1>8. IsFiniteSet(DOMAIN t.kv)
  BY <1>3, FS_Subset DEF LruOK
<1> QED BY <1>3, <1>5, <1>6, <1>7, <1>8 DEF LruOK

=============================================================================
