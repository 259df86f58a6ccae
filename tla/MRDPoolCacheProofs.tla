------------------------- MODULE MRDPoolCacheProofs -------------------------
(***************************************************************************)
(* The cache of pools: its reference counts are exact, every open stream   *)
(* has one owner, and its queues are reachable and bounded.                *)
(***************************************************************************)
EXTENDS MRDPoolCache, FiniteSetTheorems, TLAPS

\* OrderedDict.pop(): a key that waits once for eviction does not wait any more.
LEMMA RemoveFirstFacts ==
  ASSUME NEW S, NEW q \in Seq(S), NEW x, IsInjective(q)
  PROVE  /\ RemoveFirst(q, x) \in Seq(S)
         /\ Len(RemoveFirst(q, x)) <= Len(q)
         /\ IsInjective(RemoveFirst(q, x))
         /\ \A y \in S : Contains(RemoveFirst(q, x), y) <=> y # x /\ Contains(q, y)
<1>1. CASE ~Contains(q, x)
  BY <1>1 DEF Contains, RemoveFirst
<1>2. CASE Contains(q, x)
  <2>1. PICK i \in 1..Len(q) : q[i] = x
    BY <1>2 DEF Contains
  <2>2. {j \in 1..Len(q) : q[j] = x} = {i}
    BY <2>1 DEF IsInjective
  <2>3. SelectInSeq(q, LAMBDA v : v = x) = i
    BY <2>1, <2>2 DEF SelectInSeq, Min
  <2>4. RemoveFirst(q, x) = SubSeq(q, 1, i - 1) \o SubSeq(q, i + 1, Len(q))
    BY <2>1, <2>3 DEF RemoveFirst, RemoveAt
  <2> DEFINE r == RemoveFirst(q, x)
             a == SubSeq(q, 1, i - 1)
             b == SubSeq(q, i + 1, Len(q))
  <2>a. a \in Seq(S) /\ Len(a) = i - 1 /\ \A j \in 1..i - 1 : a[j] = q[j]
    BY <2>1
  <2>b. b \in Seq(S) /\ Len(b) = Len(q) - i /\ \A j \in 1..Len(q) - i : b[j] = q[j + i]
    BY <2>1
  <2> HIDE DEF a, b
  <2>c. r = a \o b
    BY <2>4 DEF a, b
  <2>5. r \in Seq(S) /\ Len(r) = Len(q) - 1
    BY <2>1, <2>c, <2>a, <2>b
  <2>6. \A j \in 1..Len(r) : r[j] = IF j < i THEN q[j] ELSE q[j + 1]
    <3>2. \A j \in 1..Len(r) : r[j] = IF j < i THEN a[j] ELSE b[j - (i - 1)]
      BY <2>c, <2>1, <2>a, <2>b, <2>5
    <3> HIDE DEF r
    <3>3. ASSUME NEW j \in 1..Len(r), j >= i
          PROVE  b[j - (i - 1)] = q[j + 1]
      <4>1. j - (i - 1) \in 1..Len(q) - i /\ j - (i - 1) + i = j + 1
        BY <3>3, <2>1, <2>5
      <4> QED
        BY <4>1, <2>b
    <3> QED
      BY <3>2, <3>3, <2>a, <2>1, <2>5
  <2> HIDE DEF r
  <2>7. IsInjective(r)
    <3> SUFFICES ASSUME NEW m \in 1..Len(r), NEW n \in 1..Len(r), r[m] = r[n]
                 PROVE  m = n
      BY <2>5 DEF IsInjective
    <3> DEFINE at(j) == IF j < i THEN j ELSE j + 1
    <3>1. at(m) \in DOMAIN q /\ at(n) \in DOMAIN q /\ q[at(m)] = q[at(n)]
      BY <2>5, <2>6, <2>1
    <3>2. at(m) = at(n)
      BY <3>1 DEF IsInjective
    <3> QED
      BY <3>2, <2>1
  <2>8. ASSUME NEW y \in S, Contains(r, y)
        PROVE  y # x /\ Contains(q, y)
    <3>1. PICK j \in 1..Len(r) : r[j] = y
      BY <2>8 DEF Contains
    <3>2. CASE j < i
      <4>1. j \in 1..Len(q) /\ j # i /\ q[j] = y
        BY <3>1, <3>2, <2>1, <2>5, <2>6
      <4> QED
        BY <4>1, <2>2 DEF Contains
    <3>3. CASE j >= i
      <4>1. j + 1 \in 1..Len(q) /\ j + 1 # i /\ q[j + 1] = y
        BY <3>1, <3>3, <2>1, <2>5, <2>6
      <4> QED
        BY <4>1, <2>2 DEF Contains
    <3> QED
      BY <3>2, <3>3, <3>1, <2>1, <2>5
  <2>9. ASSUME NEW y \in S, y # x, Contains(q, y)
        PROVE  Contains(r, y)
    <3>1. PICK j \in 1..Len(q) : q[j] = y
      BY <2>9 DEF Contains
    <3>2. CASE j < i
      BY <3>1, <3>2, <2>1, <2>5, <2>6 DEF Contains
    <3>3. CASE j > i
      <4>1. j - 1 \in 1..Len(r) /\ r[j - 1] = y
        BY <3>1, <3>3, <2>1, <2>5, <2>6
      <4> QED
        BY <4>1 DEF Contains
    <3> QED
      BY <3>1, <3>2, <3>3, <2>1, <2>9
  <2> QED
    BY <2>5, <2>7, <2>8, <2>9 DEF r
<1> QED
  BY <1>1, <1>2

\* Eviction: the tail of a sequence without repetitions, and what it has lost.
LEMMA TailOfOnce ==
  ASSUME NEW S, NEW q \in Seq(S), IsInjective(q), NEW e \in 0..Len(q)
  PROVE  LET r == SubSeq(q, e + 1, Len(q))
             lost == {q[i] : i \in 1..e}
         IN /\ r \in Seq(S) /\ Len(r) = Len(q) - e /\ IsInjective(r)
            /\ \A y \in S : Contains(r, y) <=> Contains(q, y) /\ y \notin lost
            /\ \A y \in lost : Contains(q, y)
<1> DEFINE r == SubSeq(q, e + 1, Len(q))
           lost == {q[i] : i \in 1..e}
<1>1. r \in Seq(S) /\ Len(r) = Len(q) - e
  OBVIOUS
<1>2. \A j \in 1..Len(r) : r[j] = q[j + e]
  OBVIOUS
<1> HIDE DEF r
<1>3. IsInjective(r)
  <2> SUFFICES ASSUME NEW m \in 1..Len(r), NEW n \in 1..Len(r), r[m] = r[n]
               PROVE  m = n
    BY <1>1 DEF IsInjective
  <2>1. m + e \in DOMAIN q /\ n + e \in DOMAIN q /\ q[m + e] = q[n + e]
    BY <1>1, <1>2
  <2>2. m + e = n + e
    BY <2>1 DEF IsInjective
  <2> QED
    BY <2>2
<1>4. ASSUME NEW y \in S, Contains(r, y)
      PROVE  Contains(q, y) /\ y \notin lost
  <2>1. PICK j \in 1..Len(r) : r[j] = y
    BY <1>4 DEF Contains
  <2>2. j + e \in 1..Len(q) /\ q[j + e] = y /\ j + e > e
    BY <2>1, <1>1, <1>2
  <2> QED
    BY <2>2 DEF Contains, IsInjective
<1>5. ASSUME NEW y \in S, Contains(q, y), y \notin lost
      PROVE  Contains(r, y)
  <2>1. PICK j \in 1..Len(q) : q[j] = y
    BY <1>5 DEF Contains
  <2>2. j > e
    BY <2>1, <1>5
  <2>3. j - e \in 1..Len(r) /\ r[j - e] = y
    BY <2>1, <2>2, <1>1, <1>2
  <2> QED
    BY <2>3 DEF Contains
<1>6. \A y \in lost : Contains(q, y)
  BY DEF Contains
<1> QED
  BY <1>1, <1>3, <1>4, <1>5, <1>6 DEF r

\* A key that starts to wait.
LEMMA AppendOnce ==
  ASSUME NEW S, NEW q \in Seq(S), IsInjective(q), NEW x \in S, ~Contains(q, x)
  PROVE  /\ Append(q, x) \in Seq(S) /\ IsInjective(Append(q, x))
         /\ Len(Append(q, x)) = Len(q) + 1
         /\ \A y \in S : Contains(Append(q, x), y) <=> y = x \/ Contains(q, y)
<1> DEFINE r == Append(q, x)
<1>1. r \in Seq(S) /\ Len(r) = Len(q) + 1 /\ r[Len(q) + 1] = x
  OBVIOUS
<1>2. \A j \in 1..Len(q) : r[j] = q[j]
  OBVIOUS
<1> HIDE DEF r
<1>3. IsInjective(r)
  BY <1>1, <1>2 DEF IsInjective, Contains
<1>4. \A y \in S : Contains(r, y) => y = x \/ Contains(q, y)
  BY <1>1, <1>2 DEF Contains
<1>5. Contains(r, x)
  BY <1>1 DEF Contains
<1>6. \A y \in S : Contains(q, y) => Contains(r, y)
  BY <1>1, <1>2 DEF Contains
<1> QED
  BY <1>1, <1>3, <1>4, <1>5, <1>6 DEF r

-----------------------------------------------------------------------------
CacheInductive == QueuesInOrder /\ RefsExact /\ OneOwner

\* Reference counts: they follow the pools of a key one at a time.
LEMMA ReferrerComes ==
  ASSUME FiniteWorld, NEW p \in Pools, NEW k \in Keys, p \notin Referrers(k),
         Referrers(k)' = Referrers(k) \cup {p}
  PROVE  Cardinality(Referrers(k)') = Cardinality(Referrers(k)) + 1
<1>1. IsFiniteSet(Referrers(k))
  BY FS_Subset DEF Referrers, FiniteWorld
<1> QED
  BY <1>1, FS_AddElement

LEMMA ReferrerGoes ==
  ASSUME FiniteWorld, NEW p \in Pools, NEW k \in Keys, p \in Referrers(k),
         Referrers(k)' = Referrers(k) \ {p}
  PROVE  Cardinality(Referrers(k)') = Cardinality(Referrers(k)) - 1
<1>1. IsFiniteSet(Referrers(k))
  BY FS_Subset DEF Referrers, FiniteWorld
<1> QED
  BY <1>1, FS_RemoveElement

LEMMA ReferrersCounted ==
  ASSUME FiniteWorld, NEW k \in Keys
  PROVE  /\ Cardinality(Referrers(k)) \in Nat
         /\ \A p \in Pools : p \in Referrers(k) => Cardinality(Referrers(k)) > 0
<1>1. IsFiniteSet(Referrers(k))
  BY FS_Subset DEF Referrers, FiniteWorld
<1> QED
  BY <1>1, FS_CardinalityType, FS_EmptySet

\* Streams are finite sets: what the bound of a queue says of unions.
LEMMA StreamsCounted ==
  ASSUME FiniteWorld, NEW A \in SUBSET Streams
  PROVE  /\ IsFiniteSet(A) /\ Cardinality(A) \in Nat /\ Cardinality({}) = 0
         /\ Cardinality(A) = 0 => A = {}
         /\ \A B \in SUBSET A : Cardinality(B) <= Cardinality(A)
         /\ \A B \in SUBSET Streams : Cardinality(A \cup B) <= Cardinality(A) + Cardinality(B)
<1>1. IsFiniteSet(A)
  BY FS_Subset DEF FiniteWorld
<1>2. \A B \in SUBSET Streams : IsFiniteSet(B)
  BY FS_Subset DEF FiniteWorld
<1>3. \A B \in SUBSET A : Cardinality(B) <= Cardinality(A)
  BY <1>1, FS_Subset
<1>4. \A B \in SUBSET Streams : Cardinality(A \cup B) <= Cardinality(A) + Cardinality(B)
  <2> TAKE B \in SUBSET Streams
  <2>1. Cardinality(A \cup B) = Cardinality(A) + Cardinality(B) - Cardinality(A \cap B)
    BY <1>1, <1>2, FS_Union
  <2>2. IsFiniteSet(A \cap B) /\ Cardinality(A \cap B) \in Nat
    BY <1>1, FS_Subset, FS_CardinalityType
  <2>3. Cardinality(A) \in Nat /\ Cardinality(B) \in Nat
    BY <1>1, <1>2, FS_CardinalityType
  <2> QED
    BY <2>1, <2>2, <2>3
<1> QED
  BY <1>1, <1>3, <1>4, FS_CardinalityType, FS_EmptySet

\* A release: the key loses a reference, and with the last one it waits for eviction.
LEMMA DecrefKeepsOrder ==
  ASSUME SizesNat, FiniteWorld, TypeOK, QueuesReachable, IdleBounded, WaitsOnce,
         NEW k \in Keys, NEW kept \in SUBSET Streams, Decref(k, kept), UNCHANGED closed,
         closed \/ refs[k] > 0,
         Cardinality(idle[k] \cup kept) <= MaxQueue, kept # {} => k \in queues
  PROVE  /\ queues' \subseteq queues /\ refs' \in [Keys -> Nat] /\ evictable' \in Seq(Keys)
         /\ idle' \in [Keys -> SUBSET Streams]
         /\ \A j \in Keys : idle'[j] \subseteq idle[j] \cup (IF j = k THEN kept ELSE {})
         /\ \A j \in Keys : refs'[j] = IF j = k /\ refs[k] > 0 THEN refs[k] - 1 ELSE refs[j]
         /\ WaitsOnce' /\ QueuesReachable' /\ IdleBounded'
<1> DEFINE last    == refs[k] <= 1
           waiting == IF last /\ ~closed THEN Append(evictable, k) ELSE evictable
           excess  == IF Len(waiting) > MaxIdle THEN Len(waiting) - MaxIdle ELSE 0
           evicted == {waiting[i] : i \in 1..excess}
<1>1. /\ refs' = [refs EXCEPT ![k] = IF last THEN 0 ELSE @ - 1]
      /\ evictable' = SubSeq(waiting, excess + 1, Len(waiting))
      /\ queues' = queues \ evicted
      /\ idle' = [j \in Keys |-> IF j \in evicted THEN {}
                                 ELSE idle[j] \cup (IF j = k THEN kept ELSE {})]
  BY DEF Decref
<1>2. /\ waiting \in Seq(Keys) /\ IsInjective(waiting)
      /\ \A j \in Keys : Contains(waiting, j) <=> Contains(evictable, j) \/ (last /\ ~closed /\ j = k)
  <2>1. CASE last /\ ~closed
    <3>1. ~Contains(evictable, k)
      BY <2>1 DEF QueuesReachable, TypeOK
    <3> QED
      BY <2>1, <3>1, AppendOnce DEF TypeOK, WaitsOnce
  <2>2. CASE ~(last /\ ~closed)
    BY <2>2 DEF TypeOK, WaitsOnce
  <2> QED
    BY <2>1, <2>2
<1> HIDE DEF waiting
<1>3. excess \in 0..Len(waiting) /\ Len(waiting) - excess <= MaxIdle
  BY <1>2 DEF SizesNat
<1> HIDE DEF excess
<1>4. /\ evictable' \in Seq(Keys) /\ Len(evictable') = Len(waiting) - excess /\ IsInjective(evictable')
      /\ \A j \in Keys : Contains(evictable', j) <=> Contains(waiting, j) /\ j \notin evicted
      /\ \A j \in evicted : Contains(waiting, j)
  BY <1>1, <1>2, <1>3, TailOfOnce
<1> HIDE DEF evicted
<1>5. /\ refs' \in [Keys -> Nat]
      /\ \A j \in Keys : refs'[j] = IF j = k /\ refs[k] > 0 THEN refs[k] - 1 ELSE refs[j]
  BY <1>1 DEF TypeOK
<1>6. /\ idle' \in [Keys -> SUBSET Streams]
      /\ \A j \in Keys : idle'[j] \subseteq idle[j] \cup (IF j = k THEN kept ELSE {})
      /\ \A j \in Keys : idle'[j] # {} => j \in queues'
  BY <1>1 DEF TypeOK, IdleBounded
<1>7. \A j \in Keys : Cardinality(idle'[j]) <= MaxQueue
  <2> TAKE j \in Keys
  <2>1. CASE j \in evicted
    BY <2>1, <1>1, StreamsCounted DEF SizesNat
  <2>2. CASE j \notin evicted /\ j = k
    BY <2>2, <1>1
  <2>3. CASE j \notin evicted /\ j # k
    <3>1. idle'[j] = idle[j]
      BY <2>3, <1>1
    <3> QED
      BY <3>1 DEF IdleBounded
  <2> QED
    BY <2>1, <2>2, <2>3
<1>8. QueuesReachable'
  <2> SUFFICES ASSUME ~closed, NEW j \in Keys
               PROVE  /\ j \in queues' <=> refs'[j] > 0 \/ Contains(evictable', j)
                      /\ ~(refs'[j] > 0 /\ Contains(evictable', j))
    BY DEF QueuesReachable
  <2>1. /\ j \in queues <=> refs[j] > 0 \/ Contains(evictable, j)
        /\ ~(refs[j] > 0 /\ Contains(evictable, j))
        /\ refs[j] \in Nat /\ refs[k] \in Nat \ {0}
    BY DEF QueuesReachable, TypeOK
  <2>2. CASE j = k
    BY <2>1, <2>2, <1>1, <1>2, <1>4, <1>5
  <2>3. CASE j # k
    BY <2>1, <2>3, <1>1, <1>2, <1>4, <1>5
  <2> QED
    BY <2>2, <2>3
<1> QED
  BY <1>1, <1>3, <1>4, <1>5, <1>6, <1>7, <1>8 DEF WaitsOnce, IdleBounded

-----------------------------------------------------------------------------
\* One lemma per action: the invariant is kept by every step.
USE SizesNat, FiniteWorld, NoKeyNotKey
USE DEF CacheInductive, QueuesInOrder, Goes, cacheVars, Referrers

LEMMA CacheInductiveInit == Init => CacheInductive
<1> SUFFICES ASSUME Init PROVE CacheInductive
  OBVIOUS
<1> USE DEF Init
<1>1. TypeOK
  <2>1. evictable \in Seq(Keys)
    OBVIOUS
  <2> QED
    BY <2>1 DEF TypeOK
<1>c. PoolsHold
  BY DEF PoolsHold
<1>a. WaitsOnce
  BY DEF WaitsOnce, IsInjective
<1>b. OneOwner
  BY DEF OneOwner, IdleStreams
<1>2. QueuesReachable
  BY DEF QueuesReachable, Contains
<1>3. IdleBounded
  BY StreamsCounted DEF IdleBounded
<1>4. RefsExact
  <2>1. \A k \in Keys : Referrers(k) = {}
    OBVIOUS
  <2> QED
    BY <2>1, FS_EmptySet DEF RefsExact
<1> QED
  BY <1>1, <1>a, <1>b, <1>c, <1>2, <1>3, <1>4

\* The two steps of a pool that leave the cache alone before it has streams.
LEMMA GetKeeps ==
  ASSUME CacheInductive, NEW p \in Pools, NEW k \in Keys, Get(p, k)
  PROVE  CacheInductive'
<1> USE DEF Get
<1>1. TypeOK' /\ PoolsHold'
  BY DEF TypeOK, PoolsHold
<1>2. WaitsOnce' /\ OneOwner' /\ QueuesReachable' /\ IdleBounded'
  BY DEF WaitsOnce, OneOwner, IdleStreams, QueuesReachable, IdleBounded
<1>3. RefsExact'
  <2>1. \A j \in Keys : Referrers(j)' = Referrers(j)
    BY DEF TypeOK
  <2> QED
    BY <2>1 DEF RefsExact
<1> QED
  BY <1>1, <1>2, <1>3

LEMMA InfoFailsKeeps ==
  ASSUME CacheInductive, NEW p \in Pools, InfoFails(p)
  PROVE  CacheInductive'
<1> USE DEF InfoFails
<1>1. TypeOK' /\ PoolsHold'
  BY DEF TypeOK, PoolsHold
<1>2. WaitsOnce' /\ OneOwner' /\ QueuesReachable' /\ IdleBounded'
  BY DEF WaitsOnce, OneOwner, IdleStreams, QueuesReachable, IdleBounded
<1>3. RefsExact'
  <2>1. \A j \in Keys : Referrers(j)' = Referrers(j)
    BY DEF TypeOK
  <2> QED
    BY <2>1 DEF RefsExact
<1> QED
  BY <1>1, <1>2, <1>3

\* _incref: the key of a pool no longer waits for eviction, and its queue is there.
LEMMA AttachKeeps ==
  ASSUME CacheInductive, NEW p \in Pools, Attach(p)
  PROVE  CacheInductive'
<1> DEFINE k == keyOf[p]
<1>1. k \in Keys /\ pool[p] = "info"
  BY DEF Attach, PoolsHold
<1>2. /\ queues' = queues \cup {k} /\ refs' = [refs EXCEPT ![k] = @ + 1]
      /\ evictable' = RemoveFirst(evictable, k) /\ pool' = [pool EXCEPT ![p] = "opening"]
      /\ UNCHANGED <<closed, idle, keyOf, mine, parked>>
  BY DEF Attach
<1>3. /\ evictable' \in Seq(Keys) /\ Len(evictable') <= Len(evictable) /\ WaitsOnce'
      /\ \A j \in Keys : Contains(evictable', j) <=> j # k /\ Contains(evictable, j)
  BY <1>2, RemoveFirstFacts DEF TypeOK, WaitsOnce
<1>4. TypeOK'
  BY <1>1, <1>2, <1>3 DEF TypeOK
<1>5. PoolsHold'
  BY <1>1, <1>2 DEF TypeOK, PoolsHold
<1>6. OneOwner'
  BY <1>2 DEF OneOwner, IdleStreams
<1>7. QueuesReachable'
  BY <1>1, <1>2, <1>3 DEF TypeOK, QueuesReachable
<1>8. IdleBounded'
  BY <1>2, <1>3 DEF TypeOK, IdleBounded
<1>9. RefsExact'
  <2> SUFFICES ASSUME ~closed, NEW j \in Keys
               PROVE  refs'[j] = Cardinality(Referrers(j)')
    BY <1>2 DEF RefsExact
  <2>1. CASE j = k
    <3>1. p \notin Referrers(j) /\ Referrers(j)' = Referrers(j) \cup {p}
      BY <1>1, <1>2, <2>1 DEF TypeOK
    <3>2. Cardinality(Referrers(j)') = Cardinality(Referrers(j)) + 1
      BY <3>1, ReferrerComes
    <3> QED
      BY <3>2, <2>1, <1>1, <1>2 DEF TypeOK, RefsExact
  <2>2. CASE j # k
    <3>1. Referrers(j)' = Referrers(j)
      BY <1>1, <1>2, <2>2 DEF TypeOK
    <3> QED
      BY <3>1, <2>2, <1>1, <1>2 DEF TypeOK, RefsExact
  <2> QED
    BY <2>1, <2>2
<1> QED
  BY <1>3, <1>4, <1>5, <1>6, <1>7, <1>8, <1>9

\* The owners of one stream: OneOwner, stream by stream.
OwnedOnce(s) ==
  /\ \A p, q \in Pools : p # q =>
       ~(s \in mine[p] /\ s \in mine[q]) /\ ~(s \in parked[p] /\ s \in parked[q])
  /\ \A p, q \in Pools : ~(s \in mine[p] /\ s \in parked[q])
  /\ \A j, k \in Keys : j # k => ~(s \in idle[j] /\ s \in idle[k])
  /\ \A p \in Pools, k \in Keys : s \in idle[k] => s \notin mine[p] /\ s \notin parked[p]

LEMMA OneOwnerByStream == TypeOK => (OneOwner <=> \A s \in Streams : OwnedOnce(s))
<1> SUFFICES ASSUME TypeOK PROVE OneOwner <=> \A s \in Streams : OwnedOnce(s)
  OBVIOUS
<1>1. ASSUME OneOwner, NEW s \in Streams
      PROVE  OwnedOnce(s)
  <2>1. \A p, q \in Pools : p # q =>
          ~(s \in mine[p] /\ s \in mine[q]) /\ ~(s \in parked[p] /\ s \in parked[q])
    BY <1>1 DEF OneOwner
  <2>2. \A p, q \in Pools : ~(s \in mine[p] /\ s \in parked[q])
    BY <1>1 DEF OneOwner
  <2>3. \A j, k \in Keys : j # k => ~(s \in idle[j] /\ s \in idle[k])
    BY <1>1 DEF OneOwner
  <2>4. \A p \in Pools, k \in Keys : s \in idle[k] => s \notin mine[p] /\ s \notin parked[p]
    BY <1>1 DEF OneOwner, IdleStreams
  <2> QED
    BY <2>1, <2>2, <2>3, <2>4 DEF OwnedOnce
<1>2. ASSUME \A s \in Streams : OwnedOnce(s)
      PROVE  OneOwner
  <2>1. /\ \A p \in Pools : mine[p] \subseteq Streams /\ parked[p] \subseteq Streams
        /\ \A k \in Keys : idle[k] \subseteq Streams
    BY DEF TypeOK
  <2>2. \A p, q \in Pools : p # q => mine[p] \cap mine[q] = {} /\ parked[p] \cap parked[q] = {}
    BY <1>2, <2>1 DEF OwnedOnce
  <2>3. \A p, q \in Pools : mine[p] \cap parked[q] = {}
    BY <1>2, <2>1 DEF OwnedOnce
  <2>4. \A j, k \in Keys : j # k => idle[j] \cap idle[k] = {}
    BY <1>2, <2>1 DEF OwnedOnce
  <2>5. \A p \in Pools : (mine[p] \cup parked[p]) \cap IdleStreams = {}
    BY <1>2, <2>1 DEF OwnedOnce, IdleStreams
  <2> QED
    BY <2>2, <2>3, <2>4, <2>5 DEF OneOwner
<1> QED
  BY <1>1, <1>2

LEMMA OneOwnerAfter == TypeOK' => (OneOwner' <=> \A s \in Streams : OwnedOnce(s)')
<1>1. (TypeOK => (OneOwner <=> \A s \in Streams : OwnedOnce(s)))'
  BY OneOwnerByStream, PTL
<1> QED
  BY <1>1

\* Streams that leave a queue.
LEMMA IdleShrinks ==
  ASSUME TypeOK, IdleBounded, OneOwner, NEW k \in Keys, NEW s,
         idle' = [idle EXCEPT ![k] = @ \ {s}], UNCHANGED <<queues, evictable>>
  PROVE  IdleBounded' /\ idle' \in [Keys -> SUBSET Streams]
<1>1. idle' \in [Keys -> SUBSET Streams] /\ \A j \in Keys : idle'[j] \subseteq idle[j]
  BY DEF TypeOK
<1>2. ASSUME NEW j \in Keys
      PROVE  Cardinality(idle'[j]) <= MaxQueue
  <2>1. idle[j] \in SUBSET Streams /\ idle'[j] \in SUBSET idle[j]
    BY <1>1 DEF TypeOK
  <2>2. /\ Cardinality(idle'[j]) <= Cardinality(idle[j])
        /\ Cardinality(idle[j]) \in Nat /\ Cardinality(idle'[j]) \in Nat
    BY <2>1, StreamsCounted
  <2> QED
    BY <2>2 DEF IdleBounded
<1>3. \A j \in Keys : idle'[j] # {} => j \in queues'
  BY <1>1 DEF IdleBounded
<1> QED
  BY <1>1, <1>2, <1>3 DEF IdleBounded

\* A pool gets a stream, idle or new, as it starts or scales up.
LEMMA StreamComes ==
  ASSUME CacheInductive, NEW p \in Pools, NEW s \in Streams, TakeIdle(p, s) \/ OpenNew(p, s),
         pool[p] \in {"opening", "ready"}, pool' = [pool EXCEPT ![p] = "ready"]
  PROVE  CacheInductive'
<1> DEFINE k == keyOf[p]
<1>1. k \in Keys
  BY DEF PoolsHold
<1>2. /\ mine' = [mine EXCEPT ![p] = @ \cup {s}]
      /\ UNCHANGED <<closed, queues, refs, evictable, keyOf, parked>>
      /\ \/ s \in idle[k] /\ idle' = [idle EXCEPT ![k] = @ \ {s}]
         \/ s \notin OpenStreams /\ UNCHANGED idle
  BY DEF TakeIdle, OpenNew
<1>3. IdleBounded' /\ idle' \in [Keys -> SUBSET Streams]
  <2>1. CASE UNCHANGED idle
    BY <1>2, <2>1 DEF TypeOK, IdleBounded
  <2>2. CASE idle' = [idle EXCEPT ![k] = @ \ {s}]
    BY <1>1, <1>2, <2>2, IdleShrinks
  <2> QED
    BY <1>2, <2>1, <2>2
<1>4. TypeOK'
  BY <1>1, <1>2, <1>3 DEF TypeOK
<1>5. PoolsHold'
  BY <1>1, <1>2 DEF TypeOK, PoolsHold
<1>6. WaitsOnce' /\ QueuesReachable'
  BY <1>2 DEF WaitsOnce, QueuesReachable
<1>7. RefsExact'
  <2>1. \A j \in Keys : Referrers(j)' = Referrers(j)
    BY <1>2 DEF TypeOK
  <2> QED
    BY <2>1, <1>2 DEF RefsExact
<1>8. OneOwner'
  <2> SUFFICES ASSUME NEW t \in Streams PROVE OwnedOnce(t)'
    BY <1>4, OneOwnerAfter
  <2>1. OwnedOnce(t)
    BY OneOwnerByStream
  <2>2. /\ \A q \in Pools : t \in mine'[q] <=> t \in mine[q] \/ (q = p /\ t = s)
        /\ \A q \in Pools : t \in parked'[q] <=> t \in parked[q]
    BY <1>2 DEF TypeOK
  <2>3. CASE s \notin OpenStreams /\ UNCHANGED idle
    <3>1. /\ \A q \in Pools : s \notin mine[q] /\ s \notin parked[q]
          /\ \A j \in Keys : s \notin idle[j]
      BY <2>3 DEF OpenStreams, IdleStreams
    <3> QED
      <4>1. \A j \in Keys : t \in idle'[j] <=> t \in idle[j]
        BY <2>3
      <4> QED
        BY <2>1, <2>2, <3>1, <4>1 DEF OwnedOnce
  <2>4. CASE s \in idle[k] /\ idle' = [idle EXCEPT ![k] = @ \ {s}]
    <3>1. \A j \in Keys : t \in idle'[j] <=> t \in idle[j] /\ ~(j = k /\ t = s)
      BY <2>4, <1>1 DEF TypeOK
    <3>2. t = s => t \in idle[k]
      BY <2>4
    <3> QED
      BY <2>1, <2>2, <3>1, <3>2, <1>1 DEF OwnedOnce
  <2> QED
    BY <2>3, <2>4, <1>2
<1> QED
  BY <1>3, <1>4, <1>5, <1>6, <1>7, <1>8

\* A stale idle stream changes hands without being lent.
LEMMA ParkKeeps ==
  ASSUME CacheInductive, NEW p \in Pools, NEW s \in Streams, Park(p, s)
  PROVE  CacheInductive'
<1> DEFINE k == keyOf[p]
<1>1. k \in Keys /\ pool[p] \in {"opening", "ready"}
  BY DEF PoolsHold, Park
<1>2. /\ s \in idle[k] /\ idle' = [idle EXCEPT ![k] = @ \ {s}]
      /\ parked' = [parked EXCEPT ![p] = @ \cup {s}]
      /\ UNCHANGED <<closed, queues, refs, evictable, pool, keyOf, mine>>
  BY DEF Park
<1>3. IdleBounded' /\ idle' \in [Keys -> SUBSET Streams]
  BY <1>1, <1>2, IdleShrinks
<1>4. TypeOK'
  BY <1>1, <1>2, <1>3 DEF TypeOK
<1>5. PoolsHold'
  BY <1>1, <1>2 DEF TypeOK, PoolsHold
<1>6. WaitsOnce' /\ QueuesReachable'
  BY <1>2 DEF WaitsOnce, QueuesReachable
<1>7. RefsExact'
  <2>1. \A j \in Keys : Referrers(j)' = Referrers(j)
    BY <1>2 DEF TypeOK
  <2> QED
    BY <2>1, <1>2 DEF RefsExact
<1>8. OneOwner'
  <2> SUFFICES ASSUME NEW t \in Streams PROVE OwnedOnce(t)'
    BY <1>4, OneOwnerAfter
  <2>1. OwnedOnce(t)
    BY OneOwnerByStream
  <2>2. /\ \A q \in Pools : t \in parked'[q] <=> t \in parked[q] \/ (q = p /\ t = s)
        /\ \A q \in Pools : t \in mine'[q] <=> t \in mine[q]
    BY <1>2 DEF TypeOK
  <2>3. \A j \in Keys : t \in idle'[j] <=> t \in idle[j] /\ ~(j = k /\ t = s)
    BY <1>1, <1>2 DEF TypeOK
  <2>4. t = s => t \in idle[k]
    BY <1>2
  <2> QED
    BY <2>1, <2>2, <2>3, <2>4, <1>1 DEF OwnedOnce
<1> QED
  BY <1>3, <1>4, <1>5, <1>6, <1>7, <1>8

\* A pool that lets go of its key is no longer counted.
LEMMA DecrefCounts ==
  ASSUME CacheInductive, NEW p \in Pools, NEW k \in Keys, k = keyOf[p],
         pool[p] \in {"opening", "ready"}, pool' \in {[pool EXCEPT ![p] = "purging"], [pool EXCEPT ![p] = "draining"]},
         UNCHANGED <<closed, keyOf>>,
         \A j \in Keys : refs'[j] = IF j = k /\ refs[k] > 0 THEN refs[k] - 1 ELSE refs[j]
  PROVE  RefsExact'
<1> SUFFICES ASSUME ~closed, NEW j \in Keys
             PROVE  refs'[j] = Cardinality(Referrers(j)')
  BY DEF RefsExact
<1>1. refs[j] = Cardinality(Referrers(j))
  BY DEF RefsExact
<1>2. CASE j = k
  <2>1. p \in Referrers(j) /\ Referrers(j)' = Referrers(j) \ {p}
    BY <1>2 DEF TypeOK
  <2>2. Cardinality(Referrers(j)') = Cardinality(Referrers(j)) - 1
    BY <2>1, ReferrerGoes
  <2>3. Cardinality(Referrers(j)) > 0
    BY <2>1, ReferrersCounted
  <2> QED
    BY <2>2, <2>3, <1>1, <1>2
<1>3. CASE j # k
  <2>1. Referrers(j)' = Referrers(j)
    BY <1>3 DEF TypeOK
  <2> QED
    BY <2>1, <1>1, <1>3
<1> QED
  BY <1>2, <1>3

\* The key of a pool that is counted has references, unless the cache is closed.
LEMMA CountedHasRefs ==
  ASSUME CacheInductive, NEW p \in Pools, pool[p] \in {"opening", "ready"}
  PROVE  keyOf[p] \in Keys /\ (closed \/ refs[keyOf[p]] > 0)
<1>1. keyOf[p] \in Keys
  BY DEF PoolsHold
<1>2. p \in Referrers(keyOf[p])
  OBVIOUS
<1> QED
  BY <1>1, <1>2, ReferrersCounted DEF RefsExact

\* A pool that cannot start releases its key with nothing in hand.
LEMMA InitFailsKeeps ==
  ASSUME CacheInductive, NEW p \in Pools, InitFails(p)
  PROVE  CacheInductive'
<1> DEFINE k == keyOf[p]
<1>1. k \in Keys /\ (closed \/ refs[k] > 0) /\ pool[p] = "opening"
  BY CountedHasRefs DEF InitFails
<1>2. /\ Decref(k, {}) /\ pool' = [pool EXCEPT ![p] = "purging"]
      /\ UNCHANGED <<closed, keyOf, mine, parked>>
  BY DEF InitFails
<1>3. Cardinality(idle[k] \cup {}) <= MaxQueue
  BY <1>1 DEF IdleBounded
<1> HIDE DEF k
<1>4. /\ queues' \subseteq queues /\ refs' \in [Keys -> Nat] /\ evictable' \in Seq(Keys)
      /\ idle' \in [Keys -> SUBSET Streams]
      /\ \A j \in Keys : idle'[j] \subseteq idle[j] \cup (IF j = k THEN {} ELSE {})
      /\ \A j \in Keys : refs'[j] = IF j = k /\ refs[k] > 0 THEN refs[k] - 1 ELSE refs[j]
      /\ WaitsOnce' /\ QueuesReachable' /\ IdleBounded'
  BY <1>1, <1>2, <1>3, DecrefKeepsOrder
<1>5. TypeOK'
  BY <1>2, <1>4 DEF TypeOK
<1>6. PoolsHold'
  BY <1>1, <1>2 DEF TypeOK, PoolsHold
<1>7. RefsExact'
  BY <1>1, <1>2, <1>4, DecrefCounts DEF k
<1>8. OneOwner'
  <2> SUFFICES ASSUME NEW t \in Streams PROVE OwnedOnce(t)'
    BY <1>5, OneOwnerAfter
  <2>1. OwnedOnce(t)
    BY OneOwnerByStream
  <2>2. \A j \in Keys : t \in idle'[j] => t \in idle[j]
    BY <1>4
  <2> QED
    BY <2>1, <2>2, <1>2 DEF OwnedOnce
<1> QED
  BY <1>4, <1>5, <1>6, <1>7, <1>8

\* A pool that closes gives its free streams to the queue of its key, as many as that has room for.
LEMMA PoolCloseKeeps ==
  ASSUME CacheInductive, NEW p \in Pools, NEW free \in SUBSET mine[p], PoolClose(p, free)
  PROVE  CacheInductive'
<1> DEFINE k == keyOf[p]
<1>1. k \in Keys /\ (closed \/ refs[k] > 0) /\ pool[p] = "ready"
  BY CountedHasRefs DEF PoolClose
<1>2. /\ pool' = [pool EXCEPT ![p] = "draining"] /\ mine' = [mine EXCEPT ![p] = @ \ free]
      /\ UNCHANGED <<closed, keyOf, parked>>
  BY DEF PoolClose
<1>3. PICK kept \in Kept(k, free) : Decref(k, kept)
  BY DEF PoolClose
<1>4. /\ kept \subseteq free /\ free \in SUBSET Streams /\ kept \in SUBSET Streams
      /\ Cardinality(kept) = IF k \in queues
           THEN Least(Cardinality(free), MaxQueue - Cardinality(idle[k])) ELSE 0
  BY DEF Kept, TypeOK
<1>5. idle[k] \in SUBSET Streams /\ Cardinality(idle[k]) <= MaxQueue
  BY <1>1 DEF TypeOK, IdleBounded
<1> HIDE DEF k
<1>6. kept # {} => k \in queues
  BY <1>4, StreamsCounted
<1>7. Cardinality(idle[k] \cup kept) <= MaxQueue
  <2>1. /\ Cardinality(idle[k] \cup kept) <= Cardinality(idle[k]) + Cardinality(kept)
        /\ Cardinality(idle[k]) \in Nat /\ Cardinality(free) \in Nat
        /\ Cardinality(idle[k] \cup kept) \in Nat
    <3>1. idle[k] \cup kept \in SUBSET Streams
      BY <1>4, <1>5
    <3> QED
      BY <3>1, <1>4, <1>5, StreamsCounted
  <2> QED
    BY <2>1, <1>4, <1>5 DEF Least
<1>8. /\ queues' \subseteq queues /\ refs' \in [Keys -> Nat] /\ evictable' \in Seq(Keys)
      /\ idle' \in [Keys -> SUBSET Streams]
      /\ \A j \in Keys : idle'[j] \subseteq idle[j] \cup (IF j = k THEN kept ELSE {})
      /\ \A j \in Keys : refs'[j] = IF j = k /\ refs[k] > 0 THEN refs[k] - 1 ELSE refs[j]
      /\ WaitsOnce' /\ QueuesReachable' /\ IdleBounded'
  BY <1>1, <1>2, <1>3, <1>4, <1>6, <1>7, DecrefKeepsOrder
<1>9. TypeOK'
  BY <1>2, <1>4, <1>8 DEF TypeOK
<1>10. PoolsHold'
  BY <1>1, <1>2 DEF TypeOK, PoolsHold
<1>11. RefsExact'
  BY <1>1, <1>2, <1>8, DecrefCounts DEF k
<1>12. OneOwner'
  <2> SUFFICES ASSUME NEW t \in Streams PROVE OwnedOnce(t)'
    BY <1>9, OneOwnerAfter
  <2>1. OwnedOnce(t)
    BY OneOwnerByStream
  <2>2. \A j \in Keys : t \in idle'[j] => t \in idle[j] \/ (j = k /\ t \in free)
    BY <1>4, <1>8
  <2>3. /\ t \in free => t \in mine[p]
        /\ \A q \in Pools : t \in mine'[q] <=> t \in mine[q] /\ ~(q = p /\ t \in free)
    BY <1>2 DEF TypeOK
  <2> QED
    BY <2>1, <2>2, <2>3, <1>1, <1>2 DEF OwnedOnce
<1> QED
  BY <1>8, <1>9, <1>10, <1>11, <1>12

\* The queue of a key goes with a pool that could not start, if nobody else holds the key.
LEMMA PurgeKeeps ==
  ASSUME CacheInductive, NEW p \in Pools, Purge(p)
  PROVE  CacheInductive'
<1> DEFINE k == keyOf[p]
<1>1. k \in Keys /\ pool[p] = "purging"
  BY DEF PoolsHold, Purge
<1>2. /\ pool' = [pool EXCEPT ![p] = "none"] /\ keyOf' = [keyOf EXCEPT ![p] = NoKey]
      /\ parked' = [parked EXCEPT ![p] = {}] /\ UNCHANGED <<closed, refs, mine>>
  BY DEF Purge
<1>3. \/ /\ refs[k] = 0 /\ queues' = queues \ {k} /\ idle' = [idle EXCEPT ![k] = {}]
         /\ evictable' = RemoveFirst(evictable, k)
      \/ UNCHANGED <<queues, idle, evictable>>
  BY DEF Purge
<1>4. /\ queues' \subseteq Keys /\ evictable' \in Seq(Keys) /\ idle' \in [Keys -> SUBSET Streams]
      /\ \A j \in Keys : idle'[j] \subseteq idle[j]
      /\ WaitsOnce' /\ QueuesReachable' /\ IdleBounded'
  <2>1. CASE UNCHANGED <<queues, idle, evictable>>
    BY <2>1, <1>2 DEF TypeOK, WaitsOnce, QueuesReachable, IdleBounded
  <2>2. CASE /\ refs[k] = 0 /\ queues' = queues \ {k} /\ idle' = [idle EXCEPT ![k] = {}]
             /\ evictable' = RemoveFirst(evictable, k)
    <3>1. /\ evictable' \in Seq(Keys) /\ Len(evictable') <= Len(evictable) /\ WaitsOnce'
          /\ \A j \in Keys : Contains(evictable', j) <=> j # k /\ Contains(evictable, j)
      BY <2>2, RemoveFirstFacts DEF TypeOK, WaitsOnce
    <3>2. /\ idle' \in [Keys -> SUBSET Streams]
          /\ \A j \in Keys : idle'[j] = IF j = k THEN {} ELSE idle[j]
      BY <2>2, <1>1 DEF TypeOK
    <3>3. QueuesReachable'
      BY <3>1, <2>2, <1>1, <1>2 DEF TypeOK, QueuesReachable
    <3>4. IdleBounded'
      <4>1. Cardinality({}) = 0
        BY FS_EmptySet
      <4>2. \A j \in Keys : Cardinality(idle'[j]) <= MaxQueue
        <5> TAKE j \in Keys
        <5>1. CASE j = k
          BY <5>1, <4>1, <3>2
        <5>2. CASE j # k
          BY <5>2, <3>2 DEF IdleBounded
        <5> QED
          BY <5>1, <5>2
      <4>3. \A j \in Keys : idle'[j] # {} => j \in queues'
        BY <3>2, <2>2 DEF IdleBounded
      <4>4. Len(evictable') <= MaxIdle
        BY <3>1 DEF IdleBounded, TypeOK
      <4> QED
        BY <4>2, <4>3, <4>4 DEF IdleBounded
    <3> QED
      BY <3>1, <3>2, <3>3, <3>4, <2>2 DEF TypeOK
  <2> QED
    BY <1>3, <2>1, <2>2
<1>5. TypeOK'
  BY <1>2, <1>4 DEF TypeOK
<1>6. PoolsHold'
  BY <1>1, <1>2 DEF TypeOK, PoolsHold
<1>7. RefsExact'
  <2>1. \A j \in Keys : Referrers(j)' = Referrers(j)
    BY <1>1, <1>2 DEF TypeOK
  <2> QED
    BY <2>1, <1>2 DEF RefsExact
<1>8. OneOwner'
  <2> SUFFICES ASSUME NEW t \in Streams PROVE OwnedOnce(t)'
    BY <1>5, OneOwnerAfter
  <2>1. OwnedOnce(t)
    BY OneOwnerByStream
  <2>2. /\ \A j \in Keys : t \in idle'[j] => t \in idle[j]
        /\ \A q \in Pools : t \in parked'[q] => t \in parked[q]
    BY <1>2, <1>4 DEF TypeOK
  <2> QED
    BY <2>1, <2>2, <1>2 DEF OwnedOnce
<1> QED
  BY <1>4, <1>5, <1>6, <1>7, <1>8

\* A pool whose last streams are back is done with its key.
LEMMA DrainedKeeps ==
  ASSUME CacheInductive, NEW p \in Pools, Drained(p)
  PROVE  CacheInductive'
<1>1. /\ pool[p] = "draining" /\ pool' = [pool EXCEPT ![p] = "none"]
      /\ keyOf' = [keyOf EXCEPT ![p] = NoKey]
      /\ mine' = [mine EXCEPT ![p] = {}] /\ parked' = [parked EXCEPT ![p] = {}]
      /\ UNCHANGED <<closed, queues, idle, refs, evictable>>
  BY DEF Drained
<1>2. TypeOK'
  BY <1>1 DEF TypeOK
<1>3. PoolsHold'
  BY <1>1 DEF TypeOK, PoolsHold
<1>4. WaitsOnce' /\ QueuesReachable' /\ IdleBounded'
  BY <1>1 DEF WaitsOnce, QueuesReachable, IdleBounded
<1>5. RefsExact'
  <2>1. \A j \in Keys : Referrers(j)' = Referrers(j)
    BY <1>1 DEF TypeOK
  <2> QED
    BY <2>1, <1>1 DEF RefsExact
<1>6. OneOwner'
  <2> SUFFICES ASSUME NEW t \in Streams PROVE OwnedOnce(t)'
    BY <1>2, OneOwnerAfter
  <2>1. OwnedOnce(t)
    BY OneOwnerByStream
  <2>2. /\ \A q \in Pools : t \in mine'[q] => t \in mine[q]
        /\ \A q \in Pools : t \in parked'[q] => t \in parked[q]
    BY <1>1 DEF TypeOK
  <2> QED
    BY <2>1, <2>2, <1>1 DEF OwnedOnce
<1> QED
  BY <1>2, <1>3, <1>4, <1>5, <1>6

\* close(): everything the cache holds goes; its pools keep theirs.
LEMMA CacheCloseKeeps ==
  ASSUME CacheInductive, CacheClose
  PROVE  CacheInductive'
<1> USE DEF CacheClose
<1>1. TypeOK'
  <2>1. evictable' \in Seq(Keys)
    OBVIOUS
  <2> QED
    BY <2>1 DEF TypeOK
<1>2. PoolsHold' /\ RefsExact' /\ QueuesReachable'
  BY DEF PoolsHold, RefsExact, QueuesReachable
<1>3. WaitsOnce'
  BY DEF WaitsOnce, IsInjective
<1>4. IdleBounded'
  BY FS_EmptySet DEF IdleBounded
<1>5. OneOwner'
  <2> SUFFICES ASSUME NEW t \in Streams PROVE OwnedOnce(t)'
    BY <1>1, OneOwnerAfter
  <2>1. OwnedOnce(t)
    BY OneOwnerByStream
  <2> QED
    BY <2>1 DEF OwnedOnce
<1> QED
  BY <1>1, <1>2, <1>3, <1>4, <1>5

LEMMA CacheStutters ==
  ASSUME CacheInductive, UNCHANGED vars
  PROVE  CacheInductive'
BY DEF vars, TypeOK, PoolsHold, WaitsOnce, QueuesReachable, IdleBounded, RefsExact, OneOwner, IdleStreams

HIDE DEF CacheInductive, QueuesInOrder, Goes, cacheVars, Referrers

-----------------------------------------------------------------------------
\* The invariant holds in every reachable state.
THEOREM CacheInvariant == Spec => []CacheInductive
<1>1. CacheInductive /\ [Next]_vars => CacheInductive'
  <2> SUFFICES ASSUME CacheInductive, [Next]_vars
               PROVE  CacheInductive'
    OBVIOUS
  <2>1. CASE CacheClose
    BY <2>1, CacheCloseKeeps
  <2>2. ASSUME NEW p \in Pools, NEW k \in Keys, Get(p, k)
        PROVE  CacheInductive'
    BY <2>2, GetKeeps
  <2>3. ASSUME NEW p \in Pools,
               InfoFails(p) \/ Attach(p) \/ InitFails(p) \/ Purge(p) \/ Drained(p)
        PROVE  CacheInductive'
    BY <2>3, InfoFailsKeeps, AttachKeeps, InitFailsKeeps, PurgeKeeps, DrainedKeeps
  <2>4. ASSUME NEW p \in Pools, NEW s \in Streams, Park(p, s)
        PROVE  CacheInductive'
    BY <2>4, ParkKeeps
  <2>5. ASSUME NEW p \in Pools, NEW s \in Streams, PoolReady(p, s) \/ ScaleUp(p, s)
        PROVE  CacheInductive'
    <3>1. pool \in [Pools -> {"none", "info", "opening", "ready", "purging", "draining"}]
      BY DEF CacheInductive, QueuesInOrder, TypeOK
    <3>2. /\ TakeIdle(p, s) \/ OpenNew(p, s)
          /\ pool[p] \in {"opening", "ready"}
          /\ pool' = [pool EXCEPT ![p] = "ready"]
      BY <2>5, <3>1 DEF PoolReady, ScaleUp, Goes
    <3> QED
      BY <3>2, StreamComes
  <2>6. ASSUME NEW p \in Pools, NEW free \in SUBSET mine[p], PoolClose(p, free)
        PROVE  CacheInductive'
    BY <2>6, PoolCloseKeeps
  <2>7. CASE UNCHANGED vars
    BY <2>7, CacheStutters
  <2> QED
    BY <2>1, <2>2, <2>3, <2>4, <2>5, <2>6, <2>7 DEF Next
<1> QED
  BY CacheInductiveInit, <1>1, PTL DEF Spec

\* _refcounts: until the cache is closed, the count of a key is the number of its open pools,
\* whatever fails or is cancelled between get() and close().
THEOREM CountsAreExact == Spec => []RefsExact
<1>1. CacheInductive => RefsExact
  BY DEF CacheInductive
<1> QED
  BY <1>1, CacheInvariant, PTL

\* No stream has two owners: neither two pools, nor a pool and a queue, nor two queues.
THEOREM StreamsHaveOneOwner == Spec => []OneOwner
<1>1. CacheInductive => OneOwner
  BY DEF CacheInductive
<1> QED
  BY <1>1, CacheInvariant, PTL

\* Every queue is reachable, no key in use is evicted, and the idle streams are bounded.
THEOREM QueuesStayInOrder == Spec => []QueuesInOrder
<1>1. CacheInductive => QueuesInOrder
  BY DEF CacheInductive
<1> QED
  BY <1>1, CacheInvariant, PTL
=============================================================================
