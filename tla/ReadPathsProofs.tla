-------------------------- MODULE ReadPathsProofs --------------------------
(***************************************************************************)
(* The parts of ReadPaths, proved one by one, for any number of objects,   *)
(* ranges, streams, blocks, threads and faults: the streams of one object  *)
(* and of many, the plan that shares the streams out, the arithmetic of    *)
(* limits and chunks, the cache with chunks, and the download to a file.   *)
(***************************************************************************)
EXTENDS CatRanges, StreamPlan, ByteRanges, ReadAheadChunked, Download,
        FiniteSetTheorems, WellFoundedInduction, TLAPS

-----------------------------------------------------------------------------
(* _cat_ranges(): the invariant that induction needs.                        *)

\* The streams of an object that have not reached the finally clause.
Active(o) == {g \in 1..MaxStreams : pc[<<o, g>>] \notin {"closing", "done"}}
Holders == {s \in Streams : has[s]}
Initializing == {"opening", "sizing", "giveup"}

\* A slot is taken before _init() and given back at the end.
SlotHeld ==
  \A s \in Streams :
    /\ pc[s] \in {"begin", "lock", "reading"} \cup Initializing => has[s]
    /\ pc[s] \in {"new", "limiter", "done"} => ~has[s]

RemainingExact == \A o \in Objects : remaining[o] = Cardinality(Active(o))

\* One stream at a time initializes an object, and it holds the lock.
LockHeld ==
  /\ \A s \in Streams : pc[s] \in Initializing => lock[s[1]] = s
  /\ \A o \in Objects : lock[o] # Nobody =>
       ~ready[o] /\ lock[o][1] = o /\ pc[lock[o]] \in Initializing

\* Where the pool of an object is, by what a stream does.
PoolOfStream ==
  \A s \in Streams : LET o == s[1] IN
    /\ pc[s] = "opening" => ~shared[o] /\ pool[o] = "none"
    /\ pc[s] = "sizing" => shared[o] /\ pool[o] = "open"
    /\ pc[s] = "giveup" => ~shared[o] /\ pool[o] = "open"
    /\ pc[s] = "reading" => ready[o] /\ shared[o] /\ empties[o] = "empty"
    /\ pc[s] = "closing" => remaining[o] = 0 /\ pool[o] = "open"

OneCloses ==
  \A s, t \in Streams : s[1] = t[1] /\ pc[s] = "closing" /\ pc[t] = "closing" => s = t

PoolOfObject ==
  \A o \in Objects :
    /\ opens[o] = IF pool[o] = "none" THEN 0 ELSE 1
    /\ shared[o] => pool[o] = "open" /\ remaining[o] > 0
    /\ ~ready[o] /\ lock[o] = Nobody => pool[o] = "none"
    /\ ~ready[o] => empties[o] = "none"
    /\ ready[o] /\ shared[o] => empties[o] = "empty"
    /\ pool[o] = "open" /\ ~shared[o] =>
         \E g \in 1..MaxStreams : pc[<<o, g>>] \in {"giveup", "closing"}

\* What an object has for its ranges once it is initialized.
AnswersOfObject ==
  \A o \in Objects :
    /\ ready[o] /\ empties[o] = "none" => \E g \in 1..MaxStreams : raises[<<o, g>>] # "no"
    /\ empties[o] = "empty" => groups[o] = Groups(o) /\ (remaining[o] > 0 => shared[o])
    /\ empties[o] = "error" =>
         ~shared[o] /\ \A g \in 1..Groups(o) : result[<<o, g>>] = "error"

\* A stream that is over has left its results, unless it raised.
AnswersOfStream ==
  \A s \in Streams : LET o == s[1] IN
    s[2] <= alloc[o] /\ pc[s] \in {"closing", "done"} /\ raises[s] = "no" =>
      ready[o] /\ (empties[o] = "empty" /\ s[2] <= Groups(o) => result[s] # "none")

CallerKnows ==
  /\ caller \in {"waiting", "returned"} => \A s \in Streams : ~cancelled[s]
  /\ caller \in {"returned", "raised"} => Over
  /\ caller = "returned" => \A s \in Streams : raises[s] = "no"

CatInductive ==
  /\ CatTypeOK /\ SlotsExact /\ SlotHeld /\ RemainingExact /\ LockHeld
  /\ PoolOfStream /\ OneCloses /\ PoolOfObject /\ AnswersOfObject /\ AnswersOfStream
  /\ CallerKnows

\* A stream is an object and a number.
LEMMA StreamParts ==
  /\ \A s \in Streams : s[1] \in Objects /\ s[2] \in 1..MaxStreams /\ s = <<s[1], s[2]>>
  /\ \A o \in Objects, g \in 1..MaxStreams : <<o, g>> \in Streams
  /\ IsFiniteSet(Streams) /\ Nobody \notin Streams
<1>1. IsFiniteSet(1..MaxStreams)
  BY CatAssumption, FS_Interval
<1>2. IsFiniteSet(Streams)
  BY <1>1, CatAssumption, FS_Product DEF Streams
<1> QED
  BY <1>2, CatAssumption DEF Streams

\* The streams that hold a slot, and the active ones of an object, are finitely many.
LEMMA Finite ==
  /\ IsFiniteSet(Holders) /\ Cardinality(Holders) \in Nat
  /\ \A o : IsFiniteSet(Active(o)) /\ Cardinality(Active(o)) \in 0..MaxStreams
<1>1. IsFiniteSet(1..MaxStreams) /\ Cardinality(1..MaxStreams) = MaxStreams
  BY CatAssumption, FS_Interval
<1>2. IsFiniteSet(Holders) /\ Cardinality(Holders) \in Nat
  BY StreamParts, FS_Subset, FS_CardinalityType DEF Holders
<1>3. ASSUME NEW o PROVE IsFiniteSet(Active(o)) /\ Cardinality(Active(o)) \in 0..MaxStreams
  <2>1. Active(o) \in SUBSET (1..MaxStreams)
    BY DEF Active
  <2>2. IsFiniteSet(Active(o)) /\ Cardinality(Active(o)) <= MaxStreams
    BY <2>1, <1>1, FS_Subset
  <2> QED
    BY <2>2, FS_CardinalityType, CatAssumption
<1> QED
  BY <1>2, <1>3

\* _run_stream() as it goes from one place to another before its finally clause, taking a slot or not.
LEMMA GoingOn ==
  ASSUME CatInductive, NEW s \in Streams, NEW p, pc[s] \notin {"closing", "done"},
         p \in {"limiter", "begin", "lock", "reading"} \cup Initializing,
         pc' = [pc EXCEPT ![s] = p], UNCHANGED <<inputs, remaining>>,
         \/ UNCHANGED <<slots, has>> /\ (p = "limiter" <=> ~has[s])
         \/ ~has[s] /\ slots > 0 /\ slots' = slots - 1 /\ has' = [has EXCEPT ![s] = TRUE] /\ p = "begin"
  PROVE  SlotsExact' /\ SlotHeld' /\ RemainingExact' /\ slots' \in 0..batch /\ has' \in [Streams -> BOOLEAN]
<1> USE DEF CatInductive, CatTypeOK, inputs
<1>1. \A o \in Objects : Active(o)' = Active(o)
  <2> SUFFICES ASSUME NEW o \in Objects, NEW g \in 1..MaxStreams
               PROVE  pc'[<<o, g>>] \in {"closing", "done"} <=> pc[<<o, g>>] \in {"closing", "done"}
    BY DEF Active
  <2> QED
    BY StreamParts DEF Initializing
<1>2. RemainingExact'
  BY <1>1 DEF RemainingExact
<1>3. SlotHeld'
  BY DEF SlotHeld, Initializing
<1>4. CASE UNCHANGED <<slots, has>>
  BY <1>2, <1>3, <1>4 DEF SlotsExact
<1>5. CASE ~has[s] /\ slots > 0 /\ slots' = slots - 1 /\ has' = [has EXCEPT ![s] = TRUE]
  <2>1. has' \in [Streams -> BOOLEAN]
    BY <1>5
  <2>2. Holders' = Holders \cup {s} /\ s \notin Holders
    BY <1>5 DEF Holders
  <2>3. Cardinality(Holders') = Cardinality(Holders) + 1
    BY <2>2, Finite, FS_AddElement
  <2>4. SlotsExact'
    BY <2>3, <1>5, Finite, CatAssumption DEF SlotsExact, Holders
  <2> QED
    BY <2>1, <2>4, <1>2, <1>3, <1>5, CatAssumption
<1> QED
  BY <1>4, <1>5

\* The finally clause of _run_stream().
LEMMA Leaving ==
  ASSUME CatInductive, NEW s \in Streams, NEW hold \in BOOLEAN, pc[s] \notin {"closing", "done"},
         Leaves(s, hold), UNCHANGED inputs
  PROVE  /\ SlotsExact' /\ SlotHeld' /\ RemainingExact' /\ slots' \in 0..batch
         /\ has' \in [Streams -> BOOLEAN] /\ remaining' \in [Objects -> 0..MaxStreams]
         /\ remaining[s[1]] > 0 /\ remaining' = [remaining EXCEPT ![s[1]] = @ - 1]
         /\ pc' = [pc EXCEPT ![s] = IF remaining[s[1]] = 1 /\ hold THEN "closing" ELSE "done"]
         /\ shared' = [shared EXCEPT ![s[1]] = hold /\ remaining[s[1]] # 1]
         /\ remaining[s[1]] = 1 =>
              \A t \in Streams : t[1] = s[1] /\ t # s => pc[t] \in {"closing", "done"}
<1> USE DEF CatInductive, CatTypeOK, inputs
<1> DEFINE o == s[1]
<1>0. s[1] \in Objects /\ s[2] \in 1..MaxStreams /\ s = <<s[1], s[2]>>
  BY StreamParts
<1>1. /\ pc' = [pc EXCEPT ![s] = IF remaining[o] = 1 /\ hold THEN "closing" ELSE "done"]
      /\ shared' = [shared EXCEPT ![o] = hold /\ remaining[o] # 1]
      /\ remaining' = [remaining EXCEPT ![o] = @ - 1]
  BY <1>0 DEF Leaves
<1>2. Active(o)' = Active(o) \ {s[2]} /\ s[2] \in Active(o)
  <2>1. ASSUME NEW g \in 1..MaxStreams
        PROVE  pc'[<<o, g>>] \notin {"closing", "done"} <=> g # s[2] /\ pc[<<o, g>>] \notin {"closing", "done"}
    <3>1. <<o, g>> \in Streams /\ (g # s[2] <=> <<o, g>> # s)
      BY <1>0, StreamParts
    <3> QED
      BY <3>1, <1>1
  <2>2. s[2] \in Active(o)
    BY <1>0 DEF Active
  <2> QED
    BY <2>1, <2>2 DEF Active
<1>3. \A x \in Objects \ {o} : Active(x)' = Active(x)
  <2> SUFFICES ASSUME NEW x \in Objects \ {o}, NEW g \in 1..MaxStreams
               PROVE  pc'[<<x, g>>] = pc[<<x, g>>]
    BY DEF Active
  <2> QED
    BY <1>0, <1>1, StreamParts
<1>4. Cardinality(Active(o)') = Cardinality(Active(o)) - 1 /\ Cardinality(Active(o)) > 0
  <2>1. IsFiniteSet(Active(o)) /\ Cardinality(Active(o)) \in Nat
    BY Finite, CatAssumption
  <2>2. Cardinality(Active(o)) # 0
    BY <2>1, <1>2, FS_EmptySet
  <2> HIDE DEF CatInductive, CatTypeOK
  <2>3. Cardinality(Active(o) \ {s[2]}) = Cardinality(Active(o)) - 1
    BY <2>1, <1>2, FS_RemoveElement
  <2> QED
    BY <2>1, <2>2, <2>3, <1>2
<1>5. remaining[o] = Cardinality(Active(o)) /\ remaining[o] \in 0..MaxStreams
  BY <1>0 DEF RemainingExact
<1>6. RemainingExact'
  BY <1>1, <1>3, <1>4, <1>5, <1>0 DEF RemainingExact
<1>7. remaining' \in [Objects -> 0..MaxStreams] /\ remaining[o] > 0
  BY <1>1, <1>4, <1>5, <1>0, CatAssumption
<1>8. ASSUME remaining[o] = 1, NEW t \in Streams, t[1] = o, t # s
      PROVE  pc[t] \in {"closing", "done"}
  <2>1. PICK x : Active(o) = {x}
    BY <1>8, <1>5, Finite, FS_Singleton
  <2>2. t[2] \in 1..MaxStreams /\ t = <<o, t[2]>>
    BY <1>8, StreamParts
  <2>3. t[2] # s[2]
    BY <1>0, <2>2, <1>8
  <2> QED
    BY <2>1, <2>2, <2>3, <1>2 DEF Active
<1>9. SlotsExact' /\ SlotHeld' /\ slots' \in 0..batch /\ has' \in [Streams -> BOOLEAN]
  <2>1. CASE remaining[o] = 1 /\ hold
    <3>1. UNCHANGED <<slots, has>>
      BY <2>1 DEF Leaves
    <3>2. SlotHeld'
      BY <3>1, <1>1, <2>1 DEF SlotHeld, Initializing
    <3> QED
      BY <3>1, <3>2 DEF SlotsExact
  <2>2. CASE ~(remaining[o] = 1 /\ hold)
    <3>1. slots' = slots + (IF has[s] THEN 1 ELSE 0) /\ has' = [has EXCEPT ![s] = FALSE]
      BY <2>2 DEF Leaves
    <3>2. SlotHeld'
      BY <3>1, <1>1, <2>2 DEF SlotHeld, Initializing
    <3>3. Holders' = Holders \ {s}
      BY <3>1 DEF Holders
    <3>a. s \in Holders <=> has[s]
      BY DEF Holders
    <3>b. IsFiniteSet(Holders \ {s}) /\ Cardinality(Holders \ {s}) = Cardinality(Holders) - (IF has[s] THEN 1 ELSE 0)
      BY <3>a, Finite, FS_RemoveElement
    <3>4. /\ Cardinality(Holders') = Cardinality(Holders) - (IF has[s] THEN 1 ELSE 0)
          /\ Cardinality(Holders') \in Nat
      BY <3>3, <3>b, FS_CardinalityType
    <3>5. slots' + Cardinality(Holders') = batch
      BY <3>4, <3>1, Finite, CatAssumption DEF SlotsExact, Holders
    <3>6. slots' \in 0..batch
      BY <3>5, <3>4, <3>1, CatAssumption
    <3> QED
      BY <3>1, <3>2, <3>5, <3>6 DEF SlotsExact, Holders
  <2> QED
    BY <2>1, <2>2
<1> QED
  BY <1>1, <1>6, <1>7, <1>8, <1>9

\* _run_stream() that ends before it opens its object, or after it has read.
LEMMA LeavesObject ==
  ASSUME CatInductive, NEW s \in Streams, NEW x \in {"none", "data", "error"}, NEW e \in {"no", "error", "cancel"},
         pc[s] \in {"limiter", "begin", "lock", "reading"}, Leaves(s, shared[s[1]]),
         result' = [result EXCEPT ![s] = x], raises' = [raises EXCEPT ![s] = e],
         UNCHANGED <<inputs, ready, pool, opens, lock, groups, empties, cancelled, caller>>,
         (pc[s] = "reading" /\ x # "none") \/ x = result[s],
         \/ e # "no"
         \/ /\ ready[s[1]] /\ e = raises[s]
            /\ empties[s[1]] = "empty" /\ s[2] <= Groups(s[1]) => x # "none"
  PROVE  CatInductive'
<1> USE DEF CatInductive, CatTypeOK, inputs
<1> DEFINE o == s[1]
<1>0. o \in Objects /\ s[2] \in 1..MaxStreams /\ s = <<o, s[2]>>
  BY StreamParts
<1>1. /\ SlotsExact' /\ SlotHeld' /\ RemainingExact' /\ slots' \in 0..batch
      /\ has' \in [Streams -> BOOLEAN] /\ remaining' \in [Objects -> 0..MaxStreams]
      /\ remaining[o] > 0 /\ remaining' = [remaining EXCEPT ![o] = @ - 1]
      /\ pc' = [pc EXCEPT ![s] = IF remaining[o] = 1 /\ shared[o] THEN "closing" ELSE "done"]
      /\ shared' = [shared EXCEPT ![o] = shared[o] /\ remaining[o] # 1]
      /\ remaining[o] = 1 => \A t \in Streams : t[1] = o /\ t # s => pc[t] \in {"closing", "done"}
  <2>1. shared[o] \in BOOLEAN /\ pc[s] \notin {"closing", "done"}
    BY <1>0
  <2> HIDE DEF CatInductive, CatTypeOK
  <2> QED
    BY <2>1, Leaving
<1>2. CatTypeOK'
  <2>1. pc' \in [Streams -> {"new", "limiter", "begin", "lock", "opening", "sizing", "giveup", "reading", "closing", "done"}]
    BY <1>1
  <2>2. shared' \in [Objects -> BOOLEAN]
    BY <1>1
  <2> QED
    BY <2>1, <2>2, <1>0, <1>1
<1>3. LockHeld'
  <2>1. lock[o] # s
    <3>1. LockHeld /\ s # Nobody /\ pc[s] \notin Initializing
      BY StreamParts DEF Initializing
    <3> HIDE DEF CatInductive, CatTypeOK
    <3> QED
      BY <3>1, <1>0 DEF LockHeld
  <2>2. \A t \in Streams : pc'[t] \in Initializing => pc[t] \in Initializing
    BY <1>1 DEF Initializing
  <2>3. \A p \in Objects : lock[p] # Nobody => lock[p] # s /\ lock[p] \in Streams
    BY <2>1 DEF LockHeld, Initializing
  <2>4. \A t \in Streams : t # s => pc'[t] = pc[t]
    BY <1>1
  <2> QED
    BY <2>2, <2>3, <2>4 DEF LockHeld
<1>4. PoolOfStream'
  <2> HIDE DEF CatInductive, CatTypeOK
  <2> SUFFICES ASSUME NEW t \in Streams
               PROVE  LET p == t[1] IN
                      /\ pc'[t] = "opening" => ~shared'[p] /\ pool[p] = "none"
                      /\ pc'[t] = "sizing" => shared'[p] /\ pool[p] = "open"
                      /\ pc'[t] = "giveup" => ~shared'[p] /\ pool[p] = "open"
                      /\ pc'[t] = "reading" => ready[p] /\ shared'[p] /\ empties[p] = "empty"
                      /\ pc'[t] = "closing" => remaining'[p] = 0 /\ pool[p] = "open"
    BY DEF PoolOfStream
  <2> USE DEF CatInductive, CatTypeOK
  <2>0. t[1] \in Objects
    BY StreamParts
  <2>1. CASE t = s
    <3>1. shared[o] => pool[o] = "open"
      BY <1>0 DEF PoolOfObject
    <3>2. pc'[s] = IF remaining[o] = 1 /\ shared[o] THEN "closing" ELSE "done"
      BY <1>1
    <3>3. remaining'[o] = remaining[o] - 1
      BY <1>0, <1>1
    <3> QED
      BY <2>1, <3>1, <3>2, <3>3
  <2>2. CASE t # s /\ t[1] = o
    BY <2>2, <1>0, <1>1 DEF PoolOfStream
  <2>3. CASE t # s /\ t[1] # o
    BY <2>3, <2>0, <1>0, <1>1 DEF PoolOfStream
  <2> QED
    BY <2>1, <2>2, <2>3
<1>5. OneCloses'
  <2>1. \A t \in Streams : t[1] = o => pc[t] # "closing"
    BY <1>1 DEF PoolOfStream
  <2> QED
    BY <2>1, <1>1 DEF OneCloses
<1>6. PoolOfObject'
  <2> HIDE DEF CatInductive, CatTypeOK
  <2> SUFFICES ASSUME NEW p \in Objects
               PROVE  /\ opens[p] = IF pool[p] = "none" THEN 0 ELSE 1
                      /\ shared'[p] => pool[p] = "open" /\ remaining'[p] > 0
                      /\ ~ready[p] /\ lock[p] = Nobody => pool[p] = "none"
                      /\ ~ready[p] => empties[p] = "none"
                      /\ ready[p] /\ shared'[p] => empties[p] = "empty"
                      /\ pool[p] = "open" /\ ~shared'[p] =>
                           \E g \in 1..MaxStreams : pc'[<<p, g>>] \in {"giveup", "closing"}
    BY DEF PoolOfObject
  <2> USE DEF CatInductive, CatTypeOK
  <2>1. opens[p] = (IF pool[p] = "none" THEN 0 ELSE 1) /\ (~ready[p] /\ lock[p] = Nobody => pool[p] = "none")
        /\ (~ready[p] => empties[p] = "none")
    BY DEF PoolOfObject
  <2>4. ready[p] /\ shared'[p] => empties[p] = "empty"
    <3>1. shared'[p] => shared[p]
      BY <1>0, <1>1
    <3> QED
      BY <3>1 DEF PoolOfObject
  <2>2. shared'[p] => pool[p] = "open" /\ remaining'[p] > 0
    <3>1. shared[p] => pool[p] = "open" /\ remaining[p] > 0
      BY DEF PoolOfObject
    <3>2. CASE p = o
      <4>0. shared \in [Objects -> BOOLEAN] /\ shared' = [shared EXCEPT ![o] = shared[o] /\ remaining[o] # 1]
        BY <1>1
      <4>1. shared'[o] <=> shared[o] /\ remaining[o] # 1
        BY <4>0, <1>0
      <4>2. remaining'[o] = remaining[o] - 1 /\ remaining[o] \in Nat
        BY <1>0, <1>1
      <4> QED
        BY <3>1, <3>2, <4>1, <4>2
    <3>3. CASE p # o
      BY <3>1, <3>3, <1>1
    <3> QED
      BY <3>2, <3>3
  <2>3. ASSUME pool[p] = "open", ~shared'[p]
        PROVE  \E g \in 1..MaxStreams : pc'[<<p, g>>] \in {"giveup", "closing"}
    <3>1. CASE shared[p]
      <4>1. p = o /\ remaining[o] = 1
        BY <3>1, <2>3, <1>0, <1>1
      <4>2. pc'[s] = "closing"
        BY <4>1, <3>1, <1>1
      <4>3. pc'[<<p, s[2]>>] = "closing"
        BY <4>1, <4>2, <1>0
      <4> QED
        BY <4>3, <1>0
    <3>2. CASE ~shared[p]
      <4>1. PICK g \in 1..MaxStreams : pc[<<p, g>>] \in {"giveup", "closing"}
        BY <3>2, <2>3 DEF PoolOfObject
      <4>2. <<p, g>> \in Streams /\ <<p, g>> # s
        BY <4>1, StreamParts
      <4> QED
        BY <4>1, <4>2, <1>1
    <3> QED
      BY <3>1, <3>2
  <2> QED
    BY <2>1, <2>2, <2>3, <2>4
<1>7. AnswersOfObject'
  <2> HIDE DEF CatInductive, CatTypeOK
  <2> SUFFICES ASSUME NEW p \in Objects
               PROVE  /\ ready[p] /\ empties[p] = "none" => \E g \in 1..MaxStreams : raises'[<<p, g>>] # "no"
                      /\ empties[p] = "empty" => groups[p] = Groups(p) /\ (remaining'[p] > 0 => shared'[p])
                      /\ empties[p] = "error" =>
                           ~shared'[p] /\ \A g \in 1..Groups(p) : result'[<<p, g>>] = "error"
    BY DEF AnswersOfObject, Groups
  <2> USE DEF CatInductive, CatTypeOK
  <2>1. ASSUME ready[p], empties[p] = "none"
        PROVE  \E g \in 1..MaxStreams : raises'[<<p, g>>] # "no"
    <3>1. PICK g \in 1..MaxStreams : raises[<<p, g>>] # "no"
      BY <2>1 DEF AnswersOfObject
    <3>2. <<p, g>> \in Streams
      BY StreamParts
    <3>3. raises'[<<p, g>>] # "no"
      BY <3>1, <3>2, <1>1
    <3> QED
      BY <3>3
  <2>2. empties[p] = "empty" => groups[p] = Groups(p) /\ (remaining'[p] > 0 => shared'[p])
    BY <1>0, <1>1 DEF AnswersOfObject
  <2>3. ASSUME empties[p] = "error"
        PROVE  ~shared'[p] /\ \A g \in 1..Groups(p) : result'[<<p, g>>] = "error"
    <3>1. ~shared[p] /\ \A g \in 1..Groups(p) : result[<<p, g>>] = "error"
      BY <2>3 DEF AnswersOfObject
    <3>2. ~shared'[p]
      BY <3>1, <1>1, <1>0
    <3>3. result' = result \/ p # o
      BY <2>3 DEF PoolOfStream
    <3>4. \A g : p # o => result'[<<p, g>>] = result[<<p, g>>]
      BY <1>0
    <3> QED
      BY <3>1, <3>2, <3>3, <3>4
  <2> QED
    BY <2>1, <2>2, <2>3
<1>8. AnswersOfStream'
  <2> HIDE DEF CatInductive, CatTypeOK
  <2> SUFFICES ASSUME NEW t \in Streams, t[2] <= alloc[t[1]], pc'[t] \in {"closing", "done"}, raises'[t] = "no"
               PROVE  ready[t[1]] /\ (empties[t[1]] = "empty" /\ t[2] <= Groups(t[1]) => result'[t] # "none")
    BY DEF AnswersOfStream, Groups
  <2> USE DEF CatInductive, CatTypeOK
  <2>1. CASE t = s
    BY <2>1
  <2>2. CASE t # s
    <3>1. pc[t] \in {"closing", "done"} /\ raises[t] = "no" /\ result'[t] = result[t]
      BY <2>2, <1>1
    <3> QED
      BY <3>1 DEF AnswersOfStream
  <2> QED
    BY <2>1, <2>2
<1>9. CallerKnows'
  <2>1. ~Over
    BY DEF Over
  <2> QED
    BY <2>1 DEF CallerKnows
<1> QED
  BY <1>1, <1>2, <1>3, <1>4, <1>5, <1>6, <1>7, <1>8, <1>9

\* _run_stream() that waits, takes a slot, starts to read, or becomes the one that opens its object.
LEMMA GoesOn ==
  ASSUME CatInductive, NEW s \in Streams, NEW p,
         \/ pc[s] = "new" /\ p = "limiter" /\ UNCHANGED <<slots, has, lock>>
         \/ /\ pc[s] = "limiter" /\ p = "begin" /\ slots > 0 /\ slots' = slots - 1
            /\ has' = [has EXCEPT ![s] = TRUE] /\ UNCHANGED lock
         \/ pc[s] = "begin" /\ p = "lock" /\ UNCHANGED <<slots, has, lock>>
         \/ /\ pc[s] \in {"begin", "lock"} /\ p = "reading" /\ UNCHANGED <<slots, has, lock>>
            /\ ready[s[1]] /\ shared[s[1]] /\ s[2] <= groups[s[1]]
         \/ /\ pc[s] \in {"begin", "lock"} /\ p = "opening" /\ UNCHANGED <<slots, has>>
            /\ ~ready[s[1]] /\ lock[s[1]] = Nobody /\ lock' = [lock EXCEPT ![s[1]] = s],
         pc' = [pc EXCEPT ![s] = p],
         UNCHANGED <<inputs, ready, shared, pool, opens, remaining, groups, result, empties, cancelled, raises, caller>>
  PROVE  CatInductive'
<1> USE DEF CatInductive, CatTypeOK, inputs
<1> DEFINE o == s[1]
<1>0. o \in Objects /\ s[2] \in 1..MaxStreams /\ s = <<o, s[2]>>
  BY StreamParts
<1>1. p \in {"limiter", "begin", "lock", "reading", "opening"} /\ pc[s] \in {"new", "limiter", "begin", "lock"}
  OBVIOUS
<1>2. SlotsExact' /\ SlotHeld' /\ RemainingExact' /\ slots' \in 0..batch /\ has' \in [Streams -> BOOLEAN]
  <2>1. pc[s] = "new" \/ pc[s] = "limiter" => ~has[s]
    BY DEF SlotHeld
  <2>2. pc[s] \in {"begin", "lock"} => has[s]
    BY DEF SlotHeld
  <2> QED
    BY <2>1, <2>2, <1>1, GoingOn DEF Initializing
<1>3. CatTypeOK'
  <2>1. lock' \in [Objects -> Streams \cup {Nobody}]
    BY <1>0
  <2> QED
    BY <2>1, <1>1, <1>2
<1>a. \A t \in Streams : t # s => pc'[t] = pc[t]
  OBVIOUS
<1>b. pc'[s] = p
  OBVIOUS
<1>4. LockHeld'
  <2>1. CASE p # "opening"
    <3>1. lock' = lock
      BY <2>1
    <3>2. \A x \in Objects : lock[x] # Nobody => lock[x] # s /\ lock[x] \in Streams
      BY <1>1 DEF LockHeld, Initializing
    <3> QED
      BY <3>1, <3>2, <1>a, <1>b, <1>1, <2>1 DEF LockHeld, Initializing
  <2>2. CASE p = "opening"
    <3>1. ~ready[o] /\ lock[o] = Nobody /\ lock' = [lock EXCEPT ![o] = s]
      BY <2>2
    <3>2. \A t \in Streams : pc[t] \in Initializing => lock[t[1]] = t
      BY DEF LockHeld
    <3>3. \A t \in Streams : pc'[t] \in Initializing => lock'[t[1]] = t
      <4> SUFFICES ASSUME NEW t \in Streams, t # s, pc[t] \in Initializing
                   PROVE  lock'[t[1]] = t
        BY <1>0, <3>1, <1>a
      <4>1. lock[t[1]] = t /\ t # Nobody /\ t[1] \in Objects
        BY <3>2, StreamParts
      <4> QED
        BY <4>1, <3>1
    <3>4. \A x \in Objects : x # o => lock'[x] = lock[x]
      BY <3>1
    <3>5. lock'[o] = s /\ pc'[s] \in Initializing
      BY <3>1, <1>0, <1>b, <2>2 DEF Initializing
    <3>6. \A x \in Objects : lock[x] # Nobody => lock[x] # s /\ lock[x] \in Streams
      BY <1>1 DEF LockHeld, Initializing
    <3> QED
      BY <3>1, <3>3, <3>4, <3>5, <3>6, <1>a DEF LockHeld
  <2> QED
    BY <2>1, <2>2
<1>5. PoolOfStream'
  <2>1. p = "opening" => ~shared[o] /\ pool[o] = "none"
    BY <1>0 DEF PoolOfObject
  <2>2. p = "reading" => ready[o] /\ shared[o] /\ empties[o] = "empty"
    <3>1. ready[o] /\ shared[o] => empties[o] = "empty"
      BY <1>0 DEF PoolOfObject
    <3> QED
      BY <3>1
  <2> QED
    BY <2>1, <2>2, <1>a, <1>b, <1>1 DEF PoolOfStream
<1>6. OneCloses'
  BY <1>a, <1>b, <1>1 DEF OneCloses
<1>7. PoolOfObject'
  <2> HIDE DEF CatInductive, CatTypeOK
  <2> SUFFICES ASSUME NEW x \in Objects
               PROVE  /\ opens[x] = IF pool[x] = "none" THEN 0 ELSE 1
                      /\ shared[x] => pool[x] = "open" /\ remaining[x] > 0
                      /\ ~ready[x] /\ lock'[x] = Nobody => pool[x] = "none"
                      /\ ~ready[x] => empties[x] = "none"
                      /\ ready[x] /\ shared[x] => empties[x] = "empty"
                      /\ pool[x] = "open" /\ ~shared[x] =>
                           \E g \in 1..MaxStreams : pc'[<<x, g>>] \in {"giveup", "closing"}
    BY DEF PoolOfObject
  <2> USE DEF CatInductive, CatTypeOK
  <2>1. lock'[x] = Nobody => lock[x] = Nobody
    BY <1>0, StreamParts
  <2>2. ASSUME pool[x] = "open", ~shared[x]
        PROVE  \E g \in 1..MaxStreams : pc'[<<x, g>>] \in {"giveup", "closing"}
    <3>1. PICK g \in 1..MaxStreams : pc[<<x, g>>] \in {"giveup", "closing"}
      BY <2>2 DEF PoolOfObject
    <3>2. <<x, g>> \in Streams /\ <<x, g>> # s
      BY <3>1, <1>1, StreamParts
    <3> QED
      BY <3>1, <3>2, <1>a
  <2> QED
    BY <2>1, <2>2 DEF PoolOfObject
<1>8. AnswersOfObject'
  <2>1. AnswersOfObject
    OBVIOUS
  <2> HIDE DEF CatInductive, CatTypeOK
  <2> QED
    BY <2>1 DEF AnswersOfObject, Groups
<1>9. AnswersOfStream'
  BY <1>a, <1>b, <1>1 DEF AnswersOfStream, Groups
<1>c. CallerKnows'
  <2>1. ~Over
    BY <1>1 DEF Over
  <2> QED
    BY <2>1 DEF CallerKnows
<1> QED
  BY <1>2, <1>3, <1>4, <1>5, <1>6, <1>7, <1>8, <1>9, <1>c

\* While a stream initializes its object, no other stream of the object is past init_lock.
LEMMA Alone ==
  ASSUME CatInductive, NEW s \in Streams, pc[s] \in Initializing
  PROVE  /\ ~ready[s[1]] /\ lock[s[1]] = s /\ empties[s[1]] = "none" /\ remaining[s[1]] > 0
         /\ \A t \in Streams : t[1] = s[1] /\ t # s =>
              /\ pc[t] \notin {"opening", "sizing", "giveup", "reading", "closing"}
              /\ pc[t] = "done" /\ t[2] <= alloc[t[1]] => raises[t] # "no"
<1> USE DEF CatInductive, CatTypeOK
<1>0. s[1] \in Objects /\ s[2] \in 1..MaxStreams /\ s = <<s[1], s[2]>> /\ s # Nobody
  BY StreamParts
<1>1. lock[s[1]] = s
  BY DEF LockHeld
<1>2. ~ready[s[1]]
  BY <1>0, <1>1 DEF LockHeld
<1>3. empties[s[1]] = "none"
  BY <1>0, <1>2 DEF PoolOfObject
<1>4. remaining[s[1]] > 0
  <2>1. s[2] \in Active(s[1])
    BY <1>0 DEF Active, Initializing
  <2>2. IsFiniteSet(Active(s[1])) /\ Cardinality(Active(s[1])) \in Nat
    BY Finite, CatAssumption
  <2>3. Cardinality(Active(s[1])) # 0
    BY <2>1, <2>2, FS_EmptySet
  <2> QED
    BY <2>2, <2>3, <1>0 DEF RemainingExact
<1>5. ASSUME NEW t \in Streams, t[1] = s[1], t # s
      PROVE  /\ pc[t] \notin {"opening", "sizing", "giveup", "reading", "closing"}
             /\ pc[t] = "done" /\ t[2] <= alloc[t[1]] => raises[t] # "no"
  <2>1. pc[t] \notin Initializing
    BY <1>1, <1>5 DEF LockHeld
  <2>2. pc[t] \notin {"reading", "closing"}
    BY <1>5, <1>2, <1>4 DEF PoolOfStream
  <2>3. pc[t] = "done" /\ t[2] <= alloc[t[1]] => raises[t] # "no"
    BY <1>5, <1>2 DEF AnswersOfStream
  <2> QED
    BY <2>1, <2>2, <2>3 DEF Initializing
<1> QED
  BY <1>1, <1>2, <1>3, <1>4, <1>5

\* init_lock as its holder leaves it.
LEMMA Unlocks ==
  ASSUME CatInductive, NEW s \in Streams, pc[s] \in Initializing, NEW q, q \notin Initializing,
         pc' = [pc EXCEPT ![s] = q], Initialized(s[1])
  PROVE  LockHeld' /\ ready' \in [Objects -> BOOLEAN] /\ lock' \in [Objects -> Streams \cup {Nobody}]
<1> USE DEF CatInductive, CatTypeOK
<1>0. s[1] \in Objects
  BY StreamParts
<1>1. ready' = [ready EXCEPT ![s[1]] = TRUE] /\ lock' = [lock EXCEPT ![s[1]] = Nobody]
  BY DEF Initialized
<1>2. \A t \in Streams : t # s => pc'[t] = pc[t]
  OBVIOUS
<1>3. \A t \in Streams : pc'[t] \in Initializing => lock'[t[1]] = t
  <2> SUFFICES ASSUME NEW t \in Streams, pc'[t] \in Initializing
               PROVE  lock'[t[1]] = t
    OBVIOUS
  <2>1. t # s /\ pc[t] \in Initializing
    BY <1>2
  <2>2. t[1] # s[1]
    BY <2>1 DEF LockHeld
  <2>3. lock[t[1]] = t /\ t[1] \in Objects
    BY <2>1, StreamParts DEF LockHeld
  <2> QED
    BY <2>2, <2>3, <1>1
<1>4. \A o \in Objects : lock'[o] # Nobody => ~ready'[o] /\ lock'[o][1] = o /\ pc'[lock'[o]] \in Initializing
  <2> SUFFICES ASSUME NEW o \in Objects, lock'[o] # Nobody
               PROVE  ~ready'[o] /\ lock'[o][1] = o /\ pc'[lock'[o]] \in Initializing
    OBVIOUS
  <2>1. o # s[1]
    BY <1>1
  <2>2. lock'[o] = lock[o] /\ ready'[o] = ready[o]
    BY <2>1, <1>1
  <2>3. lock[o][1] = o /\ ~ready[o] /\ pc[lock[o]] \in Initializing /\ lock[o] \in Streams
    BY <2>2 DEF LockHeld
  <2> QED
    BY <2>1, <2>2, <2>3, <1>2
<1> QED
  BY <1>0, <1>1, <1>3, <1>4 DEF LockHeld

\* _init() that ends without a pool: it is not opened, or is given up.
LEMMA NoPool ==
  ASSUME CatInductive, NEW s \in Streams,
         \/ pc[s] = "opening" /\ UNCHANGED pool
         \/ pc[s] = "giveup" /\ pool' = [pool EXCEPT ![s[1]] = "shut"],
         Leaves(s, FALSE), Initialized(s[1]),
         \/ AllFail(s[1]) /\ UNCHANGED raises
         \/ \E e \in {"error", "cancel"} : Raise(s, e) /\ UNCHANGED <<result, empties>>,
         UNCHANGED <<inputs, opens, groups, cancelled, caller>>
  PROVE  CatInductive'
<1> USE DEF CatInductive, CatTypeOK, inputs
<1> DEFINE o == s[1]
<1>0. o \in Objects /\ s[2] \in 1..MaxStreams /\ s = <<o, s[2]>>
  BY StreamParts
<1>1. /\ SlotsExact' /\ SlotHeld' /\ RemainingExact' /\ slots' \in 0..batch
      /\ has' \in [Streams -> BOOLEAN] /\ remaining' \in [Objects -> 0..MaxStreams]
      /\ remaining[o] > 0 /\ remaining' = [remaining EXCEPT ![o] = @ - 1]
      /\ pc' = [pc EXCEPT ![s] = "done"] /\ shared' = [shared EXCEPT ![o] = FALSE]
  BY Leaving
<1>2. /\ ~ready[o] /\ lock[o] = s /\ empties[o] = "none"
      /\ \A t \in Streams : t[1] = o /\ t # s =>
           /\ pc[t] \notin {"opening", "sizing", "giveup", "reading", "closing"}
           /\ pc[t] = "done" /\ t[2] <= alloc[t[1]] => raises[t] # "no"
  BY Alone DEF Initializing
<1>3. LockHeld' /\ ready' \in [Objects -> BOOLEAN] /\ lock' \in [Objects -> Streams \cup {Nobody}]
  BY <1>1, Unlocks DEF Initializing
<1>4. ~shared[o] /\ shared' = shared
  <2>1. ~shared[o]
    BY DEF PoolOfStream
  <2> QED
    BY <2>1, <1>0, <1>1
<1>5. ready' = [ready EXCEPT ![o] = TRUE] /\ lock' = [lock EXCEPT ![o] = Nobody]
  BY DEF Initialized
<1>6. /\ result' \in [Streams -> {"none", "data", "error"}] /\ raises' \in [Streams -> {"no", "error", "cancel"}]
      /\ \A t \in Streams : t[1] # o => result'[t] = result[t] /\ raises'[t] = raises[t]
      /\ \A t \in Streams : t # s => raises'[t] = raises[t]
      /\ \/ /\ empties' = [empties EXCEPT ![o] = "error"]
            /\ \A t \in Streams : t[1] = o /\ t[2] <= Groups(o) => result'[t] = "error"
         \/ empties' = empties /\ raises'[s] # "no" /\ result' = result
  BY <1>0 DEF AllFail, Raise
<1>7. /\ pool' \in [Objects -> {"none", "open", "shut"}] /\ pool'[o] \in {"none", "shut"}
      /\ (pool'[o] = "none" <=> pool[o] = "none") /\ \A p \in Objects : p # o => pool'[p] = pool[p]
  BY <1>0 DEF PoolOfStream
<1>8. \A t \in Streams : t # s => pc'[t] = pc[t]
  BY <1>1
<1>9. pc'[s] = "done"
  BY <1>1
<1>a. CatTypeOK'
  <2>1. pc' \in [Streams -> {"new", "limiter", "begin", "lock", "opening", "sizing", "giveup", "reading", "closing", "done"}]
    BY <1>1
  <2>2. shared' \in [Objects -> BOOLEAN]
    BY <1>4
  <2>3. empties' \in [Objects -> {"none", "empty", "error"}]
    BY <1>6
  <2> QED
    BY <2>1, <2>2, <2>3, <1>1, <1>3, <1>6, <1>7
<1>b. PoolOfStream'
  <2> HIDE DEF CatInductive, CatTypeOK
  <2> SUFFICES ASSUME NEW t \in Streams
               PROVE  LET p == t[1] IN
                      /\ pc'[t] = "opening" => ~shared'[p] /\ pool'[p] = "none"
                      /\ pc'[t] = "sizing" => shared'[p] /\ pool'[p] = "open"
                      /\ pc'[t] = "giveup" => ~shared'[p] /\ pool'[p] = "open"
                      /\ pc'[t] = "reading" => ready'[p] /\ shared'[p] /\ empties'[p] = "empty"
                      /\ pc'[t] = "closing" => remaining'[p] = 0 /\ pool'[p] = "open"
    BY DEF PoolOfStream
  <2> USE DEF CatInductive, CatTypeOK
  <2>0. t[1] \in Objects
    BY StreamParts
  <2>1. CASE t = s
    BY <2>1, <1>9
  <2>2. CASE t # s /\ t[1] = o
    BY <2>2, <1>2, <1>8
  <2>3. CASE t[1] # o
    <3>1. pc'[t] = pc[t] /\ pool'[t[1]] = pool[t[1]] /\ shared'[t[1]] = shared[t[1]] /\ ready'[t[1]] = ready[t[1]]
      BY <2>3, <2>0, <1>7, <1>8, <1>4, <1>5
    <3>2. empties'[t[1]] = empties[t[1]] /\ remaining'[t[1]] = remaining[t[1]]
      BY <2>3, <2>0, <1>6, <1>1
    <3> QED
      BY <3>1, <3>2 DEF PoolOfStream
  <2> QED
    BY <2>1, <2>2, <2>3
<1>c. OneCloses'
  BY <1>8, <1>9 DEF OneCloses
<1>d. PoolOfObject'
  <2> HIDE DEF CatInductive, CatTypeOK
  <2> SUFFICES ASSUME NEW p \in Objects
               PROVE  /\ opens[p] = IF pool'[p] = "none" THEN 0 ELSE 1
                      /\ shared'[p] => pool'[p] = "open" /\ remaining'[p] > 0
                      /\ ~ready'[p] /\ lock'[p] = Nobody => pool'[p] = "none"
                      /\ ~ready'[p] => empties'[p] = "none"
                      /\ ready'[p] /\ shared'[p] => empties'[p] = "empty"
                      /\ pool'[p] = "open" /\ ~shared'[p] =>
                           \E g \in 1..MaxStreams : pc'[<<p, g>>] \in {"giveup", "closing"}
    BY DEF PoolOfObject
  <2> USE DEF CatInductive, CatTypeOK
  <2>1. CASE p = o
    <3>1. opens[o] = IF pool[o] = "none" THEN 0 ELSE 1
      BY <1>0 DEF PoolOfObject
    <3>2. ready'[o] /\ ~shared'[o]
      BY <1>0, <1>4, <1>5
    <3> QED
      BY <2>1, <3>1, <3>2, <1>7
  <2>2. CASE p # o
    <3>1. pool'[p] = pool[p] /\ shared'[p] = shared[p] /\ ready'[p] = ready[p] /\ lock'[p] = lock[p]
      BY <2>2, <1>7, <1>4, <1>5
    <3>2. empties'[p] = empties[p] /\ remaining'[p] = remaining[p]
      BY <2>2, <1>6, <1>1
    <3>3. \A g \in 1..MaxStreams : pc'[<<p, g>>] = pc[<<p, g>>]
      BY <2>2, <1>0, <1>8, StreamParts
    <3>4. pool[p] = "open" /\ ~shared[p] => \E g \in 1..MaxStreams : pc[<<p, g>>] \in {"giveup", "closing"}
      BY DEF PoolOfObject
    <3>5. pool[p] = "open" /\ ~shared[p] => \E g \in 1..MaxStreams : pc'[<<p, g>>] \in {"giveup", "closing"}
      BY <3>3, <3>4
    <3> QED
      BY <3>1, <3>2, <3>5 DEF PoolOfObject
  <2> QED
    BY <2>1, <2>2
<1>e. AnswersOfObject'
  <2> HIDE DEF CatInductive, CatTypeOK
  <2> SUFFICES ASSUME NEW p \in Objects
               PROVE  /\ ready'[p] /\ empties'[p] = "none" => \E g \in 1..MaxStreams : raises'[<<p, g>>] # "no"
                      /\ empties'[p] = "empty" => groups[p] = Groups(p) /\ (remaining'[p] > 0 => shared'[p])
                      /\ empties'[p] = "error" =>
                           ~shared'[p] /\ \A g \in 1..Groups(p) : result'[<<p, g>>] = "error"
    BY DEF AnswersOfObject, Groups
  <2> USE DEF CatInductive, CatTypeOK
  <2>1. CASE p = o
    <3>1. CASE /\ empties' = [empties EXCEPT ![o] = "error"]
               /\ \A t \in Streams : t[1] = o /\ t[2] <= Groups(o) => result'[t] = "error"
      <4>1. \A g \in 1..Groups(o) : <<o, g>> \in Streams /\ g <= Groups(o)
        BY <1>0, StreamParts, CatAssumption DEF Groups, Least
      <4> QED
        BY <4>1, <3>1, <2>1, <1>0, <1>4
    <3>2. CASE empties' = empties /\ raises'[s] # "no"
      <4>1. raises'[<<o, s[2]>>] # "no"
        BY <3>2, <1>0
      <4>2. empties'[o] = "none"
        BY <3>2, <1>2
      <4> QED
        BY <4>1, <4>2, <2>1, <1>0
    <3> QED
      BY <3>1, <3>2, <1>6
  <2>2. CASE p # o
    <3>1. shared'[p] = shared[p] /\ ready'[p] = ready[p] /\ empties'[p] = empties[p] /\ remaining'[p] = remaining[p]
      BY <2>2, <1>4, <1>5, <1>6, <1>1
    <3>2. \A g \in 1..MaxStreams : raises'[<<p, g>>] = raises[<<p, g>>] /\ result'[<<p, g>>] = result[<<p, g>>]
      BY <2>2, <1>6, StreamParts
    <3>3. \A g \in 1..Groups(p) : g \in 1..MaxStreams
      BY CatAssumption DEF Groups, Least
    <3>4. ready[p] /\ empties[p] = "none" => \E g \in 1..MaxStreams : raises[<<p, g>>] # "no"
      BY DEF AnswersOfObject
    <3>5. /\ empties[p] = "empty" => groups[p] = Groups(p) /\ (remaining[p] > 0 => shared[p])
          /\ empties[p] = "error" => ~shared[p] /\ \A g \in 1..Groups(p) : result[<<p, g>>] = "error"
      BY DEF AnswersOfObject
    <3>6. ready[p] /\ empties[p] = "none" => \E g \in 1..MaxStreams : raises'[<<p, g>>] # "no"
      BY <3>2, <3>4
    <3>7. empties[p] = "error" => \A g \in 1..Groups(p) : result'[<<p, g>>] = "error"
      BY <3>2, <3>3, <3>5
    <3> QED
      BY <3>1, <3>5, <3>6, <3>7
  <2> QED
    BY <2>1, <2>2
<1>f. AnswersOfStream'
  <2> HIDE DEF CatInductive, CatTypeOK
  <2> SUFFICES ASSUME NEW t \in Streams, t[2] <= alloc[t[1]], pc'[t] \in {"closing", "done"}, raises'[t] = "no"
               PROVE  ready'[t[1]] /\ (empties'[t[1]] = "empty" /\ t[2] <= Groups(t[1]) => result'[t] # "none")
    BY DEF AnswersOfStream, Groups
  <2> USE DEF CatInductive, CatTypeOK
  <2>1. CASE t = s
    BY <2>1, <1>0, <1>5, <1>6
  <2>2. CASE t # s
    <3>1. raises[t] = "no" /\ pc[t] \in {"closing", "done"}
      BY <2>2, <1>6, <1>8
    <3>2. t[1] # o
      BY <3>1, <2>2, <1>2
    <3>3. t[1] \in Objects
      BY StreamParts
    <3>4. ready'[t[1]] = ready[t[1]] /\ empties'[t[1]] = empties[t[1]] /\ result'[t] = result[t]
      BY <3>2, <3>3, <1>5, <1>6
    <3> QED
      BY <3>1, <3>4 DEF AnswersOfStream
  <2> QED
    BY <2>1, <2>2
<1>g. CallerKnows'
  <2>1. ~Over
    BY DEF Over
  <2> QED
    BY <2>1 DEF CallerKnows
<1> QED
  BY <1>1, <1>3, <1>a, <1>b, <1>c, <1>d, <1>e, <1>f, <1>g

\* _init() that ends with a pool: its stream reads, or leaves an object that has fewer groups.
LEMMA HasPool ==
  ASSUME CatInductive, NEW s \in Streams,
         \/ pc[s] = "opening" /\ opens' = [opens EXCEPT ![s[1]] = @ + 1] /\ pool' = [pool EXCEPT ![s[1]] = "open"]
         \/ pc[s] = "sizing" /\ UNCHANGED <<pool, opens>>,
         groups' = [groups EXCEPT ![s[1]] = Groups(s[1])], empties' = [empties EXCEPT ![s[1]] = "empty"],
         Initialized(s[1]), Reads(s, TRUE, Groups(s[1])),
         UNCHANGED <<inputs, result, cancelled, raises, caller>>
  PROVE  CatInductive'
<1> USE DEF CatInductive, CatTypeOK, inputs
<1> DEFINE o == s[1]
           q == IF s[2] <= Groups(o) THEN "reading" ELSE IF remaining[o] = 1 THEN "closing" ELSE "done"
           left == IF s[2] <= Groups(o) THEN remaining[o] ELSE remaining[o] - 1
<1>0. o \in Objects /\ s[2] \in 1..MaxStreams /\ s = <<o, s[2]>>
  BY StreamParts
<1>2. /\ ~ready[o] /\ lock[o] = s /\ empties[o] = "none" /\ remaining[o] > 0
      /\ \A t \in Streams : t[1] = o /\ t # s =>
           /\ pc[t] \notin {"opening", "sizing", "giveup", "reading", "closing"}
           /\ pc[t] = "done" /\ t[2] <= alloc[t[1]] => raises[t] # "no"
  BY Alone DEF Initializing
<1>1. /\ SlotsExact' /\ SlotHeld' /\ RemainingExact' /\ slots' \in 0..batch
      /\ has' \in [Streams -> BOOLEAN] /\ remaining' \in [Objects -> 0..MaxStreams]
      /\ remaining' = [remaining EXCEPT ![o] = left]
      /\ pc' = [pc EXCEPT ![s] = q] /\ shared' = [shared EXCEPT ![o] = left > 0]
  <2>0. remaining[o] \in Nat
    BY <1>0
  <2>1. CASE s[2] <= Groups(o)
    <3>1. pc' = [pc EXCEPT ![s] = "reading"] /\ shared' = [shared EXCEPT ![o] = TRUE]
          /\ UNCHANGED <<slots, has, remaining>>
      BY <2>1 DEF Reads
    <3>2. has[s]
      BY DEF SlotHeld, Initializing
    <3>3. SlotsExact' /\ SlotHeld' /\ RemainingExact' /\ slots' \in 0..batch /\ has' \in [Streams -> BOOLEAN]
      BY <3>1, <3>2, GoingOn
    <3> QED
      BY <3>1, <3>3, <2>1, <2>0, <1>2
  <2>2. CASE ~(s[2] <= Groups(o))
    <3>1. Leaves(s, TRUE)
      BY <2>2 DEF Reads
    <3>2. /\ SlotsExact' /\ SlotHeld' /\ RemainingExact' /\ slots' \in 0..batch
          /\ has' \in [Streams -> BOOLEAN] /\ remaining' \in [Objects -> 0..MaxStreams]
          /\ remaining' = [remaining EXCEPT ![o] = @ - 1]
          /\ pc' = [pc EXCEPT ![s] = IF remaining[o] = 1 THEN "closing" ELSE "done"]
          /\ shared' = [shared EXCEPT ![o] = remaining[o] # 1]
      BY <3>1, Leaving
    <3>3. remaining[o] - 1 > 0 <=> remaining[o] # 1
      BY <2>0, <1>2
    <3>4. q = (IF remaining[o] = 1 THEN "closing" ELSE "done") /\ left = remaining[o] - 1
      BY <2>2
    <3>5. (remaining[o] # 1) = (left > 0)
      BY <3>3, <3>4
    <3> HIDE DEF q, left
    <3>6. shared' = [shared EXCEPT ![o] = left > 0]
      BY <3>2, <3>5
    <3>7. remaining' = [remaining EXCEPT ![o] = left]
      BY <3>2, <3>4
    <3>8. pc' = [pc EXCEPT ![s] = q]
      BY <3>2, <3>4
    <3> QED
      BY <3>2, <3>6, <3>7, <3>8
  <2> QED
    BY <2>1, <2>2
<1>q. q \in {"reading", "closing", "done"}
  OBVIOUS
<1>l. left \in 0..MaxStreams /\ (q = "closing" => left = 0) /\ (q = "reading" => left > 0)
      /\ (q \notin {"reading", "closing"} => left > 0)
  BY <1>0, <1>2, CatAssumption
<1>r. q # "reading" => ~(s[2] <= Groups(o))
  OBVIOUS
<1> HIDE DEF q, left
<1>3. LockHeld' /\ ready' \in [Objects -> BOOLEAN] /\ lock' \in [Objects -> Streams \cup {Nobody}]
  BY <1>1, <1>q, Unlocks DEF Initializing
<1>5. ready' = [ready EXCEPT ![o] = TRUE] /\ lock' = [lock EXCEPT ![o] = Nobody]
  BY DEF Initialized
<1>7. /\ pool' = [pool EXCEPT ![o] = "open"] /\ opens' = [opens EXCEPT ![o] = 1]
  <2>1. CASE pc[s] = "opening"
    <3>1. opens[o] = 0
      BY <2>1, <1>0 DEF PoolOfStream, PoolOfObject
    <3> QED
      BY <2>1, <3>1, <1>0
  <2>2. CASE pc[s] = "sizing"
    <3>1. opens[o] = 1 /\ pool[o] = "open"
      BY <2>2, <1>0 DEF PoolOfStream, PoolOfObject
    <3> QED
      BY <2>2, <3>1, <1>0
  <2> QED
    BY <2>1, <2>2
<1>8. \A t \in Streams : t # s => pc'[t] = pc[t]
  BY <1>1
<1>9. pc'[s] = q
  BY <1>1
<1>a. CatTypeOK'
  <2>1. pc' \in [Streams -> {"new", "limiter", "begin", "lock", "opening", "sizing", "giveup", "reading", "closing", "done"}]
    BY <1>1, <1>q
  <2>2. shared' \in [Objects -> BOOLEAN]
    BY <1>1
  <2>3. empties' \in [Objects -> {"none", "empty", "error"}]
    OBVIOUS
  <2>5. pool' \in [Objects -> {"none", "open", "shut"}]
    BY <1>7
  <2>6. opens' \in [Objects -> 0..1]
    <3>1. opens' = [p \in Objects |-> IF p = o THEN 1 ELSE opens[p]]
      BY <1>7
    <3>2. \A p \in Objects : (IF p = o THEN 1 ELSE opens[p]) \in 0..1
      OBVIOUS
    <3> QED
      BY <3>1, <3>2
  <2>4. groups' \in [Objects -> 0..MaxStreams]
    BY <1>0, CatAssumption DEF Groups, Least
  <2> QED
    BY <2>1, <2>2, <2>3, <2>4, <2>5, <2>6, <1>1, <1>3
<1>h. \A p \in Objects : p # o =>
        /\ pool'[p] = pool[p] /\ opens'[p] = opens[p] /\ shared'[p] = shared[p] /\ ready'[p] = ready[p]
        /\ lock'[p] = lock[p] /\ empties'[p] = empties[p] /\ remaining'[p] = remaining[p] /\ groups'[p] = groups[p]
        /\ \A g \in 1..MaxStreams : pc'[<<p, g>>] = pc[<<p, g>>]
  <2> SUFFICES ASSUME NEW p \in Objects, p # o
               PROVE  /\ pool'[p] = pool[p] /\ opens'[p] = opens[p] /\ shared'[p] = shared[p] /\ ready'[p] = ready[p]
                      /\ lock'[p] = lock[p] /\ empties'[p] = empties[p] /\ remaining'[p] = remaining[p]
                      /\ groups'[p] = groups[p] /\ \A g \in 1..MaxStreams : pc'[<<p, g>>] = pc[<<p, g>>]
    OBVIOUS
  <2>1. \A g \in 1..MaxStreams : pc'[<<p, g>>] = pc[<<p, g>>]
    BY <1>0, <1>8, StreamParts
  <2>2. pool'[p] = pool[p] /\ opens'[p] = opens[p]
    BY <1>7
  <2>3. ready'[p] = ready[p] /\ lock'[p] = lock[p]
    BY <1>5
  <2>4. shared'[p] = shared[p] /\ remaining'[p] = remaining[p]
    BY <1>1
  <2>5. groups'[p] = groups[p] /\ empties'[p] = empties[p]
    OBVIOUS
  <2> QED
    BY <2>1, <2>2, <2>3, <2>4, <2>5
<1>o. pool'[o] = "open" /\ opens'[o] = 1 /\ ready'[o] /\ lock'[o] = Nobody /\ empties'[o] = "empty"
      /\ groups'[o] = Groups(o) /\ remaining'[o] = left /\ (shared'[o] <=> left > 0)
  <2>1. pool'[o] = "open" /\ opens'[o] = 1
    BY <1>0, <1>7
  <2>2. ready'[o] /\ lock'[o] = Nobody
    BY <1>0, <1>5
  <2>3. empties'[o] = "empty" /\ groups'[o] = Groups(o)
    BY <1>0
  <2>4. remaining'[o] = left /\ (shared'[o] <=> left > 0)
    BY <1>0, <1>1
  <2> QED
    BY <2>1, <2>2, <2>3, <2>4
<1>b. PoolOfStream'
  <2> HIDE DEF CatInductive, CatTypeOK
  <2> SUFFICES ASSUME NEW t \in Streams
               PROVE  LET p == t[1] IN
                      /\ pc'[t] = "opening" => ~shared'[p] /\ pool'[p] = "none"
                      /\ pc'[t] = "sizing" => shared'[p] /\ pool'[p] = "open"
                      /\ pc'[t] = "giveup" => ~shared'[p] /\ pool'[p] = "open"
                      /\ pc'[t] = "reading" => ready'[p] /\ shared'[p] /\ empties'[p] = "empty"
                      /\ pc'[t] = "closing" => remaining'[p] = 0 /\ pool'[p] = "open"
    BY DEF PoolOfStream
  <2> USE DEF CatInductive, CatTypeOK
  <2>0. t[1] \in Objects
    BY StreamParts
  <2>1. CASE t = s
    BY <2>1, <1>9, <1>o, <1>q, <1>l
  <2>2. CASE t # s /\ t[1] = o
    BY <2>2, <1>2, <1>8
  <2>3. CASE t[1] # o
    BY <2>3, <2>0, <1>h, <1>8 DEF PoolOfStream
  <2> QED
    BY <2>1, <2>2, <2>3
<1>c. OneCloses'
  BY <1>2, <1>8, <1>9 DEF OneCloses
<1>d. PoolOfObject'
  <2> HIDE DEF CatInductive, CatTypeOK
  <2> SUFFICES ASSUME NEW p \in Objects
               PROVE  /\ opens'[p] = IF pool'[p] = "none" THEN 0 ELSE 1
                      /\ shared'[p] => pool'[p] = "open" /\ remaining'[p] > 0
                      /\ ~ready'[p] /\ lock'[p] = Nobody => pool'[p] = "none"
                      /\ ~ready'[p] => empties'[p] = "none"
                      /\ ready'[p] /\ shared'[p] => empties'[p] = "empty"
                      /\ pool'[p] = "open" /\ ~shared'[p] =>
                           \E g \in 1..MaxStreams : pc'[<<p, g>>] \in {"giveup", "closing"}
    BY DEF PoolOfObject
  <2> USE DEF CatInductive, CatTypeOK
  <2>1. CASE p = o
    <3>1. ~shared'[o] => pc'[<<o, s[2]>>] = "closing"
      BY <1>0, <1>o, <1>9, <1>l, <1>q
    <3> QED
      BY <2>1, <3>1, <1>o, <1>0
  <2>2. CASE p # o
    <3>1. pool[p] = "open" /\ ~shared[p] => \E g \in 1..MaxStreams : pc[<<p, g>>] \in {"giveup", "closing"}
      BY DEF PoolOfObject
    <3>2. pool[p] = "open" /\ ~shared[p] => \E g \in 1..MaxStreams : pc'[<<p, g>>] \in {"giveup", "closing"}
      BY <3>1, <2>2, <1>h
    <3> QED
      BY <2>2, <3>2, <1>h DEF PoolOfObject
  <2> QED
    BY <2>1, <2>2
<1>e. AnswersOfObject'
  <2> HIDE DEF CatInductive, CatTypeOK
  <2> SUFFICES ASSUME NEW p \in Objects
               PROVE  /\ ready'[p] /\ empties'[p] = "none" => \E g \in 1..MaxStreams : raises[<<p, g>>] # "no"
                      /\ empties'[p] = "empty" => groups'[p] = Groups(p) /\ (remaining'[p] > 0 => shared'[p])
                      /\ empties'[p] = "error" =>
                           ~shared'[p] /\ \A g \in 1..Groups(p) : result[<<p, g>>] = "error"
    BY DEF AnswersOfObject, Groups
  <2> USE DEF CatInductive, CatTypeOK
  <2>1. CASE p = o
    BY <2>1, <1>o
  <2>2. CASE p # o
    BY <2>2, <1>h DEF AnswersOfObject
  <2> QED
    BY <2>1, <2>2
<1>f. AnswersOfStream'
  <2> HIDE DEF CatInductive, CatTypeOK
  <2> SUFFICES ASSUME NEW t \in Streams, t[2] <= alloc[t[1]], pc'[t] \in {"closing", "done"}, raises[t] = "no"
               PROVE  ready'[t[1]] /\ (empties'[t[1]] = "empty" /\ t[2] <= Groups(t[1]) => result[t] # "none")
    BY DEF AnswersOfStream, Groups
  <2> USE DEF CatInductive, CatTypeOK
  <2>1. CASE t = s
    BY <2>1, <1>o, <1>9, <1>r
  <2>2. CASE t # s
    <3>1. pc[t] \in {"closing", "done"}
      BY <2>2, <1>8
    <3>2. t[1] # o
      BY <3>1, <2>2, <1>2
    <3>3. t[1] \in Objects
      BY StreamParts
    <3> QED
      BY <3>1, <3>2, <3>3, <1>h DEF AnswersOfStream
  <2> QED
    BY <2>1, <2>2
<1>g. CallerKnows'
  <2>1. ~Over
    BY DEF Over
  <2> QED
    BY <2>1 DEF CallerKnows
<1> QED
  BY <1>1, <1>3, <1>a, <1>b, <1>c, <1>d, <1>e, <1>f, <1>g

\* A pool that does not know the size of its object: _info() is asked, and may fail.
LEMMA AsksSize ==
  ASSUME CatInductive, NEW s \in Streams, NEW e \in {"no", "error", "cancel"}, NEW q,
         \/ /\ pc[s] = "opening" /\ q = "sizing" /\ opens' = [opens EXCEPT ![s[1]] = @ + 1]
            /\ pool' = [pool EXCEPT ![s[1]] = "open"] /\ shared' = [shared EXCEPT ![s[1]] = TRUE]
            /\ e = raises[s]
         \/ /\ pc[s] = "sizing" /\ q = "giveup" /\ UNCHANGED <<pool, opens>>
            /\ shared' = [shared EXCEPT ![s[1]] = FALSE] /\ (e = raises[s] \/ e # "no"),
         pc' = [pc EXCEPT ![s] = q], raises' = [raises EXCEPT ![s] = e],
         UNCHANGED <<inputs, ready, lock, slots, has, remaining, groups, result, empties, cancelled, caller>>
  PROVE  CatInductive'
<1> USE DEF CatInductive, CatTypeOK, inputs
<1> DEFINE o == s[1]
<1>0. o \in Objects /\ s[2] \in 1..MaxStreams /\ s = <<o, s[2]>>
  BY StreamParts
<1>1. /\ ~ready[o] /\ lock[o] = s /\ empties[o] = "none" /\ remaining[o] > 0
      /\ \A t \in Streams : t[1] = o /\ t # s =>
           /\ pc[t] \notin {"opening", "sizing", "giveup", "reading", "closing"}
           /\ pc[t] = "done" /\ t[2] <= alloc[t[1]] => raises[t] # "no"
  BY Alone DEF Initializing
<1>u. ready' = ready /\ lock' = lock /\ remaining' = remaining /\ empties' = empties /\ groups' = groups
      /\ result' = result /\ full' = full /\ alloc' = alloc
  OBVIOUS
<1>2. q \in {"sizing", "giveup"} /\ pc'[s] = q /\ \A t \in Streams : t # s => pc'[t] = pc[t]
  OBVIOUS
<1>3. SlotsExact' /\ SlotHeld' /\ RemainingExact' /\ slots' \in 0..batch /\ has' \in [Streams -> BOOLEAN]
  <2>1. has[s]
    BY DEF SlotHeld, Initializing
  <2> QED
    BY <2>1, <1>2, GoingOn DEF Initializing
<1>4. /\ pool' = [pool EXCEPT ![o] = "open"] /\ opens' = [opens EXCEPT ![o] = 1]
      /\ shared' \in [Objects -> BOOLEAN] /\ (shared'[o] <=> q = "sizing")
      /\ \A p \in Objects : p # o => shared'[p] = shared[p]
  <2>1. CASE pc[s] = "opening"
    <3>1. opens[o] = 0
      BY <2>1, <1>0 DEF PoolOfStream, PoolOfObject
    <3>2. pool' = [pool EXCEPT ![o] = "open"] /\ opens' = [opens EXCEPT ![o] = @ + 1]
          /\ shared' = [shared EXCEPT ![o] = TRUE] /\ q = "sizing"
      BY <2>1
    <3>3. opens' = [opens EXCEPT ![o] = 1]
      BY <3>1, <3>2
    <3>4. shared' \in [Objects -> BOOLEAN] /\ shared'[o] /\ \A p \in Objects : p # o => shared'[p] = shared[p]
      BY <3>2, <1>0
    <3> QED
      BY <3>2, <3>3, <3>4
  <2>2. CASE pc[s] = "sizing"
    <3>1. opens[o] = 1 /\ pool[o] = "open"
      BY <2>2, <1>0 DEF PoolOfStream, PoolOfObject
    <3>2. pool' = pool /\ opens' = opens /\ shared' = [shared EXCEPT ![o] = FALSE] /\ q = "giveup"
      BY <2>2
    <3>3. opens' = [opens EXCEPT ![o] = 1] /\ pool' = [pool EXCEPT ![o] = "open"]
      BY <3>1, <3>2
    <3>4. shared' \in [Objects -> BOOLEAN] /\ ~shared'[o] /\ \A p \in Objects : p # o => shared'[p] = shared[p]
      BY <3>2, <1>0
    <3> QED
      BY <3>2, <3>3, <3>4
  <2> QED
    BY <2>1, <2>2
<1>5. CatTypeOK'
  <2>1. pc' \in [Streams -> {"new", "limiter", "begin", "lock", "opening", "sizing", "giveup", "reading", "closing", "done"}]
    BY <1>2
  <2>2. pool' \in [Objects -> {"none", "open", "shut"}]
    BY <1>4
  <2>3. opens' \in [Objects -> 0..1]
    <3>1. opens' = [p \in Objects |-> IF p = o THEN 1 ELSE opens[p]]
      BY <1>4
    <3>2. \A p \in Objects : (IF p = o THEN 1 ELSE opens[p]) \in 0..1
      OBVIOUS
    <3> QED
      BY <3>1, <3>2
  <2> QED
    BY <2>1, <2>2, <2>3, <1>3, <1>4
<1>6. LockHeld'
  <2>1. \A t \in Streams : pc'[t] \in Initializing <=> pc[t] \in Initializing
    BY <1>2 DEF Initializing
  <2> QED
    BY <2>1 DEF LockHeld
<1>h. \A p \in Objects : p # o =>
        /\ pool'[p] = pool[p] /\ opens'[p] = opens[p] /\ shared'[p] = shared[p]
        /\ \A g \in 1..MaxStreams : pc'[<<p, g>>] = pc[<<p, g>>]
  <2> SUFFICES ASSUME NEW p \in Objects, p # o
               PROVE  /\ pool'[p] = pool[p] /\ opens'[p] = opens[p] /\ shared'[p] = shared[p]
                      /\ \A g \in 1..MaxStreams : pc'[<<p, g>>] = pc[<<p, g>>]
    OBVIOUS
  <2>1. \A g \in 1..MaxStreams : pc'[<<p, g>>] = pc[<<p, g>>]
    BY <1>0, <1>2, StreamParts
  <2> QED
    BY <2>1, <1>4
<1>o. pool'[o] = "open" /\ opens'[o] = 1 /\ (shared'[o] <=> q = "sizing")
  BY <1>0, <1>4
<1>7. PoolOfStream'
  <2> HIDE DEF CatInductive, CatTypeOK
  <2> SUFFICES ASSUME NEW t \in Streams
               PROVE  LET p == t[1] IN
                      /\ pc'[t] = "opening" => ~shared'[p] /\ pool'[p] = "none"
                      /\ pc'[t] = "sizing" => shared'[p] /\ pool'[p] = "open"
                      /\ pc'[t] = "giveup" => ~shared'[p] /\ pool'[p] = "open"
                      /\ pc'[t] = "reading" => ready[p] /\ shared'[p] /\ empties[p] = "empty"
                      /\ pc'[t] = "closing" => remaining[p] = 0 /\ pool'[p] = "open"
    BY DEF PoolOfStream
  <2> USE DEF CatInductive, CatTypeOK
  <2>0. t[1] \in Objects
    BY StreamParts
  <2>1. CASE t = s
    BY <2>1, <1>2, <1>o
  <2>2. CASE t # s /\ t[1] = o
    BY <2>2, <1>1, <1>2
  <2>3. CASE t[1] # o
    BY <2>3, <2>0, <1>h, <1>2 DEF PoolOfStream
  <2> QED
    BY <2>1, <2>2, <2>3
<1>8. OneCloses'
  BY <1>2 DEF OneCloses
<1>9. PoolOfObject'
  <2> HIDE DEF CatInductive, CatTypeOK
  <2> SUFFICES ASSUME NEW p \in Objects
               PROVE  /\ opens'[p] = IF pool'[p] = "none" THEN 0 ELSE 1
                      /\ shared'[p] => pool'[p] = "open" /\ remaining'[p] > 0
                      /\ ~ready'[p] /\ lock'[p] = Nobody => pool'[p] = "none"
                      /\ ~ready'[p] => empties'[p] = "none"
                      /\ ready'[p] /\ shared'[p] => empties'[p] = "empty"
                      /\ pool'[p] = "open" /\ ~shared'[p] =>
                           \E g \in 1..MaxStreams : pc'[<<p, g>>] \in {"giveup", "closing"}
    BY DEF PoolOfObject
  <2> USE DEF CatInductive, CatTypeOK
  <2>1. CASE p = o
    <3>1. ~shared'[o] => pc'[<<o, s[2]>>] = "giveup"
      BY <1>0, <1>o, <1>2
    <3>2. s # Nobody
      BY StreamParts
    <3> QED
      <4>1. opens'[o] = (IF pool'[o] = "none" THEN 0 ELSE 1) /\ pool'[o] = "open"
        BY <1>o
      <4>2. ~ready'[o] /\ lock'[o] # Nobody /\ empties'[o] = "none" /\ remaining'[o] > 0
        BY <1>1, <1>u, <3>2
      <4>3. pool'[o] = "open" /\ ~shared'[o] => \E g \in 1..MaxStreams : pc'[<<o, g>>] \in {"giveup", "closing"}
        BY <3>1, <1>0
      <4> QED
        BY <2>1, <4>1, <4>2, <4>3
  <2>2. CASE p # o
    <3>1. pool[p] = "open" /\ ~shared[p] => \E g \in 1..MaxStreams : pc[<<p, g>>] \in {"giveup", "closing"}
      BY DEF PoolOfObject
    <3>2. pool[p] = "open" /\ ~shared[p] => \E g \in 1..MaxStreams : pc'[<<p, g>>] \in {"giveup", "closing"}
      BY <3>1, <2>2, <1>h
    <3> QED
      <4>1. pool'[p] = pool[p] /\ opens'[p] = opens[p] /\ shared'[p] = shared[p]
        BY <2>2, <1>h
      <4>2. /\ opens[p] = (IF pool[p] = "none" THEN 0 ELSE 1) /\ (shared[p] => pool[p] = "open" /\ remaining[p] > 0)
            /\ ~ready[p] /\ lock[p] = Nobody => pool[p] = "none"
            /\ (~ready[p] => empties[p] = "none") /\ (ready[p] /\ shared[p] => empties[p] = "empty")
        BY DEF PoolOfObject
      <4> QED
        BY <3>2, <4>1, <4>2, <1>u
  <2> QED
    BY <2>1, <2>2
<1>a. AnswersOfObject'
  <2> HIDE DEF CatInductive, CatTypeOK
  <2> SUFFICES ASSUME NEW p \in Objects
               PROVE  /\ ready[p] /\ empties[p] = "none" => \E g \in 1..MaxStreams : raises'[<<p, g>>] # "no"
                      /\ empties[p] = "empty" => groups[p] = Groups(p) /\ (remaining[p] > 0 => shared'[p])
                      /\ empties[p] = "error" =>
                           ~shared'[p] /\ \A g \in 1..Groups(p) : result[<<p, g>>] = "error"
    BY DEF AnswersOfObject, Groups
  <2> USE DEF CatInductive, CatTypeOK
  <2>1. CASE p = o
    BY <2>1, <1>1
  <2>2. CASE p # o
    <3>1. ready[p] /\ empties[p] = "none" => \E g \in 1..MaxStreams : raises[<<p, g>>] # "no"
      BY DEF AnswersOfObject
    <3>2. \A g \in 1..MaxStreams : raises'[<<p, g>>] = raises[<<p, g>>]
      BY <2>2, <1>0, StreamParts
    <3>3. ready[p] /\ empties[p] = "none" => \E g \in 1..MaxStreams : raises'[<<p, g>>] # "no"
      BY <3>1, <3>2
    <3> QED
      BY <2>2, <3>3, <1>h DEF AnswersOfObject
  <2> QED
    BY <2>1, <2>2
<1>b. AnswersOfStream'
  <2>1. \A t \in Streams : pc'[t] \in {"closing", "done"} => pc[t] \in {"closing", "done"} /\ raises'[t] = raises[t]
    BY <1>2
  <2> QED
    BY <2>1 DEF AnswersOfStream, Groups
<1>c. CallerKnows'
  <2>1. ~Over
    BY DEF Over
  <2> QED
    BY <2>1 DEF CallerKnows
<1> QED
  BY <1>3, <1>5, <1>6, <1>7, <1>8, <1>9, <1>a, <1>b, <1>c

\* The last stream of an object has closed the pool.
LEMMA ClosesPool ==
  ASSUME CatInductive, NEW s \in Streams, Closed(s)
  PROVE  CatInductive'
<1> USE DEF CatInductive, CatTypeOK, inputs
<1> DEFINE o == s[1]
<1>0. o \in Objects /\ s[2] \in 1..MaxStreams /\ s = <<o, s[2]>>
  BY StreamParts
<1>1. /\ pc[s] = "closing" /\ pc' = [pc EXCEPT ![s] = "done"] /\ pool' = [pool EXCEPT ![o] = "shut"]
      /\ slots' = slots + (IF has[s] THEN 1 ELSE 0) /\ has' = [has EXCEPT ![s] = FALSE]
      /\ UNCHANGED <<inputs, ready, shared, opens, lock, remaining, groups, result, empties, cancelled, caller>>
  BY DEF Closed
<1>u. ready' = ready /\ shared' = shared /\ opens' = opens /\ lock' = lock /\ remaining' = remaining /\ groups' = groups
      /\ result' = result /\ empties' = empties /\ full' = full /\ alloc' = alloc /\ batch' = batch
      /\ cancelled' = cancelled /\ caller' = caller
  BY <1>1
<1>2. /\ raises' \in [Streams -> {"no", "error", "cancel"}] /\ \A t \in Streams : t # s => raises'[t] = raises[t]
      /\ raises'[s] = "no" => raises[s] = "no"
      /\ \A t \in Streams : raises[t] # "no" => raises'[t] # "no"
  BY DEF Closed, Raise
<1>3. pc'[s] = "done" /\ \A t \in Streams : t # s => pc'[t] = pc[t]
  BY <1>1
<1>4. \A t \in Streams : t[1] = o /\ t # s => pc[t] = "done"
  <2> SUFFICES ASSUME NEW t \in Streams, t[1] = o, t # s
               PROVE  pc[t] = "done"
    OBVIOUS
  <2>0. t[2] \in 1..MaxStreams /\ t = <<o, t[2]>>
    BY StreamParts
  <2>1. pc[t] # "closing"
    BY <1>1 DEF OneCloses
  <2>2. remaining[o] = 0
    BY <1>1 DEF PoolOfStream
  <2>3. IsFiniteSet(Active(o)) /\ Cardinality(Active(o)) = 0
    BY <2>2, <1>0, Finite DEF RemainingExact
  <2>4. Active(o) = {}
    BY <2>3, FS_EmptySet
  <2> QED
    BY <2>0, <2>1, <2>4 DEF Active
<1>o. pool[o] = "open" /\ ~shared[o] /\ remaining[o] = 0
  <2>1. pool[o] = "open" /\ remaining[o] = 0
    BY <1>1 DEF PoolOfStream
  <2> QED
    BY <2>1, <1>0 DEF PoolOfObject
<1>h. /\ pool'[o] = "shut"
      /\ \A p \in Objects : p # o => pool'[p] = pool[p] /\ \A g \in 1..MaxStreams : pc'[<<p, g>>] = pc[<<p, g>>]
  BY <1>0, <1>1, <1>3, StreamParts
<1>5. CatTypeOK' /\ SlotsExact'
  <2>1. Holders' = Holders \ {s}
    BY <1>1 DEF Holders
  <2>2. s \in Holders <=> has[s]
    BY DEF Holders
  <2>3. IsFiniteSet(Holders \ {s}) /\ Cardinality(Holders \ {s}) = Cardinality(Holders) - (IF has[s] THEN 1 ELSE 0)
    BY <2>2, Finite, FS_RemoveElement
  <2>4. Cardinality(Holders') = Cardinality(Holders) - (IF has[s] THEN 1 ELSE 0) /\ Cardinality(Holders') \in Nat
    BY <2>1, <2>3, FS_CardinalityType
  <2>5. slots' + Cardinality(Holders') = batch
    BY <2>4, <1>1, Finite, CatAssumption DEF SlotsExact, Holders
  <2>6. slots' \in 0..batch'
    BY <2>5, <2>4, <1>1, CatAssumption
  <2>7. pc' \in [Streams -> {"new", "limiter", "begin", "lock", "opening", "sizing", "giveup", "reading", "closing", "done"}]
    BY <1>1
  <2>8. pool' \in [Objects -> {"none", "open", "shut"}] /\ has' \in [Streams -> BOOLEAN]
    BY <1>1
  <2>9. SlotsExact'
    BY <2>5, <1>1 DEF SlotsExact, Holders
  <2> QED
    BY <2>6, <2>7, <2>8, <2>9, <1>2, <1>u
<1>6. SlotHeld'
  BY <1>1 DEF SlotHeld, Initializing
<1>7. RemainingExact'
  <2>1. \A p \in Objects : Active(p)' = Active(p)
    <3> SUFFICES ASSUME NEW p \in Objects, NEW g \in 1..MaxStreams
                 PROVE  pc'[<<p, g>>] \in {"closing", "done"} <=> pc[<<p, g>>] \in {"closing", "done"}
      BY DEF Active
    <3> QED
      BY <1>1, <1>3, StreamParts
  <2> QED
    BY <2>1, <1>u DEF RemainingExact
<1>8. LockHeld'
  <2>1. \A t \in Streams : pc'[t] \in Initializing <=> pc[t] \in Initializing
    BY <1>1, <1>3 DEF Initializing
  <2> QED
    BY <2>1, <1>u DEF LockHeld
<1>9. PoolOfStream'
  <2> HIDE DEF CatInductive, CatTypeOK
  <2> SUFFICES ASSUME NEW t \in Streams
               PROVE  LET p == t[1] IN
                      /\ pc'[t] = "opening" => ~shared'[p] /\ pool'[p] = "none"
                      /\ pc'[t] = "sizing" => shared'[p] /\ pool'[p] = "open"
                      /\ pc'[t] = "giveup" => ~shared'[p] /\ pool'[p] = "open"
                      /\ pc'[t] = "reading" => ready'[p] /\ shared'[p] /\ empties'[p] = "empty"
                      /\ pc'[t] = "closing" => remaining'[p] = 0 /\ pool'[p] = "open"
    BY DEF PoolOfStream
  <2> USE DEF CatInductive, CatTypeOK
  <2>0. t[1] \in Objects
    BY StreamParts
  <2>1. CASE t[1] = o
    BY <2>1, <1>3, <1>4
  <2>2. CASE t[1] # o
    BY <2>2, <2>0, <1>h, <1>u, <1>3 DEF PoolOfStream
  <2> QED
    BY <2>1, <2>2
<1>a. OneCloses'
  BY <1>3 DEF OneCloses
<1>b. PoolOfObject'
  <2> HIDE DEF CatInductive, CatTypeOK
  <2> SUFFICES ASSUME NEW p \in Objects
               PROVE  /\ opens'[p] = IF pool'[p] = "none" THEN 0 ELSE 1
                      /\ shared'[p] => pool'[p] = "open" /\ remaining'[p] > 0
                      /\ ~ready'[p] /\ lock'[p] = Nobody => pool'[p] = "none"
                      /\ ~ready'[p] => empties'[p] = "none"
                      /\ ready'[p] /\ shared'[p] => empties'[p] = "empty"
                      /\ pool'[p] = "open" /\ ~shared'[p] =>
                           \E g \in 1..MaxStreams : pc'[<<p, g>>] \in {"giveup", "closing"}
    BY DEF PoolOfObject
  <2> USE DEF CatInductive, CatTypeOK
  <2>1. /\ opens[p] = (IF pool[p] = "none" THEN 0 ELSE 1) /\ (shared[p] => pool[p] = "open" /\ remaining[p] > 0)
        /\ ~ready[p] /\ lock[p] = Nobody => pool[p] = "none"
        /\ (~ready[p] => empties[p] = "none") /\ (ready[p] /\ shared[p] => empties[p] = "empty")
    BY DEF PoolOfObject
  <2>2. CASE p = o
    BY <2>1, <2>2, <1>o, <1>h, <1>u
  <2>3. CASE p # o
    <3>1. pool[p] = "open" /\ ~shared[p] => \E g \in 1..MaxStreams : pc[<<p, g>>] \in {"giveup", "closing"}
      BY DEF PoolOfObject
    <3>2. pool[p] = "open" /\ ~shared[p] => \E g \in 1..MaxStreams : pc'[<<p, g>>] \in {"giveup", "closing"}
      BY <3>1, <2>3, <1>h
    <3>3. pool'[p] = pool[p]
      BY <2>3, <1>h
    <3> QED
      BY <2>1, <3>2, <3>3, <1>u
  <2> QED
    BY <2>2, <2>3
<1>c. AnswersOfObject'
  <2> HIDE DEF CatInductive, CatTypeOK
  <2> SUFFICES ASSUME NEW p \in Objects
               PROVE  /\ ready[p] /\ empties[p] = "none" => \E g \in 1..MaxStreams : raises'[<<p, g>>] # "no"
                      /\ empties[p] = "empty" => groups[p] = Groups(p) /\ (remaining[p] > 0 => shared[p])
                      /\ empties[p] = "error" =>
                           ~shared[p] /\ \A g \in 1..Groups(p) : result[<<p, g>>] = "error"
    BY <1>u DEF AnswersOfObject, Groups
  <2> USE DEF CatInductive, CatTypeOK
  <2>1. ready[p] /\ empties[p] = "none" => \E g \in 1..MaxStreams : raises[<<p, g>>] # "no"
    BY DEF AnswersOfObject
  <2>2. ready[p] /\ empties[p] = "none" => \E g \in 1..MaxStreams : raises'[<<p, g>>] # "no"
    BY <2>1, <1>2, StreamParts
  <2> QED
    BY <2>2 DEF AnswersOfObject
<1>d. AnswersOfStream'
  <2>1. \A t \in Streams : pc'[t] \in {"closing", "done"} => pc[t] \in {"closing", "done"}
    BY <1>1, <1>3
  <2>2. \A t \in Streams : raises'[t] = "no" => raises[t] = "no"
    BY <1>2
  <2> QED
    BY <2>1, <2>2, <1>u DEF AnswersOfStream, Groups
<1>e. CallerKnows'
  <2>1. ~Over
    BY <1>1 DEF Over
  <2> QED
    BY <2>1, <1>u DEF CallerKnows
<1> QED
  BY <1>5, <1>6, <1>7, <1>8, <1>9, <1>a, <1>b, <1>c, <1>d, <1>e

\* The call itself: its tasks stay as they are.
LEMMA CallerStep ==
  ASSUME CatInductive, Returns \/ Cancel \/ CancelAgain \/ UNCHANGED catVars
  PROVE  CatInductive'
<1> USE DEF CatInductive, CatTypeOK, inputs, object
<1>u. /\ UNCHANGED <<inputs, object, slots, has, pc, remaining, groups, result, empties, raises>>
      /\ cancelled' \in [Streams -> BOOLEAN]
      /\ caller' \in {"waiting", "cancelling", "returned", "raised", "abandoned"}
  BY DEF Returns, Cancel, CancelAgain, catVars
<1>1. CatTypeOK' /\ SlotsExact' /\ SlotHeld' /\ LockHeld'
  BY <1>u DEF SlotsExact, SlotHeld, LockHeld
<1>2. RemainingExact'
  <2>1. \A o \in Objects : Active(o)' = Active(o)
    BY <1>u DEF Active
  <2> QED
    BY <2>1, <1>u DEF RemainingExact
<1>3. PoolOfStream' /\ OneCloses' /\ PoolOfObject'
  <2>1. PoolOfStream' /\ OneCloses'
    BY <1>u DEF PoolOfStream, OneCloses
  <2>2. ready' = ready /\ shared' = shared /\ pool' = pool /\ opens' = opens /\ lock' = lock /\ remaining' = remaining
        /\ empties' = empties /\ pc' = pc
    BY <1>u
  <2>3. PoolOfObject'
    BY <2>2 DEF PoolOfObject
  <2> QED
    BY <2>1, <2>3
<1>4. AnswersOfObject' /\ AnswersOfStream'
  BY <1>u DEF AnswersOfObject, AnswersOfStream, Groups
<1>5. CallerKnows'
  <2>1. Over' <=> Over
    BY <1>u DEF Over
  <2> QED
    BY <2>1, <1>u DEF CallerKnows, Returns, Cancel, CancelAgain, catVars
<1> QED
  BY <1>1, <1>2, <1>3, <1>4, <1>5

LEMMA StreamSteps ==
  ASSUME CatInductive, NEW s \in Streams, StreamStep(s)
  PROVE  CatInductive'
<1> USE DEF object
<1>0. /\ result \in [Streams -> {"none", "data", "error"}] /\ raises \in [Streams -> {"no", "error", "cancel"}]
      /\ shared \in [Objects -> BOOLEAN] /\ s[1] \in Objects /\ shared[s[1]] \in BOOLEAN
      /\ result = [result EXCEPT ![s] = result[s]] /\ raises = [raises EXCEPT ![s] = raises[s]]
      /\ result[s] \in {"none", "data", "error"} /\ raises[s] \in {"no", "error", "cancel"}
  BY StreamParts DEF CatInductive, CatTypeOK
<1>1. CASE Enter(s)
  BY <1>1, GoesOn DEF Enter
<1>2. CASE Acquire(s)
  BY <1>2, GoesOn DEF Acquire
<1>3. ASSUME pc[s] \in {"begin", "lock"}, ready[s[1]], Reads(s, shared[s[1]], groups[s[1]]), UNCHANGED lock,
             UNCHANGED <<inputs, ready, pool, opens, groups, result, empties, cancelled, raises, caller>>
      PROVE  CatInductive'
  <2>1. CASE shared[s[1]] /\ s[2] <= groups[s[1]]
    <3>1. shared' = shared
      BY <1>3, <2>1, <1>0 DEF Reads
    <3>2. pc' = [pc EXCEPT ![s] = "reading"] /\ UNCHANGED <<slots, has, remaining>>
      BY <1>3, <2>1 DEF Reads
    <3> QED
      BY <1>3, <2>1, <3>1, <3>2, GoesOn
  <2>2. CASE ~(shared[s[1]] /\ s[2] <= groups[s[1]])
    <3>1. Leaves(s, shared[s[1]])
      BY <1>3, <2>2 DEF Reads
    <3>2. ~(empties[s[1]] = "empty" /\ s[2] <= Groups(s[1]))
      <4>1. remaining[s[1]] > 0
        BY <1>3, <1>0, <3>1, Leaving
      <4>2. empties[s[1]] = "empty" => groups[s[1]] = Groups(s[1]) /\ shared[s[1]]
        BY <4>1, <1>0 DEF CatInductive, AnswersOfObject
      <4> QED
        BY <4>2, <2>2
    <3> QED
      BY <1>3, <1>0, <3>1, <3>2, LeavesObject
  <2> QED
    BY <2>1, <2>2
<1>4. CASE Begin(s)
  <2>1. CASE ready[s[1]] /\ Reads(s, shared[s[1]], groups[s[1]]) /\ UNCHANGED lock
    BY <1>4, <2>1, <1>3 DEF Begin
  <2>2. CASE /\ ~ready[s[1]] /\ lock[s[1]] = Nobody /\ lock' = [lock EXCEPT ![s[1]] = s]
             /\ pc' = [pc EXCEPT ![s] = "opening"] /\ UNCHANGED <<slots, has, remaining, shared>>
    BY <1>4, <2>2, GoesOn DEF Begin
  <2>3. CASE pc' = [pc EXCEPT ![s] = "lock"] /\ UNCHANGED <<slots, has, remaining, shared, lock>>
    BY <1>4, <2>3, GoesOn DEF Begin
  <2> QED
    BY <1>4, <2>1, <2>2, <2>3 DEF Begin
<1>5. CASE Locked(s)
  <2>1. CASE ready[s[1]] /\ Reads(s, shared[s[1]], groups[s[1]]) /\ UNCHANGED lock
    BY <1>5, <2>1, <1>3 DEF Locked
  <2>2. CASE /\ ~ready[s[1]] /\ lock' = [lock EXCEPT ![s[1]] = s]
             /\ pc' = [pc EXCEPT ![s] = "opening"] /\ UNCHANGED <<slots, has, remaining, shared>>
    BY <1>5, <2>2, GoesOn DEF Locked
  <2> QED
    BY <1>5, <2>1, <2>2 DEF Locked
<1>6. CASE Opened(s)
  <2>1. CASE /\ groups' = [groups EXCEPT ![s[1]] = Groups(s[1])] /\ empties' = [empties EXCEPT ![s[1]] = "empty"]
             /\ Initialized(s[1]) /\ Reads(s, TRUE, Groups(s[1]))
    BY <1>6, <2>1, HasPool DEF Opened
  <2>2. CASE /\ pc' = [pc EXCEPT ![s] = "sizing"] /\ shared' = [shared EXCEPT ![s[1]] = TRUE]
             /\ UNCHANGED <<groups, empties, ready, lock, slots, has, remaining>>
    BY <1>6, <2>2, <1>0, AsksSize DEF Opened
  <2> QED
    BY <1>6, <2>1, <2>2 DEF Opened
<1>7. CASE Sized(s)
  BY <1>7, HasPool DEF Sized
<1>8. CASE OpenFails(s)
  BY <1>8, NoPool DEF OpenFails
<1>9. CASE SizeFails(s)
  <2>1. PICK e \in {"no", "error", "cancel"} : (e = raises[s] \/ e # "no") /\ raises' = [raises EXCEPT ![s] = e]
    BY <1>9, <1>0 DEF SizeFails, Raise
  <2> QED
    BY <1>9, <2>1, AsksSize DEF SizeFails
<1>a. CASE GivenUp(s)
  BY <1>a, NoPool DEF GivenUp
<1>b. CASE Read(s)
  <2>1. PICK x \in {"data", "error"} : result' = [result EXCEPT ![s] = x]
    BY <1>b DEF Read
  <2>2. ready[s[1]]
    BY <1>b DEF Read, CatInductive, PoolOfStream
  <2> QED
    BY <1>b, <2>1, <2>2, <1>0, LeavesObject DEF Read
<1>c. CASE Hit(s)
  <2>1. CASE pc[s] = "opening"
    <3>1. ~shared[s[1]]
      BY <2>1 DEF CatInductive, PoolOfStream
    <3>2. Leaves(s, FALSE)
      <4>1. shared[s[1]] = FALSE
        BY <3>1, <1>0
      <4>2. Leaves(s, shared[s[1]])
        BY <1>c DEF Hit
      <4> QED
        BY <4>1, <4>2
    <3> QED
      BY <1>c, <2>1, <3>2, NoPool DEF Hit
  <2>2. CASE pc[s] # "opening"
    BY <1>c, <2>2, <1>0, LeavesObject DEF Hit, Raise
  <2> QED
    BY <2>1, <2>2
<1>d. CASE Closed(s)
  BY <1>d, ClosesPool
<1> QED
  BY <1>1, <1>2, <1>4, <1>5, <1>6, <1>7, <1>8, <1>9, <1>a, <1>b, <1>c, <1>d DEF StreamStep

LEMMA CatStarts == CatInit => CatInductive
<1> SUFFICES ASSUME CatInit
             PROVE  CatInductive
  OBVIOUS
<1> USE DEF CatInit
<1>0. \A o \in Objects : alloc[o] \in 1..MaxStreams
  OBVIOUS
<1>1. CatTypeOK
  <2>1. batch \in Nat /\ slots \in 0..batch
    BY CatAssumption
  <2>2. remaining \in [Objects -> 0..MaxStreams]
    BY CatAssumption
  <2> QED
    BY <2>1, <2>2, CatAssumption DEF CatTypeOK
<1>2. SlotsExact
  <2>1. {s \in Streams : has[s]} = {}
    OBVIOUS
  <2> QED
    <3>1. Cardinality({s \in Streams : has[s]}) = 0
      BY <2>1, FS_EmptySet
    <3>2. slots = batch /\ batch \in Nat
      BY CatAssumption
    <3> HIDE DEF CatInit
    <3> QED
      BY <3>1, <3>2 DEF SlotsExact
<1>3. SlotHeld
  BY DEF SlotHeld, Initializing
<1>4. RemainingExact
  <2> SUFFICES ASSUME NEW o \in Objects
               PROVE  alloc[o] = Cardinality(Active(o))
    BY DEF RemainingExact
  <2>1. Active(o) = 1..alloc[o]
    <3>1. \A g \in 1..MaxStreams : pc[<<o, g>>] = IF g <= alloc[o] THEN "new" ELSE "done"
      BY StreamParts
    <3> QED
      BY <3>1, <1>0, CatAssumption DEF Active
  <2> QED
    BY <2>1, <1>0, FS_Interval, CatAssumption
<1>5. LockHeld
  BY DEF LockHeld, Initializing
<1>6. PoolOfStream /\ OneCloses /\ PoolOfObject
  BY DEF PoolOfStream, OneCloses, PoolOfObject
<1>7. AnswersOfObject /\ AnswersOfStream
  BY CatAssumption DEF AnswersOfObject, AnswersOfStream
<1>8. CallerKnows
  BY DEF CallerKnows
<1> QED
  BY <1>1, <1>2, <1>3, <1>4, <1>5, <1>6, <1>7, <1>8 DEF CatInductive

\* The invariant says what the property says of the pools, the results and the end of the call.
LEMMA CatEnough == CatInductive => StreamsRight
<1> SUFFICES ASSUME CatInductive
             PROVE  StreamsRight
  OBVIOUS
<1> USE DEF CatInductive, CatTypeOK
<1>1. ReadsOpenPool
  BY StreamParts DEF ReadsOpenPool, PoolOfStream, PoolOfObject
<1>2. EveryRangeAnswered
  <2> SUFFICES ASSUME caller = "returned", NEW o \in Objects
               PROVE  /\ empties[o] # "none"
                      /\ \A g \in 1..Groups(o) : result[<<o, g>>] # "none"
                      /\ empties[o] = "error" => \A g \in 1..Groups(o) : result[<<o, g>>] = "error"
    BY DEF EveryRangeAnswered
  <2>1. \A s \in Streams : pc[s] = "done" /\ raises[s] = "no"
    BY DEF CallerKnows, Over
  <2>2. \A g \in 1..MaxStreams : <<o, g>> \in Streams /\ <<o, g>>[1] = o /\ <<o, g>>[2] = g
    BY StreamParts
  <2>3. alloc[o] \in 1..MaxStreams /\ \A g \in 1..Groups(o) : g \in 1..MaxStreams /\ g <= alloc[o]
    BY CatAssumption DEF Groups, Least
  <2>4. \A g \in 1..MaxStreams : g <= alloc[o] =>
          ready[o] /\ (empties[o] = "empty" /\ g <= Groups(o) => result[<<o, g>>] # "none")
    BY <2>1, <2>2 DEF AnswersOfStream
  <2>5. ready[o]
    <3>1. 1 \in 1..MaxStreams /\ 1 <= alloc[o]
      BY <2>3, CatAssumption
    <3> QED
      BY <2>4, <3>1
  <2>6. empties[o] # "none"
    <3>1. \A g \in 1..MaxStreams : raises[<<o, g>>] = "no"
      BY <2>1, <2>2
    <3> QED
      BY <3>1, <2>5 DEF AnswersOfObject
  <2>7. empties[o] = "error" => \A g \in 1..Groups(o) : result[<<o, g>>] = "error"
    BY DEF AnswersOfObject
  <2>8. ASSUME empties[o] = "empty", NEW g \in 1..Groups(o) PROVE result[<<o, g>>] # "none"
    <3>1. g <= Groups(o)
      BY <2>3
    <3> QED
      BY <2>8, <2>3, <2>4, <3>1
  <2> QED
    BY <2>6, <2>7, <2>8
<1>3. LeavesNothing
  <2> SUFFICES ASSUME caller \in {"returned", "raised"}
               PROVE  Over /\ \A o \in Objects : pool[o] # "open"
    BY DEF LeavesNothing
  <2>1. Over
    BY DEF CallerKnows
  <2>2. ASSUME NEW o \in Objects PROVE pool[o] # "open"
    <3>1. \A g \in 1..MaxStreams : pc[<<o, g>>] = "done"
      BY <2>1, StreamParts DEF Over
    <3>2. Active(o) = {}
      BY <3>1 DEF Active
    <3>3. remaining[o] = 0
      BY <3>2, FS_EmptySet DEF RemainingExact
    <3>4. ~shared[o]
      BY <3>3 DEF PoolOfObject
    <3>5. pool[o] = "open" /\ ~shared[o] => \E g \in 1..MaxStreams : pc[<<o, g>>] \in {"giveup", "closing"}
      BY DEF PoolOfObject
    <3> QED
      BY <3>1, <3>4, <3>5
  <2> QED
    BY <2>1, <2>2
<1> QED
  BY <1>1, <1>2, <1>3 DEF StreamsRight, SharedExactly

\* What the streams of one _cat_ranges() share is shared exactly, a call that returns has answered
\* every range, and one that ends leaves no stream and no pool, for any number of objects, streams,
\* ranges and slots.
THEOREM StreamsAreRight == CatSpec => []StreamsRight
<1>1. CatInductive /\ [CatNext]_catVars => CatInductive'
  <2> SUFFICES ASSUME CatInductive, [CatNext]_catVars
               PROVE  CatInductive'
    OBVIOUS
  <2> QED
    BY CallerStep, StreamSteps DEF CatNext
<1> QED
  BY <1>1, CatStarts, CatEnough, PTL DEF CatSpec

-----------------------------------------------------------------------------
(* Natural-number induction without an operator as a parameter, and the    *)
(* sums over finite sets that follow from it.                              *)

LEMMA LeastNat ==
  ASSUME NEW T \in SUBSET Nat, T # {}
  PROVE  \E x \in T : \A y \in T : x <= y
<1> DEFINE R == {ss \in Nat \X Nat : ss[1] < ss[2]}
<1>0. IsWellFoundedOn(R, Nat)
  BY NatLessThanWellFounded DEF OpToRel
<1>1. PICK x \in T : \A y \in T : <<y, x>> \notin R
  <2> HIDE DEF R
  <2> QED BY <1>0, WFMin
<1>2. \A y \in T : ~(y < x)
  BY <1>1
<1> QED
  BY <1>2
LEMMA Induct ==
  ASSUME NEW T \in SUBSET Nat, 0 \in T, \A n \in T : n + 1 \in T
  PROVE  T = Nat
<1> SUFFICES ASSUME T # Nat PROVE FALSE
  OBVIOUS
<1>1. PICK x \in Nat \ T : \A y \in Nat \ T : x <= y
  BY LeastNat
<1>2. x # 0 /\ x - 1 \in T
  BY <1>1
<1> QED
  BY <1>2

AnyOf(s) == CHOOSE x \in s : TRUE

\* it adds up F over the subsets of S, one element at a time.
IsSum(it, F, S) ==
  it = [s \in SUBSET S |-> IF s = {} THEN 0 ELSE F[AnyOf(s)] + it[s \ {AnyOf(s)}]]

LEMMA SmallerSet ==
  ASSUME NEW s, IsFiniteSet(s), s # {}
  PROVE  /\ AnyOf(s) \in s /\ IsFiniteSet(s \ {AnyOf(s)}) /\ Cardinality(s) \in Nat \ {0}
         /\ Cardinality(s \ {AnyOf(s)}) = Cardinality(s) - 1
<1>1. AnyOf(s) \in s
  BY DEF AnyOf
<1>2. Cardinality(s) \in Nat /\ Cardinality(s) # 0
  BY FS_EmptySet, FS_CardinalityType
<1> QED
  BY <1>1, <1>2, FS_RemoveElement

LEMMA SumExists ==
  ASSUME NEW S, IsFiniteSet(S), NEW F
  PROVE  \E it : IsSum(it, F, S)
<1> DEFINE Sub(n) == {s \in SUBSET S : Cardinality(s) <= n}
           One(h, s) == IF s = {} THEN 0 ELSE F[AnyOf(s)] + h[s \ {AnyOf(s)}]
           Upto(h, n) == h = [s \in Sub(n) |-> One(h, s)]
           T == {n \in Nat : \E h : Upto(h, n)}
<1>0. \A s \in SUBSET S : IsFiniteSet(s) /\ Cardinality(s) \in Nat /\ (Cardinality(s) = 0 <=> s = {})
  BY FS_Subset, FS_CardinalityType, FS_EmptySet
<1>1. 0 \in T
  <2> DEFINE h == [s \in Sub(0) |-> 0]
  <2>1. \A s \in Sub(0) : s = {}
    BY <1>0
  <2>2. Upto(h, 0)
    BY <2>1
  <2> QED
    BY <2>2
<1>2. ASSUME NEW n \in T PROVE n + 1 \in T
  <2>1. PICK h : Upto(h, n)
    OBVIOUS
  <2> DEFINE g == [s \in Sub(n + 1) |-> One(h, s)]
  <2>2. ASSUME NEW s \in Sub(n + 1) PROVE One(g, s) = One(h, s)
    <3>1. CASE s = {}
      BY <3>1
    <3>2. CASE s # {}
      <4>1. s \ {AnyOf(s)} \in Sub(n)
        BY <3>2, <1>0, SmallerSet
      <4>2. s \ {AnyOf(s)} \in Sub(n + 1)
        BY <4>1, <1>0
      <4>3. h[s \ {AnyOf(s)}] = One(h, s \ {AnyOf(s)})
        <5> HIDE DEF One, Sub
        <5> QED BY <4>1, <2>1
      <4>4. g[s \ {AnyOf(s)}] = One(h, s \ {AnyOf(s)})
        <5> HIDE DEF One, Sub
        <5> QED BY <4>2
      <4> QED
        BY <4>3, <4>4
    <3> QED
      BY <3>1, <3>2
  <2>3. Upto(g, n + 1)
    <3> HIDE DEF One, Sub
    <3> QED
      BY <2>2
  <2>4. n + 1 \in Nat
    OBVIOUS
  <2> HIDE DEF Upto, g
  <2> QED
    BY <2>3, <2>4
<1>3. T = Nat
  <2> HIDE DEF T
  <2>1. T \in SUBSET Nat
    BY DEF T
  <2> QED
    BY <1>1, <1>2, <2>1, Induct
<1>4. Cardinality(S) \in T
  BY <1>3, FS_CardinalityType
<1>5. Sub(Cardinality(S)) = SUBSET S
  BY FS_Subset
<1>6. PICK h : Upto(h, Cardinality(S))
  BY <1>4
<1> QED
  BY <1>5, <1>6 DEF IsSum

LEMMA SumOfZeros ==
  ASSUME NEW S, IsFiniteSet(S), NEW F, \A x \in S : F[x] = 0, NEW f, IsSum(f, F, S)
  PROVE  f[S] = 0
<1>0. \A s \in SUBSET S : IsFiniteSet(s) /\ Cardinality(s) \in Nat /\ (Cardinality(s) = 0 <=> s = {})
  BY FS_Subset, FS_CardinalityType, FS_EmptySet
<1> DEFINE T == {n \in Nat : \A s \in SUBSET S : Cardinality(s) = n => f[s] = 0}
<1>1. 0 \in T
  BY <1>0 DEF IsSum
<1>2. ASSUME NEW n \in T PROVE n + 1 \in T
  <2>1. ASSUME NEW s \in SUBSET S, Cardinality(s) = n + 1 PROVE f[s] = 0
    <3>1. s # {} /\ IsFiniteSet(s)
      BY <1>0, <2>1
    <3> DEFINE x == AnyOf(s)
               r == s \ {x}
    <3>2. x \in s /\ Cardinality(r) = Cardinality(s) - 1
      BY <3>1, SmallerSet
    <3>3. r \in SUBSET S /\ x \in S /\ Cardinality(r) = n
      <4> HIDE DEF x
      <4> QED
        BY <3>2, <2>1
    <3>4. f[s] = F[x] + f[r]
      BY <3>1 DEF IsSum
    <3> HIDE DEF x, r
    <3>5. f[r] = 0 /\ F[x] = 0
      BY <3>3
    <3> QED
      BY <3>4, <3>5
  <2> QED
    BY <2>1
<1>3. T = Nat
  <2> HIDE DEF T
  <2>1. T \in SUBSET Nat
    BY DEF T
  <2> QED
    BY <1>1, <1>2, <2>1, Induct
<1>4. Cardinality(S) \in T
  BY <1>3, <1>0
<1> QED
  BY <1>4

\* A sum in which every term grows by no more than one, and only the term of j does.
LEMMA SumsDiffer ==
  ASSUME NEW S, IsFiniteSet(S), NEW F \in [S -> Nat], NEW G \in [S -> Nat], NEW J \in SUBSET S,
         \A x \in S : G[x] = F[x] + (IF x \in J THEN 1 ELSE 0),
         NEW f, IsSum(f, F, S), NEW g, IsSum(g, G, S)
  PROVE  /\ f[S] \in Nat /\ g[S] = f[S] + Cardinality(J)
<1>0. \A s \in SUBSET S : IsFiniteSet(s) /\ Cardinality(s) \in Nat /\ (Cardinality(s) = 0 <=> s = {})
  BY FS_Subset, FS_CardinalityType, FS_EmptySet
<1> DEFINE Rest(s) == f[s] \in Nat /\ g[s] = f[s] + Cardinality(s \cap J)
           T == {n \in Nat : \A s \in SUBSET S : Cardinality(s) = n => Rest(s)}
<1>1. 0 \in T
  <2>1. f[{}] = 0 /\ g[{}] = 0
    BY DEF IsSum
  <2>2. {} \cap J = {} /\ Cardinality({}) = 0
    BY FS_EmptySet
  <2>3. Rest({})
    BY <2>1, <2>2
  <2> QED
    BY <1>0, <2>3
<1>2. ASSUME NEW n \in T PROVE n + 1 \in T
  <2>1. ASSUME NEW s \in SUBSET S, Cardinality(s) = n + 1 PROVE Rest(s)
    <3> DEFINE x == AnyOf(s)
               r == s \ {x}
    <3>1. s # {} /\ x \in s /\ r \in SUBSET S /\ Cardinality(r) = n
      <4>1. s # {} /\ IsFiniteSet(s)
        BY <1>0, <2>1
      <4>2. x \in s /\ Cardinality(r) = Cardinality(s) - 1
        BY <4>1, SmallerSet
      <4> HIDE DEF x
      <4> QED
        BY <4>1, <4>2, <2>1
    <3> HIDE DEF x
    <3>2. f[s] = F[x] + f[r] /\ g[s] = G[x] + g[r]
      BY <3>1 DEF IsSum, x
    <3>3. Rest(r)
      BY <3>1
    <3>4. Cardinality(s \cap J) = Cardinality(r \cap J) + (IF x \in J THEN 1 ELSE 0)
      <4>1. r \cap J = (s \cap J) \ {x} /\ s \cap J \in SUBSET S /\ r \cap J \in SUBSET S
        OBVIOUS
      <4>2. IsFiniteSet(s \cap J) /\ Cardinality(s \cap J) \in Nat
        BY <4>1, <1>0
      <4>3. Cardinality((s \cap J) \ {x}) = IF x \in s \cap J THEN Cardinality(s \cap J) - 1 ELSE Cardinality(s \cap J)
        BY <4>2, FS_RemoveElement
      <4>4. x \in s \cap J <=> x \in J
        BY <3>1
      <4>5. Cardinality(r \cap J) = IF x \in J THEN Cardinality(s \cap J) - 1 ELSE Cardinality(s \cap J)
        BY <4>1, <4>3, <4>4
      <4> HIDE DEF r
      <4>6. CASE x \in J
        BY <4>2, <4>5, <4>6
      <4>7. CASE x \notin J
        BY <4>2, <4>5, <4>7
      <4> QED
        BY <4>6, <4>7
    <3>5. Cardinality(r \cap J) \in Nat
      BY <1>0
    <3>6. F[x] \in Nat /\ G[x] = F[x] + (IF x \in J THEN 1 ELSE 0)
      BY <3>1
    <3>7. F[x] + f[r] \in Nat /\ F[x] + f[r] + Cardinality(s \cap J) = G[x] + g[r]
      <4> HIDE DEF r
      <4> QED
        BY <3>3, <3>4, <3>5, <3>6
    <3> QED
      BY <3>2, <3>7
  <2>2. n + 1 \in Nat
    OBVIOUS
  <2> HIDE DEF Rest
  <2> QED
    BY <2>1, <2>2
<1>3. T = Nat
  <2> HIDE DEF T
  <2>1. T \in SUBSET Nat
    BY DEF T
  <2> QED
    BY <1>1, <1>2, <2>1, Induct
<1>4. Rest(S) /\ S \cap J = J
  <2>1. Cardinality(S) \in T
    BY <1>3, <1>0
  <2> QED
    BY <2>1
<1> QED
  BY <1>4

\* What F adds up to over S.
Total(F, S) == (CHOOSE f : IsSum(f, F, S))[S]

LEMMA TotalsDiffer ==
  ASSUME NEW S, IsFiniteSet(S), NEW F \in [S -> Nat], NEW G \in [S -> Nat], NEW J \in SUBSET S,
         \A x \in S : G[x] = F[x] + (IF x \in J THEN 1 ELSE 0)
  PROVE  Total(F, S) \in Nat /\ Total(G, S) = Total(F, S) + Cardinality(J)
<1> DEFINE f == CHOOSE i : IsSum(i, F, S)
           g == CHOOSE i : IsSum(i, G, S)
<1>1. IsSum(f, F, S) /\ IsSum(g, G, S)
  BY SumExists
<1>2. Total(F, S) = f[S] /\ Total(G, S) = g[S]
  BY DEF Total
<1> HIDE DEF f, g
<1>3. f[S] \in Nat /\ g[S] = f[S] + Cardinality(J)
  BY <1>1, SumsDiffer
<1> QED
  BY <1>2, <1>3

LEMMA TotalOfOnes ==
  ASSUME NEW S, IsFiniteSet(S), NEW G \in [S -> Nat], \A x \in S : G[x] = 1
  PROVE  Total(G, S) = Cardinality(S)
<1> DEFINE F == [x \in S |-> 0]
           f == CHOOSE i : IsSum(i, F, S)
<1>1. IsSum(f, F, S)
  BY SumExists
<1>2. Total(F, S) = f[S]
  BY DEF Total
<1>3. F \in [S -> Nat] /\ S \in SUBSET S /\ \A x \in S : G[x] = F[x] + (IF x \in S THEN 1 ELSE 0)
  OBVIOUS
<1>4. \A x \in S : F[x] = 0
  OBVIOUS
<1> HIDE DEF F, f
<1>5. Total(G, S) = Total(F, S) + Cardinality(S)
  BY <1>3, TotalsDiffer
<1>6. f[S] = 0
  BY <1>1, <1>4, SumOfZeros
<1> QED
  BY <1>2, <1>5, <1>6, FS_CardinalityType

LEMMA TotalAtLeast ==
  ASSUME NEW S, IsFiniteSet(S), NEW G \in [S -> Nat], \A x \in S : G[x] >= 1
  PROVE  Total(G, S) \in Nat /\ Total(G, S) >= Cardinality(S)
<1> DEFINE F == [x \in S |-> G[x] - 1]
<1>1. F \in [S -> Nat] /\ S \in SUBSET S /\ \A x \in S : G[x] = F[x] + (IF x \in S THEN 1 ELSE 0)
  OBVIOUS
<1> HIDE DEF F
<1>2. Total(G, S) = Total(F, S) + Cardinality(S) /\ Total(F, S) \in Nat
  BY <1>1, TotalsDiffer
<1> QED
  BY <1>2, FS_CardinalityType

-----------------------------------------------------------------------------
(* _cat_ranges(): the streams of the objects and the groups of the ranges. *)

\* The ranges of the variables, but for the number of streams left to give.
Shape ==
  /\ counts \in [Objs -> 1..MaxCount] /\ total \in 1..MaxTotal /\ cap \in 1..MaxTotal
  /\ share \in [Objs -> Nat]
  /\ \A o \in Objs : 1 <= share[o] /\ share[o] <= Cap(o)
  /\ len \in [1..counts[1] -> 0..MaxLength]
  /\ group \in [1..counts[1] -> 0..MaxTotal] /\ load \in [1..MaxTotal -> Nat]

\* No range has a group before every stream is given, and those that have one
\* are no smaller than those that wait.
InOrder ==
  /\ budget > 0 => \A r \in 1..counts[1] : group[r] = 0
  /\ \A r \in Requests, q \in Waiting : group[r] > 0 => len[r] >= len[q]

PlanInductive == Shape /\ Proportional /\ InOrder /\ Balanced

\* The streams an object may have are positive and within the limits.
LEMMA CapType ==
  ASSUME Shape, NEW o \in Objs
  PROVE Cap(o) \in Nat \ {0} /\ Cap(o) <= MaxTotal
<1>1. counts[o] \in 1..MaxCount /\ cap \in 1..MaxTotal BY DEF Shape
<1> QED BY <1>1, PlanAssumption DEF Cap, Most, Least

\* The groups of object 1 are among its streams.
LEMMA GroupsType ==
  ASSUME Shape
  PROVE NumGroups \in Nat /\ 1 <= NumGroups /\ NumGroups <= MaxTotal
<1>1. counts[1] \in Nat /\ 1 \in Objs BY PlanAssumption DEF Shape, Objs
<1>2. DOMAIN len = 1..counts[1] BY DEF Shape
<1>3. IsFiniteSet(1..counts[1])
  <2>1. 1 \in Int /\ counts[1] \in Int BY <1>1
  <2> QED BY <2>1, FS_Interval, Zenon
<1>4. IsFiniteSet(Requests) BY <1>2, <1>3, FS_Subset DEF Requests
<1>5. Cardinality(Requests) \in Nat BY <1>4, FS_CardinalityType
<1>6. share[1] \in Nat /\ share[1] <= Cap(1) BY <1>1 DEF Shape
<1>7. Cap(1) \in Nat /\ Cap(1) <= MaxTotal BY <1>1, CapType
<1> QED BY <1>5, <1>6, <1>7, PlanAssumption DEF NumGroups, Most, Least

LEMMA InitPlanInductive == PlanInit => PlanInductive
<1> SUFFICES ASSUME PlanInit PROVE PlanInductive OBVIOUS
<1>1. Shape
  <2>1. \A o \in Objs : 1 <= share[o] /\ share[o] <= Cap(o)
    <3> SUFFICES ASSUME NEW o \in Objs PROVE 1 <= share[o] /\ share[o] <= Cap(o) OBVIOUS
    <3>1. counts[o] \in 1..MaxCount /\ cap \in 1..MaxTotal /\ share[o] = 1 BY DEF PlanInit
    <3> QED BY <3>1, PlanAssumption DEF Cap, Most, Least
  <2>2. 1 \in Objs BY PlanAssumption DEF Objs
  <2>3. group \in [1..counts[1] -> 0..MaxTotal] /\ load \in [1..MaxTotal -> Nat] BY PlanAssumption DEF PlanInit
  <2>4. share \in [Objs -> Nat] BY DEF PlanInit
  <2> QED BY <2>1, <2>3, <2>4 DEF Shape, PlanInit
<1>2. Proportional
  <2>1. \A o \in Objs : share[o] = 1 BY DEF PlanInit
  <2> QED BY <2>1 DEF Proportional
<1>3. DOMAIN len = 1..counts[1] BY DEF PlanInit
<1>4. \A r \in Requests : group[r] = 0 BY <1>3 DEF PlanInit, Requests
<1>5. InOrder
  <2>1. \A r \in 1..counts[1] : group[r] = 0 BY DEF PlanInit
  <2>2. \A r \in Requests : ~(group[r] > 0) BY <1>4
  <2> QED BY <2>1, <2>2 DEF InOrder
<1>6. Balanced BY <1>4 DEF Balanced
<1> QED BY <1>1, <1>2, <1>5, <1>6 DEF PlanInductive

\* A turn of the first loop gives one more stream to an object of most ranges per
\* stream, so no other has a better claim to any stream of it.
LEMMA GiveOneInductive ==
  ASSUME PlanInductive, GiveOne
  PROVE PlanInductive'
<1>1. PICK j \in InHeap : (\A p \in InHeap : Before(j, p)) /\ share' = [share EXCEPT ![j] = @ + 1]
  BY DEF GiveOne
<1>2. j \in Objs /\ share[j] < Cap(j) BY <1>1 DEF InHeap
<1>3. counts' = counts /\ cap' = cap /\ total' = total /\ len' = len /\ group' = group /\ load' = load
  BY DEF GiveOne, planInputs
<1>4. \A o \in Objs : Cap(o)' = Cap(o) BY <1>3 DEF Cap
<1>5. \A o \in Objs : share[o] \in Nat /\ Cap(o) \in Nat /\ counts[o] \in Nat /\ counts[o] >= 1 /\ 1 <= share[o] /\ share[o] <= Cap(o)
  BY CapType, PlanAssumption DEF PlanInductive, Shape
<1>6. \A o \in Objs : share'[o] = IF o = j THEN share[o] + 1 ELSE share[o]
  BY <1>1 DEF PlanInductive, Shape
<1>7. Shape'
  <2>1. share' \in [Objs -> Nat]
    <3>1. share[j] + 1 \in Nat BY <1>2, <1>5
    <3>2. share \in [Objs -> Nat] BY DEF PlanInductive, Shape
    <3> QED BY <3>1, <3>2, <1>1
  <2>2. \A o \in Objs : 1 <= share'[o] /\ share'[o] <= Cap(o)' BY <1>2, <1>4, <1>5, <1>6
  <2> QED BY <2>1, <2>2, <1>3 DEF PlanInductive, Shape
<1>8. Proportional'
  <2> SUFFICES ASSUME NEW o \in Objs, NEW p \in Objs, share'[o] > 1, share'[p] < Cap(p)
               PROVE counts[o] * share'[p] >= counts[p] * (share'[o] - 1)
    BY <1>3, <1>4 DEF Proportional
  <2>1. CASE o = j /\ p = j
    <3>1. share'[o] = share[j] + 1 /\ share'[p] = share[j] + 1 BY <1>6, <2>1
    <3> QED BY <3>1, <2>1, <1>2, <1>5
  <2>2. CASE o = j /\ p # j
    <3>1. share'[o] = share[j] + 1 /\ share'[p] = share[p] BY <1>6, <2>2
    <3>2. p \in InHeap BY <3>1 DEF InHeap
    <3>3. counts[j] * share[p] >= counts[p] * share[j] BY <1>1, <3>2, <1>5, <1>2 DEF Before
    <3>4. (share[j] + 1) - 1 = share[j] BY <1>5, <1>2
    <3> QED BY <3>1, <3>3, <3>4, <2>2
  <2>3. CASE o # j /\ p = j
    <3>1. share'[o] = share[o] /\ share'[p] = share[j] + 1 BY <1>6, <2>3
    <3>2. counts[o] * share[j] >= counts[j] * (share[o] - 1) BY <3>1, <1>2 DEF PlanInductive, Proportional
    <3>3. counts[o] * (share[j] + 1) = counts[o] * share[j] + counts[o] BY <1>5, <1>2
    <3>4. counts[o] * share[j] \in Int /\ counts[j] * (share[o] - 1) \in Int BY <1>5, <1>2
    <3> QED BY <3>1, <3>2, <3>3, <3>4, <2>3, <1>5
  <2>4. CASE o # j /\ p # j
    <3>1. share'[o] = share[o] /\ share'[p] = share[p] BY <1>6, <2>4
    <3> QED BY <3>1 DEF PlanInductive, Proportional
  <2> QED BY <2>1, <2>2, <2>3, <2>4
<1>9. \A r \in 1..counts[1] : group[r] = 0
  BY DEF GiveOne, PlanInductive, InOrder
<1>10. DOMAIN len = 1..counts[1] BY DEF PlanInductive, Shape
<1>11. \A r \in Requests' : group'[r] = 0 BY <1>3, <1>9, <1>10 DEF Requests
<1>12. InOrder' BY <1>3, <1>9, <1>11 DEF InOrder
<1>13. Balanced' BY <1>11 DEF Balanced
<1> QED BY <1>7, <1>8, <1>12, <1>13 DEF PlanInductive

\* A turn of the second loop: the group that gets the range had the fewest bytes,
\* and the range is no larger than those the group had.
LEMMA AssignInductive ==
  ASSUME PlanInductive, Assign
  PROVE PlanInductive'
<1>1. PICK r \in Waiting, g \in 1..NumGroups :
        /\ \A q \in Waiting : Larger(r, q)
        /\ \A h \in 1..NumGroups : Lighter(g, h)
        /\ group' = [group EXCEPT ![r] = g] /\ load' = [load EXCEPT ![g] = @ + len[r]]
  BY DEF Assign
<1>2. counts' = counts /\ cap' = cap /\ total' = total /\ len' = len /\ share' = share /\ budget' = budget /\ budget = 0
  BY DEF Assign, planInputs
<1>3. NumGroups \in Nat /\ NumGroups <= MaxTotal BY GroupsType DEF PlanInductive
<1>4. Requests' = Requests /\ NumGroups' = NumGroups BY <1>2 DEF Requests, NumGroups
<1>5. Requests \subseteq 1..counts[1] BY DEF Requests, PlanInductive, Shape
<1>6. r \in Requests /\ group[r] = 0 BY <1>1 DEF Waiting
<1>7. \A q \in Requests : len[q] \in Nat
  <2>1. \A q \in 1..counts[1] : len[q] \in 0..MaxLength BY DEF PlanInductive, Shape
  <2> QED BY <2>1, <1>5
<1>8. \A h \in 1..NumGroups : h \in 1..MaxTotal /\ load[h] \in Nat BY <1>3, PlanAssumption DEF PlanInductive, Shape
<1>9. g \in 1..MaxTotal /\ g > 0 BY <1>1, <1>3, PlanAssumption
<1>10. \A q \in Requests : group'[q] = IF q = r THEN g ELSE group[q]
  BY <1>1, <1>5 DEF PlanInductive, Shape
<1>11. \A h \in 1..MaxTotal : load'[h] = IF h = g THEN load[h] + len[r] ELSE load[h]
  BY <1>1 DEF PlanInductive, Shape
<1>12. Shape'
  <2>1. group' \in [1..counts[1] -> 0..MaxTotal] BY <1>1, <1>9, <1>5, <1>6 DEF PlanInductive, Shape
  <2>2. load[g] + len[r] \in Nat BY <1>1, <1>6, <1>7, <1>8
  <2>3. load' \in [1..MaxTotal -> Nat] BY <1>1, <2>2 DEF PlanInductive, Shape
  <2>4. \A o \in Objs : Cap(o)' = Cap(o) BY <1>2 DEF Cap
  <2> QED BY <2>1, <2>3, <2>4, <1>2 DEF PlanInductive, Shape
<1>13. Proportional'
  <2>1. \A o \in Objs : Cap(o)' = Cap(o) BY <1>2 DEF Cap
  <2> QED BY <2>1, <1>2 DEF PlanInductive, Proportional
<1>14. \A q \in Waiting : len[r] >= len[q]
  <2> SUFFICES ASSUME NEW q \in Waiting PROVE len[r] >= len[q] OBVIOUS
  <2>1. q \in Requests BY DEF Waiting
  <2> QED BY <2>1, <1>1, <1>6, <1>7 DEF Larger
<1>15. Waiting' \subseteq Waiting BY <1>4, <1>9, <1>10 DEF Waiting
<1>16. \A q \in Requests : group[q] > 0 => len[q] >= len[r] BY <1>1 DEF PlanInductive, InOrder
<1>17. InOrder'
  <2>1. ~(budget' > 0) BY <1>2
  <2>2. \A p \in Requests, q \in Waiting' : group'[p] > 0 => len[p] >= len[q]
    BY <1>10, <1>14, <1>15 DEF PlanInductive, InOrder
  <2> QED BY <2>1, <2>2, <1>2, <1>4 DEF InOrder
<1>18. Balanced'
  <2> SUFFICES ASSUME NEW q \in Requests, NEW h \in 1..NumGroups, group'[q] > 0
               PROVE load'[group'[q]] - len[q] <= load'[h]
    BY <1>2, <1>4 DEF Balanced
  <2>1. load'[h] >= load[h] /\ load[h] \in Nat /\ load'[h] \in Nat BY <1>6, <1>7, <1>8, <1>11
  <2>2. load[g] <= load[h] /\ load[g] \in Nat BY <1>1, <1>8 DEF Lighter
  <2>3. len[q] \in Nat /\ len[r] \in Nat BY <1>6, <1>7
  <2>4. CASE group'[q] = g
    <3>1. len[q] >= len[r]
      <4>1. CASE q = r BY <4>1, <2>3
      <4>2. CASE q # r BY <4>2, <1>10, <1>16
      <4> QED BY <4>1, <4>2
    <3>2. load'[g] = load[g] + len[r] BY <1>9, <1>11
    <3> QED BY <3>1, <3>2, <2>1, <2>2, <2>3, <2>4
  <2>5. CASE group'[q] # g
    <3>1. q # r /\ group'[q] = group[q] BY <1>10, <2>5
    <3>2. group[q] \in 1..MaxTotal BY <1>5, <3>1, PlanAssumption DEF PlanInductive, Shape
    <3>3. load'[group[q]] = load[group[q]] /\ load[group[q]] \in Nat BY <1>11, <2>5, <3>1, <3>2 DEF PlanInductive, Shape
    <3>4. load[group[q]] - len[q] <= load[h] BY <3>1 DEF PlanInductive, Balanced
    <3> QED BY <3>1, <3>3, <3>4, <2>1, <2>3
  <2> QED BY <2>4, <2>5
<1> QED BY <1>12, <1>13, <1>17, <1>18 DEF PlanInductive

LEMMA PlanStutters == PlanInductive /\ UNCHANGED planVars => PlanInductive'
<1> SUFFICES ASSUME PlanInductive, UNCHANGED planVars PROVE PlanInductive' OBVIOUS
<1>1. \A o \in Objs : Cap(o)' = Cap(o) BY DEF planVars, planInputs, Cap
<1>2. Requests' = Requests /\ NumGroups' = NumGroups BY DEF planVars, planInputs, Requests, NumGroups
<1>3. Waiting' = Waiting BY <1>2 DEF planVars, Waiting
<1>4. Shape' BY <1>1 DEF planVars, planInputs, PlanInductive, Shape
<1>5. Proportional' BY <1>1 DEF planVars, planInputs, PlanInductive, Proportional
<1>6. InOrder' /\ Balanced' BY <1>2, <1>3 DEF planVars, planInputs, PlanInductive, InOrder, Balanced
<1> QED BY <1>4, <1>5, <1>6 DEF PlanInductive

LEMMA PlanInvariant == PlanSpec => []PlanInductive
<1>1. PlanInit => PlanInductive BY InitPlanInductive
<1>2. PlanInductive /\ [PlanNext]_planVars => PlanInductive'
  <2> SUFFICES ASSUME PlanInductive, [PlanNext]_planVars PROVE PlanInductive' OBVIOUS
  <2>1. CASE GiveOne BY <2>1, GiveOneInductive
  <2>2. CASE Assign BY <2>2, AssignInductive
  <2>3. CASE UNCHANGED planVars BY <2>3, PlanStutters
  <2> QED BY <2>1, <2>2, <2>3 DEF PlanNext
<1> QED BY <1>1, <1>2, PTL DEF PlanSpec

\* Streams are given to objects in proportion to their ranges: no stream of
\* _allocate_streams() would serve more ranges at another object.
THEOREM AllocationFair == PlanSpec => []Proportional
<1>1. PlanInductive => Proportional BY DEF PlanInductive
<1> QED BY <1>1, PlanInvariant, PTL

\* The groups of _split_ranges_across_streams() are balanced to within one range.
THEOREM GroupsBalanced == PlanSpec => []Balanced
<1>1. PlanInductive => Balanced BY DEF PlanInductive
<1> QED BY <1>1, PlanInvariant, PTL

LEMMA ObjsFinite == IsFiniteSet(Objs) /\ Cardinality(Objs) = NumObjects
<1>1. NumObjects \in Nat /\ NumObjects >= 1 /\ Objs = 1..NumObjects
  BY PlanAssumption DEF Objs
<1>2. 1 \in Int /\ NumObjects \in Int
  BY <1>1
<1>3. IsFiniteSet(1..NumObjects) /\ Cardinality(1..NumObjects) = IF 1 > NumObjects THEN 0 ELSE NumObjects - 1 + 1
  BY <1>2, FS_Interval
<1> QED
  BY <1>1, <1>3

\* The sums of BudgetSpent.
LEMMA AllocTotal == MapThenSumSet(Alloc, Objs) = Total([o \in Objs |-> share[o]], Objs)
<1> DEFINE F == [o \in Objs |-> share[o]]
           Adds(i) == i = [s \in SUBSET Objs |-> IF s = {} THEN 0 ELSE Alloc(AnyOf(s)) + i[s \ {AnyOf(s)}]]
<1>1. \A s \in SUBSET Objs : s # {} => F[AnyOf(s)] = Alloc(AnyOf(s))
  BY DEF AnyOf, Alloc
<1>2. \A i : Adds(i) <=> IsSum(i, F, Objs)
  BY <1>1 DEF IsSum
<1>3. MapThenSumSet(Alloc, Objs) = (CHOOSE i : Adds(i))[Objs]
  BY DEF MapThenSumSet, MapThenFoldSet, AnyOf
<1> HIDE DEF Adds
<1>4. (CHOOSE i : Adds(i)) = (CHOOSE i : IsSum(i, F, Objs))
  BY <1>2
<1> QED
  BY <1>3, <1>4 DEF Total

LEMMA CapTotal == MapThenSumSet(Cap, Objs) = Total([o \in Objs |-> Cap(o)], Objs)
<1> DEFINE F == [o \in Objs |-> Cap(o)]
           Adds(i) == i = [s \in SUBSET Objs |-> IF s = {} THEN 0 ELSE Cap(AnyOf(s)) + i[s \ {AnyOf(s)}]]
<1>1. \A s \in SUBSET Objs : s # {} => F[AnyOf(s)] = Cap(AnyOf(s))
  BY DEF AnyOf
<1>2. \A i : Adds(i) <=> IsSum(i, F, Objs)
  BY <1>1 DEF IsSum
<1>3. MapThenSumSet(Cap, Objs) = (CHOOSE i : Adds(i))[Objs]
  BY DEF MapThenSumSet, MapThenFoldSet, AnyOf
<1> HIDE DEF Adds
<1>4. (CHOOSE i : Adds(i)) = (CHOOSE i : IsSum(i, F, Objs))
  BY <1>2
<1> QED
  BY <1>3, <1>4 DEF Total

\* The streams of all objects, and the most they could have.
Given == Total([o \in Objs |-> share[o]], Objs)
Caps == Total([o \in Objs |-> Cap(o)], Objs)

LEMMA Sums ==
  ASSUME Shape
  PROVE  /\ Given \in Nat /\ Given >= NumObjects /\ Caps \in Nat /\ Caps >= NumObjects
         /\ InHeap = {} => Given = Caps
<1>1. \A o \in Objs : share[o] \in Nat /\ share[o] >= 1 /\ Cap(o) \in Nat /\ Cap(o) >= 1 /\ share[o] <= Cap(o)
  BY CapType DEF Shape
<1>2. Given \in Nat /\ Given >= NumObjects
  <2> DEFINE G == [o \in Objs |-> share[o]]
  <2>1. G \in [Objs -> Nat] /\ \A o \in Objs : G[o] >= 1
    BY <1>1
  <2> HIDE DEF G
  <2>2. Total(G, Objs) \in Nat /\ Total(G, Objs) >= Cardinality(Objs)
    BY <2>1, ObjsFinite, TotalAtLeast
  <2> QED
    BY <2>2, ObjsFinite DEF Given, G
<1>3. Caps \in Nat /\ Caps >= NumObjects
  <2> DEFINE G == [o \in Objs |-> Cap(o)]
  <2>1. G \in [Objs -> Nat] /\ \A o \in Objs : G[o] >= 1
    BY <1>1
  <2> HIDE DEF G
  <2>2. Total(G, Objs) \in Nat /\ Total(G, Objs) >= Cardinality(Objs)
    BY <2>1, ObjsFinite, TotalAtLeast
  <2> QED
    BY <2>2, ObjsFinite DEF Caps, G
<1>4. ASSUME InHeap = {} PROVE Given = Caps
  <2>1. \A o \in Objs : share[o] = Cap(o)
    BY <1>1, <1>4 DEF InHeap
  <2>2. [o \in Objs |-> share[o]] = [o \in Objs |-> Cap(o)]
    BY <2>1
  <2> QED
    BY <2>2 DEF Given, Caps
<1> QED
  BY <1>2, <1>3, <1>4

\* The last stream of the budget makes the allocation complete.
Spent == budget \in Nat /\ Given + budget = Most(NumObjects, Least(total, Caps))

LEMMA SpentEnough == Shape /\ Spent => BudgetSpent
<1> SUFFICES ASSUME Shape, Spent
             PROVE  BudgetSpent
  OBVIOUS
<1>1. MapThenSumSet(Alloc, Objs) = Given /\ MapThenSumSet(Cap, Objs) = Caps
  BY AllocTotal, CapTotal DEF Given, Caps
<1>2. budget > 0 => InHeap # {}
  <2>1. total \in Nat /\ NumObjects \in Nat
    BY PlanAssumption DEF Shape
  <2> QED
    BY <2>1, Sums DEF Spent, Most, Least
<1> QED
  BY <1>1, <1>2 DEF BudgetSpent, Spent

LEMMA SpentStarts == PlanInit /\ Shape => Spent
<1> SUFFICES ASSUME PlanInit, Shape
             PROVE  Spent
  OBVIOUS
<1>1. budget = Most(0, Least(total, Caps) - NumObjects)
  BY CapTotal DEF PlanInit, Budget, Caps
<1>2. Given = NumObjects
  <2>1. share \in [Objs -> Nat] /\ (\A o \in Objs : share[o] = 1) /\ share = [o \in Objs |-> share[o]]
    BY DEF PlanInit
  <2> QED
    BY <2>1, ObjsFinite, TotalOfOnes DEF Given
<1>3. total \in Nat /\ NumObjects \in Nat /\ Caps \in Nat
  BY Sums, PlanAssumption DEF Shape
<1> QED
  BY <1>1, <1>2, <1>3 DEF Spent, Most, Least

LEMMA SpentGiven ==
  ASSUME Shape, Shape', Spent, GiveOne
  PROVE  Spent'
<1>1. PICK j \in InHeap : share' = [share EXCEPT ![j] = @ + 1]
  BY DEF GiveOne
<1>2. budget \in Nat /\ budget > 0 /\ budget' = budget - 1 /\ total' = total /\ counts' = counts /\ cap' = cap
  BY DEF GiveOne, planInputs, Spent
<1>3. Caps' = Caps
  BY <1>2 DEF Caps, Cap
<1>4. Given' = Given + 1
  <2> DEFINE F == [o \in Objs |-> share[o]]
             G == [o \in Objs |-> share'[o]]
             J == {j}
  <2>1. F \in [Objs -> Nat] /\ G \in [Objs -> Nat] /\ J \in SUBSET Objs
    BY DEF Shape, InHeap
  <2>2. \A o \in Objs : G[o] = F[o] + (IF o \in J THEN 1 ELSE 0)
    BY <1>1 DEF Shape, InHeap
  <2>3. Cardinality(J) = 1
    BY FS_Singleton
  <2> HIDE DEF F, G, J
  <2>4. Total(G, Objs) = Total(F, Objs) + Cardinality(J)
    BY <2>1, <2>2, ObjsFinite, TotalsDiffer
  <2> QED
    BY <2>3, <2>4 DEF Given, F, G
<1>5. Given \in Nat
  BY Sums
<1> QED
  BY <1>2, <1>3, <1>4, <1>5 DEF Spent

\* A group has bytes when it has a range; while one has none, no other has two.
Spread ==
  /\ \A r \in Requests : group[r] \in 0..NumGroups /\ (group[r] > 0 => load[group[r]] > 0)
  /\ \A g \in 1..MaxTotal : load[g] > 0 => \E r \in Requests : group[r] = g
  /\ (\E g \in 1..NumGroups : load[g] = 0) =>
       \A r, q \in Requests : group[r] = group[q] /\ group[r] > 0 => r = q

LEMMA RequestsFinite ==
  ASSUME Shape
  PROVE  IsFiniteSet(Requests) /\ Cardinality(Requests) \in Nat /\ Requests \subseteq 1..counts[1]
<1>1. counts[1] \in Nat /\ 1 \in Objs
  BY PlanAssumption DEF Shape, Objs
<1>2. Requests \subseteq 1..counts[1]
  BY DEF Shape, Requests
<1>3. IsFiniteSet(1..counts[1])
  <2>1. 1 \in Int /\ counts[1] \in Int
    BY <1>1
  <2> QED
    BY <2>1, FS_Interval, Zenon
<1> QED
  BY <1>2, <1>3, FS_Subset, FS_CardinalityType

LEMMA SpreadStarts == PlanInit /\ Shape => Spread
<1> SUFFICES ASSUME PlanInit, Shape
             PROVE  Spread
  OBVIOUS
<1>1. \A r \in Requests : group[r] = 0
  BY RequestsFinite DEF PlanInit
<1>2. \A g \in 1..MaxTotal : load[g] = 0
  BY DEF PlanInit
<1>3. NumGroups \in Nat
  BY GroupsType
<1> QED
  BY <1>1, <1>2, <1>3 DEF Spread

LEMMA GroupsCounted == PlanInductive => NumGroups \in Nat
BY GroupsType DEF PlanInductive

\* No range has a group while there are streams to give.
LEMMA SpreadGiven ==
  ASSUME PlanInductive, PlanInductive', Spread, GiveOne
  PROVE  Spread'
<1>1. counts' = counts /\ len' = len /\ group' = group /\ load' = load /\ budget > 0
  BY DEF GiveOne, planInputs
<1>2. Requests' = Requests
  BY <1>1 DEF Requests
<1>3. \A r \in Requests : group[r] = 0
  BY <1>1, RequestsFinite DEF PlanInductive, InOrder
<1>4. \A g \in 1..MaxTotal : ~(load[g] > 0)
  BY <1>3 DEF Spread
<1>5. NumGroups' \in Nat
  <2>1. (PlanInductive => NumGroups \in Nat)'
    BY GroupsCounted, PTL
  <2> QED
    BY <2>1
<1> QED
  BY <1>1, <1>2, <1>3, <1>4, <1>5 DEF Spread

LEMMA SpreadAssigned ==
  ASSUME PlanInductive, Spread, Assign
  PROVE  Spread'
<1>1. PICK r \in Waiting, g \in 1..NumGroups :
        /\ \A q \in Waiting : Larger(r, q)
        /\ \A h \in 1..NumGroups : Lighter(g, h)
        /\ group' = [group EXCEPT ![r] = g] /\ load' = [load EXCEPT ![g] = @ + len[r]]
  BY DEF Assign
<1>2. counts' = counts /\ len' = len /\ share' = share
  BY DEF Assign, planInputs
<1>3. Requests' = Requests /\ NumGroups' = NumGroups
  BY <1>2 DEF Requests, NumGroups
<1>4. NumGroups \in Nat /\ NumGroups <= MaxTotal /\ g \in 1..MaxTotal /\ 1..NumGroups \subseteq 1..MaxTotal
  BY <1>1, GroupsType, PlanAssumption DEF PlanInductive
<1>5. r \in Requests /\ group[r] = 0 /\ len[r] > 0 /\ len[r] \in Nat
  <2>1. r \in Requests /\ group[r] = 0
    BY <1>1 DEF Waiting
  <2>2. r \in 1..counts[1]
    BY <2>1, RequestsFinite DEF PlanInductive
  <2>3. len[r] \in 0..MaxLength
    BY <2>2 DEF PlanInductive, Shape
  <2> QED
    BY <2>1, <2>3, PlanAssumption DEF Requests
<1>6. \A q \in Requests : group'[q] = IF q = r THEN g ELSE group[q]
  BY <1>1, RequestsFinite DEF PlanInductive, Shape
<1>7. \A h \in 1..MaxTotal : load[h] \in Nat /\ load'[h] = IF h = g THEN load[h] + len[r] ELSE load[h]
  BY <1>1 DEF PlanInductive, Shape
<1>8. \A q \in Requests : group[q] \in 0..NumGroups /\ (group[q] > 0 => load[group[q]] > 0)
  BY DEF Spread
<1>9. ASSUME NEW q \in Requests PROVE group'[q] \in 0..NumGroups /\ (group'[q] > 0 => load'[group'[q]] > 0)
  <2>1. CASE q = r
    BY <2>1, <1>4, <1>5, <1>6, <1>7
  <2>2. CASE q # r
    <3>1. group'[q] = group[q]
      BY <2>2, <1>6
    <3>2. group[q] > 0 => group[q] \in 1..MaxTotal
      BY <1>4, <1>8
    <3> QED
      BY <3>1, <3>2, <1>5, <1>7, <1>8
  <2> QED
    BY <2>1, <2>2
<1>10. ASSUME NEW h \in 1..MaxTotal, load'[h] > 0 PROVE \E q \in Requests : group'[q] = h
  <2>1. CASE h = g
    BY <2>1, <1>5, <1>6
  <2>2. CASE h # g
    <3>1. load[h] > 0
      BY <2>2, <1>7, <1>10
    <3>2. PICK q \in Requests : group[q] = h
      BY <3>1 DEF Spread
    <3>3. q # r
      BY <3>2, <1>5
    <3> QED
      BY <3>2, <3>3, <1>6
  <2> QED
    BY <2>1, <2>2
<1>11. ASSUME NEW h \in 1..NumGroups, load'[h] = 0, NEW p \in Requests, NEW q \in Requests,
              group'[p] = group'[q], group'[p] > 0
       PROVE  p = q
  <2>1. h \in 1..MaxTotal /\ h # g /\ load[h] = 0
    BY <1>4, <1>5, <1>7, <1>11
  <2>2. load[g] = 0
    BY <2>1, <1>1, <1>4, <1>7 DEF Lighter
  <2>3. \A x \in Requests : group[x] # g
    BY <2>2, <1>1, <1>4, <1>8
  <2>4. \A x, y \in Requests : group[x] = group[y] /\ group[x] > 0 => x = y
    BY <2>1 DEF Spread
  <2> QED
    BY <2>3, <2>4, <1>6, <1>11
<1> QED
  BY <1>3, <1>9, <1>10, <1>11 DEF Spread

\* Ranges that are in groups of their own cannot be more than the groups.
LEMMA SpreadEnough == Shape /\ Spread => NoIdleStream
<1> SUFFICES ASSUME Shape, Spread, Waiting = {}, Requests # {}
             PROVE  {group[r] : r \in Requests} = 1..NumGroups
  BY DEF NoIdleStream
<1>1. \A r \in Requests : group[r] \in 1..NumGroups
  BY GroupsType DEF Waiting, Spread
<1>2. \A g \in 1..NumGroups : load[g] > 0 => \E r \in Requests : group[r] = g
  BY GroupsType, PlanAssumption DEF Spread
<1>3. \A g \in 1..NumGroups : load[g] \in Nat
  BY GroupsType, PlanAssumption DEF Shape
<1>4. ASSUME NEW g \in 1..NumGroups, load[g] = 0 PROVE FALSE
  <2> DEFINE f == [r \in Requests |-> group[r]]
             S == (1..NumGroups) \ {g}
  <2>1. \A r \in Requests : group[r] # g
    BY <1>1, <1>4 DEF Spread
  <2>2. \A r, q \in Requests : group[r] = group[q] => r = q
    BY <1>1, <1>4 DEF Spread
  <2>3. f \in Injection(Requests, S)
    BY <1>1, <2>1, <2>2 DEF Injection, IsInjective
  <2>4. IsFiniteSet(1..NumGroups) /\ Cardinality(1..NumGroups) = NumGroups
    <3>1. 1 \in Int /\ NumGroups \in Int /\ NumGroups >= 1
      BY GroupsType
    <3>2. IsFiniteSet(1..NumGroups) /\ Cardinality(1..NumGroups) = IF 1 > NumGroups THEN 0 ELSE NumGroups - 1 + 1
      BY <3>1, FS_Interval, Zenon
    <3> QED
      BY <3>1, <3>2
  <2>5. IsFiniteSet(S) /\ Cardinality(S) = NumGroups - 1
    BY <2>4, <1>4, FS_RemoveElement
  <2> HIDE DEF f, S
  <2>6. Cardinality(Requests) <= NumGroups - 1
    BY <2>3, <2>5, FS_Injection
  <2>7. Cardinality(Requests) \in Nat /\ Cardinality(Requests) # 0
    BY RequestsFinite, FS_EmptySet
  <2>8. share[1] \in Nat
    BY PlanAssumption DEF Shape, Objs
  <2> QED
    BY <2>6, <2>7, <2>8 DEF NumGroups, Most, Least
<1> QED
  BY <1>1, <1>2, <1>3, <1>4

\* The plan is fair at every turn of either loop: in proportion to the ranges and spent to the last
\* stream, and with groups that are balanced and none idle, for any number of objects, ranges and
\* streams.
THEOREM PlansAreFair == PlanSpec => []PlanFair
<1> DEFINE Whole == PlanInductive /\ Spent /\ Spread
<1>1. PlanInit => Whole
  BY InitPlanInductive, SpentStarts, SpreadStarts DEF PlanInductive
<1>2. Whole /\ [PlanNext]_planVars => Whole'
  <2> SUFFICES ASSUME PlanInductive, Spent, Spread, [PlanNext]_planVars
               PROVE  Whole'
    OBVIOUS
  <2>1. CASE GiveOne
    <3>1. PlanInductive'
      BY <2>1, GiveOneInductive
    <3> QED
      BY <3>1, <2>1, SpentGiven, SpreadGiven DEF PlanInductive
  <2>2. CASE Assign
    <3>1. PlanInductive' /\ Spread'
      BY <2>2, AssignInductive, SpreadAssigned
    <3>2. share' = share /\ budget' = budget /\ counts' = counts /\ cap' = cap /\ total' = total
      BY <2>2 DEF Assign, planInputs
    <3> QED
      BY <3>1, <3>2 DEF Spent, Given, Caps, Cap
  <2>3. CASE UNCHANGED planVars
    <3>1. PlanInductive'
      BY <2>3, PlanStutters
    <3>2. share' = share /\ budget' = budget /\ counts' = counts /\ cap' = cap /\ total' = total /\ len' = len
          /\ group' = group /\ load' = load
      BY <2>3 DEF planVars, planInputs
    <3> QED
      BY <3>1, <3>2 DEF Spent, Given, Caps, Cap, Spread, Requests, NumGroups
  <2> QED
    BY <2>1, <2>2, <2>3 DEF PlanNext
<1>3. Whole => PlanFair
  <2>1. Shape /\ Spent => PlanTypeOK
    BY CapType DEF Shape, Spent, PlanTypeOK
  <2> QED
    BY <2>1, SpentEnough, SpreadEnough DEF PlanFair, PlanInductive
<1> HIDE DEF Whole
<1> QED
  BY <1>1, <1>2, <1>3, PTL DEF PlanSpec

-----------------------------------------------------------------------------
(* The arithmetic of limits and chunks, and the parts of one read.         *)

Places == Int \cup {NoLimit}

\* Offset and length are those of the slice.
LEMMA LimitsLemma ==
  ASSUME NEW n \in Nat, NEW first \in Places, NEW last \in Places
  PROVE  /\ Offset(first, n) \in Nat /\ Length(first, last, n) \in Nat
         /\ IF Length(first, last, n) = 0 THEN SliceFrom(first, n) >= SliceTo(last, n)
            ELSE /\ Offset(first, n) = SliceFrom(first, n)
                 /\ Offset(first, n) + Length(first, last, n) = SliceTo(last, n)
<1>1. /\ Offset(first, n) \in Nat /\ SliceFrom(first, n) \in Nat
      /\ SliceFrom(first, n) = Least(n, Offset(first, n))
  BY RangeAssumption DEF Places, Offset, SliceFrom, Place, Least, Most
<1>2. /\ LastByte(last, n) \in Int /\ SliceTo(last, n) \in Nat
      /\ SliceTo(last, n) = Most(0, Least(n, LastByte(last, n)))
  BY RangeAssumption DEF Places, LastByte, SliceTo, Place, Least, Most
<1> QED BY <1>1, <1>2 DEF Length, Least, Most

\* A range is called empty only if the slice is, for every size.
LEMMA EmptyLemma ==
  ASSUME NEW n \in Nat, NEW first \in Places, NEW last \in Places, IsEmptyRange(first, last)
  PROVE  SliceFrom(first, n) >= SliceTo(last, n)
<1>1. last \in Int /\ last >= 0 BY RangeAssumption DEF IsEmptyRange, Places
<1>2. SliceTo(last, n) = Least(n, last) BY <1>1, RangeAssumption DEF SliceTo, Place
<1>3. SliceFrom(first, n) \in Nat BY RangeAssumption DEF Places, SliceFrom, Place, Least, Most
<1>4. CASE last = 0 BY <1>2, <1>3, <1>4 DEF Least
<1>5. CASE last > 0
  <2>1. first \in Int /\ first >= last BY <1>5, RangeAssumption DEF IsEmptyRange, Places
  <2>2. SliceFrom(first, n) = Least(n, first) BY <2>1, <1>5, <1>1, RangeAssumption DEF SliceFrom, Place
  <2> QED BY <2>1, <2>2, <1>1, <1>2 DEF Least
<1> QED BY <1>1, <1>4, <1>5

LEMMA NumChunksType ==
  ASSUME NEW n \in Nat \ {0}, tasks \in Nat \ {0}
  PROVE  /\ NumChunks(n) \in Nat /\ NumChunks(n) >= 1 /\ NumChunks(n) <= tasks
         /\ NumChunks(n) > 1 => NumChunks(n) <= n \div MinChunk
<1>1. CASE tasks <= 1 \/ n < MinChunk BY <1>1 DEF NumChunks
<1>2. CASE ~(tasks <= 1 \/ n < MinChunk)
  <2>1. MinChunk \in Nat /\ MinChunk > 0 /\ n >= MinChunk BY <1>2, RangeAssumption
  <2>2. n \div MinChunk \in Nat /\ n \div MinChunk >= 1 BY <2>1
  <2> QED BY <1>2, <2>2 DEF NumChunks, Least
<1> QED BY <1>1, <1>2

\* The chunks of n bytes are adjacent, cover them and are large enough.
LEMMA ChunksLemma ==
  ASSUME NEW n \in Nat \ {0}, tasks \in Nat \ {0}, NEW c, c = NumChunks(n)
  PROVE  /\ ChunkFrom(0, n) = 0 /\ ChunkFrom(c - 1, n) + ChunkLength(c - 1, n) = n
         /\ \A i \in 0..c - 2 : ChunkFrom(i, n) + ChunkLength(i, n) = ChunkFrom(i + 1, n)
         /\ c > 1 => \A i \in 0..c - 1 : ChunkLength(i, n) >= MinChunk
<1>1. c \in Nat /\ c >= 1 /\ (c > 1 => c <= n \div MinChunk) BY NumChunksType
<1> DEFINE q == n \div c
           r == n % c
<1>2. q \in Nat /\ r \in Nat /\ n = c * q + r BY <1>1
<1>3. ChunkFrom(0, n) = 0 BY <1>2 DEF ChunkFrom
<1>4. ChunkFrom(c - 1, n) = (c - 1) * q /\ ChunkLength(c - 1, n) = q + r BY <1>1 DEF ChunkFrom, ChunkLength
<1>5. (c - 1) * q + q = c * q BY <1>1, <1>2
<1>6. ChunkFrom(c - 1, n) + ChunkLength(c - 1, n) = n
  <2>1. (c - 1) * q \in Int BY <1>1, <1>2
  <2> HIDE DEF q, r
  <2> QED BY <2>1, <1>2, <1>4, <1>5
<1>7. ASSUME NEW i \in 0..c - 2 PROVE ChunkFrom(i, n) + ChunkLength(i, n) = ChunkFrom(i + 1, n)
  <2>1. ChunkFrom(i, n) = i * q /\ ChunkFrom(i + 1, n) = (i + 1) * q BY DEF ChunkFrom
  <2>2. ChunkLength(i, n) = q + 0 BY <1>1 DEF ChunkLength
  <2> HIDE DEF q, r
  <2>3. i \in Int /\ (i + 1) * q = i * q + q BY <1>1, <1>2
  <2> QED BY <2>1, <2>2, <2>3, <1>2
<1>8. ASSUME c > 1, NEW i \in 0..c - 1 PROVE ChunkLength(i, n) >= MinChunk
  <2>1. MinChunk \in Nat /\ MinChunk >= 1 BY RangeAssumption
  <2>2. n \div MinChunk \in Nat /\ (n \div MinChunk) * MinChunk <= n BY <2>1
  <2>3. c * MinChunk <= n
    <3>1. c <= n \div MinChunk BY <1>1, <1>8
    <3> DEFINE d == n \div MinChunk
    <3> HIDE DEF d
    <3>2. d \in Nat /\ c <= d /\ d * MinChunk <= n BY <2>2, <3>1 DEF d
    <3>3. c * MinChunk <= d * MinChunk BY <3>2, <2>1, <1>1
    <3> QED BY <3>2, <3>3, <2>1, <1>1
  <2>4. q >= MinChunk
    <3>1. r < c BY <1>1
    <3> HIDE DEF q, r
    <3>2. SUFFICES ASSUME q + 1 <= MinChunk PROVE FALSE BY <1>2, <2>1
    <3>3. c * (q + 1) <= c * MinChunk BY <3>2, <1>1, <1>2, <2>1
    <3>4. c * (q + 1) = c * q + c BY <1>1, <1>2
    <3>5. c * q \in Int /\ c * MinChunk \in Int BY <1>1, <1>2, <2>1
    <3> QED BY <3>1, <3>3, <3>4, <3>5, <2>3, <1>1, <1>2
  <2>5. ChunkLength(i, n) = q + 0 \/ ChunkLength(i, n) = q + r BY DEF ChunkLength
  <2> HIDE DEF q, r
  <2> QED BY <2>1, <2>4, <2>5, <1>2
<1> QED BY <1>3, <1>6, <1>7, <1>8

-----------------------------------------------------------------------------
\* _cat_file_concurrent() takes its limits as they are.
ConcurrentFrom == IF start = NoLimit THEN 0 ELSE start
ConcurrentLength == Most(0, (IF end = NoLimit THEN size ELSE end) - ConcurrentFrom)

\* The ranges of the variables; a read that goes on knows its bytes, those of the
\* slice over gRPC, and data needs every part.
PartsInductive ==
  /\ size \in 0..MaxSize /\ start \in Limits /\ end \in Limits /\ tasks \in 1..MaxTasks
  /\ path \in {"grpc", "http"} /\ progress \in {"asked", "reading", "done"}
  /\ offset \in Int /\ length \in Nat /\ answered \subseteq 0..MaxTasks - 1
  /\ path = "http" /\ ~FromEnd => ~Negative(start) /\ ~Negative(end)
  /\ outcome \in {"none", "empty", "data", "error"}
  /\ progress = "asked" => outcome = "none" /\ length = 0
  /\ outcome = "data" => answered = Chunks /\ length > 0
  /\ path = "grpc" /\ progress # "asked" => offset = Offset(start, size) /\ length = Length(start, end, size)
  /\ path = "http" /\ progress # "asked" => offset = ConcurrentFrom /\ length = ConcurrentLength

\* The limits of a read are among the places of the lemmas above.
LEMMA LimitsArePlaces ==
  Limits \subseteq Places
BY RangeAssumption DEF Limits, Places

LEMMA InitPartsInductive == RangeInit => PartsInductive
<1> SUFFICES ASSUME RangeInit PROVE PartsInductive OBVIOUS
<1>1. offset \in Int /\ length \in Nat /\ answered \subseteq 0..MaxTasks - 1 BY DEF RangeInit
<1> QED BY <1>1 DEF RangeInit, PartsInductive

LEMMA StepPartsInductive == PartsInductive /\ [RangeNext]_rangeVars => PartsInductive'
<1> SUFFICES ASSUME PartsInductive, [RangeNext]_rangeVars PROVE PartsInductive' OBVIOUS
<1>1. size \in Nat /\ start \in Places /\ end \in Places
  BY LimitsArePlaces, RangeAssumption DEF PartsInductive
<1>0. UNCHANGED rangeInputs => ConcurrentFrom' = ConcurrentFrom /\ ConcurrentLength' = ConcurrentLength
  BY DEF rangeInputs, ConcurrentFrom, ConcurrentLength
<1>2. CASE Grpc
  <2>1. offset' = Offset(start, size) /\ length' = Length(start, end, size) /\ UNCHANGED <<rangeInputs, answered>>
    BY <1>2 DEF Grpc
  <2>2. offset' \in Int /\ length' \in Nat BY <2>1, <1>1, LimitsLemma
  <2>3. outcome = "none" /\ progress = "asked" BY <1>2 DEF Grpc, PartsInductive
  <2>4. outcome' \in {"none", "empty"} /\ progress' \in {"reading", "done"} BY <1>2, <2>3 DEF Grpc
  <2> QED BY <1>2, <2>1, <2>2, <2>4 DEF PartsInductive, Grpc, Negative, rangeInputs
<1>3. CASE Concurrent
  <2>1. path = "http" /\ UNCHANGED <<rangeInputs, answered>> BY <1>3 DEF Concurrent
  <2>2. offset' \in Int /\ length' \in Nat
    BY <1>1, <1>3, RangeAssumption DEF Concurrent, Places, Most
  <2>3. outcome = "none" /\ progress = "asked" BY <1>3 DEF Concurrent, PartsInductive
  <2>4. outcome' \in {"none", "empty"} /\ progress' \in {"reading", "done"} BY <1>3, <2>3 DEF Concurrent
  <2>5. offset' = ConcurrentFrom' /\ length' = ConcurrentLength' 
    BY <1>0, <1>3, <2>1 DEF Concurrent, ConcurrentFrom, ConcurrentLength
  <2> QED BY <2>1, <2>2, <2>4, <2>5 DEF PartsInductive, Negative, rangeInputs
<1>4. ASSUME NEW i \in 0..MaxTasks - 1, Arrives(i) PROVE PartsInductive'
  <2>1. i \in Chunks /\ progress = "reading" /\ answered' = answered \cup {i} /\ UNCHANGED <<rangeInputs, offset, length>>
    BY <1>4 DEF Arrives
  <2>2. length > 0 BY <2>1 DEF Chunks, PartsInductive
  <2>3. Chunks' = Chunks BY <2>1 DEF Chunks, NumChunks, rangeInputs
  <2>4. CASE answered' = Chunks
    <3>1. progress' = "done" /\ outcome' = "data" BY <1>4, <2>1, <2>4 DEF Arrives
    <3>2. outcome' = "data" => answered' = Chunks' /\ length' > 0 BY <2>1, <2>2, <2>3, <2>4
    <3> QED BY <1>0, <2>1, <3>1, <3>2 DEF PartsInductive, Negative, rangeInputs
  <2>5. CASE answered' # Chunks
    <3>1. progress' = progress /\ outcome' = outcome BY <1>4, <2>1, <2>5 DEF Arrives
    <3>2. outcome = "data" => answered' = Chunks BY <2>1 DEF PartsInductive
    <3> QED BY <1>0, <2>1, <2>2, <2>5, <3>1, <3>2 DEF PartsInductive, Negative, rangeInputs
  <2> QED BY <2>4, <2>5
<1>5. CASE Fails
  <2>1. progress' = "done" /\ outcome' = "error" /\ UNCHANGED <<rangeInputs, offset, length, answered>> /\ progress = "reading"
    BY <1>5 DEF Fails
  <2> QED BY <1>0, <2>1 DEF PartsInductive, Negative, rangeInputs
<1>6. CASE UNCHANGED rangeVars
  <2>1. Chunks' = Chunks BY <1>6 DEF rangeVars, rangeInputs, Chunks, NumChunks
  <2> QED BY <1>0, <1>6, <2>1 DEF rangeVars, rangeInputs, PartsInductive, Negative
<1> QED BY <1>2, <1>3, <1>4, <1>5, <1>6 DEF RangeNext

LEMMA ReadInvariant == RangeSpec => []PartsInductive
BY InitPartsInductive, StepPartsInductive, PTL DEF RangeSpec

\* A gRPC read of _process_limits_to_offset_and_length() reads the bytes of the
\* Python slice, whatever the limits and the size of the object.
THEOREM LimitsRight == RangeSpec => []LimitsAreSlice
<1>1. PartsInductive => LimitsAreSlice
  <2> SUFFICES ASSUME PartsInductive, path = "grpc", progress # "asked" PROVE LimitsAreSlice BY DEF LimitsAreSlice
  <2>1. size \in Nat /\ start \in Places /\ end \in Places
    BY LimitsArePlaces, RangeAssumption DEF PartsInductive
  <2>2. offset = Offset(start, size) /\ length = Length(start, end, size) BY DEF PartsInductive
  <2> QED BY <2>1, <2>2, LimitsLemma DEF LimitsAreSlice
<1> QED BY <1>1, ReadInvariant, PTL

\* is_empty_range() spares a request only where there is nothing to read.
THEOREM EmptyRight == RangeSpec => []EmptyIsEmpty
<1>1. PartsInductive => EmptyIsEmpty
  <2> SUFFICES ASSUME PartsInductive PROVE EmptyIsEmpty OBVIOUS
  <2>1. size \in Nat /\ start \in Places /\ end \in Places
    BY LimitsArePlaces, RangeAssumption DEF PartsInductive
  <2>2. IsEmptyRange(start, end) => SliceFrom(start, size) >= SliceTo(end, size) BY <2>1, EmptyLemma
  <2>3. ASSUME progress = "done", path = "grpc", outcome = "data" PROVE ~IsEmptyOf(start, end, size)
    <3>1. length > 0 /\ length = Length(start, end, size) BY <2>3 DEF PartsInductive
    <3>2. Offset(start, size) = SliceFrom(start, size) /\ Offset(start, size) + length = SliceTo(end, size)
      BY <2>1, <3>1, LimitsLemma
    <3>3. length \in Nat /\ Offset(start, size) \in Nat BY <2>1, <3>1, LimitsLemma
    <3> QED BY <3>1, <3>2, <3>3 DEF IsEmptyOf
  <2> QED BY <2>2, <2>3 DEF EmptyIsEmpty
<1> QED BY <1>1, ReadInvariant, PTL

\* split_range() cuts every read into adjacent chunks that cover it, and no read
\* returns before the last of them has arrived.
THEOREM PartsMakeWhole == RangeSpec => []PartsWhole
<1>1. PartsInductive => ChunksCover
  <2> SUFFICES ASSUME PartsInductive, length > 0 PROVE ChunksCover BY DEF ChunksCover
  <2>1. length \in Nat \ {0} /\ tasks \in Nat \ {0} BY RangeAssumption DEF PartsInductive
  <2> QED BY <2>1, ChunksLemma, NumChunksType DEF ChunksCover
<1>2. PartsInductive => DataIsComplete BY DEF PartsInductive, DataIsComplete
<1>3. PartsInductive => PartsWhole BY <1>1, <1>2 DEF PartsWhole
<1> QED BY <1>3, ReadInvariant, PTL

\* A concurrent HTTP read begins and ends where the slice does, for limits that
\* are not below 0.
LEMMA ConcurrentLemma ==
  ASSUME PartsInductive, ~FromEnd PROVE ConcurrentIsSlice
<1> SUFFICES ASSUME path = "http", progress # "asked" PROVE ConcurrentIsSlice BY DEF ConcurrentIsSlice
<1>1. size \in Nat /\ start \in Nat \cup {NoLimit} /\ end \in Nat \cup {NoLimit}
  BY LimitsArePlaces, RangeAssumption DEF PartsInductive, Negative, Places
<1>2. offset = ConcurrentFrom /\ length = ConcurrentLength BY DEF PartsInductive
<1>3. offset \in Nat BY <1>1, <1>2 DEF ConcurrentFrom
<1>4. length \in Nat /\ offset # NoLimit /\ offset + length # NoLimit
  BY <1>3, RangeAssumption DEF PartsInductive
<1>5. Place(offset, size, 0) = SliceFrom(start, size)
  BY <1>1, <1>2, <1>3, <1>4 DEF ConcurrentFrom, Place, SliceFrom, Least
<1>6. CASE length > 0
  <2>1. offset + length = IF end = NoLimit THEN size ELSE end
    BY <1>1, <1>2, <1>3, <1>6 DEF ConcurrentLength, ConcurrentFrom, Most
  <2>2. Place(offset + length, size, size) = SliceTo(end, size)
    BY <1>1, <1>3, <1>4, <2>1, RangeAssumption DEF Place, SliceTo, Least
  <2> QED BY <1>5, <1>6, <2>2 DEF ConcurrentIsSlice
<1>7. CASE length = 0
  <2>1. (IF end = NoLimit THEN size ELSE end) <= offset
    BY <1>1, <1>2, <1>3, <1>7 DEF ConcurrentLength, ConcurrentFrom, Most
  <2>2. SliceTo(end, size) = Least(size, IF end = NoLimit THEN size ELSE end)
    BY <1>1, RangeAssumption DEF SliceTo, Place, Least
  <2>3. SliceFrom(start, size) = Least(size, offset)
    BY <1>1, <1>2, RangeAssumption DEF SliceFrom, Place, Least, ConcurrentFrom
  <2> QED BY <1>1, <1>3, <1>7, <2>1, <2>2, <2>3 DEF ConcurrentIsSlice, Least
<1> QED BY <1>4, <1>6, <1>7

\* From the limits of a caller to the bytes put together: reads over gRPC with
\* limits of any sign, and over HTTP with limits from the beginning, return the
\* bytes of the slice when every part has arrived.
THEOREM ReadsAreRight == ~FromEnd => (RangeSpec => []ReadsRight)
<1> SUFFICES ASSUME ~FromEnd PROVE RangeSpec => []ReadsRight OBVIOUS
<1>1. PartsInductive => RangeTypeOK BY DEF PartsInductive, RangeTypeOK
<1>2. PartsInductive => ConcurrentIsSlice BY ConcurrentLemma
<1> QED BY <1>1, <1>2, ReadInvariant, LimitsRight, EmptyRight, PartsMakeWhole, PTL DEF ReadsRight, ReadIsSlice

-----------------------------------------------------------------------------
(* ReadAheadChunked: the pieces of a read, and the abstract cache.         *)

\* The largest element of the sets of indices that a fold over two chunks meets.
LEMMA MaxOfTwo == Max({1}) = 1 /\ Max({2}) = 2 /\ Max({1, 2}) = 2
BY DEF Max

\* The loop over the chunks, of which there are two at most.
LEMMA ServeAll ==
  ASSUME NEW q, NEW n \in 0..2, DOMAIN q = 1..n, NEW low, NEW limit, NEW base
  PROVE  FoldLeft(LAMBDA so, c : Serve(low, limit, so, c), base, q) =
           IF n = 0 THEN base
           ELSE IF n = 1 THEN Serve(low, limit, base, q[1])
           ELSE Serve(low, limit, Serve(low, limit, base, q[1]), q[2])
<1> DEFINE turn(so, c) == Serve(low, limit, so, c)
           D == DOMAIN q
           Adds(i) == i = [s \in SUBSET D |-> IF s = {} THEN base ELSE turn(i[s \ {Max(s)}], q[Max(s)])]
           f == CHOOSE i : Adds(i)
           h == [s \in SUBSET D |-> IF s = {} THEN base ELSE IF s = {1} THEN turn(base, q[1])
                                    ELSE IF s = {2} THEN turn(base, q[2]) ELSE turn(turn(base, q[1]), q[2])]
           all == FoldLeft(LAMBDA so, c : Serve(low, limit, so, c), base, q)
<1> SUFFICES all = IF n = 0 THEN base
                   ELSE IF n = 1 THEN Serve(low, limit, base, q[1])
                   ELSE Serve(low, limit, Serve(low, limit, base, q[1]), q[2])
  OBVIOUS
<1>1. all = f[D]
  BY DEF FoldLeft, MapThenFoldSet
<1> HIDE DEF all
<1> HIDE DEF turn
<1>2. \A s \in SUBSET D : s = {} \/ s = {1} \/ s = {2} \/ s = {1, 2}
  <2>1. \A s \in SUBSET D : \A i \in s : i = 1 \/ i = 2
    OBVIOUS
  <2> QED
    BY <2>1
<1>3. Adds(h)
  <2> SUFFICES ASSUME NEW s \in SUBSET D
               PROVE  h[s] = IF s = {} THEN base ELSE turn(h[s \ {Max(s)}], q[Max(s)])
    OBVIOUS
  <2>1. CASE s = {}
    BY <2>1
  <2>2. CASE s = {1}
    <3>1. s \ {Max(s)} = {}
      BY <2>2, MaxOfTwo
    <3> QED
      BY <2>2, <3>1, MaxOfTwo
  <2>3. CASE s = {2}
    <3>1. s \ {Max(s)} = {}
      BY <2>3, MaxOfTwo
    <3> QED
      BY <2>3, <3>1, MaxOfTwo
  <2>4. CASE s = {1, 2}
    <3>1. s \ {Max(s)} = {1} /\ {1} \in SUBSET D
      BY <2>4, MaxOfTwo
    <3> QED
      BY <2>4, <3>1, MaxOfTwo
  <2> QED
    BY <1>2, <2>1, <2>2, <2>3, <2>4
<1> HIDE DEF h
<1>4. Adds(f)
  <2> HIDE DEF Adds
  <2> QED
    BY <1>3
<1>5. f[{}] = base
  BY <1>4
<1>a. \A s \in SUBSET D : s # {} => f[s] = turn(f[s \ {Max(s)}], q[Max(s)])
  BY <1>4
<1> HIDE DEF f
<1>6. CASE n = 0
  <2>1. D = {}
    BY <1>6
  <2> QED
    BY <2>1, <1>6, <1>1, <1>5
<1>7. CASE n = 1
  <2>1. D = {1} /\ {1} \ {1} = {}
    BY <1>7
  <2>2. f[{1}] = turn(f[{}], q[1])
    BY <2>1, <1>a, MaxOfTwo
  <2> QED
    BY <2>1, <2>2, <1>7, <1>1, <1>5 DEF turn
<1>8. CASE n = 2
  <2>1. D = {1, 2} /\ {1} \ {1} = {} /\ {1, 2} \ {2} = {1}
    BY <1>8
  <2>2. f[{1}] = turn(f[{}], q[1])
    BY <2>1, <1>a, MaxOfTwo
  <2>3. f[{1, 2}] = turn(f[{1}], q[2])
    <3>1. {1, 2} \in SUBSET D /\ {1, 2} # {}
      BY <2>1
    <3> QED
      BY <3>1, <2>1, <1>a, MaxOfTwo
  <2> QED
    BY <2>1, <2>2, <2>3, <1>8, <1>1, <1>5 DEF turn
<1> QED
  BY <1>6, <1>7, <1>8

\* The limit of a request of two lengths at most.
LEMMA EndOfAll ==
  ASSUME NEW q, NEW n \in 0..2, DOMAIN q = 1..n, NEW base
  PROVE  EndOf(base, q) =
           IF n = 0 THEN base
           ELSE IF n = 1 THEN base + q[1]
           ELSE base + q[1] + q[2]
<1> DEFINE turn(m, l) == m + l
           D == DOMAIN q
           Adds(i) == i = [s \in SUBSET D |-> IF s = {} THEN base ELSE turn(i[s \ {Max(s)}], q[Max(s)])]
           f == CHOOSE i : Adds(i)
           h == [s \in SUBSET D |-> IF s = {} THEN base ELSE IF s = {1} THEN turn(base, q[1])
                                    ELSE IF s = {2} THEN turn(base, q[2]) ELSE turn(turn(base, q[1]), q[2])]
           all == FoldLeft(LAMBDA m, l : m + l, base, q)
<1> SUFFICES all = IF n = 0 THEN base
                   ELSE IF n = 1 THEN base + q[1]
                   ELSE base + q[1] + q[2]
  BY DEF EndOf
<1>1. all = f[D]
  BY DEF FoldLeft, MapThenFoldSet
<1> HIDE DEF all
<1> HIDE DEF turn
<1>2. \A s \in SUBSET D : s = {} \/ s = {1} \/ s = {2} \/ s = {1, 2}
  <2>1. \A s \in SUBSET D : \A i \in s : i = 1 \/ i = 2
    OBVIOUS
  <2> QED
    BY <2>1
<1>3. Adds(h)
  <2> SUFFICES ASSUME NEW s \in SUBSET D
               PROVE  h[s] = IF s = {} THEN base ELSE turn(h[s \ {Max(s)}], q[Max(s)])
    OBVIOUS
  <2>1. CASE s = {}
    BY <2>1
  <2>2. CASE s = {1}
    <3>1. s \ {Max(s)} = {}
      BY <2>2, MaxOfTwo
    <3> QED
      BY <2>2, <3>1, MaxOfTwo
  <2>3. CASE s = {2}
    <3>1. s \ {Max(s)} = {}
      BY <2>3, MaxOfTwo
    <3> QED
      BY <2>3, <3>1, MaxOfTwo
  <2>4. CASE s = {1, 2}
    <3>1. s \ {Max(s)} = {1} /\ {1} \in SUBSET D
      BY <2>4, MaxOfTwo
    <3> QED
      BY <2>4, <3>1, MaxOfTwo
  <2> QED
    BY <1>2, <2>1, <2>2, <2>3, <2>4
<1> HIDE DEF h
<1>4. Adds(f)
  <2> HIDE DEF Adds
  <2> QED
    BY <1>3
<1>5. f[{}] = base
  BY <1>4
<1>a. \A s \in SUBSET D : s # {} => f[s] = turn(f[s \ {Max(s)}], q[Max(s)])
  BY <1>4
<1> HIDE DEF f
<1>6. CASE n = 0
  <2>1. D = {}
    BY <1>6
  <2> QED
    BY <2>1, <1>6, <1>1, <1>5
<1>7. CASE n = 1
  <2>1. D = {1} /\ {1} \ {1} = {}
    BY <1>7
  <2>2. f[{1}] = turn(f[{}], q[1])
    BY <2>1, <1>a, MaxOfTwo
  <2> QED
    BY <2>1, <2>2, <1>7, <1>1, <1>5 DEF turn
<1>8. CASE n = 2
  <2>1. D = {1, 2} /\ {1} \ {1} = {} /\ {1, 2} \ {2} = {1}
    BY <1>8
  <2>2. f[{1}] = turn(f[{}], q[1])
    BY <2>1, <1>a, MaxOfTwo
  <2>3. f[{1, 2}] = turn(f[{1}], q[2])
    <3>1. {1, 2} \in SUBSET D /\ {1, 2} # {}
      BY <2>1
    <3> QED
      BY <3>1, <2>1, <1>a, MaxOfTwo
  <2> QED
    BY <2>1, <2>2, <2>3, <1>8, <1>1, <1>5 DEF turn
<1> QED
  BY <1>6, <1>7, <1>8

\* A queue of two chunks at most, without gaps.
ChunkShape == chunks \in Seq(Pieces) /\ Len(chunks) <= 2 /\ WindowWhole

\* What the cache has of a read: its first bytes, as far as the window goes.
LEMMA ServedRight ==
  ASSUME ChunkShape, NEW low \in 0..Size, NEW limit \in 0..Size, low < limit
  PROVE  LET found == Served(low, limit) IN
         /\ found.pos = IF chunks # <<>> /\ Head(chunks)[1] <= low /\ low < Last(chunks)[2]
                     THEN Least(Last(chunks)[2], limit) ELSE low
         /\ found.parts \in Seq(Pieces) /\ Adjacent(found.parts)
         /\ found.parts = <<>> => found.pos = low
         /\ found.parts # <<>> => Head(found.parts)[1] = low /\ Last(found.parts)[2] = found.pos
         /\ found.parts # <<>> => Kept(low) = chunks /\ low < found.pos
<1> DEFINE base == [pos |-> low, parts |-> <<>>]
           found == Served(low, limit)
<1>0. /\ <<>> \in Seq(Pieces) /\ Len(<<>>) = 0 /\ Adjacent(<<>>)
      /\ chunks = <<>> <=> Len(chunks) = 0
  BY DEF Adjacent, ChunkShape
<1>a. Len(chunks) \in 0..2 /\ DOMAIN chunks = 1..Len(chunks)
  <2>1. Len(chunks) \in Nat /\ DOMAIN chunks = 1..Len(chunks)
    BY DEF ChunkShape
  <2>2. Len(chunks) <= 2
    BY DEF ChunkShape
  <2> QED
    BY <2>1, <2>2
<1>1. CASE chunks = <<>> \/ Head(chunks)[1] > low
  <2>1. Kept(low) = <<>>
    BY <1>1 DEF Kept
  <2>2. Served(low, limit) = base
    <3> DEFINE none == <<>>
               all == FoldLeft(LAMBDA so, c : Serve(low, limit, so, c), base, none)
    <3>1. DOMAIN none = 1..0
      OBVIOUS
    <3>2. Served(low, limit) = all
      BY <2>1 DEF Served
    <3>3. all = base
      <4> DEFINE n == 0
      <4>0. n \in 0..2 /\ DOMAIN none = 1..n
        BY <3>1
      <4>2. n = 0
        OBVIOUS
      <4> HIDE DEF none, base, n
      <4>1. all = IF n = 0 THEN base
                  ELSE IF n = 1 THEN Serve(low, limit, base, none[1])
                  ELSE Serve(low, limit, Serve(low, limit, base, none[1]), none[2])
        BY <4>0, ServeAll
      <4> HIDE DEF all
      <4> QED
        BY <4>1, <4>2
    <3> HIDE DEF all
    <3> QED
      BY <3>2, <3>3
  <2>3. chunks # <<>> => Head(chunks)[1] \in Int
    BY DEF ChunkShape, Pieces
  <2> QED
    BY <1>0, <1>1, <2>2, <2>3
<1>2. CASE chunks # <<>> /\ ~(Head(chunks)[1] > low)
  <2>1. Kept(low) = chunks
    BY <1>2 DEF Kept
  <2>2. Served(low, limit) = IF Len(chunks) = 1 THEN Serve(low, limit, base, chunks[1])
                             ELSE Serve(low, limit, Serve(low, limit, base, chunks[1]), chunks[2])
    <3>1. Len(chunks) \in 0..2 /\ DOMAIN chunks = 1..Len(chunks) /\ Len(chunks) # 0
      BY <1>2, <1>0, <1>a
    <3>2. Served(low, limit) = FoldLeft(LAMBDA so, c : Serve(low, limit, so, c), base, chunks)
      BY <2>1 DEF Served
    <3> DEFINE all == FoldLeft(LAMBDA so, c : Serve(low, limit, so, c), base, chunks)
    <3>3. all = IF Len(chunks) = 0 THEN base
                ELSE IF Len(chunks) = 1 THEN Serve(low, limit, base, chunks[1])
                ELSE Serve(low, limit, Serve(low, limit, base, chunks[1]), chunks[2])
      <4> HIDE DEF base
      <4> QED
        BY <3>1, ServeAll
    <3>4. Served(low, limit) = all
      BY <3>2
    <3> HIDE DEF all, base
    <3> QED
      BY <3>1, <3>3, <3>4
  <2>3. PICK a \in 0..Size, b \in 0..Size : chunks[1] = <<a, b>> /\ a <= b /\ Head(chunks) = <<a, b>>
    BY <1>2 DEF ChunkShape, Pieces
  <2>4. a <= low
    BY <1>2, <2>3
  <2>5. Serve(low, limit, base, <<a, b>>) =
          IF b <= low THEN base ELSE [pos |-> Least(b, limit), parts |-> << <<low, Least(b, limit)>> >>]
    BY <2>4, ChunkedAssumption DEF Serve, Least, Most
  <2>6. ASSUME NEW p \in 0..Size, low < p, p <= limit
        PROVE  /\ << <<low, p>> >> \in Seq(Pieces) /\ Adjacent(<< <<low, p>> >>)
               /\ << <<low, p>> >> # <<>>
               /\ Head(<< <<low, p>> >>)[1] = low /\ Last(<< <<low, p>> >>)[2] = p
    BY <2>6 DEF Pieces, Adjacent, Last
  <2>7. ASSUME NEW p \in 0..Size, NEW q \in 0..Size, low < p, p < q
        PROVE  LET two == << <<low, p>>, <<p, q>> >> IN
               /\ two \in Seq(Pieces) /\ Adjacent(two) /\ two # <<>>
               /\ Head(two)[1] = low /\ Last(two)[2] = q
    BY <2>7 DEF Pieces, Adjacent, Last
  <2> DEFINE one(p) == [pos |-> p, parts |-> << <<low, p>> >>]
             two(p, q) == [pos |-> q, parts |-> << <<low, p>>, <<p, q>> >>]
  <2>8. CASE Len(chunks) = 1
    <3>1. Last(chunks) = <<a, b>>
      BY <2>8, <2>3 DEF Last
    <3>2. Least(b, limit) \in 0..Size /\ Least(b, limit) <= limit /\ (b > low => low < Least(b, limit))
      BY ChunkedAssumption DEF Least
    <3>3. Served(low, limit) = IF b <= low THEN base ELSE one(Least(b, limit))
      BY <2>2, <2>3, <2>5, <2>8
    <3>4. CASE b <= low
      BY <3>4, <3>3, <3>1, <2>3, <2>4, <1>0, ChunkedAssumption
    <3>5. CASE b > low
      <4>1. Served(low, limit) = one(Least(b, limit))
        BY <3>3, <3>5
      <4> QED
        <5>1. found.pos = Least(b, limit) /\ found.parts = << <<low, Least(b, limit)>> >>
          BY <4>1
        <5>2. low < Least(b, limit) /\ low < b
          BY <3>5, <3>2
        <5> HIDE DEF found, one
        <5>3. Last(chunks)[2] = b /\ Head(chunks)[1] <= low
          BY <3>1, <2>3, <2>4
        <5> QED
          BY <5>1, <5>2, <5>3, <3>2, <2>1, <2>6, <1>2 DEF found
    <3> QED
      BY <3>4, <3>5
  <2>9. CASE Len(chunks) = 2
    <3>1. PICK c \in 0..Size : chunks[2] = <<b, c>> /\ b <= c /\ Last(chunks) = <<b, c>>
      <4>1. chunks[2] \in Pieces /\ chunks[1][2] = chunks[2][1] /\ Last(chunks) = chunks[2]
        <5>1. chunks \in Seq(Pieces) /\ Adjacent(chunks)
          BY DEF ChunkShape, WindowWhole
        <5>2. chunks[2] \in Pieces
          <6>1. 2 \in 1..Len(chunks)
            BY <2>9
          <6> QED
            BY <5>1, <6>1
        <5>5. Last(chunks) = chunks[2]
          BY <2>9 DEF Last
        <5>3. 1 \in 1..Len(chunks) - 1
          BY <2>9
        <5>4. chunks[1][2] = chunks[1 + 1][1]
          BY <5>1, <5>3 DEF Adjacent
        <5> QED
          BY <5>2, <5>4, <5>5
      <4> QED
        BY <4>1, <2>3 DEF Pieces
    <3>2. /\ Least(b, limit) \in 0..Size /\ Least(b, limit) <= limit /\ (b > low => low < Least(b, limit))
          /\ Least(c, limit) \in 0..Size /\ Least(c, limit) <= limit /\ (c > low => low < Least(c, limit))
      BY ChunkedAssumption DEF Least
    <3>3. CASE b <= low
      <4>1. Serve(low, limit, base, <<a, b>>) = base
        BY <3>3, <2>5
      <4>2. Serve(low, limit, base, <<b, c>>) = IF c <= low THEN base ELSE one(Least(c, limit))
        BY <3>3, ChunkedAssumption DEF Serve, Least, Most
      <4>3. Served(low, limit) = IF c <= low THEN base ELSE one(Least(c, limit))
        BY <2>2, <2>3, <2>9, <3>1, <4>1, <4>2
      <4>4. CASE c <= low
        BY <4>3, <4>4, <3>1, <2>3, <2>4, <1>0, ChunkedAssumption
      <4>5. CASE c > low
        <5>1. Served(low, limit) = one(Least(c, limit))
          BY <4>3, <4>5
        <5> QED
          BY <5>1, <4>5, <3>1, <3>2, <2>1, <2>3, <2>4, <2>6, <1>2
      <4> QED
        BY <4>4, <4>5
    <3>4. CASE b > low /\ (b >= limit \/ c = b)
      <4>1. Serve(low, limit, base, <<a, b>>) = one(Least(b, limit)) /\ Least(c, limit) = Least(b, limit)
        BY <3>4, <3>1, <2>5, ChunkedAssumption DEF Least
      <4>2. Serve(low, limit, one(Least(b, limit)), <<b, c>>) = one(Least(b, limit))
        BY <3>4, <3>1, ChunkedAssumption DEF Serve, Least, Most
      <4>3. Served(low, limit) = one(Least(c, limit))
        BY <2>2, <2>3, <2>9, <3>1, <4>1, <4>2
      <4>4. c > low
        BY <3>4, <3>1, <2>3
      <4> QED
        BY <4>3, <4>4, <3>1, <3>2, <2>1, <2>3, <2>4, <2>6, <1>2
    <3>5. CASE b > low /\ b < limit /\ c > b
      <4>1. Serve(low, limit, base, <<a, b>>) = one(b)
        BY <3>5, <2>5, ChunkedAssumption DEF Least
      <4>2. Serve(low, limit, one(b), <<b, c>>) = two(b, Least(c, limit))
        BY <3>5, <3>1, ChunkedAssumption DEF Serve, Least, Most
      <4>3. Served(low, limit) = two(b, Least(c, limit)) /\ b < Least(c, limit)
        BY <2>2, <2>3, <2>9, <3>1, <3>5, <4>1, <4>2, ChunkedAssumption DEF Least
      <4> QED
        <5>1. found.pos = Least(c, limit) /\ found.parts = << <<low, b>>, <<b, Least(c, limit)>> >>
          BY <4>3
        <5>2. low < Least(c, limit) /\ low < c
          BY <3>1, <3>2, <3>5, <4>3
        <5> HIDE DEF found, one, two
        <5> QED
          <6>1. Last(chunks)[2] = c /\ Head(chunks)[1] <= low
            BY <3>1, <2>3, <2>4
          <6>2. found.pos = IF chunks # <<>> /\ Head(chunks)[1] <= low /\ low < Last(chunks)[2]
                            THEN Least(Last(chunks)[2], limit) ELSE low
            BY <5>1, <5>2, <6>1, <1>2
          <6>3. LET pair == << <<low, b>>, <<b, Least(c, limit)>> >> IN
                /\ pair \in Seq(Pieces) /\ Adjacent(pair) /\ pair # <<>>
                /\ Head(pair)[1] = low /\ Last(pair)[2] = Least(c, limit)
            BY <4>3, <3>5, <3>2, <2>7
          <6>4. /\ found.parts \in Seq(Pieces) /\ Adjacent(found.parts) /\ found.parts # <<>>
                /\ Head(found.parts)[1] = low /\ Last(found.parts)[2] = found.pos
            BY <6>3, <5>1
          <6> QED
            BY <6>2, <6>4, <5>1, <5>2, <2>1 DEF found
    <3> QED
      BY <3>1, <3>3, <3>4, <3>5, ChunkedAssumption
  <2>10. Len(chunks) = 1 \/ Len(chunks) = 2
    BY <1>2, <1>0, <1>a
  <2> QED
    BY <2>8, <2>9, <2>10
<1> QED
  BY <1>1, <1>2

\* One more piece at the limit of the pieces of a read.
LEMMA OneMorePiece ==
  ASSUME NEW p \in Seq(Pieces), Adjacent(p), NEW low \in 0..Size, NEW pos \in 0..Size, NEW q \in 0..Size,
         pos <= q, p = <<>> => pos = low, p # <<>> => Head(p)[1] = low /\ Last(p)[2] = pos
  PROVE  LET all == Append(p, <<pos, q>>) IN
         all \in Seq(Pieces) /\ Adjacent(all) /\ all # <<>> /\ Head(all)[1] = low /\ Last(all)[2] = q
<1> DEFINE all == Append(p, <<pos, q>>)
<1>1. <<pos, q>> \in Pieces
  BY DEF Pieces
<1>2. all \in Seq(Pieces) /\ Len(all) = Len(p) + 1 /\ all[Len(p) + 1] = <<pos, q>> /\ Len(p) \in Nat
  BY <1>1
<1>3. \A i \in 1..Len(p) : all[i] = p[i]
  BY <1>1
<1> HIDE DEF all
<1>4. all # <<>> /\ Last(all)[2] = q
  BY <1>2 DEF Last
<1>5. Adjacent(all)
  <2> SUFFICES ASSUME NEW i \in 1..Len(all) - 1 PROVE all[i][2] = all[i + 1][1]
    BY DEF Adjacent
  <2>1. CASE i = Len(p)
    <3>1. p # <<>> /\ i \in 1..Len(p)
      BY <2>1, <1>2
    <3>2. p[i][2] = pos
      BY <2>1, <3>1 DEF Last
    <3> QED
      BY <2>1, <3>1, <3>2, <1>2, <1>3
  <2>2. CASE i # Len(p)
    <3>1. i \in 1..Len(p) - 1 /\ i \in 1..Len(p) /\ i + 1 \in 1..Len(p)
      BY <2>2, <1>2
    <3> QED
      BY <3>1, <1>3 DEF Adjacent
  <2> QED
    BY <2>1, <2>2
<1>6. Head(all)[1] = low
  <2>1. CASE p = <<>>
    BY <2>1, <1>2, <1>4
  <2>2. CASE p # <<>>
    <3>1. 1 \in 1..Len(p) /\ Head(p) = p[1]
      BY <2>2
    <3>2. Head(all) = all[1]
      BY <1>2, <1>4
    <3> QED
      BY <2>2, <3>1, <3>2, <1>3
  <2> QED
    BY <2>1, <2>2
<1> QED
  BY <1>2, <1>4, <1>5, <1>6 DEF all

\* The chunks of one request are a window without gaps, that begins where it did.
LEMMA FetchedRight ==
  ASSUME NEW low, NEW pos \in 0..Size, NEW limit \in 0..Size, pos < limit
  PROVE  /\ \A i \in DOMAIN Lengths(pos, limit) : Lengths(pos, limit)[i] \in 1..Size
         /\ Fetched(low, pos, Lengths(pos, limit)) \in Seq(Pieces)
         /\ Len(Fetched(low, pos, Lengths(pos, limit))) <= 2
         /\ Fetched(low, pos, Lengths(pos, limit)) # <<>>
         /\ Adjacent(Fetched(low, pos, Lengths(pos, limit)))
         /\ Fetched(low, pos, Lengths(pos, limit))[1] = <<pos, limit>>
         /\ Last(Fetched(low, pos, Lengths(pos, limit)))[2] = Least(Size, limit + Block)
<1> DEFINE lengths == Lengths(pos, limit)
           all == Fetched(low, pos, lengths)
<1> SUFFICES /\ \A i \in DOMAIN lengths : lengths[i] \in 1..Size
             /\ all \in Seq(Pieces) /\ Len(all) <= 2 /\ all # <<>> /\ Adjacent(all)
             /\ all[1] = <<pos, limit>> /\ Last(all)[2] = Least(Size, limit + Block)
  OBVIOUS
<1>l. lengths = Lengths(pos, limit) /\ all = Fetched(low, pos, lengths)
  OBVIOUS
<1> HIDE DEF lengths, all
<1> DEFINE ahead == Least(Size - limit, Block)
<1>0. ahead \in Int /\ ahead <= Size - limit /\ ahead <= Block
      /\ Least(Size, limit + Block) = limit + ahead
  BY ChunkedAssumption DEF Least
<1>1. CASE ahead > 0
  <2>1. lengths = <<limit - pos, ahead>>
    BY <1>1, <1>l DEF Lengths
  <2>2. all = << <<pos, limit>>, <<limit, limit + ahead>> >>
    <3>1. DOMAIN lengths = 1..2
      BY <2>1
    <3>2. all = [i \in 1..2 |-> IF i = 1 THEN <<pos, pos + lengths[1]>>
                                 ELSE <<pos + lengths[1], pos + lengths[1] + lengths[2]>>]
      BY <3>1, <1>l DEF Fetched
    <3>3. pos + lengths[1] = limit /\ pos + lengths[1] + lengths[2] = limit + ahead
      BY <2>1, <1>0, ChunkedAssumption
    <3>4. all = [i \in 1..2 |-> IF i = 1 THEN <<pos, limit>> ELSE <<limit, limit + ahead>>]
      BY <3>2, <3>3
    <3> QED
      BY <3>4
  <2> HIDE DEF ahead
  <2>3. <<pos, limit>> \in Pieces /\ <<limit, limit + ahead>> \in Pieces
    BY <1>0, <1>1, ChunkedAssumption DEF Pieces
  <2>4. all \in Seq(Pieces) /\ Len(all) = 2 /\ all[1] = <<pos, limit>> /\ all[2] = <<limit, limit + ahead>>
    BY <2>2, <2>3
  <2>5. Adjacent(all)
    BY <2>4 DEF Adjacent
  <2>6. Last(all)[2] = limit + ahead
    BY <2>4 DEF Last
  <2>7. \A i \in DOMAIN lengths : lengths[i] \in 1..Size
    BY <2>1, <1>0, <1>1, ChunkedAssumption
  <2> QED
    BY <2>4, <2>5, <2>6, <2>7, <1>0
<1>2. CASE ~(ahead > 0)
  <2>1. lengths = <<limit - pos>>
    BY <1>2, <1>l DEF Lengths
  <2>0. ahead = 0
    BY <1>2, <1>0, ChunkedAssumption DEF Least
  <2>2. all = << <<pos, limit>> >>
    <3>1. DOMAIN lengths = 1..1
      BY <2>1
    <3>2. all = [i \in 1..1 |-> IF i = 1 THEN <<pos, pos + lengths[1]>>
                                 ELSE <<pos + lengths[1], pos + lengths[1] + lengths[2]>>]
      BY <3>1, <1>l DEF Fetched
    <3>3. pos + lengths[1] = limit
      BY <2>1, ChunkedAssumption
    <3>4. all = [i \in 1..1 |-> <<pos, limit>>]
      BY <3>2, <3>3
    <3> QED
      BY <3>4
  <2> HIDE DEF ahead
  <2>3. <<pos, limit>> \in Pieces
    BY ChunkedAssumption DEF Pieces
  <2>4. all \in Seq(Pieces) /\ Len(all) = 1 /\ all[1] = <<pos, limit>>
    BY <2>2, <2>3
  <2>5. Adjacent(all)
    BY <2>4 DEF Adjacent
  <2>6. Last(all)[2] = limit
    BY <2>4 DEF Last
  <2>7. \A i \in DOMAIN lengths : lengths[i] \in 1..Size
    BY <2>1, ChunkedAssumption
  <2>8. Least(Size, limit + Block) = limit
    BY <2>0, <1>0
  <2>9. all # <<>> /\ Len(all) <= 2
    BY <2>2
  <2> QED
    BY <2>4, <2>5, <2>6, <2>7, <2>8, <2>9
<1> QED
  BY <1>1, <1>2

\* The limits of a read are those of bytes of the file.
LEMMA ReadOfBytes ==
  ASSUME ChunkShape, NEW low \in 0..Size, NEW limit \in 0..Size, low < limit,
         ReadFrom(low, limit, Served(low, limit))
  PROVE  ChunkedTypeOK' /\ ReadIsWhole' /\ WindowWhole'
<1> DEFINE so == Served(low, limit)
<1>0. /\ so.pos = IF chunks # <<>> /\ Head(chunks)[1] <= low /\ low < Last(chunks)[2]
                     THEN Least(Last(chunks)[2], limit) ELSE low
      /\ so.parts \in Seq(Pieces) /\ Adjacent(so.parts)
      /\ so.parts = <<>> => so.pos = low
      /\ so.parts # <<>> => Head(so.parts)[1] = low /\ Last(so.parts)[2] = so.pos
      /\ so.parts # <<>> => Kept(low) = chunks /\ low < so.pos
  BY ServedRight
<1>1. so.pos \in low..limit /\ so.pos \in 0..Size
  <2> HIDE DEF so
  <2>1. chunks # <<>> => Last(chunks)[2] \in 0..Size
    BY DEF ChunkShape, Pieces, Last
  <2> QED
    BY <2>1, <1>0, ChunkedAssumption DEF Least
<1>2. /\ Kept(low) \in Seq(Pieces) /\ Len(Kept(low)) <= 2 /\ Adjacent(Kept(low))
  BY DEF Kept, ChunkShape, WindowWhole, Adjacent
<1>w. ASSUME NEW q \in Seq(Pieces)
      PROVE  \A i \in DOMAIN q : q[i][1] <= q[i][2]
  BY DEF Pieces
<1>e. <<>> \in Seq(Pieces) /\ Len(<<>>) = 0 /\ Adjacent(<<>>) /\ DOMAIN <<>> = {} /\ <<0, 0>> \in Pieces
  BY ChunkedAssumption DEF Adjacent, Pieces
<1> HIDE DEF so
<1>3. CASE /\ so.pos >= limit
           /\ chunks' = Kept(low) /\ parts' = so.parts /\ sent' = [from |-> 0, lengths |-> <<>>]
           /\ asked' = <<low, limit>>
  <2>1. so.pos = limit /\ so.parts # <<>>
    BY <1>3, <1>0, <1>1
  <2>2. ChunkedTypeOK'
    <3>1. <<low, limit>> \in Pieces
      BY DEF Pieces
    <3> QED
      BY <3>1, <1>3, <1>0, <1>2, <1>e, ChunkedAssumption DEF ChunkedTypeOK
  <2>3. ReadIsWhole'
    BY <2>1, <1>3, <1>0 DEF ReadIsWhole
  <2>4. WindowWhole'
    BY <1>3, <1>2, <1>w DEF WindowWhole
  <2> QED
    BY <2>2, <2>3, <2>4
<1>4. CASE /\ so.pos < limit
           /\ sent' = [from |-> so.pos, lengths |-> Lengths(so.pos, limit)]
           /\ chunks' = Fetched(low, so.pos, sent'.lengths)
           /\ parts' = Append(so.parts, Head(chunks')) /\ asked' = <<low, limit>>
  <2>1. chunks' = Fetched(low, so.pos, Lengths(so.pos, limit)) /\ sent'.from = so.pos
        /\ sent'.lengths = Lengths(so.pos, limit)
    BY <1>4
  <2>2. /\ \A i \in DOMAIN sent'.lengths : sent'.lengths[i] \in 1..Size
        /\ chunks' \in Seq(Pieces) /\ Len(chunks') <= 2 /\ chunks' # <<>> /\ Adjacent(chunks')
        /\ chunks'[1] = <<so.pos, limit>>
    <3>1. so.pos < limit
      BY <1>4
    <3>2. so.pos \in 0..Size
      BY <1>1
    <3> DEFINE lengths == Lengths(so.pos, limit)
               all == Fetched(low, so.pos, lengths)
    <3>3. /\ \A i \in DOMAIN lengths : lengths[i] \in 1..Size
          /\ all \in Seq(Pieces) /\ Len(all) <= 2 /\ all # <<>> /\ Adjacent(all)
          /\ all[1] = <<so.pos, limit>>
      <4>1. \A i \in DOMAIN lengths : lengths[i] \in 1..Size
        BY <3>1, <3>2, FetchedRight, ZenonT(40)
      <4>2. all \in Seq(Pieces)
        BY <3>1, <3>2, FetchedRight, ZenonT(40)
      <4>3. Len(all) <= 2
        BY <3>1, <3>2, FetchedRight, ZenonT(40)
      <4>4. all # <<>>
        BY <3>1, <3>2, FetchedRight, ZenonT(40)
      <4>5. Adjacent(all)
        BY <3>1, <3>2, FetchedRight, ZenonT(40)
      <4>6. all[1] = <<so.pos, limit>>
        BY <3>1, <3>2, FetchedRight, ZenonT(40)
      <4> QED
        BY <4>1, <4>2, <4>3, <4>4, <4>5, <4>6
    <3> QED
      BY <2>1, <3>3
  <2>3. parts' = Append(so.parts, <<so.pos, limit>>)
    BY <1>4, <2>2
  <2>4. /\ parts' \in Seq(Pieces) /\ Adjacent(parts') /\ parts' # <<>>
        /\ Head(parts')[1] = low /\ Last(parts')[2] = limit
    BY <2>3, <1>0, <1>1, <1>4, OneMorePiece
  <2>5. ChunkedTypeOK'
    <3>1. <<low, limit>> \in Pieces
      BY DEF Pieces
    <3> QED
      BY <3>1, <2>1, <2>2, <2>4, <1>4, <1>1 DEF ChunkedTypeOK
  <2>6. ReadIsWhole'
    BY <2>4, <1>4 DEF ReadIsWhole
  <2>7. WindowWhole'
    BY <2>2, <1>w DEF WindowWhole
  <2> QED
    BY <2>5, <2>6, <2>7
<1>5. CASE /\ so.pos < limit
           /\ chunks' = <<>> /\ parts' = <<>> /\ asked' = <<0, 0>> /\ sent' = [from |-> 0, lengths |-> <<>>]
  <2>1. ChunkedTypeOK'
    BY <1>5, <1>e, ChunkedAssumption DEF ChunkedTypeOK
  <2>2. ReadIsWhole' /\ WindowWhole'
    BY <1>5, <1>e DEF ReadIsWhole, WindowWhole
  <2> QED
    BY <2>1, <2>2
<1>6. CASE /\ so.pos < limit /\ sent' = [from |-> 0, lengths |-> <<>>]
           /\ chunks' = <<<<so.pos, so.pos>>>>
           /\ parts' = Append(so.parts, <<so.pos, so.pos>>) /\ asked' = <<low, so.pos>>
  <2>1. /\ parts' \in Seq(Pieces) /\ Adjacent(parts') /\ parts' # <<>>
        /\ Head(parts')[1] = low /\ Last(parts')[2] = so.pos
    <3>1. so.pos <= so.pos
      BY <1>1
    <3> QED
      <4>1. so.pos \in 0..Size /\ parts' = Append(so.parts, <<so.pos, so.pos>>)
        BY <1>1, <1>6
      <4> QED
        BY <3>1, <1>0, <4>1, OneMorePiece
  <2>2. <<so.pos, so.pos>> \in Pieces /\ <<low, so.pos>> \in Pieces
    BY <1>1 DEF Pieces
  <2>3. chunks' \in Seq(Pieces) /\ Len(chunks') = 1 /\ Adjacent(chunks')
    BY <1>6, <2>2 DEF Adjacent
  <2>4. ChunkedTypeOK'
    BY <1>6, <2>1, <2>2, <2>3, <1>e, ChunkedAssumption DEF ChunkedTypeOK
  <2>5. ReadIsWhole'
    <3>1. CASE low = so.pos
      <4>1. so.parts = <<>>
        BY <3>1, <1>0, <1>1
      <4>2. parts' = <<<<so.pos, so.pos>>>>
        BY <4>1, <1>6
      <4>3. \A i \in DOMAIN parts' : parts'[i] = <<so.pos, so.pos>>
        BY <4>2
      <4> QED
        BY <4>3, <1>6, <3>1 DEF ReadIsWhole
    <3>2. CASE low # so.pos
      BY <3>2, <2>1, <1>6 DEF ReadIsWhole
    <3> QED
      BY <3>1, <3>2
  <2>6. WindowWhole'
    BY <2>3, <1>w DEF WindowWhole
  <2> QED
    BY <2>4, <2>5, <2>6
<1> QED
  BY <1>3, <1>4, <1>5, <1>6 DEF ReadFrom, so

\* A read joins the bytes it was asked for, out of a window without gaps
\* (_fetch): in order, none missing and none twice, wherever its limits fall.
THEOREM ReadsJoinExactly == ChunkedSpec => []JoinsExactly
<1>1. ChunkedInit => JoinsExactly
  <2> SUFFICES ASSUME ChunkedInit PROVE JoinsExactly
    OBVIOUS
  <2>1. <<>> \in Seq(Pieces) /\ Len(<<>>) = 0 /\ Adjacent(<<>>) /\ DOMAIN <<>> = {} /\ <<0, 0>> \in Pieces
    BY ChunkedAssumption DEF Adjacent, Pieces
  <2> QED
    BY <2>1, ChunkedAssumption DEF ChunkedInit, JoinsExactly, ChunkedTypeOK, ReadIsWhole, WindowWhole
<1>2. JoinsExactly /\ [ChunkedNext]_chunkedVars => JoinsExactly'
  <2> SUFFICES ASSUME JoinsExactly, [ChunkedNext]_chunkedVars PROVE JoinsExactly'
    OBVIOUS
  <2>1. CASE UNCHANGED chunkedVars
    BY <2>1 DEF chunkedVars, JoinsExactly, ChunkedTypeOK, ReadIsWhole, WindowWhole
  <2>2. ASSUME NEW first \in 0..Size + 1 \cup {Unlimited}, NEW last \in 1..Size + 2 \cup {Unlimited},
               IF first = Unlimited \/ last = Unlimited THEN TRUE ELSE first < last, Fetch(first, last)
        PROVE  JoinsExactly'
    <3> DEFINE low == IF first = Unlimited THEN 0 ELSE first
               limit == IF last = Unlimited \/ (last # Unlimited /\ last > Size) THEN Size ELSE last
    <3>1. CASE low >= Size
      <4>1. parts' = <<>> /\ asked' = <<0, 0>> /\ sent' = [from |-> 0, lengths |-> <<>>] /\ UNCHANGED chunks
        BY <2>2, <3>1 DEF Fetch
      <4>2. <<>> \in Seq(Pieces) /\ DOMAIN <<>> = {} /\ <<0, 0>> \in Pieces
        BY ChunkedAssumption DEF Pieces
      <4> QED
        BY <4>1, <4>2, ChunkedAssumption DEF JoinsExactly, ChunkedTypeOK, ReadIsWhole, WindowWhole
    <3>2. CASE ~(low >= Size)
      <4>1. ReadFrom(low, limit, Served(low, limit))
        BY <2>2, <3>2 DEF Fetch
      <4>2. low \in 0..Size /\ limit \in 0..Size /\ low < limit
        BY <2>2, <3>2, ChunkedAssumption
      <4>3. ChunkShape
        BY DEF JoinsExactly, ChunkShape, ChunkedTypeOK
      <4> HIDE DEF low, limit
      <4> QED
        BY <4>1, <4>2, <4>3, ReadOfBytes DEF JoinsExactly
    <3> QED
      BY <3>1, <3>2
  <2> QED
    BY <2>1, <2>2 DEF ChunkedNext
<1> QED
  BY <1>1, <1>2, PTL DEF ChunkedSpec

\* The lengths of a request run to the limit of the block read ahead.
LEMMA LengthsRight ==
  ASSUME NEW pos \in 0..Size, NEW limit \in 0..Size, pos < limit
  PROVE  Lengths(pos, limit) # <<>> /\ EndOf(pos, Lengths(pos, limit)) = Least(Size, limit + Block)
<1> DEFINE lengths == Lengths(pos, limit)
           ahead == Least(Size - limit, Block)
<1>0. ahead \in Int /\ Least(Size, limit + Block) = limit + ahead /\ (~(ahead > 0) => ahead = 0)
  BY ChunkedAssumption DEF Least
<1>1. CASE ahead > 0
  <2>1. lengths = <<limit - pos, ahead>>
    BY <1>1 DEF Lengths
  <2> DEFINE n == 2
  <2>2. DOMAIN lengths = 1..n /\ n \in 0..2 /\ lengths # <<>>
    BY <2>1
  <2>n. n = 2
    OBVIOUS
  <2> HIDE DEF lengths, ahead, n
  <2>3. EndOf(pos, lengths) = IF n = 0 THEN pos ELSE IF n = 1 THEN pos + lengths[1]
                              ELSE pos + lengths[1] + lengths[2]
    BY <2>2, EndOfAll
  <2>4. lengths[1] = limit - pos /\ lengths[2] = ahead
    BY <2>1
  <2>5. EndOf(pos, lengths) = limit + ahead
    BY <2>3, <2>4, <2>n, <1>0
  <2> QED
    BY <2>2, <2>5, <1>0 DEF lengths
<1>2. CASE ~(ahead > 0)
  <2>1. lengths = <<limit - pos>>
    BY <1>2 DEF Lengths
  <2> DEFINE n == 1
  <2>2. DOMAIN lengths = 1..n /\ n \in 0..2 /\ lengths # <<>>
    BY <2>1
  <2>n. n = 1
    OBVIOUS
  <2>a. ahead = 0
    BY <1>2, <1>0
  <2> HIDE DEF lengths, ahead, n
  <2>3. EndOf(pos, lengths) = IF n = 0 THEN pos ELSE IF n = 1 THEN pos + lengths[1]
                              ELSE pos + lengths[1] + lengths[2]
    BY <2>2, EndOfAll
  <2>4. lengths[1] = limit - pos
    BY <2>1
  <2>5. EndOf(pos, lengths) = limit + ahead
    BY <2>3, <2>4, <2>n, <2>a, <1>0
  <2> QED
    BY <2>2, <2>5, <1>0 DEF lengths
<1> QED
  BY <1>1, <1>2

\* After a request that was answered the window holds a byte at least.
Answered == sent.lengths # <<>> => chunks # <<>> /\ Head(chunks)[1] < Last(chunks)[2]

\* The window, as the abstract cache has it.
LEMMA ReadIsAbstract ==
  ASSUME ChunkShape, NEW low \in 0..Size, NEW limit \in 0..Size, low < limit,
         ReadFrom(low, limit, Served(low, limit))
  PROVE  Answered' /\ (Window!Fail \/ Window!Hit(low, limit) \/ Window!Miss(low, limit))
<1> DEFINE so == Served(low, limit)
           wlo == IF chunks = <<>> THEN 0 ELSE Head(chunks)[1]
           whi == IF chunks = <<>> THEN 0 ELSE Last(chunks)[2]
<1>0. /\ so.pos = IF chunks # <<>> /\ Head(chunks)[1] <= low /\ low < Last(chunks)[2]
                     THEN Least(Last(chunks)[2], limit) ELSE low
      /\ so.parts = <<>> => so.pos = low
      /\ so.parts # <<>> => Kept(low) = chunks /\ low < so.pos
  BY ServedRight
<1> HIDE DEF so
<1>1. chunks # <<>> => Last(chunks)[2] \in 0..Size /\ Head(chunks)[1] \in 0..Size
  BY DEF ChunkShape, Pieces, Last
<1>2. so.pos \in low..limit /\ so.pos \in 0..Size
  BY <1>1, <1>0, ChunkedAssumption DEF Least
<1>3. CASE /\ so.pos >= limit
           /\ chunks' = Kept(low) /\ parts' = so.parts /\ sent' = [from |-> 0, lengths |-> <<>>]
           /\ asked' = <<low, limit>>
  <2>1. so.pos = limit /\ so.parts # <<>> /\ chunks' = chunks /\ sent'.lengths = <<>>
    BY <1>3, <1>0, <1>2
  <2>2. chunks # <<>> /\ Head(chunks)[1] <= low /\ limit <= Last(chunks)[2]
    BY <2>1, <1>0, <1>1, <1>2 DEF Least
  <2>3. Window!Hit(low, limit)
    BY <2>1, <2>2 DEF Window!Hit
  <2> QED
    BY <2>1, <2>3 DEF Answered
<1>4. CASE /\ so.pos < limit
           /\ sent' = [from |-> so.pos, lengths |-> Lengths(so.pos, limit)]
           /\ chunks' = Fetched(low, so.pos, sent'.lengths)
           /\ parts' = Append(so.parts, Head(chunks')) /\ asked' = <<low, limit>>
  <2> DEFINE lengths == Lengths(so.pos, limit)
             all == Fetched(low, so.pos, lengths)
             to == Least(Size, limit + Block)
  <2>1. chunks' = all /\ sent'.from = so.pos /\ sent'.lengths = lengths
    BY <1>4
  <2>2. so.pos \in 0..Size /\ so.pos < limit
    BY <1>2, <1>4
  <2>3. lengths # <<>> /\ EndOf(so.pos, lengths) = to
    BY <2>2, LengthsRight
  <2>4. /\ all \in Seq(Pieces) /\ all # <<>>
        /\ all[1] = <<so.pos, limit>> /\ Last(all)[2] = to
    <3>1. all \in Seq(Pieces)
      BY <2>2, FetchedRight, ZenonT(40)
    <3>2. all # <<>>
      BY <2>2, FetchedRight, ZenonT(40)
    <3>3. all[1] = <<so.pos, limit>>
      BY <2>2, FetchedRight, ZenonT(40)
    <3>4. Last(all)[2] = to
      BY <2>2, FetchedRight, ZenonT(40)
    <3> QED
      BY <3>1, <3>2, <3>3, <3>4
  <2>5. to \in 0..Size /\ to >= limit /\ to = Window!Least(Size, limit + Block)
    BY ChunkedAssumption DEF Least, Window!Least
  <2> HIDE DEF lengths, all, to
  <2>6. chunks' # <<>> /\ Head(chunks')[1] = so.pos /\ Last(chunks')[2] = to
    BY <2>1, <2>4
  <2>7. Answered'
    BY <2>2, <2>5, <2>6 DEF Answered
  <2>8. ~(wlo <= low /\ limit <= whi)
    BY <2>2, <1>0, <1>1 DEF Least
  <2>9. so.pos = IF wlo <= low /\ low < whi THEN whi ELSE low
    BY <2>2, <1>0, <1>1 DEF Least
  <2>10. (IF sent.lengths = <<>> THEN <<0, 0>> ELSE <<sent.from, EndOf(sent.from, sent.lengths)>>)' = <<so.pos, to>>
    BY <2>1, <2>3
  <2>11. Window!Miss(low, limit)
    BY <2>5, <2>6, <2>8, <2>9, <2>10 DEF Window!Miss
  <2> QED
    BY <2>7, <2>11
<1>5. CASE /\ so.pos < limit
           /\ chunks' = <<>> /\ parts' = <<>> /\ asked' = <<0, 0>> /\ sent' = [from |-> 0, lengths |-> <<>>]
  <2>1. Window!Fail
    <3>1. 0 \in 0..Size
      BY ChunkedAssumption
    <3> QED
      BY <3>1, <1>5 DEF Window!Fail
  <2> QED
    BY <2>1, <1>5 DEF Answered
<1>6. CASE /\ so.pos < limit /\ sent' = [from |-> 0, lengths |-> <<>>]
           /\ chunks' = <<<<so.pos, so.pos>>>>
           /\ parts' = Append(so.parts, <<so.pos, so.pos>>) /\ asked' = <<low, so.pos>>
  <2>1. chunks' # <<>> /\ Head(chunks') = <<so.pos, so.pos>> /\ Last(chunks') = <<so.pos, so.pos>>
    BY <1>6 DEF Last
  <2>2. Window!Fail
    BY <2>1, <1>2, <1>6 DEF Window!Fail
  <2> QED
    BY <2>2, <1>6 DEF Answered
<1> QED
  BY <1>3, <1>4, <1>5, <1>6 DEF ReadFrom, so

\* The queue of chunks keeps the semantics of the cache with one block
\* (ReadAheadChunked): the same window, and the same bytes from the server.
THEOREM ChunksReadAhead == ChunkedSpec => ReadsAhead
<1> DEFINE Inv == JoinsExactly /\ Answered
           win == <<IF chunks = <<>> THEN 0 ELSE Head(chunks)[1],
                    IF chunks = <<>> THEN 0 ELSE Last(chunks)[2],
                    IF sent.lengths = <<>> THEN <<0, 0>>
                    ELSE <<sent.from, EndOf(sent.from, sent.lengths)>> >>
<1>1. ChunkedInit => Window!Init /\ Answered
  BY DEF ChunkedInit, Window!Init, Answered
<1>2. Inv /\ [ChunkedNext]_chunkedVars
        => Answered' /\ [Window!Next]_win
  <2> SUFFICES ASSUME Inv, [ChunkedNext]_chunkedVars
               PROVE  Answered' /\ [Window!Next]_win
    OBVIOUS
  <2>1. CASE UNCHANGED chunkedVars
    BY <2>1 DEF chunkedVars, Answered
  <2>2. ASSUME NEW first \in 0..Size + 1 \cup {Unlimited}, NEW last \in 1..Size + 2 \cup {Unlimited},
               IF first = Unlimited \/ last = Unlimited THEN TRUE ELSE first < last, Fetch(first, last)
        PROVE  Answered' /\ [Window!Next]_win
    <3> DEFINE low == IF first = Unlimited THEN 0 ELSE first
               limit == IF last = Unlimited \/ (last # Unlimited /\ last > Size) THEN Size ELSE last
    <3>1. CASE low >= Size
      <4>1. sent' = [from |-> 0, lengths |-> <<>>] /\ UNCHANGED chunks
        BY <2>2, <3>1 DEF Fetch
      <4>2. Answered'
        BY <4>1 DEF Answered
      <4>3. CASE sent.lengths = <<>>
        BY <4>1, <4>2, <4>3
      <4>4. CASE sent.lengths # <<>>
        <5>1. chunks # <<>> /\ Head(chunks)[1] < Last(chunks)[2]
          BY <4>4 DEF Answered
        <5>2. Head(chunks)[1] \in 0..Size /\ Last(chunks)[2] \in 0..Size
          BY <5>1 DEF JoinsExactly, ChunkedTypeOK, Pieces, Last
        <5>3. Window!Hit(Head(chunks)[1], Last(chunks)[2])
          BY <5>1, <5>2, <4>1 DEF Window!Hit
        <5> QED
          BY <5>1, <5>2, <5>3, <4>2 DEF Window!Next
      <4> QED
        BY <4>3, <4>4
    <3>2. CASE ~(low >= Size)
      <4>1. ReadFrom(low, limit, Served(low, limit))
        BY <2>2, <3>2 DEF Fetch
      <4>2. low \in 0..Size /\ limit \in 0..Size /\ low < limit
        BY <2>2, <3>2, ChunkedAssumption
      <4>3. ChunkShape
        BY DEF JoinsExactly, ChunkShape, ChunkedTypeOK
      <4> HIDE DEF low, limit
      <4> QED
        BY <4>1, <4>2, <4>3, ReadIsAbstract DEF Window!Next
    <3> QED
      BY <3>1, <3>2
  <2> QED
    BY <2>1, <2>2 DEF ChunkedNext
<1> QED
  BY <1>1, <1>2, ReadsJoinExactly, PTL DEF ChunkedSpec, ReadsAhead, Window!Spec

-----------------------------------------------------------------------------
(* get_file(): the threads of a download, its file and its tries.          *)

Running == getPc \in {"fetch", "wait", "drain"}

Types ==
  /\ GetTypeOK
  /\ compares \in {"none", "size", "hash"} /\ handling \in BOOLEAN /\ retried \in BOOLEAN /\ open \in BOOLEAN
  /\ live \in Nat /\ pinned \in Nat /\ local \in [Blocks -> Nat] /\ arrived \in [Blocks -> Nat]

\* Every write that a thread may still do is one that the loop will wait for, and while there is
\* one the descriptor is open.
Descriptor ==
  /\ ~stray /\ (Running => open) /\ (~Running => unreaped = {})
  /\ \A k \in Blocks : writing[k] = "pending" => k \in unreaped
  /\ how # "blocks" => /\ unreaped = {} /\ getPc \notin {"wait", "drain"}
                       /\ \A k \in Blocks : writing[k] = "no"

\* What the end of a try says of the call.
Ending ==
  /\ getPc = "open" => tries < GetTries
  /\ getPc \in {"fetch", "wait"} => error = "none"
  /\ getPc = "clean" => error # "none"
  /\ gotten # "no" => getPc = "over"
  /\ gotten = "returned" => error = "none"
  /\ gotten = "raised" => file = "absent" /\ error # "none"

\* Of a try without an error: the blocks up to the next one have been fetched from the generation
\* it is pinned to, and are in the file, on their way to it, or known to have failed.
Content ==
  error = "none" /\ getPc \in {"fetch", "wait", "drain", "after", "over"} =>
    /\ file = "new"
    /\ getPc \in {"drain", "after", "over"} => at = BlockCount + 1
    /\ \A k \in Blocks : k < at => arrived[k] \in {pinned, Wrong}
    /\ how # "blocks" => \A k \in Blocks : k < at => local[k] = arrived[k]
    /\ how = "blocks" => \A k \in Blocks :
         /\ writing[k] = "no" <=> ~(k < at)
         /\ writing[k] = "done" => local[k] = arrived[k]
         /\ writing[k] = "failed" => k \in unreaped \/ (getPc \in {"after", "over"} /\ handling)
    /\ getPc \in {"after", "over"} /\ compares = "hash" /\ how # "stream" => Right

IInv == Types /\ Descriptor /\ Ending /\ Content

LEMMA Numbers == Blocks = 1..BlockCount /\ BlockCount \in Nat /\ GetTries \in Nat \ {0} /\ Handled \subseteq BOOLEAN
  BY DownloadAssumption DEF Blocks

LEMMA InitIInv == GetInit => IInv
<1> SUFFICES ASSUME GetInit PROVE IInv
  OBVIOUS
<1>1. local \in [Blocks -> Nat] /\ arrived \in [Blocks -> Nat]
  BY DEF GetInit, Empty, Hole
<1>2. GetTypeOK
  BY Numbers DEF GetInit, GetTypeOK
<1>3. compares \in {"none", "size", "hash"}
  BY DEF GetInit, Comparisons
<1>4. Types
  BY Numbers, <1>1, <1>2, <1>3 DEF GetInit, Types, FirstGeneration
<1>5. Descriptor /\ Ending /\ Content
  BY Numbers DEF GetInit, Descriptor, Ending, Content, Running
<1> QED BY <1>4, <1>5 DEF IInv

LEMMA NextIInv == IInv /\ [GetNext]_getVars => IInv'
<1> SUFFICES ASSUME IInv, [GetNext]_getVars PROVE IInv'
  OBVIOUS
<1> USE Numbers DEF IInv, Types, GetTypeOK, Descriptor, Ending, Content, Running, getArgs
<1>1. CASE Open
  BY <1>1 DEF Open, GetGoes, Empty, Hole
<1>2. CASE GetOpenFails
  BY <1>2 DEF GetOpenFails, GetGoes, Fault
<1>3. CASE FetchBlock
  <2>1. PICK bytes \in {pinned, Wrong} :
          arrived' = [arrived EXCEPT ![at] = bytes] /\ Takes(at, bytes)
    BY <1>3 DEF FetchBlock
  <2>2. /\ getPc = "fetch" /\ at \in Blocks /\ at' = at + 1 /\ bytes \in Nat
        /\ UNCHANGED <<how, retried, compares, handling, live, file, pinned, open, error, tries, gotten, stray, cancels>>
    BY <1>3, <2>1 DEF FetchBlock, Wrong
  <2>3. CASE how = "blocks"
    <3>1. /\ writing' = [writing EXCEPT ![at] = "pending"] /\ unreaped' = unreaped \cup {at}
          /\ local' = local /\ getPc' \in {"wait", "fetch"}
      BY <2>1, <2>3 DEF Takes, GetGoes
    <3>2. Types' BY <2>1, <2>2, <3>1
    <3>3. Descriptor' BY <2>2, <2>3, <3>1
    <3>4. Ending' BY <2>2, <3>1
    <3>5. Content' BY <2>1, <2>2, <2>3, <3>1
    <3> QED BY <3>2, <3>3, <3>4, <3>5
  <2>4. CASE how # "blocks"
    <3>1. /\ local' = [local EXCEPT ![at] = bytes] /\ UNCHANGED <<writing, unreaped>> /\ getPc' = "fetch"
      BY <2>1, <2>4 DEF Takes, GetGoes
    <3>2. Types' BY <2>1, <2>2, <3>1
    <3>3. Descriptor' BY <2>2, <2>4, <3>1
    <3>4. Ending' BY <2>2, <3>1
    <3>5. Content'
      <4>1. \A k \in Blocks : k < at' => k = at \/ k < at
        BY <2>2
      <4>2. /\ arrived'[at] = bytes /\ local'[at] = bytes
            /\ \A k \in Blocks : k # at => arrived'[k] = arrived[k] /\ local'[k] = local[k]
        BY <2>1, <2>2, <3>1
      <4>3. error = "none" => \A k \in Blocks : k < at' => arrived'[k] \in {pinned, Wrong} /\ local'[k] = arrived'[k]
        BY <2>1, <2>2, <2>4, <4>1, <4>2
      <4> QED
        BY <2>2, <2>4, <3>1, <4>3
    <3> QED BY <3>2, <3>3, <3>4, <3>5
  <2> QED BY <2>3, <2>4
<1>4. CASE FetchFails
  <2>1. /\ getPc = "fetch" /\ error' \in {"transient", "fatal"}
        /\ getPc' = IF how = "blocks" THEN "drain" ELSE "after"
        /\ file' \in {file, "absent"}
        /\ UNCHANGED <<how, retried, compares, handling, live, local, pinned, at, arrived, writing,
                       unreaped, open, tries, gotten, stray, cancels>>
    BY <1>4 DEF FetchFails, Raises, GetGoes
  <2> QED BY <2>1
<1>5. CASE BodyEnds
  <2>1. /\ getPc = "fetch" /\ at = BlockCount + 1
        /\ UNCHANGED <<how, retried, compares, handling, live, file, local, pinned, at, arrived, writing,
                       unreaped, tries, gotten, stray, cancels>>
    BY <1>5 DEF BodyEnds
  <2>2. CASE how = "blocks"
    BY <1>5, <2>1, <2>2 DEF BodyEnds, GetGoes, Right
  <2>3. CASE how # "blocks"
    <3>1. /\ getPc' = "after" /\ open' = FALSE /\ error = "none"
          /\ error' \in {"none", "transient"}
          /\ error' = "none" /\ compares = "hash" /\ how # "stream" => Right
      BY <1>5, <2>1, <2>3 DEF BodyEnds, GetGoes, Checked
    <3>2. Right' <=> Right BY <2>1 DEF Right
    <3> QED BY <2>1, <2>3, <3>1, <3>2
  <2> QED BY <2>2, <2>3
<1>6. ASSUME NEW k \in Blocks, WriteBlock(k) PROVE IInv'
  <2>1. k \in unreaped /\ Running /\ open /\ how = "blocks"
    BY <1>6 DEF WriteBlock
  <2>2. local' = [local EXCEPT ![k] = arrived[k]] /\ stray' = stray
    BY <1>6, <2>1 DEF WriteBlock
  <2> QED BY <1>6, <2>1, <2>2 DEF WriteBlock
<1>7. ASSUME NEW k \in Blocks, WriteBlockFails(k) PROVE IInv'
  <2>1. k \in unreaped /\ Running /\ how = "blocks"
    BY <1>7 DEF WriteBlockFails
  <2> QED BY <1>7, <2>1 DEF WriteBlockFails
<1>8. CASE WaitOne
  <2> DEFINE ended == {k \in unreaped : writing[k] # "pending"}
  <2>1. /\ getPc = "wait" /\ unreaped' = unreaped \ ended /\ how = "blocks"
        /\ UNCHANGED <<how, retried, compares, handling, live, file, local, pinned, at, arrived, writing,
                       open, tries, gotten, stray, cancels>>
    BY <1>8 DEF WaitOne
  <2>2. CASE \E k \in ended : writing[k] = "failed"
    <3>1. error' = "fatal" /\ getPc' = "drain" BY <1>8, <2>1, <2>2 DEF WaitOne, Raises, GetGoes
    <3> QED BY <2>1, <3>1
  <2>3. CASE ~ \E k \in ended : writing[k] = "failed"
    <3>1. error' = error /\ getPc' = "fetch" BY <1>8, <2>1, <2>3 DEF WaitOne, GetGoes
    <3> QED BY <2>1, <2>3, <3>1
  <2> QED BY <2>2, <2>3
<1>9. CASE Drain
  <2>1. /\ getPc = "drain" /\ unreaped' = {} /\ open' = FALSE /\ getPc' = "after" /\ how = "blocks"
        /\ \A k \in Blocks : writing[k] # "pending"
        /\ UNCHANGED <<how, retried, compares, handling, live, file, local, pinned, at, arrived, writing,
                       tries, gotten, stray, cancels>>
    BY <1>9 DEF Drain, GetGoes
  <2>2. /\ error' \in {"none", "transient", "fatal", "cancelled"}
        /\ error' = "none" => /\ error = "none" /\ (compares = "hash" => Right)
                              /\ ~handling => \A k \in unreaped : writing[k] # "failed"
    BY <1>9 DEF Drain, Checked
  <2> QED BY <2>1, <2>2 DEF Right
<1>10. CASE CancelGet
  <2>1. /\ error' = "cancelled" /\ getPc \in {"open", "fetch", "wait", "drain"}
        /\ getPc' = IF getPc = "open" \/ how # "blocks" THEN "after" ELSE "drain"
        /\ UNCHANGED <<how, retried, compares, handling, live, file, local, pinned, at, arrived, writing,
                       unreaped, open, tries, gotten, stray>>
    BY <1>10 DEF CancelGet, GetGoes
  <2> QED BY <2>1
<1>11. CASE AfterTry
  <2>1. /\ getPc = "after" /\ open' = FALSE /\ getPc' \in {"over", "open", "clean"}
        /\ getPc' = "over" <=> error = "none"
        /\ getPc' = "open" => tries < GetTries
        /\ gotten' = IF error = "none" THEN "returned" ELSE gotten
        /\ UNCHANGED <<how, retried, compares, handling, live, file, local, pinned, at, arrived, writing,
                       unreaped, error, tries, stray, cancels>>
    BY <1>11 DEF AfterTry, GetGoes
  <2>2. Types' BY <2>1
  <2>3. Descriptor' BY <2>1
  <2>4. Ending' BY <2>1
  <2>5. Right' = Right BY <2>1 DEF Right
  <2>6. Content' BY <2>1, <2>5
  <2> QED BY <2>2, <2>3, <2>4, <2>6
<1>12. CASE Clean
  BY <1>12 DEF Clean, GetGoes
<1>13. CASE Replace
  BY <1>13 DEF Replace, FirstGeneration, Right
<1>14. CASE UNCHANGED getVars
  BY <1>14 DEF getVars, Right
<1> QED
  BY <1>1, <1>2, <1>3, <1>4, <1>5, <1>6, <1>7, <1>8, <1>9, <1>10, <1>11, <1>12, <1>13, <1>14
  DEF GetNext, GetStep

LEMMA Invariance == GetSpec => []IInv
  BY InitIInv, NextIInv, PTL DEF GetSpec

-----------------------------------------------------------------------------
\* All writes are awaited before the descriptor is closed, however often the caller is cancelled
\* (the finally clause of _get_file_concurrent).
THEOREM WritesStay == GetSpec => []NoStrayWrite
<1>1. IInv => NoStrayWrite
  BY DEF IInv, Types, GetTypeOK, Descriptor, Running, NoStrayWrite
<1> QED
  BY <1>1, Invariance, PTL

\* A download that returns to a caller who handles no exception has every block, of the generation
\* that its last try was pinned to or, where no hash is compared, the wrong bytes that were received
\* for it; and one that raises leaves no file (_get_file).
THEOREM DownloadsAreWhole == GetSpec => []DownloadWhole
<1>1. IInv => DownloadWhole
  <2> SUFFICES ASSUME IInv PROVE DownloadWhole
    OBVIOUS
  <2> USE Numbers DEF IInv, Types, GetTypeOK, Descriptor, Ending, Content, Running
  <2>1. ASSUME gotten = "returned", ~handling
        PROVE  /\ file = "new"
               /\ \A k \in Blocks :
                    local[k] = pinned \/ (local[k] = Wrong /\ (compares # "hash" \/ how = "stream"))
    <3>1. error = "none" /\ getPc = "over" /\ file = "new" /\ at = BlockCount + 1 /\ unreaped = {}
      BY <2>1
    <3>2. ASSUME NEW k \in Blocks PROVE local[k] = arrived[k] /\ arrived[k] \in {pinned, Wrong}
      <4>1. k < at BY <3>1
      <4>2. how # "blocks" \/ writing[k] = "done" BY <2>1, <3>1, <4>1
      <4> QED BY <3>1, <4>1, <4>2
    <3>3. compares = "hash" /\ how # "stream" => \A k \in Blocks : arrived[k] # Wrong
      BY <3>1 DEF Right
    <3> QED BY <3>1, <3>2, <3>3
  <2>2. gotten = "raised" => file = "absent"
    OBVIOUS
  <2> QED BY <2>1, <2>2 DEF DownloadWhole
<1> QED
  BY <1>1, Invariance, PTL
=============================================================================
