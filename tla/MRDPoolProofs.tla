--------------------------- MODULE MRDPoolProofs ---------------------------
(***************************************************************************)
(* Proofs about MRDPool, for any number of calls, any pool size and any    *)
(* content of the shared cache.                                            *)
(***************************************************************************)
EXTENDS MRDPool, FiniteSetTheorems, SequenceTheorems, TLAPS

\* The named states of a call, for the provers.
PcStates == {"start", "lock", "wait", "create", "failing", "telling",
             "hold", "done", "raised"}

\* Adding a new element to a finite set, or taking one away, changes its
\* cardinality by one.
LEMMA CountUp ==
  ASSUME NEW S, NEW T, NEW x, IsFiniteSet(S), x \notin S, T = S \cup {x}
  PROVE  Cardinality(T) = Cardinality(S) + 1 /\ Cardinality(S) \in Nat
BY FS_AddElement, FS_CardinalityType

LEMMA CountDown ==
  ASSUME NEW S, NEW T, NEW x, IsFiniteSet(S), x \in S, T = S \ {x}
  PROVE  /\ Cardinality(T) = Cardinality(S) - 1
         /\ Cardinality(S) \in Nat \ {0} /\ Cardinality(T) \in Nat
<1>1. IsFiniteSet(T) /\ Cardinality(T) = Cardinality(S) - 1
  BY FS_RemoveElement
<1>2. Cardinality(S) \in Nat /\ Cardinality(T) \in Nat
  BY <1>1, FS_CardinalityType
<1>. QED BY <1>1, <1>2

LEMMA SubsetsOfCalls ==
  /\ IsFiniteSet(Creators) /\ Cardinality(Creators) \in Nat
  /\ \A m : IsFiniteSet(Holders(m)) /\ Cardinality(Holders(m)) \in Nat
<1>1. Creators \subseteq Calls /\ \A m : Holders(m) \subseteq Calls
  BY DEF Creators, Holders
<1>. QED BY <1>1, CallsFinite, FS_Subset, FS_CardinalityType

\* A queue without repetition whose elements are all in another queue is no
\* longer than that one.
LEMMA Pigeonhole ==
  ASSUME NEW S, NEW s \in Seq(S), NEW t \in Seq(S),
         \A i, j \in 1..Len(s) : s[i] = s[j] => i = j,
         \A i \in 1..Len(s) : \E j \in 1..Len(t) : t[j] = s[i]
  PROVE  Len(s) <= Len(t)
<1>. Len(s) \in Nat /\ Len(t) \in Nat
  OBVIOUS
<1> DEFINE T == {t[j] : j \in 1..Len(t)}
           f == [i \in 1..Len(s) |-> s[i]]
           g == [j \in 1..Len(t) |-> t[j]]
<1>1. f \in Injection(1..Len(s), T)
  <2>1. f \in [1..Len(s) -> T]
    OBVIOUS
  <2>2. \A i, j \in 1..Len(s) : f[i] = f[j] => i = j
    OBVIOUS
  <2>3. IsInjective(f)
    BY <2>2 DEF IsInjective
  <2>. HIDE DEF f, T
  <2>. QED BY <2>1, <2>3 DEF Injection
<1>2. g \in Surjection(1..Len(t), T)
  BY DEF Surjection
<1>3. \A n \in Nat : IsFiniteSet(1..n) /\ Cardinality(1..n) = n
  <2>. TAKE n \in Nat
  <2>. 1 \in Int /\ n \in Int
    OBVIOUS
  <2>1. /\ IsFiniteSet(1..n)
        /\ Cardinality(1..n) = IF 1 > n THEN 0 ELSE n - 1 + 1
    BY FS_Interval, Zenon
  <2>. QED BY <2>1
<1>. HIDE DEF f, g, T
<1>4. IsFiniteSet(T) /\ Cardinality(T) <= Len(t) /\ Cardinality(T) \in Nat
  BY <1>2, <1>3, FS_Surjection, FS_CardinalityType
<1>5. Len(s) <= Cardinality(T)
  BY <1>1, <1>3, <1>4, FS_Injection
<1>. QED BY <1>4, <1>5

-----------------------------------------------------------------------------
(* What handing a stream out and letting it go do to the holders.            *)

LEMMA Unheld == NoStream \notin Streams
BY NamesDisjoint DEF Streams

LEMMA HandOutCounts ==
  ASSUME TypeOK, HoldersCounted, NEW c \in Calls, NEW m \in Streams,
         held[c] = NoStream, HandOut(c, m)
  PROVE  /\ held' \in [Calls -> Streams \cup {NoStream}]
         /\ inflight' \in [Streams -> Nat]
         /\ HoldersCounted'
         /\ Holders(m)' = Holders(m) \cup {c}
         /\ \A n \in Streams \ {m} :
              inflight'[n] = inflight[n] /\ Holders(n)' = Holders(n)
<1>1. /\ held' \in [Calls -> Streams \cup {NoStream}]
      /\ inflight' \in [Streams -> Nat]
  BY DEF TypeOK, HandOut
<1>2. Holders(m)' = Holders(m) \cup {c} /\ c \notin Holders(m)
  BY Unheld DEF TypeOK, HandOut, Holders
<1>3. \A n \in Streams \ {m} :
        inflight'[n] = inflight[n] /\ Holders(n)' = Holders(n)
  BY Unheld DEF TypeOK, HandOut, Holders
<1>4. Cardinality(Holders(m)') = Cardinality(Holders(m)) + 1
  BY <1>2, SubsetsOfCalls, CountUp
<1>5. inflight'[m] = inflight[m] + 1
  BY DEF TypeOK, HandOut
<1>6. HoldersCounted'
  <2>1. \A n \in Streams : inflight'[n] = Cardinality(Holders(n)')
    BY <1>3, <1>4, <1>5 DEF HoldersCounted
  <2>. QED BY <2>1 DEF HoldersCounted
<1>. QED BY <1>1, <1>2, <1>3, <1>6

LEMMA LetGoCounts ==
  ASSUME TypeOK, HoldersCounted, NEW c \in Calls, NEW m \in Streams,
         held[c] = m, LetGo(c)
  PROVE  /\ held' \in [Calls -> Streams \cup {NoStream}]
         /\ inflight' \in [Streams -> Nat]
         /\ HoldersCounted'
         /\ inflight[m] >= 1
         /\ inflight[m] > 1 <=> Holders(m)' # {}
         /\ inflight[m] <= 1 => inflight'[m] = 0
         /\ Holders(m)' = Holders(m) \ {c}
         /\ \A n \in Streams \ {m} :
              inflight'[n] = inflight[n] /\ Holders(n)' = Holders(n)
<1>1. held' \in [Calls -> Streams \cup {NoStream}]
  BY DEF TypeOK, LetGo
<1>2. Holders(m)' = Holders(m) \ {c} /\ c \in Holders(m)
  BY Unheld DEF TypeOK, LetGo, Holders
<1>3. \A n \in Streams \ {m} :
        inflight'[n] = inflight[n] /\ Holders(n)' = Holders(n)
  BY Unheld DEF TypeOK, LetGo, Holders
<1>4. /\ Cardinality(Holders(m)') = Cardinality(Holders(m)) - 1
      /\ Cardinality(Holders(m)) \in Nat \ {0}
      /\ Cardinality(Holders(m)') \in Nat
  BY <1>2, SubsetsOfCalls, CountDown
<1>5. inflight'[m] = inflight[m] - 1 /\ inflight[m] = Cardinality(Holders(m))
  BY DEF TypeOK, LetGo, HoldersCounted
<1>6. inflight' \in [Streams -> Nat]
  <2>1. inflight'[m] \in Nat
    BY <1>4, <1>5
  <2>2. inflight' = [inflight EXCEPT ![m] = inflight'[m]]
    BY <1>5 DEF TypeOK, LetGo
  <2>. QED BY <2>1, <2>2 DEF TypeOK
<1>7. HoldersCounted'
  <2>1. \A n \in Streams : inflight'[n] = Cardinality(Holders(n)')
    BY <1>3, <1>4, <1>5 DEF HoldersCounted
  <2>. QED BY <2>1 DEF HoldersCounted
<1>8. Holders(m)' # {} <=> Cardinality(Holders(m)') # 0
  BY <1>2, SubsetsOfCalls, FS_RemoveElement, FS_EmptySet
<1>. QED BY <1>1, <1>2, <1>3, <1>4, <1>5, <1>6, <1>7, <1>8

-----------------------------------------------------------------------------
(* Each action preserves the inductive invariant.                            *)

LEMMA SameHolders ==
  ASSUME HoldersCounted, UNCHANGED <<held, inflight>>
  PROVE  HoldersCounted' /\ \A m \in Streams : Holders(m)' = Holders(m)
BY DEF HoldersCounted, Holders

\* When no stream opens or closes and none changes hands, none is leaked.
LEMMA NothingLeaks ==
  ASSUME NoStreamLeaked, UNCHANGED <<free, held, stream>>
  PROVE  NoStreamLeaked'
<1>1. Open' = Open /\ Elements(free)' = Elements(free)
  BY DEF Open, Elements
<1>2. \A m \in Streams : Holders(m)' = Holders(m)
  BY DEF Holders
<1>3. \A m \in Open : m \in Streams
  BY DEF Open
<1>. QED BY <1>1, <1>2, <1>3 DEF NoStreamLeaked

\* The queues and what they say of the streams are as before.
LEMMA SameQueues ==
  ASSUME Listed, FreeStreamsUnused, ClosedPoolHoldsNothing, HeldStreamOpen,
         HoldersCounted, NoStreamLeaked,
         UNCHANGED <<phase, free, all, stream, held, inflight>>
  PROVE  /\ Listed' /\ FreeStreamsUnused' /\ ClosedPoolHoldsNothing'
         /\ HeldStreamOpen' /\ HoldersCounted' /\ NoStreamLeaked'
<1>1. \A m \in Streams : Holders(m)' = Holders(m)
  BY SameHolders
<1>2. Listed'
  BY DEF Listed, Open
<1>3. FreeStreamsUnused' /\ HeldStreamOpen'
  BY DEF FreeStreamsUnused, HeldStreamOpen
<1>4. ClosedPoolHoldsNothing'
  BY <1>1 DEF ClosedPoolHoldsNothing, Open
<1>. QED BY <1>2, <1>3, <1>4, SameHolders, NothingLeaks

\* A step of a call that neither has nor gets a stream.
LEMMA OnlyPc ==
  ASSUME Inductive, NEW c \in Calls, NEW l \in {"lock", "wait", "raised"},
         Goto(c, l), pc[c] \in {"start", "lock", "wait", "failing"},
         pc[c] = "failing" => l = "raised",
         l = "wait" => creating > 0 /\ ~Closed,
         phase \notin {"new", "opening", "failed"} \/ pc[c] # "start",
         UNCHANGED <<phase, held, free, all, rr, counts, inflight, stream, world,
                     persisted, notifiers>>
  PROVE  Inductive'
<1>. USE DEF Inductive
<1>1. TypeOK' /\ CallState' /\ PhaseState' /\ SizesKnown' /\ NoStaleStream'
  BY DEF TypeOK, CallState, PhaseState, SizesKnown, NoStaleStream, Goto, Closed,
         counts, world
<1>2. SlotsAccounted' /\ (creating <= active)'
  <2>1. Creators' = Creators
    BY DEF Creators, Goto, TypeOK
  <2>. QED BY <2>1 DEF SlotsAccounted, counts
<1>3. NoLostWakeup'
  BY DEF NoLostWakeup, TypeOK, Goto, counts
<1>. QED BY <1>1, <1>2, <1>3, SameQueues

LEMMA CallStep == ASSUME Inductive, NEW c \in Calls, Call(c) PROVE Inductive'
BY OnlyPc DEF Call

LEMMA GetClosedStep == ASSUME Inductive, NEW c \in Calls, GetClosed(c) PROVE Inductive'
BY OnlyPc DEF GetClosed, Enters

LEMMA GetWaitStep == ASSUME Inductive, NEW c \in Calls, GetWait(c) PROVE Inductive'
BY OnlyPc DEF GetWait, Enters

LEMMA CancelStep == ASSUME Inductive, NEW c \in Calls, Cancel(c) PROVE Inductive'
BY OnlyPc DEF Cancel

LEMMA GrowStep == ASSUME Inductive, Grow PROVE Inductive'
<1>. USE DEF Inductive, Grow
<1>1. TypeOK' /\ CallState' /\ PhaseState' /\ SizesKnown' /\ NoStaleStream'
  <2>1. TypeOK'
    BY DEF TypeOK, counts
  <2>2. CallState' /\ PhaseState'
    BY DEF TypeOK, CallState, PhaseState, Closed, counts
  <2>3. SizesKnown' /\ NoStaleStream'
    BY DEF TypeOK, SizesKnown, NoStaleStream, Closed, counts
  <2>. QED BY <2>1, <2>2, <2>3
<1>2. SlotsAccounted' /\ (creating <= active)' /\ NoLostWakeup'
  BY DEF SlotsAccounted, Creators, counts, NoLostWakeup
<1>. QED BY <1>1, <1>2, SameQueues

\* What the loop body may rely on when it runs: some call has started, so the
\* pool has been initialized and, not being closed, is ready.
LEMMA EntersReady ==
  ASSUME Inductive, NEW c \in Calls, pc[c] \in {"lock", "create"}, ~Closed
  PROVE  phase = "ready" /\ held[c] = NoStream /\ stream[c] = "absent"
BY DEF Inductive, TypeOK, PhaseState, CallState, Closed

LEMMA GetFreeStep == ASSUME Inductive, NEW c \in Calls, GetFree(c) PROVE Inductive'
<1>. USE DEF Inductive
<1>. PICK m : m = Head(free)
  OBVIOUS
<1>1. phase = "ready" /\ held[c] = NoStream /\ phase' = phase
  BY EntersReady DEF GetFree, Enters
<1>2. /\ m \in Streams /\ m = free[1] /\ Len(free) \in Nat \ {0}
      /\ free' \in Seq(Streams) /\ Len(free') = Len(free) - 1
      /\ \A i \in 1..Len(free') : free'[i] = free[i + 1]
  BY HeadTailProperties DEF GetFree, TypeOK
<1>3. stream[m] = "open" /\ inflight[m] = 0
  BY <1>2 DEF FreeStreamsUnused
<1>4. /\ held' \in [Calls -> Streams \cup {NoStream}]
      /\ inflight' \in [Streams -> Nat]
      /\ HoldersCounted'
      /\ Holders(m)' = Holders(m) \cup {c}
      /\ \A n \in Streams \ {m} :
           inflight'[n] = inflight[n] /\ Holders(n)' = Holders(n)
  BY <1>1, <1>2, HandOutCounts DEF GetFree
<1>5. held' = [held EXCEPT ![c] = m]
  BY DEF GetFree, HandOut
<1>6. TypeOK' /\ SizesKnown' /\ NoStaleStream'
  BY <1>2, <1>4 DEF TypeOK, SizesKnown, NoStaleStream, GetFree, Goto, counts, world
<1>7. CallState' /\ PhaseState' /\ HeldStreamOpen'
  BY <1>1, <1>2, <1>3, <1>5, Unheld
  DEF TypeOK, CallState, PhaseState, HeldStreamOpen, GetFree, Goto, Closed, Enters
<1>8. Listed' /\ ClosedPoolHoldsNothing'
  BY <1>1 DEF Listed, ClosedPoolHoldsNothing, GetFree, Open
<1>9. SlotsAccounted' /\ (creating <= active)' /\ NoLostWakeup'
  <2>1. Creators' = Creators
    BY DEF Creators, GetFree, Enters, Goto, TypeOK
  <2>. QED BY <2>1 DEF SlotsAccounted, NoLostWakeup, GetFree, Goto, counts, TypeOK
<1>10. FreeStreamsUnused'
  <2>1. \A i \in 1..Len(free') : /\ i + 1 \in 1..Len(free) /\ 1 \in 1..Len(free)
                                   /\ free[i + 1] # m /\ free[i + 1] \in Streams
    BY <1>2, SMTT(30) DEF FreeStreamsUnused, TypeOK
  <2>2. \A i \in 1..Len(free') : stream'[free'[i]] = "open" /\ inflight'[free'[i]] = 0
    BY <1>2, <1>4, <2>1 DEF FreeStreamsUnused, GetFree
  <2>3. \A i, j \in 1..Len(free') : free'[i] = free'[j] => i = j
    BY <1>2 DEF FreeStreamsUnused
  <2>. QED BY <1>2, <2>2, <2>3, PoolSizePositive DEF FreeStreamsUnused
<1>11. NoStreamLeaked'
  <2>. SUFFICES ASSUME NEW n \in Open'
                PROVE  n \in Elements(free)' \/ Holders(n)' # {}
    BY DEF NoStreamLeaked
  <2>1. n \in Streams /\ n \in Open
    BY DEF Open, GetFree
  <2>2. CASE n = m
    BY <1>4, <2>2
  <2>3. CASE n # m /\ Holders(n) # {}
    BY <1>4, <2>1, <2>3
  <2>4. CASE n # m /\ n \in Elements(free)
    <3>1. PICK i \in 1..Len(free) : free[i] = n
      BY <2>4 DEF Elements
    <3>2. i # 1 /\ i - 1 \in 1..Len(free') /\ free'[i - 1] = n
      BY <1>2, <2>4, <3>1
    <3>. QED BY <3>2 DEF Elements
  <2>. QED BY <2>1, <2>2, <2>3, <2>4 DEF NoStreamLeaked
<1>. QED BY <1>4, <1>6, <1>7, <1>8, <1>9, <1>10, <1>11

LEMMA GetShareStep == ASSUME Inductive, NEW c \in Calls, GetShare(c) PROVE Inductive'
<1>. USE DEF Inductive
<1>. PICK k, m : k = (rr % Len(all)) + 1 /\ m = all[k]
  OBVIOUS
<1>1. phase = "ready" /\ held[c] = NoStream /\ phase' = phase
  BY EntersReady DEF GetShare, Enters
<1>2. Len(all) \in Nat \ {0} /\ k \in 1..Len(all) /\ rr' \in Nat
  BY DEF GetShare, TypeOK
<1>3. m \in Streams /\ stream[m] = "open"
  BY <1>1, <1>2 DEF Listed, TypeOK
<1>4. /\ held' \in [Calls -> Streams \cup {NoStream}]
      /\ inflight' \in [Streams -> Nat]
      /\ HoldersCounted'
      /\ Holders(m)' = Holders(m) \cup {c}
      /\ \A n \in Streams \ {m} :
           inflight'[n] = inflight[n] /\ Holders(n)' = Holders(n)
  BY <1>1, <1>3, HandOutCounts DEF GetShare
<1>5. held' = [held EXCEPT ![c] = m] /\ free = <<>> /\ free' = free
  BY DEF GetShare, HandOut
<1>6. TypeOK' /\ SizesKnown' /\ NoStaleStream'
  BY <1>2, <1>4 DEF TypeOK, SizesKnown, NoStaleStream, GetShare, Goto, counts, world
<1>7. CallState' /\ PhaseState' /\ HeldStreamOpen'
  BY <1>1, <1>3, <1>5, Unheld
  DEF TypeOK, CallState, PhaseState, HeldStreamOpen, GetShare, Goto, Closed, Enters
<1>8. Listed' /\ ClosedPoolHoldsNothing'
  BY <1>1 DEF Listed, ClosedPoolHoldsNothing, GetShare, Open
<1>9. SlotsAccounted' /\ (creating <= active)' /\ NoLostWakeup'
  <2>1. Creators' = Creators
    BY DEF Creators, GetShare, Enters, Goto, TypeOK
  <2>. QED BY <2>1 DEF SlotsAccounted, NoLostWakeup, GetShare, Goto, counts, TypeOK
<1>10. FreeStreamsUnused'
  BY <1>5, PoolSizePositive DEF FreeStreamsUnused
<1>11. NoStreamLeaked'
  <2>1. \A n \in Open : n \in Streams
    BY DEF Open
  <2>2. Open' = Open /\ Elements(free) = {}
    BY <1>5 DEF Open, GetShare, Elements
  <2>3. \A n \in Open : Holders(n)' # {}
    BY <1>4, <2>1, <2>2 DEF NoStreamLeaked
  <2>. QED BY <2>2, <2>3 DEF NoStreamLeaked
<1>. QED BY <1>4, <1>6, <1>7, <1>8, <1>9, <1>10, <1>11

LEMMA GetIdleStep ==
  ASSUME Inductive, NEW c \in Calls, NEW m \in Streams, NEW S \in SUBSET Cached,
         GetIdle(c, m, S)
  PROVE  Inductive'
<1>. USE DEF Inductive
<1>1. phase = "ready" /\ held[c] = NoStream /\ phase' = phase
  BY EntersReady DEF GetIdle, Enters
<1>2. /\ stream[m] = "cached" /\ psize[m] >= persisted
      /\ stream' = [n \in Streams |-> IF n = m THEN "open"
                                      ELSE IF n \in S THEN "parked" ELSE stream[n]]
      /\ \A n \in S : stream[n] = "cached"
      /\ free = <<>> /\ free' = free
  <2>1. psize[m] >= persisted
    BY DEF GetIdle, IsStale, TypeOK
  <2>2. stream' = [Park(S) EXCEPT ![m] = "open"] /\ stream[m] = "cached"
    BY DEF GetIdle, Cached
  <2>3. stream' = [n \in Streams |-> IF n = m THEN "open"
                                     ELSE IF n \in S THEN "parked" ELSE stream[n]]
    BY <2>2 DEF Park
  <2>. QED BY <2>1, <2>2, <2>3 DEF GetIdle, Cached
<1>3. /\ all' \in Seq(Streams) /\ Len(all') = Len(all) + 1 /\ Len(all) \in Nat
      /\ \A i \in 1..Len(all) : all'[i] = all[i]
      /\ all'[Len(all) + 1] = m
      /\ \A i \in 1..Len(all) : all[i] # m /\ all[i] \in Streams
  BY <1>1, <1>2, AppendProperties DEF GetIdle, TypeOK, Listed
<1>4. /\ held' \in [Calls -> Streams \cup {NoStream}]
      /\ inflight' \in [Streams -> Nat]
      /\ HoldersCounted'
      /\ Holders(m)' = Holders(m) \cup {c}
      /\ \A n \in Streams \ {m} :
           inflight'[n] = inflight[n] /\ Holders(n)' = Holders(n)
  BY <1>1, HandOutCounts DEF GetIdle
<1>5. held' = [held EXCEPT ![c] = m] /\ pc' = [pc EXCEPT ![c] = "hold"]
  BY DEF GetIdle, HandOut, Goto
<1>6. TypeOK' /\ SizesKnown' /\ NoStaleStream'
  <2>1. TypeOK'
    <3>1. stream' \in [Streams -> {"absent", "cached", "parked", "open", "closed"}]
      BY <1>2 DEF TypeOK
    <3>2. pc' \in [Calls -> PcStates]
      BY <1>5 DEF TypeOK, PcStates
    <3>. QED BY <1>3, <1>4, <3>1, <3>2 DEF TypeOK, PcStates, GetIdle, world
  <2>3. SizesKnown'
    BY DEF SizesKnown, GetIdle, world
  <2>2. NoStaleStream'
    BY <1>2, <1>3 DEF NoStaleStream, GetIdle, world
  <2>. QED BY <2>1, <2>2, <2>3
<1>7. CallState' /\ PhaseState' /\ HeldStreamOpen'
  <2>1. CallState'
    BY <1>2, <1>5, Unheld, NamesDisjoint DEF TypeOK, CallState, Streams
  <2>2. PhaseState'
    BY <1>1, <1>2, <1>3, <1>5 DEF TypeOK, PhaseState, Closed
  <2>3. HeldStreamOpen'
    BY <1>2, <1>5 DEF TypeOK, HeldStreamOpen
  <2>. QED BY <2>1, <2>2, <2>3
<1>8. Listed' /\ ClosedPoolHoldsNothing'
  <2>1. \A i, j \in 1..Len(all') : all'[i] = all'[j] => i = j
    BY <1>3 DEF Listed
  <2>2. \A i \in 1..Len(all') : stream'[all'[i]] = "open"
    BY <1>1, <1>2, <1>3 DEF Listed
  <2>3. \A n \in Open' : \E i \in 1..Len(all') : all'[i] = n
    BY <1>1, <1>2, <1>3 DEF Listed, Open
  <2>. QED BY <1>1, <2>1, <2>2, <2>3 DEF Listed, ClosedPoolHoldsNothing
<1>9. SlotsAccounted' /\ (creating <= active)' /\ NoLostWakeup'
  <2>1. Creators' = Creators
    BY <1>5 DEF Creators, GetIdle, Enters, TypeOK
  <2>2. SlotsAccounted' /\ (creating <= active)'
    BY <1>1, <1>3, <2>1, PoolSizePositive, SMTT(30) DEF SlotsAccounted, GetIdle, TypeOK
  <2>3. NoLostWakeup'
    BY <1>5 DEF NoLostWakeup, GetIdle, TypeOK
  <2>. QED BY <2>2, <2>3
<1>10. FreeStreamsUnused'
  BY <1>2, PoolSizePositive DEF FreeStreamsUnused
<1>11. NoStreamLeaked'
  <2>1. \A n \in Open' : n = m \/ n \in Open
    BY <1>2 DEF Open
  <2>2. \A n \in Open : n \in Streams /\ Holders(n) # {}
    BY <1>2 DEF Open, Elements, NoStreamLeaked
  <2>3. \A n \in Open' : Holders(n)' # {}
    BY <1>4, <2>1, <2>2
  <2>. QED BY <2>3 DEF NoStreamLeaked
<1>. QED BY <1>4, <1>6, <1>7, <1>8, <1>9, <1>10, <1>11

LEMMA GetCreateStep == ASSUME Inductive, NEW c \in Calls, GetCreate(c) PROVE Inductive'
<1>. USE DEF Inductive
<1>1. phase = "ready" /\ held[c] = NoStream /\ stream[c] = "absent" /\ phase' = phase
  BY EntersReady DEF GetCreate, Enters
<1>2. /\ stream' = [n \in Streams |-> IF stream[n] = "cached" THEN "parked" ELSE stream[n]]
      /\ free = <<>> /\ free' = free /\ pc' = [pc EXCEPT ![c] = "create"]
  BY DEF GetCreate, Park, Cached, TypeOK, Goto
<1>3. Open' = Open /\ \A m \in Streams : Holders(m)' = Holders(m)
  BY <1>2 DEF Open, GetCreate, Holders
<1>4. TypeOK' /\ SizesKnown' /\ NoStaleStream'
  BY <1>2 DEF TypeOK, SizesKnown, NoStaleStream, GetCreate, world
<1>5. CallState' /\ PhaseState' /\ HeldStreamOpen'
  <2>1. CallState'
    BY <1>1, <1>2 DEF TypeOK, CallState, GetCreate, Streams
  <2>2. PhaseState'
    BY <1>1, <1>2 DEF TypeOK, PhaseState, Closed, GetCreate
  <2>3. HeldStreamOpen'
    BY <1>2 DEF TypeOK, HeldStreamOpen, GetCreate
  <2>. QED BY <2>1, <2>2, <2>3
<1>6. Listed' /\ ClosedPoolHoldsNothing'
  <2>1. \A i \in 1..Len(all) : all[i] \in Streams
    BY DEF TypeOK
  <2>. QED BY <1>1, <1>2, <1>3, <2>1 DEF Listed, ClosedPoolHoldsNothing, GetCreate
<1>7. SlotsAccounted' /\ (creating <= active)' /\ NoLostWakeup'
  <2>1. Creators' = Creators \cup {c} /\ c \notin Creators
    BY <1>2 DEF Creators, GetCreate, Enters, TypeOK
  <2>2. Cardinality(Creators') = Cardinality(Creators) + 1
    BY <2>1, SubsetsOfCalls, CountUp
  <2>3. SlotsAccounted' /\ (creating <= active)'
    BY <1>1, <2>2, PoolSizePositive DEF SlotsAccounted, GetCreate, TypeOK
  <2>4. NoLostWakeup'
    BY DEF NoLostWakeup, GetCreate, TypeOK
  <2>. QED BY <2>3, <2>4
<1>8. FreeStreamsUnused'
  BY <1>2, PoolSizePositive DEF FreeStreamsUnused
<1>9. NoStreamLeaked' /\ HoldersCounted'
  <2>1. \A n \in Open : n \in Streams /\ Holders(n) # {}
    BY <1>2 DEF Open, Elements, NoStreamLeaked
  <2>. QED BY <1>3, <2>1, SameHolders DEF NoStreamLeaked, GetCreate
<1>. QED BY <1>4, <1>5, <1>6, <1>7, <1>8, <1>9

\* When a call stops being a creator, creating and active have a slot to give
\* back.
LEMMA CreatorLeaves ==
  ASSUME Inductive, NEW c \in Calls, NEW l \in PcStates \ {"create"},
         pc[c] = "create", pc' = [pc EXCEPT ![c] = l], creating' = creating - 1
  PROVE  /\ creating' = Cardinality(Creators') /\ creating' \in Nat
         /\ creating \in Nat \ {0} /\ active \in Nat \ {0}
<1>1. Creators' = Creators \ {c} /\ c \in Creators
  BY DEF Creators, Inductive, TypeOK
<1>2. /\ Cardinality(Creators') = Cardinality(Creators) - 1
      /\ Cardinality(Creators) \in Nat \ {0} /\ Cardinality(Creators') \in Nat
  BY <1>1, SubsetsOfCalls, CountDown
<1>. QED BY <1>2 DEF Inductive, SlotsAccounted, TypeOK

LEMMA CreateFailStep == ASSUME Inductive, NEW c \in Calls, CreateFail(c) PROVE Inductive'
<1>. USE DEF Inductive
<1>1. pc' = [pc EXCEPT ![c] = "failing"] /\ pc[c] = "create"
  BY DEF CreateFail, Goto
<1>2. /\ creating' = Cardinality(Creators') /\ creating' \in Nat
      /\ creating \in Nat \ {0} /\ active \in Nat \ {0}
  BY <1>1, CreatorLeaves DEF CreateFail, PcStates
<1>3. TypeOK' /\ CallState' /\ PhaseState' /\ SizesKnown' /\ NoStaleStream'
  <2>1. phase \notin {"new", "opening", "failed"}
    BY <1>1 DEF PhaseState
  <2>2. TypeOK'
    BY <1>1, <1>2 DEF TypeOK, CreateFail, KeptByFailure, world
  <2>. QED BY <1>1, <2>1, <2>2
       DEF TypeOK, CallState, PhaseState, SizesKnown, NoStaleStream, Closed,
           CreateFail, KeptByFailure, world
<1>4. SlotsAccounted' /\ (creating <= active)'
  <2>1. /\ creating' = creating - 1 /\ active' = active - 1
        /\ phase' = phase /\ all' = all /\ Len(all) \in Nat
    BY DEF CreateFail, KeptByFailure, TypeOK
  <2>. QED BY <1>2, <2>1, PoolSizePositive DEF SlotsAccounted
<1>5. NoLostWakeup'
  BY DEF NoLostWakeup, CreateFail
<1>. QED BY <1>3, <1>4, <1>5, SameQueues DEF CreateFail, KeptByFailure

LEMMA CreateTooLateStep ==
  ASSUME Inductive, NEW c \in Calls, CreateTooLate(c) PROVE Inductive'
<1>. USE DEF Inductive
<1>1. /\ pc' = [pc EXCEPT ![c] = "raised"] /\ pc[c] = "create"
      /\ stream' = [stream EXCEPT ![c] = "closed"] /\ stream[c] = "absent"
      /\ free = <<>> /\ free' = <<>> /\ phase' = phase /\ c \in Streams
      /\ psize' = [psize EXCEPT ![c] = objSize]
  BY DEF CreateTooLate, Goto, CallState, PhaseState, Streams
<1>2. /\ creating' = Cardinality(Creators') /\ creating' \in Nat
      /\ creating \in Nat \ {0} /\ active \in Nat \ {0}
  BY <1>1, CreatorLeaves DEF CreateTooLate, PcStates
<1>3. Open' = Open /\ \A m \in Streams : Holders(m)' = Holders(m)
  BY <1>1 DEF Open, CreateTooLate, Holders, TypeOK
<1>4. TypeOK'
  BY <1>1, <1>2 DEF TypeOK, CreateTooLate
<1>5. CallState' /\ PhaseState' /\ HeldStreamOpen'
  <2>1. CallState'
    BY <1>1 DEF TypeOK, CallState, CreateTooLate, Streams
  <2>2. PhaseState' /\ HeldStreamOpen'
    BY <1>1 DEF TypeOK, PhaseState, HeldStreamOpen, Closed, CreateTooLate
  <2>. QED BY <2>1, <2>2
<1>6. Listed' /\ ClosedPoolHoldsNothing'
  <2>1. \A i \in 1..Len(all) : all[i] \in Streams
    BY DEF TypeOK
  <2>2. Listed'
    BY <1>1, <1>3, <2>1 DEF Listed, CreateTooLate, Closed, TypeOK
  <2>3. ClosedPoolHoldsNothing'
    BY <1>1, <1>3 DEF ClosedPoolHoldsNothing, TypeOK, Open
  <2>. QED BY <2>2, <2>3
<1>7. SlotsAccounted' /\ (creating <= active)' /\ NoLostWakeup'
  <2>1. SlotsAccounted' /\ (creating <= active)'
    <3>1. /\ creating' = creating - 1 /\ active' = active - 1
          /\ phase' = phase /\ all' = all /\ Len(all) \in Nat
      BY DEF CreateTooLate, TypeOK
    <3>. QED BY <1>2, <3>1, PoolSizePositive DEF SlotsAccounted
  <2>2. NoLostWakeup'
    BY <1>1 DEF NoLostWakeup, CreateTooLate, PhaseState, Closed, TypeOK
  <2>. QED BY <2>1, <2>2
<1>8. SizesKnown'
  BY <1>1 DEF SizesKnown, CreateTooLate, TypeOK
<1>9. NoStaleStream'
  BY <1>1 DEF SizesKnown, NoStaleStream, CreateTooLate, TypeOK
<1>10. FreeStreamsUnused'
  BY <1>1, PoolSizePositive DEF FreeStreamsUnused
<1>11. NoStreamLeaked' /\ HoldersCounted'
  <2>1. \A n \in Open : n \in Streams /\ Holders(n) # {}
    BY <1>1 DEF Open, Elements, NoStreamLeaked
  <2>. QED BY <1>3, <2>1, SameHolders DEF NoStreamLeaked, CreateTooLate
<1>. QED BY <1>4, <1>5, <1>6, <1>7, <1>8, <1>9, <1>10, <1>11

LEMMA CreateEndStep == ASSUME Inductive, NEW c \in Calls, CreateEnd(c) PROVE Inductive'
<1>. USE DEF Inductive
<1>1. phase = "ready" /\ held[c] = NoStream /\ stream[c] = "absent" /\ phase' = phase
  BY EntersReady DEF CreateEnd
<1>2. /\ pc[c] = "create" /\ c \in Streams /\ c \in Calls
      /\ stream' = [stream EXCEPT ![c] = "open"]
      /\ psize' = [psize EXCEPT ![c] = objSize]
      /\ free' = free /\ objSize' = objSize /\ persisted' = persisted
  BY DEF CreateEnd, Streams
<1>3. PICK l \in {"telling", "hold"} :
        /\ pc' = [pc EXCEPT ![c] = l]
        /\ IF creating' = 0 THEN notifiers' = notifiers \cup {c} ELSE notifiers' = notifiers
  BY DEF CreateEnd, Goto
<1>4. /\ creating' = Cardinality(Creators') /\ creating' \in Nat
      /\ creating \in Nat \ {0} /\ active \in Nat \ {0}
  BY <1>2, <1>3, CreatorLeaves DEF CreateEnd, PcStates
<1>5. /\ all' \in Seq(Streams) /\ Len(all') = Len(all) + 1 /\ Len(all) \in Nat
      /\ \A i \in 1..Len(all) : all'[i] = all[i]
      /\ all'[Len(all) + 1] = c
      /\ \A i \in 1..Len(all) : all[i] # c /\ all[i] \in Streams
  BY <1>1, <1>2, AppendProperties DEF CreateEnd, TypeOK, Listed
<1>6. /\ held' \in [Calls -> Streams \cup {NoStream}]
      /\ inflight' \in [Streams -> Nat]
      /\ HoldersCounted'
      /\ Holders(c)' = Holders(c) \cup {c}
      /\ \A n \in Streams \ {c} :
           inflight'[n] = inflight[n] /\ Holders(n)' = Holders(n)
  BY <1>1, <1>2, HandOutCounts DEF CreateEnd
<1>7. held' = [held EXCEPT ![c] = c]
  BY DEF CreateEnd, HandOut
<1>8. TypeOK'
  <2>1. pc' \in [Calls -> PcStates] /\ notifiers' \subseteq Calls
    BY <1>3 DEF TypeOK, PcStates
  <2>2. stream' \in [Streams -> {"absent", "cached", "parked", "open", "closed"}]
        /\ psize' \in [Streams -> Nat]
    BY <1>2 DEF TypeOK
  <2>. QED BY <1>2, <1>4, <1>5, <1>6, <2>1, <2>2 DEF TypeOK, PcStates, CreateEnd
<1>9. SizesKnown' /\ NoStaleStream'
  <2>1. SizesKnown'
    BY <1>2 DEF SizesKnown, TypeOK
  <2>2. NoStaleStream'
    <3>1. \A i \in 1..Len(all) : psize'[all'[i]] = psize[all[i]]
      BY <1>2, <1>5 DEF TypeOK
    <3>2. psize'[all'[Len(all) + 1]] = objSize /\ persisted <= objSize
      BY <1>2, <1>5 DEF TypeOK, SizesKnown
    <3>. QED BY <1>2, <1>5, <3>1, <3>2 DEF NoStaleStream
  <2>. QED BY <2>1, <2>2
<1>10. CallState' /\ PhaseState' /\ HeldStreamOpen'
  <2>1. CallState'
    BY <1>2, <1>3, <1>7, Unheld DEF TypeOK, CallState, Streams
  <2>2. PhaseState'
    BY <1>1, <1>5 DEF PhaseState, Closed, TypeOK
  <2>3. HeldStreamOpen'
    BY <1>2, <1>7 DEF TypeOK, HeldStreamOpen
  <2>. QED BY <2>1, <2>2, <2>3
<1>11. Listed' /\ ClosedPoolHoldsNothing'
  <2>1. \A i, j \in 1..Len(all') : all'[i] = all'[j] => i = j
    BY <1>5 DEF Listed
  <2>2. \A i \in 1..Len(all') : stream'[all'[i]] = "open"
    <3>1. \A i \in 1..Len(all) : stream'[all'[i]] = "open"
      <4>1. \A i \in 1..Len(all) : stream[all[i]] = "open"
        BY <1>1 DEF Listed
      <4>2. \A m \in Streams \ {c} : stream'[m] = stream[m]
        BY <1>2 DEF TypeOK
      <4>. QED BY <1>5, <4>1, <4>2
    <3>2. stream'[all'[Len(all) + 1]] = "open"
      BY <1>2, <1>5 DEF TypeOK
    <3>. QED BY <1>5, <3>1, <3>2
  <2>3. \A n \in Open' : \E i \in 1..Len(all') : all'[i] = n
    <3>1. \A n \in Open' : n = c \/ n \in Open
      BY <1>2 DEF Open, TypeOK
    <3>2. \A n \in Open : \E i \in 1..Len(all) : all[i] = n
      BY <1>1 DEF Listed
    <3>. QED BY <1>5, <3>1, <3>2
  <2>. QED BY <1>1, <2>1, <2>2, <2>3 DEF Listed, ClosedPoolHoldsNothing
<1>12. SlotsAccounted' /\ (creating <= active)' /\ NoLostWakeup'
  <2>1. SlotsAccounted' /\ (creating <= active)'
    BY <1>1, <1>4, <1>5 DEF SlotsAccounted, CreateEnd, TypeOK
  <2>2. NoLostWakeup'
    <3>1. creating' > 0 \/ notifiers' # {}
      BY <1>3, <1>4
    <3>. QED BY <3>1 DEF NoLostWakeup
  <2>. QED BY <2>1, <2>2
<1>13. FreeStreamsUnused'
  <2>1. \A i \in 1..Len(free) : free[i] # c /\ free[i] \in Streams
    BY <1>1 DEF FreeStreamsUnused, TypeOK
  <2>. QED BY <1>2, <1>6, <2>1 DEF FreeStreamsUnused, TypeOK
<1>14. NoStreamLeaked'
  <2>1. \A n \in Open' : n = c \/ n \in Open
    BY <1>2 DEF Open, TypeOK
  <2>2. Elements(free)' = Elements(free)
    BY <1>2 DEF Elements
  <2>3. \A n \in Open : n \in Streams /\ (n \in Elements(free) \/ Holders(n) # {})
    BY DEF Open, NoStreamLeaked
  <2>4. \A n \in Open' : n \in Elements(free)' \/ Holders(n)' # {}
    BY <1>6, <2>1, <2>2, <2>3
  <2>. QED BY <2>4 DEF NoStreamLeaked
<1>. QED BY <1>6, <1>8, <1>9, <1>10, <1>11, <1>12, <1>13, <1>14

LEMMA NotifyAllStep == ASSUME Inductive, NEW c \in Calls, NotifyAll(c) PROVE Inductive'
<1>. USE DEF Inductive
<1>1. /\ pc' \in [Calls -> PcStates]
      /\ \A d \in Calls : /\ pc'[d] # "wait"
                          /\ pc[d] = "wait" => pc'[d] = "lock"
                          /\ pc[d] \notin {"wait", "telling", "failing"} => pc'[d] = pc[d]
                          /\ pc[d] = "telling" => pc'[d] \in {"telling", "hold"}
                          /\ pc[d] = "failing" => pc'[d] \in {"failing", "raised"}
  BY DEF NotifyAll, TypeOK, PcStates
<1>2. TypeOK' /\ SizesKnown' /\ NoStaleStream'
  BY <1>1 DEF TypeOK, PcStates, SizesKnown, NoStaleStream, NotifyAll, counts, world
<1>3. CallState' /\ PhaseState'
  BY <1>1 DEF TypeOK, CallState, PhaseState, NotifyAll, Closed, counts
<1>4. SlotsAccounted' /\ (creating <= active)' /\ NoLostWakeup'
  <2>1. Creators' = Creators
    BY <1>1 DEF Creators, TypeOK
  <2>. QED BY <1>1, <2>1 DEF SlotsAccounted, NoLostWakeup, NotifyAll, counts
<1>. QED BY <1>2, <1>3, <1>4, SameQueues DEF NotifyAll

\* The last holder requeues the stream, or closes it when the pool is closed.
LEMMA LetGoStep ==
  ASSUME Inductive, NEW c \in Calls, NEW l \in {"done", "raised"},
         pc[c] \in {"hold", "telling"}, LetGo(c), Goto(c, l)
  PROVE  Inductive'
<1>. USE DEF Inductive
<1>. PICK m : m = held[c]
  OBVIOUS
<1>1. m \in Streams /\ stream[m] = "open" /\ phase' = phase /\ c \in Holders(m)
  BY DEF CallState, HeldStreamOpen, TypeOK, LetGo, KeptByReturn, Holders
<1>2. /\ held' \in [Calls -> Streams \cup {NoStream}]
      /\ inflight' \in [Streams -> Nat]
      /\ HoldersCounted'
      /\ inflight[m] >= 1
      /\ inflight[m] > 1 <=> Holders(m)' # {}
      /\ inflight[m] <= 1 => inflight'[m] = 0
      /\ Holders(m)' = Holders(m) \ {c}
      /\ \A n \in Streams \ {m} :
           inflight'[n] = inflight[n] /\ Holders(n)' = Holders(n)
  BY <1>1, LetGoCounts
<1>3. held' = [held EXCEPT ![c] = NoStream] /\ pc' = [pc EXCEPT ![c] = l]
  BY DEF LetGo, Goto
<1>4. /\ all' = all /\ rr' = rr /\ active' = active /\ creating' = creating
      /\ psize' = psize /\ objSize' = objSize /\ persisted' = persisted
      /\ finalized' = finalized /\ notifiers' = notifiers
  BY DEF LetGo, KeptByReturn, counts, world
<1>5. \A i \in 1..Len(free) : free[i] # m /\ free[i] \in Streams
  BY <1>2 DEF FreeStreamsUnused, TypeOK
<1>6. phase \notin {"new", "opening", "failed"}
  BY DEF PhaseState
<1>6a. inflight[m] \in Nat
  BY <1>1 DEF TypeOK
<1>7. SizesKnown' /\ NoStaleStream'
  BY <1>4 DEF SizesKnown, NoStaleStream
<1>8. SlotsAccounted' /\ (creating <= active)' /\ NoLostWakeup'
  <2>1. Creators' = Creators
    BY <1>3 DEF Creators, TypeOK
  <2>. QED BY <1>1, <1>3, <1>4, <2>1 DEF SlotsAccounted, NoLostWakeup, TypeOK
<1>9. CASE inflight[m] > 1
  <2>1. free' = free /\ stream' = stream
    BY <1>9, <1>6a DEF LetGo
  <2>2. TypeOK'
    BY <1>1, <1>2, <1>3, <1>4, <2>1 DEF TypeOK
  <2>3. CallState' /\ PhaseState' /\ HeldStreamOpen'
    BY <1>1, <1>3, <1>4, <1>6, <2>1, Unheld
    DEF TypeOK, CallState, PhaseState, HeldStreamOpen, Closed
  <2>4. Listed'
    BY <1>1, <1>4, <2>1 DEF Listed, Open
  <2>5. FreeStreamsUnused'
    BY <1>2, <1>5, <2>1 DEF FreeStreamsUnused
  <2>6. Open' = Open /\ Elements(free)' = Elements(free)
    BY <2>1 DEF Open, Elements
  <2>7. \A n \in Streams : Holders(n) # {} => Holders(n)' # {}
    BY <1>2, <1>9
  <2>8. NoStreamLeaked' /\ ClosedPoolHoldsNothing'
    BY <1>1, <2>1, <2>6, <2>7 DEF NoStreamLeaked, ClosedPoolHoldsNothing, Open
  <2>. QED BY <1>2, <1>7, <1>8, <2>2, <2>3, <2>4, <2>5, <2>8
<1>10. CASE inflight[m] <= 1 /\ Closed
  <2>1. free' = free /\ free = <<>> /\ stream' = [stream EXCEPT ![m] = "closed"]
    BY <1>10 DEF LetGo, TypeOK, PhaseState
  <2>2. TypeOK'
    BY <1>1, <1>2, <1>3, <1>4, <2>1 DEF TypeOK
  <2>3. \A d \in Calls : held'[d] # m
    <3>1. Holders(m)' = {}
      BY <1>2, <1>10, <1>6a
    <3>. QED BY <3>1 DEF Holders
  <2>4. CallState' /\ PhaseState' /\ HeldStreamOpen'
    BY <1>1, <1>3, <1>4, <1>6, <2>1, <2>3, Unheld, SMTT(30)
    DEF TypeOK, CallState, PhaseState, HeldStreamOpen, Closed
  <2>5. Open' = Open \ {m} /\ Elements(free)' = {}
    BY <2>1 DEF Open, Elements, TypeOK
  <2>6. Listed'
    <3>1. \A i \in 1..Len(all) : all[i] \in Streams
      BY DEF TypeOK
    <3>. QED BY <1>1, <1>4, <1>10, <2>1, <2>5, <3>1 DEF Listed, Closed, TypeOK
  <2>7. FreeStreamsUnused'
    BY <2>1, PoolSizePositive DEF FreeStreamsUnused
  <2>8. \A n \in Open' : n \in Open /\ n \in Streams /\ Holders(n)' = Holders(n)
    BY <1>2, <2>5 DEF Open
  <2>9. NoStreamLeaked'
    BY <2>1, <2>8 DEF NoStreamLeaked, Elements
  <2>10. ClosedPoolHoldsNothing'
    BY <1>1, <2>1, <2>8 DEF ClosedPoolHoldsNothing, TypeOK
  <2>. QED BY <1>2, <1>7, <1>8, <2>2, <2>4, <2>6, <2>7, <2>9, <2>10
<1>11. CASE inflight[m] <= 1 /\ ~Closed
  <2>1. free' = Append(free, m) /\ stream' = stream /\ phase = "ready"
    BY <1>2, <1>6, <1>11 DEF LetGo, TypeOK, Closed
  <2>2. /\ free' \in Seq(Streams) /\ Len(free') = Len(free) + 1 /\ Len(free) \in Nat
        /\ \A i \in 1..Len(free) : free'[i] = free[i]
        /\ free'[Len(free) + 1] = m
    BY <1>1, <2>1, AppendProperties DEF TypeOK
  <2>3. TypeOK'
    BY <1>1, <1>2, <1>3, <1>4, <2>1, <2>2 DEF TypeOK
  <2>4. CallState' /\ PhaseState' /\ HeldStreamOpen'
    BY <1>1, <1>3, <1>4, <1>6, <1>11, <2>1, Unheld
    DEF TypeOK, CallState, PhaseState, HeldStreamOpen, Closed
  <2>5. Listed'
    BY <1>1, <1>4, <2>1 DEF Listed, Open
  <2>6. FreeStreamsUnused'
    <3>1. \A i \in 1..Len(free') : stream'[free'[i]] = "open" /\ inflight'[free'[i]] = 0
      <4>1. \A i \in 1..Len(free) : stream[free[i]] = "open" /\ inflight[free[i]] = 0
        BY DEF FreeStreamsUnused
      <4>2. \A i \in 1..Len(free') : i \in 1..Len(free) \/ i = Len(free) + 1
        BY <2>2
      <4>. QED BY <1>1, <1>2, <1>5, <1>11, <2>1, <2>2, <4>1, <4>2
    <3>2. \A i, j \in 1..Len(free') : free'[i] = free'[j] => i = j
      BY <1>5, <2>2 DEF FreeStreamsUnused
    <3>3. Len(free') <= Len(all')
      <4>1. \A i \in 1..Len(free') : \E j \in 1..Len(all') : all'[j] = free'[i]
        <5>1. \A i \in 1..Len(free') : free'[i] \in Open'
          BY <2>2, <3>1 DEF Open
        <5>2. Open' = Open /\ all' = all
          BY <1>4, <2>1 DEF Open
        <5>. QED BY <2>1, <5>1, <5>2 DEF Listed
      <4>. QED BY <2>3, <3>2, <4>1, Pigeonhole DEF TypeOK
    <3>4. Len(all') <= PoolSize
      BY <1>4, <2>1, PoolSizePositive DEF SlotsAccounted, TypeOK
    <3>5. Len(free') \in Nat /\ Len(all') \in Nat /\ PoolSize \in Nat
      BY <2>3, PoolSizePositive DEF TypeOK
    <3>. QED BY <3>1, <3>2, <3>3, <3>4, <3>5 DEF FreeStreamsUnused
  <2>7. NoStreamLeaked'
    <3>1. \A n \in Elements(free) \cup {m} : n \in Elements(free)'
      <4>1. m \in Elements(free)'
        BY <2>2 DEF Elements
      <4>2. \A n \in Elements(free) : n \in Elements(free)'
        BY <2>2 DEF Elements
      <4>. QED BY <4>1, <4>2
    <3>2. Open' = Open /\ \A n \in Open : n \in Streams
      BY <2>1 DEF Open
    <3>. QED BY <1>2, <3>1, <3>2 DEF NoStreamLeaked
  <2>8. ClosedPoolHoldsNothing'
    BY <1>1, <2>1 DEF ClosedPoolHoldsNothing
  <2>. QED BY <1>2, <1>7, <1>8, <2>3, <2>4, <2>5, <2>6, <2>7, <2>8
<1>. QED BY <1>9, <1>10, <1>11, <1>6a

LEMMA ReturnStep == ASSUME Inductive, NEW c \in Calls, Return(c) PROVE Inductive'
BY LetGoStep DEF Return

LEMMA CancelHolderStep ==
  ASSUME Inductive, NEW c \in Calls, CancelHolder(c) PROVE Inductive'
BY LetGoStep DEF CancelHolder

\* Before initialize() is through, no call has started and the pool is empty.
LEMMA Untouched ==
  ASSUME Inductive, phase \in {"new", "opening", "failed"}
  PROVE  /\ all = <<>> /\ free = <<>> /\ active = 0 /\ creating = 0
         /\ \A c \in Calls : pc[c] = "start" /\ held[c] = NoStream
                             /\ stream[c] = "absent"
         /\ \A m \in Streams : inflight[m] = 0 /\ Holders(m) = {}
         /\ Open = {}
<1>1. /\ all = <<>> /\ free = <<>> /\ active = 0
      /\ \A c \in Calls : pc[c] = "start"
  BY DEF Inductive, PhaseState
<1>2. \A c \in Calls : held[c] = NoStream /\ stream[c] = "absent"
  BY <1>1 DEF Inductive, CallState, TypeOK
<1>3. \A m \in Streams : Holders(m) = {}
  BY <1>2, Unheld DEF Holders
<1>4. \A m \in Streams : inflight[m] = 0
  BY <1>3, FS_EmptySet DEF Inductive, HoldersCounted
<1>5. creating = 0
  BY <1>1 DEF Inductive, TypeOK
<1>6. Open = {}
  <2>1. \A m \in Open : m \in Streams
    BY DEF Open
  <2>. QED BY <1>1, <1>3, <2>1 DEF Inductive, NoStreamLeaked, Elements
<1>. QED BY <1>1, <1>2, <1>3, <1>4, <1>5, <1>6

\* The pool becomes ready with its first stream, m, free.
LEMMA AdoptStep ==
  ASSUME Inductive, phase \in {"new", "opening"}, NEW m \in Streams, m \notin Calls,
         Adopt(m), stream' \in [Streams -> {"absent", "cached", "parked", "open", "closed"}],
         \A n \in Streams : stream'[n] = "open" <=> n = m,
         \A c \in Calls : stream'[c] = "absent",
         psize' \in [Streams -> Nat], \A n \in Streams : psize'[n] <= objSize,
         UNCHANGED <<pc, held, rr, creating, inflight, objSize, finalized, notifiers>>
  PROVE  Inductive'
<1>. USE DEF Inductive
<1>1. /\ creating = 0 /\ \A c \in Calls : pc[c] = "start" /\ held[c] = NoStream
      /\ \A n \in Streams : inflight[n] = 0
  BY Untouched
<1>2. /\ phase' = "ready" /\ all' = <<m>> /\ free' = <<m>> /\ active' = 1
      /\ persisted' = psize'[m]
  BY DEF Adopt
<1>3. /\ all' \in Seq(Streams) /\ Len(all') = 1 /\ all'[1] = m
      /\ free' \in Seq(Streams) /\ Len(free') = 1 /\ free'[1] = m
  BY <1>2
<1>4. Open' = {m} /\ Elements(free)' = {m}
  BY <1>3 DEF Open, Elements
<1>5. TypeOK'
  BY <1>2, <1>3 DEF TypeOK
<1>6. CallState' /\ PhaseState' /\ HeldStreamOpen'
  BY <1>1, <1>2 DEF CallState, PhaseState, HeldStreamOpen, Closed
<1>7. Listed' /\ FreeStreamsUnused'
  <2>1. Listed'
    BY <1>2, <1>3, <1>4 DEF Listed
  <2>2. FreeStreamsUnused'
    BY <1>1, <1>3, PoolSizePositive DEF FreeStreamsUnused
  <2>. QED BY <2>1, <2>2
<1>8. SizesKnown' /\ NoStaleStream'
  BY <1>2, <1>3 DEF SizesKnown, NoStaleStream, TypeOK
<1>9. SlotsAccounted' /\ (creating <= active)' /\ NoLostWakeup'
  <2>1. Creators' = Creators
    BY DEF Creators
  <2>2. creating' = 0 /\ creating' = Cardinality(Creators')
    BY <1>1, <2>1 DEF SlotsAccounted
  <2>3. SlotsAccounted' /\ (creating <= active)'
    BY <1>2, <1>3, <2>2, PoolSizePositive DEF SlotsAccounted
  <2>4. NoLostWakeup'
    BY <1>1 DEF NoLostWakeup
  <2>. QED BY <2>3, <2>4
<1>10. NoStreamLeaked' /\ ClosedPoolHoldsNothing'
  BY <1>2, <1>4 DEF NoStreamLeaked, ClosedPoolHoldsNothing
<1>. QED BY <1>5, <1>6, <1>7, <1>8, <1>9, <1>10, SameHolders

LEMMA InitializeFromCacheStep ==
  ASSUME Inductive, NEW m \in Streams, NEW S \in SUBSET Cached,
         InitializeFromCache(m, S)
  PROVE  Inductive'
<1>1. /\ phase = "new" /\ stream[m] = "cached" /\ psize' = psize
      /\ stream' = [Park(S) EXCEPT ![m] = "open"]
  BY DEF InitializeFromCache, Cached
<1>2. stream' = [n \in Streams |-> IF n = m THEN "open"
                                   ELSE IF n \in S THEN "parked" ELSE stream[n]]
  BY <1>1 DEF Park
<1>3. /\ m \notin Calls /\ \A c \in Calls : stream'[c] = "absent"
      /\ \A n \in Streams : stream[n] # "open"
  <2>1. \A c \in Calls : stream[c] = "absent" /\ c \in Streams
    BY <1>1, Untouched DEF Streams
  <2>2. \A n \in S : stream[n] = "cached"
    BY DEF Cached
  <2>3. Open = {}
    BY <1>1, Untouched
  <2>. QED BY <1>1, <1>2, <2>1, <2>2, <2>3 DEF Open
<1>4. /\ stream' \in [Streams -> {"absent", "cached", "parked", "open", "closed"}]
      /\ \A n \in Streams : stream'[n] = "open" <=> n = m
  BY <1>2, <1>3 DEF Inductive, TypeOK
<1>5. psize' \in [Streams -> Nat] /\ \A n \in Streams : psize'[n] <= objSize
  BY <1>1 DEF Inductive, TypeOK, SizesKnown
<1>. QED BY <1>1, <1>3, <1>4, <1>5, AdoptStep DEF InitializeFromCache

LEMMA InitializeEndStep == ASSUME Inductive, InitializeEnd PROVE Inductive'
<1>1. First \in Streams /\ First \notin Calls
  BY NamesDisjoint DEF Streams
<1>2. phase = "opening" /\ stream' = [stream EXCEPT ![First] = "open"]
      /\ psize' = [psize EXCEPT ![First] = objSize]
  BY DEF InitializeEnd
<1>3. /\ \A c \in Calls : stream'[c] = "absent"
      /\ \A n \in Streams : stream'[n] = "open" <=> n = First
      /\ stream' \in [Streams -> {"absent", "cached", "parked", "open", "closed"}]
  <2>1. (\A c \in Calls : stream[c] = "absent") /\ Open = {}
    BY <1>2, Untouched
  <2>. QED BY <1>1, <1>2, <2>1 DEF Inductive, TypeOK, Streams, Open
<1>4. psize' \in [Streams -> Nat] /\ \A n \in Streams : psize'[n] <= objSize
  BY <1>1, <1>2 DEF Inductive, TypeOK, SizesKnown
<1>. QED BY <1>1, <1>2, <1>3, <1>4, AdoptStep DEF InitializeEnd

LEMMA InitializeBeginStep == ASSUME Inductive, InitializeBegin PROVE Inductive'
<1>. USE DEF Inductive
<1>1. /\ all = <<>> /\ free = <<>> /\ active = 0 /\ creating = 0
      /\ \A c \in Calls : pc[c] = "start" /\ held[c] = NoStream /\ stream[c] = "absent"
      /\ Open = {} /\ stream[First] = "absent" /\ phase' = "opening"
  BY Untouched DEF InitializeBegin, PhaseState
<1>2. /\ stream' \in [Streams -> {"absent", "cached", "parked", "open", "closed"}]
      /\ \A m \in Streams : stream[m] \in {"absent", "open"} => stream'[m] = stream[m]
      /\ \A m \in Streams : stream'[m] = "open" => stream[m] = "open"
      /\ persisted' \in Nat /\ persisted' <= objSize
  BY DEF InitializeBegin, Park, Cached, TypeOK, SizesKnown
<1>3. Open' = {}
  BY <1>1, <1>2 DEF Open
<1>4. /\ UNCHANGED <<pc, held, free, all, rr, counts, inflight, world, notifiers>>
  BY DEF InitializeBegin
<1>5. TypeOK' /\ SizesKnown'
  BY <1>1, <1>2, <1>4 DEF TypeOK, SizesKnown, counts, world
<1>6. CallState' /\ PhaseState' /\ HeldStreamOpen'
  BY <1>1, <1>2, <1>4, NamesDisjoint
  DEF CallState, PhaseState, HeldStreamOpen, Closed, Streams, counts
<1>7. Listed' /\ FreeStreamsUnused' /\ NoStaleStream'
  BY <1>1, <1>3, <1>4, PoolSizePositive DEF Listed, FreeStreamsUnused, NoStaleStream
<1>8. SlotsAccounted' /\ (creating <= active)' /\ NoLostWakeup'
  <2>1. Creators' = Creators
    BY <1>4 DEF Creators
  <2>2. SlotsAccounted' /\ (creating <= active)'
    <3>1. /\ creating' = 0 /\ active' = 0 /\ Len(all') = 0
          /\ creating' = Cardinality(Creators')
      BY <1>1, <1>4, <2>1 DEF SlotsAccounted, counts
    <3>. QED BY <3>1, PoolSizePositive DEF SlotsAccounted
  <2>. QED BY <1>1, <1>4, <2>2 DEF NoLostWakeup
<1>9. NoStreamLeaked' /\ ClosedPoolHoldsNothing' /\ HoldersCounted'
  BY <1>1, <1>3, <1>4, SameHolders DEF NoStreamLeaked, ClosedPoolHoldsNothing
<1>. QED BY <1>5, <1>6, <1>7, <1>8, <1>9

LEMMA InitializeFailStep == ASSUME Inductive, InitializeFail PROVE Inductive'
<1>. USE DEF Inductive, InitializeFail
<1>1. /\ all = <<>> /\ free = <<>> /\ Open = {}
      /\ \A c \in Calls : pc[c] = "start"
  BY Untouched
<1>2. TypeOK' /\ CallState' /\ PhaseState' /\ SizesKnown' /\ NoStaleStream'
      /\ HeldStreamOpen' /\ NoLostWakeup'
  BY <1>1 DEF TypeOK, CallState, PhaseState, SizesKnown, NoStaleStream, Closed,
              HeldStreamOpen, NoLostWakeup, counts, world
<1>3. Open' = Open
  BY DEF Open
<1>4. Listed' /\ FreeStreamsUnused'
  BY <1>1, <1>3, PoolSizePositive DEF Listed, FreeStreamsUnused
<1>5. SlotsAccounted' /\ (creating <= active)'
  <2>1. Creators' = Creators
    BY DEF Creators
  <2>. QED BY <2>1 DEF SlotsAccounted, counts
<1>6. NoStreamLeaked' /\ ClosedPoolHoldsNothing' /\ HoldersCounted'
  BY <1>1, <1>3, SameHolders DEF NoStreamLeaked, ClosedPoolHoldsNothing
<1>. QED BY <1>2, <1>4, <1>5, <1>6

LEMMA CloseBeginStep ==
  ASSUME Inductive, NEW kept \in SUBSET Elements(free), CloseBegin(kept)
  PROVE  Inductive'
<1>. USE DEF Inductive
<1>1. /\ phase \in {"ready", "failed"} /\ phase' = "closing" /\ free' = <<>>
      /\ UNCHANGED <<held, all, rr, counts, inflight, world, persisted, notifiers>>
  BY DEF CloseBegin
<1>2. /\ pc' \in [Calls -> PcStates]
      /\ \A c \in Calls : /\ pc'[c] # "wait"
                          /\ pc[c] = "wait" => pc'[c] = "lock"
                          /\ pc[c] # "wait" => pc'[c] = pc[c]
  BY DEF CloseBegin, TypeOK, PcStates
<1>3. \A m \in Elements(free) : stream[m] = "open" /\ inflight[m] = 0 /\ m \in Streams
  BY DEF Elements, FreeStreamsUnused, TypeOK
<1>4. /\ stream' \in [Streams -> {"absent", "cached", "parked", "open", "closed"}]
      /\ \A m \in Streams \ Elements(free) : stream'[m] = stream[m]
      /\ \A m \in Elements(free) : stream'[m] \in {"cached", "closed"}
  BY <1>3 DEF CloseBegin, TypeOK
<1>5. Open' = Open \ Elements(free)
  BY <1>3, <1>4 DEF Open
<1>6. \A m \in Streams : Holders(m)' = Holders(m)
  BY <1>1, SameHolders
<1>7. \A c \in Calls : held[c] # NoStream => held[c] \notin Elements(free)
  <2>. SUFFICES ASSUME NEW c \in Calls, held[c] \in Elements(free) PROVE FALSE
    OBVIOUS
  <2>1. c \in Holders(held[c]) /\ held[c] \in Streams
    BY <1>3 DEF Holders
  <2>2. Cardinality(Holders(held[c])) = 0
    BY <1>3, <2>1 DEF HoldersCounted
  <2>. QED BY <2>1, <2>2, SubsetsOfCalls, FS_EmptySet
<1>8. TypeOK' /\ SizesKnown' /\ NoStaleStream' /\ NoLostWakeup'
  BY <1>1, <1>2, <1>4
  DEF TypeOK, PcStates, SizesKnown, NoStaleStream, NoLostWakeup, counts, world
<1>9. CallState' /\ PhaseState' /\ HeldStreamOpen'
  <2>1. \A c \in Calls : stream[c] = "absent" => stream'[c] = "absent"
    BY <1>3, <1>4 DEF Streams
  <2>2. CallState'
    BY <1>1, <1>2, <2>1 DEF CallState, PcStates
  <2>3. PhaseState'
    BY <1>1, <1>2 DEF PhaseState, Closed
  <2>4. HeldStreamOpen'
    BY <1>1, <1>4, <1>7 DEF HeldStreamOpen, TypeOK
  <2>. QED BY <2>2, <2>3, <2>4
<1>10. Listed'
  <2>1. \A i \in 1..Len(all) : all[i] \in Streams /\ stream[all[i]] # "absent"
    BY <1>1 DEF TypeOK, Listed
  <2>2. \A i \in 1..Len(all) : stream'[all[i]] # "absent"
    BY <1>4, <2>1
  <2>. QED BY <1>1, <1>5, <2>2 DEF Listed
<1>11. SlotsAccounted' /\ (creating <= active)'
  <2>1. Creators' = Creators
    BY <1>2 DEF Creators
  <2>. QED BY <1>1, <2>1 DEF SlotsAccounted, counts
<1>12. FreeStreamsUnused' /\ ClosedPoolHoldsNothing'
  BY <1>1, PoolSizePositive DEF FreeStreamsUnused, ClosedPoolHoldsNothing
<1>13. NoStreamLeaked'
  <2>1. \A m \in Open' : m \in Open /\ m \in Streams /\ m \notin Elements(free)
    BY <1>5 DEF Open
  <2>. QED BY <1>6, <2>1 DEF NoStreamLeaked
<1>. QED BY <1>1, <1>8, <1>9, <1>10, <1>11, <1>12, <1>13, SameHolders

LEMMA CloseEndStep == ASSUME Inductive, CloseEnd PROVE Inductive'
<1>. USE DEF Inductive
<1>1. /\ phase = "closing" /\ phase' = "closed" /\ all' = <<>> /\ free = <<>>
      /\ UNCHANGED <<pc, held, free, rr, counts, inflight, world, persisted, notifiers>>
  BY DEF CloseEnd, PhaseState, Closed
<1>2. /\ stream' \in [Streams -> {"absent", "cached", "open", "closed"}]
      /\ \A m \in Streams : stream[m] # "parked" => stream'[m] = stream[m]
      /\ \A m \in Streams : stream'[m] \in {"open", "absent"} => stream[m] = stream'[m]
  BY DEF CloseEnd, TypeOK
<1>3. Open' = Open /\ \A m \in Streams : Holders(m)' = Holders(m)
  BY <1>1, <1>2, SameHolders DEF Open
<1>4. TypeOK' /\ SizesKnown' /\ NoStaleStream' /\ NoLostWakeup'
  BY <1>1, <1>2 DEF TypeOK, SizesKnown, NoStaleStream, NoLostWakeup, counts, world
<1>5. CallState' /\ PhaseState' /\ HeldStreamOpen'
  <2>1. \A c \in Calls : stream[c] = "absent" => stream'[c] = "absent"
    BY <1>2 DEF Streams
  <2>2. CallState' /\ PhaseState'
    BY <1>1, <2>1 DEF CallState, PhaseState, Closed
  <2>3. HeldStreamOpen'
    BY <1>1, <1>2 DEF HeldStreamOpen, TypeOK
  <2>. QED BY <2>2, <2>3
<1>6. Listed' /\ FreeStreamsUnused'
  BY <1>1, PoolSizePositive DEF Listed, FreeStreamsUnused
<1>7. SlotsAccounted' /\ (creating <= active)'
  <2>1. Creators' = Creators
    BY <1>1 DEF Creators
  <2>. QED BY <1>1, <2>1 DEF SlotsAccounted, counts
<1>8. NoStreamLeaked' /\ ClosedPoolHoldsNothing'
  <2>1. \A m \in Open : m \in Streams /\ Holders(m) # {}
    BY <1>1 DEF Open, NoStreamLeaked, Elements
  <2>. QED BY <1>2, <1>3, <2>1 DEF NoStreamLeaked, ClosedPoolHoldsNothing
<1>. QED BY <1>1, <1>4, <1>5, <1>6, <1>7, <1>8, SameHolders

-----------------------------------------------------------------------------
(* The invariant holds initially and always.                                 *)

LEMMA InductiveInit == Init => Inductive
<1>. SUFFICES ASSUME Init PROVE Inductive
  OBVIOUS
<1>1. /\ phase = "new" /\ pc = [c \in Calls |-> "start"]
      /\ held = [c \in Calls |-> NoStream] /\ free = <<>> /\ all = <<>>
      /\ rr = 0 /\ active = 0 /\ creating = 0 /\ inflight = [m \in Streams |-> 0]
      /\ persisted = 0 /\ notifiers = {}
  BY DEF Init
<1>2. /\ objSize \in Nat /\ finalized \in BOOLEAN /\ psize \in [Streams -> Nat]
      /\ \A m \in Streams : psize[m] <= objSize
  BY MaxSizeNat DEF Init
<1>3. /\ stream \in [Streams -> {"absent", "cached"}]
      /\ \A c \in Calls : stream[c] = "absent"
      /\ stream[First] = "absent"
  BY NamesDisjoint DEF Init, Streams
<1>4. Open = {} /\ Creators = {} /\ \A m \in Streams : Holders(m) = {}
  BY <1>1, <1>3, Unheld DEF Open, Creators, Holders
<1>5. TypeOK /\ SizesKnown /\ NoStaleStream /\ NoLostWakeup
  BY <1>1, <1>2, <1>3 DEF TypeOK, SizesKnown, NoStaleStream, NoLostWakeup
<1>6. CallState /\ PhaseState /\ HeldStreamOpen
  BY <1>1, <1>3 DEF CallState, PhaseState, HeldStreamOpen, Closed
<1>7. Listed /\ FreeStreamsUnused
  BY <1>1, <1>4, PoolSizePositive DEF Listed, FreeStreamsUnused
<1>8. SlotsAccounted /\ creating <= active /\ HoldersCounted
  <2>1. Cardinality({}) = 0 /\ Len(all) = 0 /\ PoolSize \in Nat
    BY <1>1, FS_EmptySet, PoolSizePositive
  <2>2. SlotsAccounted /\ creating <= active
    BY <1>1, <1>4, <2>1, PoolSizePositive DEF SlotsAccounted
  <2>3. HoldersCounted
    BY <1>1, <1>4, <2>1 DEF HoldersCounted
  <2>. QED BY <2>2, <2>3
<1>9. NoStreamLeaked /\ ClosedPoolHoldsNothing
  BY <1>1, <1>4 DEF NoStreamLeaked, ClosedPoolHoldsNothing
<1>. QED BY <1>5, <1>6, <1>7, <1>8, <1>9 DEF Inductive

LEMMA InductiveStutter == ASSUME Inductive, UNCHANGED vars PROVE Inductive'
<1>. USE DEF Inductive
<1>. UNCHANGED <<phase, pc, held, free, all, rr, active, creating, inflight, stream,
                 psize, persisted, objSize, finalized, notifiers>>
  BY DEF vars
<1>1. TypeOK' /\ CallState' /\ PhaseState' /\ SizesKnown' /\ NoStaleStream'
      /\ NoLostWakeup'
  BY DEF TypeOK, CallState, PhaseState, SizesKnown, NoStaleStream, NoLostWakeup, Closed
<1>2. SlotsAccounted' /\ (creating <= active)'
  BY DEF SlotsAccounted, Creators
<1>. QED BY <1>1, <1>2, SameQueues

LEMMA InductiveStep == Inductive /\ [Next]_vars => Inductive'
<1>. SUFFICES ASSUME Inductive, [Next]_vars PROVE Inductive'
  OBVIOUS
<1>1. CASE UNCHANGED vars
  BY <1>1, InductiveStutter
<1>2. CASE Grow
  BY <1>2, GrowStep
<1>3. CASE Initialize
  BY <1>3, InitializeFromCacheStep, InitializeBeginStep, InitializeEndStep,
     InitializeFailStep DEF Initialize
<1>4. CASE Close
  BY <1>4, CloseBeginStep, CloseEndStep DEF Close
<1>5. ASSUME NEW c \in Calls, Enter(c) PROVE Inductive'
  BY <1>5, GetClosedStep, GetFreeStep, GetCreateStep, GetWaitStep, GetShareStep,
     GetIdleStep DEF Enter
<1>6. ASSUME NEW c \in Calls, Create(c) PROVE Inductive'
  BY <1>6, CreateEndStep, CreateFailStep, CreateTooLateStep DEF Create
<1>7. ASSUME NEW c \in Calls,
             Call(c) \/ NotifyAll(c) \/ Return(c) \/ CancelHolder(c) \/ Cancel(c)
      PROVE  Inductive'
  BY <1>7, CallStep, NotifyAllStep, ReturnStep, CancelHolderStep, CancelStep
<1>. QED BY <1>1, <1>2, <1>3, <1>4, <1>5, <1>6, <1>7 DEF Next

\* Every reachable state of the pool satisfies the inductive invariant.
THEOREM PoolInvariant == Spec => []Inductive
BY InductiveInit, InductiveStep, PTL DEF Spec

\* Every variable of the pool keeps its type; no counter becomes negative.
THEOREM TypeCorrect == Spec => []TypeOK
<1>1. Inductive => TypeOK
  BY DEF Inductive
<1>. QED BY <1>1, PoolInvariant, PTL

\* No stream is closed, parked or given back to the cache while a call uses it.
THEOREM HeldStreamsStayOpen == Spec => []HeldStreamOpen
<1>1. Inductive => HeldStreamOpen
  BY DEF Inductive
<1>. QED BY <1>1, PoolInvariant, PTL

\* The reference counts kept by _mark_inflight and _release_inflight are exact.
THEOREM ReferenceCountsExact == Spec => []HoldersCounted
<1>1. Inductive => HoldersCounted
  BY DEF Inductive
<1>. QED BY <1>1, PoolInvariant, PTL

\* No cancellation, failure or close() loses an open stream.
THEOREM NoLeak == Spec => [](NoStreamLeaked /\ ClosedPoolHoldsNothing)
<1>1. Inductive => NoStreamLeaked /\ ClosedPoolHoldsNothing
  BY DEF Inductive
<1>. QED BY <1>1, PoolInvariant, PTL

\* The slots add up, and no wakeup of a waiting call is lost.
THEOREM SlotsAndWakeups == Spec => [](SlotsAccounted /\ NoLostWakeup)
<1>1. Inductive => SlotsAccounted /\ NoLostWakeup
  BY DEF Inductive
<1>. QED BY <1>1, PoolInvariant, PTL

\* Sharing is over all pool_size streams, and the wait on the free queue with the
\* lock held is unreachable.
THEOREM SharingReachesEveryStream == Spec => []SharesWholePool
<1>1. Inductive => SharesWholePool
  <2>. SUFFICES ASSUME Inductive, phase = "ready", active >= PoolSize, creating = 0
                PROVE  Len(all) = PoolSize
    BY DEF SharesWholePool
  <2>1. active = Len(all) /\ active <= PoolSize /\ active \in Nat /\ Len(all) \in Nat
    BY DEF Inductive, SlotsAccounted, TypeOK
  <2>. QED BY <2>1, PoolSizePositive
<1>. QED BY <1>1, PoolInvariant, PTL

-----------------------------------------------------------------------------
(* The pool lends its streams as StreamLending says: the open streams are   *)
(* the live ones, the holders of a stream its users.                        *)
LentTo == [m \in Streams |-> Holders(m)]

\* A pool that is open has no more streams than slots.
LEMMA OpenWithinSize == Inductive /\ phase = "ready" => Cardinality(Open) <= PoolSize
<1> SUFFICES ASSUME Inductive, phase = "ready" PROVE Cardinality(Open) <= PoolSize
  OBVIOUS
<1> DEFINE n == Len(all)
           f == [i \in 1..n |-> all[i]]
<1>1. n \in Nat /\ n <= PoolSize
  BY PoolSizePositive DEF Inductive, TypeOK, SlotsAccounted
<1>2. IsFiniteSet(1..n) /\ Cardinality(1..n) = n
  <2>. 1 \in Int /\ n \in Int
    BY <1>1
  <2>1. /\ IsFiniteSet(1..n)
        /\ Cardinality(1..n) = IF 1 > n THEN 0 ELSE n - 1 + 1
    BY FS_Interval, Zenon
  <2>. QED BY <2>1, <1>1
<1>3. Open \subseteq {all[i] : i \in 1..n}
  BY DEF Inductive, Listed
<1>4. f \in Surjection(1..n, {all[i] : i \in 1..n})
  BY DEF Surjection
<1> DEFINE T == {all[i] : i \in 1..n}
<1> HIDE DEF n, f, T
<1>5. IsFiniteSet(T) /\ Cardinality(T) <= n
  BY <1>2, <1>4, FS_Surjection DEF T
<1>6. Cardinality(Open) <= Cardinality(T)
  BY <1>3, <1>5, FS_Subset DEF T, n
<1>7. Cardinality(T) \in Nat /\ IsFiniteSet(Open)
  BY <1>3, <1>5, FS_CardinalityType, FS_Subset DEF T, n
<1>. QED BY <1>1, <1>5, <1>6, <1>7, FS_CardinalityType, PoolSizePositive

LEMMA OpenWithinSizeAfter == Inductive' /\ phase' = "ready" => Cardinality(Open') <= PoolSize
<1>1. (Inductive /\ phase = "ready" => Cardinality(Open) <= PoolSize)'
  BY OpenWithinSize, PTL
<1>. QED BY <1>1

\* StreamLending counts as this module does.
LEMMA SameCount == \A S : Lending!Cardinality(S) = Cardinality(S)
BY DEF Lending!Cardinality, Cardinality

\* How the steps of the pool appear to its callers.
LEMMA Supplies ==
  ASSUME NEW m \in Streams, Open' = Open \cup {m}, UNCHANGED held,
         Cardinality(Open') <= PoolSize
  PROVE  Lending!Supply(m)
BY SameCount DEF Lending!Supply, Holders

LEMMA Lends ==
  ASSUME TypeOK, NEW c \in Calls, NEW m \in Streams, held[c] = NoStream, 
         held' = [held EXCEPT ![c] = m], Open' = Open \cup {m}, Cardinality(Open') <= PoolSize
  PROVE  Lending!Lend(c, m)
<1>1. \A n \in Streams : c \notin Holders(n)
  BY Unheld DEF Holders
<1>2. \A n \in Streams : Holders(n)' = IF n = m THEN Holders(n) \cup {c} ELSE Holders(n)
  BY Unheld DEF TypeOK, Holders
<1>3. LentTo' = [LentTo EXCEPT ![m] = @ \cup {c}]
  BY <1>2 DEF LentTo
<1>. QED BY <1>1, <1>3, SameCount DEF Lending!Lend, Lending!Unserved, LentTo

LEMMA Stutters ==
  ASSUME UNCHANGED held, Open' = Open
  PROVE  UNCHANGED Lending!lendingVars
BY DEF Lending!lendingVars, Holders

LEMMA GivesBack ==
  ASSUME Inductive, NEW c \in Calls, pc[c] \in {"hold", "telling"}, LetGo(c)
  PROVE  Lending!GiveBack(c, held[c])
<1>. PICK m : m = held[c]
  OBVIOUS
<1>1. /\ TypeOK /\ HoldersCounted /\ m \in Streams /\ stream[m] = "open"
  BY DEF Inductive, CallState, TypeOK, HeldStreamOpen
<1>2. held' = [held EXCEPT ![c] = NoStream]
  BY DEF LetGo
<1>3. c \in LentTo[m] /\ LentTo \in [Streams -> SUBSET Calls]
  BY <1>1 DEF LentTo, Holders
<1>4. \A n \in Streams : Holders(n)' = IF n = m THEN Holders(n) \ {c} ELSE Holders(n)
  BY <1>1, <1>2, Unheld DEF TypeOK, Holders
<1>5. LentTo' = [LentTo EXCEPT ![m] = @ \ {c}]
  BY <1>4 DEF LentTo
<1>6. Open' = Open \/ (LentTo'[m] = {} /\ Open' = Open \ {m})
  <2>1. CASE UNCHANGED stream
    BY <2>1 DEF Open
  <2>2. CASE ~UNCHANGED stream
    <3>1. inflight[m] <= 1 /\ stream' = [stream EXCEPT ![m] = "closed"]
      BY <2>2 DEF LetGo, KeptByReturn
    <3>2. Open' = Open \ {m}
      BY <3>1, <1>1 DEF Open, TypeOK
    <3>3. Holders(m)' = {}
      <4>1. IsFiniteSet(Holders(m)) /\ Cardinality(Holders(m)) \in Nat
        BY SubsetsOfCalls
      <4>2. c \in Holders(m) /\ Cardinality(Holders(m)) <= 1
        BY <1>1, <3>1 DEF Holders, HoldersCounted
      <4>3. IsFiniteSet(Holders(m) \ {c}) /\ Cardinality(Holders(m) \ {c}) = Cardinality(Holders(m)) - 1
        BY <4>1, <4>2, FS_RemoveElement
      <4>4. Cardinality(Holders(m) \ {c}) = 0
        BY <4>1, <4>2, <4>3, FS_CardinalityType
      <4>5. Holders(m) \ {c} = {}
        BY <4>3, <4>4, FS_EmptySet
      <4>. QED BY <4>5, <1>1, <1>4
    <3>4. LentTo'[m] = {}
      BY <3>3, <1>1 DEF LentTo
    <3>. QED BY <3>2, <3>4
  <2>. QED BY <2>1, <2>2
<1>. QED BY <1>3, <1>5, <1>6 DEF Lending!GiveBack, LentTo

LEMMA CloseRetires ==
  ASSUME Inductive, NEW kept \in SUBSET Elements(free), CloseBegin(kept)
  PROVE  \E S \in SUBSET Open : Lending!Retire(S)
<1> DEFINE S == Elements(free)
<1>1. S \in SUBSET Open
  BY DEF Inductive, FreeStreamsUnused, Elements, Open, TypeOK
<1>2. \A m \in S : Holders(m) = {}
  <2> TAKE m \in S
  <2>1. m \in Streams /\ inflight[m] = 0
    BY DEF Inductive, FreeStreamsUnused, Elements, TypeOK
  <2>2. IsFiniteSet(Holders(m)) /\ Cardinality(Holders(m)) = 0
    BY <2>1, SubsetsOfCalls DEF Inductive, HoldersCounted
  <2>. QED BY <2>2, FS_EmptySet
<1>3. Open' = Open \ S
  BY DEF CloseBegin, Open, Inductive, TypeOK
<1>4. \A m \in S : LentTo[m] = {}
  BY <1>1, <1>2 DEF LentTo, Open
<1>5. LentTo' = LentTo
  BY DEF LentTo, Holders, CloseBegin
<1>. HIDE DEF S
<1>. QED BY <1>1, <1>3, <1>4, <1>5 DEF Lending!Retire, LentTo

\* What each step of the pool does to the streams it lends.
LEMMA SuppliesFirst ==
  ASSUME Inductive, Inductive',
         InitializeEnd \/ \E m \in Streams : \E S \in SUBSET Cached : InitializeFromCache(m, S)
  PROVE  \E m \in Streams : Lending!Supply(m)
<1>1. CASE InitializeEnd
  <2>1. First \in Streams /\ Open' = Open \cup {First} /\ UNCHANGED held /\ phase' = "ready"
    BY <1>1 DEF InitializeEnd, Adopt, Open, Inductive, TypeOK, Streams
  <2>. QED BY <2>1, Supplies, OpenWithinSizeAfter
<1>2. ASSUME NEW m \in Streams, NEW S \in SUBSET Cached, InitializeFromCache(m, S)
      PROVE  \E n \in Streams : Lending!Supply(n)
  <2>1. Open' = Open \cup {m} /\ UNCHANGED held /\ phase' = "ready"
    BY <1>2 DEF InitializeFromCache, Adopt, Open, Cached, Park, Inductive, TypeOK
  <2>. QED BY <2>1, Supplies, OpenWithinSizeAfter
<1>. QED BY <1>1, <1>2

LEMMA LendsOne ==
  ASSUME Inductive, Inductive', NEW c \in Calls,
         \/ GetFree(c) \/ GetShare(c) \/ CreateEnd(c)
         \/ \E m \in Streams : \E S \in SUBSET Cached : GetIdle(c, m, S)
  PROVE  \E m \in Streams : Lending!Lend(c, m)
<1>1. /\ TypeOK /\ pc[c] \in {"lock", "create"} /\ ~Closed /\ phase' = phase
  BY DEF GetFree, GetShare, GetIdle, CreateEnd, Enters, Inductive
<1>2. held[c] = NoStream /\ phase' = "ready"
  BY <1>1 DEF Inductive, CallState, PhaseState, TypeOK, Closed
<1>3. Cardinality(Open') <= PoolSize
  BY <1>2, OpenWithinSizeAfter
<1>4. CASE GetFree(c)
  <2>1. Head(free) \in Streams /\ stream[Head(free)] = "open"
    <3>1. free \in Seq(Streams) /\ free # <<>>
      BY <1>1, <1>4 DEF GetFree, TypeOK
    <3>2. Head(free) = free[1] /\ 1 \in 1..Len(free)
      BY <3>1
    <3>3. stream[free[1]] = "open"
      BY <3>2 DEF Inductive, FreeStreamsUnused
    <3>. QED BY <3>1, <3>2, <3>3
  <2>2. Open' = Open \cup {Head(free)} /\ held' = [held EXCEPT ![c] = Head(free)]
    BY <2>1, <1>4 DEF GetFree, HandOut, Open
  <2>. QED BY <2>1, <2>2, <1>1, <1>2, <1>3, Lends
<1>5. CASE GetShare(c)
  <2>1. PICK i \in 1..Len(all) : i = (rr % Len(all)) + 1
    BY <1>1, <1>5 DEF GetShare, TypeOK
  <2>. PICK m : m = all[i]
    OBVIOUS
  <2>2. m \in Streams /\ stream[m] = "open"
    <3>1. phase = "ready" /\ all \in Seq(Streams)
      BY <1>1, <1>2 DEF TypeOK
    <3>2. stream[all[i]] = "open"
      BY <3>1 DEF Inductive, Listed
    <3>. QED BY <3>1, <3>2
  <2>3. Open' = Open \cup {m} /\ held' = [held EXCEPT ![c] = m]
    BY <2>1, <2>2, <1>5 DEF GetShare, HandOut, Open
  <2>. QED BY <2>2, <2>3, <1>1, <1>2, <1>3, Lends
<1>6. CASE CreateEnd(c)
  <2>1. c \in Streams /\ Open' = Open \cup {c} /\ held' = [held EXCEPT ![c] = c]
    BY <1>1, <1>6 DEF CreateEnd, HandOut, Open, Streams, TypeOK
  <2>. QED BY <2>1, <1>1, <1>2, <1>3, Lends
<1>7. ASSUME NEW m \in Streams, NEW S \in SUBSET Cached, GetIdle(c, m, S)
      PROVE  \E n \in Streams : Lending!Lend(c, n)
  <2>1. Open' = Open \cup {m} /\ held' = [held EXCEPT ![c] = m]
    BY <1>1, <1>7 DEF GetIdle, HandOut, Open, Cached, Park, TypeOK
  <2>. QED BY <2>1, <1>1, <1>2, <1>3, Lends
<1>. QED BY <1>4, <1>5, <1>6, <1>7

\* The other steps change neither the open streams nor who has them.
LEMMA LendsNothing ==
  ASSUME Inductive,
         \/ Grow \/ InitializeBegin \/ InitializeFail \/ CloseEnd
         \/ \E c \in Calls :
              \/ Call(c) \/ GetClosed(c) \/ GetCreate(c) \/ GetWait(c) \/ CreateFail(c)
              \/ CreateTooLate(c) \/ NotifyAll(c) \/ Cancel(c)
         \/ UNCHANGED vars
  PROVE  UNCHANGED held /\ Open' = Open
<1>1. TypeOK
  BY DEF Inductive
<1>2. CASE Grow \/ InitializeFail \/ UNCHANGED vars
  BY <1>2 DEF Grow, InitializeFail, vars, Open
<1>3. CASE InitializeBegin
  BY <1>1, <1>3 DEF InitializeBegin, Park, Cached, Open, TypeOK
<1>4. CASE CloseEnd
  BY <1>1, <1>4 DEF CloseEnd, Open, TypeOK
<1>5. ASSUME NEW c \in Calls,
             Call(c) \/ GetClosed(c) \/ GetWait(c) \/ CreateFail(c) \/ NotifyAll(c) \/ Cancel(c)
      PROVE  UNCHANGED held /\ Open' = Open
  BY <1>5 DEF Call, GetClosed, GetWait, CreateFail, KeptByFailure, NotifyAll, Cancel, Open
<1>6. ASSUME NEW c \in Calls, GetCreate(c)
      PROVE  UNCHANGED held /\ Open' = Open
  BY <1>1, <1>6 DEF GetCreate, Park, Cached, Open, TypeOK
<1>7. ASSUME NEW c \in Calls, CreateTooLate(c)
      PROVE  UNCHANGED held /\ Open' = Open
  <2>1. stream[c] = "absent" /\ c \in Streams
    BY <1>7 DEF CreateTooLate, Inductive, CallState, Streams
  <2>. QED BY <2>1, <1>1, <1>7 DEF CreateTooLate, Open, TypeOK
<1>. QED BY <1>2, <1>3, <1>4, <1>5, <1>6, <1>7

LEMMA LendingStep ==
  ASSUME Inductive, Inductive', [Next]_vars
  PROVE  [Lending!LendingNext]_Lending!lendingVars
<1>1. ASSUME \E m \in Streams : Lending!Supply(m)
      PROVE  Lending!LendingNext
  BY <1>1 DEF Lending!LendingNext
<1>2. ASSUME NEW c \in Calls, \E m \in Streams : Lending!Lend(c, m) \/ Lending!GiveBack(c, m)
      PROVE  Lending!LendingNext
  BY <1>2 DEF Lending!LendingNext
<1>3. CASE Initialize
  BY <1>3, <1>1, SuppliesFirst, LendsNothing, Stutters DEF Initialize
<1>4. CASE Close
  BY <1>4, CloseRetires, LendsNothing, Stutters DEF Close, Lending!LendingNext
<1>5. ASSUME NEW c \in Calls, Enter(c) \/ Create(c)
      PROVE  [Lending!LendingNext]_Lending!lendingVars
  BY <1>5, <1>2, LendsOne, LendsNothing, Stutters DEF Enter, Create
<1>6. ASSUME NEW c \in Calls, Return(c) \/ CancelHolder(c)
      PROVE  Lending!LendingNext
  <2>1. pc[c] \in {"hold", "telling"} /\ LetGo(c)
    BY <1>6 DEF Return, CancelHolder
  <2>2. held[c] \in Streams
    BY <2>1 DEF Inductive, CallState, TypeOK
  <2>. QED BY <2>1, <2>2, <1>2, GivesBack
<1>7. CASE \/ Grow \/ UNCHANGED vars
           \/ \E c \in Calls : Call(c) \/ NotifyAll(c) \/ Cancel(c)
  BY <1>7, LendsNothing, Stutters
<1>. QED BY <1>3, <1>4, <1>5, <1>6, <1>7 DEF Next

LEMMA LendingStart == Init => Lending!LendingInit
<1> SUFFICES ASSUME Init PROVE Lending!LendingInit
  OBVIOUS
<1>1. Open = {}
  BY DEF Init, Open
<1>2. \A m \in Streams : Holders(m) = {}
  BY Unheld DEF Init, Holders
<1>. QED BY <1>1, <1>2 DEF Lending!LendingInit

\* The pool implements StreamLending: whatever fails, is cancelled or is closed, it lends open
\* streams only, retires them only unused, and never has more than pool_size of them open.
THEOREM PoolLends == Spec => LendsStreams
BY LendingStart, LendingStep, PoolInvariant, PTL DEF Spec, LendsStreams, Lending!LendingSpec
=============================================================================
