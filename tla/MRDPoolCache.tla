---------------------------- MODULE MRDPoolCache ----------------------------
(***************************************************************************)
(* gcsfs/zb_hns_utils.py, class MRDPoolCache: idle streams kept per object *)
(* key, shared by the pools of that key.  A pool counts as a reference of  *)
(* its key from get() until it is closed; keys without references are      *)
(* evicted, least recently released first.  The pools are those of MRDPool *)
(* with their inner concurrency left out.                                  *)
(***************************************************************************)
EXTENDS Integers, Sequences, SequencesExt, FiniteSets

CONSTANTS
  Keys,      \* (bucket, object, generation, cache_type)
  Pools,     \* calls of get(), each with the pool it makes
  NoKey,     \* the key of a pool that is not in use
  Streams,   \* names of open streams, reused once closed
  PoolSize,  \* streams a pool may have
  MaxIdle,   \* max_idle_pools
  MaxQueue   \* max_queue_size

ASSUME SizesNat == PoolSize \in Nat \ {0} /\ MaxIdle \in Nat /\ MaxQueue \in Nat
ASSUME FiniteWorld == IsFiniteSet(Keys) /\ IsFiniteSet(Pools) /\ IsFiniteSet(Streams)
ASSUME NoKeyNotKey == NoKey \notin Keys

VARIABLES
  closed,     \* _closed
  queues,     \* the keys of _mrd_queues
  idle,       \* what the queue of each key holds
  refs,       \* _refcounts, 0 for a missing key
  evictable,  \* _evictable_keys, oldest first
  pool,       \* where each get() or pool is
  keyOf,      \* the key of each pool
  mine,       \* the open streams each pool lends
  parked      \* its _stale_mrds, open until it is closed

cacheVars == <<closed, queues, idle, refs, evictable>>
vars == <<closed, queues, idle, refs, evictable, pool, keyOf, mine, parked>>

IdleStreams == UNION {idle[k] : k \in Keys}
OpenStreams == IdleStreams \cup UNION {mine[p] \cup parked[p] : p \in Pools}

Least(a, b) == IF a <= b THEN a ELSE b

Init ==
  /\ closed = FALSE /\ queues = {} /\ evictable = <<>>
  /\ idle = [k \in Keys |-> {}] /\ refs = [k \in Keys |-> 0]
  /\ pool = [p \in Pools |-> "none"]
  /\ keyOf = [p \in Pools |-> NoKey]
  /\ mine = [p \in Pools |-> {}] /\ parked = [p \in Pools |-> {}]

Goes(p, label) == pool' = [pool EXCEPT ![p] = label]

-----------------------------------------------------------------------------
(* _decref of k, once the streams in kept are in its queue: k becomes        *)
(* evictable with its last reference, and the oldest keys above MaxIdle go.  *)

Decref(k, kept) ==
  LET last    == refs[k] <= 1
      waiting == IF last /\ ~closed THEN Append(evictable, k) ELSE evictable
      excess  == IF Len(waiting) > MaxIdle THEN Len(waiting) - MaxIdle ELSE 0
      evicted == {waiting[i] : i \in 1..excess}
  IN
  /\ refs' = [refs EXCEPT ![k] = IF last THEN 0 ELSE @ - 1]
  /\ evictable' = SubSeq(waiting, excess + 1, Len(waiting))
  /\ queues' = queues \ evicted
  /\ idle' = [j \in Keys |-> IF j \in evicted THEN {}
                             ELSE idle[j] \cup (IF j = k THEN kept ELSE {})]

\* The streams release() puts in the queue of k: all, until it is full.
Kept(k, given) ==
  {kept \in SUBSET given :
     Cardinality(kept) = IF k \in queues
       THEN Least(Cardinality(given), MaxQueue - Cardinality(idle[k])) ELSE 0}

-----------------------------------------------------------------------------
(* get() *)
Get(p, k) ==
  /\ pool[p] = "none" /\ ~closed
  /\ keyOf' = [keyOf EXCEPT ![p] = k]
  /\ Goes(p, "info")
  /\ UNCHANGED <<cacheVars, mine, parked>>

\* `await fs._info()` raised, or the call was cancelled.
InfoFails(p) ==
  /\ pool[p] = "info"
  /\ keyOf' = [keyOf EXCEPT ![p] = NoKey]
  /\ Goes(p, "none")
  /\ UNCHANGED <<cacheVars, mine, parked>>

\* After the await: _incref, without looking at _closed again.
Attach(p) ==
  LET k == keyOf[p] IN
  /\ pool[p] = "info"
  /\ queues' = queues \cup {k}
  /\ refs' = [refs EXCEPT ![k] = @ + 1]
  /\ evictable' = RemoveFirst(evictable, k)
  /\ Goes(p, "opening")
  /\ UNCHANGED <<closed, idle, keyOf, mine, parked>>

\* Mistake: the stream is handed out and stays in the queue.
TakeIdle_Copies(p, s) ==
  /\ ~closed /\ s \in idle[keyOf[p]]
  /\ mine' = [mine EXCEPT ![p] = @ \cup {s}]
  /\ UNCHANGED <<cacheVars, keyOf, parked>>

\* get_idle_mrd(): the pool gets an idle stream of its key.
TakeIdle(p, s) ==
  /\ ~closed /\ s \in idle[keyOf[p]]
  /\ idle' = [idle EXCEPT ![keyOf[p]] = @ \ {s}]
  /\ mine' = [mine EXCEPT ![p] = @ \cup {s}]
  /\ UNCHANGED <<closed, queues, refs, evictable, keyOf, parked>>

\* An idle stream older than the object's size is put aside.
Park(p, s) ==
  /\ pool[p] \in {"opening", "ready"} /\ Cardinality(mine[p]) < PoolSize
  /\ ~closed /\ s \in idle[keyOf[p]]
  /\ idle' = [idle EXCEPT ![keyOf[p]] = @ \ {s}]
  /\ parked' = [parked EXCEPT ![p] = @ \cup {s}]
  /\ UNCHANGED <<closed, queues, refs, evictable, pool, keyOf, mine>>

OpenNew(p, s) ==
  /\ s \notin OpenStreams
  /\ mine' = [mine EXCEPT ![p] = @ \cup {s}]
  /\ UNCHANGED <<cacheVars, keyOf, parked>>

\* pool.initialize(): an idle stream, or a new one (the object is not finalized,
\* or the idle ones are stale or missing).
PoolReady(p, s) ==
  /\ pool[p] = "opening"
  /\ TakeIdle(p, s) \/ OpenNew(p, s)
  /\ Goes(p, "ready")

\* Scale-up in get_mrd().
ScaleUp(p, s) ==
  /\ pool[p] = "ready" /\ Cardinality(mine[p]) < PoolSize
  /\ TakeIdle(p, s) \/ OpenNew(p, s)
  /\ UNCHANGED pool

\* Mistake: the reference of a pool that could not start is kept.
InitFails_KeepsRef(p) ==
  /\ pool[p] = "opening"
  /\ Goes(p, "purging")
  /\ UNCHANGED <<cacheVars, keyOf, mine, parked>>

\* initialize() raised: pool.close() releases the key with no streams.
InitFails(p) ==
  /\ pool[p] = "opening"
  /\ Decref(keyOf[p], {})
  /\ Goes(p, "purging")
  /\ UNCHANGED <<closed, keyOf, mine, parked>>

\* Mistake: the queue is purged under pools that got the key meanwhile.
Purge_Always(p) ==
  LET k == keyOf[p] IN
  /\ pool[p] = "purging"
  /\ queues' = queues \ {k}
  /\ idle' = [idle EXCEPT ![k] = {}]
  /\ evictable' = RemoveFirst(evictable, k)
  /\ keyOf' = [keyOf EXCEPT ![p] = NoKey]
  /\ parked' = [parked EXCEPT ![p] = {}]
  /\ Goes(p, "none")
  /\ UNCHANGED <<closed, refs, mine>>

\* Back from that await, the key goes unless somebody holds it by now.
Purge(p) ==
  LET k == keyOf[p] IN
  /\ pool[p] = "purging"
  /\ IF refs[k] = 0
     THEN /\ queues' = queues \ {k}
          /\ idle' = [idle EXCEPT ![k] = {}]
          /\ evictable' = RemoveFirst(evictable, k)
     ELSE UNCHANGED <<queues, idle, evictable>>
  /\ keyOf' = [keyOf EXCEPT ![p] = NoKey]
  /\ parked' = [parked EXCEPT ![p] = {}]
  /\ Goes(p, "none")
  /\ UNCHANGED <<closed, refs, mine>>

-----------------------------------------------------------------------------
\* MRDPool.close(): the free streams are given to the cache, which keeps what
\* it has room for; those in use stay with the pool until their holders return.
PoolClose(p, free) ==
  /\ pool[p] = "ready"
  /\ free \subseteq mine[p]
  /\ \E kept \in Kept(keyOf[p], free) : Decref(keyOf[p], kept)
  /\ mine' = [mine EXCEPT ![p] = @ \ free]
  /\ Goes(p, "draining")
  /\ UNCHANGED <<closed, keyOf, parked>>

\* close() goes on to the parked streams, and the last holders close those
\* that were in use.
Drained(p) ==
  /\ pool[p] = "draining"
  /\ mine' = [mine EXCEPT ![p] = {}]
  /\ parked' = [parked EXCEPT ![p] = {}]
  /\ keyOf' = [keyOf EXCEPT ![p] = NoKey]
  /\ Goes(p, "none")
  /\ UNCHANGED cacheVars

\* MRDPoolCache.close().
CacheClose ==
  /\ ~closed /\ closed' = TRUE
  /\ queues' = {} /\ evictable' = <<>>
  /\ idle' = [k \in Keys |-> {}] /\ refs' = [k \in Keys |-> 0]
  /\ UNCHANGED <<pool, keyOf, mine, parked>>

Next ==
  \/ CacheClose
  \/ \E p \in Pools :
       \/ \E k \in Keys : Get(p, k)
       \/ InfoFails(p) \/ Attach(p) \/ InitFails(p) \/ Purge(p) \/ Drained(p)
       \/ \E s \in Streams : Park(p, s) \/ PoolReady(p, s) \/ ScaleUp(p, s)
       \/ \E free \in SUBSET mine[p] : PoolClose(p, free)

Spec == Init /\ [][Next]_vars

-----------------------------------------------------------------------------
Referrers(k) == {p \in Pools : keyOf[p] = k /\ pool[p] \in {"opening", "ready"}}

TypeOK ==
  /\ closed \in BOOLEAN /\ queues \subseteq Keys
  /\ idle \in [Keys -> SUBSET Streams] /\ refs \in [Keys -> Nat]
  /\ evictable \in Seq(Keys)
  /\ pool \in [Pools -> {"none", "info", "opening", "ready", "purging", "draining"}]
  /\ keyOf \in [Pools -> Keys \cup {NoKey}]
  /\ mine \in [Pools -> SUBSET Streams] /\ parked \in [Pools -> SUBSET Streams]

\* Until the cache is closed the reference count of a key is the number of its
\* open pools, whatever fails between get() and close().
RefsExact == ~closed => \A k \in Keys : refs[k] = Cardinality(Referrers(k))

\* A stream belongs to one pool or to one queue: no two pools ever drive the
\* same stream, and no idle stream is in use.
OneOwner ==
  /\ \A p, q \in Pools : p # q => mine[p] \cap mine[q] = {} /\ parked[p] \cap parked[q] = {}
  /\ \A p, q \in Pools : mine[p] \cap parked[q] = {}
  /\ \A j, k \in Keys : j # k => idle[j] \cap idle[k] = {}
  /\ \A p \in Pools : (mine[p] \cup parked[p]) \cap IdleStreams = {}

\* Every queue can be reached by a pool or by eviction, and no key in use is
\* evicted: its pools find a queue to give their streams to.
QueuesReachable ==
  ~closed =>
    \A k \in Keys :
      /\ k \in queues <=> refs[k] > 0 \/ Contains(evictable, k)
      /\ ~(refs[k] > 0 /\ Contains(evictable, k))

\* Idle streams exist only in queues, and there is a bound on those that no
\* pool refers to.
IdleBounded ==
  /\ \A k \in Keys : Cardinality(idle[k]) <= MaxQueue
  /\ \A k \in Keys : idle[k] # {} => k \in queues
  /\ Len(evictable) <= MaxIdle

\* A key waits for eviction once, and a pool has a key as long as it is in use: streams from the
\* moment it is ready, and parked ones from when it opens, until it has drained.
WaitsOnce == IsInjective(evictable)
PoolsHold ==
  \A p \in Pools :
    /\ keyOf[p] \in Keys <=> pool[p] # "none"
    /\ mine[p] # {} => pool[p] \in {"ready", "draining"}
    /\ parked[p] # {} => pool[p] \notin {"none", "info"}

\* The queues as a whole: every one is reachable, and what is in them is bounded; and the pools
\* that use them.
QueuesInOrder == TypeOK /\ QueuesReachable /\ IdleBounded /\ WaitsOnce /\ PoolsHold

\* A closed cache with no pools left holds no open stream ("Closes the cache
\* and all pooled MRDs", close()).
ClosedCacheHoldsNothing ==
  closed /\ (\A p \in Pools : pool[p] = "none") => OpenStreams = {}
=============================================================================
