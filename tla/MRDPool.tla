------------------------------ MODULE MRDPool ------------------------------
(***************************************************************************)
(* gcsfs/zb_hns_utils.py, class MRDPool: a pool of read streams (MRDs) of  *)
(* one object.  Callers of get_mrd() are tasks of one event loop, so code  *)
(* between two awaits is one step.  A stream is opened outside the pool's  *)
(* lock, callers that find every slot taken wait on the condition or share *)
(* a busy stream, the release on exit takes no lock, and close() may come  *)
(* while streams are being opened or used.                                 *)
(***************************************************************************)
EXTENDS Integers, Sequences, FiniteSets

CONSTANTS
  Calls,       \* invocations of get_mrd(), each one a task
  Idle,        \* streams of this object the shared cache may hold at the start
  First,       \* the stream initialize() opens
  NoStream,    \* the local `mrd` of a call that has none
  PoolSize,    \* pool_size
  HasCache,    \* the pool was made by an MRDPoolCache
  MaxSize      \* bound on the size of the object

ASSUME CallsFinite == IsFiniteSet(Calls) /\ IsFiniteSet(Idle)
ASSUME NamesDisjoint ==
  /\ First \notin Calls \cup Idle
  /\ Calls \cap Idle = {}
  /\ NoStream \notin Calls \cup Idle \cup {First}
ASSUME PoolSizePositive == PoolSize \in Nat \ {0}
ASSUME MaxSizeNat == MaxSize \in Nat
ASSUME Flags == HasCache \in BOOLEAN

\* A call opens at most one stream, which bears the call's name.
Streams == Calls \cup Idle \cup {First}

VARIABLES
  phase,      \* of the pool; "opening" and "closing" hold the lock over awaits
  pc,         \* where each call is
  held,       \* the local `mrd` of each call
  free,       \* _free_mrds, FIFO
  all,        \* _all_mrds
  rr,         \* _rr_index
  active,     \* _active_count
  creating,   \* _creating_count
  inflight,   \* _inflight, 0 for a missing key
  stream,     \* what has become of each stream
  psize,      \* mrd.persisted_size of each stream
  persisted,  \* self.persisted_size
  objSize,    \* size of the object in the bucket
  finalized,  \* it can not grow any more
  notifiers   \* calls whose shielded _notify_all() task has not run yet

vars == <<phase, pc, held, free, all, rr, active, creating, inflight, stream,
          psize, persisted, objSize, finalized, notifiers>>

counts == <<active, creating>>
world  == <<psize, objSize, finalized>>

Closed   == phase \in {"closing", "closed"}
LockFree == phase \notin {"opening", "closing"}

\* _is_stale: opened before the object had the size this pool knows of.
IsStale(m) == psize[m] < persisted
Cached == {m \in Streams : stream[m] = "cached"}
Stale(S) == {m \in S : IsStale(m)}

-----------------------------------------------------------------------------
Init ==
  /\ phase = "new"
  /\ pc = [c \in Calls |-> "start"]
  /\ held = [c \in Calls |-> NoStream]
  /\ free = <<>> /\ all = <<>> /\ rr = 0
  /\ active = 0 /\ creating = 0
  /\ inflight = [m \in Streams |-> 0]
  /\ objSize \in 0..MaxSize /\ finalized \in BOOLEAN
  \* Idle streams were opened by earlier pools, when the object was no larger.
  /\ psize \in [Streams -> 0..objSize]
  /\ \A m \in Streams \ Idle : psize[m] = 0
  /\ stream \in [Streams -> {"absent", "cached"}]
  /\ \A m \in Streams : stream[m] = "cached" => m \in Idle /\ HasCache
  /\ \A m \in Idle : stream[m] = "absent" => psize[m] = 0
  /\ persisted = 0
  /\ notifiers = {}

\* An append by some writer.
Grow ==
  /\ ~finalized /\ objSize < MaxSize
  /\ objSize' = objSize + 1
  /\ UNCHANGED <<phase, pc, held, free, all, rr, counts, inflight, stream,
                 psize, persisted, finalized, notifiers>>

-----------------------------------------------------------------------------
(* _take_idle_mrd: pop cached streams until one is fresh; S, the stale ones  *)
(* met on the way, are parked in _stale_mrds.                                *)
Park(S) == [m \in Streams |-> IF m \in S THEN "parked" ELSE stream[m]]

\* The first stream becomes the pool's only one, free to be taken.
Adopt(m) ==
  /\ phase' = "ready"
  /\ all' = <<m>> /\ free' = <<m>> /\ active' = 1
  /\ persisted' = psize'[m]

\* initialize() on a finalized object, a fresh cached stream at hand.
InitializeFromCache(m, S) ==
  /\ phase = "new" /\ finalized
  /\ m \in Cached /\ psize[m] >= objSize
  /\ S \subseteq {n \in Cached : psize[n] < objSize}
  /\ stream' = [Park(S) EXCEPT ![m] = "open"]
  /\ UNCHANGED psize /\ Adopt(m)
  /\ UNCHANGED <<pc, held, rr, creating, inflight, objSize, finalized, notifiers>>

\* initialize() has to open a stream, under the lock.
InitializeBegin ==
  /\ phase = "new"
  /\ phase' = "opening"
  /\ IF finalized
     THEN /\ \A m \in Cached : psize[m] < objSize
          /\ persisted' = objSize
          /\ stream' = Park(Cached)
     ELSE UNCHANGED <<persisted, stream>>
  /\ UNCHANGED <<pc, held, free, all, rr, counts, inflight, world, notifiers>>

InitializeEnd ==
  /\ phase = "opening"
  /\ stream' = [stream EXCEPT ![First] = "open"]
  /\ psize' = [psize EXCEPT ![First] = objSize]
  /\ Adopt(First)
  /\ UNCHANGED <<pc, held, rr, creating, inflight, objSize, finalized, notifiers>>

\* Opening failed or initialize() was cancelled; its caller closes the pool.
InitializeFail ==
  /\ phase = "opening"
  /\ phase' = "failed"
  /\ UNCHANGED <<pc, held, free, all, rr, counts, inflight, stream, world,
                 persisted, notifiers>>

-----------------------------------------------------------------------------
(* get_mrd() *)
Goto(c, label) == pc' = [pc EXCEPT ![c] = label]

\* The stream is handed to c, which becomes one more holder of it.
HandOut(c, m) ==
  /\ held' = [held EXCEPT ![c] = m]
  /\ inflight' = [inflight EXCEPT ![m] = @ + 1]

Call(c) ==
  /\ pc[c] = "start" /\ phase \in {"ready", "closing", "closed"}
  /\ Goto(c, "lock")
  /\ UNCHANGED <<phase, held, free, all, rr, counts, inflight, stream, world,
                 persisted, notifiers>>

\* The loop body starts with the lock taken, on entry and after each wakeup.
Enters(c) == pc[c] = "lock" /\ LockFree

GetClosed(c) ==
  /\ Enters(c) /\ Closed
  /\ Goto(c, "raised")
  /\ UNCHANGED <<phase, held, free, all, rr, counts, inflight, stream, world,
                 persisted, notifiers>>

GetFree(c) ==
  /\ Enters(c) /\ ~Closed
  /\ free # <<>>
  /\ free' = Tail(free)
  /\ HandOut(c, Head(free))
  /\ Goto(c, "hold")
  /\ UNCHANGED <<phase, all, rr, counts, stream, world, persisted, notifiers>>

GetIdle(c, m, S) ==
  /\ Enters(c) /\ ~Closed
  /\ free = <<>> /\ active < PoolSize
  /\ m \in Cached /\ ~IsStale(m)
  /\ S \subseteq Stale(Cached)
  /\ stream' = [Park(S) EXCEPT ![m] = "open"]
  /\ active' = active + 1
  /\ all' = Append(all, m)
  /\ HandOut(c, m)
  /\ Goto(c, "hold")
  /\ UNCHANGED <<phase, free, rr, creating, world, persisted, notifiers>>

\* Reserve a slot; the stream is opened outside the lock.
GetCreate(c) ==
  /\ Enters(c) /\ ~Closed
  /\ free = <<>> /\ active < PoolSize
  /\ Cached \subseteq Stale(Cached)
  /\ stream' = Park(Cached)
  /\ active' = active + 1
  /\ creating' = creating + 1
  /\ Goto(c, "create")
  /\ UNCHANGED <<phase, held, free, all, rr, inflight, world, persisted,
                 notifiers>>

GetWait(c) ==
  /\ Enters(c) /\ ~Closed
  /\ free = <<>> /\ active >= PoolSize /\ creating > 0
  /\ Goto(c, "wait")
  /\ UNCHANGED <<phase, held, free, all, rr, counts, inflight, stream, world,
                 persisted, notifiers>>

\* The branch after this one, `await self._free_mrds.get()` with the lock held,
\* is left out: SharesWholePool shows that no call reaches it.
GetShare(c) ==
  /\ Enters(c) /\ ~Closed
  /\ free = <<>> /\ active >= PoolSize /\ creating = 0 /\ all # <<>>
  /\ HandOut(c, all[(rr % Len(all)) + 1])
  /\ rr' = (rr + 1) % Len(all)
  /\ Goto(c, "hold")
  /\ UNCHANGED <<phase, free, all, counts, stream, world, persisted, notifiers>>

\* What the failure handler of a creator leaves alone.
KeptByFailure == <<phase, held, free, all, rr, inflight, stream, world, persisted>>

\* Mistake: the slot of a stream that could not be opened stays reserved.
CreateFail_KeepsSlot(c) ==
  /\ pc[c] = "create"
  /\ active' = active /\ creating' = creating - 1
  /\ notifiers' = notifiers \cup {c} /\ Goto(c, "failing")
  /\ UNCHANGED KeptByFailure

\* Mistake: only a successful open wakes the waiters.
CreateFail_Silent(c) ==
  /\ pc[c] = "create"
  /\ active' = active - 1 /\ creating' = creating - 1
  /\ notifiers' = notifiers /\ Goto(c, "raised")
  /\ UNCHANGED KeptByFailure

\* _create_mrd() raised, or the call was cancelled while awaiting it.
CreateFail(c) ==
  /\ pc[c] = "create"
  /\ active' = active - 1
  /\ creating' = creating - 1
  /\ notifiers' = notifiers \cup {c}
  /\ Goto(c, "failing")
  /\ UNCHANGED KeptByFailure

\* The stream is open and the pool still is: the last creator wakes the waiters.
CreateEnd(c) ==
  /\ pc[c] = "create" /\ ~Closed
  /\ creating' = creating - 1
  /\ stream' = [stream EXCEPT ![c] = "open"]
  /\ psize' = [psize EXCEPT ![c] = objSize]
  /\ all' = Append(all, c)
  /\ HandOut(c, c)
  /\ IF creating' = 0
     THEN notifiers' = notifiers \cup {c} /\ Goto(c, "telling")
     ELSE UNCHANGED notifiers /\ Goto(c, "hold")
  /\ UNCHANGED <<phase, free, rr, active, objSize, finalized, persisted>>

\* The pool was closed meanwhile: the new stream is closed at once.
CreateTooLate(c) ==
  /\ pc[c] = "create" /\ Closed
  /\ creating' = creating - 1
  /\ active' = active - 1
  /\ stream' = [stream EXCEPT ![c] = "closed"]
  /\ psize' = [psize EXCEPT ![c] = objSize]
  /\ Goto(c, "raised")
  /\ UNCHANGED <<phase, held, free, all, rr, inflight, objSize, finalized, persisted,
                 notifiers>>

\* The shielded task of c gets the lock and wakes every waiter.
NotifyAll(c) ==
  /\ c \in notifiers /\ LockFree
  /\ notifiers' = notifiers \ {c}
  /\ pc' = [d \in Calls |->
              CASE pc[d] = "wait"               -> "lock"
                [] d = c /\ pc[d] = "telling"   -> "hold"
                [] d = c /\ pc[d] = "failing"   -> "raised"
                [] OTHER                        -> pc[d]]
  /\ UNCHANGED <<phase, held, free, all, rr, counts, inflight, stream, world,
                 persisted>>

\* What a return leaves alone.
KeptByReturn == <<phase, all, rr, counts, world, persisted, notifiers>>

\* Mistake: whoever returns first requeues or closes a shared stream.
LetGo_First(c) ==
  LET m == held[c] IN
  /\ inflight' = [inflight EXCEPT ![m] = @ - 1]
  /\ held' = [held EXCEPT ![c] = NoStream]
  /\ IF Closed THEN stream' = [stream EXCEPT ![m] = "closed"] /\ UNCHANGED free
               ELSE free' = Append(free, m) /\ UNCHANGED stream
  /\ UNCHANGED KeptByReturn

\* Mistake: the last holder requeues even when the pool is closed.
LetGo_Requeues(c) ==
  LET m == held[c] IN
  /\ inflight' = [inflight EXCEPT ![m] = @ - 1]
  /\ held' = [held EXCEPT ![c] = NoStream]
  /\ IF inflight[m] > 1 THEN UNCHANGED free ELSE free' = Append(free, m)
  /\ UNCHANGED stream /\ UNCHANGED KeptByReturn

\* The finally clause of get_mrd(): the last holder requeues or closes.
LetGo(c) ==
  LET m == held[c] IN
  /\ inflight' = [inflight EXCEPT ![m] = @ - 1]
  /\ held' = [held EXCEPT ![c] = NoStream]
  /\ CASE inflight[m] > 1  -> UNCHANGED <<free, stream>>
       [] inflight[m] <= 1 /\ Closed ->
            stream' = [stream EXCEPT ![m] = "closed"] /\ UNCHANGED free
       [] OTHER ->
            free' = Append(free, m) /\ UNCHANGED stream
  /\ UNCHANGED KeptByReturn

Return(c) == pc[c] = "hold" /\ LetGo(c) /\ Goto(c, "done")

\* The body of the context manager fails, or a cancellation arrives there or
\* while the call awaits its own notification.
CancelHolder(c) ==
  pc[c] \in {"hold", "telling"} /\ LetGo(c) /\ Goto(c, "raised")

\* A cancellation while waiting for the lock, the condition or the shield.
Cancel(c) ==
  /\ pc[c] \in {"lock", "wait", "failing"}
  /\ Goto(c, "raised")
  /\ UNCHANGED <<phase, held, free, all, rr, counts, inflight, stream, world,
                 persisted, notifiers>>

-----------------------------------------------------------------------------
(* close().  A second close() returns at once and changes nothing. *)
Elements(q) == {q[i] : i \in 1..Len(q)}

\* Of the free streams those in `kept` go back to the shared cache and the
\* others, for which its queue has no room, are closed.
CloseBegin(kept) ==
  /\ phase \in {"ready", "failed"}
  /\ kept \subseteq Elements(free)
  /\ ~HasCache => kept = {}
  /\ phase' = "closing"
  /\ pc' = [c \in Calls |-> IF pc[c] = "wait" THEN "lock" ELSE pc[c]]
  /\ free' = <<>>
  /\ stream' = [m \in Streams |->
                  IF m \in kept THEN "cached"
                  ELSE IF m \in Elements(free) THEN "closed"
                  ELSE stream[m]]
  /\ UNCHANGED <<held, all, rr, counts, inflight, world, persisted, notifiers>>

CloseEnd ==
  /\ phase = "closing"
  /\ phase' = "closed"
  /\ all' = <<>>
  /\ stream' = [m \in Streams |->
                  IF stream[m] = "parked" THEN "closed" ELSE stream[m]]
  /\ UNCHANGED <<pc, held, free, rr, counts, inflight, world, persisted,
                 notifiers>>

-----------------------------------------------------------------------------
Enter(c) ==
  \/ GetClosed(c) \/ GetFree(c) \/ GetCreate(c) \/ GetWait(c) \/ GetShare(c)
  \/ \E m \in Streams : \E S \in SUBSET Cached : GetIdle(c, m, S)

Create(c) == CreateEnd(c) \/ CreateFail(c) \/ CreateTooLate(c)

Initialize ==
  \/ \E m \in Streams : \E S \in SUBSET Cached : InitializeFromCache(m, S)
  \/ InitializeBegin \/ InitializeEnd \/ InitializeFail

Close == CloseEnd \/ \E kept \in SUBSET Elements(free) : CloseBegin(kept)

Next ==
  \/ Grow \/ Initialize \/ Close
  \/ \E c \in Calls : \/ Call(c) \/ Enter(c) \/ Create(c) \/ NotifyAll(c)
                      \/ Return(c) \/ CancelHolder(c) \/ Cancel(c)

Spec == Init /\ [][Next]_vars

(***************************************************************************)
(* The event loop runs every ready task, the lock is handed on, and an     *)
(* open either succeeds or fails.  Answers assumes nothing of the callers: *)
(* a body may keep its stream for ever.                                    *)
(***************************************************************************)
Answers ==
  /\ WF_vars(InitializeEnd \/ InitializeFail) /\ WF_vars(CloseEnd)
  /\ \A c \in Calls :
       WF_vars(Enter(c)) /\ WF_vars(Create(c)) /\ WF_vars(NotifyAll(c))

LiveSpec == Spec /\ Answers
Returns == \A c \in Calls : WF_vars(Return(c))

-----------------------------------------------------------------------------
Open == {m \in Streams : stream[m] = "open"}
Holders(m) == {c \in Calls : held[c] = m}
Creators == {c \in Calls : pc[c] = "create"}

TypeOK ==
  /\ phase \in {"new", "opening", "ready", "failed", "closing", "closed"}
  /\ pc \in [Calls -> {"start", "lock", "wait", "create", "failing", "telling",
                       "hold", "done", "raised"}]
  /\ held \in [Calls -> Streams \cup {NoStream}]
  /\ free \in Seq(Streams) /\ all \in Seq(Streams)
  /\ rr \in Nat /\ active \in Nat /\ creating \in Nat
  /\ inflight \in [Streams -> Nat]
  /\ stream \in [Streams -> {"absent", "cached", "parked", "open", "closed"}]
  /\ psize \in [Streams -> Nat] /\ persisted \in Nat /\ objSize \in Nat
  /\ finalized \in BOOLEAN
  /\ notifiers \subseteq Calls

\* Every slot is a stream of _all_mrds or one being opened, and there are no
\* more of them than pool_size, whatever fails or is cancelled: a slot that is
\* never given back starves the pool.
SlotsAccounted ==
  /\ creating = Cardinality(Creators)
  /\ phase # "closed" => active = Len(all) + creating /\ active <= PoolSize

\* _inflight is the number of calls that have the stream, so that the holder
\* that sees itself as the last one is.
HoldersCounted == \A m \in Streams : inflight[m] = Cardinality(Holders(m))

\* A stream a call is using is never closed, parked or given back to the cache,
\* by a sharer that returns first or by close().
HeldStreamOpen == \A c \in Calls : held[c] # NoStream => stream[held[c]] = "open"

\* A queued stream is open, unused, queued once, and the bounded queue has room
\* for every stream that comes back: put_nowait() never raises QueueFull.
FreeStreamsUnused ==
  /\ \A i \in 1..Len(free) : stream[free[i]] = "open" /\ inflight[free[i]] = 0
  /\ \A i, j \in 1..Len(free) : free[i] = free[j] => i = j
  /\ Len(free) <= PoolSize

\* An open stream is queued or used: none is lost by a cancellation, a failure
\* or a close().
NoStreamLeaked == \A m \in Open : m \in Elements(free) \/ Holders(m) # {}

\* Once the pool is closed nothing stays open that nobody uses, not even the
\* stale streams it had taken from the cache.
ClosedPoolHoldsNothing ==
  phase = "closed" =>
    /\ \A m \in Streams : stream[m] # "parked"
    /\ \A m \in Open : Holders(m) # {}

\* A call that waits for streams being opened will be woken: one is still being
\* opened, or a notification is under way.
NoLostWakeup ==
  (\E c \in Calls : pc[c] = "wait") => creating > 0 \/ notifiers # {}

\* A call that finds every slot taken and nothing opening shares a stream out of
\* all pool_size of them; it never gets to `await self._free_mrds.get()`, which
\* would keep the lock.
SharesWholePool ==
  phase = "ready" /\ active >= PoolSize /\ creating = 0 => Len(all) = PoolSize

\* No stream of the pool was opened before the object had the size the pool
\* reports, although appends keep the generation the cache is keyed by.
NoStaleStream == \A i \in 1..Len(all) : psize[all[i]] >= persisted

-----------------------------------------------------------------------------
(* The inductive invariant that MRDPoolProofs uses.                          *)

\* A call has a stream while its body runs or it tells the others; the stream
\* it may open has not been opened before.
CallState ==
  \A c \in Calls :
    /\ held[c] # NoStream <=> pc[c] \in {"hold", "telling"}
    /\ pc[c] \in {"start", "lock", "wait", "create"} => stream[c] = "absent"

PhaseState ==
  /\ phase \in {"new", "opening", "failed"} =>
       /\ all = <<>> /\ free = <<>> /\ active = 0
       /\ \A c \in Calls : pc[c] = "start"
  /\ phase \in {"new", "opening"} => stream[First] = "absent"
  /\ phase = "ready" => all # <<>>
  /\ Closed => free = <<>> /\ \A c \in Calls : pc[c] # "wait"

\* _all_mrds lists the open streams, once each, until close() clears it.
Listed ==
  /\ \A i, j \in 1..Len(all) : all[i] = all[j] => i = j
  /\ phase = "ready" => \A i \in 1..Len(all) : stream[all[i]] = "open"
  /\ phase # "closed" =>
       /\ \A i \in 1..Len(all) : stream[all[i]] # "absent"
       /\ \A m \in Open : \E i \in 1..Len(all) : all[i] = m

SizesKnown ==
  /\ persisted <= objSize
  /\ \A m \in Streams : psize[m] <= objSize

Inductive ==
  /\ TypeOK /\ CallState /\ PhaseState /\ Listed /\ SizesKnown
  /\ SlotsAccounted /\ creating <= active
  /\ HoldersCounted /\ HeldStreamOpen /\ FreeStreamsUnused /\ NoStreamLeaked
  /\ ClosedPoolHoldsNothing /\ NoLostWakeup /\ NoStaleStream

-----------------------------------------------------------------------------
\* A call that asks gets a stream or an exception, without any other call
\* having to give its stream back.
EveryCallAnswered ==
  \A c \in Calls : pc[c] = "lock" ~> pc[c] \in {"hold", "done", "raised"}

\* If the callers return, every stream of a closed pool ends up closed or in the
\* cache.
ClosedPoolDrains == Returns => (phase = "closed" ~> Open = {})

\* The pool lends streams as StreamLending says.
Lending == INSTANCE StreamLending WITH
  Users <- Calls, Limit <- PoolSize,
  live <- Open, users <- [m \in Streams |-> Holders(m)]
LendsStreams == Lending!LendingSpec
=============================================================================
