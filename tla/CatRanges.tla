----------------------------- MODULE CatRanges -----------------------------
(***************************************************************************)
(* The streams of one _cat_ranges() call in gcsfs/extended_gcsfs.py.  The  *)
(* ranges of an object are read by several tasks that share one MRD pool:  *)
(* the first to get a slot opens it, the last to leave closes it.  Opening *)
(* and reading fail, and the call is cancelled, at any moment.  How many   *)
(* streams an object has and which ranges go to which is StreamPlan; here  *)
(* any number of streams meets any number of non-empty ranges.             *)
(***************************************************************************)
EXTENDS Naturals, FiniteSets, Bounds

CONSTANTS
  Objects,     \* the objects of the call
  MaxStreams,  \* bound: streams of an object
  MaxFull,     \* bound: non-empty ranges of an object
  CallStreams, \* bound: streams of the call
  MaxSlots,    \* bound: the batch size
  Nobody       \* the holder of a free lock

ASSUME CatAssumption ==
  /\ IsFiniteSet(Objects)
  /\ MaxStreams \in Nat \ {0} /\ MaxFull \in Nat /\ CallStreams \in Nat /\ MaxSlots \in Nat \ {0}
  /\ Nobody \notin Objects \X (1..MaxStreams)

Streams == Objects \X (1..MaxStreams)

VARIABLES
  full,       \* non-empty ranges of each object
  alloc,      \* streams of each object
  batch,      \* batch_size of the call
  slots,      \* free slots of limiter
  has,        \* acquired, of each stream
  pc,         \* where each stream is
  lock,       \* the stream that holds init_lock of an object
  ready,      \* initialized, of each object
  shared,     \* the variable pool of each object is set
  pool,       \* the pool itself: "none", "open", "shut"
  opens,      \* pools opened for each object
  remaining,  \* of each object
  groups,     \* groups of each object, 0 before _init()
  result,     \* results of the ranges of each group
  empties,    \* results of the empty ranges of each object
  cancelled,  \* the task has been told to stop
  raises,     \* how each task ends: "no", "error", "cancel"
  caller      \* "waiting", "cancelling", "returned", "raised", "abandoned"

object == <<ready, shared, pool, opens, lock>>
inputs == <<full, alloc, batch>>
catVars == <<inputs, object, slots, has, pc, remaining, groups, result, empties, cancelled, raises, caller>>

\* The number of groups _split_ranges_across_streams() returns.
Groups(o) == Least(alloc[o], full[o])

CatInit ==
  /\ full \in [Objects -> 0..MaxFull] /\ alloc \in [Objects -> 1..MaxStreams]
  /\ Cardinality({s \in Streams : s[2] <= alloc[s[1]]}) <= CallStreams
  /\ batch \in 1..MaxSlots /\ slots = batch
  /\ has = [s \in Streams |-> FALSE]
  /\ pc = [s \in Streams |-> IF s[2] <= alloc[s[1]] THEN "new" ELSE "done"]
  /\ lock = [o \in Objects |-> Nobody] /\ ready = [o \in Objects |-> FALSE]
  /\ shared = [o \in Objects |-> FALSE] /\ pool = [o \in Objects |-> "none"]
  /\ opens = [o \in Objects |-> 0] /\ remaining = alloc /\ groups = [o \in Objects |-> 0]
  /\ result = [s \in Streams |-> "none"] /\ empties = [o \in Objects |-> "none"]
  /\ cancelled = [s \in Streams |-> FALSE] /\ raises = [s \in Streams |-> "no"]
  /\ caller = "waiting"

-----------------------------------------------------------------------------
\* The finally of _run_stream(), with the variable pool set if hold is true.
\* Mistake: the stream that opens the pool closes it, whoever still reads.
Leaves_FirstCloses(s, hold) ==
  LET o == s[1] IN
  /\ remaining' = [remaining EXCEPT ![o] = @ - 1]
  /\ IF s[2] = 1 /\ hold
     THEN pc' = [pc EXCEPT ![s] = "closing"] /\ shared' = [shared EXCEPT ![o] = FALSE] /\ UNCHANGED <<slots, has>>
     ELSE /\ pc' = [pc EXCEPT ![s] = "done"] /\ shared' = [shared EXCEPT ![o] = hold]
          /\ slots' = slots + (IF has[s] THEN 1 ELSE 0) /\ has' = [has EXCEPT ![s] = FALSE]

Leaves(s, hold) ==
  LET o == s[1] IN
  /\ remaining' = [remaining EXCEPT ![o] = @ - 1]
  /\ IF remaining[o] = 1 /\ hold
     THEN pc' = [pc EXCEPT ![s] = "closing"] /\ shared' = [shared EXCEPT ![o] = FALSE] /\ UNCHANGED <<slots, has>>
     ELSE /\ pc' = [pc EXCEPT ![s] = "done"] /\ shared' = [shared EXCEPT ![o] = hold]
          /\ slots' = slots + (IF has[s] THEN 1 ELSE 0) /\ has' = [has EXCEPT ![s] = FALSE]

\* What follows _init() in a stream, if it leaves an object with n groups.
Reads(s, hold, n) ==
  IF hold /\ s[2] <= n
  THEN pc' = [pc EXCEPT ![s] = "reading"] /\ shared' = [shared EXCEPT ![s[1]] = hold] /\ UNCHANGED <<slots, has, remaining>>
  ELSE Leaves(s, hold)

\* _init() is over for stream s: it lets go of init_lock.
Initialized(o) == ready' = [ready EXCEPT ![o] = TRUE] /\ lock' = [lock EXCEPT ![o] = Nobody]

\* An exception out of _init(), or out of the download.
Raise(s, e) == raises' = [raises EXCEPT ![s] = e]

\* A failure to open an object is the result of all its ranges.
AllFail(o) ==
  /\ result' = [s \in Streams |-> IF s[1] = o /\ s[2] <= Groups(o) THEN "error" ELSE result[s]]
  /\ empties' = [empties EXCEPT ![o] = "error"]

-----------------------------------------------------------------------------
\* A task begins, and waits for limiter.
Enter(s) ==
  /\ pc[s] = "new" /\ pc' = [pc EXCEPT ![s] = "limiter"]
  /\ UNCHANGED <<inputs, object, slots, has, remaining, groups, result, empties, cancelled, raises, caller>>

Acquire(s) ==
  /\ pc[s] = "limiter" /\ ~cancelled[s] /\ slots > 0
  /\ slots' = slots - 1 /\ has' = [has EXCEPT ![s] = TRUE] /\ pc' = [pc EXCEPT ![s] = "begin"]
  /\ UNCHANGED <<inputs, object, remaining, groups, result, empties, cancelled, raises, caller>>

\* _init() up to its first wait: for init_lock, or for the pool.
Begin(s) ==
  LET o == s[1] IN
  /\ pc[s] = "begin" /\ ~cancelled[s]
  /\ \/ ready[o] /\ Reads(s, shared[o], groups[o]) /\ UNCHANGED lock
     \/ /\ ~ready[o] /\ lock[o] = Nobody /\ lock' = [lock EXCEPT ![o] = s]
        /\ pc' = [pc EXCEPT ![s] = "opening"] /\ UNCHANGED <<slots, has, remaining, shared>>
     \/ /\ ~ready[o] /\ lock[o] # Nobody
        /\ pc' = [pc EXCEPT ![s] = "lock"] /\ UNCHANGED <<slots, has, remaining, shared, lock>>
  /\ UNCHANGED <<inputs, ready, pool, opens, groups, result, empties, cancelled, raises, caller>>

\* init_lock is free: another stream has initialized the object, or was
\* cancelled before it could.
Locked(s) ==
  LET o == s[1] IN
  /\ pc[s] = "lock" /\ ~cancelled[s] /\ lock[o] = Nobody
  /\ \/ ready[o] /\ Reads(s, shared[o], groups[o]) /\ UNCHANGED lock
     \/ /\ ~ready[o] /\ lock' = [lock EXCEPT ![o] = s]
        /\ pc' = [pc EXCEPT ![s] = "opening"] /\ UNCHANGED <<slots, has, remaining, shared>>
  /\ UNCHANGED <<inputs, ready, pool, opens, groups, result, empties, cancelled, raises, caller>>

\* The pool is open.  It knows the size of the object, or _info() is asked.
Opened(s) ==
  LET o == s[1] IN
  /\ pc[s] = "opening" /\ ~cancelled[s]
  /\ pool' = [pool EXCEPT ![o] = "open"] /\ opens' = [opens EXCEPT ![o] = @ + 1]
  /\ \/ /\ groups' = [groups EXCEPT ![o] = Groups(o)] /\ empties' = [empties EXCEPT ![o] = "empty"]
        /\ Initialized(o) /\ Reads(s, TRUE, Groups(o))
     \/ /\ pc' = [pc EXCEPT ![s] = "sizing"] /\ shared' = [shared EXCEPT ![o] = TRUE]
        /\ UNCHANGED <<groups, empties, ready, lock, slots, has, remaining>>
  /\ UNCHANGED <<inputs, result, cancelled, raises, caller>>

Sized(s) ==
  LET o == s[1] IN
  /\ pc[s] = "sizing" /\ ~cancelled[s]
  /\ groups' = [groups EXCEPT ![o] = Groups(o)] /\ empties' = [empties EXCEPT ![o] = "empty"]
  /\ Initialized(o) /\ Reads(s, TRUE, Groups(o))
  /\ UNCHANGED <<inputs, pool, opens, result, cancelled, raises, caller>>

\* Mistake: only the opening stream's range gets the error.
OpenFails_OneRange(s) ==
  LET o == s[1] IN
  /\ pc[s] = "opening" /\ ~cancelled[s]
  /\ result' = [result EXCEPT ![s] = "error"]
  /\ Initialized(o) /\ Leaves(s, FALSE)
  /\ UNCHANGED <<inputs, pool, opens, groups, empties, cancelled, raises, caller>>

OpenFails(s) ==
  LET o == s[1] IN
  /\ pc[s] = "opening" /\ ~cancelled[s]
  /\ AllFail(o) /\ Initialized(o) /\ Leaves(s, FALSE)
  /\ UNCHANGED <<inputs, pool, opens, groups, cancelled, raises, caller>>

\* _info() fails or is cancelled: the pool, which is not shared yet, is closed.
SizeFails(s) ==
  /\ pc[s] = "sizing" /\ shared' = [shared EXCEPT ![s[1]] = FALSE]
  /\ pc' = [pc EXCEPT ![s] = "giveup"]
  /\ IF cancelled[s] THEN Raise(s, "cancel") ELSE UNCHANGED raises
  /\ UNCHANGED <<inputs, ready, pool, opens, lock, slots, has, remaining, groups, result, empties, cancelled, caller>>

\* _close_pool() inside _init(): it ends although the task is cancelled meanwhile,
\* and may fail itself.
GivenUp(s) ==
  LET o == s[1] IN
  /\ pc[s] = "giveup" /\ pool' = [pool EXCEPT ![o] = "shut"]
  /\ \/ cancelled[s] /\ Raise(s, "cancel") /\ UNCHANGED <<result, empties>>
     \/ ~cancelled[s] /\ AllFail(o) /\ UNCHANGED raises
     \/ ~cancelled[s] /\ Raise(s, "error") /\ UNCHANGED <<result, empties>>
  /\ Initialized(o) /\ Leaves(s, FALSE)
  /\ UNCHANGED <<inputs, opens, groups, cancelled, caller>>

\* _download_range_group() ends: all its ranges have data, or all the error.
Read(s) ==
  /\ pc[s] = "reading" /\ ~cancelled[s]
  /\ \E r \in {"data", "error"} : result' = [result EXCEPT ![s] = r]
  /\ Leaves(s, shared[s[1]])
  /\ UNCHANGED <<inputs, ready, pool, opens, lock, groups, empties, cancelled, raises, caller>>

\* CancelledError, wherever the task waits; _close_pool() holds it back.
Hit(s) ==
  LET o == s[1] IN
  /\ cancelled[s] /\ pc[s] \in {"limiter", "begin", "lock", "opening", "reading"}
  /\ Raise(s, "cancel") /\ Leaves(s, shared[o])
  /\ IF pc[s] = "opening" THEN Initialized(o) ELSE UNCHANGED <<ready, lock>>
  /\ UNCHANGED <<inputs, pool, opens, groups, result, empties, cancelled, caller>>

\* Mistake: the slot of the last stream is lost.
Closed_KeepsSlot(s) ==
  /\ pc[s] = "closing" /\ pool' = [pool EXCEPT ![s[1]] = "shut"] /\ pc' = [pc EXCEPT ![s] = "done"]
  /\ UNCHANGED slots /\ has' = [has EXCEPT ![s] = FALSE]
  /\ \/ cancelled[s] /\ Raise(s, "cancel")
     \/ ~cancelled[s] /\ UNCHANGED raises
  /\ UNCHANGED <<inputs, ready, shared, opens, lock, remaining, groups, result, empties, cancelled, caller>>

\* The last stream has closed the pool.
Closed(s) ==
  /\ pc[s] = "closing" /\ pool' = [pool EXCEPT ![s[1]] = "shut"] /\ pc' = [pc EXCEPT ![s] = "done"]
  /\ slots' = slots + (IF has[s] THEN 1 ELSE 0) /\ has' = [has EXCEPT ![s] = FALSE]
  /\ \/ cancelled[s] /\ Raise(s, "cancel")
     \/ ~cancelled[s] /\ UNCHANGED raises
     \/ ~cancelled[s] /\ Raise(s, "error")
  /\ UNCHANGED <<inputs, ready, shared, opens, lock, remaining, groups, result, empties, cancelled, caller>>

-----------------------------------------------------------------------------
Over == \A s \in Streams : pc[s] = "done"

\* Mistake: the tasks are cancelled and not awaited.
Cancel_NoWait ==
  /\ caller = "waiting" /\ \A s \in Streams : pc[s] # "new"
  /\ cancelled' = [s \in Streams |-> pc[s] # "done"] /\ caller' = "raised"
  /\ UNCHANGED <<inputs, object, slots, has, pc, remaining, groups, result, empties, raises>>

\* The call is cancelled while it waits for its tasks.  The event loop has run
\* them all by then, for it runs tasks in the order of their creation.
Cancel ==
  /\ caller = "waiting" /\ \A s \in Streams : pc[s] # "new"
  /\ cancelled' = [s \in Streams |-> pc[s] # "done"] /\ caller' = "cancelling"
  /\ UNCHANGED <<inputs, object, slots, has, pc, remaining, groups, result, empties, raises>>

\* It is cancelled again, and leaves its tasks alone.
CancelAgain ==
  /\ caller = "cancelling" /\ caller' = "abandoned"
  /\ UNCHANGED <<inputs, object, slots, has, pc, remaining, groups, result, empties, cancelled, raises>>

Returns ==
  /\ caller \in {"waiting", "cancelling"} /\ Over
  /\ caller' = IF caller = "waiting" /\ \A s \in Streams : raises[s] = "no" THEN "returned" ELSE "raised"
  /\ UNCHANGED <<inputs, object, slots, has, pc, remaining, groups, result, empties, cancelled, raises>>

StreamStep(s) ==
  \/ Enter(s) \/ Acquire(s) \/ Begin(s) \/ Locked(s) \/ Opened(s) \/ Sized(s) \/ OpenFails(s)
  \/ SizeFails(s) \/ GivenUp(s) \/ Read(s) \/ Hit(s) \/ Closed(s)

CatNext == Returns \/ Cancel \/ CancelAgain \/ \E s \in Streams : StreamStep(s)

CatSpec == CatInit /\ [][CatNext]_catVars

-----------------------------------------------------------------------------
CatTypeOK ==
  /\ full \in [Objects -> 0..MaxFull] /\ alloc \in [Objects -> 1..MaxStreams] /\ batch \in 1..MaxSlots
  /\ slots \in 0..batch /\ has \in [Streams -> BOOLEAN]
  /\ pc \in [Streams -> {"new", "limiter", "begin", "lock", "opening", "sizing", "giveup", "reading", "closing", "done"}]
  /\ lock \in [Objects -> Streams \cup {Nobody}] /\ ready \in [Objects -> BOOLEAN]
  /\ shared \in [Objects -> BOOLEAN] /\ pool \in [Objects -> {"none", "open", "shut"}]
  /\ opens \in [Objects -> 0..1] /\ remaining \in [Objects -> 0..MaxStreams]
  /\ groups \in [Objects -> 0..MaxStreams]
  /\ result \in [Streams -> {"none", "data", "error"}] /\ empties \in [Objects -> {"none", "empty", "error"}]
  /\ cancelled \in [Streams -> BOOLEAN] /\ raises \in [Streams -> {"no", "error", "cancel"}]
  /\ caller \in {"waiting", "cancelling", "returned", "raised", "abandoned"}

\* A slot is free or belongs to one stream, also when streams are cancelled while
\* they wait for it.
SlotsExact == slots + Cardinality({s \in Streams : has[s]}) = batch

\* A stream reads from an open pool: the pool of an object is closed after the
\* last of its streams.
ReadsOpenPool == \A s \in Streams : pc[s] = "reading" => pool[s[1]] = "open"

\* What the streams of a call share.
SharedExactly == CatTypeOK /\ SlotsExact /\ ReadsOpenPool

\* A call that returns has a result for every range, and reports no failure as
\* an empty range.
EveryRangeAnswered ==
  caller = "returned" => \A o \in Objects :
    /\ empties[o] # "none"
    /\ \A g \in 1..Groups(o) : result[<<o, g>>] # "none"
    /\ empties[o] = "error" => \A g \in 1..Groups(o) : result[<<o, g>>] = "error"

\* "no task outlives this call" unless it is cancelled again, and no pool either.
LeavesNothing ==
  caller \in {"returned", "raised"} => Over /\ \A o \in Objects : pool[o] # "open"

\* The streams of a call are shared by those that need them and closed by the last, every range is
\* answered, and nothing stays behind.
StreamsRight == SharedExactly /\ EveryRangeAnswered /\ LeavesNothing

\* The call ends, though its streams share fewer slots than there are streams and
\* some wait for others with a slot in hand; and however it ends, its pools are
\* closed some day.
CallEnds ==
  /\ (\E s \in Streams : pc[s] \notin {"new", "done"}) ~> caller \notin {"waiting", "cancelling"}
  /\ <>[](\A o \in Objects : pool[o] # "open")
=============================================================================
