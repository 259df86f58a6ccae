----------------------------- MODULE ZonalOpen ------------------------------
(***************************************************************************)
(* ZonalFile opened for reading (gcsfs/zonal_file.py): the caller's thread *)
(* waits for a task of the event loop that checks a pool out of the        *)
(* MRDPoolCache.  The wait may be interrupted at any moment, the task goes *)
(* on, and a lock decides which side closes the pool.  Files of the same   *)
(* object share it, and the cache counts its users: a close too many takes  *)
(* the streams from another file, one too few keeps them for ever.         *)
(***************************************************************************)
EXTENDS Integers

CONSTANTS Files  \* opened files of one object

VARIABLES
  caller,   \* where the thread of each file is
  task,     \* where _checkout_pool() of each file is
  aborted,  \* handoff["aborted"]
  handoff,  \* handoff["pool"] is set
  pool,     \* self.mrd_pool is set
  held      \* checkouts less closes, of each file

openVars == <<caller, task, aborted, handoff, pool, held>>

OpenInit ==
  /\ caller = [f \in Files |-> "new"] /\ task = [f \in Files |-> "none"]
  /\ aborted = [f \in Files |-> FALSE] /\ handoff = [f \in Files |-> FALSE]
  /\ pool = [f \in Files |-> FALSE] /\ held = [f \in Files |-> 0]

-----------------------------------------------------------------------------
Open(f) ==
  /\ caller[f] = "new"
  /\ caller' = [caller EXCEPT ![f] = "waiting"] /\ task' = [task EXCEPT ![f] = "getting"]
  /\ UNCHANGED <<aborted, handoff, pool, held>>

\* MRDPoolCache.get() returns or raises.
Got(f) ==
  /\ task[f] = "getting"
  /\ \/ task' = [task EXCEPT ![f] = "got"] /\ held' = [held EXCEPT ![f] = @ + 1]
     \/ task' = [task EXCEPT ![f] = "raised"] /\ UNCHANGED held
  /\ UNCHANGED <<caller, aborted, handoff, pool>>

\* Mistake: the task does not look whether the caller has given up.
HandOver_Blindly(f) ==
  /\ task[f] = "got"
  /\ handoff' = [handoff EXCEPT ![f] = TRUE] /\ task' = [task EXCEPT ![f] = "returned"]
  /\ UNCHANGED <<caller, aborted, pool, held>>

HandOver(f) ==
  /\ task[f] = "got"
  /\ IF aborted[f]
     THEN task' = [task EXCEPT ![f] = "closing"] /\ UNCHANGED handoff
     ELSE handoff' = [handoff EXCEPT ![f] = TRUE] /\ task' = [task EXCEPT ![f] = "returned"]
  /\ UNCHANGED <<caller, aborted, pool, held>>

\* pool.close() on the event loop: the task's own, or one a teardown started.
PoolCloses(f) ==
  /\ task[f] = "closing"
  /\ task' = [task EXCEPT ![f] = "ended"] /\ held' = [held EXCEPT ![f] = @ - 1]
  /\ UNCHANGED <<caller, aborted, handoff, pool>>

-----------------------------------------------------------------------------
\* asyn.sync() returns what the task returned, or raises what it raised.
Returned(f) ==
  /\ caller[f] = "waiting" /\ task[f] = "returned"
  /\ pool' = [pool EXCEPT ![f] = TRUE] /\ caller' = [caller EXCEPT ![f] = "initing"]
  /\ UNCHANGED <<task, aborted, handoff, held>>

Raised(f) ==
  /\ \/ caller[f] = "waiting" /\ task[f] = "raised"
     \/ caller[f] = "initing"
  /\ caller' = [caller EXCEPT ![f] = "cleanup"]
  /\ UNCHANGED <<task, aborted, handoff, pool, held>>

InterruptOpen(f) ==
  /\ caller[f] \in {"waiting", "initing"}
  /\ caller' = [caller EXCEPT ![f] = "cleanup"]
  /\ UNCHANGED <<task, aborted, handoff, pool, held>>

Initialized(f) ==
  /\ caller[f] = "initing" /\ caller' = [caller EXCEPT ![f] = "open"]
  /\ UNCHANGED <<task, aborted, handoff, pool, held>>

\* Mistake: only a pool that sync() has returned is looked at.
GiveUp_OwnOnly(f) ==
  /\ caller[f] = "cleanup"
  /\ aborted' = [aborted EXCEPT ![f] = TRUE]
  /\ caller' = [caller EXCEPT ![f] = IF pool[f] THEN "teardown" ELSE "over"]
  /\ UNCHANGED <<task, handoff, pool, held>>

\* The cleanup's first part, under the lock.
GiveUp(f) ==
  /\ caller[f] = "cleanup"
  /\ aborted' = [aborted EXCEPT ![f] = TRUE]
  /\ pool' = [pool EXCEPT ![f] = @ \/ handoff[f]]
  /\ caller' = [caller EXCEPT ![f] = IF pool'[f] THEN "teardown" ELSE "over"]
  /\ UNCHANGED <<task, handoff, held>>

CloseReader(f) ==
  /\ caller[f] = "open" /\ caller' = [caller EXCEPT ![f] = "teardown"]
  /\ UNCHANGED <<task, aborted, handoff, pool, held>>

\* sync_teardown(): starts pool.close() and waits for it, or times out.
Teardown(f) ==
  /\ caller[f] = "teardown"
  /\ caller' = [caller EXCEPT ![f] = "over"] /\ pool' = [pool EXCEPT ![f] = FALSE]
  /\ task' = [task EXCEPT ![f] = "closing"]
  /\ UNCHANGED <<aborted, handoff, held>>

OpenStep(f) ==
  Got(f) \/ HandOver(f) \/ PoolCloses(f) \/ Returned(f) \/ Raised(f) \/ Initialized(f) \/ GiveUp(f) \/ Teardown(f)

OpenNext == \E f \in Files : Open(f) \/ OpenStep(f) \/ InterruptOpen(f) \/ CloseReader(f)

OpenSpec == OpenInit /\ [][OpenNext]_openVars

-----------------------------------------------------------------------------
OpenTypeOK ==
  /\ caller \in [Files -> {"new", "waiting", "initing", "open", "cleanup", "teardown", "over"}]
  /\ task \in [Files -> {"none", "getting", "got", "raised", "returned", "closing", "ended"}]
  /\ {aborted, handoff, pool} \subseteq [Files -> BOOLEAN]
  /\ held \in [Files -> 0..1]
  /\ \A f \in Files : pool[f] => handoff[f]

\* A file that is open, or that may still become so, has its pool: neither side
\* of an interrupted checkout closes it under a file that goes on.
OpenFilesHold ==
  \A f \in Files : caller[f] \in {"initing", "open"} => held[f] = 1 /\ task[f] = "returned"

\* "whichever side sees the abort closes the pool" (ZonalFile.__init__): once
\* both sides are done, the file is no user of the pool any more.
NothingLeft ==
  \A f \in Files : caller[f] = "over" /\ task[f] \in {"none", "raised", "returned", "ended"} => held[f] = 0

\* The hand-over as a whole.
HandedOver == OpenTypeOK /\ OpenFilesHold /\ NothingLeft

\* ... and both sides get there.
Settles == \A f \in Files : caller[f] = "cleanup" ~> (caller[f] = "over" /\ held[f] = 0)
=============================================================================
