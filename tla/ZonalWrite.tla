----------------------------- MODULE ZonalWrite -----------------------------
(***************************************************************************)
(* ZonalFile opened for writing (gcsfs/zonal_file.py): write, flush,       *)
(* commit and close over an append stream of the server, which replaces    *)
(* the object as soon as it opens and may leave it appendable or finalize  *)
(* it.  The caller's thread waits for calls that run on the event loop: a  *)
(* call may fail, and an interrupt (Ctrl-C) ends the wait but not the      *)
(* call, which is an orphan from then on.                                  *)
(***************************************************************************)
EXTENDS Naturals

CONSTANTS
  MaxWrites,           \* bound: appends started
  CommitsAfterFailure  \* whether the caller may commit() after a failure

ASSUME WriteAssumption == MaxWrites \in Nat /\ CommitsAfterFailure \in BOOLEAN

VARIABLES
  finalizeOnClose, forced, finalized, closed,  \* the file's attributes
  aaow,         \* self.aaow is not None
  wants,        \* finalize_on_close as passed to open()
  call,         \* the method that runs
  pc,           \* the stream call it waits for, or "idle"
  orphans,      \* stream calls nobody waits for
  stream,       \* "none", "open", "closed"
  object,       \* "old", "open" (replaced, appendable), "final"
  sent,         \* writes that succeeded
  persisted,    \* how many of them the object holds
  torn,         \* the object also holds data of a write that failed
  cached,       \* the object's entry in a cached listing: "none", "fresh", "stale"
  failed,       \* a stream call before the teardown has failed
  interrupted,  \* or the wait for one
  outcome       \* how close() ended

flags == <<finalizeOnClose, forced, finalized, closed>>
server == <<stream, object, sent, persisted, torn>>
history == <<wants, failed, interrupted>>
writeVars == <<flags, aaow, call, pc, orphans, server, cached, history, outcome>>

WriteInit ==
  /\ wants \in BOOLEAN /\ finalizeOnClose = wants
  /\ forced = FALSE /\ finalized = FALSE /\ closed = FALSE /\ aaow = FALSE
  /\ call = "none" /\ pc = "idle" /\ orphans = {}
  /\ stream = "none" /\ object = "old" /\ sent = 0 /\ persisted = 0 /\ torn = FALSE
  /\ cached \in {"none", "fresh"}
  /\ failed = FALSE /\ interrupted = FALSE /\ outcome = "none"

-----------------------------------------------------------------------------
\* The SDK's stream.  A call that fails may have closed it.
Opens(ok) ==
  /\ IF ok THEN stream' = "open" /\ object' = "open" ELSE UNCHANGED <<stream, object>>
  /\ UNCHANGED <<sent, persisted, torn>>

Appends(ok) ==
  IF stream # "open" THEN ~ok /\ UNCHANGED server
  ELSE /\ IF ok /\ pc = "append"
          THEN sent' = sent + 1 /\ torn' = torn /\ stream' = stream
          ELSE sent' = sent /\ torn' \in {torn, TRUE} /\ stream' \in {"open", "closed"}
       /\ persisted' \in persisted..sent'
       /\ UNCHANGED object

Flushes(ok) ==
  IF stream # "open" THEN ~ok /\ UNCHANGED server
  ELSE /\ persisted' \in IF ok THEN {sent} ELSE persisted..sent
       /\ stream' \in IF ok THEN {"open"} ELSE {"open", "closed"}
       /\ UNCHANGED <<object, sent, torn>>

Finalizes(ok) ==
  IF stream # "open" THEN ~ok /\ UNCHANGED server
  ELSE /\ \/ object' = "final" /\ persisted' = sent
          \/ ~ok /\ UNCHANGED <<object, persisted>>
       /\ stream' \in IF ok THEN {"closed"} ELSE {"open", "closed"}
       /\ UNCHANGED <<sent, torn>>

\* close_aaow(): a failure counts only if it was to finalize.
Closes(ok) ==
  /\ stream' = "closed" /\ ok
  /\ UNCHANGED <<object, sent, persisted, torn>>

FinalCloses(ok) ==
  /\ \/ object' = "final" /\ persisted' = sent /\ stream = "open"
     \/ ~ok /\ UNCHANGED <<object, persisted>>
  /\ stream' = "closed" /\ UNCHANGED <<sent, torn>>

Runs(op, ok) ==
  CASE op = "open" -> Opens(ok)
    [] op = "append" -> Appends(ok)
    [] op = "flush" -> Flushes(ok)
    [] op = "finalize" -> Finalizes(ok)
    [] op = "close" -> Closes(ok)
    [] op = "finalclose" -> FinalCloses(ok)

\* What a listing shows of the object, its size, has changed.
Touched ==
  IF cached # "none" /\ (persisted' # persisted \/ (object = "old" /\ object' # "old"))
  THEN "stale" ELSE cached

-----------------------------------------------------------------------------
\* The caller's methods, up to their first stream call.
Starts(method, op) ==
  /\ call' = method /\ pc' = IF aaow THEN op ELSE "open"
  /\ UNCHANGED <<finalizeOnClose, finalized, closed, aaow, orphans, server, cached, history, outcome>>

Write ==
  /\ pc = "idle" /\ ~closed /\ ~forced /\ sent < MaxWrites
  /\ Starts("write", "append") /\ UNCHANGED forced

Flush ==
  /\ pc = "idle" /\ ~closed /\ ~forced /\ ~finalized /\ aaow
  /\ Starts("flush", "flush") /\ UNCHANGED forced

ForceFlush ==
  /\ pc = "idle" /\ ~closed /\ ~forced /\ ~finalized
  /\ Starts("flush", "flush") /\ forced' = TRUE

Commit ==
  /\ pc = "idle" /\ ~closed /\ ~finalized
  /\ failed => CommitsAfterFailure
  /\ Starts("commit", "finalize") /\ UNCHANGED forced

\* What follows the closing flush, or its failure: fsspec marks the file closed,
\* the cached listing goes, and the stream is closed if it is open.
Tears(error, open, finalize) ==
  /\ closed' = TRUE
  /\ cached' = "none"
  /\ IF open THEN pc' = (IF finalize THEN "finalclose" ELSE "close") /\ outcome' = (IF error THEN "error" ELSE outcome)
     ELSE pc' = "idle" /\ outcome' = (IF error THEN "error" ELSE "ok")

Close ==
  /\ pc = "idle" /\ ~closed /\ call' = "close"
  /\ IF forced \/ finalized
     THEN Tears(FALSE, aaow /\ stream = "open", finalizeOnClose) /\ UNCHANGED forced
     ELSE /\ pc' = (IF aaow THEN "flush" ELSE "open") /\ forced' = TRUE
          /\ UNCHANGED <<closed, cached, outcome>>
  /\ UNCHANGED <<finalizeOnClose, finalized, aaow, orphans, server, history>>

\* The caller lists the directory.
List ==
  /\ pc = "idle" /\ cached' = "fresh"
  /\ UNCHANGED <<flags, aaow, call, pc, orphans, server, history, outcome>>

-----------------------------------------------------------------------------
NextOp == CASE call = "write" -> "append" [] call = "commit" -> "finalize" [] OTHER -> "flush"

\* _ensure_aaow()
Opened ==
  /\ pc = "open" /\ Runs("open", TRUE)
  /\ aaow' = TRUE /\ pc' = NextOp /\ cached' = Touched
  /\ UNCHANGED <<flags, call, orphans, history, outcome>>

OpenFailed ==
  /\ pc = "open" /\ Runs("open", FALSE)
  /\ closed' = TRUE /\ failed' = TRUE /\ pc' = "idle"
  /\ outcome' = IF call = "close" THEN "error" ELSE outcome
  /\ UNCHANGED <<finalizeOnClose, forced, finalized, aaow, call, orphans, cached, wants, interrupted>>

Appended ==
  /\ pc = "append" /\ Runs("append", TRUE)
  /\ pc' = "idle" /\ cached' = Touched
  /\ UNCHANGED <<flags, aaow, call, orphans, history, outcome>>

Flushed ==
  /\ pc = "flush" /\ Runs("flush", TRUE)
  /\ IF call = "close" THEN Tears(FALSE, TRUE, finalizeOnClose)
     ELSE pc' = "idle" /\ cached' = Touched /\ UNCHANGED <<closed, outcome>>
  /\ UNCHANGED <<finalizeOnClose, forced, finalized, aaow, call, orphans, history>>

Committed ==
  /\ pc = "finalize" /\ Runs("finalize", TRUE)
  /\ finalized' = TRUE /\ finalizeOnClose' = FALSE /\ pc' = "idle" /\ cached' = Touched
  /\ UNCHANGED <<forced, closed, aaow, call, orphans, history, outcome>>

\* Mistake: the file stays open for more calls, and close() finalizes.
Aborts_Forgets == UNCHANGED <<finalizeOnClose, forced>>

\* _abort_write()
Aborts ==
  /\ forced' = TRUE
  /\ finalizeOnClose' = (finalizeOnClose /\ finalized)

\* Mistake: as fsspec's close() does, the closing flush's error ends close().
CallFailed_NoTeardown ==
  /\ pc \in {"append", "flush", "finalize"} /\ Runs(pc, FALSE)
  /\ Aborts /\ failed' = TRUE
  /\ IF call = "close" THEN closed' = TRUE /\ outcome' = "error" /\ cached' = "none"
     ELSE cached' = Touched /\ UNCHANGED <<closed, outcome>>
  /\ pc' = "idle"
  /\ UNCHANGED <<finalized, aaow, call, orphans, wants, interrupted>>

\* A failed append, flush or finalize.
CallFailed ==
  /\ pc \in {"append", "flush", "finalize"} /\ Runs(pc, FALSE)
  /\ Aborts /\ failed' = TRUE
  /\ IF call = "close" THEN Tears(TRUE, stream' = "open", FALSE)
     ELSE pc' = "idle" /\ cached' = Touched /\ UNCHANGED <<closed, outcome>>
  /\ UNCHANGED <<finalized, aaow, call, orphans, wants, interrupted>>

\* Mistake: a failed finalization is only logged.
TornDown_Quiet ==
  /\ pc \in {"close", "finalclose"}
  /\ \E ok \in BOOLEAN : Runs(pc, ok)
  /\ outcome' = IF outcome = "error" THEN "error" ELSE "ok"
  /\ pc' = "idle" /\ cached' = Touched
  /\ UNCHANGED <<flags, aaow, call, orphans, history>>

TornDown ==
  /\ pc \in {"close", "finalclose"}
  /\ \E ok \in BOOLEAN :
       /\ Runs(pc, ok)
       /\ outcome' = IF ok /\ outcome # "error" THEN "ok" ELSE "error"
  /\ pc' = "idle" /\ cached' = Touched
  /\ UNCHANGED <<flags, aaow, call, orphans, history>>

\* sync_teardown() gives up waiting.
TeardownTimesOut ==
  /\ pc \in {"close", "finalclose"}
  /\ orphans' = orphans \cup {pc} /\ pc' = "idle" /\ outcome' = "error"
  /\ UNCHANGED <<flags, aaow, call, server, cached, history>>

\* The caller is interrupted while it waits.  No "except Exception" sees it: a
\* close() interrupted in its closing flush skips the teardown, and one that is
\* interrupted in the teardown leaves that to the loop.
Interrupt ==
  /\ pc # "idle"
  /\ orphans' = orphans \cup {pc} /\ pc' = "idle" /\ interrupted' = TRUE
  /\ failed' = (failed \/ pc \in {"append", "flush", "finalize"})
  /\ IF pc \in {"append", "flush", "finalize"} THEN Aborts ELSE UNCHANGED <<finalizeOnClose, forced>>
  /\ closed' = (closed \/ pc = "open" \/ call = "close")
  /\ outcome' = IF call # "close" THEN outcome
                ELSE IF pc \in {"close", "finalclose"} THEN "left" ELSE "interrupted"
  /\ UNCHANGED <<finalized, aaow, call, server, cached, wants>>

OrphanEnds ==
  /\ \E op \in orphans, ok \in BOOLEAN : Runs(op, ok) /\ orphans' = orphans \ {op}
  /\ cached' = Touched
  /\ UNCHANGED <<flags, aaow, call, pc, history, outcome>>

WriteNext ==
  \/ Write \/ Flush \/ ForceFlush \/ Commit \/ Close \/ List
  \/ Opened \/ OpenFailed \/ Appended \/ Flushed \/ Committed \/ CallFailed
  \/ TornDown \/ TeardownTimesOut \/ Interrupt \/ OrphanEnds

WriteSpec == WriteInit /\ [][WriteNext]_writeVars

-----------------------------------------------------------------------------
Ops == {"open", "append", "flush", "finalize", "close", "finalclose"}

WriteTypeOK ==
  /\ {finalizeOnClose, forced, finalized, closed, aaow, wants, torn, failed, interrupted} \subseteq BOOLEAN
  /\ call \in {"none", "write", "flush", "commit", "close"}
  /\ pc \in Ops \cup {"idle"} /\ orphans \subseteq Ops
  /\ stream \in {"none", "open", "closed"} /\ object \in {"old", "open", "final"}
  /\ sent \in 0..MaxWrites /\ persisted \in 0..sent
  /\ cached \in {"none", "fresh", "stale"}
  /\ outcome \in {"none", "ok", "error", "left", "interrupted"}
  /\ finalized => ~finalizeOnClose

\* "the partially written object is not finalized" (_abort_write): a finalized
\* object holds every write that succeeded and nothing of one that failed.
FinalizedIsWhole == object = "final" => persisted = sent /\ ~torn

\* A close() without error, with none before it, means that all is persisted and,
\* if that was asked for at open(), finalized.
SuccessIsPersisted ==
  outcome = "ok" /\ ~failed /\ ~interrupted =>
    object # "old" /\ persisted = sent /\ (wants => object = "final")

\* Neither the object nor the caller is told that more was kept than was.
WritesKept == FinalizedIsWhole /\ SuccessIsPersisted

\* "A failed closing flush must not skip the teardown below" (_close_impl):
\* once close() is over, with or without an error or with a teardown that was
\* left to the loop, and the calls left running have ended, the stream is closed.
\* A close() that is interrupted before its teardown is not spoken of.
StreamClosed ==
  outcome \in {"ok", "error", "left"} /\ pc = "idle" /\ orphans = {} /\ aaow => stream = "closed"

\* The same of every close().  The code does not keep this: an interrupt of the
\* closing flush passes the "except Exception" of _close_impl() and the teardown
\* is skipped, of a file that is marked closed.
StreamClosedHowever ==
  outcome # "none" /\ pc = "idle" /\ orphans = {} /\ aaow => stream = "closed"

\* "the open writer has already replaced the object" (_close_impl): no listing
\* from before or during the write outlives a close() that returned or raised an
\* error, if no call of the file was interrupted.
ListingDropped ==
  outcome \in {"ok", "error"} /\ pc = "idle" /\ ~interrupted /\ orphans = {} => cached # "stale"

\* What close() leaves behind when it returns or raises an error, and as for the
\* stream also when it is interrupted in its teardown.
TeardownComplete == WriteTypeOK /\ StreamClosed /\ ListingDropped
=============================================================================
