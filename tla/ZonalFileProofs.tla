-------------------------- MODULE ZonalFileProofs ---------------------------
(***************************************************************************)
(* Proofs about the files of zonal buckets.  However an interrupt falls    *)
(* between a checkout and its caller, each file gives its pool back once,  *)
(* for any number of files (ZonalOpen).  Whatever calls on the append      *)
(* stream fail or are interrupted, an object that is finalized is whole,   *)
(* a close() that succeeds has kept everything, and one that does not      *)
(* still leaves no stream and no outdated listing (ZonalWrite).            *)
(***************************************************************************)
EXTENDS ZonalOpen, ZonalWrite, TLAPS

\* Who has the pool, by where both sides are.
SidesAgree ==
  \A f \in Files :
    /\ held[f] = IF task[f] \in {"got", "returned", "closing"} THEN 1 ELSE 0
    /\ handoff[f] => task[f] \in {"returned", "closing", "ended"}
    /\ pool[f] => task[f] = "returned"
    /\ caller[f] \in {"initing", "open", "teardown"} => pool[f]
    /\ task[f] = "returned" => handoff[f] /\ caller[f] \notin {"new", "over"}
    /\ caller[f] = "new" => task[f] = "none"
    /\ aborted[f] => caller[f] \in {"teardown", "over"}
    /\ handoff[f] /\ caller[f] # "over" => task[f] = "returned"
    /\ caller[f] = "over" => aborted[f] \/ task[f] \in {"closing", "ended"}

OpenInv == OpenTypeOK /\ SidesAgree

LEMMA OpenInitially == OpenInit => OpenInv
  BY DEF OpenInit, OpenInv, OpenTypeOK, SidesAgree

LEMMA OpenStays == OpenInv /\ [OpenNext]_openVars => OpenInv'
<1> SUFFICES ASSUME OpenInv, [OpenNext]_openVars PROVE OpenInv'
  OBVIOUS
<1> USE DEF OpenInv, OpenTypeOK, SidesAgree
<1>1. ASSUME NEW f \in Files, Open(f) PROVE OpenInv'
  BY <1>1 DEF Open
<1>2. ASSUME NEW f \in Files, Got(f) PROVE OpenInv'
  BY <1>2 DEF Got
<1>3. ASSUME NEW f \in Files, HandOver(f) PROVE OpenInv'
  <2>1. CASE aborted[f]
    BY <1>3, <2>1 DEF HandOver
  <2>2. CASE ~aborted[f]
    <3>1. /\ handoff' = [handoff EXCEPT ![f] = TRUE]
          /\ task' = [task EXCEPT ![f] = "returned"]
          /\ task[f] = "got" /\ UNCHANGED <<caller, aborted, pool, held>>
      BY <1>3, <2>2 DEF HandOver
    <3>2. OpenTypeOK'
      BY <3>1
    <3>3. SidesAgree'
      BY <3>1, <2>2
    <3> QED
      BY <3>2, <3>3
  <2> QED
    BY <2>1, <2>2
<1>4. ASSUME NEW f \in Files, PoolCloses(f) PROVE OpenInv'
  BY <1>4 DEF PoolCloses
<1>5. ASSUME NEW f \in Files, Returned(f) PROVE OpenInv'
  BY <1>5 DEF Returned
<1>6. ASSUME NEW f \in Files, Raised(f) PROVE OpenInv'
  BY <1>6 DEF Raised
<1>7. ASSUME NEW f \in Files, Initialized(f) PROVE OpenInv'
  BY <1>7 DEF Initialized
<1>8. ASSUME NEW f \in Files, GiveUp(f) PROVE OpenInv'
  <2>1. CASE pool[f] \/ handoff[f]
    BY <1>8, <2>1 DEF GiveUp
  <2>2. CASE ~(pool[f] \/ handoff[f])
    BY <1>8, <2>2 DEF GiveUp
  <2> QED
    BY <2>1, <2>2
<1>9. ASSUME NEW f \in Files, Teardown(f) PROVE OpenInv'
  BY <1>9 DEF Teardown
<1>10. ASSUME NEW f \in Files, InterruptOpen(f) PROVE OpenInv'
  BY <1>10 DEF InterruptOpen
<1>11. ASSUME NEW f \in Files, CloseReader(f) PROVE OpenInv'
  BY <1>11 DEF CloseReader
<1>12. CASE UNCHANGED openVars
  BY <1>12 DEF openVars
<1> QED
  BY <1>1, <1>2, <1>3, <1>4, <1>5, <1>6, <1>7, <1>8, <1>9, <1>10, <1>11, <1>12 DEF OpenNext, OpenStep

LEMMA OpenInvariant == OpenSpec => []OpenInv
<1>1. QED
  BY OpenInitially, OpenStays, PTL DEF OpenSpec

\* However a checkout is interrupted or fails: a file that opens or is open has its
\* pool, and once its thread and its task are done the pool has been given back
\* (ZonalFile.__init__ and _close_impl).
THEOREM HandOverExact == OpenSpec => []HandedOver
<1>1. OpenInv => OpenTypeOK
  BY DEF OpenInv
<1>2. OpenInv => OpenFilesHold
  BY DEF OpenInv, SidesAgree, OpenFilesHold
<1>3. OpenInv => NothingLeft
  BY DEF OpenInv, SidesAgree, NothingLeft
<1>4. OpenInv => HandedOver
  BY <1>1, <1>2, <1>3 DEF HandedOver
<1> QED
  BY <1>4, OpenInvariant, PTL

-----------------------------------------------------------------------------
\* The calls before the teardown, while nothing has failed.
Working == {"open", "append", "flush", "finalize"}

\* A failure ends the writing, and so does the end of the file; a call nobody waits for is from a
\* failed or finished file.
Stopped ==
  /\ failed => pc \in {"idle", "close"} /\ ((forced /\ ~finalizeOnClose) \/ (closed /\ pc = "idle"))
  /\ pc \in Working => ~closed /\ ~failed /\ orphans = {}
  /\ orphans # {} => closed \/ failed
  /\ orphans # {} => interrupted \/ outcome = "error"
  /\ ~interrupted => orphans \subseteq {"close", "finalclose"}
  /\ interrupted => failed \/ closed
  /\ outcome # "none" => call = "close" /\ closed
  /\ outcome = "ok" => pc = "idle"
  /\ pc \in {"close", "finalclose"} => closed /\ call = "close" /\ outcome \in {"none", "error"}

\* What the writer is while the file has it, and before.
Opening ==
  /\ pc \in Ops \ {"open"} => aaow
  /\ pc = "open" => ~aaow /\ call # "none"
  /\ aaow => stream # "none" /\ object # "old"
  /\ ~aaow /\ ~interrupted => cached # "stale"
  /\ ~aaow => object # "final" /\ orphans \subseteq {"open"} /\ sent = 0 /\ ~finalized
  /\ ~aaow /\ ~closed => stream = "none" /\ object = "old"
  /\ "open" \in orphans => ~aaow /\ closed /\ pc = "idle"

\* The object is finalized only when nothing of a failed write is in it or can come into it.
Finalizing ==
  /\ torn => failed
  /\ object = "final" => persisted = sent /\ ~torn
  /\ object = "final" /\ stream = "open" => failed /\ "append" \notin orphans
  /\ "append" \in orphans => failed
  /\ "finalize" \in orphans => failed /\ ~torn /\ "append" \notin orphans
  /\ "finalclose" \in orphans => orphans = {"finalclose"} /\ pc = "idle" /\ ~failed /\ closed
                                 /\ persisted = sent /\ object # "old"
  /\ pc = "finalclose" => orphans = {} /\ ~failed
  /\ finalized => object = "final" /\ stream = "closed"

\* What a close() without failure relies on.
Persisting ==
  /\ ~failed => finalizeOnClose = (wants /\ ~finalized)
  /\ pc \in {"close", "finalclose"} =>
       /\ cached = "none"
       /\ ~failed => persisted = sent /\ (pc = "close" => ~finalizeOnClose)
  /\ pc = "append" => call = "write"
  /\ pc \in {"open", "append"} /\ call = "write" => ~forced /\ sent < MaxWrites
  /\ pc = "open" /\ call = "commit" => ~forced
  /\ forced /\ ~closed /\ ~failed /\ pc = "idle" =>
       finalized \/ (aaow /\ stream = "open" /\ persisted = sent)
  /\ pc = "flush" => call \in {"flush", "close"}
  /\ SuccessIsPersisted

\* What is left of the stream and of the listing.
Leaving ==
  /\ outcome \in {"ok", "error", "left"} /\ pc = "idle" /\ aaow =>
       stream = "closed" \/ orphans \cap {"close", "finalclose"} # {}
  /\ outcome \in {"ok", "error"} /\ pc = "idle" /\ ~interrupted => cached # "stale"

WriteInv == WriteTypeOK /\ Stopped /\ Opening /\ Finalizing /\ Persisting /\ Leaving

-----------------------------------------------------------------------------
USE WriteAssumption DEF WriteInv, WriteTypeOK, Stopped, Opening, Finalizing, Persisting, Leaving,
                        SuccessIsPersisted, Working, Ops, Touched, flags, server, history

LEMMA WriteInitially == WriteInit => WriteInv
<1> SUFFICES ASSUME WriteInit PROVE WriteInv OBVIOUS
<1> USE DEF WriteInit
<1>1. WriteTypeOK
  <2>1. sent \in 0..MaxWrites /\ persisted \in 0..sent OBVIOUS
  <2>2. {finalizeOnClose, forced, finalized, closed, aaow, wants, torn, failed, interrupted} \subseteq BOOLEAN
    OBVIOUS
  <2> QED BY <2>1, <2>2
<1>2. Stopped OBVIOUS
<1>3. Opening OBVIOUS
<1>4. Finalizing OBVIOUS
<1>5. Persisting OBVIOUS
<1>6. Leaving OBVIOUS
<1> QED BY <1>1, <1>2, <1>3, <1>4, <1>5, <1>6

LEMMA WriteKeeps == ASSUME WriteInv, ~CommitsAfterFailure, Write PROVE WriteInv'
<1> USE DEF Write, Starts
<1>1. WriteTypeOK' OBVIOUS
<1>2. Stopped' OBVIOUS
<1>3. Opening' OBVIOUS
<1>4. Finalizing' OBVIOUS
<1>5. Persisting' OBVIOUS
<1>6. Leaving' OBVIOUS
<1> QED BY <1>1, <1>2, <1>3, <1>4, <1>5, <1>6

LEMMA FlushKeeps == ASSUME WriteInv, ~CommitsAfterFailure, Flush PROVE WriteInv'
<1> USE DEF Flush, Starts
<1>1. WriteTypeOK' OBVIOUS
<1>2. Stopped' OBVIOUS
<1>3. Opening' OBVIOUS
<1>4. Finalizing' OBVIOUS
<1>5. Persisting' OBVIOUS
<1>6. Leaving' OBVIOUS
<1> QED BY <1>1, <1>2, <1>3, <1>4, <1>5, <1>6

LEMMA ForceFlushKeeps == ASSUME WriteInv, ~CommitsAfterFailure, ForceFlush PROVE WriteInv'
<1> USE DEF ForceFlush, Starts
<1>1. WriteTypeOK' OBVIOUS
<1>2. Stopped' OBVIOUS
<1>3. Opening' OBVIOUS
<1>4. Finalizing' OBVIOUS
<1>5. Persisting' OBVIOUS
<1>6. Leaving' OBVIOUS
<1> QED BY <1>1, <1>2, <1>3, <1>4, <1>5, <1>6

LEMMA CommitKeeps == ASSUME WriteInv, ~CommitsAfterFailure, Commit PROVE WriteInv'
<1> USE DEF Commit, Starts
<1>1. WriteTypeOK' OBVIOUS
<1>2. Stopped' OBVIOUS
<1>3. Opening' OBVIOUS
<1>4. Finalizing' OBVIOUS
<1>5. Persisting' OBVIOUS
<1>6. Leaving' OBVIOUS
<1> QED BY <1>1, <1>2, <1>3, <1>4, <1>5, <1>6

LEMMA CloseKeeps == ASSUME WriteInv, ~CommitsAfterFailure, Close PROVE WriteInv'
<1> USE DEF Close, Tears
<1>1. WriteTypeOK'
  <2>1. CASE forced \/ finalized
    <3>1. /\ closed' = TRUE /\ cached' = "none" /\ pc' \in {"finalclose", "close", "idle"} /\ call' = "close"
          /\ outcome' \in {"error", "ok", outcome}
          /\ UNCHANGED <<forced, finalizeOnClose, finalized, aaow, orphans, server, history>>
      BY <2>1
    <3> HIDE DEF Close
    <3> QED BY <3>1
  <2>2. CASE ~(forced \/ finalized)
    BY <2>2
  <2> QED BY <2>1, <2>2
<1>2. Stopped' OBVIOUS
<1>3. Opening' OBVIOUS
<1>4. Finalizing' OBVIOUS
<1>5. Persisting' OBVIOUS
<1>6. Leaving' OBVIOUS
<1> QED BY <1>1, <1>2, <1>3, <1>4, <1>5, <1>6

LEMMA ListKeeps == ASSUME WriteInv, ~CommitsAfterFailure, List PROVE WriteInv'
<1> USE DEF List
<1>1. WriteTypeOK' OBVIOUS
<1>2. Stopped' OBVIOUS
<1>3. Opening' OBVIOUS
<1>4. Finalizing' OBVIOUS
<1>5. Persisting' OBVIOUS
<1>6. Leaving' OBVIOUS
<1> QED BY <1>1, <1>2, <1>3, <1>4, <1>5, <1>6

LEMMA OpenedKeeps == ASSUME WriteInv, ~CommitsAfterFailure, Opened PROVE WriteInv'
<1> USE DEF Opened, Runs, Opens, NextOp
<1>1. WriteTypeOK' OBVIOUS
<1>2. Stopped' OBVIOUS
<1>3. Opening' OBVIOUS
<1>4. Finalizing' OBVIOUS
<1>5. Persisting' OBVIOUS
<1>6. Leaving' OBVIOUS
<1> QED BY <1>1, <1>2, <1>3, <1>4, <1>5, <1>6

LEMMA OpenFailedKeeps == ASSUME WriteInv, ~CommitsAfterFailure, OpenFailed PROVE WriteInv'
<1> USE DEF OpenFailed, Runs, Opens
<1>1. WriteTypeOK' OBVIOUS
<1>2. Stopped' OBVIOUS
<1>3. Opening' OBVIOUS
<1>4. Finalizing' OBVIOUS
<1>5. Persisting' OBVIOUS
<1>6. Leaving' OBVIOUS
<1> QED BY <1>1, <1>2, <1>3, <1>4, <1>5, <1>6

LEMMA AppendedKeeps == ASSUME WriteInv, ~CommitsAfterFailure, Appended PROVE WriteInv'
<1> USE DEF Appended, Runs, Appends
<1>1. WriteTypeOK'
  <2>1. sent \in Nat /\ persisted \in Nat /\ persisted <= sent /\ sent <= MaxWrites OBVIOUS
  <2>2. sent' \in 0..MaxWrites BY <2>1
  <2>3. persisted' \in 0..sent' BY <2>1
  <2> QED BY <2>2, <2>3
<1>2. Stopped' OBVIOUS
<1>3. Opening' OBVIOUS
<1>4. Finalizing' OBVIOUS
<1>5. Persisting' OBVIOUS
<1>6. Leaving' OBVIOUS
<1> QED BY <1>1, <1>2, <1>3, <1>4, <1>5, <1>6

LEMMA FlushedKeeps == ASSUME WriteInv, ~CommitsAfterFailure, Flushed PROVE WriteInv'
<1> USE DEF Flushed, Runs, Flushes, Tears
<1>1. WriteTypeOK'
  <2>1. sent \in Nat /\ persisted \in Nat /\ persisted <= sent /\ sent <= MaxWrites OBVIOUS
  <2>2. sent' \in 0..MaxWrites BY <2>1
  <2>3. persisted' \in 0..sent' BY <2>1
  <2> QED BY <2>2, <2>3
<1>2. Stopped' OBVIOUS
<1>3. Opening' OBVIOUS
<1>4. Finalizing' OBVIOUS
<1>5. Persisting' OBVIOUS
<1>6. Leaving' OBVIOUS
<1> QED BY <1>1, <1>2, <1>3, <1>4, <1>5, <1>6

LEMMA CommittedKeeps == ASSUME WriteInv, ~CommitsAfterFailure, Committed PROVE WriteInv'
<1> USE DEF Committed, Runs, Finalizes
<1>1. WriteTypeOK'
  <2>1. sent \in Nat /\ persisted \in Nat /\ persisted <= sent /\ sent <= MaxWrites OBVIOUS
  <2>2. sent' \in 0..MaxWrites BY <2>1
  <2>3. persisted' \in 0..sent' BY <2>1
  <2> QED BY <2>2, <2>3
<1>2. Stopped' OBVIOUS
<1>3. Opening' OBVIOUS
<1>4. Finalizing' OBVIOUS
<1>5. Persisting' OBVIOUS
<1>6. Leaving' OBVIOUS
<1> QED BY <1>1, <1>2, <1>3, <1>4, <1>5, <1>6

LEMMA TeardownTimesOutKeeps ==
  ASSUME WriteInv, ~CommitsAfterFailure, TeardownTimesOut PROVE WriteInv'
<1> USE DEF TeardownTimesOut
<1>1. WriteTypeOK' OBVIOUS
<1>2. Stopped' OBVIOUS
<1>3. Opening' OBVIOUS
<1>4. Finalizing' OBVIOUS
<1>5. Persisting' OBVIOUS
<1>6. Leaving' OBVIOUS
<1> QED BY <1>1, <1>2, <1>3, <1>4, <1>5, <1>6

LEMMA InterruptKeeps == ASSUME WriteInv, ~CommitsAfterFailure, Interrupt PROVE WriteInv'
<1> USE DEF Interrupt, Aborts
<1>1. WriteTypeOK'
  <2>1. CASE pc \in {"append", "flush", "finalize"} BY <2>1, SMTT(30)
  <2>2. CASE pc \notin {"append", "flush", "finalize"} BY <2>2, SMTT(30)
  <2> QED BY <2>1, <2>2
<1>2. Stopped' OBVIOUS
<1>3. Opening' OBVIOUS
<1>4. Finalizing' OBVIOUS
<1>5. Persisting' OBVIOUS
<1>6. Leaving' OBVIOUS
<1> QED BY <1>1, <1>2, <1>3, <1>4, <1>5, <1>6

LEMMA CallFailedKeeps == ASSUME WriteInv, ~CommitsAfterFailure, CallFailed PROVE WriteInv'
<1> USE DEF CallFailed, Aborts, Tears
<1>1. CASE pc = "append"
  <2>1. Appends(FALSE) BY <1>1 DEF Runs
  <2>2. WriteTypeOK'
    <3>1. sent \in Nat /\ persisted \in Nat /\ persisted <= sent /\ sent <= MaxWrites OBVIOUS
    <3>2. sent' = sent BY <1>1, <2>1 DEF Appends
    <3>3. persisted' = persisted \/ persisted' \in persisted..sent \/ persisted' = sent
      BY <3>2, <1>1, <2>1 DEF Appends
    <3>4. persisted' \in Nat /\ persisted' <= sent BY <3>1, <3>3
    <3>5. sent' \in 0..MaxWrites /\ persisted' \in 0..sent' BY <3>1, <3>2, <3>4
    <3>6. {finalizeOnClose, forced, finalized, closed, aaow, wants, torn, failed, interrupted}' \subseteq BOOLEAN
      BY <1>1, <2>1 DEF Appends
    <3> QED BY <3>5, <3>6, <1>1, <2>1 DEF Appends
  <2>3. Stopped' BY <1>1, <2>1 DEF Appends
  <2>4. Opening' BY <1>1, <2>1 DEF Appends
  <2>5. Finalizing' BY <1>1, <2>1 DEF Appends
  <2>6. Persisting' BY <1>1, <2>1 DEF Appends
  <2>7. Leaving' BY <1>1, <2>1 DEF Appends
  <2> QED BY <2>2, <2>3, <2>4, <2>5, <2>6, <2>7
<1>2. CASE pc = "flush"
  <2>1. Flushes(FALSE) BY <1>2 DEF Runs
  <2>2. WriteTypeOK'
    <3>1. sent \in Nat /\ persisted \in Nat /\ persisted <= sent /\ sent <= MaxWrites OBVIOUS
    <3>2. sent' = sent BY <1>2, <2>1 DEF Flushes
    <3>3. persisted' = persisted \/ persisted' \in persisted..sent \/ persisted' = sent
      BY <3>2, <1>2, <2>1 DEF Flushes
    <3>4. persisted' \in Nat /\ persisted' <= sent BY <3>1, <3>3
    <3>5. sent' \in 0..MaxWrites /\ persisted' \in 0..sent' BY <3>1, <3>2, <3>4
    <3>6. {finalizeOnClose, forced, finalized, closed, aaow, wants, torn, failed, interrupted}' \subseteq BOOLEAN
      BY <1>2, <2>1 DEF Flushes
    <3> QED BY <3>5, <3>6, <1>2, <2>1 DEF Flushes
  <2>3. Stopped' BY <1>2, <2>1 DEF Flushes
  <2>4. Opening' BY <1>2, <2>1 DEF Flushes
  <2>5. Finalizing' BY <1>2, <2>1 DEF Flushes
  <2>6. Persisting' BY <1>2, <2>1 DEF Flushes
  <2>7. Leaving' BY <1>2, <2>1 DEF Flushes
  <2> QED BY <2>2, <2>3, <2>4, <2>5, <2>6, <2>7
<1>3. CASE pc = "finalize"
  <2>1. Finalizes(FALSE) BY <1>3 DEF Runs
  <2>2. WriteTypeOK'
    <3>1. sent \in Nat /\ persisted \in Nat /\ persisted <= sent /\ sent <= MaxWrites OBVIOUS
    <3>2. sent' = sent BY <1>3, <2>1 DEF Finalizes
    <3>3. persisted' = persisted \/ persisted' \in persisted..sent \/ persisted' = sent
      BY <3>2, <1>3, <2>1 DEF Finalizes
    <3>4. persisted' \in Nat /\ persisted' <= sent BY <3>1, <3>3
    <3>5. sent' \in 0..MaxWrites /\ persisted' \in 0..sent' BY <3>1, <3>2, <3>4
    <3>6. {finalizeOnClose, forced, finalized, closed, aaow, wants, torn, failed, interrupted}' \subseteq BOOLEAN
      BY <1>3, <2>1 DEF Finalizes
    <3> QED BY <3>5, <3>6, <1>3, <2>1 DEF Finalizes
  <2>3. Stopped' BY <1>3, <2>1 DEF Finalizes
  <2>4. Opening' BY <1>3, <2>1 DEF Finalizes
  <2>5. Finalizing' BY <1>3, <2>1 DEF Finalizes
  <2>6. Persisting' BY <1>3, <2>1 DEF Finalizes
  <2>7. Leaving' BY <1>3, <2>1 DEF Finalizes
  <2> QED BY <2>2, <2>3, <2>4, <2>5, <2>6, <2>7
<1> QED BY <1>1, <1>2, <1>3

LEMMA TornDownKeeps == ASSUME WriteInv, ~CommitsAfterFailure, TornDown PROVE WriteInv'
<1> USE DEF TornDown
<1>0. PICK ok \in BOOLEAN : Runs(pc, ok) /\ outcome' = IF ok /\ outcome # "error" THEN "ok" ELSE "error"
  OBVIOUS
<1>1. CASE pc = "close"
  <2>1. Closes(ok) BY <1>0, <1>1 DEF Runs
  <2>2. WriteTypeOK' BY <1>0, <1>1, <2>1 DEF Closes
  <2>3. Stopped' BY <1>0, <1>1, <2>1 DEF Closes
  <2>4. Opening' BY <1>0, <1>1, <2>1 DEF Closes
  <2>5. Finalizing' BY <1>0, <1>1, <2>1 DEF Closes
  <2>6. Persisting' BY <1>0, <1>1, <2>1 DEF Closes
  <2>7. Leaving' BY <1>0, <1>1, <2>1 DEF Closes
  <2> QED BY <2>2, <2>3, <2>4, <2>5, <2>6, <2>7
<1>2. CASE pc = "finalclose"
  <2>1. FinalCloses(ok) BY <1>0, <1>2 DEF Runs
  <2>2. WriteTypeOK' BY <1>0, <1>2, <2>1 DEF FinalCloses
  <2>3. Stopped' BY <1>0, <1>2, <2>1 DEF FinalCloses
  <2>4. Opening' BY <1>0, <1>2, <2>1 DEF FinalCloses
  <2>5. Finalizing' BY <1>0, <1>2, <2>1 DEF FinalCloses
  <2>6. Persisting' BY <1>0, <1>2, <2>1 DEF FinalCloses
  <2>7. Leaving' BY <1>0, <1>2, <2>1 DEF FinalCloses
  <2> QED BY <2>2, <2>3, <2>4, <2>5, <2>6, <2>7
<1> QED BY <1>1, <1>2

LEMMA OrphanEndsKeeps == ASSUME WriteInv, ~CommitsAfterFailure, OrphanEnds PROVE WriteInv'
<1> USE DEF OrphanEnds
<1>0. PICK op \in orphans, ok \in BOOLEAN : Runs(op, ok) /\ orphans' = orphans \ {op} OBVIOUS
<1>1. CASE op = "open"
  <2>1. Opens(ok) BY <1>0, <1>1 DEF Runs
  <2>2. WriteTypeOK' BY <1>0, <1>1, <2>1 DEF Opens
  <2>3. Stopped' BY <1>0, <1>1, <2>1 DEF Opens
  <2>4. Opening' BY <1>0, <1>1, <2>1 DEF Opens
  <2>5. Finalizing' BY <1>0, <1>1, <2>1 DEF Opens
  <2>6. Persisting' BY <1>0, <1>1, <2>1 DEF Opens
  <2>7. Leaving' BY <1>0, <1>1, <2>1 DEF Opens
  <2> QED BY <2>2, <2>3, <2>4, <2>5, <2>6, <2>7
<1>2. CASE op = "append"
  <2>1. Appends(ok) BY <1>0, <1>2 DEF Runs
  <2>2. WriteTypeOK'
    <3>1. sent \in Nat /\ persisted \in Nat /\ persisted <= sent /\ sent <= MaxWrites OBVIOUS
    <3>2. sent' = sent BY <1>0, <1>2, <2>1 DEF Appends
    <3>3. persisted' = persisted \/ persisted' \in persisted..sent \/ persisted' = sent
      BY <3>2, <1>0, <1>2, <2>1 DEF Appends
    <3>4. persisted' \in Nat /\ persisted' <= sent BY <3>1, <3>3
    <3>5. sent' \in 0..MaxWrites /\ persisted' \in 0..sent' BY <3>1, <3>2, <3>4
    <3>6. {finalizeOnClose, forced, finalized, closed, aaow, wants, torn, failed, interrupted}' \subseteq BOOLEAN
      BY <1>0, <1>2, <2>1 DEF Appends
    <3> QED BY <3>5, <3>6, <1>0, <1>2, <2>1 DEF Appends
  <2>3. Stopped' BY <1>0, <1>2, <2>1 DEF Appends
  <2>4. Opening' BY <1>0, <1>2, <2>1 DEF Appends
  <2>5. Finalizing' BY <1>0, <1>2, <2>1 DEF Appends
  <2>6. Persisting' BY <1>0, <1>2, <2>1 DEF Appends
  <2>7. Leaving' BY <1>0, <1>2, <2>1 DEF Appends
  <2> QED BY <2>2, <2>3, <2>4, <2>5, <2>6, <2>7
<1>3. CASE op = "flush"
  <2>1. Flushes(ok) BY <1>0, <1>3 DEF Runs
  <2>2. WriteTypeOK'
    <3>1. sent \in Nat /\ persisted \in Nat /\ persisted <= sent /\ sent <= MaxWrites OBVIOUS
    <3>2. sent' = sent BY <1>0, <1>3, <2>1 DEF Flushes
    <3>3. persisted' = persisted \/ persisted' \in persisted..sent \/ persisted' = sent
      BY <3>2, <1>0, <1>3, <2>1 DEF Flushes
    <3>4. persisted' \in Nat /\ persisted' <= sent BY <3>1, <3>3
    <3>5. sent' \in 0..MaxWrites /\ persisted' \in 0..sent' BY <3>1, <3>2, <3>4
    <3>6. {finalizeOnClose, forced, finalized, closed, aaow, wants, torn, failed, interrupted}' \subseteq BOOLEAN
      BY <1>0, <1>3, <2>1 DEF Flushes
    <3> QED BY <3>5, <3>6, <1>0, <1>3, <2>1 DEF Flushes
  <2>3. Stopped' BY <1>0, <1>3, <2>1 DEF Flushes
  <2>4. Opening' BY <1>0, <1>3, <2>1 DEF Flushes
  <2>5. Finalizing' BY <1>0, <1>3, <2>1 DEF Flushes
  <2>6. Persisting' BY <1>0, <1>3, <2>1 DEF Flushes
  <2>7. Leaving' BY <1>0, <1>3, <2>1 DEF Flushes
  <2> QED BY <2>2, <2>3, <2>4, <2>5, <2>6, <2>7
<1>4. CASE op = "finalize"
  <2>1. Finalizes(ok) BY <1>0, <1>4 DEF Runs
  <2>2. WriteTypeOK'
    <3>1. sent \in Nat /\ persisted \in Nat /\ persisted <= sent /\ sent <= MaxWrites OBVIOUS
    <3>2. sent' = sent BY <1>0, <1>4, <2>1 DEF Finalizes
    <3>3. persisted' = persisted \/ persisted' \in persisted..sent \/ persisted' = sent
      BY <3>2, <1>0, <1>4, <2>1 DEF Finalizes
    <3>4. persisted' \in Nat /\ persisted' <= sent BY <3>1, <3>3
    <3>5. sent' \in 0..MaxWrites /\ persisted' \in 0..sent' BY <3>1, <3>2, <3>4
    <3>6. {finalizeOnClose, forced, finalized, closed, aaow, wants, torn, failed, interrupted}' \subseteq BOOLEAN
      BY <1>0, <1>4, <2>1 DEF Finalizes
    <3> QED BY <3>5, <3>6, <1>0, <1>4, <2>1 DEF Finalizes
  <2>3. Stopped' BY <1>0, <1>4, <2>1 DEF Finalizes
  <2>4. Opening' BY <1>0, <1>4, <2>1 DEF Finalizes
  <2>5. Finalizing' BY <1>0, <1>4, <2>1 DEF Finalizes
  <2>6. Persisting' BY <1>0, <1>4, <2>1 DEF Finalizes
  <2>7. Leaving' BY <1>0, <1>4, <2>1 DEF Finalizes
  <2> QED BY <2>2, <2>3, <2>4, <2>5, <2>6, <2>7
<1>5. CASE op = "close"
  <2>1. Closes(ok) BY <1>0, <1>5 DEF Runs
  <2>2. WriteTypeOK' BY <1>0, <1>5, <2>1 DEF Closes
  <2>3. Stopped' BY <1>0, <1>5, <2>1 DEF Closes
  <2>4. Opening' BY <1>0, <1>5, <2>1 DEF Closes
  <2>5. Finalizing' BY <1>0, <1>5, <2>1 DEF Closes
  <2>6. Persisting' BY <1>0, <1>5, <2>1 DEF Closes
  <2>7. Leaving' BY <1>0, <1>5, <2>1 DEF Closes
  <2> QED BY <2>2, <2>3, <2>4, <2>5, <2>6, <2>7
<1>6. CASE op = "finalclose"
  <2>1. FinalCloses(ok) BY <1>0, <1>6 DEF Runs
  <2>2. WriteTypeOK' BY <1>0, <1>6, <2>1 DEF FinalCloses
  <2>3. Stopped' BY <1>0, <1>6, <2>1 DEF FinalCloses
  <2>4. Opening' BY <1>0, <1>6, <2>1 DEF FinalCloses
  <2>5. Finalizing' BY <1>0, <1>6, <2>1 DEF FinalCloses
  <2>6. Persisting' BY <1>0, <1>6, <2>1 DEF FinalCloses
  <2>7. Leaving' BY <1>0, <1>6, <2>1 DEF FinalCloses
  <2> QED BY <2>2, <2>3, <2>4, <2>5, <2>6, <2>7
<1> QED BY <1>0, <1>1, <1>2, <1>3, <1>4, <1>5, <1>6

HIDE DEF WriteInv, WriteTypeOK, Stopped, Opening, Finalizing, Persisting, Leaving,
         SuccessIsPersisted, Working, Ops, Touched, flags, server, history

LEMMA WriteStutters == ASSUME WriteInv, UNCHANGED writeVars PROVE WriteInv'
  BY DEF WriteInv, WriteTypeOK, Stopped, Opening, Finalizing, Persisting, Leaving, SuccessIsPersisted,
         Working, Ops, writeVars, flags, server, history

LEMMA WriteStays == ASSUME ~CommitsAfterFailure PROVE WriteInv /\ [WriteNext]_writeVars => WriteInv'
<1> SUFFICES ASSUME WriteInv, [WriteNext]_writeVars PROVE WriteInv'
  OBVIOUS
<1> QED
  BY WriteKeeps, FlushKeeps, ForceFlushKeeps, CommitKeeps, CloseKeeps, ListKeeps,
     OpenedKeeps, OpenFailedKeeps, AppendedKeeps, FlushedKeeps, CommittedKeeps,
     CallFailedKeeps, TornDownKeeps, TeardownTimesOutKeeps, InterruptKeeps, OrphanEndsKeeps,
     WriteStutters DEF WriteNext

LEMMA WriteInvariant == ASSUME ~CommitsAfterFailure PROVE WriteSpec => []WriteInv
  BY WriteInitially, WriteStays, PTL DEF WriteSpec

\* A caller that does not commit() after a failure is never told that more was kept than was, and
\* no object is finalized with a gap or with data of a failed write in it, however calls fail, are
\* interrupted and go on (write, flush, commit, _abort_write and _close_impl of ZonalFile).
THEOREM KeepsWrites == ~CommitsAfterFailure => (WriteSpec => []WritesKept)
<1> SUFFICES ASSUME ~CommitsAfterFailure PROVE WriteSpec => []WritesKept
  OBVIOUS
<1>1. WriteInv => WritesKept
  BY DEF WriteInv, Finalizing, Persisting, WritesKept, FinalizedIsWhole
<1> QED
  BY <1>1, WriteInvariant, PTL

\* Once close() has returned, raised an error or been interrupted in its teardown, and the calls left
\* running are over too, the stream is closed; and after a return or an error no listing from before or
\* during the write is cached, if nothing was interrupted (_close_impl of ZonalFile).  A close() that is
\* interrupted before its teardown skips it, and is not spoken of.
THEOREM LeavesNothingOpen == ~CommitsAfterFailure => (WriteSpec => []TeardownComplete)
<1> SUFFICES ASSUME ~CommitsAfterFailure PROVE WriteSpec => []TeardownComplete
  OBVIOUS
<1>1. WriteInv => StreamClosed
  BY DEF WriteInv, Leaving, StreamClosed
<1>2. WriteInv => ListingDropped
  BY DEF WriteInv, Leaving, ListingDropped
<1> QED
  BY <1>1, <1>2, WriteInvariant, PTL DEF TeardownComplete, WriteInv
=============================================================================
