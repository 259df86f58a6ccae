------------------------------ MODULE Download ------------------------------
(***************************************************************************)
(* _get_file() of gcsfs/core.py and extended_gcsfs.py: an object is copied *)
(* to a local file, as one body or stream or, with concurrency, in blocks  *)
(* that are fetched in order and written by threads.  Requests and writes  *)
(* fail, the object is replaced, the caller is cancelled, and what can be  *)
(* tried again starts from the beginning.                                  *)
(***************************************************************************)
EXTENDS Naturals, FiniteSets

CONSTANTS
  BlockCount,     \* blocks of the object
  Concurrency,    \* concurrency: threads that write at once
  GetTries,       \* tries: retries, or its square where one retry_request calls another
  MaxGetFaults,   \* bound: requests that fail or bring wrong bytes, writes that fail
  MaxReplaced,    \* bound: generations that replace the first
  MaxCancels,     \* bound: cancellations of the caller
  Handled         \* callers that may be handling an exception as they wait for the call

Blocks == 1..BlockCount
ASSUME DownloadAssumption ==
  /\ BlockCount \in Nat /\ Concurrency \in Nat \ {0} /\ GetTries \in Nat \ {0}
  /\ MaxGetFaults \in Nat /\ MaxReplaced \in Nat /\ MaxCancels \in Nat /\ Handled \subseteq BOOLEAN

\* Bytes of a block: of a generation, or none, or as many but wrong ones.
Hole == 0
Wrong == 1
FirstGeneration == 2

VARIABLES
  how,        \* "body" and "stream": as one, over HTTP and gRPC; "blocks"
  retried,    \* the call is made again after a transient error
  compares,   \* what the checker compares: "none", "size" or "hash" (md5, crc32c)
  handling,   \* the caller awaits it in an except clause
  live,       \* generation of the object
  file,       \* the local file: "absent", "older" (one of the caller's) or "new"
  local,      \* the blocks of a new one
  getPc,      \* "open", "fetch", "wait", "drain", "after", "clean", "over"
  pinned,     \* generation that the try reads
  at,         \* first block not yet fetched
  arrived,    \* blocks as they were fetched
  writing,    \* state of the write of each block: "no", "pending", "done", "failed"
  unreaped,   \* pending_writes
  open,       \* the file descriptor is
  error,      \* "none", "transient", "fatal", "cancelled"
  tries, gotten, stray, getFaults, cancels
getVars == <<how, retried, compares, handling, live, file, local, getPc, pinned, at, arrived, writing,
             unreaped, open, error, tries, gotten, stray, getFaults, cancels>>
getArgs == <<how, retried, compares, handling>>

Empty == [k \in Blocks |-> Hole]

\* The consistency asked for.  For blocks over gRPC whose stream has another size than the
\* metadata, a hash is lowered to the size.
Comparisons(consistency) ==
  {consistency} \cup IF how = "blocks" /\ consistency = "hash" THEN {"size"} ELSE {}

\* The stream is what _get_file_concurrent, which is tried again, falls back on, or called directly.
GetInit ==
  /\ how \in {"body", "stream", "blocks"} /\ handling \in Handled
  /\ \E consistency \in {"none", "size", "hash"} : compares \in Comparisons(consistency)
  /\ retried \in IF how = "stream" THEN BOOLEAN ELSE {TRUE}
  /\ live = FirstGeneration /\ file \in {"absent", "older"} /\ local = Empty
  /\ getPc = "open" /\ pinned = live /\ at = 1
  /\ arrived = Empty /\ writing = [k \in Blocks |-> "no"] /\ unreaped = {} /\ open = FALSE
  /\ error = "none" /\ tries = 0 /\ gotten = "no" /\ stray = FALSE /\ getFaults = 0 /\ cancels = 0

GetGoes(to) == getPc' = to
Raises(e) == error' = e /\ GetGoes(IF how = "blocks" THEN "drain" ELSE "after")
Fault == getFaults < MaxGetFaults /\ getFaults' = getFaults + 1

-----------------------------------------------------------------------------
\* A try opens the file, which empties it, and learns the generation: of the reply, of the stream,
\* or of _info(), to which every block is then pinned.
Open ==
  /\ getPc = "open" /\ GetGoes("fetch")
  /\ pinned' = live /\ file' = "new" /\ local' = Empty /\ at' = 1 /\ tries' = tries + 1
  /\ arrived' = Empty /\ writing' = [k \in Blocks |-> "no"]
  /\ open' = TRUE /\ error' = "none"
  /\ UNCHANGED <<getArgs, live, unreaped, gotten, stray, getFaults, cancels>>

\* It fails before: what the caller had in that place stays for now, unless the failure is within
\* the try clause of the stream, which removes it.
GetOpenFails ==
  /\ getPc = "open" /\ Fault /\ tries' = tries + 1
  /\ error' \in {"transient", "fatal"} /\ GetGoes("after")
  /\ file' \in {file} \cup IF how = "stream" THEN {"absent"} ELSE {}
  /\ UNCHANGED <<getArgs, live, local, pinned, at, arrived, writing, unreaped, open, gotten, stray, cancels>>

\* The next block as one body brings it: written at once.  Its bytes may be wrong.
Takes(k, bytes) ==
  IF how = "blocks"
  THEN /\ writing' = [writing EXCEPT ![k] = "pending"] /\ unreaped' = unreaped \cup {k}
       /\ UNCHANGED local
       /\ GetGoes(IF Cardinality(unreaped') >= Concurrency THEN "wait" ELSE "fetch")
  ELSE /\ local' = [local EXCEPT ![k] = bytes] /\ UNCHANGED <<writing, unreaped>> /\ GetGoes("fetch")
FetchBlock ==
  /\ getPc = "fetch" /\ at <= BlockCount
  /\ \E bytes \in {pinned, Wrong} :
       /\ IF bytes = Wrong THEN Fault ELSE UNCHANGED getFaults
       /\ arrived' = [arrived EXCEPT ![at] = bytes] /\ Takes(at, bytes)
  /\ at' = at + 1
  /\ UNCHANGED <<getArgs, live, file, pinned, open, error, tries, gotten, stray, cancels>>

\* Nothing comes before the end is reached, or the request fails; a block of a generation that was
\* replaced is not found.  A stream that fails removes the file at once.
FetchFails ==
  /\ getPc = "fetch" /\ at <= BlockCount
  /\ \/ /\ Fault /\ \E e \in {"transient", "fatal"} : Raises(e)
     \/ how = "blocks" /\ live # pinned /\ Raises("fatal") /\ UNCHANGED getFaults
  /\ file' = IF how = "stream" THEN "absent" ELSE file
  /\ UNCHANGED <<getArgs, live, local, pinned, at, arrived, writing, unreaped, open, tries, gotten, stray, cancels>>

\* The end: a body is checked as it ends, blocks when all are written.  What arrived has the
\* length it should have, or the try has failed, so a comparison of sizes finds nothing more.
Right == \A k \in Blocks : arrived[k] # Wrong
Checked == IF compares = "hash" /\ ~Right THEN "transient" ELSE "none"
BodyEnds ==
  /\ getPc = "fetch" /\ at > BlockCount
  /\ IF how = "blocks" THEN GetGoes("drain") /\ UNCHANGED <<error, open>>
     ELSE GetGoes("after") /\ open' = FALSE /\ error' = IF how = "body" THEN Checked ELSE "none"
  /\ UNCHANGED <<getArgs, live, file, local, pinned, at, arrived, writing, unreaped, tries, gotten, stray, getFaults, cancels>>

\* A thread writes its block where the descriptor points, or cannot.
WriteBlock(k) ==
  /\ writing[k] = "pending"
  /\ writing' = [writing EXCEPT ![k] = "done"]
  /\ IF open THEN local' = [local EXCEPT ![k] = arrived[k]] /\ UNCHANGED stray
             ELSE stray' = TRUE /\ UNCHANGED local
  /\ UNCHANGED <<getArgs, live, file, getPc, pinned, at, arrived, unreaped, open, error, tries, gotten, getFaults, cancels>>
WriteBlockFails(k) ==
  /\ writing[k] = "pending" /\ Fault
  /\ writing' = [writing EXCEPT ![k] = "failed"]
  /\ UNCHANGED <<getArgs, live, file, local, getPc, pinned, at, arrived, unreaped, open, error, tries, gotten, stray, cancels>>

\* With all threads busy the loop waits for one; those that are done tell whether they failed.
WaitOne ==
  LET ended == {k \in unreaped : writing[k] # "pending"} IN
  /\ getPc = "wait" /\ ended # {}
  /\ unreaped' = unreaped \ ended
  /\ IF \E k \in ended : writing[k] = "failed" THEN Raises("fatal") ELSE GetGoes("fetch") /\ UNCHANGED error
  /\ UNCHANGED <<getArgs, live, file, local, pinned, at, arrived, writing, open, tries, gotten, stray, getFaults, cancels>>

\* Mistake: the writes are awaited and their failures dropped.
Drain_Drops ==
  /\ getPc = "drain" /\ \A k \in unreaped : writing[k] # "pending"
  /\ unreaped' = {} /\ open' = FALSE /\ GetGoes("after")
  /\ error' = IF error # "none" THEN error ELSE Checked
  /\ UNCHANGED <<getArgs, live, file, local, pinned, at, arrived, writing, tries, gotten, stray, getFaults, cancels>>
\* Mistake: a caller who cancels does not wait for the writes.
Drain_Leaves ==
  LET failed == \E k \in unreaped : writing[k] = "failed" IN
  /\ getPc = "drain" /\ (error # "cancelled" => \A k \in unreaped : writing[k] # "pending")
  /\ unreaped' = {} /\ open' = FALSE /\ GetGoes("after")
  /\ error' = IF error # "none" THEN error
              ELSE IF failed /\ ~handling THEN "fatal" ELSE Checked
  /\ UNCHANGED <<getArgs, live, file, local, pinned, at, arrived, writing, tries, gotten, stray, getFaults, cancels>>

\* However the loop ended, all writes are awaited and then the descriptor closed.  A failure of one
\* is raised unless an exception is being handled, here or (sys.exc_info) by the caller.
Drain ==
  LET failed == \E k \in unreaped : writing[k] = "failed" IN
  /\ getPc = "drain" /\ \A k \in unreaped : writing[k] # "pending"
  /\ unreaped' = {} /\ open' = FALSE /\ GetGoes("after")
  /\ error' = IF error # "none" THEN error
              ELSE IF failed /\ ~handling THEN "fatal" ELSE Checked
  /\ UNCHANGED <<getArgs, live, file, local, pinned, at, arrived, writing, tries, gotten, stray, getFaults, cancels>>

\* The caller is cancelled where it waits; the drain goes on and remembers.
CancelGet ==
  /\ getPc \in {"open", "fetch", "wait", "drain"} /\ cancels < MaxCancels /\ cancels' = cancels + 1
  /\ error' = "cancelled"
  /\ GetGoes(IF getPc = "open" \/ how # "blocks" THEN "after" ELSE "drain")
  /\ UNCHANGED <<getArgs, live, file, local, pinned, at, arrived, writing, unreaped, open, tries, gotten, stray, getFaults>>

\* retry_request, and then the handler of _get_file, which removes the file whatever it is.
AfterTry ==
  /\ getPc = "after"
  /\ GetGoes(IF error = "none" THEN "over"
          ELSE IF error = "transient" /\ retried /\ tries < GetTries THEN "open" ELSE "clean")
  /\ gotten' = IF error = "none" THEN "returned" ELSE gotten
  /\ open' = FALSE
  /\ UNCHANGED <<getArgs, live, file, local, pinned, at, arrived, writing, unreaped, error, tries, stray, getFaults, cancels>>
Clean ==
  /\ getPc = "clean" /\ GetGoes("over") /\ file' = "absent" /\ gotten' = "raised"
  /\ UNCHANGED <<getArgs, live, local, pinned, at, arrived, writing, unreaped, open, error, tries, stray, getFaults, cancels>>

Replace ==
  /\ getPc # "over" /\ live < FirstGeneration + MaxReplaced /\ live' = live + 1
  /\ UNCHANGED <<getArgs, file, local, getPc, pinned, at, arrived, writing, unreaped, open, error, tries, gotten, stray, getFaults, cancels>>

GetStep == Open \/ FetchBlock \/ BodyEnds \/ WaitOne \/ Drain \/ AfterTry \/ Clean
GetNext ==
  \/ GetStep \/ GetOpenFails \/ FetchFails \/ CancelGet \/ Replace
  \/ \E k \in Blocks : WriteBlock(k) \/ WriteBlockFails(k)
GetSpec == GetInit /\ [][GetNext]_getVars

-----------------------------------------------------------------------------
GetTypeOK ==
  /\ how \in {"body", "stream", "blocks"} /\ file \in {"absent", "older", "new"} /\ at \in 1..BlockCount + 1 /\ tries \in 0..GetTries
  /\ getPc \in {"open", "fetch", "wait", "drain", "after", "clean", "over"}
  /\ writing \in [Blocks -> {"no", "pending", "done", "failed"}] /\ unreaped \subseteq Blocks
  /\ error \in {"none", "transient", "fatal", "cancelled"} /\ gotten \in {"no", "returned", "raised"}

\* A download that returns leaves a whole file, every block of one generation, however often it
\* began again and whatever was replaced or failed to be written meanwhile; wrong bytes, as many as
\* there should be, get into it only where no hash is compared: with no consistency or "size", over
\* blocks whose hash was lowered to that, and over the stream.  One that raises leaves no file.
DownloadWhole ==
  /\ gotten = "returned" /\ ~handling =>
       /\ file = "new"
       /\ \A k \in Blocks :
            local[k] = pinned \/ (local[k] = Wrong /\ (compares # "hash" \/ how = "stream"))
  /\ gotten = "raised" => file = "absent"

\* No thread writes once the descriptor is closed, when its number may stand for another file: not
\* after a failure, nor after the caller was cancelled, once or again.
NoStrayWrite ==
  /\ GetTypeOK /\ ~stray
  /\ getPc \in {"open", "after", "clean", "over"} => \A k \in Blocks : writing[k] # "pending"

GetEnds == <>(getPc = "over")

\* test_get_file_concurrent_write_exception_in_finally: a write that fails makes the call raise.
FailedWriteIsRaised == gotten = "returned" => \A k \in Blocks : writing[k] # "failed"
=============================================================================
