---------------------------- MODULE FolderRename ----------------------------
(***************************************************************************)
(* ExtendedGcsFileSystem._mv for a folder of an HNS bucket: one rename_    *)
(* folder request, the wait of Poller for it, and what the client makes of *)
(* its end.  If the client falls back to copying and deleting objects one  *)
(* by one, the server must not be renaming the folder under it.            *)
(***************************************************************************)
EXTENDS Poller

VARIABLES
  mv,       \* where _mv() is, and how it ended
  accepted  \* the server has a rename under way or behind it

vars == <<pollVars, mv, accepted>>

Init == PollInit /\ mv = "request" /\ accepted = FALSE

\* The server takes the request and the client gets the operation.
Submit ==
  /\ mv = "request" /\ mv' = "waiting" /\ accepted' = TRUE
  /\ UNCHANGED pollVars

\* rename_folder() raised NotFound, Conflict or FailedPrecondition, which _mv
\* translates, or another error, after which it falls back.
Refused ==
  /\ mv = "request" /\ mv' \in {"raised", "copying"}
  /\ UNCHANGED <<pollVars, accepted>>

\* As Refused, but the server had taken the request: the reply, and those to
\* every retry within the RPC's time limit, got lost.
SubmitLost ==
  /\ mv = "request" /\ mv' = "copying" /\ accepted' = TRUE
  /\ UNCHANGED pollVars

Wait == mv = "waiting" /\ PollNext /\ UNCHANGED <<mv, accepted>>

\* The server goes on whether or not the client looks, and so does the task that
\* tells it of a cancellation.
Unwatched ==
  /\ mv \notin {"request", "waiting"} /\ accepted
  /\ ServerEnds \/ Signalled
  /\ UNCHANGED <<mv, accepted>>

\* Mistake: a wait that timed out or failed is followed by the fall back too.
MvEnds_AlwaysFallsBack ==
  /\ mv = "waiting" /\ pc = "ended"
  /\ mv' \in IF outcome = "returned" THEN {"moved"}
             ELSE IF outcome = "cancelled" THEN {"raised"} ELSE {"raised", "copying"}
  /\ UNCHANGED <<pollVars, accepted>>

\* poll_lro() is over.  A failed operation is translated or followed by the fall
\* back, according to its error; whatever else ended the wait is raised.
MvEnds ==
  /\ mv = "waiting" /\ pc = "ended"
  /\ mv' \in IF outcome = "returned" THEN {"moved"}
             ELSE IF outcome = "failed" THEN {"raised", "copying"} ELSE {"raised"}
  /\ UNCHANGED <<pollVars, accepted>>

Next == Submit \/ Refused \/ Wait \/ Unwatched \/ MvEnds

Spec == Init /\ [][Next]_vars

\* The event loop runs what is ready, and time passes.
FairSpec ==
  /\ Spec /\ WF_vars(MvEnds)
  /\ WF_vars(((mv = "waiting" /\ PollStep) \/ Signalled) /\ UNCHANGED <<mv, accepted>>)
  /\ WF_vars(mv = "waiting" /\ Tick /\ UNCHANGED <<mv, accepted>>)

LostReplySpec == Init /\ [][Next \/ SubmitLost]_vars

-----------------------------------------------------------------------------
TypeOK ==
  /\ PollTypeOK /\ accepted \in BOOLEAN
  /\ mv \in {"request", "waiting", "moved", "raised", "copying"}

\* "Fall back to copy-and-delete only when the server operation failed, because
\* after a timeout or cache error the server move may be active or complete"
\* (extended_gcsfs.py).
FallsBackOnlyAfterFailure == mv = "copying" /\ accepted => server = "failed"

\* A cancellation outlives whatever the status question that was under way brings, and a wait that
\* ends without knowing how the rename did is not followed by copying.
MvHonest == CancelKept /\ FallsBackOnlyAfterFailure

\* A move is reported only of a folder that has moved, and one that was refused
\* or failed is never reported as moved.
MovedIsMoved == mv = "moved" => accepted /\ server = "succeeded"

\* What poll_lro() and mv() report is what the server did.
ReportsTruth == TypeOK /\ OutcomeTrue /\ MovedIsMoved

\* A mv() that waits ends, however the server and the network behave, and if the
\* wait was cancelled the server is told or the failure logged.
MoveEnds == (mv = "waiting" ~> mv \in {"moved", "raised", "copying"}) /\ CancelSignalled
=============================================================================
