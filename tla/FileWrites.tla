----------------------------- MODULE FileWrites -----------------------------
(***************************************************************************)
(* How an object is written and its file closed, none of which shares      *)
(* state with another: the upload of one file over HTTP (ResumableUpload), *)
(* the choice between HTTP and an appendable writer (BucketLayout), and    *)
(* the thread in which a file is closed (DeferredClose).                   *)
(***************************************************************************)
EXTENDS ResumableUpload, BucketLayout, DeferredClose

VARIABLE part  \* the one that runs

vars == <<part, uploadVars, layoutVars, closeVars>>

Init ==
  /\ part \in {"upload", "layout", "close"}
  /\ UploadInit /\ LayoutInit /\ CloseInit
  /\ part # "upload" => autocommit
  /\ part # "layout" => kind = "std"
  /\ part # "close" => \A f \in Files : fileMode[f] = "rb"

Uploading(step) == part = "upload" /\ step /\ UNCHANGED <<part, layoutVars, closeVars>>
Choosing(step) == part = "layout" /\ step /\ UNCHANGED <<part, uploadVars, closeVars>>
Ending(step) == part = "close" /\ step /\ UNCHANGED <<part, uploadVars, layoutVars>>

Next == Uploading(UploadNext) \/ Choosing(LayoutNext) \/ Ending(CloseNext)

\* A method that runs goes on, the server answers or the connection breaks, and a server that could
\* take something does not refuse to for ever; tasks of the event loop go on; so do the threads
\* that close files, and the loop serves them when it is free.
FairSpec ==
  /\ Init /\ [][Next]_vars
  /\ WF_vars(Uploading(FileStep)) /\ WF_vars(Uploading(SessionStep)) /\ SF_vars(Uploading(Takes))
  /\ \A t \in Tasks : WF_vars(Choosing(WriteStep(t)))
  /\ WF_vars(Ending(CloseStep))

-----------------------------------------------------------------------------
\* Methods, writes and files end: see ResumableUpload, BucketLayout and DeferredClose.
WritingEnds ==
  (part = "upload" => MethodsEnd) /\ (part = "layout" => WritesEnd) /\ (part = "close" => ClosesEnd)
=============================================================================
