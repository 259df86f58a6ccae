----------------------------- MODULE ZonalFile ------------------------------
(***************************************************************************)
(* Files of zonal buckets (gcsfs/zonal_file.py).  The mode of open()       *)
(* decides what the constructor does and what may follow: files for        *)
(* reading, which share a pool (ZonalOpen), or a file for writing          *)
(* (ZonalWrite).  A large read of one fills a buffer from several streams  *)
(* (DirectMemmoveBuffer).                                                  *)
(***************************************************************************)
EXTENDS ZonalOpen, ZonalWrite, DirectMemmoveBuffer

VARIABLE mode  \* "rb", or a "read" of a file once open, or "wb"

vars == <<mode, openVars, writeVars, bufferVars>>

Init ==
  /\ mode \in {"rb", "read", "wb"}
  /\ OpenInit /\ WriteInit /\ BufferInit
  /\ mode # "wb" => ~wants /\ cached = "none"

Reads(step) == mode = "rb" /\ step /\ UNCHANGED <<mode, writeVars, bufferVars>>
Fills(step) == mode = "read" /\ step /\ UNCHANGED <<mode, openVars, writeVars>>
Writes == mode = "wb" /\ WriteNext /\ UNCHANGED <<mode, openVars, bufferVars>>

Next == Reads(OpenNext) \/ Fills(BufferNext) \/ Writes

\* Threads and the event loop run; nobody has to close a file or interrupt.
FairSpec ==
  /\ Init /\ [][Next]_vars
  /\ \A f \in Files : WF_vars(Reads(OpenStep(f)))
  /\ \A w \in Writers : WF_vars(Fills(Writer(w)))
  /\ \A o \in Offsets : WF_vars(Fills(Job(o)))
  /\ WF_vars(Fills(CloseEnd))

-----------------------------------------------------------------------------
\* An opened file settles who closes its pool (ZonalOpen), a writer gets its permit, and close() of
\* the buffer returns (DirectMemmoveBuffer).
ZonalEnd == (mode = "rb" => Settles) /\ (mode = "read" => CallsReturn)
=============================================================================
