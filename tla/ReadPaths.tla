----------------------------- MODULE ReadPaths ------------------------------
(***************************************************************************)
(* The ways in which gcsfs reads bytes, none of which shares state with    *)
(* another: a cat_ranges() plans its streams (StreamPlan) and runs them    *)
(* (CatRanges), a cat_file() works out its limits and parts (ByteRanges),  *)
(* an open file reads through its cache (ReadAheadChunked), and get_file() *)
(* copies an object to a local file (Download).                           *)
(***************************************************************************)
EXTENDS CatRanges, StreamPlan, ByteRanges, ReadAheadChunked, Download

VARIABLE way  \* the one that is taken

allVars == <<way, catVars, planVars, rangeVars, chunkedVars, getVars>>

\* The others have the smallest of their inputs.
Rests ==
  /\ way # "run" =>
       full = [o \in Objects |-> 0] /\ alloc = [o \in Objects |-> 1] /\ batch = 1
  /\ way # "plan" =>
       counts = [o \in Objs |-> 1] /\ total = 1 /\ cap = 1 /\ len = [r \in {1} |-> 0]
  /\ way # "limits" =>
       size = 0 /\ start = NoLimit /\ end = NoLimit /\ tasks = 1 /\ path = "grpc"
  /\ way # "copy" => how = "body" /\ compares = "none" /\ handling \in Handled /\ file = "absent"

Init ==
  /\ way \in {"run", "plan", "limits", "cached", "copy"}
  /\ Rests
  /\ CatInit /\ PlanInit /\ RangeInit /\ ChunkedInit /\ GetInit

Runs(step) ==
  way = "run" /\ step /\ UNCHANGED <<way, planVars, rangeVars, chunkedVars, getVars>>
Plans ==
  way = "plan" /\ PlanNext /\ UNCHANGED <<way, catVars, rangeVars, chunkedVars, getVars>>
Limited ==
  way = "limits" /\ RangeNext /\ UNCHANGED <<way, catVars, planVars, chunkedVars, getVars>>
Cached ==
  way = "cached" /\ ChunkedNext /\ UNCHANGED <<way, catVars, planVars, rangeVars, getVars>>
Copies(step) ==
  way = "copy" /\ step /\ UNCHANGED <<way, catVars, planVars, rangeVars, chunkedVars>>

Next == Runs(CatNext) \/ Plans \/ Limited \/ Cached \/ Copies(GetNext)

\* The event loop runs every task of a call and the threads of the pools run; nothing is owed by
\* the caller.
FairSpec ==
  /\ Init /\ [][Next]_allVars
  /\ WF_allVars(Runs(Returns)) /\ \A s \in Streams : WF_allVars(Runs(StreamStep(s)))
  /\ WF_allVars(Copies(GetStep)) /\ WF_allVars(Copies(\E k \in Blocks : WriteBlock(k)))

-----------------------------------------------------------------------------
\* Every call on the bytes of an object ends: a cat_ranges() returns (CatRanges), and so does a
\* get_file().
ReadsEnd == (way = "run" => CallEnds) /\ (way = "copy" => GetEnds)
=============================================================================
