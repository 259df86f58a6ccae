----------------------------- MODULE BucketOps ------------------------------
(***************************************************************************)
(* The operations on the names of a bucket: the rename of a folder         *)
(* (FolderRename), rm() (Deletion), a listing (Listing) and info()         *)
(* (InfoLookup).  Each call keeps its state to itself; what they share,    *)
(* the cache of listings, is DirCache's.                                   *)
(***************************************************************************)
EXTENDS FolderRename, Deletion, Listing, InfoLookup

VARIABLE operation  \* the one that is called

opsVars == <<operation, vars, rmVars, listVars, infoVars>>

\* The others have one of their inputs.
OpsInit ==
  /\ operation \in {"mv", "rm", "ls", "info"}
  /\ operation # "rm" => rmCall = CHOOSE c \in RmCalls : TRUE
  /\ operation # "ls" => present = {} /\ delimited = FALSE /\ reports = {} /\ limit = 0
  /\ operation # "info" => hnsPath = FALSE /\ there = {} /\ cachedAt = "none" /\ ownListed = FALSE
  /\ Init /\ RmInit /\ ListInit /\ InfoInit

Moves(step) == operation = "mv" /\ step /\ UNCHANGED <<operation, rmVars, listVars, infoVars>>
Removes(step) == operation = "rm" /\ step /\ UNCHANGED <<operation, vars, listVars, infoVars>>
Lists(step) == operation = "ls" /\ step /\ UNCHANGED <<operation, vars, rmVars, infoVars>>
LooksUp(step) == operation = "info" /\ step /\ UNCHANGED <<operation, vars, rmVars, listVars>>

OpsNext == Moves(Next) \/ Removes(RmNext) \/ Lists(ListNext) \/ LooksUp(InfoNext)

\* The event loop runs what is ready, time passes, and requests are answered.
OpsFairSpec ==
  /\ OpsInit /\ [][OpsNext]_opsVars
  /\ WF_opsVars(Moves(MvEnds))
  /\ WF_opsVars(Moves(((mv = "waiting" /\ PollStep) \/ Signalled) /\ UNCHANGED <<mv, accepted>>))
  /\ WF_opsVars(Moves(mv = "waiting" /\ Tick /\ UNCHANGED <<mv, accepted>>))
  /\ WF_opsVars(Removes(\E b \in Groups : RmStep(b)))
  /\ WF_opsVars(Lists(ListStep)) /\ WF_opsVars(LooksUp(InfoStep))

-----------------------------------------------------------------------------
\* Calls end: see FolderRename, Deletion, Listing and InfoLookup.
BucketCallsEnd ==
  /\ operation = "mv" => MoveEnds
  /\ operation = "rm" => RmEnds
  /\ operation = "ls" => ListEnds
  /\ operation = "info" => InfoEnds
=============================================================================
