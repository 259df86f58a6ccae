----------------------------- MODULE InfoLookup -----------------------------
(***************************************************************************)
(* _info() of gcsfs/core.py for a path below a bucket: what the listings   *)
(* in the cache say or, if they say nothing, two lookups at once, of the   *)
(* object and of the directory, of which the object's decides              *)
(* (parallel_tasks_first_completed of concurrency.py).  Others create and  *)
(* delete meanwhile, requests fail and the call may be cancelled.          *)
(***************************************************************************)
EXTENDS Naturals, FiniteSets

CONSTANTS
  MaxPathChanges,  \* bound: changes of the path by others
  MaxInfoFaults    \* bound: failed requests

ASSUME InfoAssumption == MaxPathChanges \in Nat /\ MaxInfoFaults \in Nat

Lookups == {"object", "directory"}

VARIABLES
  there,     \* what stands at the path: "object", "marker" (an object "path/"), "folder", "below"
  cachedAt,  \* what the parent's cached listing has of it: subset of {"file", "directory"}, or "none"
  ownListed, \* the path's own listing is cached and not empty
  hnsPath,   \* the bucket is hierarchical
  lookup,    \* state of each task: "new", "run", "list", "cancel", or how it ended
  info,      \* "begin", "race", "settle", then "file", "directory", "missing", "error", "cancelled"
  answer,    \* what the call is to end with once its tasks have
  was,       \* what stood there at some time of the call, and what always did
  pathChanges, infoFaults
infoVars == <<there, cachedAt, ownListed, hnsPath, lookup, info, answer, was, pathChanges, infoFaults>>

Things == {"object", "marker", "folder", "below"}
Endings == {"file", "directory", "missing", "error", "cancelled"}
Finished(t) == lookup[t] \in Endings
InfoOver == info \in Endings

\* A folder exists in hierarchical buckets, and there with every object below it.
Sensible(S, h) == IF h THEN S \cap {"marker", "below"} # {} => "folder" \in S ELSE "folder" \notin S

InfoInit ==
  /\ hnsPath \in BOOLEAN /\ there \in {S \in SUBSET Things : Sensible(S, hnsPath)}
  /\ cachedAt \in {"none"} \cup {"file", "directory", "both", "others"} /\ ownListed \in BOOLEAN
  /\ lookup = [t \in Lookups |-> "new"] /\ info = "begin" /\ answer = "none"
  /\ was = [ever |-> there, always |-> there] /\ pathChanges = 0 /\ infoFaults = 0

InfoAsks == UNCHANGED <<there, cachedAt, ownListed, hnsPath, was, pathChanges>>

\* The cached listings first.  Either entry of the name may come first in the parent's.
InfoBegins ==
  /\ info = "begin" /\ InfoAsks /\ UNCHANGED infoFaults
  /\ \/ /\ cachedAt \in {"file", "both"} /\ info' = "file" /\ UNCHANGED <<lookup, answer>>
     \/ /\ cachedAt \in {"directory", "both"} /\ info' = "directory" /\ UNCHANGED <<lookup, answer>>
     \/ /\ cachedAt \in {"none", "others"} /\ ownListed /\ info' = "directory"
        /\ UNCHANGED <<lookup, answer>>
     \/ /\ cachedAt \in {"none", "others"} /\ ~ownListed /\ info' = "race"
        /\ lookup' = [t \in Lookups |-> "run"] /\ UNCHANGED answer

LookupEnds(t, how) == lookup' = [lookup EXCEPT ![t] = how]

\* _get_object: the cache has the parent's listing without it, or the object is asked for.
ObjectReply ==
  /\ lookup["object"] = "run" /\ InfoAsks /\ UNCHANGED <<info, answer, infoFaults>>
  /\ LookupEnds("object", IF cachedAt = "others" \/ "object" \notin there THEN "missing" ELSE "file")

\* It is forbidden to get the object: the names with its prefix are listed instead.
ObjectForbidden ==
  /\ lookup["object"] = "run" /\ cachedAt # "others" /\ infoFaults < MaxInfoFaults
  /\ infoFaults' = infoFaults + 1
  /\ LookupEnds("object", "list") /\ InfoAsks /\ UNCHANGED <<info, answer>>
ObjectListed ==
  /\ lookup["object"] = "list" /\ InfoAsks /\ UNCHANGED <<info, answer, infoFaults>>
  /\ LookupEnds("object", IF "object" \in there THEN "file" ELSE "missing")

\* _get_directory_info: the folder of a hierarchical bucket, or any object below, asked for by a
\* listing of one name, which without any looks at the object itself.
DirectoryReply ==
  /\ lookup["directory"] = "run" /\ InfoAsks /\ UNCHANGED <<info, answer, infoFaults>>
  /\ LookupEnds("directory",
       IF hnsPath THEN (IF "folder" \in there THEN "directory" ELSE "missing")
       ELSE IF cachedAt = "others" THEN "missing"
       ELSE IF there \cap {"marker", "below"} # {} THEN "directory"
       ELSE IF "object" \in there THEN "file" ELSE "missing")

LookupFails(t) ==
  /\ lookup[t] \in {"run", "list"} /\ infoFaults < MaxInfoFaults /\ infoFaults' = infoFaults + 1
  /\ LookupEnds(t, "error") /\ InfoAsks /\ UNCHANGED <<info, answer>>

\* Mistake: whichever task is done first decides.
Race_First ==
  /\ info = "race" /\ InfoAsks /\ UNCHANGED infoFaults
  /\ \E t \in Lookups : Finished(t) /\ answer' = lookup[t]
  /\ info' = "settle"
  /\ lookup' = [t \in Lookups |-> IF Finished(t) THEN lookup[t] ELSE "cancel"]

\* One task is done, and the call goes on to await the object's; a directory that is found first
\* waits for it.
Race ==
  /\ info = "race" /\ Finished("object") /\ InfoAsks /\ UNCHANGED infoFaults
  /\ \/ /\ lookup["object"] \in {"file", "error"} /\ answer' = lookup["object"]
     \/ /\ lookup["object"] = "missing" /\ Finished("directory") /\ answer' = lookup["directory"]
  /\ info' = "settle"
  /\ lookup' = [t \in Lookups |-> IF Finished(t) THEN lookup[t] ELSE "cancel"]

CancelInfo ==
  /\ info = "race" /\ info' = "settle" /\ answer' = "cancelled" /\ InfoAsks /\ UNCHANGED infoFaults
  /\ lookup' = [t \in Lookups |-> IF Finished(t) THEN lookup[t] ELSE "cancel"]

\* A cancelled task takes its time to end; the call does not end before it.
TaskEnds(t) ==
  /\ lookup[t] = "cancel" /\ LookupEnds(t, "cancelled") /\ InfoAsks /\ UNCHANGED <<info, answer, infoFaults>>
Settle ==
  /\ info = "settle" /\ \A t \in Lookups : Finished(t)
  /\ info' = answer /\ InfoAsks /\ UNCHANGED <<lookup, answer, infoFaults>>

\* Another client creates or deletes what stands at the path.
PathChanges(S) ==
  /\ info \in {"race", "settle"} /\ pathChanges < MaxPathChanges /\ pathChanges' = pathChanges + 1
  /\ Sensible(S, hnsPath) /\ S # there /\ there' = S
  /\ was' = [ever |-> was.ever \cup S, always |-> was.always \cap S]
  /\ UNCHANGED <<cachedAt, ownListed, hnsPath, lookup, info, answer, infoFaults>>

InfoStep ==
  \/ InfoBegins \/ ObjectReply \/ ObjectListed \/ DirectoryReply \/ Race \/ Settle
  \/ \E t \in Lookups : TaskEnds(t)
InfoNext ==
  \/ InfoStep \/ ObjectForbidden \/ CancelInfo
  \/ \E t \in Lookups : LookupFails(t)
  \/ \E S \in SUBSET Things : PathChanges(S)
InfoSpec == InfoInit /\ [][InfoNext]_infoVars

-----------------------------------------------------------------------------
InfoTypeOK ==
  /\ there \subseteq Things /\ info \in Endings \cup {"begin", "race", "settle"}
  /\ \A t \in Lookups : lookup[t] \in Endings \cup {"new", "run", "list", "cancel"}

Directory(S) == S \cap (IF hnsPath THEN {"folder"} ELSE {"marker", "below"}) # {}

\* What _info says of a path the cache knows nothing of stood there at some time of the call; an
\* object that was always there is found, whichever lookup is faster or fails; a directory that
\* always was is never called missing; and no lookup is left running when the call is over.
InfoHonest ==
  /\ InfoTypeOK
  /\ InfoOver => \A t \in Lookups : Finished(t) \/ lookup[t] = "new"
  /\ InfoOver /\ cachedAt = "none" /\ ~ownListed =>
       /\ info = "file" => "object" \in was.ever
       /\ info = "directory" => Directory(was.ever) /\ "object" \notin was.always
       /\ info = "missing" => "object" \notin was.always /\ ~Directory(was.always)
       /\ info = "error" =>
            "error" \in {lookup["object"]} \cup IF lookup["object"] = "missing" THEN {lookup["directory"]} ELSE {}

InfoEnds == <>InfoOver
=============================================================================
