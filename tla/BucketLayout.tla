---------------------------- MODULE BucketLayout ----------------------------
(***************************************************************************)
(* The cache of bucket layouts in gcsfs/extended_gcsfs.py, and the writes  *)
(* that rely on it.  Rapid Cache Ultra may be turned on and off for a      *)
(* bucket that is in use.  A write goes through an appendable writer if    *)
(* the cached layout says "rcu", finds out when that is over, and then     *)
(* uses HTTP.  Tasks of one event loop interleave at every request.        *)
(***************************************************************************)
EXTENDS Naturals

CONSTANTS
  Tasks,       \* concurrent writes
  MaxToggles,  \* bound: changes of the bucket's setting
  MaxWrites    \* bound: writes of a task, one after the other

ASSUME LayoutAssumption == MaxToggles \in Nat /\ MaxWrites \in Nat

VARIABLES
  kind,          \* the bucket: "rcu" or "std"
  toggles,       \* changes so far
  cache,         \* _storage_layout_cache[bucket], or "none"
  promised,      \* the cache was invalidated after the last change, no look-up under way
  op,            \* "put": _put_file, _pipe_file, simple_upload; "file": a ZonalFile
  writePc,       \* what each task is about to do or waits for
  answer,        \* get_storage_layout of each task: "none", "pending", a layout, "unknown"
  layout,        \* the layout _init_aaow goes by
  stores,        \* how often the write has replaced the object
  writes,        \* writes begun by each task
  disturbed,     \* a request of this write failed, or the bucket changed under it
  outcome

layoutVars == <<kind, toggles, cache, promised, op, writePc, answer, layout, stores, writes, disturbed, outcome>>

LayoutInit ==
  /\ kind \in {"rcu", "std"} /\ toggles = 0 /\ cache = "none" /\ promised = FALSE
  /\ op = [t \in Tasks |-> "put"] /\ writePc = [t \in Tasks |-> "idle"]
  /\ answer = [t \in Tasks |-> "none"] /\ layout = [t \in Tasks |-> "none"]
  /\ stores = [t \in Tasks |-> 0] /\ writes = [t \in Tasks |-> 0]
  /\ disturbed = [t \in Tasks |-> FALSE] /\ outcome = [t \in Tasks |-> "none"]

LookingUp == {"first", "inner", "http"}

-----------------------------------------------------------------------------
\* The administrator, and the caller who tells the file system about it.
Toggle ==
  /\ toggles < MaxToggles /\ toggles' = toggles + 1
  /\ kind' = IF kind = "rcu" THEN "std" ELSE "rcu"
  /\ promised' = FALSE
  /\ disturbed' = [t \in Tasks |-> disturbed[t] \/ writePc[t] \notin {"idle", "done"}]
  /\ UNCHANGED <<cache, op, writePc, answer, layout, stores, writes, outcome>>

\* Mistake: the entry stays.
Invalidate_Misses ==
  /\ promised' = \A t \in Tasks : answer[t] = "none"
  /\ UNCHANGED <<kind, toggles, cache, op, writePc, answer, layout, stores, writes, disturbed, outcome>>

\* invalidate_storage_layout_cache()
Invalidate ==
  /\ cache' = "none" /\ promised' = \A t \in Tasks : answer[t] = "none"
  /\ UNCHANGED <<kind, toggles, op, writePc, answer, layout, stores, writes, disturbed, outcome>>

\* A write through the file system, or the first write() of a file opened before.
BeginWrite(t) ==
  /\ writePc[t] \in {"idle", "done"} /\ writes[t] < MaxWrites
  /\ \E o \in {"put", "file"} :
       /\ op' = [op EXCEPT ![t] = o]
       /\ writePc' = [writePc EXCEPT ![t] = IF o = "put" THEN "first" ELSE "inner"]
  /\ writes' = [writes EXCEPT ![t] = @ + 1] /\ stores' = [stores EXCEPT ![t] = 0]
  /\ disturbed' = [disturbed EXCEPT ![t] = FALSE] /\ outcome' = [outcome EXCEPT ![t] = "none"]
  /\ UNCHANGED <<kind, toggles, cache, promised, answer, layout>>

-----------------------------------------------------------------------------
\* The write is over, or goes on at another step.
WriteEnds(t, how) == writePc' = [writePc EXCEPT ![t] = "done"] /\ outcome' = [outcome EXCEPT ![t] = how]
WriteGoes(t, step) == writePc' = [writePc EXCEPT ![t] = step] /\ UNCHANGED outcome

\* RapidCacheUltraDisabledError: over HTTP, or raised by a ZonalFile.
Disabled(t) == IF op[t] = "put" THEN WriteGoes(t, "http") ELSE WriteEnds(t, "disabled")

\* What a task does with the layout l it has looked up at its present step.
Decides(t, l) ==
  /\ layout' = [layout EXCEPT ![t] = l]
  /\ \/ writePc[t] = "first" /\ WriteGoes(t, IF l = "rcu" THEN "inner" ELSE "http")
     \/ writePc[t] = "inner" /\ l = "std" /\ Disabled(t)
     \/ writePc[t] = "inner" /\ l # "std" /\ WriteGoes(t, "opening")
     \/ writePc[t] = "http" /\ WriteGoes(t, IF l = "rcu" THEN "first" ELSE "upload")

\* _lookup_bucket_layout(), of a bucket in the cache and of another.
LookUp(t) ==
  /\ writePc[t] \in LookingUp /\ answer[t] = "none"
  /\ IF cache # "none" THEN Decides(t, cache) /\ UNCHANGED answer
     ELSE answer' = [answer EXCEPT ![t] = "pending"] /\ UNCHANGED <<layout, writePc, outcome>>
  /\ UNCHANGED <<kind, toggles, cache, promised, op, stores, writes, disturbed>>

\* The server looks at the bucket, or the request fails.
Answers(t) ==
  /\ answer[t] = "pending"
  /\ \/ answer' = [answer EXCEPT ![t] = kind] /\ UNCHANGED disturbed
     \/ answer' = [answer EXCEPT ![t] = "unknown"] /\ disturbed' = [disturbed EXCEPT ![t] = TRUE]
  /\ UNCHANGED <<kind, toggles, cache, promised, op, writePc, layout, stores, writes, outcome>>

LookedUp(t) ==
  /\ writePc[t] \in LookingUp /\ answer[t] \in {"rcu", "std", "unknown"}
  /\ cache' = IF answer[t] = "unknown" THEN cache ELSE answer[t]
  /\ answer' = [answer EXCEPT ![t] = "none"]
  /\ Decides(t, answer[t])
  /\ UNCHANGED <<kind, toggles, promised, op, stores, writes, disturbed>>

\* Mistake: a write that fails after the writer has opened is repeated over HTTP.
Opened_Repeats(t) ==
  /\ writePc[t] = "opening" /\ kind = "rcu" /\ layout[t] = "rcu"
  /\ stores' = [stores EXCEPT ![t] = @ + 1]
  /\ \/ WriteEnds(t, "grpc") /\ UNCHANGED disturbed
     \/ Disabled(t) /\ disturbed' = [disturbed EXCEPT ![t] = TRUE]
  /\ UNCHANGED <<kind, toggles, cache, promised, op, answer, layout, writes>>

\* init_aaow(): the server opens a writer of storage class RAPID in an rcu
\* bucket and rejects any other; the writes that follow succeed, or fail and
\* leave the object as it is.
Opened(t) ==
  /\ writePc[t] = "opening" /\ kind = "rcu" /\ layout[t] = "rcu"
  /\ stores' = [stores EXCEPT ![t] = @ + 1]
  /\ \/ WriteEnds(t, "grpc") /\ UNCHANGED disturbed
     \/ WriteEnds(t, "error") /\ disturbed' = [disturbed EXCEPT ![t] = TRUE]
  /\ UNCHANGED <<kind, toggles, cache, promised, op, answer, layout, writes>>

\* Mistake: a rejected open is final.
Rejected_Raises(t) ==
  /\ writePc[t] = "opening"
  /\ disturbed' = [disturbed EXCEPT ![t] = @ \/ (kind = "rcu" /\ layout[t] = "rcu")]
  /\ WriteEnds(t, "error") /\ UNCHANGED answer
  /\ UNCHANGED <<kind, toggles, cache, promised, op, layout, stores, writes>>

\* An open that fails re-checks the layout if it was rcu, unless another write
\* has done so.
Rejected(t) ==
  /\ writePc[t] = "opening"
  /\ disturbed' = [disturbed EXCEPT ![t] = @ \/ (kind = "rcu" /\ layout[t] = "rcu")]
  /\ \/ layout[t] # "rcu" /\ WriteEnds(t, "error") /\ UNCHANGED answer
     \/ layout[t] = "rcu" /\ cache = "std" /\ Disabled(t) /\ UNCHANGED answer
     \/ /\ layout[t] = "rcu" /\ cache # "std"
        /\ WriteGoes(t, "recheck") /\ answer' = [answer EXCEPT ![t] = "pending"]
  /\ UNCHANGED <<kind, toggles, cache, promised, op, layout, stores, writes>>

\* Mistake: the fresh layout is not kept.
Rechecked_Forgets(t) ==
  /\ writePc[t] = "recheck" /\ answer[t] \in {"rcu", "std", "unknown"}
  /\ answer' = [answer EXCEPT ![t] = "none"] /\ UNCHANGED cache
  /\ IF answer[t] = "std" THEN Disabled(t) ELSE WriteEnds(t, "error")
  /\ UNCHANGED <<kind, toggles, promised, op, layout, stores, writes, disturbed>>

Rechecked(t) ==
  /\ writePc[t] = "recheck" /\ answer[t] \in {"rcu", "std", "unknown"}
  /\ answer' = [answer EXCEPT ![t] = "none"]
  /\ IF answer[t] = "std" THEN cache' = "std" /\ Disabled(t) ELSE UNCHANGED cache /\ WriteEnds(t, "error")
  /\ UNCHANGED <<kind, toggles, promised, op, layout, stores, writes, disturbed>>

\* The request of the HTTP upload.
Uploads(t) ==
  /\ writePc[t] = "upload"
  /\ \/ WriteEnds(t, "http") /\ stores' = [stores EXCEPT ![t] = @ + 1] /\ UNCHANGED disturbed
     \/ WriteEnds(t, "error") /\ disturbed' = [disturbed EXCEPT ![t] = TRUE] /\ UNCHANGED stores
  /\ UNCHANGED <<kind, toggles, cache, promised, op, answer, layout, writes>>

WriteStep(t) == LookUp(t) \/ Answers(t) \/ LookedUp(t) \/ Opened(t) \/ Rejected(t) \/ Rechecked(t) \/ Uploads(t)

LayoutNext == Toggle \/ Invalidate \/ \E t \in Tasks : BeginWrite(t) \/ WriteStep(t)
LayoutSpec == LayoutInit /\ [][LayoutNext]_layoutVars

-----------------------------------------------------------------------------
LayoutTypeOK ==
  /\ kind \in {"rcu", "std"} /\ toggles \in 0..MaxToggles /\ promised \in BOOLEAN
  /\ cache \in {"none", "rcu", "std"}
  /\ op \in [Tasks -> {"put", "file"}]
  /\ writePc \in [Tasks -> LookingUp \cup {"idle", "opening", "recheck", "upload", "done"}]
  /\ answer \in [Tasks -> {"none", "pending", "rcu", "std", "unknown"}]
  /\ layout \in [Tasks -> {"none", "rcu", "std", "unknown"}]
  /\ stores \in [Tasks -> 0..2] /\ writes \in [Tasks -> 0..MaxWrites]
  /\ disturbed \in [Tasks -> BOOLEAN]
  /\ outcome \in [Tasks -> {"none", "grpc", "http", "disabled", "error"}]

\* A write whose requests succeed does not fail because the cached layout is
\* out of date, or because other tasks look it up, refresh or invalidate it.
StaleLayoutRecovered ==
  \A t \in Tasks : writePc[t] = "done" /\ ~disturbed[t] => outcome[t] # "error"

\* The object is replaced once by a write that succeeds, and at most once by one
\* that fails: HTTP is tried only if no writer has opened.
ReplacedOnce ==
  \A t \in Tasks : stores[t] <= 1 /\ (outcome[t] \in {"grpc", "http"} => stores[t] = 1)

\* "later reads and writes pick the matching data path"
\* (invalidate_storage_layout_cache): a layout cached after the caller
\* invalidated the cache, and before the next change, is the bucket's.  It takes
\* that no look-up was under way: one that asked before the change stores its
\* answer all the same.  A layout that could not be found out is never cached.
MatchesAfterInvalidation == LayoutTypeOK /\ (promised => cache \in {"none", kind})

\* A cached layout that is out of date costs an upload of the file system neither its success nor a
\* second copy, and an invalidation ends it.  A zonal file, which has no other way to write, reports
\* it by an error of its own (RapidCacheUltraDisabledError), an outcome that is not a failure here.
LayoutRight == StaleLayoutRecovered /\ ReplacedOnce /\ MatchesAfterInvalidation

\* Every write ends, though the upload functions over gRPC and over HTTP call each
\* other and other tasks may put an outdated layout back meanwhile, if the caller
\* does not go on invalidating forever.
WritesEnd ==
  <>[][~Invalidate]_layoutVars => \A t \in Tasks : (writePc[t] \notin {"idle", "done"}) ~> (writePc[t] = "done")
=============================================================================
