---------------------------- MODULE DeferredClose ----------------------------
(***************************************************************************)
(* GCSFile.close() and __del__() of gcsfs/core.py.  The event loop must    *)
(* not wait for a file that is closed on its thread, nor may the collector *)
(* of whatever thread drops the last reference: such files are left to one *)
(* worker thread that every GCSFile() starts if there is none.  A file is  *)
(* used by one thread at a time, which may hand it on.                     *)
(***************************************************************************)
EXTENDS Naturals, Sequences, SequencesExt

CONSTANTS
  Files,          \* GCSFile objects
  Apps,           \* threads of the application
  Loop, Worker,   \* the thread of the event loop, and the one that closes
  MaxCloseFaults  \* bound: teardowns that fail

ASSUME DeferralAssumption ==
  /\ Loop \notin Apps /\ Worker \notin Apps /\ Loop # Worker /\ MaxCloseFaults \in Nat
  /\ Files # {} /\ {"new", "dropped", "gone"} \cap (Apps \cup {Loop, Worker}) = {}

VARIABLES
  fileMode,    \* "rb" or "wb"
  user,        \* the thread that has the file: "new" before there is one, "dropped", "gone" when collected
  shut,        \* closed
  deferred,    \* _close_deferred
  forced,      \* forced: the final flush has begun
  sent,        \* final uploads, or prefetchers stopped
  abandoned,   \* nothing will be sent: the interpreter ends, or there was no worker yet
  worker,      \* _deferred_close_queue is set
  workers,     \* threads that were started
  jobs,        \* files in the queue
  doing,       \* what each thread is at: "idle"; "starts" the worker; "enters" _close_impl, "waits" for the loop
  on,          \* file it does it for
  finalizing,  \* sys.is_finalizing()
  closeFaults
closeVars == <<fileMode, user, shut, deferred, forced, sent, abandoned, worker, workers, jobs, doing, on,
               finalizing, closeFaults>>
marks == <<shut, deferred, forced, sent, abandoned>>

CloseInit ==
  /\ fileMode \in [Files -> {"rb", "wb"}] /\ user = [f \in Files |-> "new"]
  /\ shut = [f \in Files |-> FALSE] /\ deferred = [f \in Files |-> FALSE] /\ forced = [f \in Files |-> FALSE]
  /\ sent = [f \in Files |-> 0] /\ abandoned = [f \in Files |-> FALSE]
  /\ worker = FALSE /\ workers = 0 /\ jobs = <<>>
  /\ doing = [e \in Apps \cup {Loop, Worker} |-> "idle"] /\ on \in [DOMAIN doing -> {CHOOSE f \in Files : TRUE}]
  /\ finalizing = FALSE /\ closeFaults = 0

Becomes(e, what) == doing' = [doing EXCEPT ![e] = what]

-----------------------------------------------------------------------------
\* GCSFile(): the queue is looked at without the lock, and again under it.
Construct(t, f) ==
  /\ user[f] = "new" /\ doing[t] = "idle" /\ ~finalizing
  /\ user' = [user EXCEPT ![f] = t]
  /\ IF worker THEN UNCHANGED <<doing, on>> ELSE Becomes(t, "starts") /\ on' = [on EXCEPT ![t] = f]
  /\ UNCHANGED <<fileMode, marks, worker, workers, jobs, finalizing, closeFaults>>
StartWorker(t) ==
  /\ doing[t] = "starts" /\ Becomes(t, "idle")
  /\ worker' = TRUE /\ workers' = IF worker THEN workers ELSE workers + 1
  /\ UNCHANGED <<fileMode, user, marks, jobs, on, finalizing, closeFaults>>
\* The object cannot be found: its file is garbage before the worker was thought of.
ConstructFails(f) ==
  /\ user[f] = "new" /\ fileMode[f] = "rb" /\ ~finalizing
  /\ user' = [user EXCEPT ![f] = "dropped"]
  /\ UNCHANGED <<fileMode, marks, worker, workers, jobs, doing, on, finalizing, closeFaults>>

\* Whoever has the file, and does not wait for it, may pass it on or drop it.
Free(f) == user[f] \in Apps \cup {Loop} /\ (doing[user[f]] = "idle" \/ on[user[f]] # f)
Passes(f) ==
  /\ Free(f) /\ ~finalizing
  /\ \E to \in (Apps \cup {Loop, "dropped"}) \ {user[f]} : user' = [user EXCEPT ![f] = to]
  /\ UNCHANGED <<fileMode, marks, worker, workers, jobs, doing, on, finalizing, closeFaults>>

-----------------------------------------------------------------------------
\* Mistake: a deferred file is closed by its user as well.
Closing_Deferred(f) == shut[f]
Closing(f) == shut[f] \/ deferred[f]

\* _defer_close(): the job keeps the file alive.
Defer(f) ==
  /\ deferred' = [deferred EXCEPT ![f] = TRUE] /\ jobs' = Append(jobs, f)
  /\ UNCHANGED <<shut, forced, sent, abandoned>>
Abandon(f) ==
  /\ shut' = [shut EXCEPT ![f] = TRUE] /\ abandoned' = [abandoned EXCEPT ![f] = TRUE]
  /\ UNCHANGED <<deferred, forced, sent, jobs>>

\* close(), which has nothing to do if the file is closed or will be.
CloseFile(f) ==
  LET e == user[f] IN
  /\ e \in Apps \cup {Loop} /\ doing[e] = "idle" /\ ~Closing(f)
  /\ CASE finalizing -> Abandon(f) /\ UNCHANGED <<doing, on>>
       [] ~finalizing /\ e = Loop -> Defer(f) /\ UNCHANGED <<doing, on>>
       [] OTHER -> Becomes(e, "enters") /\ on' = [on EXCEPT ![e] = f] /\ UNCHANGED <<marks, jobs>>
  /\ UNCHANGED <<fileMode, user, worker, workers, finalizing, closeFaults>>

\* Mistake: the last reference goes and nobody closes the file.
Collect_Forgets(f) ==
  /\ user[f] = "dropped" /\ ~Contains(jobs, f) /\ (doing[Worker] # "idle" => on[Worker] # f)
  /\ user' = [user EXCEPT ![f] = "gone"] /\ UNCHANGED <<marks, jobs>>
  /\ UNCHANGED <<fileMode, worker, workers, doing, on, finalizing, closeFaults>>
\* __del__(), on any thread, when neither a user nor a job refers to the file.
Collect(f) ==
  /\ user[f] = "dropped" /\ ~Contains(jobs, f) /\ (doing[Worker] # "idle" => on[Worker] # f)
  /\ user' = [user EXCEPT ![f] = "gone"]
  /\ CASE shut[f] \/ deferred[f] -> UNCHANGED <<marks, jobs>>
       [] ~(shut[f] \/ deferred[f]) /\ (finalizing \/ ~worker) -> Abandon(f)
       [] OTHER -> Defer(f)
  /\ UNCHANGED <<fileMode, worker, workers, doing, on, finalizing, closeFaults>>

\* _deferred_close_worker(); as a daemon it stops with the interpreter.
Work ==
  /\ workers > 0 /\ doing[Worker] = "idle" /\ jobs # <<>> /\ ~finalizing
  /\ Becomes(Worker, "enters") /\ on' = [on EXCEPT ![Worker] = Head(jobs)] /\ jobs' = Tail(jobs)
  /\ UNCHANGED <<fileMode, user, marks, worker, workers, finalizing, closeFaults>>

-----------------------------------------------------------------------------
\* _close_impl(), and close() of AbstractBufferedFile: a file that is closed needs nothing, and one
\* that is being flushed for the last time only counts as closed.
EnterClose(e) ==
  LET f == on[e] IN
  /\ doing[e] = "enters" /\ ~finalizing
  /\ IF shut[f] \/ forced[f]
     THEN Becomes(e, "idle") /\ shut' = [shut EXCEPT ![f] = TRUE] /\ UNCHANGED <<forced, sent>>
     ELSE /\ Becomes(e, "waits") /\ sent' = [sent EXCEPT ![f] = @ + 1] /\ UNCHANGED shut
          /\ forced' = [forced EXCEPT ![f] = fileMode[f] = "wb"]
  /\ UNCHANGED <<fileMode, user, deferred, abandoned, worker, workers, jobs, on, finalizing, closeFaults>>

\* What it waits for runs on the loop, which must be free.
LoopIsFree == doing[Loop] = "idle"
CloseDone(e) ==
  /\ doing[e] = "waits" /\ LoopIsFree /\ ~finalizing
  /\ Becomes(e, "idle") /\ shut' = [shut EXCEPT ![on[e]] = TRUE]
  /\ UNCHANGED <<fileMode, user, deferred, forced, sent, abandoned, worker, workers, jobs, on, finalizing, closeFaults>>

\* An error, which the worker logs and close() raises: a written file is closed all the same, one
\* that was read is not if its prefetcher cannot be stopped.
CloseFails(e) ==
  /\ doing[e] = "waits" /\ LoopIsFree /\ ~finalizing
  /\ closeFaults < MaxCloseFaults /\ closeFaults' = closeFaults + 1
  /\ Becomes(e, "idle") /\ shut' = [shut EXCEPT ![on[e]] = fileMode[on[e]] = "wb"]
  /\ UNCHANGED <<fileMode, user, deferred, forced, sent, abandoned, worker, workers, jobs, on, finalizing>>

\* The interpreter ends once the application's threads have.
Finalize ==
  /\ ~finalizing /\ finalizing' = TRUE /\ \A t \in Apps : doing[t] = "idle"
  /\ UNCHANGED <<fileMode, user, marks, worker, workers, jobs, doing, on, closeFaults>>

CloseStep == Work \/ \E e \in DOMAIN doing : EnterClose(e) \/ CloseDone(e)
CloseNext ==
  \/ CloseStep \/ Finalize
  \/ \E t \in Apps : StartWorker(t) \/ \E f \in Files : Construct(t, f)
  \/ \E f \in Files : ConstructFails(f) \/ Passes(f) \/ CloseFile(f) \/ Collect(f)
  \/ \E e \in DOMAIN doing : CloseFails(e)
CloseSpec == CloseInit /\ [][CloseNext]_closeVars

-----------------------------------------------------------------------------
CloseTypeOK ==
  /\ user \in [Files -> Apps \cup {Loop, "new", "dropped", "gone"}] /\ \A f \in Files : sent[f] \in Nat
  /\ doing \in [Apps \cup {Loop, Worker} -> {"idle", "starts", "enters", "waits"}]
  /\ jobs \in Seq(Files) /\ workers \in Nat

Closer(f) == {e \in DOMAIN doing : doing[e] \in {"enters", "waits"} /\ on[e] = f}

\* However many threads open files at once, one thread closes those that were left to it, and
\* whatever is left, there is a thread to find it (test_deferred_closes_share_a_bounded_thread_pool).
OneWorker == workers <= 1 /\ (jobs # <<>> \/ doing[Worker] # "idle" => workers = 1)

\* A file is never torn down by two threads, or left to the worker and torn down by its user too.
OneCloser ==
  \A f \in Files :
    /\ \A d, e \in Closer(f) : d = e
    /\ Contains(jobs, f) => Closer(f) = {} /\ deferred[f] /\ \A i, j \in DOMAIN jobs : jobs[i] = f /\ jobs[j] = f => i = j

\* A file that says it is closed has no upload under way, and has had one unless it was given up.
ClosedIsSent ==
  \A f \in Files : shut[f] => Closer(f) = {} /\ (abandoned[f] \/ sent[f] > 0) /\ (fileMode[f] = "wb" => sent[f] <= 1)

CloseOnce == CloseTypeOK /\ OneWorker /\ OneCloser /\ ClosedIsSent

\* A file that is left to the worker is torn down, one that is collected is as well, and close()
\* returns, unless the interpreter ends before: the loop itself never waits for a file.
ClosesEnd ==
  \A f \in Files :
    /\ deferred[f] \/ user[f] = "gone" ~> finalizing \/ sent[f] > 0 \/ abandoned[f]
    /\ Closer(f) # {} ~> finalizing \/ Closer(f) = {}
==============================================================================
