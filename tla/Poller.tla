------------------------------- MODULE Poller -------------------------------
(***************************************************************************)
(* gcsfs/poller.py: poll_lro() waits for a long-running operation of the   *)
(* server.  It sleeps, asks, sleeps longer, backs off while its questions  *)
(* fail, gives up at a deadline, and passes a cancellation on to the       *)
(* server.  Time is counted in ticks since the start of the wait.          *)
(***************************************************************************)
EXTENDS Integers

CONSTANTS
  Budget,       \* timeout
  Floor,        \* _POLL_DELAY_FLOOR
  Cap,          \* _POLL_DELAY_CAP
  RpcMin,       \* _MIN_PER_POLL_RPC_TIMEOUT
  RpcMax,       \* _PER_POLL_RPC_TIMEOUT
  BackoffBase,  \* _TRANSIENT_ERROR_BACKOFF_BASE
  BackoffCap    \* _TRANSIENT_ERROR_BACKOFF_CAP

ASSUME TimesPositive ==
  /\ Budget \in Nat \ {0} /\ Floor \in Nat \ {0} /\ Cap \in Nat \ {0}
  /\ RpcMin \in Nat \ {0} /\ RpcMax \in Nat \ {0} /\ RpcMin <= RpcMax
  /\ BackoffBase \in Nat \ {0} /\ BackoffCap \in Nat \ {0}

VARIABLES
  server,      \* the operation: "running", "succeeded", "failed"
  now,         \* elapsed
  pc,          \* where poll_lro() is
  until,       \* when its sleep, or the wait for a reply, is over
  backoff,     \* transient_backoff
  reply,       \* what reached the client of the question asked
  cancelling,  \* the task has been cancelled
  signal,      \* the background task that cancels the operation
  outcome      \* how poll_lro() ended

pollVars == <<server, now, pc, until, backoff, reply, cancelling, signal, outcome>>

Min2(a, b) == IF a <= b THEN a ELSE b
Max2(a, b) == IF a >= b THEN a ELSE b

PollInit ==
  /\ server = "running" /\ now = 0 /\ pc = "start" /\ until = 0 /\ backoff = 0
  /\ reply = "none" /\ cancelling = FALSE /\ signal = "none" /\ outcome = "none"

\* Three to five quarters of t (_JITTER_MIN, _JITTER_MAX), in whole ticks.
Jittered(t) == {d \in 1..2 * t : 3 * t <= 4 * d + 3 /\ 4 * d <= 5 * t}

\* _calculate_poll_delay: a fifth of the time waited so far, within bounds.
PollDelays ==
  Jittered(Min2(Max2(now \div 5, Floor), (4 * Cap) \div 5))

Delays ==
  IF backoff = 0 THEN PollDelays
  ELSE {Max2(d, b) : d \in PollDelays, b \in Jittered(backoff)}

Ended(how) == pc' = "ended" /\ outcome' = how

\* unwrap_operation_result()
Result == IF server = "succeeded" THEN "returned" ELSE "failed"

-----------------------------------------------------------------------------
\* The operation was over in the reply that created it, or polling begins.
Begin ==
  /\ pc = "start"
  /\ \/ server # "running" /\ Ended(Result)
     \/ pc' = "loop" /\ UNCHANGED outcome
  /\ UNCHANGED <<server, now, until, backoff, reply, cancelling, signal>>

\* Mistake: only a failed last question ends the wait.
GiveUp_AfterError ==
  /\ pc = "loop" /\ now >= Budget /\ backoff > 0
  /\ Ended("timeout")
  /\ UNCHANGED <<server, now, until, backoff, reply, cancelling, signal>>

GiveUp ==
  /\ pc = "loop" /\ now >= Budget
  /\ Ended("timeout")
  /\ UNCHANGED <<server, now, until, backoff, reply, cancelling, signal>>

\* Mistake: the sleep may pass the deadline.
Sleep_Unclipped ==
  /\ pc = "loop" /\ now < Budget
  /\ \E delay \in Delays : until' = now + delay
  /\ pc' = "sleeping"
  /\ UNCHANGED <<server, now, backoff, reply, cancelling, signal, outcome>>

Sleep ==
  /\ pc = "loop" /\ now < Budget
  /\ \E delay \in Delays : until' = now + Min2(delay, Budget - now)
  /\ pc' = "sleeping"
  /\ UNCHANGED <<server, now, backoff, reply, cancelling, signal, outcome>>

\* lro_complete() asks, with a time limit of its own.
Ask ==
  /\ pc = "sleeping" /\ now = until /\ ~cancelling
  /\ until' = now + Min2(RpcMax, Max2(RpcMin, Budget - now))
  /\ pc' = "asking" /\ reply' = "none"
  /\ UNCHANGED <<server, now, backoff, cancelling, signal, outcome>>

\* The server looks at the operation and its reply, or an error, arrives.
Answer ==
  /\ pc = "asking" /\ reply = "none"
  /\ reply' \in {IF server = "running" THEN "running" ELSE "over", "transient", "fatal"}
  /\ UNCHANGED <<server, now, pc, until, backoff, cancelling, signal, outcome>>

BacksOff == backoff' = Min2(Max2(2 * backoff, BackoffBase), (4 * BackoffCap) \div 5)

\* Mistake: as with asyncio.wait_for, a reply that arrives in the loop step of a
\* cancellation hides it.
Receive_HidesCancel ==
  /\ pc = "asking" /\ reply # "none"
  /\ \/ reply = "running" /\ pc' = "loop" /\ backoff' = 0 /\ UNCHANGED outcome
     \/ reply = "over" /\ Ended(Result) /\ UNCHANGED backoff
     \/ reply = "transient" /\ pc' = "loop" /\ BacksOff /\ UNCHANGED outcome
     \/ reply = "fatal" /\ Ended("error") /\ UNCHANGED backoff
  /\ UNCHANGED <<server, now, until, reply, cancelling, signal>>

\* Mistake: an answered question is taken for success, whatever the operation's result.
Receive_ErrorReturns ==
  /\ pc = "asking" /\ reply # "none" /\ ~cancelling
  /\ \/ reply = "running" /\ pc' = "loop" /\ backoff' = 0 /\ UNCHANGED outcome
     \/ reply = "over" /\ Ended("returned") /\ UNCHANGED backoff
     \/ reply = "transient" /\ pc' = "loop" /\ BacksOff /\ UNCHANGED outcome
     \/ reply = "fatal" /\ Ended("error") /\ UNCHANGED backoff
  /\ UNCHANGED <<server, now, until, reply, cancelling, signal>>

Receive ==
  /\ pc = "asking" /\ reply # "none" /\ ~cancelling
  /\ \/ reply = "running" /\ pc' = "loop" /\ backoff' = 0 /\ UNCHANGED outcome
     \/ reply = "over" /\ Ended(Result) /\ UNCHANGED backoff
     \/ reply = "transient" /\ pc' = "loop" /\ BacksOff /\ UNCHANGED outcome
     \/ reply = "fatal" /\ Ended("error") /\ UNCHANGED backoff
  /\ UNCHANGED <<server, now, until, reply, cancelling, signal>>

\* _wait_keeping_cancel() abandons the question: a transient failure.
NoAnswer ==
  /\ pc = "asking" /\ reply = "none" /\ now = until /\ ~cancelling
  /\ pc' = "loop" /\ BacksOff
  /\ UNCHANGED <<server, now, until, reply, cancelling, signal, outcome>>

\* The caller's task is cancelled while it sleeps or waits for the reply ...
Cancel ==
  /\ pc \in {"sleeping", "asking"} /\ ~cancelling
  /\ cancelling' = TRUE
  /\ UNCHANGED <<server, now, pc, until, backoff, reply, signal, outcome>>

\* ... which raises there, and starts the task that tells the server.
Cancelled ==
  /\ pc \in {"sleeping", "asking"} /\ cancelling
  /\ Ended("cancelled")
  /\ signal' = "started"
  /\ UNCHANGED <<server, now, until, backoff, reply, cancelling>>

\* operation.cancel() went out, or failed, which is only logged.
Signalled ==
  /\ signal = "started"
  /\ signal' \in {"sent", "failed"}
  /\ UNCHANGED <<server, now, pc, until, backoff, reply, cancelling, outcome>>

ServerEnds ==
  /\ server = "running" /\ server' \in {"succeeded", "failed"}
  /\ UNCHANGED <<now, pc, until, backoff, reply, cancelling, signal, outcome>>

\* Time passes while the task waits.
Tick ==
  /\ pc \in {"sleeping", "asking"} /\ ~cancelling /\ now < until
  /\ pc = "asking" => reply = "none"
  /\ now' = now + 1
  /\ UNCHANGED <<server, pc, until, backoff, reply, cancelling, signal, outcome>>

PollStep ==
  \/ Begin \/ GiveUp \/ Sleep \/ Ask \/ Receive \/ NoAnswer \/ Cancelled \/ Signalled

PollNext == PollStep \/ Answer \/ Cancel \/ ServerEnds \/ Tick

PollSpec == PollInit /\ [][PollNext]_pollVars

-----------------------------------------------------------------------------
PollTypeOK ==
  /\ server \in {"running", "succeeded", "failed"}
  /\ now \in Nat /\ until \in Nat /\ backoff \in 0..BackoffCap
  /\ pc \in {"start", "loop", "sleeping", "asking", "ended"}
  /\ reply \in {"none", "running", "over", "transient", "fatal"}
  /\ cancelling \in BOOLEAN /\ signal \in {"none", "started", "sent", "failed"}
  /\ outcome \in {"none", "returned", "failed", "timeout", "error", "cancelled"}
  /\ (outcome = "none") <=> (pc # "ended")

\* The wait passes its limit by no more than the time limit of a last question
\* ("Overall limit in seconds", poll_lro), however the sleeps, the backoff and
\* questions without answer add up.
OnTime == now <= Budget + RpcMin

\* A result is reported only of an operation that has it.
OutcomeTrue ==
  /\ outcome = "returned" => server = "succeeded"
  /\ outcome = "failed" => server = "failed"

\* A cancellation is never lost to a reply, and it is what makes the client
\* cancel the operation: a timeout leaves the operation alone.
CancelKept ==
  /\ cancelling /\ pc = "ended" => outcome = "cancelled"
  /\ signal # "none" <=> outcome = "cancelled"

\* Progress of a cancelled wait: the server is told, or the failure is logged.
CancelSignalled == [](outcome = "cancelled" => <>(signal \in {"sent", "failed"}))
=============================================================================
