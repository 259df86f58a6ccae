------------------------ MODULE DirectMemmoveBuffer ------------------------
(***************************************************************************)
(* gcsfs/zb_hns_utils.py, DirectMemmoveBuffer and PartialView: streams     *)
(* write the chunks they receive into views of one buffer, small chunks at *)
(* once and large ones by jobs of a thread pool, while close() waits for   *)
(* the jobs.  A step is what a thread does between two acquisitions of     *)
(* _lock, or outside it.                                                   *)
(***************************************************************************)
EXTENDS Integers, FiniteSets

CONSTANTS
  Writers,     \* holders of a view, each on a thread of its own
  Expected,    \* expected_size
  MaxPending,  \* max_pending
  Threshold    \* THRESHOLD_BYTES_FOR_SCHEDULING

ASSUME SizesPositive == Expected \in Nat \ {0} /\ MaxPending \in Nat \ {0}
ASSUME ThresholdNat == Threshold \in Nat
ASSUME WritersFinite == IsFiniteSet(Writers)

VARIABLES
  view,        \* the view of each writer: written are the bytes before next
  writerPc,    \* where each writer is in write()
  chunk,       \* what it is writing
  job,         \* the memmove that starts at each offset, and how far it is
  permits,     \* semaphore
  pending,     \* _pending_count
  done,        \* _done_event
  memory,      \* _result_bytes: not there, own bytes, or the caller's
  totalMoved,  \* _total_bytes_written
  moveError,   \* _error
  stop,        \* _stop_accepting_writes
  bufferClosed,      \* _is_closed
  value,       \* what get_value() gave
  filled       \* how often each byte was written

bufferVars == <<view, writerPc, chunk, job, permits, pending, done, memory, totalMoved, moveError,
                stop, bufferClosed, value, filled>>

Offsets == 0..Expected - 1
NoView == [start |-> 0, next |-> 0, end |-> 0]
NoChunk == [at |-> 0, size |-> 0]
NoJob == [step |-> "none", size |-> 0]

BufferInit ==
  /\ view = [w \in Writers |-> NoView]
  /\ writerPc = [w \in Writers |-> "out"]
  /\ chunk = [w \in Writers |-> NoChunk]
  /\ job = [o \in Offsets |-> NoJob]
  /\ permits = MaxPending /\ pending = 0 /\ done = TRUE
  /\ memory = "none" /\ totalMoved = 0 /\ moveError = FALSE
  /\ stop = FALSE /\ bufferClosed = FALSE /\ value = "none"
  /\ filled = [o \in Offsets |-> 0]

WriterGoes(w, label) == writerPc' = [writerPc EXCEPT ![w] = label]
JobGoes(o, label) == job' = [job EXCEPT ![o].step = label]

-----------------------------------------------------------------------------
(* get_view() and PartialView.write() *)

\* Mistake: overlaps are not refused.
GetView_Overlapping(w, from, to) ==
  /\ view[w] = NoView /\ from < to /\ to <= Expected
  /\ ~stop /\ ~bufferClosed
  /\ view' = [view EXCEPT ![w] = [start |-> from, next |-> from, end |-> to]]
  /\ UNCHANGED <<writerPc, chunk, job, permits, pending, done, memory, totalMoved, moveError,
                 stop, bufferClosed, value, filled>>

GetView(w, from, to) ==
  /\ view[w] = NoView /\ from < to /\ to <= Expected
  /\ ~stop /\ ~bufferClosed
  /\ \A v \in Writers : view[v].end <= from \/ to <= view[v].start
  /\ view' = [view EXCEPT ![w] = [start |-> from, next |-> from, end |-> to]]
  /\ UNCHANGED <<writerPc, chunk, job, permits, pending, done, memory, totalMoved, moveError,
                 stop, bufferClosed, value, filled>>

\* The bytes of the chunk are taken from the view whatever becomes of them.
WriteBegin(w, n) ==
  /\ writerPc[w] = "out" /\ view[w].next + n <= view[w].end
  /\ chunk' = [chunk EXCEPT ![w] = [at |-> view[w].next, size |-> n]]
  /\ view' = [view EXCEPT ![w].next = @ + n]
  /\ WriterGoes(w, "semaphore")
  /\ UNCHANGED <<job, permits, pending, done, memory, totalMoved, moveError, stop, bufferClosed,
                 value, filled>>

-----------------------------------------------------------------------------
(* _submit_write() *)

AcquirePermit(w) ==
  /\ writerPc[w] = "semaphore" /\ permits > 0
  /\ permits' = permits - 1
  /\ WriterGoes(w, "lock")
  /\ UNCHANGED <<view, chunk, job, pending, done, memory, totalMoved, moveError, stop, bufferClosed,
                 value, filled>>

Refused == stop \/ bufferClosed \/ moveError

\* Mistake: the permit stays with the refused write.
Refuse_KeepsPermit(w) ==
  /\ writerPc[w] = "lock" /\ (Refused \/ memory = "theirs")
  /\ WriterGoes(w, "out")
  /\ UNCHANGED <<view, chunk, job, permits, pending, done, memory, totalMoved, moveError, stop, bufferClosed,
                 value, filled>>

\* The write raises.
Refuse(w) ==
  /\ writerPc[w] = "lock" /\ (Refused \/ memory = "theirs")
  /\ permits' = permits + 1
  /\ WriterGoes(w, "out")
  /\ UNCHANGED <<view, chunk, job, pending, done, memory, totalMoved, moveError, stop, bufferClosed,
                 value, filled>>

Whole(w) == memory = "none" /\ chunk[w].at = 0 /\ chunk[w].size = Expected

\* A chunk that is the whole buffer becomes the buffer.
ZeroCopy(w) ==
  /\ writerPc[w] = "lock" /\ ~Refused /\ Whole(w)
  /\ memory' = "theirs"
  /\ permits' = permits + 1
  /\ totalMoved' = totalMoved + Expected
  /\ filled' = [o \in Offsets |-> filled[o] + 1]
  /\ WriterGoes(w, "out")
  /\ UNCHANGED <<view, chunk, job, pending, done, moveError, stop, bufferClosed, value>>

\* The move is counted as pending; the writer does it or hands it on.
EnterMove(w) ==
  /\ writerPc[w] = "lock" /\ ~Refused /\ ~Whole(w) /\ memory # "theirs"
  /\ memory' = "own"
  /\ pending' = pending + 1 /\ done' = FALSE
  /\ job' = [job EXCEPT ![chunk[w].at] =
                [step |-> IF chunk[w].size <= Threshold THEN "queued" ELSE "new",
                 size |-> chunk[w].size]]
  /\ WriterGoes(w, IF chunk[w].size <= Threshold THEN "moving" ELSE "submit")
  /\ UNCHANGED <<view, chunk, permits, totalMoved, moveError, stop, bufferClosed, value, filled>>

Submit(w) ==
  /\ writerPc[w] = "submit"
  /\ JobGoes(chunk[w].at, "queued")
  /\ WriterGoes(w, "out")
  /\ UNCHANGED <<view, chunk, permits, pending, done, memory, totalMoved, moveError, stop, bufferClosed,
                 value, filled>>

\* executor.submit() raised.
SubmitFails(w) ==
  /\ writerPc[w] = "submit"
  /\ moveError' = TRUE
  /\ JobGoes(chunk[w].at, "leaving")
  /\ WriterGoes(w, "moving")
  /\ UNCHANGED <<view, chunk, permits, pending, done, memory, totalMoved, stop, bufferClosed,
                 value, filled>>

\* The writer did the move (or the clean-up) itself and returns.
WriteReturns(w) ==
  /\ writerPc[w] = "moving" /\ job[chunk[w].at].step = "over"
  /\ WriterGoes(w, "out")
  /\ UNCHANGED <<view, chunk, job, permits, pending, done, memory, totalMoved, moveError, stop, bufferClosed,
                 value, filled>>

-----------------------------------------------------------------------------
(* _do_memmove() of the bytes from o on *)

MoveStarts(o) ==
  /\ job[o].step = "queued"
  /\ JobGoes(o, IF moveError THEN "leaving" ELSE "moving")
  /\ UNCHANGED <<view, writerPc, chunk, permits, pending, done, memory, totalMoved, moveError, stop, bufferClosed,
                 value, filled>>

Moves(o) ==
  /\ job[o].step = "moving"
  /\ filled' = [b \in Offsets |-> IF b \in o..o + job[o].size - 1 THEN filled[b] + 1 ELSE filled[b]]
  /\ JobGoes(o, "counting")
  /\ UNCHANGED <<view, writerPc, chunk, permits, pending, done, memory, totalMoved, moveError, stop, bufferClosed, value>>

MoveFails(o) ==
  /\ job[o].step = "moving"
  /\ moveError' = TRUE
  /\ JobGoes(o, "leaving")
  /\ UNCHANGED <<view, writerPc, chunk, permits, pending, done, memory, totalMoved, stop, bufferClosed,
                 value, filled>>

Counts(o) ==
  /\ job[o].step = "counting"
  /\ totalMoved' = totalMoved + job[o].size
  /\ JobGoes(o, "leaving")
  /\ UNCHANGED <<view, writerPc, chunk, permits, pending, done, memory, moveError, stop, bufferClosed,
                 value, filled>>

\* _decrement_pending(): the permit, and then, under the lock, the count.
Releases(o) ==
  /\ job[o].step = "leaving"
  /\ permits' = permits + 1
  /\ JobGoes(o, "ending")
  /\ UNCHANGED <<view, writerPc, chunk, pending, done, memory, totalMoved, moveError, stop, bufferClosed,
                 value, filled>>

\* Mistake: any job that ends sets the event.
Ends_SetsDone(o) ==
  /\ job[o].step = "ending"
  /\ pending' = pending - 1
  /\ done' = TRUE
  /\ JobGoes(o, "over")
  /\ UNCHANGED <<view, writerPc, chunk, permits, memory, totalMoved, moveError, stop, bufferClosed, value, filled>>

Ends(o) ==
  /\ job[o].step = "ending"
  /\ pending' = pending - 1
  /\ done' = (done \/ pending = 1)
  /\ JobGoes(o, "over")
  /\ UNCHANGED <<view, writerPc, chunk, permits, memory, totalMoved, moveError, stop, bufferClosed, value, filled>>

-----------------------------------------------------------------------------
CloseBegin ==
  /\ ~stop /\ stop' = TRUE
  /\ UNCHANGED <<view, writerPc, chunk, job, permits, pending, done, memory, totalMoved, moveError, bufferClosed,
                 value, filled>>

\* Mistake: close() does not wait.
CloseEnd_NoWait ==
  /\ stop /\ ~bufferClosed /\ bufferClosed' = TRUE
  /\ UNCHANGED <<view, writerPc, chunk, job, permits, pending, done, memory, totalMoved, moveError, stop,
                 value, filled>>

CloseEnd ==
  /\ stop /\ ~bufferClosed /\ done
  /\ bufferClosed' = TRUE
  /\ UNCHANGED <<view, writerPc, chunk, job, permits, pending, done, memory, totalMoved, moveError, stop,
                 value, filled>>

GetValue ==
  /\ bufferClosed /\ value = "none"
  /\ value' = IF moveError \/ totalMoved < Expected THEN "raised" ELSE "returned"
  /\ UNCHANGED <<view, writerPc, chunk, job, permits, pending, done, memory, totalMoved, moveError, stop, bufferClosed,
                 filled>>

Writer(w) ==
  AcquirePermit(w) \/ Refuse(w) \/ ZeroCopy(w) \/ EnterMove(w) \/ Submit(w) \/ SubmitFails(w) \/ WriteReturns(w)

Job(o) ==
  MoveStarts(o) \/ Moves(o) \/ MoveFails(o) \/ Counts(o) \/ Releases(o) \/ Ends(o)

BufferNext ==
  \/ \E w \in Writers :
       \/ \E from \in Offsets, to \in 1..Expected : GetView(w, from, to)
       \/ \E n \in 1..Expected : WriteBegin(w, n)
       \/ Writer(w)
  \/ \E o \in Offsets : Job(o)
  \/ CloseBegin \/ CloseEnd \/ GetValue

BufferSpec == BufferInit /\ [][BufferNext]_bufferVars

-----------------------------------------------------------------------------
At(labels) == {w \in Writers : writerPc[w] \in labels}
Jobs(labels) == {o \in Offsets : job[o].step \in labels}

Started == {"new", "queued", "moving", "counting", "leaving", "ending"}

BufferTypeOK ==
  /\ view \in [Writers -> [start : 0..Expected, next : 0..Expected, end : 0..Expected]]
  /\ writerPc \in [Writers -> {"out", "semaphore", "lock", "submit", "moving"}]
  /\ chunk \in [Writers -> [at : 0..Expected, size : 0..Expected]]
  /\ job \in [Offsets -> [step : Started \cup {"none", "over"}, size : 0..Expected]]
  /\ permits \in 0..MaxPending /\ pending \in Nat /\ done \in BOOLEAN
  /\ memory \in {"none", "own", "theirs"} /\ totalMoved \in 0..Expected
  /\ moveError \in BOOLEAN /\ stop \in BOOLEAN /\ bufferClosed \in BOOLEAN
  /\ value \in {"none", "raised", "returned"}
  /\ filled \in [Offsets -> Nat]

\* A permit is free, with a writer about to enter, or with a job that has not
\* given it back: none is lost or given twice, whatever is refused or fails.
PermitsAccounted ==
  permits + Cardinality(At({"lock"})) + Cardinality(Jobs(Started \ {"ending"})) = MaxPending

\* _pending_count counts the jobs under way, and _done_event is set exactly
\* when there are none.
PendingExact ==
  /\ pending = Cardinality(Jobs(Started))
  /\ done <=> pending = 0

\* The two counts through which writers, jobs and close() wait for each other.
CountsExact == BufferTypeOK /\ PermitsAccounted /\ PendingExact

\* Once close() returned no thread touches the memory get_value() hands out.
QuietWhenClosed == bufferClosed => Jobs(Started) = {} /\ At({"submit", "moving"}) \subseteq
                                                   {w \in Writers : job[chunk[w].at].step = "over"}

\* The buffer is write-once, and a value that was returned is filled: "Returning
\* this payload would leak uninitialized memory" cannot happen unnoticed.
ValueComplete ==
  /\ \A o \in Offsets : filled[o] <= 1
  /\ value = "returned" => \A o \in Offsets : filled[o] = 1

\* What get_value() hands out is whole, and no thread writes to it any more.
ValueRight == QuietWhenClosed /\ ValueComplete

\* close() returns, whatever the writers do, and no writer waits for a permit for
\* ever, though failing moves and submissions have to give theirs back.
CallsReturn ==
  /\ stop ~> bufferClosed
  /\ \A w \in Writers : writerPc[w] = "semaphore" ~> writerPc[w] = "out"
=============================================================================
