---------------------- MODULE DirectMemmoveBufferProofs ----------------------
(***************************************************************************)
(* Proofs about DirectMemmoveBuffer: for buffers, views and chunks of any  *)
(* size and any number of threads, permits and the count of pending moves  *)
(* are exact, and a value that was returned is whole and left alone.       *)
(***************************************************************************)
EXTENDS DirectMemmoveBuffer, FiniteSetTheorems, TLAPS

Late == {"leaving", "ending", "over"}
Span(o) == o..(o + job[o].size - 1)
Begun == Jobs(Started \cup {"over"})
Holding == Jobs(Started \ {"ending"})

\* The bytes of the moves that are over, or failed.
Behind == {b \in Offsets : \E o \in Jobs(Late) : b \in Span(o)}

Types ==
  /\ view \in [Writers -> [start : 0..Expected, next : 0..Expected, end : 0..Expected]]
  /\ writerPc \in [Writers -> {"out", "semaphore", "lock", "submit", "moving"}]
  /\ chunk \in [Writers -> [at : 0..Expected, size : 0..Expected]]
  /\ job \in [Offsets -> [step : Started \cup {"none", "over"}, size : 0..Expected]]
  /\ permits \in Int /\ pending \in Nat /\ done \in BOOLEAN
  /\ memory \in {"none", "own", "theirs"} /\ totalMoved \in Nat
  /\ moveError \in BOOLEAN /\ stop \in BOOLEAN /\ bufferClosed \in BOOLEAN
  /\ value \in {"none", "raised", "returned"}
  /\ filled \in [Offsets -> Nat]

\* Views do not overlap, and a chunk is the last part of its view that was taken.
Views ==
  /\ \A w \in Writers : view[w].start <= view[w].next /\ view[w].next <= view[w].end
  /\ \A v, w \in Writers : v # w => view[v].end <= view[w].start \/ view[w].end <= view[v].start
  /\ \A w \in Writers : writerPc[w] # "out" =>
       chunk[w].size > 0 /\ view[w].start <= chunk[w].at /\ chunk[w].at + chunk[w].size = view[w].next

\* A job moves bytes that a view has given away, and no two jobs, begun or about
\* to begin, move the same byte.
Spans ==
  /\ \A o \in Begun : job[o].size > 0
  /\ \A o \in Begun : \E w \in Writers : view[w].start <= o /\ o + job[o].size <= view[w].next
  /\ \A o, p \in Begun : o < p => o + job[o].size <= p
  /\ \A w \in At({"semaphore", "lock"}), o \in Begun :
       o + job[o].size <= chunk[w].at \/ chunk[w].at + chunk[w].size <= o
  /\ \A w \in At({"submit"}) : job[chunk[w].at].step = "new"
  /\ \A w \in At({"moving"}) : chunk[w].at \in Begun /\ job[chunk[w].at].step # "new"

Counted ==
  /\ permits >= 0 /\ PermitsAccounted /\ PendingExact

\* What the bytes and the total say of the jobs.
Bytes ==
  /\ memory # "own" => /\ Begun = {}
                       /\ totalMoved = (IF memory = "none" THEN 0 ELSE Expected)
                       /\ \A b \in Offsets : filled[b] = (IF memory = "none" THEN 0 ELSE 1)
  /\ memory = "own" =>
       /\ totalMoved <= Cardinality(Behind)
       /\ ~moveError => totalMoved = Cardinality(Behind)
       /\ \A b \in Offsets : filled[b] <= 1
       /\ \A b \in Offsets : filled[b] = 1 => \E o \in Begun : b \in Span(o)
       /\ \A o \in Jobs({"new", "queued", "moving"}) : \A b \in Span(o) : filled[b] = 0
       /\ \A o \in Jobs({"counting"} \cup Late) : moveError \/ \A b \in Span(o) : filled[b] = 1

\* The buffer is closed after the moves, and its value taken after that.
Closing ==
  /\ bufferClosed => stop /\ Jobs(Started) = {}
  /\ value # "none" => bufferClosed
  /\ value = "returned" => \A b \in Offsets : filled[b] = 1

IInv == Types /\ Views /\ Spans /\ Counted /\ Bytes /\ Closing
-----------------------------------------------------------------------------
LEMMA Sizes == Expected \in Nat /\ Expected > 0 /\ MaxPending \in Nat /\ MaxPending > 0
  BY SizesPositive

LEMMA Grows ==
  ASSUME NEW S, IsFiniteSet(S), NEW T, NEW x, x \notin S, T = S \cup {x}
  PROVE  Cardinality(T) = Cardinality(S) + 1
  BY FS_AddElement

LEMMA Shrinks ==
  ASSUME NEW S, IsFiniteSet(S), NEW T, NEW x, x \in S, T = S \ {x}
  PROVE  Cardinality(T) = Cardinality(S) - 1
  BY FS_RemoveElement

LEMMA OffsetsFinite == IsFiniteSet(Offsets) /\ Cardinality(Offsets) = Expected
<1>1. /\ IsFiniteSet(0..(Expected - 1))
      /\ Cardinality(0..(Expected - 1)) = IF 0 > Expected - 1 THEN 0 ELSE Expected - 1 - 0 + 1
  BY Sizes, FS_Interval
<1> QED BY <1>1, Sizes DEF Offsets

LEMMA JobsFinite == \A L : IsFiniteSet(Jobs(L)) /\ Cardinality(Jobs(L)) \in Nat
<1> TAKE L
<1>1. Jobs(L) \subseteq Offsets
  BY DEF Jobs
<1> QED BY <1>1, OffsetsFinite, FS_Subset, FS_CardinalityType

LEMMA AtFinite == \A L : IsFiniteSet(At(L)) /\ Cardinality(At(L)) \in Nat
<1> TAKE L
<1>1. At(L) \subseteq Writers
  BY DEF At
<1> QED BY <1>1, WritersFinite, FS_Subset, FS_CardinalityType

LEMMA BehindFinite == IsFiniteSet(Behind) /\ Cardinality(Behind) \in Nat /\ Cardinality(Behind) <= Expected
<1>1. Behind \subseteq Offsets
  BY DEF Behind
<1> QED BY <1>1, OffsetsFinite, FS_Subset, FS_CardinalityType

\* What a step of a job, and a step of a writer, leave as it is.
LEMMA JobStep ==
  ASSUME Types, NEW o \in Offsets, NEW label \in Started \cup {"over"}, JobGoes(o, label)
  PROVE  /\ job' \in [Offsets -> [step : Started \cup {"none", "over"}, size : 0..Expected]]
         /\ \A p \in Offsets : job'[p].size = job[p].size
         /\ \A p \in Offsets : p # o => job'[p].step = job[p].step
         /\ job'[o].step = label
  BY DEF Types, JobGoes

LEMMA WriterStep ==
  ASSUME Types, NEW w \in Writers, NEW label \in {"out", "semaphore", "lock", "submit", "moving"},
         WriterGoes(w, label)
  PROVE  /\ writerPc' \in [Writers -> {"out", "semaphore", "lock", "submit", "moving"}]
         /\ \A v \in Writers : v # w => writerPc'[v] = writerPc[v]
         /\ writerPc'[w] = label
  BY DEF Types, WriterGoes

\* A job that is under way takes its next step.
Stepped(o, label) ==
  /\ Views' /\ Spans' /\ Begun' = Begun
  /\ \A p \in Offsets : Span(p)' = Span(p)
  /\ \A p \in Offsets : job'[p].size = job[p].size /\ job'[p].step = IF p = o THEN label ELSE job[p].step
  /\ job' \in [Offsets -> [step : Started \cup {"none", "over"}, size : 0..Expected]]

LEMMA JobMoves ==
  ASSUME IInv, NEW o \in Jobs(Started \ {"new"}), NEW label \in {"moving", "counting", "leaving", "ending", "over"},
         JobGoes(o, label), UNCHANGED <<view, writerPc, chunk>>
  PROVE  Stepped(o, label)
<1> USE DEF IInv
<1>0. o \in Offsets /\ label \in Started \cup {"over"}
  BY DEF Jobs, Started
<1>1. /\ job' \in [Offsets -> [step : Started \cup {"none", "over"}, size : 0..Expected]]
      /\ \A p \in Offsets : job'[p].size = job[p].size
      /\ \A p \in Offsets : p # o => job'[p].step = job[p].step
      /\ job'[o].step = label
  BY <1>0, JobStep
<1>2. Begun' = Begun
  BY <1>0, <1>1 DEF Begun, Jobs
<1>3. \A p \in Offsets : Span(p)' = Span(p)
  BY <1>1 DEF Span
<1>4. Views'
  BY DEF Views
<1>5. \A L : At(L)' = At(L)
  BY DEF At
<1>6. \A w \in At({"submit"}) : chunk[w].at \in Offsets /\ chunk[w].at # o
  <2> SUFFICES ASSUME NEW w \in At({"submit"}) PROVE chunk[w].at \in Offsets /\ chunk[w].at # o
    OBVIOUS
  <2>1. job[chunk[w].at].step = "new" /\ job[o].step # "new"
    BY DEF Spans, Jobs
  <2>2. chunk[w].at \in 0..Expected /\ chunk[w].size > 0 /\ chunk[w].at + chunk[w].size = view[w].next
        /\ view[w].next \in 0..Expected /\ chunk[w].size \in 0..Expected
    BY DEF Views, At, Types
  <2> QED BY <2>1, <2>2, Sizes DEF Offsets
<1>7. Begun \subseteq Offsets
  BY DEF Begun, Jobs
<1>8. \A w \in At({"submit"}) : job'[chunk[w].at].step = "new"
  BY <1>1, <1>6 DEF Spans
<1>9. \A w \in At({"moving"}) : chunk[w].at \in Begun /\ job'[chunk[w].at].step # "new"
  BY <1>1, <1>7 DEF Spans
<1>10. Spans'
  BY <1>1, <1>2, <1>5, <1>7, <1>8, <1>9 DEF Spans
<1> QED BY <1>1, <1>2, <1>3, <1>4, <1>10 DEF Stepped

\* A begun job holds the buffer open, and its memory is the buffer's own.
LEMMA JobOpen ==
  ASSUME IInv, NEW o \in Jobs(Started)
  PROVE  /\ ~bufferClosed /\ value = "none" /\ memory = "own" /\ o \in Begun /\ o \in Offsets
         /\ UNCHANGED <<bufferClosed, value>> => Closing'
<1>1. o \in Begun /\ o \in Offsets
  BY DEF Begun, Jobs
<1>2. ~bufferClosed /\ value = "none"
  BY DEF IInv, Closing, Types
<1> QED BY <1>1, <1>2 DEF IInv, Closing, Bytes, Types

\* The bytes of two jobs.
LEMMA SpansApart ==
  ASSUME IInv, NEW o \in Begun, NEW p \in Begun, o # p
  PROVE  Span(o) \cap Span(p) = {}
<1>1. o \in 0..Expected - 1 /\ p \in 0..Expected - 1 /\ job[o].size \in 0..Expected /\ job[p].size \in 0..Expected
  BY DEF Begun, Jobs, Offsets, IInv, Types
<1>2. o < p \/ p < o
  BY <1>1, Sizes
<1>3. o + job[o].size <= p \/ p + job[p].size <= o
  BY <1>2 DEF IInv, Spans
<1> QED BY <1>1, <1>3, Sizes DEF Span

LEMMA BegunSize == ASSUME IInv, NEW o \in Begun PROVE o \in Nat /\ job[o].size \in Nat /\ job[o].size > 0
<1>1. o \in Offsets /\ o \in Nat
  BY Sizes DEF Begun, Jobs, Offsets
<1>2. job[o].size \in 0..Expected
  BY <1>1 DEF IInv, Types
<1>3. job[o].size > 0
  BY DEF IInv, Spans
<1> QED BY <1>1, <1>2, <1>3, Sizes

LEMMA SpanInside ==
  ASSUME IInv, NEW o \in Begun
  PROVE  Span(o) \subseteq Offsets /\ IsFiniteSet(Span(o)) /\ Cardinality(Span(o)) = job[o].size
<1>1. o \in Nat /\ job[o].size \in Nat /\ job[o].size > 0
  BY BegunSize
<1>2. PICK w \in Writers : view[w].start <= o /\ o + job[o].size <= view[w].next
  BY DEF IInv, Spans
<1>3. view[w].next \in 0..Expected
  BY DEF IInv, Types
<1>4. Span(o) \subseteq Offsets
  BY <1>1, <1>2, <1>3, Sizes DEF Span, Offsets
<1>5. \A a, b \in Int : IsFiniteSet(a..b) /\ Cardinality(a..b) = IF a > b THEN 0 ELSE b - a + 1
  BY FS_Interval
<1> DEFINE last == o + job[o].size - 1
<1>6. o \in Int /\ last \in Int /\ ~(o > last) /\ last - o + 1 = job[o].size /\ Span(o) = o..last
  BY <1>1 DEF Span
<1> QED BY <1>4, <1>5, <1>6

\* A job that moves on or fails adds its bytes to those behind.
LEMMA BehindGrows ==
  ASSUME IInv, NEW o \in Begun, o \notin Jobs(Late), Behind' = Behind \cup Span(o)
  PROVE  /\ Cardinality(Behind') = Cardinality(Behind) + job[o].size
         /\ Cardinality(Behind) <= Cardinality(Behind')
<1>1. Jobs(Late) \subseteq Begun
  BY DEF Jobs, Late, Begun, Started
<1>2. Behind \cap Span(o) = {}
  BY <1>1, SpansApart DEF Behind
<1>3. Span(o) \subseteq Offsets /\ IsFiniteSet(Span(o)) /\ Cardinality(Span(o)) = job[o].size
  BY SpanInside
<1>4. Cardinality(Behind \cup Span(o)) = Cardinality(Behind) + Cardinality(Span(o)) - Cardinality(Behind \cap Span(o))
  BY <1>3, BehindFinite, FS_Union
<1>5. job[o].size \in Nat
  BY DEF IInv, Types, Begun, Jobs
<1>6. Cardinality(Behind \cap Span(o)) = 0
  BY <1>2, FS_EmptySet
<1> QED BY <1>3, <1>4, <1>5, <1>6, BehindFinite

\* The bytes after a step of one job that is right about its own bytes and adds
\* what it has moved to the total.
LEMMA JobBytes ==
  ASSUME IInv, NEW o \in Jobs(Started \ {"new"}), o \notin Jobs(Late),
         NEW label \in {"moving", "counting", "leaving"},
         JobGoes(o, label), UNCHANGED <<view, writerPc, chunk, memory>>, Types', moveError => moveError',
         \A b \in Offsets \ Span(o) : filled'[b] = filled[b],
         \A b \in Span(o) : /\ filled'[b] <= 1
                            /\ label = "moving" => filled'[b] = 0
                            /\ label # "moving" => moveError' \/ filled'[b] = 1,
         label # "leaving" => totalMoved' = totalMoved /\ moveError' = moveError,
         label = "leaving" => (totalMoved' = totalMoved /\ moveError') \/ totalMoved' = totalMoved + job[o].size
  PROVE  Bytes'
<1>0. label \in {"moving", "counting", "leaving", "ending", "over"} /\ UNCHANGED <<view, writerPc, chunk>>
  OBVIOUS
<1>1. /\ Begun' = Begun /\ (\A p \in Offsets : Span(p)' = Span(p))
      /\ \A p \in Offsets : job'[p].size = job[p].size /\ job'[p].step = IF p = o THEN label ELSE job[p].step
  <2>1. Stepped(o, label)
    BY <1>0, JobMoves
  <2> QED BY <2>1 DEF Stepped
<1>2. memory = "own" /\ memory' = "own" /\ o \in Begun /\ o \in Offsets
  BY JobOpen DEF Jobs
<1>3. Begun \subseteq Offsets /\ \A p \in Begun : p # o => Span(p) \cap Span(o) = {}
  BY <1>2, SpansApart DEF Begun, Jobs
<1>4. Span(o) \subseteq Offsets /\ job[o].size \in Nat
  BY <1>2, SpanInside DEF IInv, Types
<1>5. totalMoved' <= Cardinality(Behind') /\ (~moveError' => totalMoved' = Cardinality(Behind'))
  <2>1. totalMoved \in Nat /\ totalMoved <= Cardinality(Behind) /\ (~moveError => totalMoved = Cardinality(Behind))
    BY <1>2 DEF IInv, Types, Bytes
  <2>2. CASE label # "leaving"
    <3>1. Jobs(Late)' = Jobs(Late)
      BY <1>1, <2>2 DEF Jobs, Late, Offsets
    <3>2. Behind' = Behind
      BY <1>1, <3>1 DEF Behind, Offsets, Jobs
    <3> QED BY <2>1, <2>2, <3>2
  <2>3. CASE label = "leaving"
    <3>1. Jobs(Late)' = Jobs(Late) \cup {o}
      BY <1>1, <1>2, <2>3 DEF Jobs, Late, Offsets
    <3>2. Behind' = Behind \cup Span(o)
      BY <1>1, <1>2, <1>4, <3>1 DEF Behind, Offsets, Jobs
    <3>3. Cardinality(Behind') = Cardinality(Behind) + job[o].size
      BY <1>2, <3>2, BehindGrows
    <3> QED BY <1>4, <2>1, <2>3, <3>3, BehindFinite
  <2> QED BY <2>2, <2>3
<1>6. \A b \in Offsets : filled'[b] <= 1
  BY <1>2 DEF IInv, Bytes
<1>7. \A b \in Offsets : filled'[b] = 1 => \E p \in Begun : b \in Span(p)
  BY <1>2 DEF IInv, Bytes
<1>8. \A p \in Jobs({"new", "queued", "moving"})' : \A b \in Span(p) : filled'[b] = 0
  <2> SUFFICES ASSUME NEW p \in Jobs({"new", "queued", "moving"})', NEW b \in Span(p) PROVE filled'[b] = 0
    OBVIOUS
  <2>1. p \in Offsets /\ job'[p].step \in {"new", "queued", "moving"}
    BY DEF Jobs, Offsets
  <2>2. CASE p = o
    BY <1>1, <2>1, <2>2
  <2>3. CASE p # o
    <3>1. p \in Jobs({"new", "queued", "moving"}) /\ p \in Begun
      BY <1>1, <2>1, <2>3 DEF Jobs, Begun, Started
    <3>2. filled[b] = 0 /\ b \in Offsets \ Span(o)
      BY <1>2, <1>3, <2>3, <3>1, SpanInside DEF IInv, Bytes
    <3> QED BY <3>2
  <2> QED BY <2>2, <2>3
<1>9. \A p \in Jobs({"counting"} \cup Late)' : moveError' \/ \A b \in Span(p) : filled'[b] = 1
  <2> SUFFICES ASSUME NEW p \in Jobs({"counting"} \cup Late)', ~moveError', NEW b \in Span(p) PROVE filled'[b] = 1
    OBVIOUS
  <2>1. p \in Offsets /\ job'[p].step \in {"counting"} \cup Late
    BY DEF Jobs, Offsets, Late
  <2>2. CASE p = o
    BY <1>1, <2>1, <2>2 DEF Late
  <2>3. CASE p # o
    <3>1. p \in Jobs({"counting"} \cup Late) /\ p \in Begun
      BY <1>1, <2>1, <2>3 DEF Jobs, Begun, Started, Late
    <3>2. filled[b] = 1 /\ b \in Offsets \ Span(o)
      BY <1>2, <1>3, <2>3, <3>1, SpanInside DEF IInv, Bytes
    <3> QED BY <3>2
  <2> QED BY <2>2, <2>3
<1>10. \A b \in Offsets : filled'[b] = 1 => \E p \in Begun' : b \in Span(p)'
  BY <1>1, <1>3, <1>7
<1>11. \A p \in Jobs({"new", "queued", "moving"})' : \A b \in Span(p)' : filled'[b] = 0
  <2>1. Jobs({"new", "queued", "moving"})' \subseteq Offsets
    BY DEF Jobs, Offsets
  <2> QED BY <1>1, <1>8, <2>1
<1>12. \A p \in Jobs({"counting"} \cup Late)' : moveError' \/ \A b \in Span(p)' : filled'[b] = 1
  <2>1. Jobs({"counting"} \cup Late)' \subseteq Offsets
    BY DEF Jobs, Offsets
  <2> QED BY <1>1, <1>9, <2>1
<1> QED BY <1>2, <1>5, <1>6, <1>10, <1>11, <1>12, Zenon DEF Bytes

LEMMA JobKeeps ==
  ASSUME IInv, NEW o \in Jobs(Started \ {"new", "ending"}), NEW label \in {"moving", "counting", "leaving"},
         JobGoes(o, label),
         UNCHANGED <<view, writerPc, chunk, permits, pending, done, memory, stop, bufferClosed, value>>
  PROVE  /\ Views' /\ Spans' /\ Counted' /\ Closing'
         /\ memory = "own" /\ o \in Begun /\ o \in Offsets
         /\ job' \in [Offsets -> [step : Started \cup {"none", "over"}, size : 0..Expected]]
<1>0. /\ label \in {"moving", "counting", "leaving", "ending", "over"} /\ UNCHANGED <<view, writerPc, chunk>>
      /\ o \in Jobs(Started \ {"new"}) /\ o \in Jobs(Started)
  BY DEF Jobs
<1>1. /\ Views' /\ Spans'
      /\ \A p \in Offsets : job'[p].size = job[p].size /\ job'[p].step = IF p = o THEN label ELSE job[p].step
      /\ job' \in [Offsets -> [step : Started \cup {"none", "over"}, size : 0..Expected]]
  <2>1. Stepped(o, label)
    BY <1>0, JobMoves
  <2> QED BY <2>1 DEF Stepped
<1>2. Jobs(Started)' = Jobs(Started) /\ Jobs(Started \ {"ending"})' = Jobs(Started \ {"ending"})
  BY <1>1 DEF Jobs, Started, Offsets
<1>3. At({"lock"})' = At({"lock"})
  BY DEF At
<1>4. Counted'
  BY <1>2, <1>3 DEF IInv, Counted, PermitsAccounted, PendingExact
<1> QED BY <1>0, <1>1, <1>4, JobOpen

-----------------------------------------------------------------------------
\* Steps of a job.
LEMMA MoveStartsLemma == ASSUME IInv, NEW o \in Offsets, MoveStarts(o) PROVE IInv'
<1> DEFINE label == IF moveError THEN "leaving" ELSE "moving"
<1>1. /\ o \in Jobs(Started \ {"new", "ending"}) /\ o \in Jobs(Started \ {"new"}) /\ o \notin Jobs(Late)
      /\ o \in Jobs({"new", "queued", "moving"}) /\ JobGoes(o, label)
  BY DEF MoveStarts, Jobs, Started, Late
<1>2. /\ label \in {"moving", "counting", "leaving"} /\ label # "counting" /\ (label = "leaving" => moveError)
      /\ UNCHANGED <<view, writerPc, chunk, permits, pending, done, memory, totalMoved, moveError, stop,
                     bufferClosed, value, filled>>
  BY DEF MoveStarts
<1> HIDE DEF label
<1>3. /\ Views' /\ Spans' /\ Counted' /\ Closing' /\ memory = "own"
      /\ job' \in [Offsets -> [step : Started \cup {"none", "over"}, size : 0..Expected]]
  BY <1>1, <1>2, JobKeeps
<1>4. Types'
  BY <1>2, <1>3 DEF IInv, Types
<1>5. \A b \in Span(o) : filled[b] = 0
  BY <1>1, <1>3 DEF IInv, Bytes
<1>6. Bytes'
  BY <1>1, <1>2, <1>4, <1>5, JobBytes
<1> QED BY <1>3, <1>4, <1>6 DEF IInv

LEMMA MovesLemma == ASSUME IInv, NEW o \in Offsets, Moves(o) PROVE IInv'
<1>1. /\ o \in Jobs(Started \ {"new", "ending"}) /\ o \in Jobs(Started \ {"new"}) /\ o \notin Jobs(Late)
      /\ o \in Jobs({"new", "queued", "moving"}) /\ JobGoes(o, "counting")
  BY DEF Moves, Jobs, Started, Late
<1>2. /\ filled' = [b \in Offsets |-> IF b \in Span(o) THEN filled[b] + 1 ELSE filled[b]]
      /\ UNCHANGED <<view, writerPc, chunk, permits, pending, done, memory, totalMoved, moveError, stop,
                     bufferClosed, value>>
  BY DEF Moves, Span
<1>3. /\ Views' /\ Spans' /\ Counted' /\ Closing' /\ memory = "own" /\ o \in Begun
      /\ job' \in [Offsets -> [step : Started \cup {"none", "over"}, size : 0..Expected]]
  BY <1>1, <1>2, JobKeeps
<1>4. Types'
  BY <1>2, <1>3 DEF IInv, Types
<1>5. \A b \in Span(o) : b \in Offsets /\ filled[b] = 0
  BY <1>1, <1>3, SpanInside DEF IInv, Bytes
<1>6. \A b \in Offsets \ Span(o) : filled'[b] = filled[b]
  BY <1>2
<1>7. \A b \in Span(o) : filled'[b] = 1 /\ filled'[b] <= 1
  BY <1>2, <1>5
<1>8. totalMoved' = totalMoved /\ moveError' = moveError /\ UNCHANGED <<view, writerPc, chunk, memory>>
  BY <1>2
<1>9. Bytes'
  BY <1>1, <1>4, <1>6, <1>7, <1>8, JobBytes
<1> QED BY <1>3, <1>4, <1>9 DEF IInv

LEMMA MoveFailsLemma == ASSUME IInv, NEW o \in Offsets, MoveFails(o) PROVE IInv'
<1>1. /\ o \in Jobs(Started \ {"new", "ending"}) /\ o \in Jobs(Started \ {"new"}) /\ o \notin Jobs(Late)
      /\ o \in Jobs({"new", "queued", "moving"}) /\ JobGoes(o, "leaving")
  BY DEF MoveFails, Jobs, Started, Late
<1>2. /\ moveError' = TRUE
      /\ UNCHANGED <<view, writerPc, chunk, permits, pending, done, memory, totalMoved, stop, bufferClosed, value, filled>>
  BY DEF MoveFails
<1>3. /\ Views' /\ Spans' /\ Counted' /\ Closing' /\ memory = "own"
      /\ job' \in [Offsets -> [step : Started \cup {"none", "over"}, size : 0..Expected]]
  BY <1>1, <1>2, JobKeeps
<1>4. Types'
  BY <1>2, <1>3 DEF IInv, Types
<1>5. \A b \in Span(o) : filled'[b] <= 1
  BY <1>1, <1>2, <1>3 DEF IInv, Bytes
<1>6. moveError' /\ totalMoved' = totalMoved /\ filled' = filled /\ UNCHANGED <<view, writerPc, chunk, memory>>
  BY <1>2
<1>7. Bytes'
  BY <1>1, <1>4, <1>5, <1>6, JobBytes
<1> QED BY <1>3, <1>4, <1>7 DEF IInv

LEMMA CountsLemma == ASSUME IInv, NEW o \in Offsets, Counts(o) PROVE IInv'
<1>1. /\ o \in Jobs(Started \ {"new", "ending"}) /\ o \in Jobs(Started \ {"new"}) /\ o \notin Jobs(Late)
      /\ o \in Jobs({"counting"} \cup Late) /\ JobGoes(o, "leaving")
  BY DEF Counts, Jobs, Started, Late
<1>2. /\ totalMoved' = totalMoved + job[o].size
      /\ UNCHANGED <<view, writerPc, chunk, permits, pending, done, memory, moveError, stop, bufferClosed, value, filled>>
  BY DEF Counts
<1>3. /\ Views' /\ Spans' /\ Counted' /\ Closing' /\ memory = "own" /\ o \in Begun
      /\ job' \in [Offsets -> [step : Started \cup {"none", "over"}, size : 0..Expected]]
  BY <1>1, <1>2, JobKeeps
<1>4. Types'
  BY <1>2, <1>3 DEF IInv, Types
<1>5. \A b \in Span(o) : filled[b] <= 1 /\ (moveError \/ filled[b] = 1)
  BY <1>1, <1>3, SpanInside DEF IInv, Bytes
<1>6. Bytes'
  BY <1>1, <1>2, <1>4, <1>5, JobBytes
<1> QED BY <1>3, <1>4, <1>6 DEF IInv

\* The end of a job changes no byte and no total.
LEMMA LateBytes ==
  ASSUME IInv, NEW o \in Jobs({"leaving", "ending"}), NEW label \in {"ending", "over"}, JobGoes(o, label),
         UNCHANGED <<view, writerPc, chunk, memory, totalMoved, moveError, filled>>
  PROVE  /\ Views' /\ Spans' /\ Bytes'
         /\ job' \in [Offsets -> [step : Started \cup {"none", "over"}, size : 0..Expected]]
         /\ \A p \in Offsets : job'[p].step = IF p = o THEN label ELSE job[p].step
<1>0. /\ label \in {"moving", "counting", "leaving", "ending", "over"} /\ UNCHANGED <<view, writerPc, chunk>>
      /\ o \in Jobs(Started \ {"new"}) /\ o \in Jobs(Started)
  BY DEF Jobs, Started
<1>1. /\ Views' /\ Spans' /\ Begun' = Begun /\ (\A p \in Offsets : Span(p)' = Span(p))
      /\ \A p \in Offsets : job'[p].size = job[p].size /\ job'[p].step = IF p = o THEN label ELSE job[p].step
      /\ job' \in [Offsets -> [step : Started \cup {"none", "over"}, size : 0..Expected]]
  <2>1. Stepped(o, label)
    BY <1>0, JobMoves
  <2> QED BY <2>1 DEF Stepped
<1>2. memory = "own" /\ memory' = "own"
  BY <1>0, JobOpen
<1>3. /\ Jobs(Late)' = Jobs(Late) /\ Jobs({"new", "queued", "moving"})' = Jobs({"new", "queued", "moving"})
      /\ Jobs({"counting"} \cup Late)' = Jobs({"counting"} \cup Late)
  <2>0. o \in Offsets /\ job[o].step \in {"leaving", "ending"}
    BY DEF Jobs
  <2>1. \A p \in Offsets : job'[p].step = job[p].step \/ (p = o /\ job'[p].step \in {"ending", "over"})
    BY <1>1
  <2>2. \A p \in Offsets : job'[p].step \in Late <=> job[p].step \in Late
    BY <2>0, <2>1 DEF Late
  <2>3. \A p \in Offsets : job'[p].step \in {"new", "queued", "moving"} <=> job[p].step \in {"new", "queued", "moving"}
    BY <2>0, <2>1
  <2>4. \A p \in Offsets : job'[p].step = "counting" <=> job[p].step = "counting"
    BY <2>0, <2>1
  <2>5. Jobs(Late)' = Jobs(Late)
    BY <2>2 DEF Jobs, Offsets
  <2>6. Jobs({"new", "queued", "moving"})' = Jobs({"new", "queued", "moving"})
    BY <2>3 DEF Jobs, Offsets
  <2>7. Jobs({"counting"} \cup Late)' = Jobs({"counting"} \cup Late)
    BY <2>2, <2>4 DEF Jobs, Offsets
  <2> QED BY <2>5, <2>6, <2>7
<1>5. Behind' = Behind
  BY <1>1, <1>3 DEF Behind, Offsets, Jobs
<1>6. \A b \in Offsets : filled'[b] = 1 => \E p \in Begun' : b \in Span(p)'
  <2>1. Begun \subseteq Offsets
    BY DEF Begun, Jobs
  <2>2. \A b \in Offsets : filled[b] = 1 => \E p \in Begun : b \in Span(p)
    BY <1>2 DEF IInv, Bytes
  <2> QED BY <1>1, <2>1, <2>2
<1>7. \A p \in Jobs({"new", "queued", "moving"})' : \A b \in Span(p)' : filled'[b] = 0
  <2>1. Jobs({"new", "queued", "moving"}) \subseteq Offsets
    BY DEF Jobs
  <2> QED BY <1>1, <1>2, <1>3, <2>1 DEF IInv, Bytes
<1>8. \A p \in Jobs({"counting"} \cup Late)' : moveError' \/ \A b \in Span(p)' : filled'[b] = 1
  <2>1. Jobs({"counting"} \cup Late) \subseteq Offsets
    BY DEF Jobs
  <2>2. CASE moveError
    BY <2>2
  <2>3. CASE ~moveError
    <3>1. \A p \in Jobs({"counting"} \cup Late) : \A b \in Span(p) : filled[b] = 1
      BY <1>2, <2>3 DEF IInv, Bytes
    <3> SUFFICES ASSUME NEW p \in Jobs({"counting"} \cup Late) PROVE \A b \in Span(p)' : filled[b] = 1
      BY <1>3
    <3>2. Span(p)' = Span(p)
      BY <1>1, <2>1
    <3> QED BY <3>1, <3>2
  <2> QED BY <2>2, <2>3
<1>9. /\ totalMoved' <= Cardinality(Behind') /\ (~moveError' => totalMoved' = Cardinality(Behind'))
      /\ \A b \in Offsets : filled'[b] <= 1
  BY <1>2, <1>5 DEF IInv, Bytes
<1>10. Bytes'
  BY <1>2, <1>6, <1>7, <1>8, <1>9, Zenon DEF Bytes
<1> QED BY <1>1, <1>10

LEMMA ReleasesLemma == ASSUME IInv, NEW o \in Offsets, Releases(o) PROVE IInv'
<1>1. /\ o \in Jobs({"leaving", "ending"}) /\ o \in Jobs(Started) /\ job[o].step = "leaving" /\ JobGoes(o, "ending")
      /\ permits' = permits + 1
      /\ UNCHANGED <<view, writerPc, chunk, pending, done, memory, totalMoved, moveError, stop, bufferClosed, value, filled>>
  BY DEF Releases, Jobs, Started
<1>2. /\ Views' /\ Spans' /\ Bytes'
      /\ job' \in [Offsets -> [step : Started \cup {"none", "over"}, size : 0..Expected]]
      /\ \A p \in Offsets : job'[p].step = IF p = o THEN "ending" ELSE job[p].step
  BY <1>1, LateBytes
<1>3. Closing'
  BY <1>1, JobOpen
<1>4. Types'
  BY <1>1, <1>2 DEF IInv, Types
<1>5. Jobs(Started)' = Jobs(Started)
  BY <1>1, <1>2 DEF Jobs, Started, Offsets
<1>6. Jobs(Started \ {"ending"})' = Jobs(Started \ {"ending"}) \ {o} /\ o \in Jobs(Started \ {"ending"})
  BY <1>1, <1>2 DEF Jobs, Started, Offsets
<1>7. Cardinality(Jobs(Started \ {"ending"})') = Cardinality(Jobs(Started \ {"ending"})) - 1
  BY <1>6, JobsFinite, Shrinks
<1>8. At({"lock"})' = At({"lock"})
  BY <1>1 DEF At
<1>9. Counted'
  <2>1. permits \in Int /\ permits >= 0 /\ Cardinality(At({"lock"})) \in Nat /\ Cardinality(Jobs(Started \ {"ending"})) \in Nat
    BY AtFinite, JobsFinite DEF IInv, Types, Counted
  <2>2. PermitsAccounted'
    BY <1>1, <1>7, <1>8, <2>1, Sizes DEF IInv, Counted, PermitsAccounted
  <2>3. PendingExact'
    BY <1>1, <1>5 DEF IInv, Counted, PendingExact
  <2> QED BY <1>1, <2>1, <2>2, <2>3 DEF Counted
<1> QED BY <1>2, <1>3, <1>4, <1>9 DEF IInv

LEMMA EndsLemma == ASSUME IInv, NEW o \in Offsets, Ends(o) PROVE IInv'
<1>1. /\ o \in Jobs({"leaving", "ending"}) /\ o \in Jobs(Started) /\ job[o].step = "ending" /\ JobGoes(o, "over")
      /\ pending' = pending - 1 /\ done' = (done \/ pending = 1)
      /\ UNCHANGED <<view, writerPc, chunk, permits, memory, totalMoved, moveError, stop, bufferClosed, value, filled>>
  BY DEF Ends, Jobs, Started
<1>2. /\ Views' /\ Spans' /\ Bytes'
      /\ job' \in [Offsets -> [step : Started \cup {"none", "over"}, size : 0..Expected]]
      /\ \A p \in Offsets : job'[p].step = IF p = o THEN "over" ELSE job[p].step
  BY <1>1, LateBytes
<1>3. Closing'
  BY <1>1, JobOpen
<1>4. Jobs(Started)' = Jobs(Started) \ {o}
  BY <1>1, <1>2 DEF Jobs, Started, Offsets
<1>5. Jobs(Started \ {"ending"})' = Jobs(Started \ {"ending"})
  BY <1>1, <1>2 DEF Jobs, Started, Offsets
<1>6. Cardinality(Jobs(Started)') = Cardinality(Jobs(Started)) - 1
  BY <1>1, <1>4, JobsFinite, Shrinks
<1>7. IsFiniteSet(Jobs(Started)') /\ Cardinality(Jobs(Started)') \in Nat
  BY <1>4, JobsFinite, FS_RemoveElement, FS_CardinalityType
<1>8. At({"lock"})' = At({"lock"})
  BY <1>1 DEF At
<1>9. pending' \in Nat /\ pending' = Cardinality(Jobs(Started)') /\ pending \in Nat /\ pending = pending' + 1 /\ ~done
  BY <1>1, <1>6, <1>7 DEF IInv, Counted, PendingExact, Types
<1>10. Types'
  BY <1>1, <1>2, <1>9 DEF IInv, Types
<1>11. Counted'
  <2>1. PermitsAccounted'
    BY <1>1, <1>5, <1>8 DEF IInv, Counted, PermitsAccounted
  <2>2. done' <=> pending' = 0
    <3>1. pending = 1 <=> pending' = 0
      BY <1>9
    <3>2. done' <=> (done \/ pending = 1)
      BY <1>1, Zenon
    <3> QED BY <1>9, <3>1, <3>2, Zenon
  <2>3. PendingExact'
    BY <1>9, <2>2 DEF PendingExact
  <2> QED BY <1>1, <2>1, <2>3 DEF IInv, Counted
<1> QED BY <1>2, <1>3, <1>10, <1>11 DEF IInv

-----------------------------------------------------------------------------
\* Steps of a writer that change no job.
LEMMA JobsSame ==
  ASSUME IInv, UNCHANGED <<job, memory, totalMoved, moveError, filled>>
  PROVE  Bytes' /\ Begun' = Begun /\ \A L : Jobs(L)' = Jobs(L)
<1>1. /\ Begun' = Begun /\ \A p : Span(p)' = Span(p)
      /\ \A L : Jobs(L)' = Jobs(L)
  BY DEF Begun, Jobs, Span
<1>2. Behind' = Behind
  BY <1>1 DEF Behind
<1>3. Bytes'
  BY <1>1, <1>2 DEF IInv, Bytes
<1> QED BY <1>1, <1>3

LEMMA GetViewLemma ==
  ASSUME IInv, NEW w \in Writers, NEW from \in Offsets, NEW to \in 1..Expected, GetView(w, from, to) PROVE IInv'
<1>1. /\ view' = [view EXCEPT ![w] = [start |-> from, next |-> from, end |-> to]] /\ view[w] = NoView
      /\ from \in 0..Expected /\ to \in 0..Expected /\ from < to
      /\ \A v \in Writers : view[v].end <= from \/ to <= view[v].start
      /\ UNCHANGED <<writerPc, chunk, job, permits, pending, done, memory, totalMoved, moveError,
                     stop, bufferClosed, value, filled>>
  BY Sizes DEF GetView, Offsets
<1>2. /\ Bytes' /\ Begun' = Begun /\ Jobs(Started)' = Jobs(Started) /\ Jobs(Started \ {"ending"})' = Jobs(Started \ {"ending"})
      /\ \A L : At(L)' = At(L)
  BY <1>1, JobsSame DEF At
<1>3. Types'
  BY <1>1 DEF IInv, Types
<1>4. /\ \A v \in Writers : v # w => view'[v] = view[v]
      /\ view'[w].start = from /\ view'[w].next = from /\ view'[w].end = to
  BY <1>1 DEF IInv, Types
<1>5. writerPc[w] = "out"
  BY <1>1 DEF IInv, Views, Types, NoView
<1>6. Views'
  BY <1>1, <1>4, <1>5, Sizes DEF IInv, Views, Types
<1>7. \A o \in Begun : \E v \in Writers : view'[v].start <= o /\ o + job[o].size <= view'[v].next
  <2> SUFFICES ASSUME NEW o \in Begun PROVE \E v \in Writers : view'[v].start <= o /\ o + job[o].size <= view'[v].next
    OBVIOUS
  <2>1. PICK v \in Writers : view[v].start <= o /\ o + job[o].size <= view[v].next
    BY DEF IInv, Spans
  <2>2. o \in Nat /\ job[o].size \in Nat /\ job[o].size > 0
    BY BegunSize
  <2>3. v # w
    BY <1>1, <2>1, <2>2 DEF NoView
  <2> QED BY <1>4, <2>1, <2>3
<1>8. Spans'
  BY <1>1, <1>2, <1>7 DEF IInv, Spans
<1>9. Counted' /\ Closing'
  BY <1>1, <1>2 DEF IInv, Counted, PermitsAccounted, PendingExact, Closing
<1> QED BY <1>2, <1>3, <1>6, <1>8, <1>9 DEF IInv

LEMMA WriteBeginLemma == ASSUME IInv, NEW w \in Writers, NEW n \in 1..Expected, WriteBegin(w, n) PROVE IInv'
<1>1. /\ writerPc[w] = "out" /\ view[w].next + n <= view[w].end
      /\ chunk' = [chunk EXCEPT ![w] = [at |-> view[w].next, size |-> n]]
      /\ view' = [view EXCEPT ![w].next = @ + n]
      /\ WriterGoes(w, "semaphore")
      /\ UNCHANGED <<job, permits, pending, done, memory, totalMoved, moveError, stop, bufferClosed, value, filled>>
  BY DEF WriteBegin
<1>2. /\ writerPc' \in [Writers -> {"out", "semaphore", "lock", "submit", "moving"}]
      /\ \A v \in Writers : v # w => writerPc'[v] = writerPc[v]
      /\ writerPc'[w] = "semaphore"
  BY <1>1, WriterStep DEF IInv
<1>3. /\ view[w].start \in 0..Expected /\ view[w].next \in 0..Expected /\ view[w].end \in 0..Expected
      /\ view[w].next + n \in 0..Expected /\ n \in 0..Expected /\ n > 0
  BY <1>1, Sizes DEF IInv, Types
<1>4. /\ \A v \in Writers : v # w => view'[v] = view[v] /\ chunk'[v] = chunk[v]
      /\ view'[w].start = view[w].start /\ view'[w].next = view[w].next + n /\ view'[w].end = view[w].end
      /\ chunk'[w].at = view[w].next /\ chunk'[w].size = n
  BY <1>1 DEF IInv, Types
<1>5. Types'
  <2>1. view' \in [Writers -> [start : 0..Expected, next : 0..Expected, end : 0..Expected]]
    BY <1>1, <1>3 DEF IInv, Types
  <2>2. chunk' \in [Writers -> [at : 0..Expected, size : 0..Expected]]
    BY <1>1, <1>3 DEF IInv, Types
  <2> QED BY <1>1, <1>2, <2>1, <2>2 DEF IInv, Types
<1>6. Views'
  <2>1. /\ \A v \in Writers : view'[v].start <= view'[v].next /\ view'[v].next <= view'[v].end
        /\ \A v \in Writers : view'[v].start = view[v].start /\ view'[v].end = view[v].end
    BY <1>1, <1>3, <1>4 DEF IInv, Views
  <2>2. \A v \in Writers : writerPc'[v] # "out" =>
          chunk'[v].size > 0 /\ view'[v].start <= chunk'[v].at /\ chunk'[v].at + chunk'[v].size = view'[v].next
    BY <1>1, <1>2, <1>3, <1>4 DEF IInv, Views
  <2> QED BY <2>1, <2>2 DEF IInv, Views
<1>7. /\ Bytes' /\ Begun' = Begun /\ Jobs(Started)' = Jobs(Started) /\ Jobs(Started \ {"ending"})' = Jobs(Started \ {"ending"})
  BY <1>1, JobsSame
<1>8. /\ At({"semaphore", "lock"})' = At({"semaphore", "lock"}) \cup {w} /\ At({"lock"})' = At({"lock"})
      /\ At({"submit"})' = At({"submit"}) /\ At({"moving"})' = At({"moving"})
      /\ w \notin At({"submit"}) /\ w \notin At({"moving"}) /\ w \notin At({"semaphore", "lock"})
  BY <1>1, <1>2 DEF At
<1>9. ASSUME NEW o \in Begun
      PROVE  /\ \E v \in Writers : view'[v].start <= o /\ o + job[o].size <= view'[v].next
             /\ o + job[o].size <= view[w].next \/ view[w].next + n <= o
  <2>1. PICK v \in Writers : view[v].start <= o /\ o + job[o].size <= view[v].next
    BY DEF IInv, Spans
  <2>2. o \in Nat /\ job[o].size \in Nat /\ job[o].size > 0
    BY BegunSize
  <2>3. CASE v = w
    BY <1>3, <1>4, <2>1, <2>2, <2>3
  <2>4. CASE v # w
    <3>1. view[v].start \in 0..Expected /\ view[v].next \in 0..Expected /\ view[v].end \in 0..Expected
      BY DEF IInv, Types
    <3>2. view[v].end <= view[w].start \/ view[w].end <= view[v].start
      BY <2>4 DEF IInv, Views
    <3>3. view[v].next <= view[v].end /\ view[w].start <= view[w].next
      BY DEF IInv, Views
    <3> QED BY <1>1, <1>3, <1>4, <2>1, <2>2, <2>4, <3>1, <3>2, <3>3
  <2> QED BY <2>3, <2>4
<1>10. Spans'
  <2>1. At({"semaphore", "lock"}) \subseteq Writers /\ At({"submit"}) \subseteq Writers /\ At({"moving"}) \subseteq Writers
    BY DEF At
  <2> QED BY <1>1, <1>4, <1>7, <1>8, <1>9, <2>1 DEF IInv, Spans
<1>11. Counted' /\ Closing'
  BY <1>1, <1>7, <1>8 DEF IInv, Counted, PermitsAccounted, PendingExact, Closing
<1> QED BY <1>5, <1>6, <1>7, <1>10, <1>11 DEF IInv

\* A writer that takes a permit, or leaves.
LEMMA WriterKeeps ==
  ASSUME IInv, NEW w \in Writers, NEW label \in {"lock", "out"}, WriterGoes(w, label),
         label = "lock" => writerPc[w] = "semaphore", UNCHANGED <<view, chunk, job>>
  PROVE  /\ Views' /\ Spans' /\ Begun' = Begun
         /\ Jobs(Started)' = Jobs(Started) /\ Jobs(Started \ {"ending"})' = Jobs(Started \ {"ending"})
         /\ writerPc' \in [Writers -> {"out", "semaphore", "lock", "submit", "moving"}]
         /\ At({"lock"})' = IF label = "lock" THEN At({"lock"}) \cup {w} ELSE At({"lock"}) \ {w}
<1>1. /\ writerPc' \in [Writers -> {"out", "semaphore", "lock", "submit", "moving"}]
      /\ \A v \in Writers : v # w => writerPc'[v] = writerPc[v]
      /\ writerPc'[w] = label
  BY WriterStep DEF IInv
<1>2. /\ Begun' = Begun
      /\ Jobs(Started)' = Jobs(Started) /\ Jobs(Started \ {"ending"})' = Jobs(Started \ {"ending"})
  BY DEF Begun, Jobs
<1>3. Views'
  BY <1>1 DEF IInv, Views
<1>4. /\ At({"semaphore", "lock"})' \subseteq At({"semaphore", "lock"})
      /\ At({"submit"})' \subseteq At({"submit"}) /\ At({"moving"})' \subseteq At({"moving"})
      /\ At({"lock"})' = IF label = "lock" THEN At({"lock"}) \cup {w} ELSE At({"lock"}) \ {w}
  BY <1>1 DEF At
<1>5. Spans'
  BY <1>2, <1>4 DEF IInv, Spans
<1> QED BY <1>1, <1>2, <1>3, <1>4, <1>5

LEMMA AcquirePermitLemma == ASSUME IInv, NEW w \in Writers, AcquirePermit(w) PROVE IInv'
<1>1. /\ writerPc[w] = "semaphore" /\ permits > 0 /\ permits' = permits - 1 /\ WriterGoes(w, "lock")
      /\ UNCHANGED <<view, chunk, job, pending, done, memory, totalMoved, moveError, stop, bufferClosed, value, filled>>
  BY DEF AcquirePermit
<1>2. /\ Views' /\ Spans' /\ Begun' = Begun
      /\ Jobs(Started)' = Jobs(Started) /\ Jobs(Started \ {"ending"})' = Jobs(Started \ {"ending"})
      /\ writerPc' \in [Writers -> {"out", "semaphore", "lock", "submit", "moving"}]
      /\ At({"lock"})' = At({"lock"}) \cup {w}
  BY <1>1, WriterKeeps
<1>3. Bytes'
  BY <1>1, JobsSame
<1>4. w \notin At({"lock"})
  BY <1>1 DEF At
<1>5. Cardinality(At({"lock"})') = Cardinality(At({"lock"})) + 1
  BY <1>2, <1>4, AtFinite, Grows
<1>6. permits \in Int /\ Cardinality(At({"lock"})) \in Nat /\ Cardinality(Jobs(Started \ {"ending"})) \in Nat
  BY AtFinite, JobsFinite DEF IInv, Types
<1>7. Types'
  BY <1>1, <1>2 DEF IInv, Types
<1>8. PermitsAccounted' /\ permits' >= 0
  BY <1>1, <1>2, <1>5, <1>6, Sizes DEF IInv, Counted, PermitsAccounted
<1>9. PendingExact' /\ Closing'
  BY <1>1, <1>2 DEF IInv, Counted, PendingExact, Closing
<1> QED BY <1>2, <1>3, <1>7, <1>8, <1>9 DEF IInv, Counted

\* The permit that a writer gives back when it leaves.
LEMMA Leaves ==
  ASSUME IInv, NEW w \in Writers, writerPc[w] = "lock", WriterGoes(w, "out"), permits' = permits + 1,
         UNCHANGED <<view, chunk, job, pending, done>>
  PROVE  Counted'
<1>1. /\ Jobs(Started)' = Jobs(Started) /\ Jobs(Started \ {"ending"})' = Jobs(Started \ {"ending"})
      /\ At({"lock"})' = At({"lock"}) \ {w}
  BY WriterKeeps
<1>2. w \in At({"lock"})
  BY DEF At
<1>3. Cardinality(At({"lock"})') = Cardinality(At({"lock"})) - 1
  BY <1>1, <1>2, AtFinite, Shrinks
<1>4. permits \in Int /\ Cardinality(At({"lock"})) \in Nat /\ Cardinality(Jobs(Started \ {"ending"})) \in Nat
  BY AtFinite, JobsFinite DEF IInv, Types
<1>5. PermitsAccounted' /\ permits' >= 0
  BY <1>1, <1>3, <1>4, Sizes DEF IInv, Counted, PermitsAccounted
<1>6. PendingExact'
  BY <1>1 DEF IInv, Counted, PendingExact
<1> QED BY <1>5, <1>6 DEF Counted

LEMMA RefuseLemma == ASSUME IInv, NEW w \in Writers, Refuse(w) PROVE IInv'
<1>1. /\ writerPc[w] = "lock" /\ permits' = permits + 1 /\ WriterGoes(w, "out")
      /\ UNCHANGED <<view, chunk, job, pending, done, memory, totalMoved, moveError, stop, bufferClosed, value, filled>>
  BY DEF Refuse
<1>2. /\ Views' /\ Spans' /\ Jobs(Started)' = Jobs(Started)
      /\ writerPc' \in [Writers -> {"out", "semaphore", "lock", "submit", "moving"}]
  BY <1>1, WriterKeeps
<1>3. Bytes' /\ Counted'
  BY <1>1, JobsSame, Leaves
<1>4. Types'
  BY <1>1, <1>2 DEF IInv, Types
<1>5. Closing'
  BY <1>1, <1>2 DEF IInv, Closing
<1> QED BY <1>2, <1>3, <1>4, <1>5 DEF IInv

LEMMA ZeroCopyLemma == ASSUME IInv, NEW w \in Writers, ZeroCopy(w) PROVE IInv'
<1>1. /\ writerPc[w] = "lock" /\ memory = "none" /\ ~bufferClosed /\ memory' = "theirs" /\ permits' = permits + 1
      /\ totalMoved' = totalMoved + Expected /\ filled' = [o \in Offsets |-> filled[o] + 1] /\ WriterGoes(w, "out")
      /\ UNCHANGED <<view, chunk, job, pending, done, moveError, stop, bufferClosed, value>>
  BY DEF ZeroCopy, Whole, Refused
<1>2. /\ Views' /\ Spans' /\ Begun' = Begun
      /\ writerPc' \in [Writers -> {"out", "semaphore", "lock", "submit", "moving"}]
  BY <1>1, WriterKeeps
<1>3. Counted'
  BY <1>1, Leaves
<1>4. Begun = {} /\ totalMoved = 0 /\ \A b \in Offsets : filled[b] = 0
  BY <1>1 DEF IInv, Bytes
<1>5. totalMoved' = Expected /\ (\A b \in Offsets : filled'[b] = 1) /\ filled' \in [Offsets -> Nat]
  BY <1>1, <1>4, Sizes
<1>6. Bytes'
  BY <1>1, <1>2, <1>4, <1>5 DEF Bytes
<1>7. Types'
  BY <1>1, <1>2, <1>5, Sizes DEF IInv, Types
<1>8. Closing'
  BY <1>1 DEF IInv, Closing
<1> QED BY <1>2, <1>3, <1>6, <1>7, <1>8 DEF IInv

LEMMA WriteReturnsLemma == ASSUME IInv, NEW w \in Writers, WriteReturns(w) PROVE IInv'
<1>1. /\ writerPc[w] = "moving" /\ WriterGoes(w, "out")
      /\ UNCHANGED <<view, chunk, job, permits, pending, done, memory, totalMoved, moveError, stop, bufferClosed, value, filled>>
  BY DEF WriteReturns
<1>2. /\ Views' /\ Spans' /\ Jobs(Started)' = Jobs(Started) /\ Jobs(Started \ {"ending"})' = Jobs(Started \ {"ending"})
      /\ writerPc' \in [Writers -> {"out", "semaphore", "lock", "submit", "moving"}]
      /\ At({"lock"})' = At({"lock"}) \ {w}
  BY <1>1, WriterKeeps
<1>3. At({"lock"})' = At({"lock"})
  BY <1>1, <1>2 DEF At
<1>4. Bytes'
  BY <1>1, JobsSame
<1>5. Types'
  BY <1>1, <1>2 DEF IInv, Types
<1>6. Counted' /\ Closing'
  BY <1>1, <1>2, <1>3 DEF IInv, Counted, PermitsAccounted, PendingExact, Closing
<1> QED BY <1>2, <1>4, <1>5, <1>6 DEF IInv

\* The chunk of a writer lies inside the buffer, and beside those of the others.
LEMMA ChunkPlace ==
  ASSUME IInv, NEW w \in Writers, writerPc[w] # "out"
  PROVE  /\ chunk[w].at \in Offsets /\ chunk[w].at \in Nat /\ chunk[w].size \in 1..Expected
         /\ view[w].start <= chunk[w].at /\ chunk[w].at + chunk[w].size = view[w].next
<1>1. /\ chunk[w].at \in 0..Expected /\ chunk[w].size \in 0..Expected /\ view[w].next \in 0..Expected
      /\ chunk[w].size > 0 /\ view[w].start <= chunk[w].at /\ chunk[w].at + chunk[w].size = view[w].next
  BY DEF IInv, Types, Views
<1> QED BY <1>1, Sizes DEF Offsets

LEMMA ChunksApart ==
  ASSUME IInv, NEW v \in Writers, NEW w \in Writers, v # w, writerPc[v] # "out", writerPc[w] # "out"
  PROVE  chunk[v].at + chunk[v].size <= chunk[w].at \/ chunk[w].at + chunk[w].size <= chunk[v].at
<1>1. /\ view[v].start \in 0..Expected /\ view[v].next \in 0..Expected /\ view[v].end \in 0..Expected
      /\ view[w].start \in 0..Expected /\ view[w].next \in 0..Expected /\ view[w].end \in 0..Expected
  BY DEF IInv, Types
<1>2. /\ view[v].end <= view[w].start \/ view[w].end <= view[v].start
      /\ view[v].next <= view[v].end /\ view[w].next <= view[w].end
  BY DEF IInv, Views
<1> QED BY <1>1, <1>2, ChunkPlace, Sizes

LEMMA EnterMoveLemma == ASSUME IInv, NEW w \in Writers, EnterMove(w) PROVE IInv'
<1> DEFINE at == chunk[w].at
<1> DEFINE size == chunk[w].size
<1> DEFINE step == IF size <= Threshold THEN "queued" ELSE "new"
<1> DEFINE label == IF size <= Threshold THEN "moving" ELSE "submit"
<1>1. /\ writerPc[w] = "lock" /\ ~bufferClosed /\ memory # "theirs" /\ memory' = "own"
      /\ pending' = pending + 1 /\ done' = FALSE
      /\ job' = [job EXCEPT ![at] = [step |-> step, size |-> size]]
      /\ WriterGoes(w, label)
      /\ UNCHANGED <<view, chunk, permits, totalMoved, moveError, stop, bufferClosed, value, filled>>
  BY DEF EnterMove, Refused
<1>2. /\ step \in {"queued", "new"} /\ label \in {"submit", "moving"} /\ (label = "submit" <=> step = "new")
  OBVIOUS
<1>3. /\ at \in Offsets /\ at \in Nat /\ size \in 1..Expected /\ size \in Nat /\ size > 0
      /\ view[w].start <= at /\ at + size = view[w].next
  BY <1>1, ChunkPlace, Sizes
<1>4. \A v \in Writers : v # w /\ writerPc[v] # "out" =>
        chunk[v].at # at /\ (at + size <= chunk[v].at \/ chunk[v].at + chunk[v].size <= at)
  <2> SUFFICES ASSUME NEW v \in Writers, v # w, writerPc[v] # "out"
               PROVE chunk[v].at # at /\ (at + size <= chunk[v].at \/ chunk[v].at + chunk[v].size <= at)
    OBVIOUS
  <2>1. at + size <= chunk[v].at \/ chunk[v].at + chunk[v].size <= at
    BY <1>1, ChunksApart
  <2>2. chunk[v].at \in Nat /\ chunk[v].size \in 1..Expected
    BY ChunkPlace
  <2> QED BY <1>3, <2>1, <2>2, Sizes
<1>5. \A o \in Begun : o + job[o].size <= at \/ at + size <= o
  BY <1>1 DEF IInv, Spans, At
<1>6. at \notin Begun
  BY <1>3, <1>5, BegunSize
<1> HIDE DEF at, size, step, label
<1>7. /\ job' \in [Offsets -> [step : Started \cup {"none", "over"}, size : 0..Expected]]
      /\ \A p \in Offsets : p # at => job'[p] = job[p]
      /\ job'[at].step = step /\ job'[at].size = size
  BY <1>1, <1>2, <1>3 DEF IInv, Types, Started
<1>8. /\ writerPc' \in [Writers -> {"out", "semaphore", "lock", "submit", "moving"}]
      /\ \A v \in Writers : v # w => writerPc'[v] = writerPc[v]
      /\ writerPc'[w] = label
  BY <1>1, <1>2, WriterStep DEF IInv
<1>9. /\ Begun' = Begun \cup {at} /\ Jobs(Started)' = Jobs(Started) \cup {at}
      /\ Jobs(Started \ {"ending"})' = Jobs(Started \ {"ending"}) \cup {at}
      /\ at \notin Jobs(Started) /\ at \notin Jobs(Started \ {"ending"}) /\ Begun \subseteq Offsets
  BY <1>2, <1>3, <1>6, <1>7 DEF Begun, Jobs, Started, Offsets
<1>10. /\ At({"semaphore", "lock"})' = At({"semaphore", "lock"}) \ {w} /\ At({"lock"})' = At({"lock"}) \ {w}
       /\ w \in At({"lock"})
  BY <1>1, <1>2, <1>8 DEF At
<1>11. Types'
  <2>1. pending' \in Nat
    BY <1>1 DEF IInv, Types
  <2>2. done' = FALSE /\ memory' = "own" /\ UNCHANGED <<view, chunk, permits, totalMoved, moveError, stop, bufferClosed, value, filled>>
    BY <1>1
  <2> QED BY <1>7, <1>8, <2>1, <2>2 DEF IInv, Types
<1>12. Views'
  BY <1>1, <1>8 DEF IInv, Views
<1>13. Spans'
  <2>1. \A o \in Begun' : job'[o].size > 0
    BY <1>3, <1>6, <1>7, <1>9 DEF IInv, Spans
  <2>2. \A o \in Begun' : \E v \in Writers : view'[v].start <= o /\ o + job'[o].size <= view'[v].next
    <3>1. view'[w].start <= at /\ at + job'[at].size <= view'[w].next
      <4>1. view[w].next \in 0..Expected
        BY DEF IInv, Types
      <4> QED BY <1>1, <1>3, <1>7, <4>1
    <3>2. \A o \in Begun : \E v \in Writers : view'[v].start <= o /\ o + job'[o].size <= view'[v].next
      BY <1>1, <1>6, <1>7, <1>9 DEF IInv, Spans
    <3> QED BY <1>9, <3>1, <3>2
  <2>3. \A o, p \in Begun' : o < p => o + job'[o].size <= p
    <3> SUFFICES ASSUME NEW o \in Begun', NEW p \in Begun', o < p PROVE o + job'[o].size <= p
      OBVIOUS
    <3>1. CASE o # at /\ p # at
      BY <1>7, <1>9, <3>1 DEF IInv, Spans
    <3>2. CASE o = at /\ p # at
      <4>1. p \in Begun /\ (p + job[p].size <= at \/ at + size <= p)
        BY <1>5, <1>9, <3>2
      <4> QED BY <1>3, <1>7, <3>2, <4>1, BegunSize
    <3>3. CASE o # at /\ p = at
      <4>1. o \in Begun /\ (o + job[o].size <= at \/ at + size <= o) /\ o \in Offsets
        BY <1>5, <1>9, <3>3
      <4> QED BY <1>3, <1>7, <3>3, <4>1, BegunSize
    <3> QED BY <1>3, <3>1, <3>2, <3>3
  <2>4. \A v \in At({"semaphore", "lock"})', o \in Begun' :
          o + job'[o].size <= chunk'[v].at \/ chunk'[v].at + chunk'[v].size <= o
    <3> SUFFICES ASSUME NEW v \in At({"semaphore", "lock"}) \ {w}, NEW o \in Begun \cup {at}
                 PROVE  o + job'[o].size <= chunk[v].at \/ chunk[v].at + chunk[v].size <= o
      BY <1>1, <1>9, <1>10
    <3>1. CASE o = at
      BY <1>4, <1>7, <3>1 DEF At
    <3>2. CASE o # at
      BY <1>7, <1>9, <3>2 DEF IInv, Spans
    <3> QED BY <3>1, <3>2
  <2>5. \A v \in At({"submit"})' : job'[chunk'[v].at].step = "new"
    <3> SUFFICES ASSUME NEW v \in Writers, writerPc'[v] = "submit" PROVE job'[chunk[v].at].step = "new"
      BY <1>1 DEF At
    <3>1. CASE v = w
      BY <1>2, <1>7, <1>8, <3>1 DEF at
    <3>2. CASE v # w
      <4>1. v \in At({"submit"}) /\ chunk[v].at # at
        BY <1>4, <1>8, <3>2 DEF At
      <4>2. chunk[v].at \in Offsets
        BY <4>1, ChunkPlace DEF At
      <4> QED BY <1>7, <4>1, <4>2 DEF IInv, Spans
    <3> QED BY <3>1, <3>2
  <2>6. \A v \in At({"moving"})' : chunk'[v].at \in Begun' /\ job'[chunk'[v].at].step # "new"
    <3> SUFFICES ASSUME NEW v \in Writers, writerPc'[v] = "moving"
                 PROVE chunk[v].at \in Begun' /\ job'[chunk[v].at].step # "new"
      BY <1>1 DEF At
    <3>1. CASE v = w
      BY <1>2, <1>7, <1>8, <1>9, <3>1 DEF at
    <3>2. CASE v # w
      <4>1. v \in At({"moving"}) /\ chunk[v].at # at
        BY <1>4, <1>8, <3>2 DEF At
      <4>2. chunk[v].at \in Offsets
        BY <4>1, ChunkPlace DEF At
      <4> QED BY <1>7, <1>9, <4>1, <4>2 DEF IInv, Spans
    <3> QED BY <3>1, <3>2
  <2> QED BY <2>1, <2>2, <2>3, <2>4, <2>5, <2>6 DEF Spans
<1>14. Counted'
  <2>1. Cardinality(At({"lock"})') = Cardinality(At({"lock"})) - 1
    BY <1>10, AtFinite, Shrinks
  <2>2. Cardinality(Jobs(Started \ {"ending"})') = Cardinality(Jobs(Started \ {"ending"})) + 1
    BY <1>9, JobsFinite, Grows
  <2>3. Cardinality(Jobs(Started)') = Cardinality(Jobs(Started)) + 1
    BY <1>9, JobsFinite, Grows
  <2>4. permits \in Int /\ Cardinality(At({"lock"})) \in Nat /\ Cardinality(Jobs(Started \ {"ending"})) \in Nat /\ pending \in Nat
    BY AtFinite, JobsFinite DEF IInv, Types
  <2>5. PermitsAccounted' /\ permits' >= 0
    BY <1>1, <2>1, <2>2, <2>4, Sizes DEF IInv, Counted, PermitsAccounted
  <2>6. pending' = Cardinality(Jobs(Started)') /\ pending' # 0
    BY <1>1, <2>3, <2>4 DEF IInv, Counted, PendingExact
  <2>7. PendingExact'
    BY <1>1, <2>6 DEF PendingExact
  <2> QED BY <2>5, <2>7 DEF Counted
<1>15. Closing'
  BY <1>1 DEF IInv, Closing
<1>16. Bytes'
  <2>1. \A p \in Offsets : p # at => Span(p)' = Span(p)
    BY <1>7 DEF Span
  <2>2. \A p \in Offsets : p = at => Span(p)' = at..(at + size - 1)
    BY <1>7 DEF Span
  <2>3. Jobs(Late)' = Jobs(Late) /\ at \notin Jobs(Late) /\ Jobs(Late) \subseteq Begun
    BY <1>2, <1>3, <1>6, <1>7 DEF Jobs, Late, Begun, Started, Offsets
  <2>4. Behind' = Behind
    <3>1. \A b : (\E o \in Jobs(Late)' : b \in Span(o)') <=> (\E o \in Jobs(Late) : b \in Span(o))
      BY <1>9, <2>1, <2>3
    <3>2. Behind' = {b \in Offsets : \E o \in Jobs(Late)' : b \in Span(o)'}
      BY DEF Behind, Offsets
    <3> QED BY <3>1, <3>2 DEF Behind
  <2>5. totalMoved <= Cardinality(Behind) /\ (~moveError => totalMoved = Cardinality(Behind))
    <3>1. CASE memory = "own"
      BY <3>1 DEF IInv, Bytes
    <3>2. CASE memory = "none"
      <4>1. Begun = {} /\ totalMoved = 0
        BY <3>2 DEF IInv, Bytes
      <4>2. Behind = {}
        BY <2>3, <4>1 DEF Behind
      <4> QED BY <4>1, <4>2, FS_EmptySet
    <3> QED BY <1>1, <3>1, <3>2 DEF IInv, Types
  <2>6. \A b \in Offsets : filled[b] <= 1 /\ (filled[b] = 1 => \E o \in Begun : b \in Span(o))
    <3>1. CASE memory = "own"
      BY <3>1 DEF IInv, Bytes
    <3>2. CASE memory = "none"
      BY <3>2 DEF IInv, Bytes
    <3> QED BY <1>1, <3>1, <3>2 DEF IInv, Types
  <2>7. \A b \in Offsets : filled'[b] = 1 => \E o \in Begun' : b \in Span(o)'
    BY <1>1, <1>6, <1>9, <2>1, <2>6
  <2>8. \A b \in at..(at + size - 1) : filled[b] = 0
    <3> SUFFICES ASSUME NEW b \in at..(at + size - 1) PROVE filled[b] = 0
      OBVIOUS
    <3>1. b \in Offsets
      <4>1. view[w].next \in 0..Expected
        BY DEF IInv, Types
      <4> QED BY <1>3, <4>1, Sizes DEF Offsets
    <3>2. \A o \in Begun : b \notin Span(o)
      <4> SUFFICES ASSUME NEW o \in Begun, b \in Span(o) PROVE FALSE
        OBVIOUS
      <4>1. b \in Nat /\ b < o + job[o].size /\ o <= b /\ b < at + size /\ at <= b
        BY <1>3, BegunSize DEF Span
      <4> QED BY <1>3, <1>5, <4>1, BegunSize
    <3>3. filled[b] \in Nat /\ filled[b] <= 1 /\ filled[b] # 1
      BY <2>6, <3>1, <3>2 DEF IInv, Types
    <3> QED BY <3>3
  <2>9. \A p \in Jobs({"new", "queued", "moving"})' : \A b \in Span(p)' : filled'[b] = 0
    <3> SUFFICES ASSUME NEW p \in Jobs({"new", "queued", "moving"})' PROVE \A b \in Span(p)' : filled[b] = 0
      BY <1>1
    <3>1. CASE p = at
      BY <1>3, <2>2, <2>8, <3>1
    <3>2. CASE p # at
      <4>1. p \in Jobs({"new", "queued", "moving"}) /\ p \in Offsets /\ p \in Begun
        BY <1>7, <3>2 DEF Jobs, Offsets, Begun, Started
      <4>2. memory = "own"
        BY <4>1 DEF IInv, Bytes
      <4> QED BY <2>1, <3>2, <4>1, <4>2 DEF IInv, Bytes
    <3> QED BY <3>1, <3>2
  <2>10. \A p \in Jobs({"counting"} \cup Late)' : moveError' \/ \A b \in Span(p)' : filled'[b] = 1
    <3> SUFFICES ASSUME NEW p \in Jobs({"counting"} \cup Late)', ~moveError PROVE \A b \in Span(p)' : filled[b] = 1
      BY <1>1
    <3>1. p # at
      BY <1>2, <1>7 DEF Jobs, Late
    <3>2. p \in Jobs({"counting"} \cup Late) /\ p \in Offsets /\ p \in Begun
      BY <1>7, <3>1 DEF Jobs, Offsets, Begun, Started, Late
    <3>3. memory = "own"
      BY <3>2 DEF IInv, Bytes
    <3> QED BY <2>1, <3>1, <3>2, <3>3 DEF IInv, Bytes
  <2>11. /\ totalMoved' <= Cardinality(Behind') /\ (~moveError' => totalMoved' = Cardinality(Behind'))
         /\ \A b \in Offsets : filled'[b] <= 1
    BY <1>1, <2>4, <2>5, <2>6
  <2> QED BY <1>1, <2>7, <2>9, <2>10, <2>11, Zenon DEF Bytes
<1> QED BY <1>11, <1>12, <1>13, <1>14, <1>15, <1>16 DEF IInv

\* A writer hands its job on, or has to clean up after it.
LEMMA Submits ==
  ASSUME IInv, NEW w \in Writers, writerPc[w] = "submit", NEW label \in {"queued", "leaving"},
         JobGoes(chunk[w].at, label), WriterGoes(w, IF label = "queued" THEN "out" ELSE "moving"),
         moveError' \in BOOLEAN, label = "leaving" => moveError', label = "queued" => (moveError' <=> moveError),
         UNCHANGED <<view, chunk, permits, pending, done, memory, totalMoved, stop, bufferClosed, value, filled>>
  PROVE  IInv'
<1> DEFINE at == chunk[w].at
<1> DEFINE goes == IF label = "queued" THEN "out" ELSE "moving"
<1>1. /\ at \in Offsets /\ job[at].step = "new"
      /\ \A v \in Writers : v # w /\ writerPc[v] # "out" => chunk[v].at \in Offsets /\ chunk[v].at # at
  <2>1. at \in Offsets /\ job[at].step = "new"
    BY ChunkPlace DEF IInv, Spans, At
  <2>2. ASSUME NEW v \in Writers, v # w, writerPc[v] # "out" PROVE chunk[v].at \in Offsets /\ chunk[v].at # at
    <3>1. /\ chunk[v].at \in Offsets /\ chunk[v].at \in Nat /\ chunk[v].size \in 1..Expected
          /\ chunk[w].at \in Nat /\ chunk[w].size \in 1..Expected
      BY <2>2, ChunkPlace
    <3>2. chunk[v].at + chunk[v].size <= chunk[w].at \/ chunk[w].at + chunk[w].size <= chunk[v].at
      BY <2>2, ChunksApart
    <3> QED BY <3>1, <3>2, Sizes
  <2> QED BY <2>1, <2>2
<1>2. goes \in {"out", "moving"} /\ (goes = "moving" <=> label = "leaving") /\ WriterGoes(w, goes) /\ JobGoes(at, label)
  OBVIOUS
<1> HIDE DEF at, goes
<1>3. /\ job' \in [Offsets -> [step : Started \cup {"none", "over"}, size : 0..Expected]]
      /\ \A p \in Offsets : job'[p].size = job[p].size
      /\ \A p \in Offsets : p # at => job'[p].step = job[p].step
      /\ job'[at].step = label
  BY <1>1, <1>2, JobStep DEF IInv, Started
<1>4. /\ writerPc' \in [Writers -> {"out", "semaphore", "lock", "submit", "moving"}]
      /\ \A v \in Writers : v # w => writerPc'[v] = writerPc[v]
      /\ writerPc'[w] = goes
  BY <1>2, WriterStep DEF IInv
<1>5. /\ Begun' = Begun /\ Jobs(Started)' = Jobs(Started)
      /\ Jobs(Started \ {"ending"})' = Jobs(Started \ {"ending"}) /\ Begun \subseteq Offsets
      /\ at \in Begun /\ at \in Jobs(Started)
  BY <1>1, <1>3 DEF Begun, Jobs, Started, Offsets
<1>6. /\ At({"semaphore", "lock"})' = At({"semaphore", "lock"}) /\ At({"lock"})' = At({"lock"})
  BY <1>2, <1>4 DEF At
<1>7. Types'
  <2>1. moveError' \in BOOLEAN
    OBVIOUS
  <2> QED BY <1>3, <1>4, <2>1 DEF IInv, Types
<1>8. Views'
  BY <1>4 DEF IInv, Views
<1>9. Spans'
  <2>1. \A v \in At({"submit"})' : job'[chunk'[v].at].step = "new"
    <3> SUFFICES ASSUME NEW v \in Writers, writerPc'[v] = "submit" PROVE job'[chunk[v].at].step = "new"
      BY DEF At
    <3>1. v # w /\ v \in At({"submit"}) /\ writerPc[v] # "out"
      BY <1>2, <1>4 DEF At
    <3> QED BY <1>1, <1>3, <3>1 DEF IInv, Spans
  <2>2. \A v \in At({"moving"})' : chunk'[v].at \in Begun' /\ job'[chunk'[v].at].step # "new"
    <3> SUFFICES ASSUME NEW v \in Writers, writerPc'[v] = "moving"
                 PROVE chunk[v].at \in Begun /\ job'[chunk[v].at].step # "new"
      BY <1>5 DEF At
    <3>1. CASE v = w
      BY <1>3, <1>5, <3>1 DEF at
    <3>2. CASE v # w
      <4>1. v \in At({"moving"}) /\ writerPc[v] # "out"
        BY <1>4, <3>2 DEF At
      <4> QED BY <1>1, <1>3, <3>2, <4>1 DEF IInv, Spans
    <3> QED BY <3>1, <3>2
  <2> QED BY <1>3, <1>5, <1>6, <2>1, <2>2 DEF IInv, Spans
<1>10. Counted'
  BY <1>5, <1>6 DEF IInv, Counted, PermitsAccounted, PendingExact
<1>11. ~bufferClosed /\ value = "none" /\ memory = "own" /\ Closing'
  BY <1>5, JobOpen
<1>12. \A p \in Offsets : Span(p)' = Span(p)
  BY <1>3 DEF Span
<1>13. /\ totalMoved' <= Cardinality(Behind') /\ (~moveError' => totalMoved' = Cardinality(Behind'))
  <2>1. totalMoved \in Nat /\ totalMoved <= Cardinality(Behind) /\ (~moveError => totalMoved = Cardinality(Behind))
    BY <1>11 DEF IInv, Types, Bytes
  <2>2. Jobs(Late) \subseteq Offsets /\ at \notin Jobs(Late)
    BY <1>1 DEF Jobs, Late
  <2>3. Jobs(Late)' = IF label = "leaving" THEN Jobs(Late) \cup {at} ELSE Jobs(Late)
    BY <1>1, <1>3 DEF Jobs, Late, Offsets
  <2>4. Behind' = {b \in Offsets : \E o \in Jobs(Late)' : b \in Span(o)'}
    BY DEF Behind, Offsets
  <2>5. CASE label = "queued"
    <3>1. Behind' = Behind
      BY <1>12, <2>2, <2>3, <2>4, <2>5 DEF Behind
    <3>2. moveError' <=> moveError
      BY <2>5
    <3> QED BY <2>1, <3>1, <3>2
  <2>6. CASE label = "leaving"
    <3>1. Behind \subseteq Behind' /\ Behind' \subseteq Offsets
      BY <1>12, <2>2, <2>3, <2>4, <2>6 DEF Behind
    <3>2. IsFiniteSet(Behind') /\ Cardinality(Behind') \in Nat
      BY <3>1, OffsetsFinite, FS_Subset, FS_CardinalityType
    <3>3. Cardinality(Behind) <= Cardinality(Behind')
      BY <3>1, <3>2, FS_Subset
    <3>4. moveError' /\ totalMoved' = totalMoved
      BY <2>6
    <3>5. totalMoved <= Cardinality(Behind')
      BY <2>1, <3>2, <3>3, BehindFinite
    <3> QED BY <3>4, <3>5
  <2> QED BY <2>5, <2>6
<1>14. Bytes'
  <2>1. \A b \in Offsets : filled'[b] = 1 => \E o \in Begun' : b \in Span(o)'
    <3>1. \A b \in Offsets : filled[b] = 1 => \E o \in Begun : b \in Span(o)
      BY <1>11 DEF IInv, Bytes
    <3> QED BY <1>5, <1>12, <3>1
  <2>2. \A p \in Jobs({"new", "queued", "moving"})' : \A b \in Span(p)' : filled'[b] = 0
    <3>1. Jobs({"new", "queued", "moving"})' \subseteq Jobs({"new", "queued", "moving"})
      BY <1>1, <1>3 DEF Jobs, Offsets
    <3>2. Jobs({"new", "queued", "moving"}) \subseteq Offsets
      BY DEF Jobs
    <3> QED BY <1>11, <1>12, <3>1, <3>2 DEF IInv, Bytes
  <2>3. \A p \in Jobs({"counting"} \cup Late)' : moveError' \/ \A b \in Span(p)' : filled'[b] = 1
    <3> SUFFICES ASSUME NEW p \in Jobs({"counting"} \cup Late)', ~moveError' PROVE \A b \in Span(p)' : filled[b] = 1
      OBVIOUS
    <3>1. label = "queued" /\ ~moveError
      OBVIOUS
    <3>2. p \in Jobs({"counting"} \cup Late) /\ p \in Offsets
      BY <1>1, <1>3, <3>1 DEF Jobs, Offsets, Late
    <3> QED BY <1>11, <1>12, <3>1, <3>2 DEF IInv, Bytes
  <2>4. memory' = "own" /\ \A b \in Offsets : filled'[b] <= 1
    BY <1>11 DEF IInv, Bytes
  <2> QED BY <1>13, <2>1, <2>2, <2>3, <2>4, Zenon DEF Bytes
<1> QED BY <1>7, <1>8, <1>9, <1>10, <1>11, <1>14 DEF IInv

-----------------------------------------------------------------------------
LEMMA CloseLemma == ASSUME IInv, CloseBegin \/ CloseEnd \/ GetValue \/ UNCHANGED bufferVars PROVE IInv'
<1>1. UNCHANGED <<view, writerPc, chunk, job, permits, pending, done, memory, totalMoved, moveError, filled>>
  BY DEF CloseBegin, CloseEnd, GetValue, bufferVars
<1>2. /\ stop' \in BOOLEAN /\ bufferClosed' \in BOOLEAN /\ value' \in {"none", "raised", "returned"}
  BY DEF CloseBegin, CloseEnd, GetValue, bufferVars, IInv, Types
<1>3. /\ Bytes' /\ Begun' = Begun /\ Jobs(Started)' = Jobs(Started)
      /\ Jobs(Started \ {"ending"})' = Jobs(Started \ {"ending"})
  BY <1>1, JobsSame
<1>4. /\ At({"semaphore", "lock"})' = At({"semaphore", "lock"}) /\ At({"lock"})' = At({"lock"})
      /\ At({"submit"})' = At({"submit"}) /\ At({"moving"})' = At({"moving"})
  BY <1>1 DEF At
<1>5. Types' /\ Views' /\ Spans' /\ Counted'
  BY <1>1, <1>2, <1>3, <1>4 DEF IInv, Types, Views, Spans, Counted, PermitsAccounted, PendingExact
<1>6. CASE CloseBegin
  BY <1>3, <1>5, <1>6 DEF IInv, Closing, CloseBegin
<1>7. CASE CloseEnd
  <2>1. Cardinality(Jobs(Started)) = 0
    BY <1>7 DEF CloseEnd, IInv, Counted, PendingExact
  <2>2. Jobs(Started) = {}
    BY <2>1, JobsFinite, FS_EmptySet
  <2> QED BY <1>3, <1>5, <1>7, <2>2 DEF IInv, Closing, CloseEnd
<1>8. CASE GetValue
  <2>1. value' = "returned" => \A b \in Offsets : filled[b] = 1
    <3> SUFFICES ASSUME value' = "returned" PROVE \A b \in Offsets : filled[b] = 1
      OBVIOUS
    <3>1. ~(moveError \/ totalMoved < Expected)
      BY <1>8 DEF GetValue
    <3>2. CASE memory # "own"
      <4>1. totalMoved \in Nat /\ totalMoved = (IF memory = "none" THEN 0 ELSE Expected)
        BY <3>2 DEF IInv, Bytes, Types
      <4> QED BY <3>1, <3>2, <4>1, Sizes DEF IInv, Bytes
    <3>3. CASE memory = "own"
      <4>1. totalMoved = Cardinality(Behind) /\ totalMoved \in Nat
        BY <3>1, <3>3 DEF IInv, Bytes, Types
      <4>2. Cardinality(Behind) = Cardinality(Offsets)
        BY <3>1, <4>1, BehindFinite, OffsetsFinite, Sizes
      <4>3. Behind = Offsets
        <5>1. Behind \in SUBSET Offsets
          BY DEF Behind
        <5> QED BY <4>2, <5>1, OffsetsFinite, FS_Subset
      <4>4. \A o \in Jobs(Late) : o \in Jobs({"counting"} \cup Late)
        BY DEF Jobs
      <4> QED BY <3>1, <3>3, <4>3, <4>4 DEF IInv, Bytes, Behind
    <3> QED BY <3>2, <3>3
  <2> QED BY <1>1, <1>3, <1>5, <1>8, <2>1 DEF IInv, Closing, GetValue
<1>9. CASE UNCHANGED bufferVars
  BY <1>1, <1>3, <1>5, <1>9 DEF IInv, Closing, bufferVars
<1> QED BY <1>6, <1>7, <1>8, <1>9

LEMMA InitLemma == BufferInit => IInv
<1> SUFFICES ASSUME BufferInit PROVE IInv
  OBVIOUS
<1>1. \A L : L \subseteq Started \cup {"over"} => Jobs(L) = {}
  BY DEF BufferInit, Jobs, Started, NoJob
<1>2. Begun = {} /\ Jobs(Started) = {} /\ Jobs(Started \ {"ending"}) = {}
  BY <1>1 DEF Begun
<1>3. At({"semaphore", "lock"}) = {} /\ At({"lock"}) = {} /\ At({"submit"}) = {} /\ At({"moving"}) = {}
  BY DEF BufferInit, At
<1>4. Types
  <2>1. 0 \in 0..Expected /\ 0 \in Nat /\ MaxPending \in Int
    BY Sizes
  <2>2. view \in [Writers -> [start : 0..Expected, next : 0..Expected, end : 0..Expected]]
    BY <2>1 DEF BufferInit, NoView
  <2>3. chunk \in [Writers -> [at : 0..Expected, size : 0..Expected]]
    BY <2>1 DEF BufferInit, NoChunk
  <2>4. job \in [Offsets -> [step : Started \cup {"none", "over"}, size : 0..Expected]]
    BY <2>1 DEF BufferInit, NoJob
  <2>5. filled \in [Offsets -> Nat] /\ writerPc \in [Writers -> {"out", "semaphore", "lock", "submit", "moving"}]
    BY <2>1 DEF BufferInit
  <2>6. permits \in Int /\ pending \in Nat /\ totalMoved \in Nat
    BY <2>1 DEF BufferInit
  <2>7. done = TRUE /\ moveError = FALSE /\ stop = FALSE /\ bufferClosed = FALSE /\ value = "none" /\ memory = "none"
    BY DEF BufferInit
  <2> QED BY <2>2, <2>3, <2>4, <2>5, <2>6, <2>7 DEF Types
<1>5. Views
  BY Sizes DEF BufferInit, Views, NoView
<1>6. Spans
  BY <1>2, <1>3 DEF Spans
<1>7. Counted
  <2>1. Cardinality(Jobs(Started)) = 0 /\ Cardinality(Jobs(Started \ {"ending"})) = 0 /\ Cardinality(At({"lock"})) = 0
    BY <1>2, <1>3, FS_EmptySet
  <2>2. permits = MaxPending /\ pending = 0 /\ done = TRUE
    BY DEF BufferInit
  <2> QED BY <2>1, <2>2, Sizes DEF Counted, PermitsAccounted, PendingExact
<1>8. Bytes
  BY <1>2 DEF BufferInit, Bytes
<1>9. Closing
  BY DEF BufferInit, Closing
<1> QED BY <1>4, <1>5, <1>6, <1>7, <1>8, <1>9 DEF IInv

LEMMA NextLemma == IInv /\ [BufferNext]_bufferVars => IInv'
<1> SUFFICES ASSUME IInv, [BufferNext]_bufferVars PROVE IInv'
  OBVIOUS
<1>1. ASSUME NEW w \in Writers, NEW from \in Offsets, NEW to \in 1..Expected, GetView(w, from, to) PROVE IInv'
  BY <1>1, GetViewLemma
<1>2. ASSUME NEW w \in Writers, NEW n \in 1..Expected, WriteBegin(w, n) PROVE IInv'
  BY <1>2, WriteBeginLemma
<1>3. ASSUME NEW w \in Writers, Writer(w) PROVE IInv'
  <2>1. CASE Submit(w)
    <3>1. /\ writerPc[w] = "submit" /\ JobGoes(chunk[w].at, "queued") /\ WriterGoes(w, "out")
          /\ UNCHANGED <<view, chunk, permits, pending, done, memory, totalMoved, moveError, stop, bufferClosed, value, filled>>
      BY <2>1 DEF Submit
    <3>2. moveError' \in BOOLEAN /\ (moveError' <=> moveError)
      BY <3>1 DEF IInv, Types
    <3> QED BY <3>1, <3>2, Submits
  <2>2. CASE SubmitFails(w)
    <3>1. /\ writerPc[w] = "submit" /\ JobGoes(chunk[w].at, "leaving") /\ WriterGoes(w, "moving") /\ moveError' = TRUE
          /\ UNCHANGED <<view, chunk, permits, pending, done, memory, totalMoved, stop, bufferClosed, value, filled>>
      BY <2>2 DEF SubmitFails
    <3>2. moveError' \in BOOLEAN /\ moveError'
      BY <3>1
    <3> QED BY <3>1, <3>2, Submits
  <2> QED BY <1>3, <2>1, <2>2, AcquirePermitLemma, RefuseLemma, ZeroCopyLemma, EnterMoveLemma, WriteReturnsLemma DEF Writer
<1>4. ASSUME NEW o \in Offsets, Job(o) PROVE IInv'
  BY <1>4, MoveStartsLemma, MovesLemma, MoveFailsLemma, CountsLemma, ReleasesLemma, EndsLemma DEF Job
<1>5. CASE CloseBegin \/ CloseEnd \/ GetValue \/ UNCHANGED bufferVars
  BY <1>5, CloseLemma
<1> QED BY <1>1, <1>2, <1>3, <1>4, <1>5 DEF BufferNext

-----------------------------------------------------------------------------
LEMMA CountsFollow == IInv => CountsExact
<1> SUFFICES ASSUME IInv PROVE CountsExact
  OBVIOUS
<1>1. PermitsAccounted /\ PendingExact
  BY DEF IInv, Counted
<1>2. permits \in 0..MaxPending
  <2>1. permits \in Int /\ permits >= 0 /\ Cardinality(At({"lock"})) \in Nat /\ Cardinality(Jobs(Started \ {"ending"})) \in Nat
    BY AtFinite, JobsFinite DEF IInv, Types, Counted
  <2> QED BY <1>1, <2>1, Sizes DEF PermitsAccounted
<1>3. totalMoved \in 0..Expected
  <2>1. totalMoved \in Nat
    BY DEF IInv, Types
  <2>2. memory = "own" => totalMoved <= Cardinality(Behind)
    BY DEF IInv, Bytes
  <2>3. memory # "own" => totalMoved = (IF memory = "none" THEN 0 ELSE Expected)
    BY DEF IInv, Bytes
  <2> QED BY <2>1, <2>2, <2>3, BehindFinite, Sizes
<1> QED BY <1>1, <1>2, <1>3 DEF IInv, Types, CountsExact, BufferTypeOK

LEMMA ValueFollows == IInv => ValueRight
<1> SUFFICES ASSUME IInv PROVE ValueRight
  OBVIOUS
<1>1. ValueComplete
  BY DEF IInv, Bytes, Closing, ValueComplete
<1>2. QuietWhenClosed
  <2> SUFFICES ASSUME bufferClosed
               PROVE  /\ Jobs(Started) = {}
                      /\ \A w \in At({"submit", "moving"}) : job[chunk[w].at].step = "over"
    BY DEF QuietWhenClosed, At
  <2>1. Jobs(Started) = {}
    BY DEF IInv, Closing
  <2>2. ASSUME NEW w \in At({"submit", "moving"}) PROVE job[chunk[w].at].step = "over"
    <3>1. w \in Writers /\ chunk[w].at \in Offsets
      BY ChunkPlace DEF At
    <3>2. CASE w \in At({"submit"})
      BY <2>1, <3>1, <3>2 DEF IInv, Spans, Jobs, Started
    <3>3. CASE w \in At({"moving"})
      BY <2>1, <3>1, <3>3 DEF IInv, Spans, Jobs, Begun
    <3> QED BY <3>2, <3>3 DEF At
  <2> QED BY <2>1, <2>2
<1> QED BY <1>1, <1>2 DEF ValueRight

\* Whatever is refused or fails, in buffers of any size, with any number of
\* threads and permits: a permit is free or owed by somebody who will give it
\* back, and _done_event is set exactly when no move is pending.
THEOREM CountsAreExact == BufferSpec => []CountsExact
BY InitLemma, NextLemma, CountsFollow, PTL DEF BufferSpec

\* No byte is written twice, a value that get_value() returned is whole, and no
\* thread writes to the buffer after close() returned.
THEOREM ValueIsRight == BufferSpec => []ValueRight
BY InitLemma, NextLemma, ValueFollows, PTL DEF BufferSpec
=============================================================================
