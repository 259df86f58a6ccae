----------------------------- MODULE ByteRanges -----------------------------
(***************************************************************************)
(* The limits of a read of gcsfs, which are those of a Python slice, and   *)
(* its division among concurrent requests: _cat_file() of a gRPC bucket in *)
(* gcsfs/extended_gcsfs.py, and _cat_file_concurrent() in gcsfs/core.py.   *)
(***************************************************************************)
EXTENDS Integers, Bounds

CONSTANTS
  MaxSize,   \* bound: length of the object
  MaxLimit,  \* bound: limits of a read, to either side of 0
  MaxTasks,  \* bound: concurrency
  MinChunk,  \* MIN_CHUNK_SIZE_FOR_CONCURRENCY
  FromEnd,   \* whether HTTP reads may have negative limits
  NoLimit    \* no limit

ASSUME RangeAssumption ==
  /\ MaxSize \in Nat /\ MaxLimit \in Nat /\ MaxTasks \in Nat \ {0} /\ MinChunk \in Nat \ {0}
  /\ FromEnd \in BOOLEAN /\ NoLimit \notin Int

VARIABLES
  size, start, end,  \* the object, and the limits of the read
  tasks,             \* concurrency of the read
  path,              \* "grpc" or "http"
  progress,          \* "asked", "reading", "done"
  offset, length,    \* the bytes to read, once known
  answered,          \* the parts that have arrived, by number from 0
  outcome            \* "none", "empty", "data", "error"

rangeInputs == <<size, start, end, tasks, path>>
rangeVars == <<rangeInputs, progress, offset, length, answered, outcome>>

Limits == (0 - MaxLimit)..MaxLimit \cup {NoLimit}
Negative(limit) == limit # NoLimit /\ limit < 0

RangeInit ==
  /\ size \in 0..MaxSize /\ start \in Limits /\ end \in Limits /\ tasks \in 1..MaxTasks
  /\ path \in {"grpc", "http"}
  /\ path = "http" /\ ~FromEnd => ~Negative(start) /\ ~Negative(end)
  /\ progress = "asked" /\ offset = 0 /\ length = 0 /\ answered = {} /\ outcome = "none"

-----------------------------------------------------------------------------
\* Where a limit of a Python slice falls in n bytes; d stands for no limit.
Place(limit, n, d) ==
  IF limit = NoLimit THEN d ELSE IF limit < 0 THEN Most(0, n + limit) ELSE Least(n, limit)

SliceFrom(first, n) == Place(first, n, 0)
SliceTo(last, n) == Place(last, n, n)

\* is_empty_range(), for an object of unknown size and for one of n bytes.
IsEmptyRange(first, last) ==
  \/ last # NoLimit /\ last = 0
  \/ /\ last # NoLimit /\ last > 0
     /\ IF first = NoLimit THEN FALSE ELSE first >= last
IsEmptyOf(first, last, n) == SliceFrom(first, n) >= SliceTo(last, n)

\* _process_limits_to_offset_and_length()
Offset(first, n) == IF first = NoLimit THEN 0 ELSE IF first < 0 THEN Most(0, n + first) ELSE first
LastByte(last, n) == IF last = NoLimit THEN n ELSE IF last < 0 THEN n + last ELSE last

Length(first, last, n) ==
  IF LastByte(last, n) <= Offset(first, n) THEN 0
  ELSE IF LastByte(last, n) > n THEN Most(0, n - Offset(first, n)) ELSE LastByte(last, n) - Offset(first, n)

\* split_range() of n > 0 bytes: the number of chunks, and the limits of each.
NumChunks(n) ==
  IF tasks <= 1 \/ n < MinChunk THEN 1 ELSE Least(tasks, n \div MinChunk)

ChunkFrom(i, n) == i * (n \div NumChunks(n))

\* Mistake: the remainder is dropped.
ChunkLength_Even(i, n) == n \div NumChunks(n)

ChunkLength(i, n) ==
  (n \div NumChunks(n)) + (IF i < NumChunks(n) - 1 THEN 0 ELSE n % NumChunks(n))

Chunks == IF length = 0 THEN {} ELSE 0..NumChunks(length) - 1

-----------------------------------------------------------------------------
\* A gRPC read finds its offset and length; an empty one ends.
Grpc ==
  /\ progress = "asked" /\ path = "grpc"
  /\ offset' = Offset(start, size) /\ length' = Length(start, end, size)
  /\ IF length' = 0 THEN progress' = "done" /\ outcome' = "empty" ELSE progress' = "reading" /\ UNCHANGED outcome
  /\ UNCHANGED <<rangeInputs, answered>>

\* Mistake: the end of the object is asked for whatever the end of the read.
Concurrent_ToEnd ==
  /\ progress = "asked" /\ path = "http"
  /\ offset' = (IF start = NoLimit THEN 0 ELSE start)
  /\ length' = Most(0, size - offset')
  /\ IF length' = 0 THEN progress' = "done" /\ outcome' = "empty" ELSE progress' = "reading" /\ UNCHANGED outcome
  /\ UNCHANGED <<rangeInputs, answered>>

\* _cat_file_concurrent()
Concurrent ==
  /\ progress = "asked" /\ path = "http"
  /\ offset' = (IF start = NoLimit THEN 0 ELSE start)
  /\ length' = Most(0, (IF end = NoLimit THEN size ELSE end) - offset')
  /\ IF length' = 0 THEN progress' = "done" /\ outcome' = "empty" ELSE progress' = "reading" /\ UNCHANGED outcome
  /\ UNCHANGED <<rangeInputs, answered>>

\* A part arrives; the last one completes the read.
Arrives(i) ==
  /\ progress = "reading" /\ i \in Chunks \ answered
  /\ answered' = answered \cup {i}
  /\ IF answered' = Chunks THEN progress' = "done" /\ outcome' = "data" ELSE UNCHANGED <<progress, outcome>>
  /\ UNCHANGED <<rangeInputs, offset, length>>

\* A part fails: the others are cancelled and the error is raised.
Fails ==
  /\ progress = "reading" /\ progress' = "done" /\ outcome' = "error"
  /\ UNCHANGED <<rangeInputs, offset, length, answered>>

RangeNext == Grpc \/ Concurrent \/ Fails \/ \E i \in 0..MaxTasks - 1 : Arrives(i)
RangeSpec == RangeInit /\ [][RangeNext]_rangeVars

-----------------------------------------------------------------------------
RangeTypeOK ==
  /\ size \in 0..MaxSize /\ start \in Limits /\ end \in Limits /\ tasks \in 1..MaxTasks
  /\ path \in {"grpc", "http"} /\ progress \in {"asked", "reading", "done"}
  /\ offset \in Int /\ length \in Nat /\ answered \subseteq 0..MaxTasks - 1
  /\ outcome \in {"none", "empty", "data", "error"}

\* A gRPC read asks for the bytes of the slice, for limits of any sign, beyond
\* either end and in either order, and for none past the end of the object.
LimitsAreSlice ==
  path = "grpc" /\ progress # "asked" =>
    IF length = 0 THEN SliceFrom(start, size) >= SliceTo(end, size)
    ELSE offset = SliceFrom(start, size) /\ offset + length = SliceTo(end, size)

\* A read that is_empty_range() answers without a request is empty whatever the
\* size of the object (GCSFile, ZonalFile and _cat_file_sequential rely on it).
EmptyIsEmpty ==
  /\ IsEmptyRange(start, end) => SliceFrom(start, size) >= SliceTo(end, size)
  /\ progress = "done" /\ path = "grpc" /\ outcome = "data" => ~IsEmptyOf(start, end, size)

\* The chunks of a read are adjacent, cover it, and none is below the minimum
\* unless it is the only one.
ChunksCover ==
  length > 0 =>
    LET n == NumChunks(length) IN
    /\ n >= 1 /\ n <= tasks
    /\ ChunkFrom(0, length) = 0 /\ ChunkFrom(n - 1, length) + ChunkLength(n - 1, length) = length
    /\ \A i \in 0..n - 2 : ChunkFrom(i, length) + ChunkLength(i, length) = ChunkFrom(i + 1, length)
    /\ n > 1 => \A i \in 0..n - 1 : ChunkLength(i, length) >= MinChunk

\* Every part has arrived when a read returns its data.
DataIsComplete == outcome = "data" => answered = Chunks

\* "we could just call _cat_file_concurrent(concurrency=1)" (_cat_file): a
\* concurrent HTTP read begins and ends where the sequential one, a slice, does.
ConcurrentIsSlice ==
  path = "http" /\ progress # "asked" =>
    IF length = 0 THEN SliceFrom(start, size) >= SliceTo(end, size)
    ELSE /\ Place(offset, size, 0) = SliceFrom(start, size)
         /\ Place(offset + length, size, size) = SliceTo(end, size)
\* Over either path a read is of the bytes of the slice its limits mean.
ReadIsSlice == RangeTypeOK /\ LimitsAreSlice /\ EmptyIsEmpty /\ ConcurrentIsSlice

\* The parts of a read make it up, and it waits for all of them.
PartsWhole == ChunksCover /\ DataIsComplete

\* A read and its parts: from the limits of the caller to the bytes that are put together.
ReadsRight == ReadIsSlice /\ PartsWhole
=============================================================================
