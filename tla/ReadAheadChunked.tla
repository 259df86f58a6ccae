-------------------------- MODULE ReadAheadChunked --------------------------
(***************************************************************************)
(* The cache ReadAheadChunked of gcsfs/caching.py.  Its window is a queue  *)
(* of chunks as they came from the server, and a read joins pieces of      *)
(* them.  A chunk or piece <<i, j>> is the bytes i..j-1 of the file.       *)
(***************************************************************************)
EXTENDS Integers, SequencesExt, Bounds

CONSTANTS
  Size,      \* length of the file
  Block,     \* blocksize
  Unlimited  \* no limit

ASSUME ChunkedAssumption == Size \in Nat /\ Block \in Nat /\ Unlimited \notin Int

VARIABLES
  chunks,  \* the queue
  parts,   \* the pieces returned by the last read
  asked,   \* what that read asked for and could be served: <<start, end>>
  sent     \* what it asked of the server: from where, and the lengths

chunkedVars == <<chunks, parts, asked, sent>>

ChunkedInit == chunks = <<>> /\ parts = <<>> /\ asked = <<0, 0>> /\ sent = [from |-> 0, lengths |-> <<>>]

\* Mistake: a read that begins before the window keeps it.
Kept_Always(start) == chunks

\* The queue, for a read that begins at start.
Kept(start) == IF chunks # <<>> /\ Head(chunks)[1] > start THEN <<>> ELSE chunks

\* Mistake: the piece always begins where the chunk does.
Serve_Whole(start, end, so, c) ==
  IF c[2] <= start \/ c[1] >= end \/ c[2] <= so.pos THEN so
  ELSE LET to == Least(c[2], end) IN [pos |-> to, parts |-> Append(so.parts, <<c[1], to>>)]

\* One turn of the loop over the chunks: so is what the turns before have found.
Serve(start, end, so, c) ==
  IF c[2] <= start \/ c[1] >= end \/ c[2] <= so.pos THEN so
  ELSE LET from == Most(c[1], so.pos)
           to == Least(c[2], end)
       IN [pos |-> so.pos + (to - from), parts |-> Append(so.parts, <<from, to>>)]

\* What the cache has of a read.
Served(start, end) ==
  FoldLeft(LAMBDA so, c : Serve(start, end, so, c), [pos |-> start, parts |-> <<>>], Kept(start))

\* The missing bytes, and the block read ahead if the file has more.
Lengths(pos, end) ==
  LET ahead == Least(Size - end, Block)
  IN IF ahead > 0 THEN <<end - pos, ahead>> ELSE <<end - pos>>

\* The chunks the server sends for them.
Fetched(start, pos, lengths) ==
  [i \in DOMAIN lengths |->
     IF i = 1 THEN <<pos, pos + lengths[1]>> ELSE <<pos + lengths[1], pos + lengths[1] + lengths[2]>>]

\* A read that has limits in range, of which the cache has so: from the cache, or
\* with one request, which may fail, or bring nothing if the object has shrunk.
ReadFrom(start, end, so) ==
  \/ /\ so.pos >= end
     /\ chunks' = Kept(start) /\ parts' = so.parts /\ sent' = [from |-> 0, lengths |-> <<>>]
     /\ asked' = <<start, end>>
  \/ /\ so.pos < end
     /\ sent' = [from |-> so.pos, lengths |-> Lengths(so.pos, end)]
     /\ chunks' = Fetched(start, so.pos, sent'.lengths)
     /\ parts' = Append(so.parts, Head(chunks')) /\ asked' = <<start, end>>
  \/ /\ so.pos < end
     /\ chunks' = <<>> /\ parts' = <<>> /\ asked' = <<0, 0>> /\ sent' = [from |-> 0, lengths |-> <<>>]
  \/ /\ so.pos < end /\ sent' = [from |-> 0, lengths |-> <<>>]
     /\ chunks' = <<<<so.pos, so.pos>>>>
     /\ parts' = Append(so.parts, <<so.pos, so.pos>>) /\ asked' = <<start, so.pos>>

\* _fetch(): a file reads at least a byte at any position of its own, or to the end.
Fetch(first, last) ==
  LET start == IF first = Unlimited THEN 0 ELSE first
      end == IF last = Unlimited \/ (last # Unlimited /\ last > Size) THEN Size ELSE last
  IN IF start >= Size
     THEN parts' = <<>> /\ asked' = <<0, 0>> /\ sent' = [from |-> 0, lengths |-> <<>>] /\ UNCHANGED chunks
     ELSE ReadFrom(start, end, Served(start, end))

ChunkedNext ==
  \E first \in 0..Size + 1 \cup {Unlimited}, last \in 1..Size + 2 \cup {Unlimited} :
    (IF first = Unlimited \/ last = Unlimited THEN TRUE ELSE first < last) /\ Fetch(first, last)

ChunkedSpec == ChunkedInit /\ [][ChunkedNext]_chunkedVars

-----------------------------------------------------------------------------
Pieces == {p \in (0..Size) \X (0..Size) : p[1] <= p[2]}

ChunkedTypeOK ==
  /\ chunks \in Seq(Pieces) /\ Len(chunks) <= 2
  /\ parts \in Seq(Pieces) /\ asked \in Pieces
  /\ sent.from \in 0..Size /\ \A i \in DOMAIN sent.lengths : sent.lengths[i] \in 1..Size

\* p[i+1] begins where p[i] ends.
Adjacent(p) == \A i \in 1..Len(p) - 1 : p[i][2] = p[i + 1][1]

\* The pieces of a read are its bytes, in order, none missing and none twice,
\* wherever its limits fall among the chunks of earlier reads.
ReadIsWhole ==
  IF asked[1] = asked[2] THEN \A i \in DOMAIN parts : parts[i][1] = parts[i][2]
  ELSE /\ parts # <<>> /\ Adjacent(parts)
       /\ Head(parts)[1] = asked[1] /\ Last(parts)[2] = asked[2]

\* The chunks are one window without gaps.
WindowWhole == Adjacent(chunks) /\ \A i \in DOMAIN chunks : chunks[i][1] <= chunks[i][2]

\* A read joins the bytes it was asked for, out of a window without gaps.
JoinsExactly == ChunkedTypeOK /\ ReadIsWhole /\ WindowWhole

\* The end of a request of these lengths, one after the other.
EndOf(from, lengths) == FoldLeft(LAMBDA n, l : n + l, from, lengths)

\* "it strictly maintains the same semantics as the existing readahead cache"
\* (ReadAheadChunked): the same window, and the same bytes from the server.
Window ==
  INSTANCE ReadAhead WITH
    lo <- IF chunks = <<>> THEN 0 ELSE Head(chunks)[1],
    hi <- IF chunks = <<>> THEN 0 ELSE Last(chunks)[2],
    requests <- IF sent.lengths = <<>> THEN <<0, 0>>
                ELSE <<sent.from, EndOf(sent.from, sent.lengths)>>
ReadsAhead == Window!Spec
=============================================================================
