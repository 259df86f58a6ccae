-------------------------- MODULE ResumableUpload --------------------------
(***************************************************************************)
(* GCSFile opened for writing (gcsfs/core.py): a buffer, a resumable       *)
(* upload session of the server, and _upload_chunk(), which sends the      *)
(* buffer in pieces and keeps what the server did not take.  The server    *)
(* may take any part of a piece, replies get lost and are retried, a       *)
(* failed write may be followed by more writes, and one stored byte may    *)
(* get damaged.                                                            *)
(*                                                                         *)
(* The byte the caller writes at position i of the file is the number i.   *)
(***************************************************************************)
EXTENDS Naturals, Sequences

CONSTANTS
  Quantum,     \* GCS_MIN_BLOCK_SIZE, the server's unit
  MaxBlock,    \* GCS_MAX_BLOCK_SIZE
  BlockSize,   \* self.blocksize
  WriteSizes,  \* lengths of the data passed to write()
  MaxBytes,    \* bound: length of the file
  Retries,     \* attempts of one request (retry_request)
  Garbage      \* a damaged byte

ASSUME UploadAssumption ==
  /\ Quantum \in Nat \ {0} /\ MaxBlock \in Nat \ {0} /\ MaxBlock % Quantum = 0
  /\ BlockSize \in Nat /\ BlockSize >= Quantum
  /\ WriteSizes \subseteq Nat \ {0} /\ MaxBytes \in Nat /\ Retries \in Nat \ {0}
  /\ Garbage \in Nat /\ Garbage >= MaxBytes

VARIABLES
  written,       \* self.loc
  buffer,        \* self.buffer
  cursor,        \* self.buffer.tell()
  offset,        \* self.offset
  location,      \* self.location: "none", "open"
  checked,       \* what self.checker has digested
  autocommit,    \* self.autocommit
  closed,        \* self.closed
  sendPc, call,  \* where the running method is, and which it is
  request,       \* the piece sent
  tries,         \* its attempts so far
  reply,         \* what comes back
  result,        \* how close() or commit() ended
  stored,        \* what the session holds
  object         \* <<content>> once the upload is complete, else <<>>

fileVars == <<written, buffer, cursor, offset, location, checked, autocommit, closed>>
uploadVars == <<fileVars, sendPc, call, request, tries, reply, result, stored, object>>

Bytes(from, to) == [i \in 1..to - from |-> from + i - 1]
Source == Bytes(0, written)

NoReply == [kind |-> "none", end |-> 0]
NoRequest == [at |-> 0, data |-> <<>>, last |-> FALSE]

UploadInit ==
  /\ written = 0 /\ buffer = <<>> /\ cursor = 0 /\ offset = 0 /\ location = "none"
  /\ checked = <<>> /\ autocommit \in BOOLEAN /\ closed = FALSE
  /\ sendPc = "idle" /\ call = "none" /\ request = NoRequest /\ tries = 0 /\ reply = NoReply
  /\ result = "none" /\ stored = <<>> /\ object = <<>>

-----------------------------------------------------------------------------
\* The caller's methods.  _upload_chunk(final) runs under each of them.
Final == call \in {"close", "commit"}

Running(method) == call' = method /\ sendPc' = IF location = "none" THEN "initiate" ELSE "chunk"

\* AbstractBufferedFile.write(), and flush() once the buffer holds a block.
Write(n) ==
  /\ sendPc = "idle" /\ ~closed /\ written + n <= MaxBytes
  /\ buffer' = SubSeq(buffer, 1, cursor) \o Bytes(written, written + n)
                 \o SubSeq(buffer, cursor + n + 1, Len(buffer))
  /\ cursor' = cursor + n /\ written' = written + n
  /\ IF cursor + n >= BlockSize THEN Running("write") ELSE UNCHANGED <<sendPc, call>>
  /\ UNCHANGED <<offset, location, checked, autocommit, closed, request, tries, reply, result, stored, object>>

\* close(): flush(force=True).
Close ==
  /\ sendPc = "idle" /\ ~closed /\ Running("close")
  /\ UNCHANGED <<fileVars, request, tries, reply, result, stored, object>>

\* commit() of a file closed with autocommit=False.
Commit ==
  /\ sendPc = "idle" /\ closed /\ ~autocommit /\ location = "open" /\ call = "close"
  /\ autocommit' = TRUE /\ call' = "commit" /\ sendPc' = "chunk" /\ result' = "none"
  /\ UNCHANGED <<written, buffer, cursor, offset, location, checked, closed, request, tries, reply, stored, object>>

\* discard() of a file closed with autocommit=False.
Discard ==
  /\ sendPc = "idle" /\ closed /\ ~autocommit /\ location = "open"
  /\ location' = "none" /\ stored' = <<>>
  /\ UNCHANGED <<written, buffer, cursor, offset, checked, autocommit, closed, sendPc, call, request, tries, reply, result, object>>

\* Ends the running method.
Returns(how) ==
  /\ sendPc' = "idle"
  /\ IF Final THEN closed' = TRUE /\ result' = how ELSE UNCHANGED <<closed, result>>

-----------------------------------------------------------------------------
\* _initiate_upload(); flush() closes the file when it fails.
Initiate ==
  /\ sendPc = "initiate"
  /\ \/ location' = "open" /\ offset' = 0 /\ sendPc' = "chunk" /\ UNCHANGED <<closed, result>>
     \/ /\ closed' = TRUE /\ sendPc' = "idle" /\ UNCHANGED <<location, offset>>
        /\ result' = IF Final THEN "error" ELSE result
  /\ UNCHANGED <<written, buffer, cursor, checked, autocommit, call, request, tries, reply, stored, object>>

\* Mistake: autocommit=False is forgotten.
Finalizes_Always == Final /\ Len(buffer) <= MaxBlock

\* The piece about to be sent completes the upload.
Finalizes == Final /\ autocommit /\ Len(buffer) <= MaxBlock

\* Mistake: any data is sent.
TooLittle_Empty == buffer = <<>> /\ (~Final \/ ~autocommit)

\* Too little to send, unless it completes the upload.
TooLittle == Len(buffer) < Quantum /\ (~Final \/ ~autocommit)

PieceLength ==
  IF Finalizes THEN Len(buffer)
  ELSE ((IF Len(buffer) <= MaxBlock THEN Len(buffer) ELSE MaxBlock) \div Quantum) * Quantum

HoldBack ==
  /\ sendPc = "chunk" /\ TooLittle
  /\ Returns("ok")
  /\ UNCHANGED <<written, buffer, cursor, offset, location, checked, autocommit, call, request, tries, reply, stored, object>>

Send ==
  /\ sendPc = "chunk" /\ ~TooLittle
  /\ request' = [at |-> offset, data |-> SubSeq(buffer, 1, PieceLength), last |-> Finalizes]
  /\ sendPc' = "sent" /\ tries' = 1 /\ reply' = NoReply
  /\ UNCHANGED <<fileVars, call, result, stored, object>>

-----------------------------------------------------------------------------
\* The session takes the piece up to a multiple of its unit, or all of the last
\* one, and forgets what it has already.
Ends ==
  LET all == request.at + Len(request.data)
  IN  {m \in Len(stored)..all : m % Quantum = 0 \/ (request.last /\ m = all)}

Damaged(s) == {[s EXCEPT ![i] = Garbage] : i \in DOMAIN s}

Answered(what, m) == reply' \in {[kind |-> what, end |-> m], [kind |-> "lost", end |-> 0]}

Store ==
  /\ sendPc = "sent" /\ reply = NoReply /\ object = <<>> /\ request.at <= Len(stored)
  /\ \E m \in Ends :
       LET new == SubSeq(request.data, Len(stored) - request.at + 1, m - request.at)
           done == request.last /\ m = request.at + Len(request.data)
       IN  /\ \E s \in {new} \cup (IF \A i \in DOMAIN stored : stored[i] # Garbage THEN Damaged(new) ELSE {}) :
                stored' = stored \o s
           /\ object' = IF done THEN <<stored'>> ELSE <<>>
           /\ Answered(IF done THEN "done" ELSE "range", m)
  /\ UNCHANGED <<fileVars, sendPc, call, request, tries, result>>

\* A completed session repeats its answer.
Repeat ==
  /\ sendPc = "sent" /\ reply = NoReply /\ object # <<>>
  /\ Answered("done", Len(stored))
  /\ UNCHANGED <<fileVars, sendPc, call, request, tries, result, stored, object>>

-----------------------------------------------------------------------------
\* No reply, or a transient error: retry_request() asks again or gives up.
Retry ==
  /\ sendPc = "sent" /\ reply.kind = "lost" /\ tries < Retries
  /\ tries' = tries + 1 /\ reply' = NoReply
  /\ UNCHANGED <<fileVars, sendPc, call, request, result, stored, object>>

\* So does a reply without a Range header that is no object either.
Fail ==
  /\ sendPc = "sent"
  /\ \/ reply.kind = "lost" /\ tries = Retries
     \/ reply.kind = "range" /\ reply.end = 0
  /\ Returns("error")
  /\ UNCHANGED <<written, buffer, cursor, offset, location, checked, autocommit, call, request, tries, reply, stored, object>>

\* What the server did not take.
Shortfall == offset + Len(buffer) - reply.end

\* Mistake: the new buffer is left at its start.
KeepRest_NoSeek ==
  /\ sendPc = "sent" /\ reply.kind = "range" /\ reply.end > 0 /\ Shortfall > 0
  /\ LET taken == Len(buffer) - Shortfall
     IN  /\ checked' = checked \o SubSeq(buffer, 1, taken)
         /\ buffer' = SubSeq(buffer, taken + 1, Len(buffer)) /\ cursor' = 0
         /\ offset' = offset + taken
  /\ sendPc' = "chunk"
  /\ UNCHANGED <<written, location, autocommit, closed, call, request, tries, reply, result, stored, object>>

\* Mistake: what was kept is hashed already.
KeepRest_HashAll ==
  /\ sendPc = "sent" /\ reply.kind = "range" /\ reply.end > 0 /\ Shortfall > 0
  /\ LET taken == Len(buffer) - Shortfall
     IN  /\ checked' = checked \o buffer
         /\ buffer' = SubSeq(buffer, taken + 1, Len(buffer)) /\ cursor' = Shortfall
         /\ offset' = offset + taken
  /\ sendPc' = "chunk"
  /\ UNCHANGED <<written, location, autocommit, closed, call, request, tries, reply, result, stored, object>>

KeepRest ==
  /\ sendPc = "sent" /\ reply.kind = "range" /\ reply.end > 0 /\ Shortfall > 0
  /\ LET taken == Len(buffer) - Shortfall
     IN  /\ checked' = checked \o SubSeq(buffer, 1, taken)
         /\ buffer' = SubSeq(buffer, taken + 1, Len(buffer)) /\ cursor' = Shortfall
         /\ offset' = offset + taken
  /\ sendPc' = "chunk"
  /\ UNCHANGED <<written, location, autocommit, closed, call, request, tries, reply, result, stored, object>>

Cleared == buffer' = <<>> /\ cursor' = 0 /\ offset' = offset + Len(buffer)

AllTaken ==
  /\ sendPc = "sent" /\ reply.kind = "range" /\ reply.end > 0 /\ Shortfall = 0
  /\ checked' = checked \o buffer /\ Cleared
  /\ Returns("ok")
  /\ UNCHANGED <<written, location, autocommit, call, request, tries, reply, stored, object>>

\* The object's checksum is compared, unless the last piece was empty.
Complete ==
  /\ sendPc = "sent" /\ reply.kind = "done"
  /\ checked' = checked \o buffer
  /\ IF buffer = <<>> \/ checked' = object[1]
     THEN Cleared /\ Returns("ok")
     ELSE UNCHANGED <<buffer, cursor, offset>> /\ Returns("checksum")
  /\ UNCHANGED <<written, location, autocommit, call, request, tries, reply, stored, object>>

FileStep == Initiate \/ HoldBack \/ Send \/ Retry \/ Fail \/ KeepRest \/ AllTaken \/ Complete
SessionStep == Store \/ Repeat

UploadNext == (\E n \in WriteSizes : Write(n)) \/ Close \/ Commit \/ Discard \/ FileStep \/ SessionStep
UploadSpec == UploadInit /\ [][UploadNext]_uploadVars

\* A method that runs goes on, the server answers or the connection breaks, and a
\* server that could take something does not refuse to for ever.
Takes == Store /\ (stored' # stored \/ object' # object)

-----------------------------------------------------------------------------
UploadTypeOK ==
  /\ written \in 0..MaxBytes /\ offset \in 0..MaxBytes
  /\ buffer \in Seq(Nat) /\ cursor = Len(buffer)
  /\ location \in {"none", "open"} /\ autocommit \in BOOLEAN /\ closed \in BOOLEAN
  /\ checked \in Seq(Nat) /\ stored \in Seq(Nat)
  /\ sendPc \in {"idle", "initiate", "chunk", "sent"} /\ call \in {"none", "write", "close", "commit"}
  /\ request \in [at : Nat, data : Seq(Nat), last : BOOLEAN] /\ tries \in 0..Retries
  /\ reply \in [kind : {"none", "lost", "range", "done"}, end : Nat]
  /\ result \in {"none", "ok", "error", "checksum"}
  /\ Len(object) <= 1

\* Whatever was taken in pieces, repeated after lost replies or sent again after
\* a failed write, the object is what was written: every byte, once, in place.
ObjectIsWritten ==
  object # <<>> =>
    /\ Len(object[1]) = written
    /\ \A i \in 1..written : object[1][i] \in {i - 1, Garbage}

\* No piece is sent that leaves a gap after what the session holds.
NoGap == sendPc = "sent" => request.at <= Len(stored)

\* What the session has on the way to the object, and the object.
ContentExact == UploadTypeOK /\ NoGap /\ ObjectIsWritten

\* A checksum error is no false alarm.
NoFalseAlarm == result = "checksum" => object # <<Source>>

\* "'md5' does a full checksum" (GCSFile.__init__), whenever the last piece has data.
VerifiedWithLastPiece ==
  result = "ok" /\ object # <<>> /\ request.data # <<>> => object = <<Source>>

\* The checksum neither rejects a sound object nor, where it is compared, passes a
\* damaged one, although parts of pieces are taken and pieces sent again.
ChecksumHonest == NoFalseAlarm /\ VerifiedWithLastPiece

\* "Check for success in writing, applied at file close" (GCSFile.__init__).
VerifiedAtClose == result = "ok" /\ object # <<>> => object = <<Source>>

\* The object appears only at the end of a file that commits by itself, or by
\* commit(): never by a flush, a close with autocommit=False or a discard.
OnlyWhenCommitted == object # <<>> => Final /\ autocommit

\* A successful end means the object is there; without autocommit it means that
\* every byte is in the session or held back for commit().
SuccessMeansStored ==
  result = "ok" /\ location = "open" =>
    IF autocommit THEN object # <<>>
    ELSE Len(stored) <= written /\ offset + Len(buffer) = written /\ offset <= Len(stored)

\* When the object appears, and what a successful end says of it.
CommitHonest == OnlyWhenCommitted /\ SuccessMeansStored

\* A method that has begun ends, if the server does not refuse for ever what holds
\* a unit of it.
MethodsEnd == (sendPc # "idle") ~> (sendPc = "idle")
=============================================================================
