-------------------------- MODULE FileWritesProofs --------------------------
(***************************************************************************)
(* The parts that FileWrites puts side by side.  ResumableUpload: whatever *)
(* a session takes of the pieces, the object is what was written, and its  *)
(* checksum and its commit say so, for files, blocks and writes of any     *)
(* size.  BucketLayout: for any number of tasks, writes and changes of the *)
(* bucket, an outdated layout in the cache costs a write neither its       *)
(* success nor a second copy, and an invalidation ends it.  DeferredClose: *)
(* for any number of files and threads, one thread closes a file, once.    *)
(***************************************************************************)
EXTENDS ResumableUpload, BucketLayout, DeferredClose, SequenceTheorems, TLAPS

\* s holds the bytes from k on, or those of which some may be damaged.
Run(s, k) == \A i \in 1..Len(s) : s[i] = k + i - 1
Near(s) == \A i \in 1..Len(s) : s[i] \in {i - 1, Garbage}

\* The buffer is what was written and not yet taken, and what was taken is hashed.
Buffered ==
  /\ Run(buffer, offset) /\ offset + Len(buffer) = written
  /\ Run(checked, 0) /\ Len(checked) = IF result = "checksum" THEN written ELSE offset
  /\ location = "none" /\ ~closed => offset = 0

\* The session holds what was taken, and no more than was written.
InSession ==
  /\ Near(stored) /\ Len(stored) <= written /\ (location = "open" => offset <= Len(stored))
  /\ location = "none" /\ ~closed => stored = <<>>

\* The piece on its way is the head of the buffer, and completes the upload only at its end.
OnTheWay ==
  sendPc = "sent" =>
    /\ request.at = offset /\ Len(request.data) <= Len(buffer) /\ Run(request.data, offset)
    /\ request.last => Final /\ autocommit /\ Len(request.data) = Len(buffer)
    /\ Final /\ autocommit /\ ~request.last => Len(request.data) < Len(buffer)
    /\ reply.kind = "range" =>
         /\ object = <<>> /\ reply.end = Len(stored) /\ reply.end <= offset + Len(request.data)
         /\ request.last => reply.end < offset + Len(request.data)
    /\ reply.kind = "done" => object # <<>>

\* Which states of a file go together.
Phases ==
  /\ closed => sendPc = "idle" \/ call = "commit"
  /\ sendPc \in {"chunk", "sent"} => location = "open"
  /\ sendPc = "initiate" => location = "none" /\ ~closed
  /\ sendPc # "idle" => result = "none" 
  /\ call = "commit" => autocommit /\ closed
  /\ result # "none" => closed /\ Final
  /\ result = "checksum" => object # <<>>
  /\ object # <<>> =>
       /\ Final /\ autocommit /\ object = <<stored>> /\ Len(stored) = written /\ location = "open"
       /\ request.last
       /\ sendPc = "sent" \/ (sendPc = "idle" /\ closed)

UploadInv == UploadTypeOK /\ Buffered /\ InSession /\ OnTheWay /\ Phases /\ NoFalseAlarm /\ VerifiedWithLastPiece /\ SuccessMeansStored

-----------------------------------------------------------------------------
\* The head and the rest of a run.
LEMMA RunParted ==
  ASSUME NEW s \in Seq(Nat), NEW k \in Nat, Run(s, k), NEW m \in 0..Len(s)
  PROVE  /\ SubSeq(s, 1, m) \in Seq(Nat) /\ Len(SubSeq(s, 1, m)) = m /\ Run(SubSeq(s, 1, m), k)
         /\ SubSeq(s, m + 1, Len(s)) \in Seq(Nat) /\ Len(SubSeq(s, m + 1, Len(s))) = Len(s) - m
         /\ Run(SubSeq(s, m + 1, Len(s)), k + m)
<1>1. SubSeq(s, 1, m) \in Seq(Nat) /\ Len(SubSeq(s, 1, m)) = m
  OBVIOUS
<1>2. \A i \in 1..m : SubSeq(s, 1, m)[i] = s[i]
  OBVIOUS
<1>3. SubSeq(s, m + 1, Len(s)) \in Seq(Nat) /\ Len(SubSeq(s, m + 1, Len(s))) = Len(s) - m
  OBVIOUS
<1>4. \A i \in 1..(Len(s) - m) : SubSeq(s, m + 1, Len(s))[i] = s[m + i]
  OBVIOUS
<1>5. Run(SubSeq(s, 1, m), k)
  BY <1>1, <1>2 DEF Run
<1>6. Run(SubSeq(s, m + 1, Len(s)), k + m)
  BY <1>3, <1>4 DEF Run
<1> QED BY <1>1, <1>3, <1>5, <1>6

\* A run and its continuation.
LEMMA RunJoined ==
  ASSUME NEW s \in Seq(Nat), NEW t \in Seq(Nat), NEW k \in Nat, Run(s, k), Run(t, k + Len(s))
  PROVE  s \o t \in Seq(Nat) /\ Len(s \o t) = Len(s) + Len(t) /\ Run(s \o t, k)
<1>1. s \o t \in Seq(Nat) /\ Len(s \o t) = Len(s) + Len(t)
  OBVIOUS
<1>2. \A i \in 1..Len(s) + Len(t) : (s \o t)[i] = IF i <= Len(s) THEN s[i] ELSE t[i - Len(s)]
  OBVIOUS
<1> QED BY <1>1, <1>2 DEF Run

\* What is written is a run, and the only one from the start.
LEMMA BytesRun ==
  ASSUME NEW a \in Nat, NEW b \in Nat, a <= b
  PROVE  Bytes(a, b) \in Seq(Nat) /\ Len(Bytes(a, b)) = b - a /\ Run(Bytes(a, b), a)
<1>1. Bytes(a, b) \in [1..(b - a) -> Nat]
  BY DEF Bytes
<1>2. Bytes(a, b) \in Seq(Nat) /\ Len(Bytes(a, b)) = b - a
  BY <1>1
<1> QED BY <1>2 DEF Run, Bytes

LEMMA RunIsBytes ==
  ASSUME NEW s \in Seq(Nat), Run(s, 0) PROVE s = Bytes(0, Len(s))
<1>1. Bytes(0, Len(s)) \in Seq(Nat) /\ Len(Bytes(0, Len(s))) = Len(s) /\ Run(Bytes(0, Len(s)), 0)
  BY BytesRun
<1>2. \A i \in 1..Len(s) : s[i] = Bytes(0, Len(s))[i]
  BY <1>1 DEF Run
<1> QED BY <1>1, <1>2

\* What the session takes of a piece, damaged or not, goes on where it ends.
LEMMA TakenNear ==
  ASSUME NEW s \in Seq(Nat), Near(s), NEW data \in Seq(Nat), NEW k \in Nat, Run(data, k),
         k <= Len(s), NEW m \in Len(s)..(k + Len(data)),
         NEW t, LET new == SubSeq(data, Len(s) - k + 1, m - k) IN t = new \/ t \in Damaged(new)
  PROVE  s \o t \in Seq(Nat) /\ Len(s \o t) = m /\ Near(s \o t)
<1> DEFINE new == SubSeq(data, Len(s) - k + 1, m - k)
<1>0. t = new \/ t \in Damaged(new)
  OBVIOUS
<1>1. new \in Seq(Nat) /\ Len(new) = m - Len(s)
  OBVIOUS
<1>2. \A i \in 1..Len(new) : new[i] = data[Len(s) - k + i] /\ Len(s) - k + i \in 1..Len(data)
  OBVIOUS
<1> HIDE DEF new
<1>3. \A i \in 1..Len(new) : new[i] = Len(s) + i - 1
  BY <1>1, <1>2 DEF Run
<1>4. t \in Seq(Nat) /\ Len(t) = Len(new) /\ \A i \in 1..Len(t) : t[i] \in {Len(s) + i - 1, Garbage}
  <2>1. CASE t = new
    BY <2>1, <1>1, <1>3
  <2>2. CASE t \in Damaged(new)
    <3>1. PICK i \in DOMAIN new : t = [new EXCEPT ![i] = Garbage]
      BY <2>2 DEF Damaged
    <3>2. Garbage \in Nat
      BY UploadAssumption
    <3>3. i \in 1..Len(new)
      BY <1>1, <3>1
    <3>4. t \in Seq(Nat) /\ Len(t) = Len(new) /\ \A j \in 1..Len(new) : t[j] = IF j = i THEN Garbage ELSE new[j]
      <4> DEFINE e == [new EXCEPT ![i] = Garbage]
      <4>1. e \in Seq(Nat) /\ Len(e) = Len(new)
        BY <3>2, <3>3, <1>1, ExceptSeq
      <4>2. \A j \in 1..Len(new) : e[j] = IF j = i THEN Garbage ELSE new[j]
        <5>1. DOMAIN new = 1..Len(new)
          BY <1>1
        <5> QED BY <5>1, <3>3
      <4>3. t = e
        BY <3>1
      <4> HIDE DEF e
      <4> QED BY <4>1, <4>2, <4>3
    <3> QED BY <3>4, <1>3
  <2> QED BY <1>0, <2>1, <2>2
<1>5. s \o t \in Seq(Nat) /\ Len(s \o t) = m
  BY <1>1, <1>4
<1>6. \A i \in 1..Len(s) + Len(t) : (s \o t)[i] = IF i <= Len(s) THEN s[i] ELSE t[i - Len(s)]
  BY <1>4
<1>7. ASSUME NEW i \in 1..Len(s \o t) PROVE (s \o t)[i] \in {i - 1, Garbage}
  <2>1. CASE i <= Len(s)
    BY <2>1, <1>1, <1>4, <1>5, <1>6 DEF Near
  <2>2. CASE i > Len(s)
    <3>1. i - Len(s) \in 1..Len(t) /\ (s \o t)[i] = t[i - Len(s)]
      BY <2>2, <1>1, <1>4, <1>5, <1>6
    <3> QED BY <3>1, <1>4
  <2> QED BY <2>1, <2>2
<1> QED BY <1>5, <1>7 DEF Near

\* Whole units of a buffer are part of it.
LEMMA UnitsOf ==
  ASSUME NEW n \in Nat, NEW q \in Nat \ {0}
  PROVE  (n \div q) * q \in Nat /\ (n \div q) * q <= n
<1>1. n \div q \in Nat /\ n = q * (n \div q) + (n % q) /\ n % q \in 0..(q - 1)
  OBVIOUS
<1>2. q * (n \div q) = (n \div q) * q
  BY <1>1
<1> QED BY <1>1, <1>2

\* The piece that is sent is part of the buffer, all of it when it completes the upload, and
\* less than that when there is more than a block to come.
LEMMA PieceFits ==
  ASSUME buffer \in Seq(Nat)
  PROVE  /\ PieceLength \in 0..Len(buffer)
         /\ Finalizes => PieceLength = Len(buffer)
         /\ Final /\ autocommit /\ ~Finalizes => PieceLength < Len(buffer)
<1> USE UploadAssumption
<1>1. (Len(buffer) \div Quantum) * Quantum \in 0..Len(buffer)
  BY UnitsOf
<1>2. (MaxBlock \div Quantum) * Quantum \in 0..MaxBlock
  BY UnitsOf
<1>3. CASE Finalizes
  BY <1>3 DEF PieceLength
<1>4. CASE ~Finalizes /\ Len(buffer) <= MaxBlock
  BY <1>1, <1>4 DEF PieceLength, Finalizes
<1>5. CASE ~Finalizes /\ Len(buffer) > MaxBlock
  <2>1. PieceLength = (MaxBlock \div Quantum) * Quantum
    <3>1. ~(Len(buffer) <= MaxBlock)
      BY <1>5
    <3> QED BY <1>5, <3>1, Zenon DEF PieceLength
  <2>2. MaxBlock \in Nat /\ Len(buffer) \in Nat
    OBVIOUS
  <2> HIDE DEF PieceLength
  <2> QED BY <2>1, <2>2, <1>2, <1>5
<1> QED BY <1>3, <1>4, <1>5

-----------------------------------------------------------------------------
\* Each action keeps the invariant, conjunct by conjunct.
USE UploadAssumption DEF UploadInv, UploadTypeOK, Buffered, InSession, OnTheWay, Phases, NoFalseAlarm, VerifiedWithLastPiece,
  SuccessMeansStored, Final, NoReply, NoRequest, Running, Returns, fileVars

LEMMA UploadInitially == UploadInit => UploadInv
<1> SUFFICES ASSUME UploadInit PROVE UploadInv OBVIOUS
<1> USE UploadAssumption DEF UploadInit, Run, Near
<1>1. UploadTypeOK
  <2>1. <<>> \in Seq(Nat) /\ Len(<<>>) = 0
    OBVIOUS
  <2>2. request \in [at : Nat, data : Seq(Nat), last : BOOLEAN]
    BY <2>1
  <2>3. reply \in [kind : {"none", "lost", "range", "done"}, end : Nat]
    OBVIOUS
  <2>4. written \in 0..MaxBytes /\ offset \in 0..MaxBytes /\ tries \in 0..Retries
    OBVIOUS
  <2>5. buffer \in Seq(Nat) /\ cursor = Len(buffer) /\ checked \in Seq(Nat) /\ stored \in Seq(Nat) /\ Len(object) <= 1
    BY <2>1
  <2> QED BY <2>2, <2>3, <2>4, <2>5
<1>2. Buffered OBVIOUS
<1>3. InSession OBVIOUS
<1>4. OnTheWay OBVIOUS
<1>5. Phases OBVIOUS
<1>6. NoFalseAlarm OBVIOUS
<1>7. VerifiedWithLastPiece OBVIOUS
<1>8. SuccessMeansStored OBVIOUS
<1> QED BY <1>1, <1>2, <1>3, <1>4, <1>5, <1>6, <1>7, <1>8

LEMMA WriteKeeps == ASSUME UploadInv, NEW n \in WriteSizes, Write(n) PROVE UploadInv'
<1> USE DEF Write
<1>a. /\ buffer' \in Seq(Nat) /\ Len(buffer') = Len(buffer) + n /\ Run(buffer', offset)
      /\ n \in Nat \ {0} /\ written' = written + n /\ cursor' = Len(buffer')
  <2> DEFINE new == Bytes(written, written + n)
  <2>1. SubSeq(buffer, 1, cursor) = buffer /\ SubSeq(buffer, cursor + n + 1, Len(buffer)) = <<>>
    OBVIOUS
  <2>0. /\ written \in Nat /\ n \in Nat \ {0} /\ written + n \in Nat /\ written <= written + n /\ (written + n) - written = n
        /\ buffer \in Seq(Nat) /\ offset \in Nat /\ Run(buffer, offset) /\ offset + Len(buffer) = written
    OBVIOUS
  <2>2. new \in Seq(Nat) /\ Len(new) = n /\ Run(new, written)
    <3> HIDE DEF UploadInv, Write
    <3> QED BY <2>0, BytesRun
  <2> HIDE DEF new
  <2>3. buffer \o new \in Seq(Nat) /\ Len(buffer \o new) = Len(buffer) + n /\ Run(buffer \o new, offset)
    <3> HIDE DEF UploadInv, Write
    <3> QED BY <2>0, <2>2, RunJoined
  <2>4. buffer' = buffer \o new
    <3>1. buffer' = buffer \o Bytes(written, written + n) \o <<>>
      BY <2>1
    <3>2. buffer' = buffer \o new \o <<>>
      BY <3>1 DEF new
    <3>3. ASSUME NEW s \in Seq(Nat) PROVE s \o <<>> = s
      OBVIOUS
    <3> QED BY <3>2, <3>3, <2>3
  <2>5. written' = written + n /\ cursor' = Len(buffer')
    BY <2>0, <2>3, <2>4
  <2> QED BY <2>0, <2>3, <2>4, <2>5
<1>b. result = "none" /\ object = <<>>
  OBVIOUS
<1>c. /\ UNCHANGED <<offset, location, checked, autocommit, closed, request, tries, reply, result, stored, object>>
      /\ sendPc' \in {"idle", "initiate", "chunk"} /\ call' \in {"none", "write", "close", "commit"}
      /\ written' \in 0..MaxBytes /\ Len(buffer') \in Nat /\ offset' + Len(buffer') = written'
  <2>1. UNCHANGED <<offset, location, checked, autocommit, closed, request, tries, reply, result, stored, object>>
    OBVIOUS
  <2>2. sendPc' \in {"idle", "initiate", "chunk"} /\ call' \in {"none", "write", "close", "commit"}
    <3>1. CASE cursor + n >= BlockSize
      BY <3>1
    <3>2. CASE ~(cursor + n >= BlockSize)
      BY <3>2
    <3> QED BY <3>1, <3>2
  <2>3. written + n <= MaxBytes /\ written \in Nat /\ offset \in Nat /\ offset + Len(buffer) = written /\ Len(buffer) \in Nat
    OBVIOUS
  <2> HIDE DEF UploadInv, Write
  <2>4. /\ written' \in 0..MaxBytes /\ Len(buffer') = Len(buffer) + n
        /\ offset + (Len(buffer) + n) = written + n /\ Len(buffer) + n \in Nat
    BY <1>a, <2>3
  <2> QED BY <1>a, <2>1, <2>2, <2>4
<1>1. UploadTypeOK'
  <2> HIDE DEF Write
  <2> QED BY <1>a, <1>b, <1>c
<1>2. Buffered' BY <1>a, <1>b, <1>c
<1>3. InSession' BY <1>a, <1>b
<1>4. OnTheWay' BY <1>a, <1>b
<1>5. Phases' BY <1>a, <1>b
<1>6. NoFalseAlarm' BY <1>a, <1>b
<1>7. VerifiedWithLastPiece' BY <1>a, <1>b
<1>8. SuccessMeansStored' BY <1>a, <1>b
<1> QED BY <1>1, <1>2, <1>3, <1>4, <1>5, <1>6, <1>7, <1>8

LEMMA CloseKeeps == ASSUME UploadInv, Close PROVE UploadInv'
<1> USE DEF Close
<1>1. UploadTypeOK' OBVIOUS
<1>2. Buffered' OBVIOUS
<1>3. InSession' OBVIOUS
<1>4. OnTheWay' OBVIOUS
<1>5. Phases' OBVIOUS
<1>6. NoFalseAlarm' OBVIOUS
<1>7. VerifiedWithLastPiece' OBVIOUS
<1>8. SuccessMeansStored' OBVIOUS
<1> QED BY <1>1, <1>2, <1>3, <1>4, <1>5, <1>6, <1>7, <1>8

LEMMA CommitKeeps == ASSUME UploadInv, Commit PROVE UploadInv'
<1> USE DEF Commit
<1>1. UploadTypeOK' OBVIOUS
<1>2. Buffered' OBVIOUS
<1>3. InSession' OBVIOUS
<1>4. OnTheWay' OBVIOUS
<1>5. Phases' OBVIOUS
<1>6. NoFalseAlarm' OBVIOUS
<1>7. VerifiedWithLastPiece' OBVIOUS
<1>8. SuccessMeansStored' OBVIOUS
<1> QED BY <1>1, <1>2, <1>3, <1>4, <1>5, <1>6, <1>7, <1>8

LEMMA DiscardKeeps == ASSUME UploadInv, Discard PROVE UploadInv'
<1> USE DEF Discard
<1>1. UploadTypeOK' OBVIOUS
<1>2. Buffered' OBVIOUS
<1>3. InSession' BY DEF Near
<1>4. OnTheWay' OBVIOUS
<1>5. Phases' OBVIOUS
<1>6. NoFalseAlarm' OBVIOUS
<1>7. VerifiedWithLastPiece' OBVIOUS
<1>8. SuccessMeansStored' OBVIOUS
<1> QED BY <1>1, <1>2, <1>3, <1>4, <1>5, <1>6, <1>7, <1>8

LEMMA InitiateKeeps == ASSUME UploadInv, Initiate PROVE UploadInv'
<1> USE DEF Initiate
<1>1. UploadTypeOK' OBVIOUS
<1>2. Buffered' OBVIOUS
<1>3. InSession' OBVIOUS
<1>4. OnTheWay' OBVIOUS
<1>5. Phases' OBVIOUS
<1>6. NoFalseAlarm' OBVIOUS
<1>7. VerifiedWithLastPiece' OBVIOUS
<1>8. SuccessMeansStored' OBVIOUS
<1> QED BY <1>1, <1>2, <1>3, <1>4, <1>5, <1>6, <1>7, <1>8

LEMMA HoldBackKeeps == ASSUME UploadInv, HoldBack PROVE UploadInv'
<1> USE DEF HoldBack
<1> USE DEF TooLittle
<1>1. UploadTypeOK' OBVIOUS
<1>2. Buffered' OBVIOUS
<1>3. InSession' OBVIOUS
<1>4. OnTheWay' OBVIOUS
<1>5. Phases' OBVIOUS
<1>6. NoFalseAlarm' OBVIOUS
<1>7. VerifiedWithLastPiece' OBVIOUS
<1>8. SuccessMeansStored' OBVIOUS
<1> QED BY <1>1, <1>2, <1>3, <1>4, <1>5, <1>6, <1>7, <1>8

LEMMA SendKeeps == ASSUME UploadInv, Send PROVE UploadInv'
<1> USE DEF Send
<1>a. PieceLength \in 0..Len(buffer) /\ (Finalizes => PieceLength = Len(buffer))
      /\ (Final /\ autocommit /\ ~Finalizes => PieceLength < Len(buffer))
  BY PieceFits
<1>t. buffer \in Seq(Nat) /\ offset \in Nat /\ Run(buffer, offset)
  OBVIOUS
<1>p. LET piece == SubSeq(buffer, 1, PieceLength)
      IN  piece \in Seq(Nat) /\ Len(piece) = PieceLength /\ Run(piece, offset)
  <2> HIDE DEF UploadInv, Send
  <2> QED BY <1>a, <1>t, RunParted
<1>b. /\ request'.at = offset /\ request'.last = Finalizes /\ request'.data \in Seq(Nat)
      /\ Len(request'.data) = PieceLength /\ Run(request'.data, offset)
  BY <1>p
<1>c. request' \in [at : Nat, data : Seq(Nat), last : BOOLEAN]
  BY <1>b DEF Finalizes
<1>d. object = <<>>
  OBVIOUS
<1>1. UploadTypeOK' BY <1>c
<1>2. Buffered' BY <1>d
<1>3. InSession' BY <1>d
<1>4. OnTheWay'
  <2>1. reply'.kind = "none" /\ UNCHANGED <<offset, buffer, call, autocommit, object>>
    OBVIOUS
  <2>2. request'.last => Final /\ autocommit /\ Len(request'.data) = Len(buffer)
    BY <1>a, <1>b DEF Finalizes
  <2>3. Final /\ autocommit /\ ~request'.last => Len(request'.data) < Len(buffer)
    BY <1>a, <1>b
  <2>4. Len(request'.data) <= Len(buffer)
    BY <1>a, <1>b
  <2> HIDE DEF UploadInv, Send
  <2> QED BY <1>b, <2>1, <2>2, <2>3, <2>4
<1>5. Phases' BY <1>d
<1>6. NoFalseAlarm' BY <1>d
<1>7. VerifiedWithLastPiece' BY <1>d
<1>8. SuccessMeansStored' BY <1>d
<1> QED BY <1>1, <1>2, <1>3, <1>4, <1>5, <1>6, <1>7, <1>8

LEMMA RepeatKeeps == ASSUME UploadInv, Repeat PROVE UploadInv'
<1> USE DEF Repeat
<1> USE DEF Answered
<1>1. UploadTypeOK' OBVIOUS
<1>2. Buffered' OBVIOUS
<1>3. InSession' OBVIOUS
<1>4. OnTheWay' OBVIOUS
<1>5. Phases' OBVIOUS
<1>6. NoFalseAlarm' OBVIOUS
<1>7. VerifiedWithLastPiece' OBVIOUS
<1>8. SuccessMeansStored' OBVIOUS
<1> QED BY <1>1, <1>2, <1>3, <1>4, <1>5, <1>6, <1>7, <1>8

LEMMA RetryKeeps == ASSUME UploadInv, Retry PROVE UploadInv'
<1> USE DEF Retry
<1>1. UploadTypeOK' OBVIOUS
<1>2. Buffered' OBVIOUS
<1>3. InSession' OBVIOUS
<1>4. OnTheWay' OBVIOUS
<1>5. Phases' OBVIOUS
<1>6. NoFalseAlarm' OBVIOUS
<1>7. VerifiedWithLastPiece' OBVIOUS
<1>8. SuccessMeansStored' OBVIOUS
<1> QED BY <1>1, <1>2, <1>3, <1>4, <1>5, <1>6, <1>7, <1>8

LEMMA FailKeeps == ASSUME UploadInv, Fail PROVE UploadInv'
<1> USE DEF Fail
<1>1. UploadTypeOK' OBVIOUS
<1>2. Buffered' OBVIOUS
<1>3. InSession' OBVIOUS
<1>4. OnTheWay' OBVIOUS
<1>5. Phases' OBVIOUS
<1>6. NoFalseAlarm' OBVIOUS
<1>7. VerifiedWithLastPiece' OBVIOUS
<1>8. SuccessMeansStored' OBVIOUS
<1> QED BY <1>1, <1>2, <1>3, <1>4, <1>5, <1>6, <1>7, <1>8

LEMMA KeepRestKeeps == ASSUME UploadInv, KeepRest PROVE UploadInv'
<1> USE DEF KeepRest
<1> DEFINE taken == Len(buffer) - Shortfall
<1>t. /\ buffer \in Seq(Nat) /\ offset \in Nat /\ Run(buffer, offset) /\ checked \in Seq(Nat) /\ Run(checked, 0)
      /\ object = <<>> /\ result = "none" /\ location = "open" /\ Len(checked) = offset /\ offset + Len(buffer) = written
  OBVIOUS
<1>u. /\ reply.end = Len(stored) /\ offset <= Len(stored) /\ Len(stored) <= written /\ Len(stored) \in Nat /\ written \in Nat
  OBVIOUS
<1>a. taken \in 0..Len(buffer) /\ offset + taken = Len(stored) /\ Shortfall = Len(buffer) - taken
  <2> HIDE DEF UploadInv, KeepRest
  <2> QED BY <1>t, <1>u DEF Shortfall
<1> DEFINE head == SubSeq(buffer, 1, taken)
           rest == SubSeq(buffer, taken + 1, Len(buffer))
<1>e. buffer' = rest /\ checked' = checked \o head /\ cursor' = Shortfall /\ offset' = offset + taken
  OBVIOUS
<1> HIDE DEF taken
<1>b. /\ head \in Seq(Nat) /\ Len(head) = taken /\ Run(head, offset)
      /\ rest \in Seq(Nat) /\ Len(rest) = Len(buffer) - taken /\ Run(rest, offset + taken)
  <2> HIDE DEF UploadInv, KeepRest
  <2> QED BY <1>a, <1>t, RunParted, SMTT(30)
<1> HIDE DEF head, rest
<1>c. checked' \in Seq(Nat) /\ Len(checked') = offset + taken /\ Run(checked', 0)
  <2> HIDE DEF UploadInv, KeepRest
  <2>1. Run(head, 0 + Len(checked))
    BY <1>b, <1>t
  <2>2. checked \o head \in Seq(Nat) /\ Len(checked \o head) = Len(checked) + Len(head) /\ Run(checked \o head, 0)
    BY <2>1, <1>b, <1>t, 0 \in Nat, RunJoined
  <2> QED BY <2>2, <1>b, <1>e, <1>t
<1>d. /\ cursor' = Len(buffer') /\ offset' = offset + taken /\ buffer' \in Seq(Nat)
      /\ Len(buffer') = Len(buffer) - taken /\ Run(buffer', offset')
  BY <1>a, <1>b, <1>e
<1>f. written' = written /\ result' = result /\ location' = location /\ closed' = closed /\ offset' + Len(buffer') = written
  <2>1. written' = written /\ result' = result /\ location' = location /\ closed' = closed
    OBVIOUS
  <2> HIDE DEF UploadInv, KeepRest
  <2>2. Len(buffer) \in Nat /\ taken \in Nat /\ taken <= Len(buffer)
    BY <1>a, <1>t
  <2>3. offset' + Len(buffer') = written
    BY <2>2, <1>d, <1>t
  <2> QED BY <2>1, <2>3
<1>1. UploadTypeOK'
  <2>1. /\ UNCHANGED <<written, location, autocommit, closed, call, request, tries, reply, result, stored, object>>
        /\ sendPc' = "chunk" /\ written <= MaxBytes /\ UploadTypeOK
    OBVIOUS
  <2> HIDE DEF UploadInv, KeepRest
  <2>2. offset' \in 0..MaxBytes
    BY <2>1, <1>a, <1>d, <1>t, <1>u
  <2> QED BY <2>1, <2>2, <1>c, <1>d, SMTT(30)
<1>2. Buffered'
  <2> HIDE DEF UploadInv, KeepRest
  <2> QED BY <1>c, <1>d, <1>f, <1>t
<1>3. InSession' BY <1>a, <1>c, <1>d, <1>t, <1>u
<1>4. OnTheWay' BY <1>a, <1>c, <1>d, <1>t, <1>u
<1>5. Phases' BY <1>a, <1>c, <1>d, <1>t, <1>u
<1>6. NoFalseAlarm' BY <1>a, <1>c, <1>d, <1>t, <1>u
<1>7. VerifiedWithLastPiece' BY <1>a, <1>c, <1>d, <1>t, <1>u
<1>8. SuccessMeansStored' BY <1>a, <1>c, <1>d, <1>t, <1>u
<1> QED BY <1>1, <1>2, <1>3, <1>4, <1>5, <1>6, <1>7, <1>8

LEMMA AllTakenKeeps == ASSUME UploadInv, AllTaken PROVE UploadInv'
<1> USE DEF AllTaken
<1> USE DEF Cleared, Shortfall
<1>a. object = <<>> /\ result = "none" /\ location = "open" /\ offset + Len(buffer) = Len(stored) /\ reply.end = Len(stored)
  OBVIOUS
<1>b. checked' \in Seq(Nat) /\ Len(checked') = offset + Len(buffer) /\ Run(checked', 0)
  BY <1>a, RunJoined
<1>c. ~(Final /\ autocommit)
  BY <1>a
<1>d. Run(buffer', offset') /\ Len(buffer') = 0 /\ buffer' \in Seq(Nat)
  BY DEF Run
<1>1. UploadTypeOK' BY <1>a, <1>b, <1>c, <1>d
<1>2. Buffered' BY <1>a, <1>b, <1>c, <1>d
<1>3. InSession' BY <1>a, <1>b, <1>c, <1>d
<1>4. OnTheWay' BY <1>a, <1>b, <1>c, <1>d
<1>5. Phases' BY <1>a, <1>b, <1>c, <1>d
<1>6. NoFalseAlarm' BY <1>a, <1>b, <1>c, <1>d
<1>7. VerifiedWithLastPiece' BY <1>a, <1>b, <1>c, <1>d
<1>8. SuccessMeansStored' BY <1>a, <1>b, <1>c, <1>d
<1> QED BY <1>1, <1>2, <1>3, <1>4, <1>5, <1>6, <1>7, <1>8

LEMMA CompleteKeeps == ASSUME UploadInv, Complete PROVE UploadInv'
<1> USE DEF Complete
<1> USE DEF Cleared
<1>a. /\ object = <<stored>> /\ result = "none" /\ location = "open" /\ Final /\ autocommit /\ Len(stored) = written
      /\ Len(request.data) = Len(buffer)
  OBVIOUS
<1>b. checked' \in Seq(Nat) /\ Len(checked') = written /\ Run(checked', 0)
  BY <1>a, RunJoined
<1>c. checked' = Source /\ Source' = Source
  BY <1>b, RunIsBytes DEF Source
<1>d. Run(<<>>, written) /\ Len(<<>>) = 0 /\ <<>> \in Seq(Nat)
  BY DEF Run
<1>1. UploadTypeOK' BY <1>a, <1>b, <1>c, <1>d
<1>2. Buffered' BY <1>a, <1>b, <1>c, <1>d, SMTT(30)
<1>3. InSession' BY <1>a, <1>b, <1>c, <1>d
<1>4. OnTheWay' BY <1>a, <1>b, <1>c, <1>d
<1>5. Phases' BY <1>a, <1>b, <1>c, <1>d
<1>6. NoFalseAlarm' BY <1>a, <1>b, <1>c, <1>d
<1>7. VerifiedWithLastPiece' BY <1>a, <1>b, <1>c, <1>d
<1>8. SuccessMeansStored' BY <1>a, <1>b, <1>c, <1>d
<1> QED BY <1>1, <1>2, <1>3, <1>4, <1>5, <1>6, <1>7, <1>8

LEMMA StoreKeeps == ASSUME UploadInv, Store PROVE UploadInv'
<1> USE DEF Store
<1>a. PICK m \in Ends :
        LET new == SubSeq(request.data, Len(stored) - request.at + 1, m - request.at)
            done == request.last /\ m = request.at + Len(request.data)
        IN  /\ \E s \in {new} \cup (IF \A i \in DOMAIN stored : stored[i] # Garbage THEN Damaged(new) ELSE {}) :
                 stored' = stored \o s
            /\ object' = IF done THEN <<stored'>> ELSE <<>>
            /\ Answered(IF done THEN "done" ELSE "range", m)
  OBVIOUS
<1>b. /\ m \in Len(stored)..(offset + Len(request.data)) /\ request.at = offset /\ Run(request.data, offset)
      /\ request.data \in Seq(Nat) /\ offset <= Len(stored) /\ object = <<>>
  BY DEF Ends
<1> DEFINE new == SubSeq(request.data, Len(stored) - offset + 1, m - offset)
           done == request.last /\ m = offset + Len(request.data)
<1>c. PICK t : (t = new \/ t \in Damaged(new)) /\ stored' = stored \o t
  BY <1>a, <1>b
<1>n. stored \in Seq(Nat) /\ Near(stored) /\ offset \in Nat
  OBVIOUS
<1>d. stored' \in Seq(Nat) /\ Len(stored') = m /\ Near(stored')
  <2> HIDE DEF UploadInv, Store, Damaged
  <2>1. stored \o t \in Seq(Nat) /\ Len(stored \o t) = m /\ Near(stored \o t)
    BY <1>b, <1>c, <1>n, TakenNear
  <2> QED BY <2>1, <1>c
<1>e. /\ object' = IF done THEN <<stored'>> ELSE <<>>
      /\ reply' \in {[kind |-> IF done THEN "done" ELSE "range", end |-> m], [kind |-> "lost", end |-> 0]}
  BY <1>a, <1>b DEF Answered
<1> HIDE DEF new
<1>1. UploadTypeOK' BY <1>b, <1>d, <1>e, SMTT(30)
<1>2. Buffered' BY <1>b, <1>d, <1>e, SMTT(30)
<1>3. InSession' BY <1>b, <1>d, <1>e, SMTT(30)
<1>4. OnTheWay'
  <2>1. UNCHANGED <<offset, buffer, call, autocommit, request, sendPc>>
    OBVIOUS
  <2>2. /\ sendPc = "sent" /\ request.at = offset /\ Len(request.data) <= Len(buffer) /\ Run(request.data, offset)
        /\ request.last => Final /\ autocommit /\ Len(request.data) = Len(buffer)
        /\ Final /\ autocommit /\ ~request.last => Len(request.data) < Len(buffer)
    OBVIOUS
  <2> HIDE DEF UploadInv, Store
  <2>3. CASE done
    <3>1. object' = <<stored'>> /\ reply'.kind # "range"
      BY <2>3, <1>e
    <3>2. object' # <<>>
      BY <3>1
    <3> HIDE DEF done
    <3> QED BY <2>1, <2>2, <3>1, <3>2
  <2>4. CASE ~done
    <3>1. object' = <<>> /\ reply'.kind # "done" /\ (reply'.kind = "range" => reply'.end = m)
      BY <2>4, <1>e
    <3>2. m <= offset + Len(request.data) /\ (request.last => m < offset + Len(request.data))
      <4>1. offset + Len(request.data) \in Nat /\ m \in Nat /\ m <= offset + Len(request.data)
        BY <1>b, <1>n
      <4> QED BY <4>1, <2>4
    <3> HIDE DEF done
    <3> QED BY <1>d, <2>1, <2>2, <3>1, <3>2
  <2> QED BY <2>3, <2>4
<1>5. Phases' BY <1>b, <1>d, <1>e
<1>6. NoFalseAlarm' BY <1>b, <1>d, <1>e
<1>7. VerifiedWithLastPiece' BY <1>b, <1>d, <1>e
<1>8. SuccessMeansStored' BY <1>b, <1>d, <1>e
<1> QED BY <1>1, <1>2, <1>3, <1>4, <1>5, <1>6, <1>7, <1>8

LEMMA UploadStutters == ASSUME UploadInv, UNCHANGED uploadVars PROVE UploadInv'
<1> USE DEF uploadVars, Source
<1>1. UploadTypeOK' OBVIOUS
<1>2. Buffered' OBVIOUS
<1>3. InSession' OBVIOUS
<1>4. OnTheWay' OBVIOUS
<1>5. Phases' OBVIOUS
<1>6. NoFalseAlarm' OBVIOUS
<1>7. VerifiedWithLastPiece' OBVIOUS
<1>8. SuccessMeansStored' OBVIOUS
<1> QED BY <1>1, <1>2, <1>3, <1>4, <1>5, <1>6, <1>7, <1>8

HIDE DEF UploadInv, UploadTypeOK, Buffered, InSession, OnTheWay, Phases, NoFalseAlarm, VerifiedWithLastPiece,
  SuccessMeansStored, Final, NoReply, NoRequest, Running, Returns, fileVars

\* So does every step.
LEMMA UploadStays == UploadInv /\ [UploadNext]_uploadVars => UploadInv'
  BY WriteKeeps, CloseKeeps, CommitKeeps, DiscardKeeps, InitiateKeeps, HoldBackKeeps, SendKeeps, StoreKeeps, RepeatKeeps,
     RetryKeeps, FailKeeps, KeepRestKeeps, AllTakenKeeps, CompleteKeeps, UploadStutters
  DEF UploadNext, FileStep, SessionStep

\* And it holds from the start.
LEMMA UploadInvariant == UploadSpec => []UploadInv
  BY UploadInitially, UploadStays, PTL DEF UploadSpec

\* However the session takes the pieces, however often replies are lost and pieces sent again, no
\* piece leaves a gap and the object is what was written: every byte, once, in its place.
THEOREM UploadsAreExact == UploadSpec => []ContentExact
<1>1. UploadInv => ContentExact
  <2> SUFFICES ASSUME UploadInv PROVE ContentExact
    OBVIOUS
  <2> USE DEF UploadInv, UploadTypeOK, InSession, OnTheWay, Phases
  <2>1. NoGap
    BY DEF NoGap
  <2>2. ObjectIsWritten
    BY DEF ObjectIsWritten, Near
  <2> QED BY <2>1, <2>2 DEF ContentExact
<1> QED BY <1>1, UploadInvariant, PTL

\* A checksum error is no false alarm, and a last piece that has data is never reported stored when
\* a byte of the object is damaged.
THEOREM ChecksumsAreHonest == UploadSpec => []ChecksumHonest
<1>1. UploadInv => ChecksumHonest
  BY DEF UploadInv, ChecksumHonest
<1> QED BY <1>1, UploadInvariant, PTL

\* The object appears by close() or commit() and no other way, and when these succeed it is there.
THEOREM CommitsAreHonest == UploadSpec => []CommitHonest
<1>1. UploadInv => CommitHonest
  BY DEF UploadInv, Phases, OnlyWhenCommitted, CommitHonest
<1> QED BY <1>1, UploadInvariant, PTL

-----------------------------------------------------------------------------
\* An answer is on its way only to a task that looks a layout up, and after an
\* invalidation it cannot be older than the bucket's last change.
Answering ==
  /\ \A t \in Tasks : answer[t] # "none" => writePc[t] \in LookingUp \cup {"recheck"}
  /\ promised => \A t \in Tasks : answer[t] \in {"none", "pending", "unknown", kind}

\* Only the step that ends a write replaces the object.
Storing == \A t \in Tasks : writePc[t] # "done" => stores[t] = 0 /\ outcome[t] = "none"

\* A write that nothing has disturbed knows its layout, and asks again only if
\* the server rejects it rightly.
Trusting ==
  \A t \in Tasks : ~disturbed[t] =>
    /\ answer[t] # "unknown"
    /\ (writePc[t] = "opening" => layout[t] = "rcu")
    /\ (writePc[t] = "recheck" => kind = "std" /\ answer[t] \in {"pending", "std"})

IInv == MatchesAfterInvalidation /\ Answering /\ Storing /\ Trusting /\ StaleLayoutRecovered /\ ReplacedOnce

-----------------------------------------------------------------------------
LEMMA ToggleLemma == ASSUME IInv, Toggle PROVE IInv'
<1> USE LayoutAssumption DEF LayoutAssumption, IInv, Toggle, LookingUp
<1>1. MatchesAfterInvalidation'
  <2>1. toggles' \in 0..MaxToggles /\ kind' \in {"rcu", "std"} /\ promised' = FALSE
    BY DEF MatchesAfterInvalidation, LayoutTypeOK
  <2>2. disturbed' \in [Tasks -> BOOLEAN]
    BY DEF MatchesAfterInvalidation, LayoutTypeOK
  <2> QED BY <2>1, <2>2 DEF MatchesAfterInvalidation, LayoutTypeOK
<1>2. Answering'
  BY DEF Answering, MatchesAfterInvalidation, LayoutTypeOK
<1>3. Storing'
  BY DEF Storing, MatchesAfterInvalidation, LayoutTypeOK
<1>4. Trusting'
  BY DEF Trusting, Answering, MatchesAfterInvalidation, LayoutTypeOK
<1>5. StaleLayoutRecovered'
  BY DEF StaleLayoutRecovered, Trusting, Storing, MatchesAfterInvalidation, LayoutTypeOK
<1>6. ReplacedOnce'
  BY DEF ReplacedOnce, Storing, MatchesAfterInvalidation, LayoutTypeOK
<1> QED BY <1>1, <1>2, <1>3, <1>4, <1>5, <1>6

LEMMA InvalidateLemma == ASSUME IInv, Invalidate PROVE IInv'
<1> USE LayoutAssumption DEF LayoutAssumption, IInv, Invalidate, LookingUp
<1>1. MatchesAfterInvalidation'
  BY DEF MatchesAfterInvalidation, LayoutTypeOK, Answering, Trusting
<1>2. Answering'
  BY DEF Answering, MatchesAfterInvalidation, LayoutTypeOK
<1>3. Storing'
  BY DEF Storing, MatchesAfterInvalidation, LayoutTypeOK
<1>4. Trusting'
  BY DEF Trusting, Answering, MatchesAfterInvalidation, LayoutTypeOK
<1>5. StaleLayoutRecovered'
  BY DEF StaleLayoutRecovered, Trusting, Storing, MatchesAfterInvalidation, LayoutTypeOK
<1>6. ReplacedOnce'
  BY DEF ReplacedOnce, Storing, MatchesAfterInvalidation, LayoutTypeOK
<1> QED BY <1>1, <1>2, <1>3, <1>4, <1>5, <1>6

LEMMA BeginWriteLemma == ASSUME IInv, NEW t \in Tasks, BeginWrite(t) PROVE IInv'
<1> USE LayoutAssumption DEF LayoutAssumption, IInv, BeginWrite, LookingUp
<1>1. MatchesAfterInvalidation'
  BY DEF MatchesAfterInvalidation, LayoutTypeOK, Answering, Trusting
<1>2. Answering'
  BY DEF Answering, MatchesAfterInvalidation, LayoutTypeOK
<1>3. Storing'
  BY DEF Storing, MatchesAfterInvalidation, LayoutTypeOK
<1>4. Trusting'
  BY DEF Trusting, Answering, MatchesAfterInvalidation, LayoutTypeOK
<1>5. StaleLayoutRecovered'
  BY DEF StaleLayoutRecovered, Trusting, Storing, MatchesAfterInvalidation, LayoutTypeOK
<1>6. ReplacedOnce'
  BY DEF ReplacedOnce, Storing, MatchesAfterInvalidation, LayoutTypeOK
<1> QED BY <1>1, <1>2, <1>3, <1>4, <1>5, <1>6

LEMMA LookUpLemma == ASSUME IInv, NEW t \in Tasks, LookUp(t) PROVE IInv'
<1> USE LayoutAssumption DEF LayoutAssumption, IInv, LookUp, Decides, Disabled, WriteGoes, WriteEnds, LookingUp
<1>1. MatchesAfterInvalidation'
  <2>1. writePc' \in [Tasks -> LookingUp \cup {"idle", "opening", "recheck", "upload", "done"}]
    BY DEF MatchesAfterInvalidation, LayoutTypeOK
  <2>2. outcome' \in [Tasks -> {"none", "grpc", "http", "disabled", "error"}]
    BY DEF MatchesAfterInvalidation, LayoutTypeOK
  <2>3. answer' \in [Tasks -> {"none", "pending", "rcu", "std", "unknown"}]
    BY DEF MatchesAfterInvalidation, LayoutTypeOK
  <2>4. layout' \in [Tasks -> {"none", "rcu", "std", "unknown"}]
    BY DEF MatchesAfterInvalidation, LayoutTypeOK
  <2>5. cache' \in {"none", "rcu", "std"} /\ (promised' => cache' \in {"none", kind'})
    BY DEF MatchesAfterInvalidation, LayoutTypeOK, Answering
  <2> QED BY <2>1, <2>2, <2>3, <2>4, <2>5 DEF MatchesAfterInvalidation, LayoutTypeOK
<1>2. Answering'
  BY DEF Answering, MatchesAfterInvalidation, LayoutTypeOK
<1>3. Storing'
  BY DEF Storing, MatchesAfterInvalidation, LayoutTypeOK
<1>4. Trusting'
  BY DEF Trusting, Answering, MatchesAfterInvalidation, LayoutTypeOK
<1>5. StaleLayoutRecovered'
  BY DEF StaleLayoutRecovered, Trusting, Storing, MatchesAfterInvalidation, LayoutTypeOK
<1>6. ReplacedOnce'
  BY DEF ReplacedOnce, Storing, MatchesAfterInvalidation, LayoutTypeOK
<1> QED BY <1>1, <1>2, <1>3, <1>4, <1>5, <1>6

LEMMA AnswersLemma == ASSUME IInv, NEW t \in Tasks, Answers(t) PROVE IInv'
<1> USE LayoutAssumption DEF LayoutAssumption, IInv, Answers, LookingUp
<1>1. MatchesAfterInvalidation'
  <2>1. answer' \in [Tasks -> {"none", "pending", "rcu", "std", "unknown"}]
    BY DEF MatchesAfterInvalidation, LayoutTypeOK
  <2>2. disturbed' \in [Tasks -> BOOLEAN]
    BY DEF MatchesAfterInvalidation, LayoutTypeOK
  <2> QED BY <2>1, <2>2 DEF MatchesAfterInvalidation, LayoutTypeOK
<1>2. Answering'
  BY DEF Answering, MatchesAfterInvalidation, LayoutTypeOK
<1>3. Storing'
  BY DEF Storing, MatchesAfterInvalidation, LayoutTypeOK
<1>4. Trusting'
  BY DEF Trusting, Answering, MatchesAfterInvalidation, LayoutTypeOK
<1>5. StaleLayoutRecovered'
  BY DEF StaleLayoutRecovered, Trusting, Storing, MatchesAfterInvalidation, LayoutTypeOK
<1>6. ReplacedOnce'
  BY DEF ReplacedOnce, Storing, MatchesAfterInvalidation, LayoutTypeOK
<1> QED BY <1>1, <1>2, <1>3, <1>4, <1>5, <1>6

LEMMA LookedUpLemma == ASSUME IInv, NEW t \in Tasks, LookedUp(t) PROVE IInv'
<1> USE LayoutAssumption DEF LayoutAssumption, IInv, LookedUp, Decides, Disabled, WriteGoes, WriteEnds, LookingUp
<1>1. MatchesAfterInvalidation'
  <2>1. writePc' \in [Tasks -> LookingUp \cup {"idle", "opening", "recheck", "upload", "done"}]
    BY DEF MatchesAfterInvalidation, LayoutTypeOK
  <2>2. outcome' \in [Tasks -> {"none", "grpc", "http", "disabled", "error"}]
    BY DEF MatchesAfterInvalidation, LayoutTypeOK
  <2>3. answer' \in [Tasks -> {"none", "pending", "rcu", "std", "unknown"}]
    BY DEF MatchesAfterInvalidation, LayoutTypeOK
  <2>4. layout' \in [Tasks -> {"none", "rcu", "std", "unknown"}]
    BY DEF MatchesAfterInvalidation, LayoutTypeOK
  <2>5. cache' \in {"none", "rcu", "std"} /\ (promised' => cache' \in {"none", kind'})
    BY DEF MatchesAfterInvalidation, LayoutTypeOK, Answering
  <2> QED BY <2>1, <2>2, <2>3, <2>4, <2>5 DEF MatchesAfterInvalidation, LayoutTypeOK
<1>2. Answering'
  BY DEF Answering, MatchesAfterInvalidation, LayoutTypeOK
<1>3. Storing'
  BY DEF Storing, MatchesAfterInvalidation, LayoutTypeOK
<1>4. Trusting'
  BY DEF Trusting, Answering, MatchesAfterInvalidation, LayoutTypeOK
<1>5. StaleLayoutRecovered'
  BY DEF StaleLayoutRecovered, Trusting, Storing, MatchesAfterInvalidation, LayoutTypeOK
<1>6. ReplacedOnce'
  BY DEF ReplacedOnce, Storing, MatchesAfterInvalidation, LayoutTypeOK
<1> QED BY <1>1, <1>2, <1>3, <1>4, <1>5, <1>6

LEMMA OpenedLemma == ASSUME IInv, NEW t \in Tasks, Opened(t) PROVE IInv'
<1> USE LayoutAssumption DEF LayoutAssumption, IInv, Opened, WriteGoes, WriteEnds, LookingUp
<1>1. MatchesAfterInvalidation'
  <2>1. writePc' \in [Tasks -> LookingUp \cup {"idle", "opening", "recheck", "upload", "done"}]
    BY DEF MatchesAfterInvalidation, LayoutTypeOK
  <2>2. outcome' \in [Tasks -> {"none", "grpc", "http", "disabled", "error"}]
    BY DEF MatchesAfterInvalidation, LayoutTypeOK
  <2>3. stores' \in [Tasks -> 0..2]
    BY DEF MatchesAfterInvalidation, LayoutTypeOK, Storing
  <2>4. disturbed' \in [Tasks -> BOOLEAN]
    BY DEF MatchesAfterInvalidation, LayoutTypeOK
  <2> QED BY <2>1, <2>2, <2>3, <2>4 DEF MatchesAfterInvalidation, LayoutTypeOK
<1>2. Answering'
  BY DEF Answering, MatchesAfterInvalidation, LayoutTypeOK
<1>3. Storing'
  BY DEF Storing, MatchesAfterInvalidation, LayoutTypeOK
<1>4. Trusting'
  BY DEF Trusting, Answering, MatchesAfterInvalidation, LayoutTypeOK
<1>5. StaleLayoutRecovered'
  BY DEF StaleLayoutRecovered, Trusting, Storing, MatchesAfterInvalidation, LayoutTypeOK
<1>6. ReplacedOnce'
  BY DEF ReplacedOnce, Storing, MatchesAfterInvalidation, LayoutTypeOK
<1> QED BY <1>1, <1>2, <1>3, <1>4, <1>5, <1>6

LEMMA RejectedLemma == ASSUME IInv, NEW t \in Tasks, Rejected(t) PROVE IInv'
<1> USE LayoutAssumption DEF LayoutAssumption, IInv, Rejected, Disabled, WriteGoes, WriteEnds, LookingUp
<1>1. MatchesAfterInvalidation'
  BY DEF MatchesAfterInvalidation, LayoutTypeOK, Answering, Trusting
<1>2. Answering'
  BY DEF Answering, MatchesAfterInvalidation, LayoutTypeOK
<1>3. Storing'
  BY DEF Storing, MatchesAfterInvalidation, LayoutTypeOK
<1>4. Trusting'
  <2>1. \A u \in Tasks : u # t => /\ answer'[u] = answer[u] /\ writePc'[u] = writePc[u]
                                 /\ disturbed'[u] = disturbed[u]
    BY DEF MatchesAfterInvalidation, LayoutTypeOK
  <2>2. ~disturbed'[t] => kind = "std" /\ ~disturbed[t] /\ layout[t] = "rcu"
    <3>1. disturbed'[t] = (disturbed[t] \/ (kind = "rcu" /\ layout[t] = "rcu")) /\ kind \in {"rcu", "std"}
      BY DEF MatchesAfterInvalidation, LayoutTypeOK
    <3>2. ~disturbed[t] => layout[t] = "rcu"
      BY DEF Trusting
    <3> HIDE DEF IInv, Rejected
    <3> QED BY <3>1, <3>2
  <2>3. answer[t] = "none"
    BY DEF Answering, MatchesAfterInvalidation, LayoutTypeOK
  <2>4. (writePc'[t] \in {"http", "done"} /\ answer'[t] = answer[t]) \/ (writePc'[t] = "recheck" /\ answer'[t] = "pending")
    BY DEF MatchesAfterInvalidation, LayoutTypeOK
  <2> QED BY <2>1, <2>2, <2>3, <2>4 DEF Trusting
<1>5. StaleLayoutRecovered'
  BY DEF StaleLayoutRecovered, Trusting, Storing, MatchesAfterInvalidation, LayoutTypeOK
<1>6. ReplacedOnce'
  BY DEF ReplacedOnce, Storing, MatchesAfterInvalidation, LayoutTypeOK
<1> QED BY <1>1, <1>2, <1>3, <1>4, <1>5, <1>6

LEMMA RecheckedLemma == ASSUME IInv, NEW t \in Tasks, Rechecked(t) PROVE IInv'
<1> USE LayoutAssumption DEF LayoutAssumption, IInv, Rechecked, Disabled, WriteGoes, WriteEnds, LookingUp
<1>1. MatchesAfterInvalidation'
  <2>1. writePc' \in [Tasks -> LookingUp \cup {"idle", "opening", "recheck", "upload", "done"}]
    BY DEF MatchesAfterInvalidation, LayoutTypeOK
  <2>2. outcome' \in [Tasks -> {"none", "grpc", "http", "disabled", "error"}]
    BY DEF MatchesAfterInvalidation, LayoutTypeOK
  <2>3. answer' \in [Tasks -> {"none", "pending", "rcu", "std", "unknown"}]
    BY DEF MatchesAfterInvalidation, LayoutTypeOK
  <2>4. layout' \in [Tasks -> {"none", "rcu", "std", "unknown"}]
    BY DEF MatchesAfterInvalidation, LayoutTypeOK
  <2>5. cache' \in {"none", "rcu", "std"} /\ (promised' => cache' \in {"none", kind'})
    BY DEF MatchesAfterInvalidation, LayoutTypeOK, Answering
  <2> QED BY <2>1, <2>2, <2>3, <2>4, <2>5 DEF MatchesAfterInvalidation, LayoutTypeOK
<1>2. Answering'
  BY DEF Answering, MatchesAfterInvalidation, LayoutTypeOK
<1>3. Storing'
  BY DEF Storing, MatchesAfterInvalidation, LayoutTypeOK
<1>4. Trusting'
  BY DEF Trusting, Answering, MatchesAfterInvalidation, LayoutTypeOK
<1>5. StaleLayoutRecovered'
  BY DEF StaleLayoutRecovered, Trusting, Storing, MatchesAfterInvalidation, LayoutTypeOK
<1>6. ReplacedOnce'
  BY DEF ReplacedOnce, Storing, MatchesAfterInvalidation, LayoutTypeOK
<1> QED BY <1>1, <1>2, <1>3, <1>4, <1>5, <1>6

LEMMA UploadsLemma == ASSUME IInv, NEW t \in Tasks, Uploads(t) PROVE IInv'
<1> USE LayoutAssumption DEF LayoutAssumption, IInv, Uploads, WriteGoes, WriteEnds, LookingUp
<1>1. MatchesAfterInvalidation'
  <2>1. writePc' \in [Tasks -> LookingUp \cup {"idle", "opening", "recheck", "upload", "done"}]
    BY DEF MatchesAfterInvalidation, LayoutTypeOK
  <2>2. outcome' \in [Tasks -> {"none", "grpc", "http", "disabled", "error"}]
    BY DEF MatchesAfterInvalidation, LayoutTypeOK
  <2>3. stores' \in [Tasks -> 0..2]
    BY DEF MatchesAfterInvalidation, LayoutTypeOK, Storing
  <2>4. disturbed' \in [Tasks -> BOOLEAN]
    BY DEF MatchesAfterInvalidation, LayoutTypeOK
  <2> QED BY <2>1, <2>2, <2>3, <2>4 DEF MatchesAfterInvalidation, LayoutTypeOK
<1>2. Answering'
  BY DEF Answering, MatchesAfterInvalidation, LayoutTypeOK
<1>3. Storing'
  BY DEF Storing, MatchesAfterInvalidation, LayoutTypeOK
<1>4. Trusting'
  BY DEF Trusting, Answering, MatchesAfterInvalidation, LayoutTypeOK
<1>5. StaleLayoutRecovered'
  BY DEF StaleLayoutRecovered, Trusting, Storing, MatchesAfterInvalidation, LayoutTypeOK
<1>6. ReplacedOnce'
  BY DEF ReplacedOnce, Storing, MatchesAfterInvalidation, LayoutTypeOK
<1> QED BY <1>1, <1>2, <1>3, <1>4, <1>5, <1>6

LEMMA InitLemma == LayoutInit => IInv
<1> SUFFICES ASSUME LayoutInit PROVE IInv
  OBVIOUS
<1>1. LayoutTypeOK
  <2>1. toggles = 0 /\ 0 \in 0..MaxToggles
    BY LayoutAssumption DEF LayoutAssumption, LayoutInit
  <2>2. kind \in {"rcu", "std"} /\ cache = "none" /\ promised = FALSE
    BY DEF LayoutInit
  <2>3. stores \in [Tasks -> 0..2] /\ writes \in [Tasks -> 0..MaxWrites]
    BY LayoutAssumption DEF LayoutAssumption, LayoutInit
  <2>4. /\ op \in [Tasks -> {"put", "file"}]
        /\ writePc \in [Tasks -> LookingUp \cup {"idle", "opening", "recheck", "upload", "done"}]
        /\ answer \in [Tasks -> {"none", "pending", "rcu", "std", "unknown"}]
        /\ layout \in [Tasks -> {"none", "rcu", "std", "unknown"}]
        /\ outcome \in [Tasks -> {"none", "grpc", "http", "disabled", "error"}]
    BY DEF LayoutInit
  <2>5. disturbed \in [Tasks -> BOOLEAN]
    BY DEF LayoutInit
  <2> QED BY <2>1, <2>2, <2>3, <2>4, <2>5 DEF LayoutTypeOK
<1>2. Answering /\ Storing /\ Trusting
  BY DEF LayoutInit, Answering, Storing, Trusting
<1> QED
  BY <1>1, <1>2 DEF LayoutInit, IInv, MatchesAfterInvalidation, StaleLayoutRecovered, ReplacedOnce

LEMMA NextLemma == IInv /\ [LayoutNext]_layoutVars => IInv'
<1> SUFFICES ASSUME IInv, [LayoutNext]_layoutVars PROVE IInv'
  OBVIOUS
<1>1. CASE Toggle
  BY <1>1, ToggleLemma
<1>2. CASE Invalidate
  BY <1>2, InvalidateLemma
<1>3. ASSUME NEW t \in Tasks, BeginWrite(t) \/ WriteStep(t) PROVE IInv'
  BY <1>3, BeginWriteLemma, LookUpLemma, AnswersLemma, LookedUpLemma, OpenedLemma, RejectedLemma,
     RecheckedLemma, UploadsLemma DEF WriteStep
<1>4. CASE UNCHANGED layoutVars
  BY <1>4 DEF layoutVars, IInv, MatchesAfterInvalidation, LayoutTypeOK, Answering, Storing, Trusting,
              StaleLayoutRecovered, ReplacedOnce
<1> QED BY <1>1, <1>2, <1>3, <1>4 DEF LayoutNext

\* Any number of tasks that write, find the layout of the bucket out, refresh it and invalidate it in
\* any order while the bucket changes: no write fails, or stores twice, because a layout was out of
\* date, and a layout cached after an invalidation is the bucket's.
THEOREM LayoutIsRight == LayoutSpec => []LayoutRight
<1>1. IInv => LayoutRight
  BY DEF IInv, LayoutRight
<1> QED BY InitLemma, NextLemma, <1>1, PTL DEF LayoutSpec

-----------------------------------------------------------------------------
\* Who closes files, and which file.
Threads == Apps \cup {Loop, Worker}
Closes(e, f) == doing[e] \in {"enters", "waits"} /\ on[e] = f

\* x is in q at most once.
Once(q, x) == \A i, j \in DOMAIN q : q[i] = x /\ q[j] = x => i = j

\* The types; the loop's own thread never waits, and only a thread of the application hires.
CloseTypes ==
  /\ CloseTypeOK
  /\ fileMode \in [Files -> {"rb", "wb"}]
  /\ shut \in [Files -> BOOLEAN] /\ deferred \in [Files -> BOOLEAN] /\ forced \in [Files -> BOOLEAN]
  /\ abandoned \in [Files -> BOOLEAN] /\ sent \in [Files -> Nat]
  /\ worker \in BOOLEAN /\ finalizing \in BOOLEAN
  /\ on \in [Threads -> Files]
  /\ doing[Loop] = "idle" /\ doing[Worker] # "starts"

\* A thread that looked for the worker has one before anybody else can have its file.
Hired ==
  /\ workers = IF worker THEN 1 ELSE 0
  /\ jobs # <<>> \/ doing[Worker] # "idle" => worker
  /\ \A f \in Files : user[f] = Loop => worker
  /\ \A f \in Files : user[f] \in Apps => worker \/ (doing[user[f]] = "starts" /\ on[user[f]] = f)

\* A file is closed by the worker if it was left to it, and by the thread that has it if not.
Parted ==
  \A f \in Files :
    /\ Closes(Worker, f) => deferred[f] /\ ~Contains(jobs, f)
    /\ \A e \in Apps : Closes(e, f) => user[f] = e /\ ~deferred[f]
    /\ \A e \in Threads : Closes(e, f) => ~shut[f] /\ (doing[e] = "waits" => sent[f] > 0)
    /\ \A e \in Threads : Closes(e, f) /\ doing[e] = "enters" => ~forced[f]
    /\ Contains(jobs, f) => deferred[f] /\ ~shut[f] /\ ~forced[f]
    /\ Once(jobs, f)

\* What is sent, and that a file is not closed before.
Sending ==
  \A f \in Files :
    /\ forced[f] => fileMode[f] = "wb"
    /\ fileMode[f] = "wb" => sent[f] = IF forced[f] THEN 1 ELSE 0
    /\ shut[f] => abandoned[f] \/ sent[f] > 0
    /\ forced[f] => shut[f] \/ \E e \in Threads : Closes(e, f)

CloseInv == CloseTypes /\ Hired /\ Parted /\ Sending

-----------------------------------------------------------------------------
\* A file at the end of the queue.
LEMMA Appended ==
  ASSUME NEW S, NEW q \in Seq(S), NEW x \in S
  PROVE  /\ Append(q, x) \in Seq(S) /\ Append(q, x) # <<>>
         /\ \A y : Contains(Append(q, x), y) <=> Contains(q, y) \/ y = x
         /\ \A y : Once(q, y) /\ (y = x => ~Contains(q, x)) => Once(Append(q, x), y)
<1> USE DEF Contains, Once
<1>1. Append(q, x) \in Seq(S) /\ Append(q, x) # <<>>
  <2>1. Append(q, x) \in Seq(S) OBVIOUS
  <2>2. Len(Append(q, x)) = Len(q) + 1 /\ Len(q) \in Nat /\ Len(<<>>) = 0 OBVIOUS
  <2> QED BY <2>1, <2>2
<1>a. /\ Len(q) \in Nat /\ Len(Append(q, x)) = Len(q) + 1 /\ Append(q, x)[Len(q) + 1] = x
      /\ \A i \in 1..Len(q) : Append(q, x)[i] = q[i]
  OBVIOUS
<1>2. ASSUME NEW y PROVE Contains(Append(q, x), y) <=> (Contains(q, y) \/ y = x)
  <2>1. ASSUME NEW i \in 1..(Len(q) + 1) PROVE i \in 1..Len(q) \/ i = Len(q) + 1 BY <1>a
  <2>2. \A i \in 1..Len(q) : i \in 1..(Len(q) + 1) BY <1>a
  <2>3. Len(q) + 1 \in 1..(Len(q) + 1) BY <1>a
  <2> QED BY <1>a, <2>1, <2>2, <2>3
<1>3. \A y : Once(q, y) /\ (y = x => ~Contains(q, x)) => Once(Append(q, x), y) OBVIOUS
<1> QED BY <1>1, <1>2, <1>3

\* The first file of the queue is taken.
LEMMA TookFirst ==
  ASSUME NEW S, NEW q \in Seq(S), q # <<>>
  PROVE  /\ Tail(q) \in Seq(S) /\ Head(q) \in S /\ Contains(q, Head(q))
         /\ \A y : Contains(Tail(q), y) => Contains(q, y)
         /\ \A y : Once(q, y) => Once(Tail(q), y)
         /\ Once(q, Head(q)) => ~Contains(Tail(q), Head(q))
<1> USE DEF Contains, Once
<1>1. Tail(q) \in Seq(S) /\ Head(q) \in S /\ Contains(q, Head(q)) OBVIOUS
<1>2. \A y : Contains(Tail(q), y) => Contains(q, y) OBVIOUS
<1>3. \A y : Once(q, y) => Once(Tail(q), y) OBVIOUS
<1>4. Once(q, Head(q)) => ~Contains(Tail(q), Head(q)) OBVIOUS
<1> QED BY <1>1, <1>2, <1>3, <1>4


\* Each action keeps the invariant, conjunct by conjunct.
USE DeferralAssumption DEF CloseInv, CloseTypes, CloseTypeOK, Hired, Parted, Sending, Threads, Closes

LEMMA ClosesInitially == CloseInit => CloseInv
<1> SUFFICES ASSUME CloseInit PROVE CloseInv OBVIOUS
<1> USE DEF CloseInit, Contains, Once
<1>0. (CHOOSE f \in Files : TRUE) \in Files OBVIOUS
<1>1. CloseTypes
  <2>1. on \in [Threads -> Files] BY <1>0
  <2>2. CloseTypeOK OBVIOUS
  <2> QED BY <2>1, <2>2
<1>2. Hired OBVIOUS
<1>3. Parted OBVIOUS
<1>4. Sending OBVIOUS
<1> QED BY <1>1, <1>2, <1>3, <1>4

LEMMA ConstructKeeps == ASSUME CloseInv, NEW t \in Apps, NEW f \in Files, Construct(t, f) PROVE CloseInv'
<1> USE DEF Construct, Becomes, marks
<1>a. CASE worker
  <2>1. CloseTypes' BY <1>a
  <2>2. Hired' BY <1>a
  <2>3. Parted' BY <1>a
  <2>4. Sending' BY <1>a
  <2> QED BY <2>1, <2>2, <2>3, <2>4
<1>b. CASE ~worker
  <2>0. /\ t # Loop /\ t # Worker /\ doing' = [doing EXCEPT ![t] = "starts"] /\ on' = [on EXCEPT ![t] = f]
        /\ \A e \in Threads, g \in Files : Closes(e, g)' <=> Closes(e, g)
        /\ \A e \in Threads : doing'[e] \in {"enters", "waits"} => doing'[e] = doing[e] /\ on'[e] = on[e]
    BY <1>b
  <2>1. CloseTypes'
    <3>1. doing' \in [Threads -> {"idle", "starts", "enters", "waits"}] /\ on' \in [Threads -> Files] BY <2>0
    <3>2. user' \in [Files -> Apps \cup {Loop, "new", "dropped", "gone"}] OBVIOUS
    <3>3. doing'[Loop] = "idle" /\ doing'[Worker] # "starts" BY <2>0
    <3> QED BY <3>1, <3>2, <3>3
  <2>2. Hired' BY <1>b
  <2>3. Parted' BY <2>0
  <2>4. Sending' BY <2>0
  <2> QED BY <2>1, <2>2, <2>3, <2>4
<1> QED BY <1>a, <1>b

LEMMA StartWorkerKeeps == ASSUME CloseInv, NEW t \in Apps, StartWorker(t) PROVE CloseInv'
<1> USE DEF StartWorker, Becomes, marks
<1>1. CloseTypes' OBVIOUS
<1>2. Hired' OBVIOUS
<1>3. Parted' OBVIOUS
<1>4. Sending' OBVIOUS
<1> QED BY <1>1, <1>2, <1>3, <1>4

LEMMA ConstructFailsKeeps == ASSUME CloseInv, NEW f \in Files, ConstructFails(f) PROVE CloseInv'
<1> USE DEF ConstructFails, marks
<1>1. CloseTypes' OBVIOUS
<1>2. Hired' OBVIOUS
<1>3. Parted' OBVIOUS
<1>4. Sending' OBVIOUS
<1> QED BY <1>1, <1>2, <1>3, <1>4

LEMMA PassesKeeps == ASSUME CloseInv, NEW f \in Files, Passes(f) PROVE CloseInv'
<1> USE DEF Passes, Free, marks
<1>1. CloseTypes' OBVIOUS
<1>2. Hired' OBVIOUS
<1>3. Parted' OBVIOUS
<1>4. Sending' OBVIOUS
<1> QED BY <1>1, <1>2, <1>3, <1>4

\* A file nobody tears down is given up, by its user or as it is collected.
LEMMA AbandonKeeps ==
  ASSUME CloseInv, NEW f \in Files, Abandon(f), ~deferred[f], \A e \in Threads : ~Closes(e, f),
         user' \in [Files -> Apps \cup {Loop, "new", "dropped", "gone"}],
         \A g \in Files : user'[g] \in {user[g], "gone"},
         UNCHANGED <<fileMode, worker, workers, doing, on, finalizing, closeFaults>>,
         \A e \in Apps, g \in Files : Closes(e, g) => user'[g] = user[g]
  PROVE  CloseInv'
<1> USE DEF Abandon
<1>0. Apps \cap {"gone"} = {} /\ Loop # "gone" OBVIOUS
<1>1. CloseTypes' OBVIOUS
<1>2. Hired' BY <1>0
<1>3. Parted' OBVIOUS
<1>4. Sending' OBVIOUS
<1> QED BY <1>1, <1>2, <1>3, <1>4

\* Likewise it is left to the worker: it is not in the queue yet.
LEMMA DeferKeeps ==
  ASSUME CloseInv, NEW f \in Files, Defer(f), ~deferred[f], ~shut[f], worker, \A e \in Threads : ~Closes(e, f),
         user' \in [Files -> Apps \cup {Loop, "new", "dropped", "gone"}],
         \A g \in Files : user'[g] \in {user[g], "gone"},
         UNCHANGED <<fileMode, worker, workers, doing, on, finalizing, closeFaults>>,
         \A e \in Apps, g \in Files : Closes(e, g) => user'[g] = user[g]
  PROVE  CloseInv'
<1> USE DEF Defer
<1>0. Apps \cap {"gone"} = {} /\ Loop # "gone" OBVIOUS
<1>a. /\ jobs' \in Seq(Files) /\ jobs' # <<>> /\ ~Contains(jobs, f)
      /\ \A y : Contains(jobs', y) <=> Contains(jobs, y) \/ y = f
      /\ \A y \in Files : Once(jobs', y)
  BY Appended
<1>f. ~forced[f] OBVIOUS
<1>1. CloseTypes' BY <1>a
<1>2. Hired' BY <1>0
<1>3. Parted' BY <1>a, <1>f
<1>4. Sending' OBVIOUS
<1> QED BY <1>1, <1>2, <1>3, <1>4

LEMMA CloseFileKeeps == ASSUME CloseInv, NEW f \in Files, CloseFile(f) PROVE CloseInv'
<1> USE DEF CloseFile, Closing
<1>1. user[f] \in Apps \cup {Loop} /\ doing[user[f]] = "idle" /\ ~shut[f] /\ ~deferred[f] OBVIOUS
<1>2. \A e \in Threads : ~Closes(e, f)
  BY <1>1
<1>3. CASE finalizing
  BY <1>1, <1>2, <1>3, AbandonKeeps
<1>4. CASE ~finalizing /\ user[f] = Loop
  <2>1. /\ Defer(f) /\ worker /\ UNCHANGED user
        /\ UNCHANGED <<fileMode, worker, workers, doing, on, finalizing, closeFaults>>
    BY <1>1, <1>4
  <2>2. /\ user' \in [Files -> Apps \cup {Loop, "new", "dropped", "gone"}]
        /\ \A g \in Files : user'[g] \in {user[g], "gone"}
        /\ \A e \in Apps, g \in Files : Closes(e, g) => user'[g] = user[g]
    BY <2>1
  <2>3. ~deferred[f] /\ ~shut[f]
    BY <1>1
  <2> HIDE DEF CloseInv, CloseFile, Closes
  <2> QED BY <2>1, <2>2, <2>3, <1>2, DeferKeeps
<1>5. CASE ~finalizing /\ user[f] # Loop
  <2> DEFINE e == user[f]
  <2>0. /\ e \in Apps /\ ~Contains(jobs, f)
        /\ doing' = [doing EXCEPT ![e] = "enters"] /\ on' = [on EXCEPT ![e] = f]
        /\ UNCHANGED <<fileMode, user, shut, deferred, forced, sent, abandoned, worker, workers, jobs, finalizing, closeFaults>>
    BY <1>1, <1>5 DEF Becomes, marks
  <2>f. ~forced[f] BY <1>1, <1>2
  <2>1. CloseTypes' BY <2>0, SMTT(30)
  <2>2. Hired' BY <2>0, <1>1
  <2>3. Parted' BY <2>0, <2>f, <1>1, SMTT(30)
  <2>4. Sending' BY <2>0, <1>1
  <2> QED BY <2>1, <2>2, <2>3, <2>4
<1> QED BY <1>3, <1>4, <1>5

LEMMA CollectKeeps == ASSUME CloseInv, NEW f \in Files, Collect(f) PROVE CloseInv'
<1> USE DEF Collect
<1>1. user[f] = "dropped" /\ user' = [user EXCEPT ![f] = "gone"] /\ ~Contains(jobs, f) OBVIOUS
<1>2. \A e \in Threads : ~Closes(e, f)
  BY <1>1
<1>g. /\ user' \in [Files -> Apps \cup {Loop, "new", "dropped", "gone"}]
      /\ \A g \in Files : user'[g] \in {user[g], "gone"}
      /\ \A e \in Apps, g \in Files : Closes(e, g) => user'[g] = user[g]
      /\ UNCHANGED <<fileMode, worker, workers, doing, on, finalizing, closeFaults>>
  BY <1>1, <1>2
<1>3. CASE shut[f] \/ deferred[f]
  <2> USE DEF marks
  <2>1. CloseTypes' BY <1>1, <1>3, <1>g, SMTT(30)
  <2>2. Hired' BY <1>1, <1>3
  <2>3. Parted' BY <1>1, <1>2, <1>3
  <2>4. Sending' BY <1>1, <1>3
  <2> QED BY <2>1, <2>2, <2>3, <2>4
<1>4. CASE ~(shut[f] \/ deferred[f]) /\ (finalizing \/ ~worker)
  <2>1. Abandon(f) /\ ~deferred[f] BY <1>4
  <2> QED BY <2>1, <1>2, <1>g, AbandonKeeps
<1>5. CASE ~(shut[f] \/ deferred[f]) /\ ~(finalizing \/ ~worker)
  <2>1. Defer(f) /\ ~deferred[f] /\ ~shut[f] /\ worker BY <1>5
  <2> QED BY <2>1, <1>2, <1>g, DeferKeeps
<1> QED BY <1>3, <1>4, <1>5

LEMMA WorkKeeps == ASSUME CloseInv, Work PROVE CloseInv'
<1> USE DEF Work, Becomes, marks
<1>0. /\ Head(jobs) \in Files /\ Contains(jobs, Head(jobs)) /\ jobs' \in Seq(Files)
      /\ \A y \in Files : (Contains(jobs', y) => Contains(jobs, y)) /\ Once(jobs', y)
      /\ ~Contains(jobs', Head(jobs))
  BY TookFirst
<1>1. CloseTypes' BY <1>0
<1>2. Hired' OBVIOUS
<1>3. Parted' BY <1>0
<1>4. Sending' OBVIOUS
<1> QED BY <1>1, <1>2, <1>3, <1>4

LEMMA EnterCloseKeeps == ASSUME CloseInv, NEW e \in Threads, EnterClose(e) PROVE CloseInv'
<1> USE DEF EnterClose, Becomes, marks
<1>1. CloseTypes'
  <2>1. CASE shut[on[e]] \/ forced[on[e]] BY <2>1
  <2>2. CASE ~(shut[on[e]] \/ forced[on[e]])
    <3>1. on[e] \in Files /\ e # Loop OBVIOUS
    <3>2. doing' = [doing EXCEPT ![e] = "waits"] BY <2>2
    <3>3. doing' \in [Threads -> {"idle", "starts", "enters", "waits"}] /\ doing'[Loop] = "idle" /\ doing'[Worker] # "starts"
      BY <3>1, <3>2
    <3>4. sent' = [sent EXCEPT ![on[e]] = sent[on[e]] + 1] BY <2>2, <3>1
    <3>5. sent' \in [Files -> Nat] BY <3>1, <3>4
    <3>6. forced' = [forced EXCEPT ![on[e]] = (fileMode[on[e]] = "wb")] BY <2>2, <3>1
    <3>7. (fileMode[on[e]] = "wb") \in BOOLEAN OBVIOUS
    <3>8. forced' \in [Files -> BOOLEAN] BY <3>1, <3>6, <3>7
    <3> QED BY <2>2, <3>3, <3>5, <3>8
  <2> QED BY <2>1, <2>2
<1>2. Hired' OBVIOUS
<1>3. Parted' OBVIOUS
<1>4. Sending' OBVIOUS
<1> QED BY <1>1, <1>2, <1>3, <1>4

LEMMA CloseDoneKeeps == ASSUME CloseInv, NEW e \in Threads, CloseDone(e) PROVE CloseInv'
<1> USE DEF CloseDone, Becomes
<1>1. CloseTypes' OBVIOUS
<1>2. Hired' OBVIOUS
<1>3. Parted' OBVIOUS
<1>4. Sending' OBVIOUS
<1> QED BY <1>1, <1>2, <1>3, <1>4

LEMMA CloseFailsKeeps == ASSUME CloseInv, NEW e \in Threads, CloseFails(e) PROVE CloseInv'
<1> USE DEF CloseFails, Becomes
<1>1. CloseTypes' OBVIOUS
<1>2. Hired' OBVIOUS
<1>3. Parted' OBVIOUS
<1>4. Sending' OBVIOUS
<1> QED BY <1>1, <1>2, <1>3, <1>4

LEMMA FinalizeKeeps == ASSUME CloseInv, Finalize PROVE CloseInv'
<1> USE DEF Finalize, marks
<1>1. CloseTypes' OBVIOUS
<1>2. Hired' OBVIOUS
<1>3. Parted' OBVIOUS
<1>4. Sending' OBVIOUS
<1> QED BY <1>1, <1>2, <1>3, <1>4

LEMMA CloseStutters == ASSUME CloseInv, UNCHANGED closeVars PROVE CloseInv'
<1> USE DEF closeVars
<1>1. CloseTypes' OBVIOUS
<1>2. Hired' OBVIOUS
<1>3. Parted' OBVIOUS
<1>4. Sending' OBVIOUS
<1> QED BY <1>1, <1>2, <1>3, <1>4

\* So does every step.
LEMMA CloseStays == CloseInv /\ [CloseNext]_closeVars => CloseInv'
<1> SUFFICES ASSUME CloseInv, [CloseNext]_closeVars PROVE CloseInv'
  OBVIOUS
<1>1. DOMAIN doing = Threads OBVIOUS
<1> HIDE DEF CloseInv
<1> QED
  BY <1>1, ConstructKeeps, StartWorkerKeeps, ConstructFailsKeeps, PassesKeeps, CloseFileKeeps, CollectKeeps,
     WorkKeeps, EnterCloseKeeps, CloseDoneKeeps, CloseFailsKeeps, FinalizeKeeps, CloseStutters
  DEF CloseNext, CloseStep

\* And it holds from the start.
LEMMA CloseInvariant == CloseSpec => []CloseInv
  BY ClosesInitially, CloseStays, PTL DEF CloseSpec

\* There is one worker and no more, no file is torn down by two threads or left to the worker and
\* torn down by its user, and a file that says it is closed has been sent, a written one once.
THEOREM ClosesOnce == CloseSpec => []CloseOnce
<1>1. CloseInv => CloseOnce
  <2> SUFFICES ASSUME CloseInv PROVE CloseOnce
    OBVIOUS
  <2>1. OneWorker BY DEF OneWorker
  <2>2. OneCloser
    <3> SUFFICES ASSUME NEW f \in Files
                 PROVE  /\ \A d, e \in Closer(f) : d = e
                        /\ Contains(jobs, f) => Closer(f) = {} /\ deferred[f] /\ Once(jobs, f)
      BY DEF OneCloser, Once
    <3>1. \A e : e \in Closer(f) <=> e \in Threads /\ Closes(e, f) BY DEF Closer
    <3>2. \A e \in Threads : Closes(e, f) =>
            (e = Worker /\ deferred[f] /\ ~Contains(jobs, f)) \/ (e = user[f] /\ ~deferred[f])
      <4> SUFFICES ASSUME NEW e \in Threads, Closes(e, f)
                   PROVE  (e = Worker /\ deferred[f] /\ ~Contains(jobs, f)) \/ (e = user[f] /\ ~deferred[f])
        OBVIOUS
      <4>1. e # Loop OBVIOUS
      <4>2. CASE e = Worker BY <4>2
      <4>3. CASE e \in Apps BY <4>3
      <4> QED BY <4>1, <4>2, <4>3
    <3>3. Contains(jobs, f) => deferred[f] /\ Once(jobs, f) OBVIOUS
    <3> HIDE DEF Closes, CloseInv
    <3> QED BY <3>1, <3>2, <3>3
  <2>3. ClosedIsSent
    <3> SUFFICES ASSUME NEW f \in Files, shut[f]
                 PROVE  Closer(f) = {} /\ (abandoned[f] \/ sent[f] > 0) /\ (fileMode[f] = "wb" => sent[f] <= 1)
      BY DEF ClosedIsSent
    <3>1. Closer(f) = {} BY DEF Closer
    <3>2. abandoned[f] \/ sent[f] > 0 OBVIOUS
    <3>3. fileMode[f] = "wb" => sent[f] <= 1 OBVIOUS
    <3> QED BY <3>1, <3>2, <3>3
  <2> QED BY <2>1, <2>2, <2>3 DEF CloseOnce
<1> QED
  BY <1>1, CloseInvariant, PTL
=============================================================================
