-------------------------- MODULE BucketOpsProofs ---------------------------
(***************************************************************************)
(* The four operations that BucketOps composes.      The waits of Poller   *)
(* end in time and never lose a cancellation, and FolderRename's mv()      *)
(* falls back only after a failure: for all timeouts, delays and limits.   *)
(* InfoLookup's info() says what was true while it ran, however the        *)
(* replies of its two lookups, a cancellation and other clients' changes   *)
(* interleave.  And Deletion's rm() deletes nothing that its paths do not  *)
(* reach, leaves the cached listings true and reports what it did: for all *)
(* bucket contents, paths, depths, batch sizes and failures.  Last, a      *)
(* Listing by pages shows each object that stayed, however the reports of  *)
(* an inventory divide the names.                                          *)
(***************************************************************************)
EXTENDS FolderRename, InfoLookup, Deletion, Listing,
        SequenceTheorems, FiniteSetTheorems, WellFoundedInduction, TLAPS

\* Where the clock may be at each step of a wait.
Timely ==
  /\ pc \in {"start", "loop", "ended"} => now <= Budget + RpcMin
  /\ pc = "sleeping" => now <= until /\ until <= Budget
  /\ pc = "asking" => now <= until /\ until <= Budget + RpcMin

\* A cancellation stops the wait where it is, and only that tells the server.
CancelStops ==
  /\ cancelling => pc \in {"sleeping", "asking", "ended"}
  /\ CancelKept

\* A reply is not older than the operation's end.
RepliesTrue == (reply = "over" => server # "running") /\ OutcomeTrue

PollInv == PollTypeOK /\ Timely /\ CancelStops /\ RepliesTrue

-----------------------------------------------------------------------------
\* A jittered time is positive.
LEMMA JitteredPositive ==
  ASSUME NEW t \in Nat PROVE Jittered(t) \subseteq Nat \ {0}
  BY DEF Jittered

\* So is every delay.
LEMMA DelaysPositive ==
  ASSUME now \in Nat, backoff \in Nat PROVE Delays \subseteq Nat \ {0}
<1> USE TimesPositive
<1>1. now \div 5 \in Nat /\ (4 * Cap) \div 5 \in Nat
  OBVIOUS
<1>2. Min2(Max2(now \div 5, Floor), (4 * Cap) \div 5) \in Nat
  BY <1>1 DEF Min2, Max2
<1>3. PollDelays \subseteq Nat \ {0}
  BY <1>2, JitteredPositive DEF PollDelays
<1>4. Jittered(backoff) \subseteq Nat \ {0}
  BY JitteredPositive
<1> SUFFICES ASSUME NEW delay \in Delays PROVE delay \in Nat \ {0}
  OBVIOUS
<1>5. CASE backoff = 0
  BY <1>3, <1>5 DEF Delays
<1>6. CASE backoff # 0
  <2>1. PICK d \in PollDelays, b \in Jittered(backoff) : delay = Max2(d, b)
    BY <1>6 DEF Delays
  <2> QED
    BY <2>1, <1>3, <1>4 DEF Max2
<1> QED
  BY <1>5, <1>6

\* The backoff after a failed question stays below its cap.
LEMMA BackoffBounded ==
  ASSUME backoff \in 0..BackoffCap, BacksOff PROVE backoff' \in 0..BackoffCap
<1> USE TimesPositive
<1>1. (4 * BackoffCap) \div 5 \in 0..BackoffCap
  OBVIOUS
<1> QED
  BY <1>1 DEF BacksOff, Min2, Max2

-----------------------------------------------------------------------------
LEMMA PollInitInv == PollInit => PollInv
<1> SUFFICES ASSUME PollInit PROVE PollInv
  OBVIOUS
<1> USE TimesPositive DEF PollInit
<1>1. PollTypeOK
  <2>1. now \in Nat /\ until \in Nat /\ backoff \in 0..BackoffCap
    OBVIOUS
  <2>2. (outcome = "none") <=> (pc # "ended")
    OBVIOUS
  <2> QED
    BY <2>1, <2>2 DEF PollTypeOK
<1>2. Timely
  BY DEF Timely
<1>3. CancelStops /\ RepliesTrue
  BY DEF CancelStops, CancelKept, RepliesTrue, OutcomeTrue
<1> QED
  BY <1>1, <1>2, <1>3 DEF PollInv

LEMMA PollNextInv == PollInv /\ [PollNext]_pollVars => PollInv'
<1> SUFFICES ASSUME PollInv, [PollNext]_pollVars PROVE PollInv'
  OBVIOUS
<1> USE TimesPositive DEF PollInv, PollTypeOK, Timely, CancelStops, CancelKept, RepliesTrue, OutcomeTrue
<1>1. CASE Begin
  BY <1>1 DEF Begin, Ended, Result
<1>2. CASE GiveUp
  BY <1>2 DEF GiveUp, Ended
<1>3. CASE Sleep
  <2>1. PICK delay \in Delays : until' = now + Min2(delay, Budget - now)
    BY <1>3 DEF Sleep
  <2>2. delay \in Nat
    BY <2>1, DelaysPositive
  <2>3. until' \in Nat /\ now <= until' /\ until' <= Budget
    BY <1>3, <2>1, <2>2 DEF Sleep, Min2
  <2> QED
    BY <1>3, <2>3 DEF Sleep
<1>4. CASE Ask
  <2>1. until' \in Nat /\ now <= until' /\ until' <= Budget + RpcMin
    BY <1>4 DEF Ask, Min2, Max2
  <2> QED
    BY <1>4, <2>1 DEF Ask
<1>5. CASE Receive
  <2>1. now' <= Budget + RpcMin /\ now' \in Nat
    BY <1>5 DEF Receive
  <2>2. CASE reply = "running" /\ pc' = "loop" /\ backoff' = 0 /\ UNCHANGED outcome
    BY <1>5, <2>1, <2>2 DEF Receive
  <2>3. CASE reply = "over" /\ Ended(Result) /\ UNCHANGED backoff
    BY <1>5, <2>1, <2>3 DEF Receive, Ended, Result
  <2>4. CASE reply = "transient" /\ pc' = "loop" /\ BacksOff /\ UNCHANGED outcome
    BY <1>5, <2>1, <2>4, BackoffBounded DEF Receive
  <2>5. CASE reply = "fatal" /\ Ended("error") /\ UNCHANGED backoff
    BY <1>5, <2>1, <2>5 DEF Receive, Ended
  <2> QED
    BY <1>5, <2>2, <2>3, <2>4, <2>5 DEF Receive
<1>6. CASE NoAnswer
  BY <1>6, BackoffBounded DEF NoAnswer
<1>7. CASE Cancelled
  BY <1>7 DEF Cancelled, Ended
<1>8. CASE Signalled
  BY <1>8 DEF Signalled
<1>9. CASE Answer
  BY <1>9 DEF Answer
<1>10. CASE Cancel
  BY <1>10 DEF Cancel
<1>11. CASE ServerEnds
  BY <1>11 DEF ServerEnds
<1>12. CASE Tick
  BY <1>12 DEF Tick
<1>13. CASE UNCHANGED pollVars
  BY <1>13 DEF pollVars
<1> QED
  BY <1>1, <1>2, <1>3, <1>4, <1>5, <1>6, <1>7, <1>8, <1>9, <1>10, <1>11, <1>12, <1>13 DEF PollNext, PollStep

\* poll_lro() on its own, whoever calls it: it keeps to its limit, to its
\* cancellation and to the truth.
THEOREM PollerIsSound == PollSpec => [](OnTime /\ CancelKept /\ OutcomeTrue)
<1>1. PollInv => OnTime
  BY TimesPositive DEF PollInv, PollTypeOK, Timely, OnTime
<1>2. PollInv => CancelKept /\ OutcomeTrue
  BY DEF PollInv, CancelStops, RepliesTrue
<1> QED
  BY <1>1, <1>2, PollInitInv, PollNextInv, PTL DEF PollSpec

-----------------------------------------------------------------------------
\* What mv() knows of the operation at each of its steps.
MoveInv ==
  /\ mv \in {"request", "waiting", "moved", "raised", "copying"} /\ accepted \in BOOLEAN
  /\ mv = "request" => ~accepted
  /\ mv = "waiting" => accepted
  /\ MovedIsMoved /\ FallsBackOnlyAfterFailure

IInv == PollInv /\ MoveInv

LEMMA InitIInv == Init => IInv
  BY PollInitInv DEF Init, IInv, MoveInv, MovedIsMoved, FallsBackOnlyAfterFailure

LEMMA NextIInv == IInv /\ [Next]_vars => IInv'
<1> SUFFICES ASSUME IInv, [Next]_vars PROVE IInv'
  OBVIOUS
<1>1. [PollNext]_pollVars
  BY DEF Next, vars, Submit, Refused, Wait, Unwatched, MvEnds, PollNext, PollStep
<1>2. PollInv'
  BY <1>1, PollNextInv DEF IInv
<1> USE DEF MoveInv, MovedIsMoved, FallsBackOnlyAfterFailure
<1>3. ASSUME Submit PROVE MoveInv'
  BY <1>3 DEF Submit, pollVars, IInv
<1>4. ASSUME Refused PROVE MoveInv'
  BY <1>4 DEF Refused, pollVars, IInv
<1>5. ASSUME Wait PROVE MoveInv'
  BY <1>5 DEF Wait, IInv
<1>6. ASSUME Unwatched PROVE MoveInv'
  BY <1>6 DEF Unwatched, ServerEnds, Signalled, IInv
<1>7. ASSUME MvEnds PROVE MoveInv'
  BY <1>7 DEF MvEnds, pollVars, IInv, PollInv, RepliesTrue, OutcomeTrue
<1>8. ASSUME UNCHANGED vars PROVE MoveInv'
  BY <1>8 DEF vars, pollVars, IInv
<1>9. MoveInv'
  BY <1>3, <1>4, <1>5, <1>6, <1>7, <1>8 DEF Next
<1> QED
  BY <1>2, <1>9 DEF IInv

LEMMA Invariance == Spec => []IInv
<1> QED
  BY InitIInv, NextIInv, PTL DEF Spec

\* A wait lasts at most as long as its limit and one last question (poll_lro).
THEOREM WaitsOnTime == Spec => []OnTime
<1>1. IInv => OnTime
  BY TimesPositive DEF IInv, PollInv, PollTypeOK, Timely, OnTime
<1> QED
  BY <1>1, Invariance, PTL

\* No reply hides a cancellation, and nothing else cancels the operation
\* (_wait_keeping_cancel and poll_lro).
THEOREM CancelsAreKept == Spec => []CancelKept
<1>1. IInv => CancelKept
  BY DEF IInv, PollInv, CancelStops
<1> QED
  BY <1>1, Invariance, PTL

\* mv() copies and deletes objects only if the server renames nothing: the
\* request was refused or the operation failed (ExtendedGcsFileSystem._mv).
THEOREM FallBackIsSafe == Spec => []FallsBackOnlyAfterFailure
<1>1. IInv => FallsBackOnlyAfterFailure
  BY DEF IInv, MoveInv
<1> QED
  BY <1>1, Invariance, PTL

\* mv() of a folder neither hides a cancellation nor copies while the server may rename:
\* what it does after the wait follows what the wait found out (ExtendedGcsFileSystem._mv).
THEOREM MovesAreHonest == Spec => []MvHonest
BY CancelsAreKept, FallBackIsSafe, PTL DEF MvHonest

\* The end that poll_lro() and unwrap_operation_result() report is the operation's,
\* and mv() reports a rename only if the server has done it
\* (ExtendedGcsFileSystem._mv).
THEOREM ReportsAreTrue == Spec => []ReportsTruth
<1>1. IInv => TypeOK
  BY DEF IInv, MoveInv, PollInv, TypeOK
<1>2. IInv => OutcomeTrue
  BY DEF IInv, PollInv, RepliesTrue
<1>3. IInv => MovedIsMoved
  BY DEF IInv, MoveInv
<1>4. IInv => ReportsTruth
  BY <1>1, <1>2, <1>3 DEF ReportsTruth
<1> QED
  BY <1>4, Invariance, PTL

-----------------------------------------------------------------------------
\* What is there has been there, and what always was is.
Witnessed ==
  /\ was \in [ever : SUBSET Things, always : SUBSET Things]
  /\ was.always \subseteq there /\ there \subseteq was.ever
  /\ hnsPath \in BOOLEAN /\ ownListed \in BOOLEAN
  /\ lookup \in [Lookups -> Endings \cup {"new", "run", "list", "cancel"}]

\* The lookups run during the race, and none is under way once the call is over.
Racing ==
  /\ info = "begin" => \A t \in Lookups : lookup[t] = "new"
  /\ info # "race" => \A t \in Lookups : lookup[t] \notin {"run", "list"}
  /\ info = "race" => \A t \in Lookups : lookup[t] \notin {"new", "cancel", "cancelled"}
  /\ info \in {"race", "settle"} => \A t \in Lookups : lookup[t] # "new"
  /\ info \in {"race", "settle"} => cachedAt \in {"none", "others"} /\ ~ownListed
  /\ info = "settle" => answer \in Endings
  /\ InfoOver => \A t \in Lookups : Finished(t) \/ lookup[t] = "new"

\* What a lookup that asked the server has said was true when it did.
Observed ==
  cachedAt = "none" =>
    /\ lookup["object"] # "directory"
    /\ \A t \in Lookups : lookup[t] = "file" => "object" \in was.ever
    /\ lookup["object"] = "missing" => "object" \notin was.always
    /\ lookup["directory"] = "directory" => Directory(was.ever)
    /\ lookup["directory"] = "missing" => ~Directory(was.always)

\* The call goes by the object's lookup, and by the directory's if there is no object.
Decided(a) ==
  \/ a = "cancelled"
  \/ a \in {"file", "error"} /\ lookup["object"] = a
  \/ lookup["object"] = "missing" /\ lookup["directory"] = a /\ a \in Endings
Deciding ==
  /\ info = "settle" => Decided(answer)
  /\ InfoOver /\ cachedAt = "none" /\ ~ownListed => Decided(info)

InfoInv == InfoTypeOK /\ Witnessed /\ Racing /\ Observed /\ Deciding

\* Each action keeps the invariant, conjunct by conjunct.
USE DEF InfoInv, InfoTypeOK, Witnessed, Racing, Observed, Decided, Deciding, InfoAsks, InfoOver,
  Finished, Endings, Lookups, Things, Directory

LEMMA InfoInitially == InfoInit => InfoInv
<1> SUFFICES ASSUME InfoInit PROVE InfoInv OBVIOUS
<1> USE DEF InfoInit
<1>1. InfoTypeOK OBVIOUS
<1>2. Witnessed OBVIOUS
<1>3. Racing OBVIOUS
<1>4. Observed OBVIOUS
<1>5. Deciding OBVIOUS
<1> QED BY <1>1, <1>2, <1>3, <1>4, <1>5

LEMMA InfoBeginsKeeps == ASSUME InfoInv, InfoBegins PROVE InfoInv'
<1> USE DEF InfoBegins
<1>1. InfoTypeOK' OBVIOUS
<1>2. Witnessed' OBVIOUS
<1>3. Racing' OBVIOUS
<1>4. Observed' OBVIOUS
<1>5. Deciding' OBVIOUS
<1> QED BY <1>1, <1>2, <1>3, <1>4, <1>5

LEMMA ObjectReplyKeeps == ASSUME InfoInv, ObjectReply PROVE InfoInv'
<1> USE DEF ObjectReply, LookupEnds
<1>1. InfoTypeOK' OBVIOUS
<1>2. Witnessed' OBVIOUS
<1>3. Racing' OBVIOUS
<1>4. Observed' OBVIOUS
<1>5. Deciding' OBVIOUS
<1> QED BY <1>1, <1>2, <1>3, <1>4, <1>5

LEMMA ObjectForbiddenKeeps == ASSUME InfoInv, ObjectForbidden PROVE InfoInv'
<1> USE DEF ObjectForbidden, LookupEnds
<1>1. InfoTypeOK' OBVIOUS
<1>2. Witnessed' OBVIOUS
<1>3. Racing' OBVIOUS
<1>4. Observed' OBVIOUS
<1>5. Deciding' OBVIOUS
<1> QED BY <1>1, <1>2, <1>3, <1>4, <1>5

LEMMA ObjectListedKeeps == ASSUME InfoInv, ObjectListed PROVE InfoInv'
<1> USE DEF ObjectListed, LookupEnds
<1>1. InfoTypeOK' OBVIOUS
<1>2. Witnessed' OBVIOUS
<1>3. Racing' OBVIOUS
<1>4. Observed' OBVIOUS
<1>5. Deciding' OBVIOUS
<1> QED BY <1>1, <1>2, <1>3, <1>4, <1>5

LEMMA DirectoryReplyKeeps == ASSUME InfoInv, DirectoryReply PROVE InfoInv'
<1> USE DEF DirectoryReply, LookupEnds
<1>1. InfoTypeOK' OBVIOUS
<1>2. Witnessed' OBVIOUS
<1>3. Racing' OBVIOUS
<1>4. Observed' OBVIOUS
<1>5. Deciding' OBVIOUS
<1> QED BY <1>1, <1>2, <1>3, <1>4, <1>5

LEMMA RaceKeeps == ASSUME InfoInv, Race PROVE InfoInv'
<1> USE DEF Race
<1>1. InfoTypeOK' OBVIOUS
<1>2. Witnessed' OBVIOUS
<1>3. Racing' OBVIOUS
<1>4. Observed' OBVIOUS
<1>5. Deciding' OBVIOUS
<1> QED BY <1>1, <1>2, <1>3, <1>4, <1>5

LEMMA CancelInfoKeeps == ASSUME InfoInv, CancelInfo PROVE InfoInv'
<1> USE DEF CancelInfo
<1>1. InfoTypeOK' OBVIOUS
<1>2. Witnessed' OBVIOUS
<1>3. Racing' OBVIOUS
<1>4. Observed' OBVIOUS
<1>5. Deciding' OBVIOUS
<1> QED BY <1>1, <1>2, <1>3, <1>4, <1>5

LEMMA SettleKeeps == ASSUME InfoInv, Settle PROVE InfoInv'
<1> USE DEF Settle
<1>1. InfoTypeOK' OBVIOUS
<1>2. Witnessed' OBVIOUS
<1>3. Racing' OBVIOUS
<1>4. Observed' OBVIOUS
<1>5. Deciding' OBVIOUS
<1> QED BY <1>1, <1>2, <1>3, <1>4, <1>5

LEMMA LookupFailsKeeps == ASSUME InfoInv, NEW t \in Lookups, LookupFails(t) PROVE InfoInv'
<1> USE DEF LookupFails, LookupEnds
<1>1. InfoTypeOK' OBVIOUS
<1>2. Witnessed' OBVIOUS
<1>3. Racing' OBVIOUS
<1>4. Observed' OBVIOUS
<1>5. Deciding' OBVIOUS
<1> QED BY <1>1, <1>2, <1>3, <1>4, <1>5

LEMMA TaskEndsKeeps == ASSUME InfoInv, NEW t \in Lookups, TaskEnds(t) PROVE InfoInv'
<1> USE DEF TaskEnds, LookupEnds
<1>1. InfoTypeOK' OBVIOUS
<1>2. Witnessed' OBVIOUS
<1>3. Racing' OBVIOUS
<1>4. Observed' OBVIOUS
<1>5. Deciding' OBVIOUS
<1> QED BY <1>1, <1>2, <1>3, <1>4, <1>5

LEMMA PathChangesKeeps == ASSUME InfoInv, NEW S \in SUBSET Things, PathChanges(S) PROVE InfoInv'
<1> USE DEF PathChanges
<1>1. InfoTypeOK' OBVIOUS
<1>2. Witnessed' OBVIOUS
<1>3. Racing' OBVIOUS
<1>4. Observed' OBVIOUS
<1>5. Deciding' OBVIOUS
<1> QED BY <1>1, <1>2, <1>3, <1>4, <1>5

LEMMA InfoStutters == ASSUME InfoInv, UNCHANGED infoVars PROVE InfoInv'
  BY DEF infoVars

HIDE DEF InfoInv, InfoTypeOK, Witnessed, Racing, Observed, Decided, Deciding, InfoAsks, InfoOver,
  Finished, Endings, Lookups, Things, Directory

\* So does every step.
LEMMA InfoStays == InfoInv /\ [InfoNext]_infoVars => InfoInv'
  BY InfoBeginsKeeps, ObjectReplyKeeps, ObjectForbiddenKeeps, ObjectListedKeeps, DirectoryReplyKeeps,
     RaceKeeps, CancelInfoKeeps, SettleKeeps, LookupFailsKeeps, TaskEndsKeeps, PathChangesKeeps,
     InfoStutters DEF InfoNext, InfoStep

\* And it holds from the start.
LEMMA InfoInvariant == InfoSpec => []InfoInv
  BY InfoInitially, InfoStays, PTL DEF InfoSpec

\* Once info() is over none of its lookups is under way, and a call that had to ask says what was
\* so at some time of the call: an object or a directory that was there, or that neither always was.
THEOREM InfoIsHonest == InfoSpec => []InfoHonest
<1>1. InfoInv => InfoHonest
  <2> SUFFICES ASSUME InfoInv PROVE InfoHonest OBVIOUS
  <2> USE DEF InfoInv, InfoTypeOK, Witnessed, Racing, Observed, Decided, Deciding, InfoOver, Endings, Lookups
  <2>1. InfoOver => \A t \in Lookups : Finished(t) \/ lookup[t] = "new" OBVIOUS
  <2>2. InfoOver /\ cachedAt = "none" /\ ~ownListed => Decided(info) OBVIOUS
  <2> QED BY <2>1, <2>2 DEF InfoHonest
<1> QED BY <1>1, InfoInvariant, PTL

-----------------------------------------------------------------------------
(* Names as sequences of parts.                                             *)

\* The object or directory that a name stands for: a marker stands for its directory.
Of(n) == IF IsMarker(n) THEN Front(n) ELSE n
\* What a path reaches, whatever its depth.
Reaches(q, n) == IF q.star THEN IsStrictPrefix(q.name, Of(n)) ELSE IsPrefix(q.name, Of(n))
Deepest(q) == Len(q.name) + IF rmCall.recursive THEN rmCall.maxdepth ELSE IF q.star THEN 1 ELSE 0

LEMMA BeginsWith ==
  ASSUME NEW p \in Names, NEW q \in Names
  PROVE  IsPrefix(p, q) <=> Len(p) <= Len(q) /\ \A i \in 1..Len(p) : p[i] = q[i]
<1> USE DEF Names
<1>1. CASE Len(p) <= Len(q)
  <2>1. SubSeq(p, 1, Len(p)) = p
    OBVIOUS
  <2>2. \A i \in 1..Len(p) : q[i] \in Parts
    BY <1>1
  <2>3. /\ SubSeq(q, 1, Len(p)) \in Seq(Parts) /\ Len(SubSeq(q, 1, Len(p))) = Len(p)
        /\ \A i \in 1..Len(p) : SubSeq(q, 1, Len(p))[i] = q[i]
    BY <1>1
  <2> QED
    BY <1>1, <2>1, <2>3, SeqEqual DEF IsPrefix
<1>2. CASE ~(Len(p) <= Len(q))
  BY <1>2 DEF IsPrefix
<1> QED
  BY <1>1, <1>2

LEMMA Fronts ==
  ASSUME NEW p \in Names, p # Root
  PROVE  /\ Front(p) \in Names /\ Len(p) \in Nat \ {0} /\ Len(Front(p)) = Len(p) - 1
         /\ \A i \in 1..Len(p) - 1 : Front(p)[i] = p[i]
<1> DEFINE n == Len(p) - 1
<1> USE DEF Names, Root
<1>1. n \in Nat /\ \A i \in 1..n : p[i] \in Parts
  OBVIOUS
<1> HIDE DEF n
<1>2. /\ SubSeq(p, 1, n) \in Seq(Parts) /\ Len(SubSeq(p, 1, n)) = n
      /\ \A i \in 1..n : SubSeq(p, 1, n)[i] = p[i]
  BY <1>1
<1> QED
  BY <1>1, <1>2 DEF Front, n

LEMMA FrontBegins ==
  ASSUME NEW p \in Names, NEW c \in Names, c # Root
  PROVE  IsStrictPrefix(p, c) <=> IsPrefix(p, Front(c))
<1>0. Len(p) \in Nat /\ Len(c) \in Nat
  BY DEF Names
<1>1. /\ Front(c) \in Names /\ Len(c) \in Nat \ {0} /\ Len(Front(c)) = Len(c) - 1
      /\ \A i \in 1..Len(c) - 1 : Front(c)[i] = c[i]
  BY Fronts
<1>2. ASSUME IsStrictPrefix(p, c) PROVE IsPrefix(p, Front(c))
  <2>1. Len(p) <= Len(c) /\ (\A i \in 1..Len(p) : p[i] = c[i]) /\ p # c
    BY <1>2, BeginsWith DEF IsStrictPrefix
  <2>2. Len(p) # Len(c)
    BY <2>1, SeqEqual DEF Names
  <2>3. Len(p) <= Len(Front(c))
    BY <1>0, <1>1, <2>1, <2>2
  <2>4. \A i \in 1..Len(p) : p[i] = Front(c)[i]
    BY <1>0, <1>1, <2>1, <2>3
  <2> QED
    BY <1>1, <2>3, <2>4, BeginsWith
<1>3. ASSUME IsPrefix(p, Front(c)) PROVE IsStrictPrefix(p, c)
  <2>1. Len(p) <= Len(Front(c)) /\ \A i \in 1..Len(p) : p[i] = Front(c)[i]
    BY <1>1, <1>3, BeginsWith
  <2>2. Len(p) <= Len(c) /\ (\A i \in 1..Len(p) : p[i] = c[i]) /\ Len(p) # Len(c)
    BY <1>0, <1>1, <2>1
  <2> QED
    BY <2>2, BeginsWith DEF IsStrictPrefix
<1> QED
  BY <1>2, <1>3

LEMMA BeginsWithItself == \A p \in Names : IsPrefix(p, p) /\ ~IsStrictPrefix(p, p)
BY BeginsWith DEF IsStrictPrefix, Names

LEMMA StrictlyLonger ==
  ASSUME NEW p \in Names, NEW q \in Names, IsStrictPrefix(p, q)
  PROVE  Len(p) < Len(q) /\ q # Root
<1>1. Len(p) <= Len(q) /\ (\A i \in 1..Len(p) : p[i] = q[i]) /\ p # q
  BY BeginsWith DEF IsStrictPrefix
<1>2. Len(p) # Len(q)
  BY <1>1, SeqEqual DEF Names
<1> QED
  BY <1>1, <1>2 DEF Names, Root

LEMMA PrefixOfPrefix ==
  ASSUME NEW p \in Names, NEW q \in Names, NEW r \in Names, IsPrefix(p, q), IsPrefix(q, r)
  PROVE  IsPrefix(p, r) /\ (IsStrictPrefix(p, q) \/ IsStrictPrefix(q, r) => IsStrictPrefix(p, r))
<1>0. Len(p) \in Nat /\ Len(q) \in Nat /\ Len(r) \in Nat
  BY DEF Names
<1>1. /\ Len(p) <= Len(q) /\ \A i \in 1..Len(p) : p[i] = q[i]
      /\ Len(q) <= Len(r) /\ \A i \in 1..Len(q) : q[i] = r[i]
  BY BeginsWith
<1>2. IsPrefix(p, r)
  BY <1>0, <1>1, BeginsWith
<1>3. ASSUME IsStrictPrefix(p, q) \/ IsStrictPrefix(q, r) PROVE Len(p) < Len(r)
  BY <1>0, <1>1, <1>3, StrictlyLonger
<1> QED
  BY <1>0, <1>2, <1>3 DEF IsStrictPrefix

LEMMA RootBegins == \A n \in Names : IsPrefix(Root, n) /\ Root \in Names
<1>1. Root \in Names /\ Len(Root) = 0
  BY DEF Root, Names
<1> SUFFICES ASSUME NEW n \in Names PROVE IsPrefix(Root, n)
  BY <1>1
<1>2. Len(n) \in Nat
  BY DEF Names
<1>3. IsPrefix(Root, n) <=> Len(Root) <= Len(n) /\ \A i \in 1..Len(Root) : Root[i] = n[i]
  BY <1>1, BeginsWith
<1> QED
  BY <1>1, <1>2, <1>3

LEMMA AncestorMeans ==
  ASSUME NEW n \in Names
  PROVE  \A d : d \in Ancestors(n) <=> d \in Names /\ IsStrictPrefix(d, n)
<1> USE DEF Names
<1>1. ASSUME NEW k \in 0..Len(n) - 1 PROVE SubSeq(n, 1, k) \in Names /\ IsStrictPrefix(SubSeq(n, 1, k), n)
  <2>1. /\ SubSeq(n, 1, k) \in Seq(Parts) /\ Len(SubSeq(n, 1, k)) = k
        /\ \A i \in 1..k : SubSeq(n, 1, k)[i] = n[i]
    OBVIOUS
  <2> DEFINE d == SubSeq(n, 1, k)
  <2> HIDE DEF d
  <2>2. d \in Names /\ Len(d) = k /\ \A i \in 1..k : d[i] = n[i]
    BY <2>1 DEF d
  <2>3. IsPrefix(d, n)
    BY <2>2, BeginsWith
  <2>4. d # n
    BY <2>2
  <2> QED
    BY <2>2, <2>3, <2>4 DEF IsStrictPrefix, d
<1>2. ASSUME NEW d \in Names, IsStrictPrefix(d, n) PROVE d \in Ancestors(n)
  <2>1. Len(d) < Len(n) /\ Len(d) \in 0..Len(n) - 1
    BY <1>2, StrictlyLonger
  <2>2. SubSeq(d, 1, Len(d)) = d
    OBVIOUS
  <2>3. d = SubSeq(n, 1, Len(d))
    BY <1>2, <2>2 DEF IsStrictPrefix, IsPrefix
  <2> QED
    BY <2>1, <2>3 DEF Ancestors
<1> QED
  BY <1>1, <1>2 DEF Ancestors

LEMMA ParentsAbove ==
  ASSUME NEW n \in Names, n # Root
  PROVE  /\ Front(n) \in Ancestors(n)
         /\ \A d \in Ancestors(n) \ {Root} : Front(d) \in Ancestors(n)
<1>1. Front(n) \in Names
  BY Fronts
<1>2. IsStrictPrefix(Front(n), n)
  BY <1>1, FrontBegins, BeginsWithItself
<1>3. ASSUME NEW d \in Ancestors(n) \ {Root} PROVE Front(d) \in Ancestors(n)
  <2>1. d \in Names /\ IsStrictPrefix(d, n)
    BY AncestorMeans
  <2>2. Front(d) \in Names /\ IsStrictPrefix(Front(d), d)
    BY <2>1, Fronts, FrontBegins, BeginsWithItself
  <2>3. IsStrictPrefix(Front(d), n)
    BY <2>1, <2>2, PrefixOfPrefix DEF IsStrictPrefix
  <2> QED
    BY <2>2, <2>3, AncestorMeans
<1> QED
  BY <1>1, <1>2, <1>3, AncestorMeans

\* The names above one are its parent and the names above that.
LEMMA AncestorsAbove ==
  ASSUME NEW n \in Names
  PROVE  /\ \A d \in Ancestors(n) : Ancestors(d) \subseteq Ancestors(n)
         /\ n # Root => Ancestors(n) \subseteq Ancestors(Front(n)) \cup {Front(n)}
<1>1. ASSUME NEW d \in Ancestors(n), NEW e \in Ancestors(d) PROVE e \in Ancestors(n)
  <2>1. d \in Names /\ IsStrictPrefix(d, n)
    BY AncestorMeans
  <2>2. e \in Names /\ IsStrictPrefix(e, d)
    BY <2>1, AncestorMeans
  <2> QED
    BY <2>1, <2>2, AncestorMeans, PrefixOfPrefix DEF IsStrictPrefix
<1>2. ASSUME n # Root, NEW d \in Ancestors(n), d # Front(n) PROVE d \in Ancestors(Front(n))
  <2>1. d \in Names /\ IsStrictPrefix(d, n) /\ Front(n) \in Names
    BY <1>2, AncestorMeans, Fronts
  <2>2. IsPrefix(d, Front(n))
    BY <1>2, <2>1, FrontBegins
  <2> QED
    BY <1>2, <2>1, <2>2, AncestorMeans DEF IsStrictPrefix
<1> QED
  BY <1>1, <1>2

LEMMA Markers ==
  ASSUME NEW d \in Names
  PROVE  Marker(d) \in Names /\ IsMarker(Marker(d)) /\ Front(Marker(d)) = d /\ Of(Marker(d)) = d
<1>e. PICK e \in Parts : e = ""
  <2>1. "" \in Parts
    BY DeletionAssumption, Zenon
  <2> QED
    BY <2>1
<1>0. d \in Seq(Parts) /\ Len(d) \in Nat
  BY DEF Names
<1>1. /\ Append(d, e) \in Seq(Parts) /\ Len(Append(d, e)) = Len(d) + 1
      /\ Append(d, e)[Len(d) + 1] = e /\ \A i \in 1..Len(d) : Append(d, e)[i] = d[i]
  BY <1>0, AppendProperties
<1>m. Marker(d) = Append(d, e)
  BY <1>e DEF Marker
<1>2. Marker(d) # Root
  <2>1. Len(<<>>) = 0
    OBVIOUS
  <2> QED
    BY <1>0, <1>1, <1>m, <2>1 DEF Root
<1>3. IsMarker(Marker(d))
  BY <1>e, <1>0, <1>1, <1>2, <1>m DEF IsMarker, Last
<1> DEFINE m == Marker(d)
<1>4. m \in Names /\ Len(m) = Len(d) + 1 /\ \A i \in 1..Len(d) : m[i] = d[i]
  BY <1>0, <1>1, <1>m DEF Names
<1> HIDE DEF m
<1>5. Front(m) \in Names /\ Len(Front(m)) = Len(d) /\ \A i \in 1..Len(d) : Front(m)[i] = d[i]
  <2>1. m # Root
    BY <1>2 DEF m
  <2>2. Len(Front(m)) = Len(m) - 1 /\ Front(m) \in Names /\ \A i \in 1..Len(m) - 1 : Front(m)[i] = m[i]
    BY <1>4, <2>1, Fronts
  <2> QED
    BY <1>0, <1>4, <2>2
<1>6. Front(m) = d
  BY <1>5, SeqEqual DEF Names
<1> QED
  BY <1>3, <1>4, <1>6 DEF Of, m

LEMMA StandsFor ==
  ASSUME NEW n \in Names
  PROVE  /\ Of(n) \in Names /\ Len(Of(n)) <= Len(n)
         /\ \A p \in Names : IsPrefix(p, Of(n)) => IsPrefix(p, n)
         /\ \A p \in Names : IsPrefix(p, n) /\ ~IsMarker(p) => IsPrefix(p, Of(n))
         /\ ~IsMarker(n) => Of(n) = n
<1>1. CASE ~IsMarker(n)
  BY <1>1 DEF Of, Names
<1>2. CASE IsMarker(n)
  <2>1. n # Root /\ Of(n) = Front(n)
    BY <1>2 DEF IsMarker, Of
  <2>2. Front(n) \in Names /\ Len(Front(n)) = Len(n) - 1 /\ Len(n) \in Nat
    BY <2>1, Fronts
  <2>3. \A p \in Names : IsPrefix(p, Front(n)) => IsPrefix(p, n)
    BY <2>1, FrontBegins DEF IsStrictPrefix
  <2>4. \A p \in Names : IsPrefix(p, n) /\ ~IsMarker(p) => IsPrefix(p, Front(n))
    BY <1>2, <2>1, FrontBegins DEF IsStrictPrefix
  <2> QED
    BY <1>2, <2>1, <2>2, <2>3, <2>4
<1> QED
  BY <1>1, <1>2

LEMMA ObjectNamesAre ==
  ASSUME NEW n \in ObjectNames
  PROVE  /\ n \in Names /\ n # Root /\ ~IsMarker(Of(n))
         /\ \A d \in Ancestors(n) : d \in Names /\ ~IsMarker(d)
<1>1. n \in Names /\ n # Root /\ \A d \in Ancestors(n) : ~IsMarker(d)
  BY DEF ObjectNames
<1>2. Front(n) \in Ancestors(n)
  BY <1>1, ParentsAbove
<1> QED
  BY <1>1, <1>2, AncestorMeans DEF Of
-----------------------------------------------------------------------------
(* Finite sets: what a call finds can be put in order and cut into batches. *)

LEMMA EntriesFinite ==
  ASSUME NEW S, IsFiniteSet(S)
  PROVE  IsFiniteSet(FileEntries(S)) /\ IsFiniteSet(DirEntries(S))
<1>1. [n \in S |-> <<n, "file">>] \in Surjection(S, FileEntries(S))
  BY DEF Surjection, FileEntries
<1>2. [n \in S |-> <<n, "directory">>] \in Surjection(S, DirEntries(S))
  BY DEF Surjection, DirEntries
<1> QED
  BY <1>1, <1>2, FS_Surjection

LEMMA NamesFinite ==
  ASSUME NEW S, IsFiniteSet(S), NEW type
  PROVE  IsFiniteSet(NamesOf(S, type)) /\ IsFiniteSet({e[1] : e \in S})
<1> DEFINE T == {x \in S : x[2] = type}
<1>1. IsFiniteSet(T)
  BY FS_Subset
<1>2. [e \in T |-> e[1]] \in Surjection(T, NamesOf(S, type))
  BY DEF Surjection, NamesOf
<1>3. [e \in S |-> e[1]] \in Surjection(S, {e[1] : e \in S})
  BY DEF Surjection
<1> HIDE DEF T
<1> QED
  BY <1>1, <1>2, <1>3, FS_Surjection

LEMMA AncestorsFinite ==
  ASSUME NEW S, IsFiniteSet(S), S \subseteq Names
  PROVE  IsFiniteSet(UNION {Ancestors(n) : n \in S})
<1> DEFINE T == {Ancestors(n) : n \in S}
<1>1. [n \in S |-> Ancestors(n)] \in Surjection(S, T)
  BY DEF Surjection
<1>2. IsFiniteSet(T)
  BY <1>1, FS_Surjection
<1>3. ASSUME NEW n \in S PROVE IsFiniteSet(Ancestors(n))
  <2> DEFINE K == 0..Len(n) - 1
  <2>1. Len(n) \in Nat
    BY DEF Names
  <2>2. IsFiniteSet(K)
    BY <2>1, FS_Interval
  <2>3. [k \in K |-> SubSeq(n, 1, k)] \in Surjection(K, Ancestors(n))
    BY DEF Surjection, Ancestors
  <2> HIDE DEF K
  <2> QED
    BY <2>2, <2>3, FS_Surjection
<1>4. \A A \in T : IsFiniteSet(A)
  BY <1>3
<1> HIDE DEF T
<1>5. IsFiniteSet(UNION T)
  BY <1>2, <1>4, FS_UNION
<1> QED
  BY <1>5 DEF T

LEMMA SetToSeqIs ==
  ASSUME NEW S, IsFiniteSet(S)
  PROVE  /\ SetToSeq(S) \in Seq(S) /\ DOMAIN SetToSeq(S) = 1..Len(SetToSeq(S))
         /\ \A x \in S : \E i \in DOMAIN SetToSeq(S) : SetToSeq(S)[i] = x
<1> DEFINE n == Cardinality(S)
           good(f) == f \in [1..n -> S] /\ IsInjective(f)
<1>1. n \in Nat /\ ExistsBijection(1..n, S)
  BY FS_CardinalityType
<1>2. PICK g \in Bijection(1..n, S) : TRUE
  BY <1>1 DEF ExistsBijection
<1>3. g \in [1..n -> S] /\ IsInjective(g)
  BY <1>2 DEF Bijection, Injection
<1> DEFINE s == SetToSeq(S)
<1>4. s \in [1..n -> S] /\ IsInjective(s)
  BY <1>3 DEF SetToSeq
<1>5. s \in Injection(1..n, S)
  BY <1>4 DEF Injection
<1>6. IsFiniteSet(1..n) /\ Cardinality(1..n) = n
  BY <1>1, FS_Interval
<1> HIDE DEF s
<1>7. s \in Surjection(1..n, S)
  BY <1>5, <1>6, FS_Injection
<1>8. s \in Seq(S) /\ Len(s) = n
  BY <1>1, <1>4
<1>9. \A x \in S : \E i \in 1..n : s[i] = x
  BY <1>7 DEF Surjection
<1> QED
  BY <1>4, <1>8, <1>9 DEF s

LEMMA BatchesAre ==
  ASSUME NEW S, IsFiniteSet(S)
  PROVE  /\ \A job \in Batches(S) : job.left \subseteq S /\ IsFiniteSet(job.left) /\ job = [left |-> job.left, sent |-> 0]
         /\ \A n \in S : \E job \in Batches(S) : n \in job.left
<1> DEFINE s == SetToSeq(S)
           number(j) == (j - 1) \div BatchSize
           batch(i) == {s[j] : j \in {k \in DOMAIN s : number(k) = number(i)}}
<1>1. Batches(S) = {[left |-> batch(i), sent |-> 0] : i \in DOMAIN s}
  BY DEF Batches
<1>2. \A i \in DOMAIN s : s[i] \in S
  BY SetToSeqIs
<1>3. \A i \in DOMAIN s : batch(i) \subseteq S /\ s[i] \in batch(i)
  BY <1>2
<1>4. \A n \in S : \E i \in DOMAIN s : s[i] = n
  BY SetToSeqIs
<1> HIDE DEF s, batch
<1>5. \A i \in DOMAIN s : IsFiniteSet(batch(i))
  BY <1>3, FS_Subset
<1>6. ASSUME NEW job \in Batches(S)
      PROVE  job.left \subseteq S /\ IsFiniteSet(job.left) /\ job = [left |-> job.left, sent |-> 0]
  <2>1. PICK i \in DOMAIN s : job = [left |-> batch(i), sent |-> 0]
    BY <1>1
  <2>2. job.left = batch(i)
    BY <2>1
  <2> QED
    BY <1>3, <1>5, <2>1, <2>2
<1>7. ASSUME NEW n \in S PROVE \E job \in Batches(S) : n \in job.left
  <2>1. PICK i \in DOMAIN s : s[i] = n
    BY <1>4
  <2>2. [left |-> batch(i), sent |-> 0] \in Batches(S) /\ [left |-> batch(i), sent |-> 0].left = batch(i)
    BY <1>1
  <2> QED
    BY <1>3, <2>1, <2>2
<1> QED
  BY <1>6, <1>7
-----------------------------------------------------------------------------
(* The state of a call.                                                     *)

Entries == Names \X {"file", "directory"}
PathRecs == [name : Names, star : BOOLEAN, depth : Nat]
Jobs == [left : SUBSET Names, sent : Nat]
GroupStates ==
  [stage : {"expand", "files", "dirs", "over"}, todo : Seq(PathRecs), asked : SUBSET {"objects", "folders"},
   found : SUBSET Entries, jobs : SUBSET Jobs, gone : SUBSET Entries, failed : BOOLEAN,
   listed : SUBSET Entries, unsure : SUBSET Names,
   dirs : SUBSET Names, marked : SUBSET Names, ended : {"no", "done", "missing", "error"}]

RmShape ==
  /\ rmCall \in RmCalls /\ rmFaults \in Nat
  /\ DOMAIN objects = Groups /\ DOMAIN folders = Groups /\ DOMAIN group = Groups
  /\ DOMAIN shown = Groups /\ DOMAIN created = Groups

\* A bucket is a tree of folders over its objects, and what it holds was there or has been created.
BucketOK(b) ==
  /\ objects[b] \subseteq ObjectNames /\ folders[b] \subseteq Names
  /\ IsFiniteSet(objects[b]) /\ IsFiniteSet(folders[b])
  /\ \A d \in folders[b] : ~IsMarker(d)
  /\ Hns(b) => \A n \in objects[b] \cup folders[b] : Ancestors(n) \subseteq folders[b]
  /\ ~Hns(b) => folders[b] \subseteq {Root}
  /\ objects[b] \subseteq rmCall.objects[b] \cup created[b]
  /\ folders[b] \subseteq rmCall.folders[b] \cup created[b]

Sizes(b) ==
  /\ group[b] \in GroupStates /\ shown[b] \subseteq Entries
  /\ IsFiniteSet(group[b].found)
  /\ \A job \in group[b].jobs : IsFiniteSet(job.left)
  /\ (group[b].ended = "no") <=> (group[b].stage # "over")

\* A path still to be expanded is one of the call's or a match of a pattern of it.
Within(b, q) ==
  \E i \in DOMAIN rmCall.paths[b] : LET r == rmCall.paths[b][i] IN
    \/ q = ToExpand(r.name, r.star, rmCall.maxdepth)
    \/ /\ rmCall.recursive /\ r.star /\ ~q.star /\ rmCall.maxdepth # 1
       /\ q.depth = IF rmCall.maxdepth = 0 THEN 0 ELSE rmCall.maxdepth - 1
       /\ ~IsMarker(q.name) /\ IsStrictPrefix(r.name, q.name) /\ Len(q.name) = Len(r.name) + 1

\* Whatever the call has in hand is in its scope.
Scoped(b) ==
  /\ \A i \in DOMAIN group[b].todo : Within(b, group[b].todo[i])
  /\ \A e \in group[b].found : InScope(b, e[1]) /\ (e[2] = "directory" => ~IsMarker(e[1]))
  /\ \A job \in group[b].jobs : \A n \in job.left : InScope(b, n)
  /\ \A d \in group[b].dirs : InScope(b, d) /\ ~IsMarker(d)

\* The state of a group while its call runs.
Holds(b) == BucketOK(b) /\ Sizes(b) /\ Scoped(b)
World == RmShape /\ \A b \in Groups : Holds(b)

-----------------------------------------------------------------------------
(* Scope.                                                                   *)

LEMMA CallFacts ==
  ASSUME rmCall \in RmCalls, NEW b \in Groups
  PROVE  /\ Hns(b) \in BOOLEAN /\ rmCall.recursive \in BOOLEAN /\ rmCall.maxdepth \in Nat
         /\ rmCall.paths[b] \in Seq([name : Names, star : BOOLEAN])
         /\ \A i \in DOMAIN rmCall.paths[b] :
              /\ rmCall.paths[b][i] \in [name : Names, star : BOOLEAN]
              /\ ~IsMarker(rmCall.paths[b][i].name)
<1>1. /\ rmCall.recursive \in BOOLEAN /\ rmCall.maxdepth \in Nat /\ b \in DOMAIN rmCall.paths
      /\ rmCall.hns[b] \in BOOLEAN /\ rmCall.paths[b] \in Seq([name : Names, star : BOOLEAN])
      /\ \A i \in DOMAIN rmCall.paths[b] : ~IsMarker(rmCall.paths[b][i].name)
  BY DeletionAssumption DEF Groups
<1>2. ASSUME NEW S, NEW p \in Seq(S), NEW i \in DOMAIN p PROVE p[i] \in S
  OBVIOUS
<1> QED
  BY <1>1, <1>2 DEF Hns

LEMMA BucketFacts ==
  ASSUME rmCall \in RmCalls, NEW b \in Groups
  PROVE  /\ IsFiniteSet(rmCall.objects[b]) /\ IsFiniteSet(rmCall.folders[b])
         /\ rmCall.objects[b] \subseteq ObjectNames
         /\ Root \in rmCall.folders[b] /\ rmCall.folders[b] \subseteq Names
         /\ \A n \in rmCall.folders[b] : ~IsMarker(n) /\ Ancestors(n) \subseteq rmCall.folders[b]
         /\ Hns(b) => \A n \in rmCall.objects[b] : Front(n) \in rmCall.folders[b]
         /\ ~Hns(b) => rmCall.folders[b] = {Root}
BY DeletionAssumption DEF Groups, Hns

LEMMA ScopeIs ==
  ASSUME NEW b, NEW n
  PROVE  InScope(b, n) <=> \E i \in DOMAIN rmCall.paths[b] :
           /\ Reaches(rmCall.paths[b][i], n)
           /\ Unbounded \/ Len(Of(n)) <= Deepest(rmCall.paths[b][i])
BY DEF InScope, Reaches, Of, Deepest

\* The names of a pattern's matches, and what is expanded for them.
LEMMA PathWithin ==
  ASSUME rmCall \in RmCalls, NEW b \in Groups, NEW q, Within(b, q), q \in PathRecs
  PROVE  /\ ~IsMarker(q.name)
         /\ q.star => \E i \in DOMAIN rmCall.paths[b] :
              q.name = rmCall.paths[b][i].name /\ rmCall.paths[b][i].star /\ q.depth = rmCall.maxdepth
         /\ ~q.star => \E i \in DOMAIN rmCall.paths[b] : LET r == rmCall.paths[b][i] IN
              \/ ~r.star /\ q.name = r.name /\ q.depth = rmCall.maxdepth
              \/ /\ rmCall.recursive /\ r.star /\ rmCall.maxdepth # 1
                 /\ q.depth = IF rmCall.maxdepth = 0 THEN 0 ELSE rmCall.maxdepth - 1
                 /\ IsStrictPrefix(r.name, q.name) /\ Len(q.name) = Len(r.name) + 1
<1>1. PICK i \in DOMAIN rmCall.paths[b] : LET r == rmCall.paths[b][i] IN
        \/ q = ToExpand(r.name, r.star, rmCall.maxdepth)
        \/ /\ rmCall.recursive /\ r.star /\ ~q.star /\ rmCall.maxdepth # 1
           /\ q.depth = IF rmCall.maxdepth = 0 THEN 0 ELSE rmCall.maxdepth - 1
           /\ ~IsMarker(q.name) /\ IsStrictPrefix(r.name, q.name) /\ Len(q.name) = Len(r.name) + 1
  BY DEF Within
<1> DEFINE r == rmCall.paths[b][i]
<1>2. ~IsMarker(r.name)
  BY CallFacts
<1> HIDE DEF r
<1>3. CASE q = ToExpand(r.name, r.star, rmCall.maxdepth)
  <2>1. q.name = r.name /\ q.star = r.star /\ q.depth = rmCall.maxdepth
    BY <1>3 DEF ToExpand
  <2> QED
    BY <1>2, <2>1 DEF r
<1>4. CASE q # ToExpand(r.name, r.star, rmCall.maxdepth)
  BY <1>1, <1>4 DEF r
<1> QED
  BY <1>3, <1>4

LEMMA PathReaches ==
  ASSUME rmCall \in RmCalls, NEW b \in Groups, NEW q, Within(b, q), q \in PathRecs, ~q.star
  PROVE  /\ InScope(b, q.name)
         /\ rmCall.recursive => \A n \in Names :
              IsPrefix(q.name, n) /\ (q.depth = 0 \/ Len(n) <= Len(q.name) + q.depth) => InScope(b, n)
<1>1. q.name \in Names /\ q.depth \in Nat /\ ~IsMarker(q.name) /\ Of(q.name) = q.name
  BY PathWithin DEF PathRecs, Of
<1>2. rmCall.maxdepth \in Nat
  BY CallFacts
<1>3. PICK i \in DOMAIN rmCall.paths[b] : LET r == rmCall.paths[b][i] IN
        \/ ~r.star /\ q.name = r.name /\ q.depth = rmCall.maxdepth
        \/ /\ rmCall.recursive /\ r.star /\ rmCall.maxdepth # 1
           /\ q.depth = IF rmCall.maxdepth = 0 THEN 0 ELSE rmCall.maxdepth - 1
           /\ IsStrictPrefix(r.name, q.name) /\ Len(q.name) = Len(r.name) + 1
  BY PathWithin
<1> DEFINE r == rmCall.paths[b][i]
<1>4. r \in [name : Names, star : BOOLEAN] /\ r.name \in Names /\ r.star \in BOOLEAN
  BY CallFacts
<1>5. Len(q.name) \in Nat /\ Len(r.name) \in Nat
  BY <1>1, <1>4 DEF Names
<1>6. /\ \A n \in Names : Reaches(r, n) /\ (Unbounded \/ Len(Of(n)) <= Deepest(r)) => InScope(b, n)
  BY ScopeIs
<1>7. ASSUME NEW n \in Names, IsPrefix(q.name, Of(n)) PROVE Reaches(r, n)
  <2>1. Of(n) \in Names
    BY StandsFor
  <2> QED
    BY <1>1, <1>3, <1>4, <1>7, <2>1, PrefixOfPrefix DEF Reaches, IsStrictPrefix
<1>8. Unbounded \/ Len(q.name) <= Deepest(r)
  BY <1>2, <1>3, <1>5 DEF Unbounded, Deepest
<1>9. ASSUME rmCall.recursive, NEW n \in Names, IsPrefix(q.name, n), q.depth = 0 \/ Len(n) <= Len(q.name) + q.depth
      PROVE  Reaches(r, n) /\ (Unbounded \/ Len(Of(n)) <= Deepest(r))
  <2>1. IsPrefix(q.name, Of(n)) /\ Len(Of(n)) <= Len(n) /\ Of(n) \in Names
    BY <1>1, <1>9, StandsFor
  <2>2. Len(n) \in Nat /\ Len(Of(n)) \in Nat
    BY <2>1 DEF Names
  <2>3. Unbounded \/ Len(Of(n)) <= Deepest(r)
    <3>1. CASE rmCall.maxdepth = 0
      BY <1>9, <3>1 DEF Unbounded
    <3>2. CASE rmCall.maxdepth # 0
      <4>1. q.depth \in Nat /\ q.depth # 0
        BY <1>1, <1>2, <1>3, <3>2
      <4>2. Len(n) <= Len(q.name) + q.depth
        BY <1>9, <4>1
      <4>3. Len(q.name) + q.depth = Len(r.name) + rmCall.maxdepth
        <5>1. \/ q.name = r.name /\ q.depth = rmCall.maxdepth
              \/ q.depth = rmCall.maxdepth - 1 /\ Len(q.name) = Len(r.name) + 1
          BY <1>3, <3>2
        <5> HIDE DEF r
        <5>2. CASE q.name = r.name /\ q.depth = rmCall.maxdepth
          BY <5>2
        <5>3. CASE q.depth = rmCall.maxdepth - 1 /\ Len(q.name) = Len(r.name) + 1
          BY <1>2, <1>5, <5>3
        <5> QED
          BY <5>1, <5>2, <5>3
      <4> HIDE DEF r
      <4>4. Len(Of(n)) <= Len(r.name) + rmCall.maxdepth
        BY <1>2, <1>5, <2>1, <2>2, <4>2, <4>3
      <4> QED
        BY <1>9, <4>4 DEF Deepest
    <3> QED
      BY <3>1, <3>2
  <2> QED
    BY <1>7, <2>1, <2>3
<1> QED
  BY <1>1, <1>6, <1>7, <1>8, <1>9, BeginsWithItself

LEMMA PatternReaches ==
  ASSUME rmCall \in RmCalls, NEW b \in Groups, NEW q, Within(b, q), q \in PathRecs, q.star,
         NEW n \in Names, IsStrictPrefix(q.name, n), Len(n) = Len(q.name) + 1, ~IsMarker(n)
  PROVE  /\ InScope(b, n)
         /\ rmCall.recursive /\ q.depth # 1 =>
              LET m == ToExpand(n, FALSE, IF q.depth = 0 THEN 0 ELSE q.depth - 1)
              IN Within(b, m) /\ m \in PathRecs
<1>1. rmCall.maxdepth \in Nat /\ rmCall.recursive \in BOOLEAN
  BY CallFacts
<1>2. PICK i \in DOMAIN rmCall.paths[b] :
        q.name = rmCall.paths[b][i].name /\ rmCall.paths[b][i].star /\ q.depth = rmCall.maxdepth
  BY PathWithin
<1> DEFINE r == rmCall.paths[b][i]
<1>3. q.name \in Names /\ Len(q.name) \in Nat /\ Of(n) = n
  BY DEF PathRecs, Names, Of
<1>4. Reaches(r, n)
  BY <1>2, <1>3 DEF Reaches
<1>5. Unbounded \/ Len(Of(n)) <= Deepest(r)
  BY <1>1, <1>2, <1>3 DEF Unbounded, Deepest
<1>6. InScope(b, n)
  BY <1>4, <1>5, ScopeIs
<1>7. ASSUME rmCall.recursive, q.depth # 1, NEW k \in Nat, k = IF q.depth = 0 THEN 0 ELSE q.depth - 1
      PROVE  Within(b, ToExpand(n, FALSE, k)) /\ ToExpand(n, FALSE, k) \in PathRecs
  BY <1>2, <1>7 DEF Within, ToExpand, PathRecs
<1>8. (IF q.depth = 0 THEN 0 ELSE q.depth - 1) \in Nat
  BY <1>1, <1>2
<1> QED
  BY <1>6, <1>7, <1>8
-----------------------------------------------------------------------------
(* Steps of a group.                                                        *)

LEMMA GroupFacts ==
  ASSUME World, NEW b \in Groups
  PROVE  /\ RmShape /\ rmCall \in RmCalls /\ BucketOK(b) /\ Sizes(b) /\ Scoped(b)
         /\ DOMAIN group = Groups /\ group[b] \in GroupStates
BY DEF World, Holds, RmShape, Sizes

LEMMA FieldsOf ==
  ASSUME NEW g \in GroupStates
  PROVE  /\ g.stage \in {"expand", "files", "dirs", "over"} /\ g.todo \in Seq(PathRecs)
         /\ g.asked \subseteq {"objects", "folders"} /\ g.found \subseteq Entries /\ g.jobs \subseteq Jobs
         /\ g.gone \subseteq Entries /\ g.failed \in BOOLEAN /\ g.dirs \subseteq Names
         /\ g.listed \subseteq Entries /\ g.unsure \subseteq Names
         /\ g.marked \subseteq Names /\ g.ended \in {"no", "done", "missing", "error"}
BY DEF GroupStates

LEMMA ExpandsMeans ==
  ASSUME DOMAIN group = Groups, NEW b \in Groups, group[b] \in GroupStates,
         NEW E, NEW T, NEW A, NEW L, NEW U, Expands(b, E, T, A, L, U)
  PROVE  /\ DOMAIN group' = Groups /\ \A c \in Groups \ {b} : group'[c] = group[c]
         /\ group'[b].found = group[b].found \cup E /\ group'[b].todo = T /\ group'[b].asked = A
         /\ group'[b].listed = L /\ group'[b].unsure = group[b].unsure \cup U
         /\ group'[b].stage = group[b].stage /\ group'[b].jobs = group[b].jobs
         /\ group'[b].gone = group[b].gone /\ group'[b].failed = group[b].failed
         /\ group'[b].dirs = group[b].dirs /\ group'[b].marked = group[b].marked /\ group'[b].ended = group[b].ended
<1> DEFINE g == group[b]
           F == g.found \cup E
           V == g.unsure \cup U
           h == [g EXCEPT !.found = F, !.todo = T, !.asked = A, !.listed = L, !.unsure = V]
<1>1. group' = [group EXCEPT ![b] = h]
  BY DEF Expands
<1>2. /\ h.found = F /\ h.todo = T /\ h.asked = A /\ h.listed = L /\ h.unsure = V
      /\ h.stage = g.stage /\ h.jobs = g.jobs
      /\ h.gone = g.gone /\ h.failed = g.failed /\ h.dirs = g.dirs
      /\ h.marked = g.marked /\ h.ended = g.ended
  BY DEF GroupStates
<1> HIDE DEF h
<1>3. group'[b] = h /\ DOMAIN group' = Groups /\ \A c \in Groups \ {b} : group'[c] = group[c]
  BY <1>1
<1> QED
  BY <1>2, <1>3

LEMMA ExpandsShape ==
  ASSUME DOMAIN group = Groups, NEW b \in Groups, group[b] \in GroupStates,
         NEW E, E \subseteq Entries, NEW T \in Seq(PathRecs), NEW A, A \subseteq {"objects", "folders"},
         NEW L, L \subseteq Entries, NEW U, U \subseteq Names, Expands(b, E, T, A, L, U)
  PROVE  group'[b] \in GroupStates
<1> DEFINE g == group[b]
           F == g.found \cup E
           V == g.unsure \cup U
           m == [g EXCEPT !.found = F, !.todo = T, !.asked = A]
           h == [m EXCEPT !.listed = L, !.unsure = V]
<1>1. group'[b] = h
  BY DEF Expands
<1>2. F \subseteq Entries /\ V \subseteq Names
  BY FieldsOf
<1> HIDE DEF F, V
<1>3. m \in GroupStates
  BY <1>2 DEF GroupStates
<1> HIDE DEF m
<1>4. h \in GroupStates
  BY <1>2, <1>3 DEF GroupStates
<1> QED
  BY <1>1, <1>4

\* A step of one group leaves the others and their buckets alone.
Elsewhere(b) ==
  /\ rmCall' = rmCall /\ rmFaults' \in Nat
  /\ DOMAIN objects' = Groups /\ DOMAIN folders' = Groups /\ DOMAIN group' = Groups
  /\ DOMAIN shown' = Groups /\ DOMAIN created' = Groups
  /\ \A c \in Groups \ {b} :
       /\ objects'[c] = objects[c] /\ folders'[c] = folders[c] /\ group'[c] = group[c]
       /\ shown'[c] = shown[c] /\ created'[c] = created[c]

LEMMA SameScope ==
  ASSUME rmCall' = rmCall
  PROVE  /\ Groups' = Groups /\ \A b : Hns(b)' = Hns(b) /\ Before(b)' = Before(b)
         /\ \A b, n : InScope(b, n)' = InScope(b, n)
         /\ \A b, q : Within(b, q)' = Within(b, q)
BY DEF Groups, Hns, InScope, Within, Before, Unbounded

LEMMA OneGroup ==
  ASSUME World, NEW b \in Groups, Elsewhere(b), Holds(b)'
  PROVE  World'
<1>1. RmShape'
  BY SameScope DEF World, RmShape, Elsewhere
<1>2. ASSUME NEW c \in Groups \ {b} PROVE Holds(c)'
  <2>1. BucketOK(c) /\ Sizes(c) /\ Scoped(c) /\ rmCall' = rmCall
    BY DEF World, Holds, Elsewhere
  <2>2. /\ objects'[c] = objects[c] /\ folders'[c] = folders[c] /\ group'[c] = group[c]
        /\ shown'[c] = shown[c] /\ created'[c] = created[c]
    BY <1>2 DEF Elsewhere
  <2>3. Hns(c)' = Hns(c) /\ (\A n : InScope(c, n)' = InScope(c, n)) /\ \A q : Within(c, q)' = Within(c, q)
    BY <2>1, SameScope
  <2>4. BucketOK(c)'
    BY <2>1, <2>2, <2>3 DEF BucketOK
  <2>5. Sizes(c)'
    BY <2>1, <2>2 DEF Sizes
  <2>6. Scoped(c)'
    BY <2>1, <2>2, <2>3 DEF Scoped
  <2> QED
    BY <2>4, <2>5, <2>6 DEF Holds
<1>3. Groups' = Groups
  BY SameScope DEF Elsewhere
<1> QED
  BY <1>1, <1>2, <1>3 DEF World

LEMMA SameBucket ==
  ASSUME World, NEW b \in Groups, rmCall' = rmCall, objects'[b] = objects[b], folders'[b] = folders[b],
         created'[b] = created[b]
  PROVE  BucketOK(b)'
<1>1. Hns(b)' = Hns(b)
  BY SameScope
<1> QED
  BY <1>1 DEF World, Holds, BucketOK

\* A step of the expansion.
\* What a step may do to the cached listings.
ListingsKept(b) ==
  DOMAIN shown' = Groups /\ shown'[b] \subseteq Entries /\ \A c \in Groups \ {b} : shown'[c] = shown[c]

LEMMA SameListings ==
  ASSUME World, NEW b \in Groups, UNCHANGED shown
  PROVE  ListingsKept(b)
BY GroupFacts DEF RmShape, Sizes, ListingsKept

LEMMA RelistsKept ==
  ASSUME World, NEW b \in Groups, NEW entries, entries \subseteq Entries, Relists(b, entries)
  PROVE  ListingsKept(b)
<1>1. DOMAIN shown = Groups /\ shown[b] \subseteq Entries
  BY GroupFacts DEF RmShape, Sizes
<1> DEFINE p == First(b).name
           R == Relisted(b, p, entries)
           above == {d \in UNION {Ancestors(e[1]) : e \in entries} : IsPrefix(p, d)}
<1>2. above \subseteq Names
  <2>1. \A e \in entries : e[1] \in Names
    BY DEF Entries
  <2> QED
    BY <2>1, AncestorMeans
<1>3. R \subseteq shown[b] \cup entries \cup DirEntries(above)
  BY DEF Relisted, DirEntries
<1>4. DirEntries(above) \subseteq Entries
  BY <1>2 DEF DirEntries, Entries
<1>5. shown' = [shown EXCEPT ![b] = R]
  BY DEF Relists
<1> HIDE DEF R
<1> QED
  BY <1>1, <1>3, <1>4, <1>5 DEF ListingsKept

LEMMA ExpandKept ==
  ASSUME World, NEW b \in Groups, At(b, "expand"), BucketsStay, rmFaults' \in Nat, ListingsKept(b),
         NEW L, L \subseteq Entries, NEW U, U \subseteq Names,
         NEW E, E \subseteq Entries, IsFiniteSet(E),
         \A e \in E : InScope(b, e[1]) /\ (e[2] = "directory" => ~IsMarker(e[1])),
         NEW T \in Seq(PathRecs), \A i \in DOMAIN T : Within(b, T[i]),
         NEW A, A \subseteq {"objects", "folders"}, Expands(b, E, T, A, L, U)
  PROVE  World' /\ Elsewhere(b)
<1>1. /\ RmShape /\ BucketOK(b) /\ Sizes(b) /\ Scoped(b) /\ DOMAIN group = Groups /\ group[b] \in GroupStates
  BY GroupFacts
<1>2. /\ DOMAIN group' = Groups /\ (\A c \in Groups \ {b} : group'[c] = group[c]) /\ group'[b] \in GroupStates
      /\ group'[b].found = group[b].found \cup E /\ group'[b].todo = T
      /\ group'[b].stage = group[b].stage /\ group'[b].jobs = group[b].jobs
      /\ group'[b].dirs = group[b].dirs /\ group'[b].ended = group[b].ended
  <2>1. DOMAIN group' = Groups /\ (\A c \in Groups \ {b} : group'[c] = group[c]) /\ group'[b] \in GroupStates
    <3>1. DOMAIN group' = Groups /\ \A c \in Groups \ {b} : group'[c] = group[c]
      BY <1>1, ExpandsMeans
    <3>2. group'[b] \in GroupStates
      BY <1>1, ExpandsShape
    <3> QED
      BY <3>1, <3>2
  <2>2. /\ group'[b].found = group[b].found \cup E /\ group'[b].todo = T
        /\ group'[b].stage = group[b].stage /\ group'[b].jobs = group[b].jobs
    BY <1>1, ExpandsMeans
  <2>3. group'[b].dirs = group[b].dirs /\ group'[b].ended = group[b].ended
    BY <1>1, ExpandsMeans
  <2> QED
    BY <2>1, <2>2, <2>3
<1>3. rmCall' = rmCall /\ UNCHANGED <<objects, folders, created>>
  BY DEF BucketsStay
<1>4. Elsewhere(b)
  BY <1>1, <1>2, <1>3 DEF Elsewhere, RmShape, ListingsKept
<1>5. (\A n : InScope(b, n)' = InScope(b, n)) /\ \A q : Within(b, q)' = Within(b, q)
  BY <1>3, SameScope
<1>6. IsFiniteSet(group'[b].found)
  <2>1. IsFiniteSet(group[b].found)
    BY <1>1 DEF Sizes
  <2>2. IsFiniteSet(group[b].found \cup E)
    BY <2>1, FS_Union
  <2> QED
    BY <1>2, <2>2
<1>7. Sizes(b)'
  BY <1>1, <1>2, <1>3, <1>6 DEF Sizes, ListingsKept
<1>8. Scoped(b)'
  <2>1. \A i \in DOMAIN group'[b].todo : Within(b, group'[b].todo[i])
    BY <1>2
  <2>2. \A e \in group'[b].found : InScope(b, e[1]) /\ (e[2] = "directory" => ~IsMarker(e[1]))
    BY <1>1, <1>2 DEF Scoped
  <2> QED
    BY <1>1, <1>2, <1>5, <2>1, <2>2 DEF Scoped
<1>9. BucketOK(b)'
  BY <1>3, SameBucket
<1> QED
  BY <1>4, <1>7, <1>8, <1>9, OneGroup DEF Holds

\* The path whose turn it is.
LEMMA PathFacts ==
  ASSUME World, NEW b \in Groups, NEW star, Expanding(b, star)
  PROVE  /\ First(b) \in PathRecs /\ First(b).star = star /\ Within(b, First(b)) /\ First(b).name \in Names
         /\ ~IsMarker(First(b).name)
         /\ Tail(group[b].todo) \in Seq(PathRecs)
         /\ \A i \in DOMAIN Tail(group[b].todo) : Within(b, Tail(group[b].todo)[i])
<1>1. rmCall \in RmCalls /\ Scoped(b) /\ group[b] \in GroupStates
  BY GroupFacts
<1> DEFINE t == group[b].todo
<1>2. t \in Seq(PathRecs) /\ t # <<>> /\ First(b) = Head(t) /\ First(b).star = star
  BY <1>1, FieldsOf DEF Expanding, First
<1>3. \A i \in DOMAIN t : Within(b, t[i])
  BY <1>1 DEF Scoped
<1> HIDE DEF t
<1>4. Head(t) \in PathRecs /\ Head(t) = t[1] /\ 1 \in DOMAIN t
  BY <1>2
<1>5. Tail(t) \in Seq(PathRecs) /\ \A i \in DOMAIN Tail(t) : i + 1 \in DOMAIN t /\ Tail(t)[i] = t[i + 1]
  BY <1>2
<1>6. Within(b, First(b))
  BY <1>2, <1>3, <1>4
<1>7. ~IsMarker(First(b).name)
  BY <1>1, <1>2, <1>4, <1>6, PathWithin
<1> QED
  BY <1>2, <1>3, <1>4, <1>5, <1>6, <1>7 DEF PathRecs, t

\* What an answer adds to the entries found.
LEMMA EntriesInScope ==
  ASSUME NEW b, NEW X, NEW Y, X \subseteq Names, Y \subseteq Names, IsFiniteSet(X), IsFiniteSet(Y),
         \A n \in X : InScope(b, n), \A n \in Y : InScope(b, n) /\ ~IsMarker(n),
         NEW E, E = FileEntries(X) \cup DirEntries(Y)
  PROVE  /\ E \subseteq Entries /\ IsFiniteSet(E)
         /\ \A e \in E : InScope(b, e[1]) /\ (e[2] = "directory" => ~IsMarker(e[1]))
<1>1. IsFiniteSet(FileEntries(X)) /\ IsFiniteSet(DirEntries(Y))
  BY EntriesFinite
<1>2. IsFiniteSet(E)
  BY <1>1, FS_Union
<1>3. ASSUME NEW e \in E PROVE e \in Entries /\ InScope(b, e[1]) /\ (e[2] = "directory" => ~IsMarker(e[1]))
  <2>1. CASE e \in FileEntries(X)
    BY <2>1 DEF FileEntries, Entries
  <2>2. CASE e \in DirEntries(Y)
    BY <2>2 DEF DirEntries, Entries
  <2> QED
    BY <2>1, <2>2
<1> QED
  BY <1>2, <1>3

LEMMA NoEntries == FileEntries({}) = {} /\ DirEntries({}) = {}
BY DEF FileEntries, DirEntries

LEMMA ShownDirsAre ==
  ASSUME World, NEW b \in Groups
  PROVE  /\ ShownDirs(b) \subseteq Names \ {Root} /\ IsFiniteSet(ShownDirs(b))
         /\ \A d \in ShownDirs(b) : ~IsMarker(d)
<1>1. BucketOK(b)
  BY GroupFacts
<1>2. CASE Hns(b)
  <2>1. ShownDirs(b) = folders[b] \ {Root}
    BY <1>2 DEF ShownDirs
  <2>2. IsFiniteSet(folders[b] \ {Root})
    BY <1>1, FS_Subset DEF BucketOK
  <2> QED
    BY <1>1, <2>1, <2>2 DEF BucketOK
<1>3. CASE ~Hns(b)
  <2> DEFINE U == UNION {Ancestors(n) : n \in objects[b]}
  <2>1. ShownDirs(b) = U \ {Root}
    BY <1>3 DEF ShownDirs
  <2>2. objects[b] \subseteq Names /\ IsFiniteSet(objects[b])
    BY <1>1, ObjectNamesAre DEF BucketOK
  <2>3. IsFiniteSet(U)
    BY <2>2, AncestorsFinite
  <2>4. \A d \in U : d \in Names /\ ~IsMarker(d)
    BY <1>1, ObjectNamesAre DEF BucketOK
  <2> HIDE DEF U
  <2>5. IsFiniteSet(U \ {Root})
    BY <2>3, FS_Subset
  <2> QED
    BY <2>1, <2>4, <2>5
<1> QED
  BY <1>2, <1>3

\* What the listings find for a path is in its scope.
LEMMA ListingsReach ==
  ASSUME World, NEW b \in Groups, Expanding(b, FALSE), rmCall.recursive,
         NEW S, S \subseteq Names, NEW q, q = First(b)
  PROVE  \A n \in Near(q, S) : IsPrefix(q.name, n) => InScope(b, n)
<1>1. rmCall \in RmCalls /\ q \in PathRecs /\ Within(b, q) /\ ~q.star
  BY GroupFacts, PathFacts
<1>2. ASSUME NEW n \in Near(q, S), IsPrefix(q.name, n) PROVE InScope(b, n)
  <2>1. n \in Names /\ (q.depth = 0 \/ Len(n) <= Len(q.name) + q.depth)
    BY DEF Near
  <2> QED
    BY <1>1, <1>2, <2>1, PathReaches
<1> QED
  BY <1>2

LEMMA AllObjectsAre ==
  ASSUME World, NEW b \in Groups, NEW p \in Names
  PROVE  /\ AllObjects(b, p) \subseteq objects[b] /\ AllObjects(b, p) \subseteq Names /\ IsFiniteSet(AllObjects(b, p))
         /\ \A n \in AllObjects(b, p) : IsPrefix(p, n)
<1>1. objects[b] \subseteq Names /\ IsFiniteSet(objects[b])
  BY GroupFacts, ObjectNamesAre DEF BucketOK
<1>2. AllObjects(b, p) \subseteq objects[b] /\ \A n \in AllObjects(b, p) : IsPrefix(p, n)
  BY BeginsWithItself DEF AllObjects, Under, IsStrictPrefix
<1> QED
  BY <1>1, <1>2, FS_Subset

LEMMA AllFoldersAre ==
  ASSUME World, NEW b \in Groups, NEW p \in Names
  PROVE  /\ AllFolders(b, p) \subseteq folders[b] \ {Root} /\ AllFolders(b, p) \subseteq Names
         /\ IsFiniteSet(AllFolders(b, p))
         /\ \A n \in AllFolders(b, p) : IsPrefix(p, n) /\ ~IsMarker(n)
<1>1. folders[b] \subseteq Names /\ IsFiniteSet(folders[b]) /\ \A d \in folders[b] : ~IsMarker(d)
  BY GroupFacts DEF BucketOK
<1>2. AllFolders(b, p) \subseteq folders[b] \ {Root} /\ \A n \in AllFolders(b, p) : IsPrefix(p, n)
  BY DEF AllFolders
<1>3. IsFiniteSet(AllFolders(b, p))
  BY <1>1, <1>2, FS_Subset
<1> QED
  BY <1>1, <1>2, <1>3

LEMMA ObjectsFound ==
  ASSUME World, NEW b \in Groups, Expanding(b, FALSE), rmCall.recursive
  PROVE  /\ FindObjects(b, First(b)) \subseteq Names /\ IsFiniteSet(FindObjects(b, First(b)))
         /\ \A n \in FindObjects(b, First(b)) : InScope(b, n)
<1> DEFINE q == First(b)
           S == AllObjects(b, q.name)
<1>1. q.name \in Names
  BY PathFacts
<1>2. S \subseteq Names /\ IsFiniteSet(S) /\ \A n \in S : IsPrefix(q.name, n)
  BY <1>1, AllObjectsAre
<1>3. FindObjects(b, q) = Near(q, S)
  BY DEF FindObjects
<1>4. q = First(b)
  OBVIOUS
<1> HIDE DEF S, q
<1>5. Near(q, S) \subseteq S
  BY DEF Near
<1>6. \A n \in Near(q, S) : InScope(b, n)
  BY <1>2, <1>4, <1>5, ListingsReach
<1>7. IsFiniteSet(Near(q, S))
  BY <1>2, <1>5, FS_Subset
<1> QED
  BY <1>2, <1>3, <1>5, <1>6, <1>7 DEF q

LEMMA FoldersFound ==
  ASSUME World, NEW b \in Groups, Expanding(b, FALSE), rmCall.recursive
  PROVE  /\ FindFolders(b, First(b)) \subseteq Names /\ IsFiniteSet(FindFolders(b, First(b)))
         /\ \A n \in FindFolders(b, First(b)) : InScope(b, n) /\ ~IsMarker(n)
<1> DEFINE q == First(b)
           S == AllFolders(b, q.name)
<1>1. q.name \in Names
  BY PathFacts
<1>2. S \subseteq Names /\ IsFiniteSet(S) /\ \A n \in S : IsPrefix(q.name, n) /\ ~IsMarker(n)
  BY <1>1, AllFoldersAre
<1>3. FindFolders(b, q) = Near(q, S)
  BY DEF FindFolders
<1>4. q = First(b)
  OBVIOUS
<1> HIDE DEF S, q
<1>5. Near(q, S) \subseteq S
  BY DEF Near
<1>6. \A n \in Near(q, S) : InScope(b, n)
  BY <1>2, <1>4, <1>5, ListingsReach
<1>7. IsFiniteSet(Near(q, S))
  BY <1>2, <1>5, FS_Subset
<1> QED
  BY <1>2, <1>3, <1>5, <1>6, <1>7 DEF q

\* An answer of a listing.
LEMMA HearsKept ==
  ASSUME World, NEW b \in Groups, NEW listing \in Listings, NEW all, all \subseteq Entries,
         NEW near, near \subseteq Entries, IsFiniteSet(near),
         \A e \in near : InScope(b, e[1]) /\ (e[2] = "directory" => ~IsMarker(e[1])),
         Hears(b, listing, all, near)
  PROVE  World' /\ Elsewhere(b)
<1> DEFINE T == group[b].todo
           A == group[b].asked \cup {listing}
           L == group[b].listed \cup all
<1>1. group[b] \in GroupStates /\ Scoped(b) /\ rmFaults \in Nat
  BY GroupFacts DEF RmShape
<1>2. At(b, "expand") /\ BucketsStay /\ rmFaults' = rmFaults /\ Expands(b, near, T, A, L, {})
  BY DEF Hears, Expanding
<1>3. (Relists(b, L) \/ UNCHANGED shown)
  BY DEF Hears
<1>4. T \in Seq(PathRecs) /\ A \subseteq {"objects", "folders"} /\ \A i \in DOMAIN T : Within(b, T[i])
  BY <1>1, FieldsOf DEF Scoped, Listings
<1>5. L \subseteq Entries
  BY <1>1, FieldsOf
<1> HIDE DEF T, A, L
<1>6. ListingsKept(b)
  BY <1>3, <1>5, SameListings, RelistsKept
<1> QED
  BY <1>1, <1>2, <1>4, <1>5, <1>6, ExpandKept

LEMMA FilesAre ==
  ASSUME NEW S, S \subseteq Names
  PROVE  FileEntries(S) \subseteq Entries /\ DirEntries(S) \subseteq Entries
BY DEF FileEntries, DirEntries, Entries

LEMMA AskObjectsKept == ASSUME World, NEW b \in Groups, AskObjects(b) PROVE World' /\ Elsewhere(b)
<1> DEFINE X == FindObjects(b, First(b))
           E == FileEntries(X)
           all == FileEntries(AllObjects(b, First(b).name))
<1>1. Hears(b, "objects", all, E)
  BY DEF AskObjects
<1>2. Expanding(b, FALSE) /\ rmCall.recursive
  BY <1>1 DEF Hears
<1>3. X \subseteq Names /\ IsFiniteSet(X) /\ \A n \in X : InScope(b, n)
  BY <1>2, ObjectsFound
<1>4. E = FileEntries(X) \cup DirEntries({}) /\ IsFiniteSet({})
  BY NoEntries, FS_EmptySet
<1>5. all \subseteq Entries
  BY <1>2, PathFacts, AllObjectsAre, FilesAre
<1>6. "objects" \in Listings
  BY DEF Listings
<1> HIDE DEF X, E, all
<1>7. /\ E \subseteq Entries /\ IsFiniteSet(E)
      /\ \A e \in E : InScope(b, e[1]) /\ (e[2] = "directory" => ~IsMarker(e[1]))
  BY <1>3, <1>4, EntriesInScope
<1> QED
  BY <1>1, <1>5, <1>6, <1>7, HearsKept

LEMMA AskFoldersKept == ASSUME World, NEW b \in Groups, AskFolders(b) PROVE World' /\ Elsewhere(b)
<1> DEFINE Y == FindFolders(b, First(b))
           E == DirEntries(Y)
           all == DirEntries(AllFolders(b, First(b).name))
<1>1. Hears(b, "folders", all, E)
  BY DEF AskFolders
<1>2. Expanding(b, FALSE) /\ rmCall.recursive
  BY <1>1 DEF Hears
<1>3. Y \subseteq Names /\ IsFiniteSet(Y) /\ \A n \in Y : InScope(b, n) /\ ~IsMarker(n)
  BY <1>2, FoldersFound
<1>4. E = FileEntries({}) \cup DirEntries(Y) /\ IsFiniteSet({})
  BY NoEntries, FS_EmptySet
<1>5. all \subseteq Entries
  BY <1>2, PathFacts, AllFoldersAre, FilesAre
<1>6. "folders" \in Listings
  BY DEF Listings
<1> HIDE DEF Y, E, all
<1>7. /\ E \subseteq Entries /\ IsFiniteSet(E)
      /\ \A e \in E : InScope(b, e[1]) /\ (e[2] = "directory" => ~IsMarker(e[1]))
  BY <1>3, <1>4, EntriesInScope
<1> QED
  BY <1>1, <1>5, <1>6, <1>7, HearsKept

\* A path is done with, whatever was found for it.
LEMMA PassesKept ==
  ASSUME World, NEW b \in Groups, NEW star, Expanding(b, star), BucketsStay, rmFaults' \in Nat, ListingsKept(b),
         NEW X, NEW Y, X \subseteq Names, Y \subseteq Names, IsFiniteSet(X), IsFiniteSet(Y),
         \A n \in X : InScope(b, n), \A n \in Y : InScope(b, n) /\ ~IsMarker(n),
         NEW U, U \subseteq Names, Passes(b, FileEntries(X) \cup DirEntries(Y), U)
  PROVE  World' /\ Elsewhere(b)
<1> DEFINE E == FileEntries(X) \cup DirEntries(Y)
           T == Tail(group[b].todo)
           A == {}
<1>1. At(b, "expand") /\ Expands(b, E, T, A, A, U)
  BY DEF Expanding, Passes
<1>2. T \in Seq(PathRecs) /\ \A i \in DOMAIN T : Within(b, T[i])
  BY PathFacts
<1>3. A \subseteq {"objects", "folders"} /\ A \subseteq Entries
  OBVIOUS
<1>4. E = FileEntries(X) \cup DirEntries(Y)
  OBVIOUS
<1> HIDE DEF E, T, A
<1>5. /\ E \subseteq Entries /\ IsFiniteSet(E)
      /\ \A e \in E : InScope(b, e[1]) /\ (e[2] = "directory" => ~IsMarker(e[1]))
  BY <1>4, EntriesInScope
<1> QED
  BY <1>1, <1>2, <1>3, <1>5, ExpandKept

LEMMA PathInScope ==
  ASSUME World, NEW b \in Groups, Expanding(b, FALSE)
  PROVE  InScope(b, First(b).name)
BY GroupFacts, PathFacts, PathReaches

LEMMA AskInfoKept == ASSUME World, NEW b \in Groups, AskInfo(b) PROVE World' /\ Elsewhere(b)
<1> DEFINE p == First(b).name
<1>1. Expanding(b, FALSE) /\ BucketsStay /\ UNCHANGED shown /\ rmFaults' \in Nat
  BY GroupFacts DEF AskInfo, Heard, GroupOnly, RmShape
<1>2. p \in Names /\ ~IsMarker(p) /\ InScope(b, p)
  BY <1>1, PathFacts, PathInScope
<1>3. \/ Finds(b, {})
      \/ \E e \in {<<p, "file">>, <<p, "directory">>} : Finds(b, {e})
  BY DEF AskInfo, FileEntries, DirEntries
<1> HIDE DEF p
<1>4. PICK X, Y : X \subseteq {p} /\ Y \subseteq {p} /\ Finds(b, FileEntries(X) \cup DirEntries(Y))
  <2>1. /\ {} = FileEntries({}) \cup DirEntries({})
        /\ {<<p, "file">>} = FileEntries({p}) \cup DirEntries({})
        /\ {<<p, "directory">>} = FileEntries({}) \cup DirEntries({p})
    BY DEF FileEntries, DirEntries
  <2>2. CASE Finds(b, {})
    <3>1. Finds(b, FileEntries({}) \cup DirEntries({}))
      BY <2>1, <2>2
    <3> QED
      BY <3>1
  <2>3. CASE Finds(b, {<<p, "file">>})
    <3>1. Finds(b, FileEntries({p}) \cup DirEntries({}))
      BY <2>1, <2>3
    <3> QED
      BY <3>1
  <2>4. CASE Finds(b, {<<p, "directory">>})
    <3>1. Finds(b, FileEntries({}) \cup DirEntries({p}))
      BY <2>1, <2>4
    <3> QED
      BY <3>1
  <2> QED
    BY <1>3, <2>2, <2>3, <2>4
<1>5. /\ X \subseteq Names /\ Y \subseteq Names /\ IsFiniteSet(X) /\ IsFiniteSet(Y)
      /\ (\A n \in X : InScope(b, n)) /\ \A n \in Y : InScope(b, n) /\ ~IsMarker(n)
  <2>1. IsFiniteSet({p})
    BY FS_Singleton
  <2>2. IsFiniteSet(X) /\ IsFiniteSet(Y)
    BY <1>4, <2>1, FS_Subset
  <2> QED
    BY <1>2, <1>4, <2>2
<1> DEFINE none == {}
<1>6. Passes(b, FileEntries(X) \cup DirEntries(Y), none) /\ none \subseteq Names
  BY <1>4 DEF Finds
<1> HIDE DEF none
<1> QED
  BY <1>1, <1>5, <1>6, SameListings, PassesKept

\* What a recursive call finds in a flat bucket.
LEMMA FlatFound ==
  ASSUME World, NEW b \in Groups, Expanding(b, FALSE), rmCall.recursive
  PROVE  FlatBelow(b) \subseteq Names /\ IsFiniteSet(FlatBelow(b)) /\ \A n \in FlatBelow(b) : InScope(b, n)
<1> DEFINE q == First(b)
           S == Under(q.name, ShownDirs(b))
           X == FindObjects(b, q)
           Y == Near(q, S)
<1>1. X \subseteq Names /\ IsFiniteSet(X) /\ \A n \in X : InScope(b, n)
  BY ObjectsFound
<1>2. ShownDirs(b) \subseteq Names /\ IsFiniteSet(ShownDirs(b))
  BY ShownDirsAre
<1>3. S \subseteq ShownDirs(b) /\ \A n \in S : IsPrefix(q.name, n)
  BY DEF Under, IsStrictPrefix
<1>4. q = First(b) /\ FlatBelow(b) = X \cup Y
  BY DEF FlatBelow
<1>d. Y = Near(q, S)
  OBVIOUS
<1> HIDE DEF q, S, X, Y
<1>5. Y \subseteq S
  BY <1>d DEF Near
<1>6. Y \subseteq Names /\ IsFiniteSet(Y)
  BY <1>2, <1>3, <1>5, FS_Subset
<1>7. \A n \in Y : InScope(b, n)
  <2>1. S \subseteq Names
    BY <1>2, <1>3
  <2> QED
    BY <1>3, <1>4, <1>5, <1>d, <2>1, ListingsReach
<1>8. IsFiniteSet(X \cup Y)
  BY <1>1, <1>6, FS_Union
<1> QED
  BY <1>1, <1>4, <1>6, <1>7, <1>8

LEMMA ExpandFlatKept == ASSUME World, NEW b \in Groups, ExpandFlat(b) PROVE World' /\ Elsewhere(b)
<1> DEFINE p == First(b).name
           itself == {p} \cap (objects[b] \cup ShownDirs(b) \cup folders[b])
           X == IF rmCall.recursive THEN FlatBelow(b) \cup itself ELSE {p}
           all == FileEntries(AllObjects(b, p))
<1>1. Expanding(b, FALSE) /\ BucketsStay /\ rmFaults' \in Nat /\ (Relists(b, all) \/ UNCHANGED shown)
  BY GroupFacts DEF ExpandFlat, RmShape
<1>2. p \in Names /\ InScope(b, p)
  BY <1>1, PathFacts, PathInScope
<1>3. Finds(b, FileEntries(X))
  BY DEF ExpandFlat
<1>4. all \subseteq Entries
  BY <1>2, AllObjectsAre, FilesAre
<1>5. IsFiniteSet({p}) /\ IsFiniteSet({}) /\ itself \subseteq {p}
  BY FS_Singleton, FS_EmptySet
<1>6. X \subseteq Names /\ IsFiniteSet(X) /\ \A n \in X : InScope(b, n)
  <2>1. CASE rmCall.recursive
    <3>1. FlatBelow(b) \subseteq Names /\ IsFiniteSet(FlatBelow(b)) /\ \A n \in FlatBelow(b) : InScope(b, n)
      BY <1>1, <2>1, FlatFound
    <3>2. IsFiniteSet(itself)
      BY <1>5, FS_Subset
    <3>3. X = FlatBelow(b) \cup itself
      BY <2>1
    <3> HIDE DEF X, itself
    <3>4. IsFiniteSet(FlatBelow(b) \cup itself)
      BY <3>1, <3>2, FS_Union
    <3> QED
      BY <1>2, <1>5, <3>1, <3>3, <3>4
  <2>2. CASE ~rmCall.recursive
    BY <1>2, <1>5, <2>2
  <2> QED
    BY <2>1, <2>2
<1> HIDE DEF p, X, all
<1>7. ListingsKept(b)
  BY <1>1, <1>4, SameListings, RelistsKept
<1> DEFINE Y == {}
<1>8. Passes(b, FileEntries(X) \cup DirEntries(Y), Y)
  BY <1>3, NoEntries DEF Finds
<1>9. Y \subseteq Names /\ IsFiniteSet(Y) /\ \A n \in Y : InScope(b, n) /\ ~IsMarker(n)
  BY <1>5
<1> HIDE DEF Y
<1> QED
  BY <1>1, <1>6, <1>7, <1>8, <1>9, PassesKept

LEMMA InfoFailsKept == ASSUME World, NEW b \in Groups, InfoFails(b) PROVE World' /\ Elsewhere(b)
<1> DEFINE p == First(b).name
           all == FileEntries(AllObjects(b, p))
           U == {p}
<1>1. Expanding(b, FALSE) /\ BucketsStay /\ rmFaults' = rmFaults + 1 /\ rmFaults \in Nat
  BY GroupFacts DEF InfoFails, Heard, RmShape
<1>2. p \in Names
  BY <1>1, PathFacts
<1>3. PICK X : /\ X = {} \/ (rmCall.recursive /\ X = FlatBelow(b))
               /\ Passes(b, FileEntries(X), U) /\ (Relists(b, all) \/ UNCHANGED shown)
  BY NoEntries DEF InfoFails
<1>4. all \subseteq Entries /\ U \subseteq Names
  BY <1>2, AllObjectsAre, FilesAre
<1> HIDE DEF p, all, U
<1> DEFINE Y == {}
<1>5. IsFiniteSet(Y) /\ Y \subseteq Names /\ \A n \in Y : InScope(b, n) /\ ~IsMarker(n)
  BY FS_EmptySet
<1>6. X \subseteq Names /\ IsFiniteSet(X) /\ \A n \in X : InScope(b, n)
  BY <1>1, <1>3, <1>5, FlatFound
<1>7. Passes(b, FileEntries(X) \cup DirEntries(Y), U)
  BY <1>3, NoEntries
<1>8. ListingsKept(b) /\ rmFaults' \in Nat
  BY <1>1, <1>3, <1>4, SameListings, RelistsKept
<1> HIDE DEF Y
<1> QED
  BY <1>1, <1>4, <1>5, <1>6, <1>7, <1>8, PassesKept

LEMMA GlobExpands ==
  ASSUME World, NEW b \in Groups, Expanding(b, TRUE),
         NEW q, q = First(b), NEW ds, ds = Children(q.name, ShownDirs(b)),
         NEW fs, fs = Children(q.name, objects[b]) \ ds
  PROVE  /\ fs \subseteq Names /\ ds \subseteq Names /\ IsFiniteSet(fs) /\ IsFiniteSet(ds)
         /\ \A n \in fs \cup ds : InScope(b, n) /\ ~IsMarker(n)
         /\ rmCall.recursive /\ q.depth # 1 =>
              LET m(n) == ToExpand(n, FALSE, IF q.depth = 0 THEN 0 ELSE q.depth - 1)
              IN \A n \in fs \cup ds : Within(b, m(n)) /\ m(n) \in PathRecs
<1>1. /\ rmCall \in RmCalls /\ BucketOK(b) /\ q \in PathRecs /\ q.star /\ Within(b, q)
  BY GroupFacts, PathFacts
<1>2. objects[b] \subseteq Names /\ IsFiniteSet(objects[b])
  BY <1>1, ObjectNamesAre DEF BucketOK
<1>3. ShownDirs(b) \subseteq Names /\ IsFiniteSet(ShownDirs(b))
  BY ShownDirsAre
<1>4. fs \subseteq objects[b] /\ ds \subseteq ShownDirs(b)
  BY DEF Children, Under
<1>5. \A n \in fs \cup ds : IsStrictPrefix(q.name, n) /\ Len(n) = Len(q.name) + 1 /\ ~IsMarker(n)
  BY DEF Children, Under
<1>6. ASSUME NEW n \in fs \cup ds
      PROVE  /\ InScope(b, n)
             /\ rmCall.recursive /\ q.depth # 1 =>
                  LET m == ToExpand(n, FALSE, IF q.depth = 0 THEN 0 ELSE q.depth - 1)
                  IN Within(b, m) /\ m \in PathRecs
  <2>1. n \in Names /\ IsStrictPrefix(q.name, n) /\ Len(n) = Len(q.name) + 1 /\ ~IsMarker(n)
    BY <1>2, <1>3, <1>4, <1>5
  <2> QED
    BY <1>1, <2>1, PatternReaches
<1>7. IsFiniteSet(fs) /\ IsFiniteSet(ds)
  BY <1>2, <1>3, <1>4, FS_Subset
<1> QED
  BY <1>2, <1>3, <1>4, <1>5, <1>6, <1>7

\* The group ends where it is.
LEMMA EndsMeans ==
  ASSUME DOMAIN group = Groups, NEW b \in Groups, group[b] \in GroupStates, NEW how, GroupEnds(b, how)
  PROVE  /\ DOMAIN group' = Groups /\ \A c \in Groups \ {b} : group'[c] = group[c]
         /\ group'[b].stage = "over" /\ group'[b].ended = how
         /\ group'[b].found = group[b].found /\ group'[b].todo = group[b].todo /\ group'[b].jobs = group[b].jobs
         /\ group'[b].gone = group[b].gone /\ group'[b].failed = group[b].failed
         /\ group'[b].dirs = group[b].dirs /\ group'[b].marked = group[b].marked /\ group'[b].asked = group[b].asked
         /\ group'[b].unsure = group[b].unsure
         /\ how \in {"done", "missing", "error"} => group'[b] \in GroupStates
BY DEF GroupEnds, GroupStates

LEMMA EndKept ==
  ASSUME World, NEW b \in Groups, rmFaults' \in Nat, BucketsStay, ListingsKept(b),
         NEW how \in {"done", "missing", "error"}, GroupEnds(b, how)
  PROVE  World' /\ Elsewhere(b)
<1>1. /\ RmShape /\ BucketOK(b) /\ Sizes(b) /\ Scoped(b) /\ DOMAIN group = Groups /\ group[b] \in GroupStates
  BY GroupFacts
<1>2. /\ DOMAIN group' = Groups /\ (\A c \in Groups \ {b} : group'[c] = group[c]) /\ group'[b] \in GroupStates
  BY <1>1, EndsMeans
<1>3. /\ group'[b].found = group[b].found /\ group'[b].todo = group[b].todo /\ group'[b].jobs = group[b].jobs
      /\ group'[b].dirs = group[b].dirs
  BY <1>1, EndsMeans
<1>4. group'[b].stage = "over" /\ group'[b].ended # "no"
  BY <1>1, EndsMeans
<1>5. Elsewhere(b)
  BY <1>1, <1>2 DEF Elsewhere, RmShape, BucketsStay, ListingsKept
<1>6. (\A n : InScope(b, n)' = InScope(b, n)) /\ \A q : Within(b, q)' = Within(b, q)
  BY SameScope DEF BucketsStay
<1>7. Sizes(b)'
  BY <1>1, <1>2, <1>3, <1>4 DEF Sizes, ListingsKept
<1>8. Scoped(b)'
  BY <1>1, <1>3, <1>6 DEF Scoped
<1>9. BucketOK(b)'
  BY SameBucket DEF BucketsStay
<1> QED
  BY <1>5, <1>7, <1>8, <1>9, OneGroup DEF Holds

LEMMA GlobKept == ASSUME World, NEW b \in Groups, Glob(b) PROVE World' /\ Elsewhere(b)
<1> DEFINE q == First(b)
           ds == Children(q.name, ShownDirs(b))
           fs == Children(q.name, objects[b]) \ ds
           deeper == IF q.depth = 0 THEN 0 ELSE q.depth - 1
           E == FileEntries(fs) \cup DirEntries(ds)
           rest == {ToExpand(n, FALSE, deeper) : n \in fs \cup ds}
           T == Tail(group[b].todo)
           all == FileEntries(AllObjects(b, q.name)) \cup DirEntries(IF Hns(b) THEN AllFolders(b, q.name) ELSE {})
<1>1. Expanding(b, TRUE) /\ BucketsStay /\ rmFaults' \in Nat /\ At(b, "expand") /\ Relists(b, all)
  BY GroupFacts DEF Glob, Expanding, RmShape
<1>l. ListingsKept(b)
  <2>1. AllObjects(b, q.name) \subseteq Names /\ AllFolders(b, q.name) \subseteq Names /\ {} \subseteq Names
    BY <1>1, PathFacts, AllObjectsAre, AllFoldersAre
  <2>2. all \subseteq Entries
    BY <2>1, FilesAre
  <2> HIDE DEF all
  <2> QED
    BY <1>1, <2>2, RelistsKept
<1>2. \/ Expands(b, E, T, {}, {}, {})
      \/ GroupEnds(b, "missing")
      \/ rmCall.recursive /\ q.depth # 1 /\ Expands(b, E, SetToSeq(rest) \o T, {}, {}, {})
  BY DEF Glob, Finds, Passes
<1>3. T \in Seq(PathRecs) /\ \A i \in DOMAIN T : Within(b, T[i])
  BY <1>1, PathFacts
<1>4. /\ fs \subseteq Names /\ ds \subseteq Names /\ IsFiniteSet(fs) /\ IsFiniteSet(ds)
      /\ \A n \in fs \cup ds : InScope(b, n) /\ ~IsMarker(n)
  <2> HIDE DEF q, ds, fs
  <2> QED
    BY <1>1, GlobExpands DEF q, ds, fs
<1>5. rmCall.recursive /\ q.depth # 1 =>
        \A n \in fs \cup ds : Within(b, ToExpand(n, FALSE, deeper)) /\ ToExpand(n, FALSE, deeper) \in PathRecs
  BY <1>1, GlobExpands
<1>6. E = FileEntries(fs) \cup DirEntries(ds)
  OBVIOUS
<1>7. rest = {ToExpand(n, FALSE, deeper) : n \in fs \cup ds}
  OBVIOUS
<1> HIDE DEF q, ds, fs, deeper, E, rest, T, all
<1>8. /\ E \subseteq Entries /\ IsFiniteSet(E)
      /\ \A e \in E : InScope(b, e[1]) /\ (e[2] = "directory" => ~IsMarker(e[1]))
  <2>1. (\A n \in fs : InScope(b, n)) /\ \A n \in ds : InScope(b, n) /\ ~IsMarker(n)
    BY <1>4
  <2> QED
    BY <1>4, <1>6, <2>1, EntriesInScope
<1>10. CASE Expands(b, E, T, {}, {}, {})
  <2> DEFINE none == {}
  <2>1. Expands(b, E, T, none, none, none) /\ none \subseteq {"objects", "folders"} /\ none \subseteq Entries /\ none \subseteq Names
    BY <1>10
  <2> HIDE DEF none
  <2> QED
    BY <1>1, <1>l, <1>3, <1>8, <2>1, ExpandKept
<1>11. CASE GroupEnds(b, "missing")
  BY <1>1, <1>l, <1>11, EndKept
<1>12. CASE rmCall.recursive /\ q.depth # 1 /\ Expands(b, E, SetToSeq(rest) \o T, {}, {}, {})
  <2>1. \A m \in rest : Within(b, m) /\ m \in PathRecs
    BY <1>5, <1>7, <1>12
  <2>2. IsFiniteSet(rest)
    <3>1. IsFiniteSet(fs \cup ds)
      BY <1>4, FS_Union
    <3>2. [n \in fs \cup ds |-> ToExpand(n, FALSE, deeper)] \in Surjection(fs \cup ds, rest)
      BY <1>7 DEF Surjection
    <3> QED
      BY <3>1, <3>2, FS_Surjection
  <2> DEFINE s == SetToSeq(rest)
  <2>3. s \in Seq(rest)
    BY <2>2, SetToSeqIs
  <2>4. s \in Seq(PathRecs) /\ \A i \in DOMAIN s : Within(b, s[i])
    <3>1. s \in Seq(PathRecs)
      BY <2>1, <2>3, SeqMonotonic
    <3>2. \A i \in DOMAIN s : s[i] \in rest
      BY <2>3
    <3> QED
      BY <2>1, <3>1, <3>2
  <2> DEFINE none == {}
  <2>5. Expands(b, E, s \o T, none, none, none) /\ none \subseteq {"objects", "folders"} /\ none \subseteq Entries /\ none \subseteq Names
    BY <1>12
  <2> HIDE DEF s, none
  <2>6. s \o T \in Seq(PathRecs) /\ \A i \in DOMAIN (s \o T) : Within(b, (s \o T)[i])
    <3>1. s \o T \in Seq(PathRecs) /\ Len(s \o T) = Len(s) + Len(T) /\ Len(s) \in Nat /\ Len(T) \in Nat
      BY <1>3, <2>4
    <3>2. ASSUME NEW i \in DOMAIN (s \o T) PROVE Within(b, (s \o T)[i])
      <4>1. i \in 1..Len(s) + Len(T)
        BY <3>1
      <4>2. CASE i <= Len(s)
        BY <1>3, <2>4, <3>1, <4>1, <4>2
      <4>3. CASE i > Len(s)
        BY <1>3, <2>4, <3>1, <4>1, <4>3
      <4> QED
        BY <3>1, <4>1, <4>2, <4>3
    <3> QED
      BY <3>1, <3>2
  <2> QED
    BY <1>1, <1>l, <1>8, <2>5, <2>6, ExpandKept
<1> QED
  BY <1>2, <1>10, <1>11, <1>12

\* What the entries found become.
LEMMA FoundNames ==
  ASSUME World, NEW b \in Groups
  PROVE  /\ FileNames(b) \subseteq Names /\ IsFiniteSet(FileNames(b)) /\ \A n \in FileNames(b) : InScope(b, n)
         /\ DirNames(b) \subseteq Names /\ \A d \in DirNames(b) : InScope(b, d) /\ ~IsMarker(d)
         /\ ~Hns(b) => DirNames(b) \subseteq {Root}
<1> DEFINE G == group[b].found
<1>1. G \subseteq Entries /\ IsFiniteSet(G) /\ \A e \in G : InScope(b, e[1]) /\ (e[2] = "directory" => ~IsMarker(e[1]))
  BY GroupFacts, FieldsOf DEF Sizes, Scoped
<1>2. \A e \in G : e[1] \in Names
  BY <1>1 DEF Entries
<1> DEFINE Fs == NamesOf(G, "file")
           Ds == NamesOf(G, "directory")
           Es == {e[1] : e \in G}
<1>3. IsFiniteSet(Fs) /\ IsFiniteSet(Ds) /\ IsFiniteSet(Es)
  <2> HIDE DEF G
  <2> QED
    BY <1>1, NamesFinite
<1>4. /\ Fs \subseteq Names /\ \A n \in Fs : InScope(b, n)
      /\ Es \subseteq Names /\ \A n \in Es : InScope(b, n)
      /\ Ds \subseteq Names /\ \A d \in Ds : InScope(b, d) /\ ~IsMarker(d)
  BY <1>1, <1>2 DEF NamesOf
<1>5. DirNames(b) = IF Hns(b) THEN Ds ELSE {Root} \cap Fs
  BY DEF DirNames
<1>6. FileNames(b) = IF Hns(b) THEN Fs \cup Hidden(b) ELSE Es \ {Root}
  BY DEF FileNames
<1>7. Hidden(b) \subseteq DirNames(b)
  BY DEF Hidden
<1>8. ~IsMarker(Root)
  BY DEF IsMarker
<1> HIDE DEF Fs, Ds, Es
<1>9. IsFiniteSet(FileNames(b))
  <2>1. CASE Hns(b)
    <3>1. IsFiniteSet(Hidden(b))
      BY <1>3, <1>5, <1>7, <2>1, FS_Subset
    <3> QED
      BY <1>3, <1>6, <2>1, <3>1, FS_Union
  <2>2. CASE ~Hns(b)
    BY <1>3, <1>6, <2>2, FS_Subset
  <2> QED
    BY <2>1, <2>2
<1> QED
  BY <1>4, <1>5, <1>6, <1>7, <1>8, <1>9

LEMMA ExpandedMeans ==
  ASSUME DOMAIN group = Groups, NEW b \in Groups, group[b] \in GroupStates, Expanded(b), group[b].found # {}
  PROVE  /\ DOMAIN group' = Groups /\ \A c \in Groups \ {b} : group'[c] = group[c]
         /\ group'[b].stage = "files" /\ group'[b].ended = group[b].ended
         /\ group'[b].jobs = Batches(FileNames(b)) /\ group'[b].dirs = DirNames(b)
         /\ group'[b].found = group[b].found /\ group'[b].todo = group[b].todo /\ group'[b].asked = group[b].asked
         /\ group'[b].gone = group[b].gone /\ group'[b].failed = group[b].failed
         /\ group'[b].unsure = group[b].unsure
         /\ Batches(FileNames(b)) \subseteq Jobs /\ DirNames(b) \subseteq Names => group'[b] \in GroupStates
<1> DEFINE J == Batches(FileNames(b))
           D == DirNames(b)
<1>1. group' = [group EXCEPT ![b].stage = "files", ![b].jobs = J, ![b].dirs = D]
  BY DEF Expanded
<1> HIDE DEF J, D
<1>2. /\ DOMAIN group' = Groups /\ \A c \in Groups \ {b} : group'[c] = group[c]
      /\ group'[b].stage = "files" /\ group'[b].ended = group[b].ended
      /\ group'[b].jobs = J /\ group'[b].dirs = D
      /\ group'[b].found = group[b].found /\ group'[b].todo = group[b].todo /\ group'[b].asked = group[b].asked
      /\ group'[b].gone = group[b].gone /\ group'[b].failed = group[b].failed /\ group'[b].unsure = group[b].unsure
      /\ J \subseteq Jobs /\ D \subseteq Names => group'[b] \in GroupStates
  BY <1>1 DEF GroupStates
<1> QED
  BY <1>2 DEF J, D

LEMMA ExpandedKept == ASSUME World, NEW b \in Groups, Expanded(b) PROVE World' /\ Elsewhere(b)
<1> DEFINE J == Batches(FileNames(b))
           D == DirNames(b)
<1>1. /\ RmShape /\ BucketOK(b) /\ Sizes(b) /\ Scoped(b) /\ DOMAIN group = Groups /\ group[b] \in GroupStates
  BY GroupFacts
<1>2. /\ rmCall' = rmCall /\ rmFaults' \in Nat /\ UNCHANGED <<objects, folders, shown, created>>
      /\ BucketsStay /\ ListingsKept(b)
  BY <1>1, SameListings DEF Expanded, GroupOnly, RmShape, BucketsStay
<1>3. CASE group[b].found = {}
  <2>1. GroupEnds(b, "missing")
    BY <1>3 DEF Expanded
  <2> QED
    BY <1>2, <2>1, EndKept
<1>4. CASE group[b].found # {}
  <2>1. /\ FileNames(b) \subseteq Names /\ IsFiniteSet(FileNames(b)) /\ \A n \in FileNames(b) : InScope(b, n)
        /\ D \subseteq Names /\ \A d \in D : InScope(b, d) /\ ~IsMarker(d)
    BY FoundNames
  <2>2. \A job \in J : job.left \subseteq FileNames(b) /\ IsFiniteSet(job.left) /\ job = [left |-> job.left, sent |-> 0]
    BY <2>1, BatchesAre
  <2> HIDE DEF J, D
  <2>3. J \subseteq Jobs
    BY <2>1, <2>2 DEF Jobs
  <2>4. DOMAIN group' = Groups /\ (\A c \in Groups \ {b} : group'[c] = group[c]) /\ group'[b] \in GroupStates
    BY <1>1, <1>4, <2>1, <2>3, ExpandedMeans DEF J, D
  <2>5. /\ group'[b].stage = "files" /\ group'[b].ended = group[b].ended
        /\ group'[b].jobs = J /\ group'[b].dirs = D
        /\ group'[b].found = group[b].found /\ group'[b].todo = group[b].todo
    BY <1>1, <1>4, ExpandedMeans DEF J, D
  <2>6. group[b].ended = "no"
    BY DEF Expanded, At
  <2>7. Elsewhere(b)
    BY <1>1, <1>2, <2>4 DEF Elsewhere, RmShape
  <2>8. (\A n : InScope(b, n)' = InScope(b, n)) /\ \A q : Within(b, q)' = Within(b, q)
    BY <1>2, SameScope
  <2>9. Sizes(b)'
    BY <1>1, <1>2, <2>2, <2>4, <2>5, <2>6 DEF Sizes
  <2>10. Scoped(b)'
    <3>1. \A job \in group'[b].jobs : \A n \in job.left : InScope(b, n)
      BY <2>1, <2>2, <2>5
    <3>2. \A d \in group'[b].dirs : InScope(b, d) /\ ~IsMarker(d)
      BY <2>1, <2>5
    <3> QED
      BY <1>1, <2>5, <2>8, <3>1, <3>2 DEF Scoped
  <2>11. BucketOK(b)'
    BY <1>2, SameBucket
  <2> QED
    BY <2>7, <2>9, <2>10, <2>11, OneGroup DEF Holds
<1> QED
  BY <1>3, <1>4

LEMMA ExpansionFailsKept == ASSUME World, NEW b \in Groups, ExpansionFails(b) PROVE World' /\ Elsewhere(b)
<1>1. BucketsStay /\ rmFaults' \in Nat /\ ListingsKept(b) /\ GroupEnds(b, "error")
  BY GroupFacts, SameListings DEF ExpansionFails, RmShape
<1> QED
  BY <1>1, EndKept

LEMMA GroupOverKept == ASSUME World, NEW b \in Groups, GroupOver(b) PROVE World' /\ Elsewhere(b)
<1> DEFINE how == IF group[b].failed THEN "error" ELSE IF ~Hns(b) /\ group[b].gone = {} THEN "missing" ELSE "done"
<1>1. BucketsStay /\ rmFaults' \in Nat /\ ListingsKept(b)
  BY GroupFacts, SameListings DEF GroupOver, RmShape, GroupOnly
<1>2. how \in {"done", "missing", "error"} /\ GroupEnds(b, how)
  BY DEF GroupOver
<1> HIDE DEF how
<1> QED
  BY <1>1, <1>2, EndKept

LEMMA FilesDoneMeans ==
  ASSUME DOMAIN group = Groups, NEW b \in Groups, group[b] \in GroupStates, group' = [group EXCEPT ![b].stage = "dirs"]
  PROVE  /\ DOMAIN group' = Groups /\ \A c \in Groups \ {b} : group'[c] = group[c]
         /\ group'[b].stage = "dirs" /\ group'[b].ended = group[b].ended
         /\ group'[b].jobs = group[b].jobs /\ group'[b].dirs = group[b].dirs
         /\ group'[b].found = group[b].found /\ group'[b].todo = group[b].todo
         /\ group'[b].gone = group[b].gone /\ group'[b].failed = group[b].failed /\ group'[b].unsure = group[b].unsure
         /\ group'[b] \in GroupStates
BY DEF GroupStates

LEMMA FilesDoneKept == ASSUME World, NEW b \in Groups, FilesDone(b) PROVE World' /\ Elsewhere(b)
<1>1. /\ RmShape /\ BucketOK(b) /\ Sizes(b) /\ Scoped(b) /\ DOMAIN group = Groups /\ group[b] \in GroupStates
  BY GroupFacts
<1>2. rmCall' = rmCall /\ UNCHANGED <<objects, folders, shown, created, rmFaults>>
  BY DEF FilesDone, GroupOnly, BucketsStay
<1>3. group' = [group EXCEPT ![b].stage = "dirs"] /\ group[b].ended = "no"
  BY DEF FilesDone, At
<1>4. /\ DOMAIN group' = Groups /\ \A c \in Groups \ {b} : group'[c] = group[c]
      /\ group'[b].stage = "dirs" /\ group'[b].ended = group[b].ended
      /\ group'[b].jobs = group[b].jobs /\ group'[b].dirs = group[b].dirs
      /\ group'[b].found = group[b].found /\ group'[b].todo = group[b].todo
      /\ group'[b] \in GroupStates
  BY <1>1, <1>3, FilesDoneMeans
<1>5. Elsewhere(b)
  BY <1>1, <1>2, <1>4 DEF Elsewhere, RmShape
<1>6. (\A n : InScope(b, n)' = InScope(b, n)) /\ \A q : Within(b, q)' = Within(b, q)
  BY <1>2, SameScope
<1>7. Sizes(b)'
  BY <1>1, <1>2, <1>3, <1>4 DEF Sizes
<1>8. Scoped(b)'
  BY <1>1, <1>4, <1>6 DEF Scoped
<1>9. BucketOK(b)'
  BY <1>2, SameBucket
<1> QED
  BY <1>5, <1>7, <1>8, <1>9, OneGroup DEF Holds

LEMMA FewerObjects ==
  ASSUME World, NEW b \in Groups, rmCall' = rmCall, objects'[b] \subseteq objects[b], folders'[b] = folders[b],
         created'[b] = created[b]
  PROVE  BucketOK(b)'
<1>1. Hns(b)' = Hns(b) /\ BucketOK(b)
  BY SameScope, GroupFacts
<1>2. IsFiniteSet(objects'[b])
  BY <1>1, FS_Subset DEF BucketOK
<1> QED
  BY <1>1, <1>2 DEF BucketOK

LEMMA FewerFolders ==
  ASSUME World, NEW b \in Groups, NEW d \in Names, Empty(b, d), rmCall' = rmCall, objects'[b] = objects[b],
         folders'[b] = folders[b] \ {d}, created'[b] = created[b]
  PROVE  BucketOK(b)'
<1>1. Hns(b)' = Hns(b) /\ BucketOK(b)
  BY SameScope, GroupFacts
<1>2. IsFiniteSet(folders'[b])
  BY <1>1, FS_Subset DEF BucketOK
<1>3. \A n \in objects[b] \cup folders[b] : n \in Names
  BY <1>1, ObjectNamesAre DEF BucketOK
<1>4. \A n \in objects[b] \cup folders[b] : d \notin Ancestors(n)
  BY <1>3, AncestorMeans DEF Empty, Under
<1>5. Hns(b) => \A n \in objects'[b] \cup folders'[b] : Ancestors(n) \subseteq folders'[b]
  BY <1>1, <1>4 DEF BucketOK
<1> QED
  BY <1>1, <1>2, <1>5 DEF BucketOK

\* A step that deletes: the group has the same entries, and no more left to do.
LEMMA DeleteKept ==
  ASSUME World, NEW b \in Groups, Elsewhere(b), BucketOK(b)', shown'[b] \subseteq shown[b],
         group'[b] \in GroupStates, group'[b].found = group[b].found, group'[b].todo = group[b].todo,
         group'[b].stage = group[b].stage, group'[b].ended = group[b].ended,
         group'[b].dirs \subseteq group[b].dirs,
         \A new \in group'[b].jobs : \E job \in group[b].jobs : new.left \subseteq job.left
  PROVE  World'
<1>1. Sizes(b) /\ Scoped(b)
  BY GroupFacts
<1>2. (\A n : InScope(b, n)' = InScope(b, n)) /\ \A q : Within(b, q)' = Within(b, q)
  BY SameScope DEF Elsewhere
<1>3. \A new \in group'[b].jobs : IsFiniteSet(new.left) /\ \A n \in new.left : InScope(b, n)
  <2> SUFFICES ASSUME NEW new \in group'[b].jobs
               PROVE  IsFiniteSet(new.left) /\ \A n \in new.left : InScope(b, n)
    OBVIOUS
  <2>1. PICK job \in group[b].jobs : new.left \subseteq job.left
    OBVIOUS
  <2>2. IsFiniteSet(job.left) /\ \A n \in job.left : InScope(b, n)
    BY <1>1 DEF Sizes, Scoped
  <2> QED
    BY <2>1, <2>2, FS_Subset
<1>4. Sizes(b)'
  BY <1>1, <1>3 DEF Sizes
<1>5. Scoped(b)'
  BY <1>1, <1>2, <1>3 DEF Scoped
<1> QED
  BY <1>4, <1>5, OneGroup DEF Holds

\* A reply to a batch, o, as SendBatch reads it.
Clean(job, o) == job.left \ Faulty(o)
Busy(job, o) == {n \in job.left : o[n] \in {"busy", "busyDone"}}
Again(job, o) == IF job.sent + 1 < RmAttempts THEN Busy(job, o) ELSE {}
Deleted(job, o) == {n \in job.left : o[n] \in {"clean", "busyDone"}}
Retried(job, o) == IF Again(job, o) = {} THEN {} ELSE {[left |-> Again(job, o), sent |-> job.sent + 1]}
Answers(b, job, o) ==
  /\ At(b, "files") /\ job \in group[b].jobs /\ o \in [job.left -> {"clean", "busy", "busyDone", "denied"}]
  /\ rmFaults + Cardinality(Faulty(o)) <= MaxRmFaults
  /\ rmFaults' = rmFaults + Cardinality(Faulty(o))
  /\ objects' = [objects EXCEPT ![b] = @ \ Deleted(job, o)]
  /\ group' = [group EXCEPT
       ![b].jobs = (@ \ {job}) \cup Retried(job, o),
       ![b].gone = @ \cup FileEntries(Clean(job, o) \cap objects[b]),
       ![b].failed = @ \/ Faulty(o) \ Again(job, o) # {}]
  /\ shown' = [shown EXCEPT ![b] = Unshown(b, Clean(job, o))]
  /\ UNCHANGED <<rmCall, folders, created>>

LEMMA SendBatchMeans ==
  ASSUME NEW b, NEW job, SendBatch(b, job)
  PROVE  \E o : Answers(b, job, o)
BY DEF SendBatch, Answers, Clean, Busy, Again, Retried, Deleted

LEMMA AnswersMean ==
  ASSUME World, NEW b \in Groups, NEW job, NEW o, Answers(b, job, o)
  PROVE  /\ DOMAIN group' = Groups /\ \A c \in Groups \ {b} : group'[c] = group[c]
         /\ group'[b].jobs = (group[b].jobs \ {job}) \cup Retried(job, o)
         /\ group'[b].gone = group[b].gone \cup FileEntries(Clean(job, o) \cap objects[b])
         /\ group'[b].failed <=> group[b].failed \/ Faulty(o) \ Again(job, o) # {}
         /\ group'[b].stage = group[b].stage /\ group'[b].ended = group[b].ended /\ group'[b].unsure = group[b].unsure
         /\ group'[b].dirs = group[b].dirs /\ group'[b].found = group[b].found /\ group'[b].todo = group[b].todo
         /\ group'[b] \in GroupStates
<1>1. /\ DOMAIN group = Groups /\ group[b] \in GroupStates
  BY GroupFacts
<1> DEFINE J == (group[b].jobs \ {job}) \cup Retried(job, o)
           G == group[b].gone \cup FileEntries(Clean(job, o) \cap objects[b])
           f == group[b].failed \/ Faulty(o) \ Again(job, o) # {}
<1>2. group' = [group EXCEPT ![b].jobs = J, ![b].gone = G, ![b].failed = f]
  BY DEF Answers
<1>3. J \subseteq Jobs
  <2>1. job \in Jobs /\ group[b].jobs \subseteq Jobs
    BY <1>1, FieldsOf DEF Answers
  <2>2. job.left \subseteq Names /\ job.sent + 1 \in Nat
    BY <2>1 DEF Jobs
  <2>3. Again(job, o) \subseteq job.left
    BY DEF Again, Busy
  <2>4. [left |-> Again(job, o), sent |-> job.sent + 1] \in Jobs
    BY <2>2, <2>3 DEF Jobs
  <2> QED
    BY <2>1, <2>4 DEF Retried
<1>4. G \subseteq Entries
  <2>1. job \in Jobs /\ group[b].gone \subseteq Entries
    BY <1>1, FieldsOf DEF Answers
  <2>2. Clean(job, o) \subseteq Names
    BY <2>1 DEF Jobs, Clean
  <2> QED
    BY <2>1, <2>2 DEF FileEntries, Entries
<1>5. f \in BOOLEAN
  OBVIOUS
<1> HIDE DEF J, G, f
<1>6. /\ DOMAIN group' = Groups /\ \A c \in Groups \ {b} : group'[c] = group[c]
      /\ group'[b].jobs = J /\ group'[b].gone = G /\ group'[b].failed = f
      /\ group'[b].stage = group[b].stage /\ group'[b].ended = group[b].ended /\ group'[b].unsure = group[b].unsure
      /\ group'[b].dirs = group[b].dirs /\ group'[b].found = group[b].found /\ group'[b].todo = group[b].todo
      /\ group'[b] \in GroupStates
  BY <1>1, <1>2, <1>3, <1>4, <1>5 DEF GroupStates
<1> QED
  BY <1>5, <1>6 DEF J, G, f

LEMMA UnshownFewer == \A b, names : Unshown(b, names) \subseteq shown[b]
BY DEF Unshown

LEMMA FaultyFinite ==
  ASSUME NEW job, IsFiniteSet(job.left), NEW o \in [job.left -> {"clean", "busy", "busyDone", "denied"}]
  PROVE  IsFiniteSet(Faulty(o)) /\ Cardinality(Faulty(o)) \in Nat /\ (Cardinality(Faulty(o)) = 0 => Faulty(o) = {})
<1>1. Faulty(o) \subseteq job.left
  BY DEF Faulty
<1>2. IsFiniteSet(Faulty(o))
  BY <1>1, FS_Subset
<1> QED
  BY <1>2, FS_CardinalityType, FS_EmptySet

LEMMA AnswersJobs ==
  ASSUME World, NEW b \in Groups, NEW job, NEW o, Answers(b, job, o)
  PROVE  group'[b].jobs = (group[b].jobs \ {job}) \cup Retried(job, o)
<1>1. DOMAIN group = Groups /\ group[b] \in GroupStates
  BY GroupFacts
<1> DEFINE J == (group[b].jobs \ {job}) \cup Retried(job, o)
           G == group[b].gone \cup FileEntries(Clean(job, o) \cap objects[b])
           f == group[b].failed \/ Faulty(o) \ Again(job, o) # {}
<1>2. group' = [group EXCEPT ![b].jobs = J, ![b].gone = G, ![b].failed = f]
  BY DEF Answers
<1> HIDE DEF J, G, f
<1>3. group'[b].jobs = J
  BY <1>1, <1>2 DEF GroupStates
<1> QED
  BY <1>3 DEF J

LEMMA SendBatchKept == ASSUME World, NEW b \in Groups, NEW job, SendBatch(b, job) PROVE World' /\ Elsewhere(b)
<1>1. PICK o : Answers(b, job, o)
  BY SendBatchMeans
<1>2. RmShape /\ Sizes(b) /\ rmFaults \in Nat
  BY GroupFacts DEF RmShape
<1>3. rmCall' = rmCall /\ UNCHANGED <<folders, created>> /\ job \in group[b].jobs
  BY <1>1 DEF Answers
<1>4. rmFaults' \in Nat
  <2>1. Cardinality(Faulty(o)) \in Nat
    BY <1>1, <1>2, FaultyFinite DEF Answers, Sizes
  <2>2. rmFaults' = rmFaults + Cardinality(Faulty(o))
    BY <1>1 DEF Answers
  <2> QED
    BY <1>2, <2>1, <2>2
<1>5. /\ DOMAIN objects' = Groups /\ (\A c \in Groups \ {b} : objects'[c] = objects[c])
      /\ objects'[b] \subseteq objects[b]
  BY <1>1, <1>2 DEF Answers, RmShape
<1>6. /\ DOMAIN shown' = Groups /\ (\A c \in Groups \ {b} : shown'[c] = shown[c])
      /\ shown'[b] \subseteq shown[b]
  BY <1>1, <1>2, UnshownFewer DEF Answers, RmShape
<1>7. /\ DOMAIN group' = Groups /\ \A c \in Groups \ {b} : group'[c] = group[c]
      /\ group'[b].stage = group[b].stage /\ group'[b].ended = group[b].ended
      /\ group'[b].dirs = group[b].dirs /\ group'[b].found = group[b].found /\ group'[b].todo = group[b].todo
      /\ group'[b] \in GroupStates
  BY <1>1, AnswersMean
<1>8. \A new \in group'[b].jobs : \E old \in group[b].jobs : new.left \subseteq old.left
  <2>1. group'[b].jobs = (group[b].jobs \ {job}) \cup Retried(job, o)
    BY <1>1, AnswersJobs
  <2>2. Again(job, o) \subseteq job.left
    BY DEF Again, Busy
  <2>3. ASSUME NEW new \in group'[b].jobs, new \notin group[b].jobs PROVE new.left \subseteq job.left
    BY <2>1, <2>2, <2>3 DEF Retried
  <2> QED
    BY <1>3, <2>3
<1>9. Elsewhere(b)
  BY <1>2, <1>3, <1>4, <1>5, <1>6, <1>7 DEF Elsewhere, RmShape
<1>10. BucketOK(b)'
  BY <1>3, <1>5, FewerObjects
<1> QED
  BY <1>6, <1>7, <1>8, <1>9, <1>10, DeleteKept

LEMMA BatchFailsMeans ==
  ASSUME World, NEW b \in Groups, NEW job, BatchFails(b, job)
  PROVE  /\ rmCall' = rmCall /\ UNCHANGED <<folders, shown, created>> /\ rmFaults' = rmFaults + 1
         /\ DOMAIN objects' = Groups /\ (\A c \in Groups \ {b} : objects'[c] = objects[c])
         /\ objects'[b] \subseteq objects[b] /\ objects[b] \ objects'[b] \subseteq job.left /\ job \in group[b].jobs
         /\ DOMAIN group' = Groups /\ (\A c \in Groups \ {b} : group'[c] = group[c])
         /\ group'[b].jobs = group[b].jobs \ {job} /\ group'[b].failed /\ group'[b].gone = group[b].gone
         /\ group'[b].stage = group[b].stage /\ group'[b].ended = group[b].ended /\ group'[b].unsure = group[b].unsure
         /\ group'[b].dirs = group[b].dirs /\ group'[b].found = group[b].found /\ group'[b].todo = group[b].todo
         /\ group'[b] \in GroupStates
<1>1. RmShape /\ DOMAIN group = Groups /\ group[b] \in GroupStates
  BY GroupFacts
<1>2. group' = [group EXCEPT ![b].jobs = @ \ {job}, ![b].failed = TRUE] /\ job \in group[b].jobs
  BY DEF BatchFails
<1>3. /\ DOMAIN group' = Groups /\ (\A c \in Groups \ {b} : group'[c] = group[c])
      /\ group'[b].jobs = group[b].jobs \ {job} /\ group'[b].failed /\ group'[b].gone = group[b].gone
      /\ group'[b].stage = group[b].stage /\ group'[b].ended = group[b].ended /\ group'[b].unsure = group[b].unsure
      /\ group'[b].dirs = group[b].dirs /\ group'[b].found = group[b].found /\ group'[b].todo = group[b].todo
      /\ group'[b] \in GroupStates
  BY <1>1, <1>2 DEF GroupStates
<1>4. /\ DOMAIN objects' = Groups /\ (\A c \in Groups \ {b} : objects'[c] = objects[c])
      /\ objects'[b] \subseteq objects[b] /\ objects[b] \ objects'[b] \subseteq job.left
  BY <1>1 DEF BatchFails, RmShape
<1> QED
  BY <1>2, <1>3, <1>4 DEF BatchFails

LEMMA BatchFailsKept == ASSUME World, NEW b \in Groups, NEW job, BatchFails(b, job) PROVE World' /\ Elsewhere(b)
<1>1. RmShape /\ rmFaults \in Nat
  BY GroupFacts DEF RmShape
<1>2. /\ rmCall' = rmCall /\ UNCHANGED <<folders, shown, created>> /\ rmFaults' = rmFaults + 1
      /\ DOMAIN objects' = Groups /\ (\A c \in Groups \ {b} : objects'[c] = objects[c]) /\ objects'[b] \subseteq objects[b]
      /\ DOMAIN group' = Groups /\ (\A c \in Groups \ {b} : group'[c] = group[c])
      /\ group'[b].jobs \subseteq group[b].jobs
  BY BatchFailsMeans
<1>3. /\ group'[b].stage = group[b].stage /\ group'[b].ended = group[b].ended
      /\ group'[b].dirs = group[b].dirs /\ group'[b].found = group[b].found /\ group'[b].todo = group[b].todo
      /\ group'[b] \in GroupStates
  BY BatchFailsMeans
<1>4. Elsewhere(b)
  BY <1>1, <1>2 DEF Elsewhere, RmShape
<1>5. BucketOK(b)'
  BY <1>2, FewerObjects
<1>6. shown'[b] \subseteq shown[b] /\ \A new \in group'[b].jobs : \E old \in group[b].jobs : new.left \subseteq old.left
  BY <1>2
<1> QED
  BY <1>3, <1>4, <1>5, <1>6, DeleteKept

LEMMA DirDoneMeans ==
  ASSUME World, NEW b \in Groups, NEW d \in group[b].dirs, NEW failed, DirDone(b, d, failed)
  PROVE  /\ DOMAIN group' = Groups /\ \A c \in Groups \ {b} : group'[c] = group[c]
         /\ group'[b].dirs = group[b].dirs \ {d}
         /\ group'[b].stage = group[b].stage /\ group'[b].ended = group[b].ended /\ group'[b].unsure = group[b].unsure
         /\ group'[b].jobs = group[b].jobs /\ group'[b].found = group[b].found /\ group'[b].todo = group[b].todo
         /\ group'[b].failed = (group[b].failed \/ failed)
         /\ group'[b].gone = group[b].gone \cup IF failed \/ d \notin folders[b] THEN {} ELSE DirEntries({d})
         /\ group'[b] \in GroupStates
<1>1. DOMAIN group = Groups /\ group[b] \in GroupStates
  BY GroupFacts
<1> DEFINE rest == IF failed \/ d \notin folders[b] THEN {} ELSE DirEntries({d})
           f == group[b].failed \/ failed
<1>2. group' = [group EXCEPT ![b].dirs = @ \ {d}, ![b].failed = f, ![b].gone = @ \cup rest]
  BY DEF DirDone
<1>3. rest \subseteq Entries /\ f \in BOOLEAN
  BY <1>1, FieldsOf DEF DirEntries, Entries
<1> HIDE DEF rest, f
<1>4. /\ DOMAIN group' = Groups /\ \A c \in Groups \ {b} : group'[c] = group[c]
      /\ group'[b].dirs = group[b].dirs \ {d} /\ group'[b].failed = f
      /\ group'[b].gone = group[b].gone \cup rest
      /\ group'[b].stage = group[b].stage /\ group'[b].ended = group[b].ended /\ group'[b].unsure = group[b].unsure
      /\ group'[b].jobs = group[b].jobs /\ group'[b].found = group[b].found /\ group'[b].todo = group[b].todo
      /\ group'[b] \in GroupStates
  BY <1>1, <1>2, <1>3 DEF GroupStates
<1> QED
  BY <1>4 DEF rest, f

\* What is left of a directory's step besides what it says of its outcome.
LEMMA DirDoneShape ==
  ASSUME World, NEW b \in Groups, NEW d \in group[b].dirs, DirDone(b, d, TRUE) \/ DirDone(b, d, FALSE)
  PROVE  /\ DOMAIN group' = Groups /\ \A c \in Groups \ {b} : group'[c] = group[c]
         /\ group'[b].dirs = group[b].dirs \ {d}
         /\ group'[b].stage = group[b].stage /\ group'[b].ended = group[b].ended /\ group'[b].unsure = group[b].unsure
         /\ group'[b].jobs = group[b].jobs /\ group'[b].found = group[b].found /\ group'[b].todo = group[b].todo
         /\ group'[b] \in GroupStates
<1>1. CASE DirDone(b, d, TRUE)
  BY <1>1, DirDoneMeans, Zenon
<1>2. CASE DirDone(b, d, FALSE)
  BY <1>2, DirDoneMeans, Zenon
<1> QED
  BY <1>1, <1>2

\* What a directory's step says when it failed, and when it did not.
LEMMA DirFailed ==
  ASSUME World, NEW b \in Groups, NEW d \in group[b].dirs, DirDone(b, d, TRUE)
  PROVE  group'[b].failed = TRUE /\ group'[b].gone = group[b].gone
<1>1. /\ group'[b].failed = (group[b].failed \/ TRUE)
      /\ group'[b].gone = group[b].gone \cup IF TRUE \/ d \notin folders[b] THEN {} ELSE DirEntries({d})
  BY DirDoneMeans, Zenon
<1> QED
  BY <1>1

LEMMA DirWent ==
  ASSUME World, NEW b \in Groups, NEW d \in group[b].dirs, DirDone(b, d, FALSE)
  PROVE  /\ group'[b].failed = group[b].failed
         /\ group'[b].gone = group[b].gone \cup IF d \notin folders[b] THEN {} ELSE DirEntries({d})
<1>1. /\ group'[b].failed = (group[b].failed \/ FALSE)
      /\ group'[b].gone = group[b].gone \cup IF FALSE \/ d \notin folders[b] THEN {} ELSE DirEntries({d})
  BY DirDoneMeans, Zenon
<1>2. group[b].failed \in BOOLEAN
  BY GroupFacts DEF GroupStates
<1> QED
  BY <1>1, <1>2

LEMMA SameJobs ==
  ASSUME NEW b, group'[b].jobs = group[b].jobs
  PROVE  \A new \in group'[b].jobs : \E job \in group[b].jobs : new.left \subseteq job.left
OBVIOUS

LEMMA RemoveMarkerMeans ==
  ASSUME World, NEW b \in Groups, NEW d \in group[b].dirs, RemoveMarker(b, d)
  PROVE  /\ UNCHANGED <<rmCall, folders, shown, created, rmFaults>>
         /\ DOMAIN objects' = Groups /\ (\A c \in Groups \ {b} : objects'[c] = objects[c])
         /\ objects'[b] = objects[b] \ {Marker(d)}
         /\ DOMAIN group' = Groups /\ (\A c \in Groups \ {b} : group'[c] = group[c])
         /\ group'[b].dirs = group[b].dirs /\ group'[b].failed = group[b].failed /\ group'[b].gone = group[b].gone
         /\ group'[b].stage = group[b].stage /\ group'[b].ended = group[b].ended /\ group'[b].unsure = group[b].unsure
         /\ group'[b].jobs = group[b].jobs /\ group'[b].found = group[b].found /\ group'[b].todo = group[b].todo
         /\ group'[b] \in GroupStates
<1>1. RmShape /\ DOMAIN group = Groups /\ group[b] \in GroupStates /\ d \in Names
  BY GroupFacts, FieldsOf
<1>2. group' = [group EXCEPT ![b].marked = @ \cup {d}]
  BY DEF RemoveMarker
<1>3. /\ DOMAIN group' = Groups /\ (\A c \in Groups \ {b} : group'[c] = group[c])
      /\ group'[b].dirs = group[b].dirs /\ group'[b].failed = group[b].failed /\ group'[b].gone = group[b].gone
      /\ group'[b].stage = group[b].stage /\ group'[b].ended = group[b].ended /\ group'[b].unsure = group[b].unsure
      /\ group'[b].jobs = group[b].jobs /\ group'[b].found = group[b].found /\ group'[b].todo = group[b].todo
      /\ group'[b] \in GroupStates
  BY <1>1, <1>2 DEF GroupStates
<1>4. /\ DOMAIN objects' = Groups /\ (\A c \in Groups \ {b} : objects'[c] = objects[c])
      /\ objects'[b] = objects[b] \ {Marker(d)}
  BY <1>1 DEF RemoveMarker, RmShape
<1> QED
  BY <1>3, <1>4 DEF RemoveMarker

LEMMA RemoveMarkerKept ==
  ASSUME World, NEW b \in Groups, NEW d \in group[b].dirs, RemoveMarker(b, d)
  PROVE  World' /\ Elsewhere(b)
<1>1. RmShape
  BY GroupFacts
<1>2. /\ UNCHANGED <<rmCall, folders, shown, created, rmFaults>>
      /\ DOMAIN objects' = Groups /\ (\A c \in Groups \ {b} : objects'[c] = objects[c])
      /\ objects'[b] \subseteq objects[b]
      /\ DOMAIN group' = Groups /\ (\A c \in Groups \ {b} : group'[c] = group[c])
  BY RemoveMarkerMeans
<1>3. /\ group'[b].dirs = group[b].dirs
      /\ group'[b].stage = group[b].stage /\ group'[b].ended = group[b].ended
      /\ group'[b].jobs = group[b].jobs /\ group'[b].found = group[b].found /\ group'[b].todo = group[b].todo
      /\ group'[b] \in GroupStates
  BY RemoveMarkerMeans
<1>4. Elsewhere(b)
  BY <1>1, <1>2 DEF Elsewhere, RmShape
<1>5. BucketOK(b)'
  BY <1>2, FewerObjects
<1>6. shown'[b] \subseteq shown[b] /\ \A new \in group'[b].jobs : \E old \in group[b].jobs : new.left \subseteq old.left
  BY <1>2, <1>3, SameJobs
<1> QED
  BY <1>3, <1>4, <1>5, <1>6, DeleteKept

LEMMA RemoveFolderMeans ==
  ASSUME World, NEW b \in Groups, NEW d \in group[b].dirs, RemoveFolder(b, d)
  PROVE  /\ UNCHANGED <<rmCall, objects, created, rmFaults>>
         /\ DOMAIN folders' = Groups /\ (\A c \in Groups \ {b} : folders'[c] = folders[c])
         /\ DOMAIN shown' = Groups /\ (\A c \in Groups \ {b} : shown'[c] = shown[c])
         /\ \/ /\ d \in folders[b] /\ Empty(b, d) /\ folders'[b] = folders[b] \ {d}
               /\ shown'[b] = {e \in shown[b] : e # <<d, "directory">> /\ Front(e[1]) # d}
               /\ DirDone(b, d, FALSE)
            \/ /\ d \in folders[b] /\ ~Empty(b, d) /\ folders'[b] = folders[b] /\ shown'[b] = shown[b]
               /\ DirDone(b, d, TRUE)
            \/ /\ d \notin folders[b] /\ folders'[b] = folders[b] /\ shown'[b] = shown[b]
               /\ DirDone(b, d, FALSE)
<1>1. RmShape
  BY GroupFacts
<1> DEFINE removed == d \in folders[b] /\ Empty(b, d)
           failed == d \in folders[b] /\ ~Empty(b, d)
           S == IF ~removed THEN shown[b] ELSE {e \in shown[b] : e # <<d, "directory">> /\ Front(e[1]) # d}
           Fs == IF removed THEN folders[b] \ {d} ELSE folders[b]
<1>2. /\ folders' = [folders EXCEPT ![b] = Fs] /\ DirDone(b, d, failed) /\ shown' = [shown EXCEPT ![b] = S]
      /\ UNCHANGED <<rmCall, objects, created, rmFaults>>
  BY DEF RemoveFolder
<1>3. failed \in BOOLEAN /\ removed \in BOOLEAN
  OBVIOUS
<1> HIDE DEF S, Fs
<1>4. /\ DOMAIN folders' = Groups /\ (\A c \in Groups \ {b} : folders'[c] = folders[c]) /\ folders'[b] = Fs
      /\ DOMAIN shown' = Groups /\ (\A c \in Groups \ {b} : shown'[c] = shown[c]) /\ shown'[b] = S
  BY <1>1, <1>2 DEF RmShape
<1>5. CASE removed
  <2>1. failed = FALSE
    BY <1>5
  <2>2. DirDone(b, d, FALSE)
    <3> HIDE DEF failed
    <3> QED
      BY <1>2, <2>1
  <2> QED
    BY <1>2, <1>4, <1>5, <2>2 DEF S, Fs
<1>6. CASE failed
  <2>1. failed = TRUE
    BY <1>6
  <2>2. DirDone(b, d, TRUE)
    <3> HIDE DEF failed
    <3> QED
      BY <1>2, <2>1
  <2> QED
    BY <1>2, <1>4, <1>6, <2>2 DEF S, Fs
<1>7. CASE d \notin folders[b]
  <2>1. failed = FALSE
    BY <1>7
  <2>2. DirDone(b, d, FALSE)
    <3> HIDE DEF failed
    <3> QED
      BY <1>2, <2>1
  <2> QED
    BY <1>2, <1>4, <1>7, <2>2 DEF S, Fs
<1> QED
  BY <1>5, <1>6, <1>7

\* A directory that is done leaves the others to do.
LEMMA DirKept ==
  ASSUME World, NEW b \in Groups, NEW d \in group[b].dirs, DirDone(b, d, TRUE) \/ DirDone(b, d, FALSE),
         rmCall' = rmCall, created' = created, rmFaults' \in Nat,
         DOMAIN objects' = Groups, \A c \in Groups \ {b} : objects'[c] = objects[c],
         DOMAIN folders' = Groups, \A c \in Groups \ {b} : folders'[c] = folders[c],
         DOMAIN shown' = Groups, \A c \in Groups \ {b} : shown'[c] = shown[c],
         shown'[b] \subseteq shown[b], BucketOK(b)'
  PROVE  World' /\ Elsewhere(b)
<1>1. RmShape
  BY GroupFacts
<1>2. DOMAIN group' = Groups /\ (\A c \in Groups \ {b} : group'[c] = group[c]) /\ group'[b].dirs = group[b].dirs \ {d}
  BY DirDoneShape
<1>3. /\ group'[b].stage = group[b].stage /\ group'[b].ended = group[b].ended
      /\ group'[b].jobs = group[b].jobs /\ group'[b].found = group[b].found /\ group'[b].todo = group[b].todo
      /\ group'[b] \in GroupStates
  BY DirDoneShape
<1>4. Elsewhere(b)
  BY <1>1, <1>2 DEF Elsewhere, RmShape
<1>5. group'[b].dirs \subseteq group[b].dirs /\ \A new \in group'[b].jobs : \E old \in group[b].jobs : new.left \subseteq old.left
  BY <1>2, <1>3, SameJobs
<1> QED
  BY <1>3, <1>4, <1>5, DeleteKept

LEMMA RemoveFolderKept ==
  ASSUME World, NEW b \in Groups, NEW d \in group[b].dirs, RemoveFolder(b, d)
  PROVE  World' /\ Elsewhere(b)
<1>1. RmShape /\ d \in Names
  BY GroupFacts, FieldsOf
<1>2. /\ UNCHANGED <<rmCall, objects, created, rmFaults>>
      /\ DOMAIN folders' = Groups /\ (\A c \in Groups \ {b} : folders'[c] = folders[c])
      /\ DOMAIN shown' = Groups /\ (\A c \in Groups \ {b} : shown'[c] = shown[c])
  BY RemoveFolderMeans
<1>3. \/ Empty(b, d) /\ folders'[b] = folders[b] \ {d}
      \/ folders'[b] = folders[b]
  BY RemoveFolderMeans
<1>4. shown'[b] \subseteq shown[b] /\ (DirDone(b, d, TRUE) \/ DirDone(b, d, FALSE))
  BY RemoveFolderMeans
<1>5. BucketOK(b)'
  <2>1. objects'[b] = objects[b] /\ created'[b] = created[b] /\ rmCall' = rmCall
    BY <1>2
  <2>2. CASE Empty(b, d) /\ folders'[b] = folders[b] \ {d}
    BY <1>1, <2>1, <2>2, FewerFolders
  <2>3. CASE folders'[b] = folders[b]
    BY <2>1, <2>3, FewerObjects
  <2> QED
    BY <1>3, <2>2, <2>3
<1>6. rmFaults' \in Nat /\ DOMAIN objects' = Groups /\ \A c \in Groups \ {b} : objects'[c] = objects[c]
  BY <1>1, <1>2 DEF RmShape
<1> QED
  BY <1>2, <1>4, <1>5, <1>6, DirKept

LEMMA DirectoryFailsMeans ==
  ASSUME World, NEW b \in Groups, NEW d \in group[b].dirs, DirectoryFails(b, d)
  PROVE  /\ UNCHANGED <<rmCall, shown, created>> /\ rmFaults' = rmFaults + 1 /\ DirDone(b, d, TRUE)
         /\ DOMAIN objects' = Groups /\ (\A c \in Groups \ {b} : objects'[c] = objects[c])
         /\ DOMAIN folders' = Groups /\ (\A c \in Groups \ {b} : folders'[c] = folders[c])
         /\ \/ objects'[b] = objects[b] /\ folders'[b] = folders[b]
            \/ objects'[b] = objects[b] \ {Marker(d)} /\ folders'[b] = folders[b]
            \/ objects'[b] = objects[b] /\ Empty(b, d) /\ folders'[b] = folders[b] \ {d}
<1>1. RmShape
  BY GroupFacts
<1> QED
  BY <1>1 DEF DirectoryFails, RmShape

LEMMA DirectoryFailsKept ==
  ASSUME World, NEW b \in Groups, NEW d \in group[b].dirs, DirectoryFails(b, d)
  PROVE  World' /\ Elsewhere(b)
<1>1. RmShape /\ d \in Names
  BY GroupFacts, FieldsOf
<1>2. /\ UNCHANGED <<rmCall, shown, created>> /\ rmFaults' = rmFaults + 1 /\ DirDone(b, d, TRUE)
      /\ DOMAIN objects' = Groups /\ (\A c \in Groups \ {b} : objects'[c] = objects[c])
      /\ DOMAIN folders' = Groups /\ (\A c \in Groups \ {b} : folders'[c] = folders[c])
  BY DirectoryFailsMeans
<1>3. \/ objects'[b] \subseteq objects[b] /\ folders'[b] = folders[b]
      \/ objects'[b] = objects[b] /\ Empty(b, d) /\ folders'[b] = folders[b] \ {d}
  BY DirectoryFailsMeans
<1>4. BucketOK(b)'
  BY <1>1, <1>2, <1>3, FewerObjects, FewerFolders
<1>5. /\ rmFaults' \in Nat /\ shown'[b] \subseteq shown[b]
      /\ DOMAIN shown' = Groups /\ \A c \in Groups \ {b} : shown'[c] = shown[c]
  BY <1>1, <1>2 DEF RmShape
<1> QED
  BY <1>2, <1>4, <1>5, DirKept

LEMMA CreateKept ==
  ASSUME World, NEW b \in Groups, NEW n \in CreateNames, Create(b, n)
  PROVE  World' /\ Elsewhere(b)
<1>1. RmShape /\ BucketOK(b) /\ Sizes(b) /\ Scoped(b) /\ Hns(b) \in BOOLEAN
  BY GroupFacts, CallFacts
<1>2. n \in ObjectNames /\ n \in Names /\ n # Root /\ \A d \in Ancestors(n) : d \in Names /\ ~IsMarker(d)
  BY DeletionAssumption, ObjectNamesAre
<1>3. /\ UNCHANGED <<rmCall, group, shown, rmFaults>>
      /\ DOMAIN objects' = Groups /\ (\A c \in Groups \ {b} : objects'[c] = objects[c])
      /\ DOMAIN folders' = Groups /\ (\A c \in Groups \ {b} : folders'[c] = folders[c])
      /\ DOMAIN created' = Groups /\ (\A c \in Groups \ {b} : created'[c] = created[c])
      /\ objects'[b] = objects[b] \cup {n} /\ created'[b] = created[b] \cup {n} \cup Ancestors(n)
      /\ folders'[b] = folders[b] \cup IF Hns(b) THEN Ancestors(n) ELSE {}
  BY <1>1 DEF Create, RmShape
<1>4. Elsewhere(b)
  BY <1>1, <1>3 DEF Elsewhere, RmShape
<1>5. Hns(b)' = Hns(b) /\ (\A m : InScope(b, m)' = InScope(b, m)) /\ \A q : Within(b, q)' = Within(b, q)
  BY <1>3, SameScope
<1>6. IsFiniteSet(objects'[b]) /\ IsFiniteSet(folders'[b])
  <2> DEFINE one == {n}
  <2>1. UNION {Ancestors(m) : m \in one} = Ancestors(n) /\ one \subseteq Names /\ IsFiniteSet(one) /\ IsFiniteSet({})
    BY <1>2, FS_Singleton, FS_EmptySet
  <2>2. IsFiniteSet(objects[b]) /\ IsFiniteSet(folders[b])
    BY <1>1 DEF BucketOK
  <2> HIDE DEF one
  <2>3. IsFiniteSet(Ancestors(n))
    BY <2>1, AncestorsFinite
  <2>4. IsFiniteSet(objects[b] \cup one)
    BY <2>1, <2>2, FS_Union
  <2>5. IsFiniteSet(folders[b] \cup Ancestors(n)) /\ IsFiniteSet(folders[b] \cup {})
    BY <2>1, <2>2, <2>3, FS_Union
  <2> QED
    BY <1>3, <2>4, <2>5 DEF one
<1>7. BucketOK(b)'
  <2>1. \A d \in Ancestors(n) : Ancestors(d) \subseteq Ancestors(n)
    BY <1>2, AncestorsAbove
  <2>2. /\ objects'[b] \subseteq ObjectNames /\ folders'[b] \subseteq Names
        /\ \A d \in folders'[b] : ~IsMarker(d)
    BY <1>1, <1>2, <1>3 DEF BucketOK
  <2>3. Hns(b) => \A m \in objects'[b] \cup folders'[b] : Ancestors(m) \subseteq folders'[b]
    BY <1>1, <1>3, <2>1 DEF BucketOK
  <2>4. ~Hns(b) => folders'[b] \subseteq {Root}
    BY <1>1, <1>3 DEF BucketOK
  <2>5. objects'[b] \subseteq rmCall.objects[b] \cup created'[b] /\ folders'[b] \subseteq rmCall.folders[b] \cup created'[b]
    BY <1>1, <1>3 DEF BucketOK
  <2> QED
    BY <1>3, <1>5, <1>6, <2>2, <2>3, <2>4, <2>5 DEF BucketOK
<1>8. Sizes(b)'
  BY <1>1, <1>3 DEF Sizes
<1>9. Scoped(b)'
  BY <1>1, <1>3, <1>5 DEF Scoped
<1> QED
  BY <1>4, <1>7, <1>8, <1>9, OneGroup DEF Holds

LEMMA InitWorld == ASSUME RmInit PROVE World
<1>1. rmCall \in RmCalls
  BY DEF RmInit
<1>2. RmShape
  <2>1. DOMAIN rmCall.objects = Groups /\ DOMAIN rmCall.folders = Groups
    BY <1>1, DeletionAssumption DEF Groups
  <2> QED
    BY <1>1, <2>1 DEF RmInit, RmShape
<1> SUFFICES ASSUME NEW b \in Groups PROVE Holds(b)
  BY <1>2 DEF World
<1> DEFINE p == rmCall.paths[b]
           t == [i \in DOMAIN p |-> ToExpand(p[i].name, p[i].star, rmCall.maxdepth)]
<1>3. /\ rmCall.maxdepth \in Nat /\ p \in Seq([name : Names, star : BOOLEAN])
      /\ \A i \in DOMAIN p : p[i] \in [name : Names, star : BOOLEAN]
  BY <1>1, CallFacts
<1>4. group[b] = NewGroup(rmCall, b) /\ objects[b] = rmCall.objects[b] /\ folders[b] = rmCall.folders[b] /\ created[b] = {}
  BY DEF RmInit
<1>5. /\ group[b].todo = t /\ group[b].found = {} /\ group[b].jobs = {} /\ group[b].dirs = {}
      /\ group[b].stage = "expand" /\ group[b].ended = "no"
  BY <1>4 DEF NewGroup
<1>6. t \in Seq(PathRecs)
  <2>1. \A i \in DOMAIN p : t[i] \in PathRecs
    BY <1>3 DEF ToExpand, PathRecs
  <2>2. DOMAIN t = 1..Len(p) /\ Len(p) \in Nat
    BY <1>3
  <2>3. t \in [1..Len(p) -> PathRecs]
    BY <2>1, <2>2
  <2> HIDE DEF t
  <2> QED
    BY <2>2, <2>3
<1>7. \A i \in DOMAIN t : Within(b, t[i])
  BY DEF Within
<1>8. group[b] \in GroupStates
  <2>1. group[b] = [stage |-> "expand", asked |-> {}, listed |-> {}, found |-> {}, unsure |-> {}, jobs |-> {}, gone |-> {}, failed |-> FALSE,
                    todo |-> t, dirs |-> {}, marked |-> {}, ended |-> "no"]
    BY <1>4 DEF NewGroup
  <2> HIDE DEF t
  <2> QED
    BY <1>6, <2>1 DEF GroupStates
<1>9. BucketOK(b)
  <2>1. /\ IsFiniteSet(rmCall.objects[b]) /\ IsFiniteSet(rmCall.folders[b])
        /\ rmCall.objects[b] \subseteq ObjectNames
        /\ Root \in rmCall.folders[b] /\ rmCall.folders[b] \subseteq Names
        /\ \A n \in rmCall.folders[b] : ~IsMarker(n) /\ Ancestors(n) \subseteq rmCall.folders[b]
        /\ Hns(b) => \A n \in rmCall.objects[b] : Front(n) \in rmCall.folders[b]
        /\ ~Hns(b) => rmCall.folders[b] = {Root}
    BY <1>1, BucketFacts
  <2>2. Hns(b) => \A n \in rmCall.objects[b] : Ancestors(n) \subseteq rmCall.folders[b]
    BY <2>1, ObjectNamesAre, AncestorsAbove
  <2> QED
    BY <1>4, <2>1, <2>2 DEF BucketOK
<1>10. shown[b] \subseteq Entries
  <2>1. shown[b] = FileEntries({n \in objects[b] : ~IsMarker(n)}) \cup DirEntries(folders[b] \ {Root})
    BY DEF RmInit
  <2>2. objects[b] \subseteq Names /\ folders[b] \subseteq Names
    BY <1>9, ObjectNamesAre DEF BucketOK
  <2> QED
    BY <2>1, <2>2 DEF FileEntries, DirEntries, Entries
<1>11. Sizes(b)
  BY <1>5, <1>8, <1>10, FS_EmptySet DEF Sizes
<1>12. Scoped(b)
  BY <1>5, <1>7 DEF Scoped
<1> QED
  BY <1>9, <1>11, <1>12 DEF Holds

-----------------------------------------------------------------------------
(* What a step does to the buckets.                                         *)

\* The steps of the expansion, and those between the stages, delete nothing.
Quiet(b) ==
  \/ Glob(b) \/ AskObjects(b) \/ AskFolders(b) \/ AskInfo(b) \/ ExpandFlat(b) \/ InfoFails(b)
  \/ Expanded(b) \/ ExpansionFails(b) \/ FilesDone(b) \/ GroupOver(b)

LEMMA QuietKept ==
  ASSUME World, NEW b \in Groups, Quiet(b)
  PROVE  World' /\ Elsewhere(b)
BY GlobKept, AskObjectsKept, AskFoldersKept, AskInfoKept, ExpandFlatKept, InfoFailsKept, ExpandedKept,
   ExpansionFailsKept, FilesDoneKept, GroupOverKept DEF Quiet

LEMMA ExpandsQuiet ==
  ASSUME World, NEW b \in Groups, NEW E, NEW T, NEW A, NEW L, NEW U, Expands(b, E, T, A, L, U)
  PROVE  group'[b].gone = group[b].gone
BY GroupFacts, ExpandsMeans

LEMMA EndsQuiet ==
  ASSUME World, NEW b \in Groups, NEW how, GroupEnds(b, how)
  PROVE  group'[b].gone = group[b].gone
BY GroupFacts, EndsMeans

LEMMA QuietMeans ==
  ASSUME World, NEW b \in Groups, Quiet(b)
  PROVE  BucketsStay /\ group'[b].gone = group[b].gone
<1>1. CASE Glob(b)
  <2>1. (\E E, T, A, L, U : Expands(b, E, T, A, L, U)) \/ \E how : GroupEnds(b, how)
    BY <1>1 DEF Glob, Finds, Passes
  <2> QED
    BY <1>1, <2>1, ExpandsQuiet, EndsQuiet DEF Glob
<1>2. CASE AskObjects(b) \/ AskFolders(b) \/ AskInfo(b) \/ ExpandFlat(b) \/ InfoFails(b)
  <2>1. \E E, T, A, L, U : Expands(b, E, T, A, L, U)
    BY <1>2 DEF AskObjects, AskFolders, Hears, AskInfo, ExpandFlat, InfoFails, Finds, Passes
  <2>2. BucketsStay
    BY <1>2 DEF AskObjects, AskFolders, Hears, AskInfo, ExpandFlat, InfoFails, GroupOnly
  <2> QED
    BY <2>1, <2>2, ExpandsQuiet
<1>3. CASE Expanded(b)
  <2>1. CASE group[b].found = {}
    BY <1>3, <2>1, EndsQuiet DEF Expanded, GroupOnly
  <2>2. CASE group[b].found # {}
    <3>1. group'[b].gone = group[b].gone
      BY <1>3, <2>2, GroupFacts, ExpandedMeans
    <3> QED
      BY <1>3, <3>1 DEF Expanded, GroupOnly
  <2> QED
    BY <2>1, <2>2
<1>4. CASE ExpansionFails(b)
  BY <1>4, EndsQuiet DEF ExpansionFails
<1>5. CASE FilesDone(b)
  <2>1. group'[b].gone = group[b].gone
    BY <1>5, GroupFacts, FilesDoneMeans DEF FilesDone
  <2> QED
    BY <1>5, <2>1 DEF FilesDone, GroupOnly
<1>6. CASE GroupOver(b)
  BY <1>6, EndsQuiet DEF GroupOver, GroupOnly
<1> QED
  BY <1>1, <1>2, <1>3, <1>4, <1>5, <1>6 DEF Quiet

\* The steps of a call and of the others, one by one.
LEMMA RmSteps ==
  ASSUME World, [RmNext]_rmVars
  PROVE  \/ UNCHANGED rmVars
         \/ \E b \in Groups : Quiet(b) \/ \E n \in CreateNames : Create(b, n)
         \/ \E b \in Groups : \E job \in group[b].jobs : SendBatch(b, job) \/ BatchFails(b, job)
         \/ \E b \in Groups : \E d \in group[b].dirs : RemoveMarker(b, d) \/ RemoveFolder(b, d) \/ DirectoryFails(b, d)
BY DEF RmNext, RmStep, Quiet

LEMMA NextWorld == ASSUME World, [RmNext]_rmVars PROVE World'
<1>1. CASE UNCHANGED rmVars
  <2>1. UNCHANGED <<rmCall, objects, folders, group, shown, created, rmFaults>>
    BY <1>1 DEF rmVars
  <2>2. Groups' = Groups /\ RmShape'
    BY <2>1, SameScope DEF World, RmShape
  <2>3. ASSUME NEW b \in Groups PROVE Holds(b)'
    <3>1. BucketOK(b) /\ Sizes(b) /\ Scoped(b)
      BY GroupFacts
    <3>2. (\A n : InScope(b, n)' = InScope(b, n)) /\ (\A q : Within(b, q)' = Within(b, q)) /\ Hns(b)' = Hns(b)
      BY <2>1, SameScope
    <3>3. BucketOK(b)'
      BY <2>1, SameBucket
    <3>4. Sizes(b)'
      BY <2>1, <3>1 DEF Sizes
    <3>5. Scoped(b)'
      BY <2>1, <3>1, <3>2 DEF Scoped
    <3> QED
      BY <3>3, <3>4, <3>5 DEF Holds
  <2> QED
    BY <2>2, <2>3 DEF World
<1>2. ASSUME NEW b \in Groups, Quiet(b) \/ \E n \in CreateNames : Create(b, n) PROVE World'
  BY <1>2, QuietKept, CreateKept
<1>3. ASSUME NEW b \in Groups, NEW job \in group[b].jobs, SendBatch(b, job) \/ BatchFails(b, job) PROVE World'
  BY <1>3, SendBatchKept, BatchFailsKept
<1>4. ASSUME NEW b \in Groups, NEW d \in group[b].dirs,
             RemoveMarker(b, d) \/ RemoveFolder(b, d) \/ DirectoryFails(b, d)
      PROVE  World'
  BY <1>4, RemoveMarkerKept, RemoveFolderKept, DirectoryFailsKept
<1> QED
  BY <1>1, <1>2, <1>3, <1>4, RmSteps

-----------------------------------------------------------------------------
(* Nothing outside the paths of the call is deleted.                        *)

\* What a step takes away from a bucket is in scope.
Deletes(b) == \A n \in objects[b] \cup folders[b] : n \notin objects'[b] \cup folders'[b] => InScope(b, n)

LEMMA DirScope ==
  ASSUME World, NEW b \in Groups, NEW d \in group[b].dirs
  PROVE  d \in Names /\ InScope(b, d) /\ InScope(b, Marker(d))
<1>1. d \in Names /\ InScope(b, d) /\ ~IsMarker(d)
  BY GroupFacts, FieldsOf DEF Scoped
<1>2. Of(Marker(d)) = d /\ Of(d) = d
  BY <1>1, Markers DEF Of
<1>3. InScope(b, Marker(d)) <=> InScope(b, d)
  BY <1>2, ScopeIs DEF Reaches
<1> QED
  BY <1>1, <1>3

LEMMA DeletesInScope ==
  ASSUME World, [RmNext]_rmVars, NEW b \in Groups
  PROVE  Deletes(b)
<1>1. CASE UNCHANGED rmVars
  BY <1>1 DEF rmVars, Deletes
<1>2. ASSUME NEW c \in Groups, Elsewhere(c), c # b PROVE Deletes(b)
  BY <1>2 DEF Elsewhere, Deletes
<1>3. ASSUME NEW c \in Groups, Quiet(c) PROVE Deletes(b)
  BY <1>3, QuietMeans DEF Deletes, BucketsStay
<1>4. ASSUME NEW c \in Groups, NEW n \in CreateNames, Create(c, n) PROVE Deletes(b)
  <2>1. CASE c = b
    BY <1>4, <2>1, GroupFacts DEF Create, Deletes, RmShape
  <2> QED
    BY <1>2, <1>4, <2>1, CreateKept
<1>5. ASSUME NEW c \in Groups, NEW job \in group[c].jobs, SendBatch(c, job) PROVE Deletes(b)
  <2>1. CASE c = b
    <3>1. PICK o : Answers(b, job, o)
      BY <1>5, <2>1, SendBatchMeans
    <3>2. objects'[b] = objects[b] \ Deleted(job, o) /\ folders'[b] = folders[b]
      BY <2>1, <3>1, GroupFacts DEF Answers, RmShape
    <3>3. Deleted(job, o) \subseteq job.left
      BY DEF Deleted
    <3>4. \A n \in job.left : InScope(b, n)
      BY <2>1, GroupFacts DEF Scoped
    <3> QED
      BY <3>2, <3>3, <3>4 DEF Deletes
  <2> QED
    BY <1>2, <1>5, <2>1, SendBatchKept
<1>6. ASSUME NEW c \in Groups, NEW job \in group[c].jobs, BatchFails(c, job) PROVE Deletes(b)
  <2>1. CASE c = b
    <3>1. folders'[b] = folders[b] /\ objects[b] \ objects'[b] \subseteq job.left
      BY <1>6, <2>1, BatchFailsMeans
    <3>2. \A n \in job.left : InScope(b, n)
      BY <2>1, GroupFacts DEF Scoped
    <3> QED
      BY <3>1, <3>2 DEF Deletes
  <2> QED
    BY <1>2, <1>6, <2>1, BatchFailsKept
<1>7. ASSUME NEW c \in Groups, NEW d \in group[c].dirs, RemoveMarker(c, d) PROVE Deletes(b)
  <2>1. CASE c = b
    <3>1. folders'[b] = folders[b] /\ objects'[b] = objects[b] \ {Marker(d)}
      BY <1>7, <2>1, RemoveMarkerMeans
    <3> QED
      BY <2>1, <3>1, DirScope DEF Deletes
  <2> QED
    BY <1>2, <1>7, <2>1, RemoveMarkerKept
<1>8. ASSUME NEW c \in Groups, NEW d \in group[c].dirs, RemoveFolder(c, d) PROVE Deletes(b)
  <2>1. CASE c = b
    <3>1. objects'[b] = objects[b] /\ (folders'[b] = folders[b] \ {d} \/ folders'[b] = folders[b])
      BY <1>8, <2>1, RemoveFolderMeans
    <3> QED
      BY <2>1, <3>1, DirScope DEF Deletes
  <2> QED
    BY <1>2, <1>8, <2>1, RemoveFolderKept
<1>9. ASSUME NEW c \in Groups, NEW d \in group[c].dirs, DirectoryFails(c, d) PROVE Deletes(b)
  <2>1. CASE c = b
    <3>1. objects[b] \ objects'[b] \subseteq {Marker(d)} /\ folders[b] \ folders'[b] \subseteq {d}
      BY <1>9, <2>1, DirectoryFailsMeans
    <3> QED
      BY <2>1, <3>1, DirScope DEF Deletes
  <2> QED
    BY <1>2, <1>9, <2>1, DirectoryFailsKept
<1> QED
  BY <1>1, <1>3, <1>4, <1>5, <1>6, <1>7, <1>8, <1>9, RmSteps

\* rm never deletes an object or a folder outside its paths and its depth, whatever fails, whoever
\* creates objects meanwhile, and whatever names are shared.
THEOREM DeletesWithinScope == RmSpec => []RmWithinScope
<1>1. RmInit => World /\ RmWithinScope
  BY InitWorld DEF RmInit, RmWithinScope, Before
<1>2. ASSUME World, RmWithinScope, [RmNext]_rmVars PROVE (World /\ RmWithinScope)'
  <2>1. World'
    BY <1>2, NextWorld
  <2>2. rmCall' = rmCall
    BY <1>2, RmSteps, QuietKept, CreateKept, SendBatchKept, BatchFailsKept, RemoveMarkerKept, RemoveFolderKept,
       DirectoryFailsKept DEF Elsewhere, rmVars
  <2>3. ASSUME NEW b \in Groups, NEW n \in Before(b), n \notin objects'[b] \cup folders'[b] PROVE InScope(b, n)
    BY <1>2, <2>3, DeletesInScope DEF Deletes, RmWithinScope
  <2> QED
    BY <2>1, <2>2, <2>3, SameScope DEF RmWithinScope
<1> QED
  BY <1>1, <1>2, PTL DEF RmSpec

-----------------------------------------------------------------------------
(* What is still there is still listed.                                     *)

WellListed(b) ==
  Hns(b) =>
    /\ FileEntries({n \in (objects[b] \cap rmCall.objects[b]) \ created[b] : ~IsMarker(n)}) \subseteq shown[b]
    /\ DirEntries({d \in (folders[b] \cap rmCall.folders[b]) \ (created[b] \cup {Root}) : ~Hides(b, d)}) \subseteq shown[b]
    /\ group[b].gone \cap shown[b] = {}

\* The same by names, as the steps are argued about.
Kept(b, n) == n \in rmCall.objects[b] /\ n \notin created[b] /\ ~IsMarker(n)
KeptDir(b, n) == n \in rmCall.folders[b] /\ n \notin created[b] /\ n # Root /\ ~Hides(b, n)

LEMMA ListedMeans ==
  ASSUME NEW b
  PROVE  WellListed(b) <=>
           (Hns(b) =>
              /\ \A n \in objects[b] : Kept(b, n) => <<n, "file">> \in shown[b]
              /\ \A n \in folders[b] : KeptDir(b, n) => <<n, "directory">> \in shown[b]
              /\ \A e \in group[b].gone : e \notin shown[b])
BY DEF WellListed, FileEntries, DirEntries, Kept, KeptDir

LEMMA ListedThen ==
  ASSUME NEW b, Hns(b) =>
           /\ \A n \in objects'[b] : Kept(b, n)' => <<n, "file">> \in shown'[b]
           /\ \A n \in folders'[b] : KeptDir(b, n)' => <<n, "directory">> \in shown'[b]
           /\ \A e \in group'[b].gone : e \notin shown'[b],
         rmCall' = rmCall
  PROVE  WellListed(b)'
<1>1. Hns(b)' = Hns(b)
  BY SameScope
<1> QED
  BY <1>1 DEF WellListed, FileEntries, DirEntries, Kept, KeptDir

\* What others create exempts more, and never less.
LEMMA KeptBefore ==
  ASSUME NEW b, rmCall' = rmCall, created[b] \subseteq created'[b]
  PROVE  \A n : (Kept(b, n)' => Kept(b, n)) /\ (KeptDir(b, n)' => KeptDir(b, n))
<1>1. \A n : Hides(b, n) => Hides(b, n)'
  BY DEF Hides
<1> QED
  BY <1>1 DEF Kept, KeptDir

\* A step that leaves the listings alone, and confirms nothing.
LEMMA ListedStays ==
  ASSUME NEW b, WellListed(b), rmCall' = rmCall, objects'[b] \subseteq objects[b], folders'[b] \subseteq folders[b],
         shown'[b] = shown[b], created'[b] = created[b], group'[b].gone = group[b].gone
  PROVE  WellListed(b)'
<1>1. /\ Hns(b) => /\ \A n \in objects[b] : Kept(b, n) => <<n, "file">> \in shown[b]
                   /\ \A n \in folders[b] : KeptDir(b, n) => <<n, "directory">> \in shown[b]
                   /\ \A e \in group[b].gone : e \notin shown[b]
  BY ListedMeans
<1>2. \A n : (Kept(b, n)' => Kept(b, n)) /\ (KeptDir(b, n)' => KeptDir(b, n))
  BY KeptBefore
<1> QED
  BY <1>1, <1>2, ListedThen

-----------------------------------------------------------------------------
(* The listings of an expansion: until both have answered, what the first    *)
(* one said is kept, and no object or folder of the call can have gone.     *)

Recalls(b) ==
  group[b].stage = "expand" =>
    /\ group[b].gone = {}
    /\ \A e \in group[b].listed :
         IsPrefix(First(b).name, e[1]) /\ (e[2] = "file" => e[1] \in rmCall.objects[b] \cup created[b])
    /\ "objects" \in group[b].asked =>
         \A n \in objects[b] \ created[b] : IsStrictPrefix(First(b).name, n) => <<n, "file">> \in group[b].listed
    /\ "folders" \in group[b].asked =>
         \A d \in folders[b] \ (created[b] \cup {Root}) :
           IsStrictPrefix(First(b).name, d) => <<d, "directory">> \in group[b].listed

\* The step is over with the path, or with the expansion.
LEMMA RecallsAnew ==
  ASSUME NEW b,
         group'[b].stage = "expand" => group'[b].listed = {} /\ group'[b].asked = {} /\ group'[b].gone = {}
  PROVE  Recalls(b)'
BY DEF Recalls

LEMMA RecallsStays ==
  ASSUME NEW b, Recalls(b), rmCall' = rmCall, objects'[b] = objects[b], folders'[b] = folders[b],
         group'[b] = group[b], created'[b] = created[b]
  PROVE  Recalls(b)'
BY DEF Recalls, First

LEMMA CreateRecalls ==
  ASSUME World, NEW b \in Groups, Recalls(b), NEW n \in CreateNames, Create(b, n)
  PROVE  Recalls(b)'
<1>1. /\ UNCHANGED <<rmCall, group>>
      /\ objects'[b] = objects[b] \cup {n} /\ created'[b] = created[b] \cup {n} \cup Ancestors(n)
      /\ folders'[b] = folders[b] \cup IF Hns(b) THEN Ancestors(n) ELSE {}
  BY GroupFacts DEF Create, RmShape
<1> QED
  BY <1>1 DEF Recalls, First

\* The first answer adds to what is kept, whatever is created before the second.
LEMMA HearsRecalls ==
  ASSUME World, NEW b \in Groups, Recalls(b), AskObjects(b) \/ AskFolders(b)
  PROVE  Recalls(b)'
<1> DEFINE p == First(b).name
           g == group[b]
<1>1. PICK listing, all, near :
       /\ listing \in Listings /\ Hears(b, listing, all, near)
       /\ \/ listing = "objects" /\ all = FileEntries(AllObjects(b, p))
          \/ listing = "folders" /\ all = DirEntries(AllFolders(b, p))
  BY DEF AskObjects, AskFolders, Listings
<1>2. Expanding(b, FALSE) /\ BucketsStay /\ Expands(b, near, g.todo, g.asked \cup {listing}, g.listed \cup all, {})
  BY <1>1 DEF Hears
<1>3. /\ group'[b].todo = g.todo /\ group'[b].asked = g.asked \cup {listing} /\ group'[b].listed = g.listed \cup all
      /\ group'[b].stage = g.stage /\ group'[b].gone = g.gone
  BY <1>2, GroupFacts, ExpandsMeans
<1>4. g.stage = "expand" /\ p \in Names
  BY <1>2, PathFacts DEF Expanding, At
<1>5. /\ AllObjects(b, p) \subseteq objects[b] /\ (\A n \in AllObjects(b, p) : IsPrefix(p, n))
      /\ \A n \in AllFolders(b, p) : IsPrefix(p, n)
  BY <1>4, AllObjectsAre, AllFoldersAre
<1>6. objects[b] \subseteq rmCall.objects[b] \cup created[b]
  BY GroupFacts DEF BucketOK
<1>7. \A n \in objects[b] : IsStrictPrefix(p, n) => n \in AllObjects(b, p)
  BY DEF AllObjects, Under
<1>8. \A d \in folders[b] \ {Root} : IsStrictPrefix(p, d) => d \in AllFolders(b, p)
  BY DEF AllFolders, IsStrictPrefix
<1>9. /\ UNCHANGED <<rmCall, objects, folders, created>> /\ First(b)' = First(b)
  BY <1>2, <1>3 DEF BucketsStay, First
<1>10. /\ g.gone = {}
       /\ \A e \in g.listed : IsPrefix(p, e[1]) /\ (e[2] = "file" => e[1] \in rmCall.objects[b] \cup created[b])
       /\ "objects" \in g.asked => \A n \in objects[b] \ created[b] : IsStrictPrefix(p, n) => <<n, "file">> \in g.listed
       /\ "folders" \in g.asked => \A d \in folders[b] \ (created[b] \cup {Root}) :
            IsStrictPrefix(p, d) => <<d, "directory">> \in g.listed
  BY <1>4 DEF Recalls
<1> DEFINE L == g.listed \cup all
           A == g.asked \cup {listing}
<1>11. /\ \A e \in L : IsPrefix(p, e[1]) /\ (e[2] = "file" => e[1] \in rmCall.objects[b] \cup created[b])
       /\ "objects" \in A => \A n \in objects[b] \ created[b] : IsStrictPrefix(p, n) => <<n, "file">> \in L
       /\ "folders" \in A => \A d \in folders[b] \ (created[b] \cup {Root}) :
            IsStrictPrefix(p, d) => <<d, "directory">> \in L
  <2>1. CASE listing = "objects" /\ all = FileEntries(AllObjects(b, p))
    <3>1. \A e \in all : e[1] \in AllObjects(b, p)
      BY <2>1 DEF FileEntries
    <3>2. \A n \in AllObjects(b, p) : <<n, "file">> \in all
      BY <2>1 DEF FileEntries
    <3>3. \A e \in all : IsPrefix(p, e[1]) /\ e[1] \in rmCall.objects[b] \cup created[b]
      BY <1>5, <1>6, <3>1
    <3> HIDE DEF p, g
    <3> QED
      BY <1>7, <1>10, <2>1, <3>2, <3>3
  <2>2. CASE listing = "folders" /\ all = DirEntries(AllFolders(b, p))
    <3>1. \A e \in all : e[1] \in AllFolders(b, p) /\ e[2] = "directory"
      BY <2>2 DEF DirEntries
    <3>2. \A n \in AllFolders(b, p) : <<n, "directory">> \in all
      BY <2>2 DEF DirEntries
    <3>3. \A e \in all : IsPrefix(p, e[1]) /\ e[2] # "file"
      BY <1>5, <3>1
    <3> HIDE DEF p, g
    <3> QED
      BY <1>8, <1>10, <2>2, <3>2, <3>3
  <2> QED
    BY <1>1, <2>1, <2>2
<1>12. group'[b].listed = L /\ group'[b].asked = A /\ group'[b].gone = {} /\ First(b)'.name = p
  BY <1>3, <1>9, <1>10
<1> HIDE DEF L, A, p, g
<1> QED
  BY <1>9, <1>11, <1>12 DEF Recalls

\* The other steps of the expansion.
LEMMA PassesRecalls ==
  ASSUME World, NEW b \in Groups, Recalls(b), NEW E, NEW T, NEW U, Expands(b, E, T, {}, {}, U)
  PROVE  Recalls(b)'
<1> DEFINE none == {}
<1>1. Expands(b, E, T, none, none, U)
  OBVIOUS
<1>d. none = {}
  OBVIOUS
<1> HIDE DEF none
<1>2. /\ group'[b].listed = none /\ group'[b].asked = none
      /\ group'[b].stage = group[b].stage /\ group'[b].gone = group[b].gone
  BY <1>1, GroupFacts, ExpandsMeans
<1>3. group[b].stage = "expand" => group[b].gone = {}
  BY DEF Recalls
<1> QED
  BY <1>2, <1>3, <1>d, RecallsAnew

LEMMA QuietRecalls ==
  ASSUME World, NEW b \in Groups, Recalls(b), Quiet(b)
  PROVE  Recalls(b)'
<1>1. CASE Glob(b) \/ AskInfo(b) \/ ExpandFlat(b) \/ InfoFails(b)
  <2>1. (\E E, T, U : Expands(b, E, T, {}, {}, U)) \/ GroupEnds(b, "missing")
    BY <1>1 DEF Glob, AskInfo, ExpandFlat, InfoFails, Finds, Passes
  <2>2. CASE GroupEnds(b, "missing")
    <3>1. group'[b].stage = "over"
      BY <2>2, GroupFacts, EndsMeans
    <3> QED
      BY <3>1, RecallsAnew
  <2> QED
    BY <2>1, <2>2, PassesRecalls
<1>2. CASE AskObjects(b) \/ AskFolders(b)
  BY <1>2, HearsRecalls
<1>3. CASE Expanded(b)
  <2>1. group'[b].stage # "expand"
    <3>1. CASE group[b].found = {}
      <4>1. GroupEnds(b, "missing")
        BY <1>3, <3>1 DEF Expanded
      <4>2. group'[b].stage = "over"
        BY <4>1, GroupFacts, EndsMeans
      <4> QED
        BY <4>2
    <3>2. CASE group[b].found # {}
      <4>1. group'[b].stage = "files"
        BY <1>3, <3>2, GroupFacts, ExpandedMeans
      <4> QED
        BY <4>1
    <3> QED
      BY <3>1, <3>2
  <2> QED
    BY <2>1, RecallsAnew
<1>4. CASE ExpansionFails(b) \/ GroupOver(b)
  <2>1. \E how : GroupEnds(b, how)
    BY <1>4 DEF ExpansionFails, GroupOver
  <2>2. group'[b].stage = "over"
    BY <2>1, GroupFacts, EndsMeans
  <2> QED
    BY <2>2, RecallsAnew
<1>5. CASE FilesDone(b)
  <2>1. group'[b].stage = "dirs"
    BY <1>5, GroupFacts, FilesDoneMeans DEF FilesDone
  <2> QED
    BY <2>1, RecallsAnew
<1> QED
  BY <1>1, <1>2, <1>3, <1>4, <1>5 DEF Quiet

LEMMA NextRecalls ==
  ASSUME World, [RmNext]_rmVars, NEW b \in Groups, Recalls(b)
  PROVE  Recalls(b)'
<1>1. CASE UNCHANGED rmVars
  BY <1>1, RecallsStays DEF rmVars
<1>2. ASSUME NEW c \in Groups, Elsewhere(c), c # b PROVE Recalls(b)'
  BY <1>2, RecallsStays DEF Elsewhere
<1>3. ASSUME NEW c \in Groups, Quiet(c) PROVE Recalls(b)'
  BY <1>2, <1>3, QuietKept, QuietRecalls
<1>4. ASSUME NEW c \in Groups, NEW n \in CreateNames, Create(c, n) PROVE Recalls(b)'
  BY <1>2, <1>4, CreateKept, CreateRecalls
<1>5. ASSUME group[b].stage \in {"files", "dirs"}, group'[b].stage = group[b].stage PROVE Recalls(b)'
  BY <1>5, RecallsAnew
<1>6. ASSUME NEW c \in Groups, NEW job \in group[c].jobs, SendBatch(c, job) PROVE Recalls(b)'
  <2>1. CASE c = b
    <3>1. PICK o : Answers(b, job, o)
      BY <1>6, <2>1, SendBatchMeans
    <3>2. group'[b].stage = group[b].stage /\ group[b].stage = "files"
      BY <1>6, <2>1, <3>1, AnswersMean DEF SendBatch, At
    <3> QED
      BY <1>5, <3>2
  <2> QED
    BY <1>2, <1>6, <2>1, SendBatchKept
<1>7. ASSUME NEW c \in Groups, NEW job \in group[c].jobs, BatchFails(c, job) PROVE Recalls(b)'
  <2>1. CASE c = b
    <3>1. group[b].stage = "files"
      BY <1>7, <2>1 DEF BatchFails, At
    <3>2. group'[b].stage = group[b].stage
      BY <1>7, <2>1, BatchFailsMeans
    <3> QED
      BY <1>5, <3>1, <3>2
  <2> QED
    BY <1>2, <1>7, <2>1, BatchFailsKept
<1>8. ASSUME NEW c \in Groups, NEW d \in group[c].dirs, RemoveMarker(c, d) PROVE Recalls(b)'
  <2>1. CASE c = b
    <3>1. group[b].stage = "dirs"
      BY <1>8, <2>1 DEF RemoveMarker, At
    <3>2. group'[b].stage = group[b].stage
      BY <1>8, <2>1, RemoveMarkerMeans
    <3> QED
      BY <1>5, <3>1, <3>2
  <2> QED
    BY <1>2, <1>8, <2>1, RemoveMarkerKept
<1>9. ASSUME NEW c \in Groups, NEW d \in group[c].dirs, RemoveFolder(c, d) \/ DirectoryFails(c, d) PROVE Recalls(b)'
  <2>1. CASE c = b
    <3>1. group[b].stage = "dirs" /\ (DirDone(b, d, TRUE) \/ DirDone(b, d, FALSE))
      BY <1>9, <2>1, RemoveFolderMeans, DirectoryFailsMeans DEF RemoveFolder, DirectoryFails, At
    <3>2. group'[b].stage = group[b].stage
      BY <1>9, <2>1, <3>1, DirDoneShape
    <3> QED
      BY <1>5, <3>1, <3>2
  <2> QED
    BY <1>2, <1>9, <2>1, RemoveFolderKept, DirectoryFailsKept
<1> QED
  BY <1>1, <1>3, <1>4, <1>6, <1>7, <1>8, <1>9, RmSteps

-----------------------------------------------------------------------------
(* Listings made anew still show what is there.                             *)

\* An entry that a listing of all below p has found, and of which no object hides the directory, stays.
LEMMA RelistedStays ==
  ASSUME World, NEW b \in Groups, NEW p \in Names, NEW entries, entries \subseteq Entries,
         \A e \in entries : IsPrefix(p, e[1]),
         NEW n \in Names, n # Root, NEW type \in {"file", "directory"}, <<n, type>> \in shown[b],
         IsStrictPrefix(p, n) => <<n, type>> \in entries /\ (type = "directory" => <<n, "file">> \notin entries)
  PROVE  <<n, type>> \in Relisted(b, p, entries)
<1> DEFINE above == {d \in UNION {Ancestors(e[1]) : e \in entries} : IsPrefix(p, d)}
           anew == above \cup NamesOf(entries, "directory")
           shows == entries \cup DirEntries(above \ {p})
           hidden == DirEntries(NamesOf(entries, "file"))
<1>1. Relisted(b, p, entries) = {e \in shown[b] : Front(e[1]) \notin anew} \cup {e \in shows \ hidden : Front(e[1]) \in anew}
  BY DEF Relisted
<1>2. \A d \in anew : IsPrefix(p, d)
  BY DEF NamesOf
<1>3. <<n, type>> \in hidden => type = "directory" /\ <<n, "file">> \in entries
  <2> SUFFICES ASSUME <<n, type>> \in hidden PROVE type = "directory" /\ <<n, "file">> \in entries
    OBVIOUS
  <2>1. PICK m \in NamesOf(entries, "file") : <<n, type>> = <<m, "directory">>
    BY DEF DirEntries
  <2>2. PICK e \in entries : e[2] = "file" /\ e[1] = m
    BY DEF NamesOf
  <2>3. e = <<m, "file">>
    BY <2>2 DEF Entries
  <2> QED
    BY <2>1, <2>2, <2>3
<1>4. entries \subseteq shows
  OBVIOUS
<1> HIDE DEF anew, above, shows, hidden
<1>5. CASE Front(n) \notin anew
  BY <1>1, <1>5
<1>6. CASE Front(n) \in anew
  <2>1. IsStrictPrefix(p, n)
    BY <1>2, <1>6, FrontBegins
  <2> QED
    BY <1>1, <1>3, <1>4, <1>6, <2>1
<1> QED
  BY <1>5, <1>6

\* What the path asks for is expanded, and hides the directories of its objects' names.
LEMMA PathHides ==
  ASSUME World, NEW b \in Groups, NEW star, Expanding(b, star), rmCall.recursive \/ star,
         NEW d \in Names, IsStrictPrefix(First(b).name, d), d \in rmCall.objects[b] \cup created[b]
  PROVE  Hides(b, d)
<1> DEFINE q == First(b)
<1>1. rmCall \in RmCalls /\ q \in PathRecs /\ q.star = star /\ Within(b, q) /\ q.name \in Names
  BY GroupFacts, PathFacts
<1>2. PICK i \in DOMAIN rmCall.paths[b] : LET r == rmCall.paths[b][i] IN
        /\ q.star => r.star
        /\ q.name = r.name \/ IsStrictPrefix(r.name, q.name)
  BY <1>1, PathWithin
<1>3. rmCall.paths[b][i].name \in Names
  BY <1>1, CallFacts
<1> HIDE DEF q
<1>4. IsStrictPrefix(rmCall.paths[b][i].name, d)
  BY <1>1, <1>2, <1>3, PrefixOfPrefix DEF IsStrictPrefix, q
<1> QED
  BY <1>1, <1>2, <1>4 DEF Hides

LEMMA RelistsListed ==
  ASSUME World, NEW b \in Groups, Hns(b), WellListed(b), NEW star, Expanding(b, star), rmCall.recursive \/ star,
         BucketsStay, group[b].gone = {}, group'[b].gone = {},
         NEW entries, entries \subseteq Entries, Relists(b, entries),
         \A e \in entries :
           IsPrefix(First(b).name, e[1]) /\ (e[2] = "file" => e[1] \in rmCall.objects[b] \cup created[b]),
         \A n \in objects[b] \ created[b] : IsStrictPrefix(First(b).name, n) => <<n, "file">> \in entries,
         \A d \in folders[b] \ (created[b] \cup {Root}) :
           IsStrictPrefix(First(b).name, d) => <<d, "directory">> \in entries
  PROVE  WellListed(b)'
<1> DEFINE p == First(b).name
<1>1. p \in Names
  BY PathFacts
<1>2. shown'[b] = Relisted(b, p, entries)
  BY GroupFacts DEF Relists, RmShape
<1>3. UNCHANGED <<rmCall, objects, folders, created>>
  BY DEF BucketsStay
<1>4. \A n : (Kept(b, n)' => Kept(b, n)) /\ (KeptDir(b, n)' => KeptDir(b, n))
  BY <1>3, KeptBefore
<1>5. /\ \A n \in objects[b] : Kept(b, n) => <<n, "file">> \in shown[b]
      /\ \A n \in folders[b] : KeptDir(b, n) => <<n, "directory">> \in shown[b]
  BY ListedMeans
<1>6. objects[b] \subseteq ObjectNames /\ folders[b] \subseteq Names
  BY GroupFacts DEF BucketOK
<1>7. ASSUME NEW n \in objects[b], Kept(b, n) PROVE <<n, "file">> \in shown'[b]
  <2>1. n \in Names /\ n # Root /\ n \notin created[b] /\ <<n, "file">> \in shown[b]
    BY <1>5, <1>6, <1>7, ObjectNamesAre DEF Kept
  <2>2. IsStrictPrefix(p, n) => <<n, "file">> \in entries
    BY <2>1
  <2> DEFINE type == "file"
  <2>3. type \in {"file", "directory"} /\ <<n, type>> \in shown[b] /\ type # "directory"
    BY <2>1
  <2>4. IsStrictPrefix(p, n) => <<n, type>> \in entries
    BY <2>2
  <2>p. \A e \in entries : IsPrefix(p, e[1])
    OBVIOUS
  <2> HIDE DEF type, p
  <2>5. <<n, type>> \in Relisted(b, p, entries)
    BY <1>1, <2>1, <2>3, <2>4, <2>p, RelistedStays
  <2> QED
    BY <1>2, <2>5 DEF type
<1>8. ASSUME NEW d \in folders[b], KeptDir(b, d) PROVE <<d, "directory">> \in shown'[b]
  <2>1. d \in Names /\ d # Root /\ d \notin created[b] /\ ~Hides(b, d) /\ <<d, "directory">> \in shown[b]
    BY <1>5, <1>6, <1>8 DEF KeptDir
  <2>2. IsStrictPrefix(p, d) => <<d, "directory">> \in entries
    BY <2>1
  <2>3. IsStrictPrefix(p, d) => <<d, "file">> \notin entries
    <3> SUFFICES ASSUME IsStrictPrefix(p, d), <<d, "file">> \in entries PROVE FALSE
      OBVIOUS
    <3>1. d \in rmCall.objects[b] \cup created[b]
      OBVIOUS
    <3> QED
      BY <2>1, <3>1, PathHides
  <2> DEFINE type == "directory"
  <2>4. type \in {"file", "directory"} /\ <<d, type>> \in shown[b]
    BY <2>1
  <2>5. IsStrictPrefix(p, d) => <<d, type>> \in entries /\ (type = "directory" => <<d, "file">> \notin entries)
    BY <2>2, <2>3
  <2>p. \A e \in entries : IsPrefix(p, e[1])
    OBVIOUS
  <2> HIDE DEF type, p
  <2>6. <<d, type>> \in Relisted(b, p, entries)
    BY <1>1, <2>1, <2>4, <2>5, <2>p, RelistedStays
  <2> QED
    BY <1>2, <2>6 DEF type
<1> QED
  BY <1>3, <1>4, <1>7, <1>8, ListedThen

LEMMA HearsListed ==
  ASSUME World, NEW b \in Groups, WellListed(b), Recalls(b), AskObjects(b) \/ AskFolders(b)
  PROVE  WellListed(b)'
<1>1. PICK listing, all, near : listing \in Listings /\ Hears(b, listing, all, near)
  BY DEF AskObjects, AskFolders, Listings
<1> DEFINE A == group[b].asked \cup {listing}
           L == group[b].listed \cup all
<1>2. /\ Expanding(b, FALSE) /\ Hns(b) /\ rmCall.recursive /\ BucketsStay /\ rmFaults' = rmFaults
      /\ Expands(b, near, group[b].todo, A, L, {})
      /\ IF A = Listings THEN Relists(b, L) ELSE UNCHANGED shown
  BY <1>1 DEF Hears
<1>3. UNCHANGED <<rmCall, objects, folders, created>>
  BY <1>2 DEF BucketsStay
<1>4. /\ group'[b].todo = group[b].todo /\ group'[b].asked = A /\ group'[b].listed = L
      /\ group'[b].stage = group[b].stage /\ group'[b].gone = group[b].gone
  BY <1>2, GroupFacts, ExpandsMeans
<1>5. group[b].stage = "expand" /\ group[b].gone = {}
  BY <1>2 DEF Expanding, At, Recalls
<1> HIDE DEF A, L
<1>6. CASE A # Listings
  BY <1>2, <1>3, <1>4, <1>6, ListedStays
<1>7. CASE A = Listings
  <2>1. Recalls(b)' /\ World'
    BY HearsRecalls, AskObjectsKept, AskFoldersKept
  <2>2. First(b)' = First(b)
    BY <1>4 DEF First
  <2>3. L \subseteq Entries
    BY <1>4, <2>1, <1>3, SameScope, GroupFacts, FieldsOf DEF World, Holds, Sizes, GroupStates
  <2>4. "objects" \in A /\ "folders" \in A
    BY <1>7 DEF Listings
  <2>5. /\ \A e \in L :
             IsPrefix(First(b).name, e[1]) /\ (e[2] = "file" => e[1] \in rmCall.objects[b] \cup created[b])
        /\ \A n \in objects[b] \ created[b] : IsStrictPrefix(First(b).name, n) => <<n, "file">> \in L
        /\ \A d \in folders[b] \ (created[b] \cup {Root}) :
             IsStrictPrefix(First(b).name, d) => <<d, "directory">> \in L
    BY <1>3, <1>4, <1>5, <2>1, <2>2, <2>4 DEF Recalls
  <2>6. Relists(b, L) /\ group'[b].gone = {}
    BY <1>2, <1>4, <1>5, <1>7
  <2> QED
    BY <1>2, <1>5, <2>3, <2>5, <2>6, RelistsListed
<1> QED
  BY <1>6, <1>7

LEMMA GlobListed ==
  ASSUME World, NEW b \in Groups, WellListed(b), Recalls(b), Glob(b)
  PROVE  WellListed(b)'
<1> DEFINE p == First(b).name
           fs == AllObjects(b, p)
           ds == AllFolders(b, p)
           all == FileEntries(fs) \cup DirEntries(ds)
           star == TRUE
<1>1. Expanding(b, star) /\ BucketsStay /\ star
  BY DEF Glob
<1>2. UNCHANGED <<rmCall, objects, folders, created>>
  BY <1>1 DEF BucketsStay
<1>3. CASE ~Hns(b)
  BY <1>2, <1>3, ListedThen
<1>4. CASE Hns(b)
  <2>1. Relists(b, all)
    BY <1>4 DEF Glob
  <2>2. group[b].gone = {} /\ group'[b].gone = {}
    BY <1>1, QuietMeans DEF Quiet, Expanding, At, Recalls
  <2>3. p \in Names
    BY <1>1, PathFacts
  <2>4. /\ fs \subseteq objects[b] /\ fs \subseteq Names /\ (\A n \in fs : IsPrefix(p, n))
        /\ ds \subseteq Names /\ \A n \in ds : IsPrefix(p, n)
    BY <2>3, AllObjectsAre, AllFoldersAre
  <2>5. objects[b] \subseteq rmCall.objects[b] \cup created[b]
    BY GroupFacts DEF BucketOK
  <2>6. \A n \in objects[b] : IsStrictPrefix(p, n) => n \in fs
    BY DEF AllObjects, Under
  <2>7. \A d \in folders[b] \ {Root} : IsStrictPrefix(p, d) => d \in ds
    BY DEF AllFolders, IsStrictPrefix
  <2> HIDE DEF fs, ds
  <2>8. all \subseteq Entries
    BY <2>4, FilesAre
  <2>9. ASSUME NEW e \in all
        PROVE  IsPrefix(p, e[1]) /\ (e[2] = "file" => e[1] \in rmCall.objects[b] \cup created[b])
    <3>1. CASE e \in FileEntries(fs)
      BY <2>4, <2>5, <3>1 DEF FileEntries
    <3>2. CASE e \in DirEntries(ds)
      BY <2>4, <3>2 DEF DirEntries
    <3> QED
      BY <3>1, <3>2
  <2>10. /\ \A n \in objects[b] \ created[b] : IsStrictPrefix(p, n) => <<n, "file">> \in all
         /\ \A d \in folders[b] \ (created[b] \cup {Root}) : IsStrictPrefix(p, d) => <<d, "directory">> \in all
    BY <2>6, <2>7 DEF FileEntries, DirEntries
  <2> HIDE DEF all, star
  <2> QED
    BY <1>1, <1>4, <2>1, <2>2, <2>8, <2>9, <2>10, RelistsListed
<1> QED
  BY <1>3, <1>4

LEMMA QuietListed ==
  ASSUME World, NEW b \in Groups, WellListed(b), Recalls(b), Quiet(b)
  PROVE  WellListed(b)'
<1>1. BucketsStay /\ group'[b].gone = group[b].gone
  BY QuietMeans
<1>2. UNCHANGED <<rmCall, objects, folders, created>>
  BY <1>1 DEF BucketsStay
<1>3. CASE ~Hns(b)
  BY <1>2, <1>3, ListedThen
<1>4. CASE UNCHANGED shown
  BY <1>1, <1>2, <1>4, ListedStays
<1>5. CASE Hns(b) /\ shown' # shown
  <2>1. Glob(b) \/ AskObjects(b) \/ AskFolders(b)
    BY <1>5 DEF Quiet, AskInfo, ExpandFlat, InfoFails, Expanded, ExpansionFails, FilesDone, GroupOver, GroupOnly
  <2> QED
    BY <2>1, GlobListed, HearsListed
<1> QED
  BY <1>3, <1>4, <1>5

LEMMA BatchListed ==
  ASSUME World, NEW b \in Groups, WellListed(b), NEW job \in group[b].jobs, SendBatch(b, job)
  PROVE  WellListed(b)'
<1>1. PICK o : Answers(b, job, o)
  BY SendBatchMeans
<1>2. /\ objects'[b] = objects[b] \ Deleted(job, o) /\ UNCHANGED <<rmCall, folders, created>>
      /\ shown'[b] = Unshown(b, Clean(job, o))
  BY <1>1, GroupFacts DEF Answers, RmShape
<1>3. group'[b].gone = group[b].gone \cup FileEntries(Clean(job, o) \cap objects[b])
  BY <1>1, AnswersMean
<1>4. Clean(job, o) \subseteq Deleted(job, o)
  BY <1>1 DEF Clean, Deleted, Faulty, Answers
<1>5. Hns(b)' = Hns(b)
  BY <1>2, SameScope
<1> SUFFICES ASSUME Hns(b) PROVE WellListed(b)'
  BY <1>5 DEF WellListed
<1>6. shown'[b] = shown[b] \ FileEntries(Clean(job, o))
  BY <1>2 DEF Unshown
<1>7. \A n : <<n, "file">> \in FileEntries(Clean(job, o)) => n \in Clean(job, o)
  BY DEF FileEntries
<1>8. \A n : <<n, "directory">> \notin FileEntries(Clean(job, o))
  BY DEF FileEntries
<1>9. FileEntries(Clean(job, o) \cap objects[b]) \subseteq FileEntries(Clean(job, o))
  BY DEF FileEntries
<1>10. /\ \A n \in objects[b] : Kept(b, n) => <<n, "file">> \in shown[b]
       /\ \A n \in folders[b] : KeptDir(b, n) => <<n, "directory">> \in shown[b]
       /\ \A e \in group[b].gone : e \notin shown[b]
  BY ListedMeans
<1>11. \A n \in objects'[b] : Kept(b, n) => <<n, "file">> \in shown'[b]
  BY <1>2, <1>4, <1>6, <1>7, <1>10
<1>12. \A n \in folders'[b] : KeptDir(b, n) => <<n, "directory">> \in shown'[b]
  BY <1>2, <1>6, <1>8, <1>10
<1>13. \A e \in group'[b].gone : e \notin shown'[b]
  BY <1>3, <1>6, <1>9, <1>10
<1>14. \A n : (Kept(b, n)' => Kept(b, n)) /\ (KeptDir(b, n)' => KeptDir(b, n))
  BY <1>2, KeptBefore
<1> QED
  BY <1>2, <1>11, <1>12, <1>13, <1>14, ListedThen

LEMMA FolderListed ==
  ASSUME World, NEW b \in Groups, WellListed(b), NEW d \in group[b].dirs, RemoveFolder(b, d)
  PROVE  WellListed(b)'
<1>1. UNCHANGED <<rmCall, objects, created>>
  BY RemoveFolderMeans
<1>2. CASE /\ d \in folders[b] /\ Empty(b, d) /\ folders'[b] = folders[b] \ {d}
           /\ shown'[b] = {e \in shown[b] : e # <<d, "directory">> /\ Front(e[1]) # d}
           /\ DirDone(b, d, FALSE)
  <2>1. group'[b].gone = group[b].gone \cup DirEntries({d})
    BY <1>2, DirWent
  <2>2. Hns(b)' = Hns(b)
    BY <1>1, SameScope
  <2> SUFFICES ASSUME Hns(b) PROVE WellListed(b)'
    BY <2>2 DEF WellListed
  <2>3. d \in Names /\ objects[b] \subseteq ObjectNames /\ folders[b] \subseteq Names
    BY DirScope, GroupFacts DEF BucketOK
  <2>4. \A n \in Names \ {Root} : Front(n) = d => IsStrictPrefix(d, n)
    BY ParentsAbove, AncestorMeans
  <2>5. \A n \in objects[b] : Front(n) # d
    BY <1>2, <2>3, <2>4, ObjectNamesAre DEF Empty, Under
  <2>6. \A n \in folders[b] \ {Root} : Front(n) # d
    BY <1>2, <2>3, <2>4 DEF Empty, Under
  <2>7. /\ \A n \in objects[b] : Kept(b, n) => <<n, "file">> \in shown[b]
        /\ \A n \in folders[b] : KeptDir(b, n) => <<n, "directory">> \in shown[b]
        /\ \A e \in group[b].gone : e \notin shown[b]
    BY ListedMeans
  <2>8. \A n \in objects'[b] : Kept(b, n) => <<n, "file">> \in shown'[b]
    BY <1>1, <1>2, <2>5, <2>7
  <2>9. \A n \in folders'[b] : KeptDir(b, n) => <<n, "directory">> \in shown'[b]
    <3>1. \A n : KeptDir(b, n) => n # Root
      BY DEF KeptDir
    <3> QED
      BY <1>2, <2>6, <2>7, <3>1
  <2>10. \A e \in group'[b].gone : e \notin shown'[b]
    BY <1>2, <2>1, <2>7 DEF DirEntries
  <2>11. \A n : (Kept(b, n)' => Kept(b, n)) /\ (KeptDir(b, n)' => KeptDir(b, n))
    BY <1>1, KeptBefore
  <2> QED
    BY <1>1, <2>8, <2>9, <2>10, <2>11, ListedThen
<1>3. CASE /\ folders'[b] = folders[b] /\ shown'[b] = shown[b]
           /\ \/ d \in folders[b] /\ ~Empty(b, d) /\ DirDone(b, d, TRUE)
              \/ d \notin folders[b] /\ DirDone(b, d, FALSE)
  <2>1. group'[b].gone = group[b].gone
    <3>1. CASE DirDone(b, d, TRUE)
      BY <3>1, DirFailed
    <3>2. CASE d \notin folders[b] /\ DirDone(b, d, FALSE)
      BY <3>2, DirWent
    <3> QED
      BY <1>3, <3>1, <3>2
  <2> QED
    BY <1>1, <1>3, <2>1, ListedStays
<1> QED
  BY <1>2, <1>3, RemoveFolderMeans

LEMMA FailureListed ==
  ASSUME World, NEW b \in Groups, WellListed(b), NEW d \in group[b].dirs, DirectoryFails(b, d)
  PROVE  WellListed(b)'
<1>1. /\ objects'[b] \subseteq objects[b] /\ folders'[b] \subseteq folders[b]
      /\ UNCHANGED <<rmCall, shown, created>> /\ DirDone(b, d, TRUE)
  BY DirectoryFailsMeans
<1>2. group'[b].gone = group[b].gone
  BY <1>1, DirFailed
<1> QED
  BY <1>1, <1>2, ListedStays

LEMMA CreateListed ==
  ASSUME World, NEW b \in Groups, WellListed(b), NEW n \in CreateNames, Create(b, n)
  PROVE  WellListed(b)'
<1>1. /\ UNCHANGED <<rmCall, group, shown>>
      /\ objects'[b] = objects[b] \cup {n} /\ created'[b] = created[b] \cup {n} \cup Ancestors(n)
      /\ folders'[b] = folders[b] \cup IF Hns(b) THEN Ancestors(n) ELSE {}
  BY GroupFacts DEF Create, RmShape
<1>2. \A m : (Kept(b, m)' => Kept(b, m)) /\ (KeptDir(b, m)' => KeptDir(b, m))
  BY <1>1, KeptBefore
<1>3. /\ Hns(b) => /\ \A m \in objects[b] : Kept(b, m) => <<m, "file">> \in shown[b]
                   /\ \A m \in folders[b] : KeptDir(b, m) => <<m, "directory">> \in shown[b]
                   /\ \A e \in group[b].gone : e \notin shown[b]
  BY ListedMeans
<1>4. \A m \in {n} \cup Ancestors(n) : ~Kept(b, m)' /\ ~KeptDir(b, m)'
  BY <1>1 DEF Kept, KeptDir
<1>5. \A m \in objects'[b] : Kept(b, m)' => m \in objects[b] /\ Kept(b, m)
  BY <1>1, <1>2, <1>4
<1>6. \A m \in folders'[b] : KeptDir(b, m)' => m \in folders[b] /\ KeptDir(b, m)
  BY <1>1, <1>2, <1>4
<1> QED
  BY <1>1, <1>3, <1>5, <1>6, ListedThen

LEMMA NextListed ==
  ASSUME World, [RmNext]_rmVars, NEW b \in Groups, WellListed(b), Recalls(b)
  PROVE  WellListed(b)'
<1>1. CASE UNCHANGED rmVars
  BY <1>1, ListedStays DEF rmVars
<1>2. ASSUME NEW c \in Groups, Elsewhere(c), c # b PROVE WellListed(b)'
  BY <1>2, ListedStays DEF Elsewhere
<1>3. ASSUME NEW c \in Groups, Quiet(c) PROVE WellListed(b)'
  BY <1>2, <1>3, QuietKept, QuietListed
<1>4. ASSUME NEW c \in Groups, NEW n \in CreateNames, Create(c, n) PROVE WellListed(b)'
  BY <1>2, <1>4, CreateKept, CreateListed
<1>5. ASSUME NEW c \in Groups, NEW job \in group[c].jobs, SendBatch(c, job) PROVE WellListed(b)'
  BY <1>2, <1>5, SendBatchKept, BatchListed
<1>6. ASSUME NEW c \in Groups, NEW job \in group[c].jobs, BatchFails(c, job) PROVE WellListed(b)'
  <2>1. CASE c = b
    <3>1. objects'[b] \subseteq objects[b] /\ UNCHANGED <<rmCall, folders, shown, created>> /\ group'[b].gone = group[b].gone
      BY <1>6, <2>1, BatchFailsMeans
    <3> QED
      BY <3>1, ListedStays
  <2> QED
    BY <1>2, <1>6, <2>1, BatchFailsKept
<1>7. ASSUME NEW c \in Groups, NEW d \in group[c].dirs, RemoveMarker(c, d) PROVE WellListed(b)'
  <2>1. CASE c = b
    <3>1. objects'[b] \subseteq objects[b] /\ UNCHANGED <<rmCall, folders, shown, created>> /\ group'[b].gone = group[b].gone
      BY <1>7, <2>1, RemoveMarkerMeans
    <3> QED
      BY <3>1, ListedStays
  <2> QED
    BY <1>2, <1>7, <2>1, RemoveMarkerKept
<1>8. ASSUME NEW c \in Groups, NEW d \in group[c].dirs, RemoveFolder(c, d) PROVE WellListed(b)'
  BY <1>2, <1>8, RemoveFolderKept, FolderListed
<1>9. ASSUME NEW c \in Groups, NEW d \in group[c].dirs, DirectoryFails(c, d) PROVE WellListed(b)'
  BY <1>2, <1>9, DirectoryFailsKept, FailureListed
<1> QED
  BY <1>1, <1>3, <1>4, <1>5, <1>6, <1>7, <1>8, <1>9, RmSteps

\* An entry leaves the listings of a hierarchical bucket only when it is known to be gone, and does then;
\* below an expanded path alone, an object hides the folder of its name.
THEOREM KeepsListings == RmSpec => []RmKeepsListings
<1> DEFINE Inv == World /\ \A b \in Groups : WellListed(b) /\ Recalls(b)
<1>1. RmInit => Inv
  <2> SUFFICES ASSUME RmInit, NEW b \in Groups PROVE WellListed(b) /\ Recalls(b)
    BY InitWorld
  <2>1. shown[b] = FileEntries({n \in objects[b] : ~IsMarker(n)}) \cup DirEntries(folders[b] \ {Root})
    BY DEF RmInit
  <2>2. group[b].gone = {} /\ group[b].asked = {} /\ group[b].listed = {}
    BY DEF RmInit, NewGroup
  <2>3. WellListed(b)
    BY <2>1, <2>2 DEF WellListed, FileEntries, DirEntries
  <2> QED
    BY <2>2, <2>3 DEF Recalls
<1>2. ASSUME Inv, [RmNext]_rmVars PROVE Inv'
  <2>1. World'
    BY <1>2, NextWorld
  <2>2. \A b \in Groups : WellListed(b)' /\ Recalls(b)'
    BY <1>2, NextListed, NextRecalls
  <2>3. Groups' = Groups
    BY <1>2, RmSteps, QuietKept, CreateKept, SendBatchKept, BatchFailsKept, RemoveMarkerKept, RemoveFolderKept,
       DirectoryFailsKept, SameScope DEF Elsewhere, rmVars
  <2> QED
    BY <2>1, <2>2, <2>3
<1>3. Inv => RmKeepsListings
  BY DEF RmKeepsListings, WellListed
<1> QED
  BY <1>1, <1>2, <1>3, PTL DEF RmSpec

-----------------------------------------------------------------------------
(* What an unbounded call finds, and what it leaves.                        *)

\* What was there when the call was made, and is in its scope and still there, but for a path whose
\* own request has failed.
Staying(b, S) == {n \in S[b] : n \in Before(b) \ (created[b] \cup group[b].unsure) /\ InScope(b, n)}

\* The i-th path has not had its answer to a request; only the first can have.
Awaits(b, i, what) == i = 1 => what \notin group[b].asked

\* An entry is found, or a path still to be expanded will show it.
ObjectInHand(b, n) ==
  \/ <<n, "file">> \in group[b].found \/ <<n, "directory">> \in group[b].found
  \/ \E i \in DOMAIN group[b].todo :
       Reaches(group[b].todo[i], n) /\ (Hns(b) => Awaits(b, i, "objects") \/ n = group[b].todo[i].name)
FolderInHand(b, n) ==
  \/ <<n, IF Hns(b) THEN "directory" ELSE "file">> \in group[b].found
  \/ \E i \in DOMAIN group[b].todo :
       Reaches(group[b].todo[i], n) /\ (Hns(b) => Awaits(b, i, "folders") \/ n = Root)
\* An object below a directory found is found as a file: the directory does not hide it.
BelowInHand(b, n) ==
  \/ <<n, "file">> \in group[b].found
  \/ \E i \in DOMAIN group[b].todo :
       ~group[b].todo[i].star /\ IsStrictPrefix(group[b].todo[i].name, n) /\ Awaits(b, i, "objects")

Sought(b) ==
  /\ \A n \in Staying(b, objects) : ObjectInHand(b, n)
  /\ \A n \in Staying(b, folders) : FolderInHand(b, n)
  /\ Hns(b) =>
       /\ \A d \in NamesOf(group[b].found, "directory") : \A n \in Under(d, Staying(b, objects)) : BelowInHand(b, n)
       /\ <<Root, "file">> \notin group[b].found
       /\ "objects" \in group[b].asked =>
            \A n \in Under(First(b).name, Staying(b, objects)) : <<n, "file">> \in group[b].found

FlatDirs(b) == ~Hns(b) => group[b].dirs \subseteq {Root}

\* The stages of an unbounded call: all is found, then the objects go, then the folders; nothing but a
\* fault or another client stops it.
Thorough(b) ==
  /\ group[b].stage = "expand" => Sought(b)
  /\ group[b].stage = "files" /\ ~group[b].failed =>
       \A n \in Staying(b, objects) : \E job \in group[b].jobs : n \in job.left
  /\ (group[b].stage = "dirs" \/ group[b].ended = "done") /\ ~group[b].failed => Staying(b, objects) = {}
  /\ (group[b].stage \in {"files", "dirs"} \/ group[b].ended = "done") /\ ~group[b].failed =>
       Staying(b, folders) \subseteq group[b].dirs
  /\ group[b].ended = "done" => ~group[b].failed /\ group[b].dirs = {}
  /\ Undisturbed => ~group[b].failed /\ group[b].ended # "error"

Untouched(b) ==
  Undisturbed /\ (group[b].stage = "expand" \/ group[b].ended = "missing" \/ (~Hns(b) /\ group[b].gone = {})) =>
    objects[b] = rmCall.objects[b] /\ folders[b] = rmCall.folders[b]

Honest(b) == FlatDirs(b) /\ (Unbounded => Thorough(b)) /\ Untouched(b)

\* Only a failed request leaves a path unsure.
Sure(b) == Undisturbed => group[b].unsure = {}

LEMMA StayingShrinks ==
  ASSUME NEW b, rmCall' = rmCall, created[b] \subseteq created'[b], group[b].unsure \subseteq group'[b].unsure,
         objects'[b] \subseteq objects[b] \cup created'[b], folders'[b] \subseteq folders[b] \cup created'[b]
  PROVE  Staying(b, objects)' \subseteq Staying(b, objects) /\ Staying(b, folders)' \subseteq Staying(b, folders)
<1>1. Before(b)' = Before(b) /\ \A n : InScope(b, n)' = InScope(b, n)
  BY SameScope
<1> QED
  BY <1>1 DEF Staying

LEMMA StayingSame ==
  ASSUME NEW b, UNCHANGED <<rmCall, objects, folders, created>>, group'[b].unsure = group[b].unsure
  PROVE  Staying(b, objects)' = Staying(b, objects) /\ Staying(b, folders)' = Staying(b, folders)
BY SameScope DEF Staying

\* Every step of the expansion leaves what is unsure as it is, but for a failed request for a path.
LEMMA UnsureStays ==
  ASSUME World, NEW b \in Groups,
         \/ Glob(b) \/ AskObjects(b) \/ AskFolders(b) \/ AskInfo(b) \/ ExpandFlat(b)
         \/ Expanded(b) \/ ExpansionFails(b) \/ FilesDone(b) \/ GroupOver(b)
  PROVE  group'[b].unsure = group[b].unsure
<1>1. DOMAIN group = Groups /\ group[b] \in GroupStates
  BY GroupFacts
<1>2. ASSUME NEW how, GroupEnds(b, how) PROVE group'[b].unsure = group[b].unsure
  BY <1>1, <1>2, EndsMeans
<1> DEFINE none == {}
<1>3. \/ \E E, T, A, L : Expands(b, E, T, A, L, none)
      \/ \E how : GroupEnds(b, how)
      \/ Expanded(b) /\ group[b].found # {}
      \/ FilesDone(b)
  BY DEF Glob, AskObjects, AskFolders, Hears, AskInfo, ExpandFlat, Finds, Passes, Expanded, ExpansionFails, GroupOver
<1>4. \A V : V \cup none = V
  OBVIOUS
<1> HIDE DEF none
<1>5. ASSUME NEW E, NEW T, NEW A, NEW L, Expands(b, E, T, A, L, none) PROVE group'[b].unsure = group[b].unsure
  <2>1. group'[b].unsure = group[b].unsure \cup none
    BY <1>1, <1>5, ExpandsMeans
  <2> QED
    BY <1>4, <2>1
<1>6. CASE Expanded(b) /\ group[b].found # {}
  BY <1>1, <1>6, ExpandedMeans
<1>7. CASE FilesDone(b)
  BY <1>1, <1>7, FilesDoneMeans DEF FilesDone
<1> QED
  BY <1>2, <1>3, <1>5, <1>6, <1>7

LEMMA StayingNames ==
  ASSUME World, NEW b \in Groups
  PROVE  /\ \A n \in Staying(b, objects) : n \in ObjectNames /\ n \in Names /\ n # Root /\ n \in objects[b]
         /\ \A n \in Staying(b, folders) : n \in Names /\ ~IsMarker(n) /\ n \in folders[b]
BY GroupFacts, ObjectNamesAre DEF Staying, BucketOK

LEMMA UnboundedScope ==
  ASSUME NEW b, NEW n, Unbounded
  PROVE  InScope(b, n) <=> \E i \in DOMAIN rmCall.paths[b] : Reaches(rmCall.paths[b][i], n)
BY ScopeIs

\* Without a limit of depth all below a name in scope is in scope.
LEMMA BelowInScope ==
  ASSUME World, NEW b \in Groups, Unbounded, NEW d \in Names, ~IsMarker(d), InScope(b, d),
         NEW n \in Names, IsPrefix(d, n)
  PROVE  InScope(b, n)
<1>1. PICK i \in DOMAIN rmCall.paths[b] : Reaches(rmCall.paths[b][i], d)
  BY UnboundedScope
<1> DEFINE q == rmCall.paths[b][i]
<1>2. q.name \in Names
  BY <1>1, GroupFacts, CallFacts
<1>3. Of(d) = d /\ Of(n) \in Names /\ IsPrefix(d, Of(n))
  BY StandsFor
<1>4. Reaches(q, n)
  BY <1>1, <1>2, <1>3, PrefixOfPrefix DEF Reaches, IsStrictPrefix
<1> QED
  BY <1>4, UnboundedScope

LEMMA Depthless ==
  ASSUME World, NEW b \in Groups, NEW star, Expanding(b, star), Unbounded
  PROVE  /\ rmCall.recursive /\ First(b).depth = 0 /\ \A S : Near(First(b), S) = S
         /\ group[b].todo # <<>> /\ First(b) = group[b].todo[1] /\ 1 \in DOMAIN group[b].todo
<1>1. rmCall.recursive /\ rmCall.maxdepth = 0
  BY DEF Unbounded
<1>2. Within(b, First(b))
  BY PathFacts
<1>3. First(b).depth = 0
  BY <1>1, <1>2 DEF Within, ToExpand
<1>4. group[b].todo \in Seq(PathRecs)
  BY GroupFacts, FieldsOf
<1>5. group[b].todo # <<>>
  BY DEF Expanding
<1> QED
  BY <1>1, <1>3, <1>4, <1>5 DEF Near, First

\* Where the group is the same and no more stays, the invariant stays.
LEMMA HonestIdle ==
  ASSUME NEW b, Honest(b), rmCall' = rmCall, group'[b] = group[b],
         Staying(b, objects)' \subseteq Staying(b, objects), Staying(b, folders)' \subseteq Staying(b, folders),
         Undisturbed' => Undisturbed /\ objects'[b] = objects[b] /\ folders'[b] = folders[b]
  PROVE  Honest(b)'
<1>1. Hns(b)' = Hns(b) /\ Unbounded' = Unbounded
  BY SameScope DEF Unbounded
<1>2. FlatDirs(b)' /\ Untouched(b)'
  BY <1>1 DEF Honest, FlatDirs, Untouched
<1>3. ASSUME Unbounded, Sought(b) PROVE Sought(b)'
  <2>1. \A n : ObjectInHand(b, n)' = ObjectInHand(b, n)
    BY <1>1 DEF ObjectInHand, Reaches, Awaits
  <2>2. \A n : FolderInHand(b, n)' = FolderInHand(b, n)
    BY <1>1 DEF FolderInHand, Reaches, Awaits
  <2>3. \A n : BelowInHand(b, n)' = BelowInHand(b, n)
    BY <1>1 DEF BelowInHand, Awaits
  <2>4. First(b)' = First(b) /\ \A p : Under(p, Staying(b, objects)') \subseteq Under(p, Staying(b, objects))
    BY DEF First, Under
  <2> QED
    BY <1>1, <1>3, <2>1, <2>2, <2>3, <2>4 DEF Sought
<1>4. ASSUME Unbounded PROVE Thorough(b)'
  <2>1. Thorough(b)
    BY <1>4 DEF Honest
  <2> QED
    BY <1>3, <1>4, <2>1 DEF Thorough
<1> QED
  BY <1>1, <1>2, <1>4 DEF Honest

LEMMA SameFaults ==
  ASSUME UNCHANGED <<rmCall, rmFaults, created>>
  PROVE  Undisturbed' = Undisturbed /\ Unbounded' = Unbounded
BY DEF Undisturbed, Unbounded, Groups

LEMMA FaultCounted == ASSUME World, rmFaults' = rmFaults + 1 PROVE ~Undisturbed'
BY DEF World, RmShape, Undisturbed

\* A step of the expansion has only to keep track of what is sought.
LEMMA ExpandHonest ==
  ASSUME World, NEW b \in Groups, Honest(b), At(b, "expand"), BucketsStay, Undisturbed' => Undisturbed,
         NEW E, NEW T, NEW A, NEW L, NEW U, Expands(b, E, T, A, L, U), Unbounded => Sought(b)'
  PROVE  Honest(b)'
<1>1. DOMAIN group = Groups /\ group[b] \in GroupStates
  BY GroupFacts
<1>2. group'[b].todo = T /\ group'[b].asked = A /\ group'[b].stage = group[b].stage
  BY <1>1, ExpandsMeans
<1>3. /\ group'[b].gone = group[b].gone /\ group'[b].failed = group[b].failed
      /\ group'[b].dirs = group[b].dirs /\ group'[b].ended = group[b].ended
  BY <1>1, ExpandsMeans
<1>4. Unbounded' = Unbounded /\ Hns(b)' = Hns(b) /\ UNCHANGED <<rmCall, objects, folders>>
  BY SameScope DEF BucketsStay, Unbounded
<1>6. FlatDirs(b)' /\ Untouched(b)'
  BY <1>2, <1>3, <1>4 DEF Honest, FlatDirs, Untouched
<1>7. Unbounded => Thorough(b)'
  BY <1>2, <1>3, <1>4 DEF Honest, Thorough, At
<1> QED
  BY <1>4, <1>6, <1>7 DEF Honest

\* The paths behind the first stay in hand when it has been expanded, with those put in its place.
Spliced(u, s, t) == u = s \o Tail(t)
LEMMA LaterPaths ==
  ASSUME NEW t \in Seq(PathRecs), t # <<>>, NEW s \in Seq(PathRecs), NEW u, Spliced(u, s, t)
  PROVE  /\ \A i \in DOMAIN t : i # 1 => \E j \in DOMAIN u : u[j] = t[i]
         /\ \A j \in DOMAIN s : j \in DOMAIN u /\ u[j] = s[j]
<1> DEFINE r == Tail(t)
<1>1. r \in Seq(PathRecs) /\ Len(r) = Len(t) - 1 /\ \A i \in 1..Len(r) : r[i] = t[i + 1]
  OBVIOUS
<1> HIDE DEF r
<1>c. /\ u \in Seq(PathRecs) /\ Len(u) = Len(s) + Len(r)
      /\ \A i \in 1..Len(s) + Len(r) : u[i] = IF i <= Len(s) THEN s[i] ELSE r[i - Len(s)]
  <2>1. u = s \o r
    BY DEF r, Spliced
  <2> QED
    BY <1>1, <2>1, ConcatProperties
<1>n. Len(s) \in Nat /\ Len(r) \in Nat
  BY <1>1
<1>2. \A i \in 1..Len(r) : u[Len(s) + i] = r[i]
  BY <1>c, <1>n
<1>3. \A j \in 1..Len(s) : u[j] = s[j]
  BY <1>c, <1>n
<1>4. ASSUME NEW i \in DOMAIN t, i # 1 PROVE \E j \in DOMAIN u : u[j] = t[i]
  <2>1. i - 1 \in 1..Len(r) /\ t[i] = r[i - 1]
    BY <1>1, <1>4
  <2>2. Len(s) + (i - 1) \in DOMAIN u /\ u[Len(s) + (i - 1)] = t[i]
    BY <1>c, <1>n, <1>2, <2>1
  <2> QED
    BY <2>2
<1>5. DOMAIN s = 1..Len(s) /\ DOMAIN s \subseteq DOMAIN u
  BY <1>c, <1>n
<1> QED
  BY <1>3, <1>4, <1>5

LEMMA HandedOn ==
  ASSUME World, NEW b \in Groups, NEW star, Expanding(b, star), rmCall' = rmCall,
         NEW s \in Seq(PathRecs), group'[b].todo = s \o Tail(group[b].todo), group'[b].asked = {},
         group[b].found \subseteq group'[b].found
  PROVE  /\ \A n : ObjectInHand(b, n) =>
              \/ ObjectInHand(b, n)'
              \/ Reaches(First(b), n) /\ (Hns(b) => "objects" \notin group[b].asked \/ n = First(b).name)
         /\ \A n : FolderInHand(b, n) =>
              \/ FolderInHand(b, n)'
              \/ Reaches(First(b), n) /\ (Hns(b) => "folders" \notin group[b].asked \/ n = Root)
         /\ \A n : BelowInHand(b, n) =>
              \/ BelowInHand(b, n)'
              \/ ~First(b).star /\ IsStrictPrefix(First(b).name, n) /\ "objects" \notin group[b].asked
<1> DEFINE t == group[b].todo
           u == group'[b].todo
<1>1. t \in Seq(PathRecs) /\ t # <<>> /\ First(b) = t[1]
  <2>1. t \in Seq(PathRecs)
    BY GroupFacts, FieldsOf
  <2> QED
    BY <2>1 DEF Expanding, First
<1>2. Hns(b)' = Hns(b)
  BY SameScope
<1>3. \A i \in DOMAIN t : i # 1 => \E j \in DOMAIN u : u[j] = t[i]
  <2>1. Spliced(u, s, t)
    BY DEF Spliced
  <2> HIDE DEF t, u
  <2> QED
    BY <1>1, <2>1, LaterPaths
<1>4. \A j, what : Awaits(b, j, what)'
  BY DEF Awaits
<1>5. ASSUME NEW n, ObjectInHand(b, n), ~ObjectInHand(b, n)'
      PROVE  Reaches(First(b), n) /\ (Hns(b) => "objects" \notin group[b].asked \/ n = First(b).name)
  <2>1. \A j \in DOMAIN u : ~Reaches(u[j], n)
    BY <1>4, <1>5 DEF ObjectInHand, Reaches
  <2>2. <<n, "file">> \notin group[b].found /\ <<n, "directory">> \notin group[b].found
    BY <1>5 DEF ObjectInHand
  <2>3. PICK i \in DOMAIN t : Reaches(t[i], n) /\ (Hns(b) => Awaits(b, i, "objects") \/ n = t[i].name)
    BY <1>5, <2>2 DEF ObjectInHand
  <2>4. i = 1
    BY <1>3, <2>1, <2>3
  <2> QED
    BY <1>1, <2>3, <2>4 DEF Awaits
<1>6. ASSUME NEW n, FolderInHand(b, n), ~FolderInHand(b, n)'
      PROVE  Reaches(First(b), n) /\ (Hns(b) => "folders" \notin group[b].asked \/ n = Root)
  <2>1. \A j \in DOMAIN u : ~Reaches(u[j], n)
    BY <1>4, <1>6 DEF FolderInHand, Reaches
  <2>2. <<n, IF Hns(b) THEN "directory" ELSE "file">> \notin group[b].found
    BY <1>2, <1>6 DEF FolderInHand
  <2>3. PICK i \in DOMAIN t : Reaches(t[i], n) /\ (Hns(b) => Awaits(b, i, "folders") \/ n = Root)
    BY <1>6, <2>2 DEF FolderInHand
  <2>4. i = 1
    BY <1>3, <2>1, <2>3
  <2> QED
    BY <1>1, <2>3, <2>4 DEF Awaits
<1>7. ASSUME NEW n, BelowInHand(b, n), ~BelowInHand(b, n)'
      PROVE  ~First(b).star /\ IsStrictPrefix(First(b).name, n) /\ "objects" \notin group[b].asked
  <2>1. \A j \in DOMAIN u : ~(~u[j].star /\ IsStrictPrefix(u[j].name, n))
    BY <1>4, <1>7 DEF BelowInHand
  <2>2. <<n, "file">> \notin group[b].found
    BY <1>7 DEF BelowInHand
  <2>3. PICK i \in DOMAIN t : ~t[i].star /\ IsStrictPrefix(t[i].name, n) /\ Awaits(b, i, "objects")
    BY <1>7, <2>2 DEF BelowInHand
  <2>4. i = 1
    BY <1>3, <2>1, <2>3
  <2> QED
    BY <1>1, <2>3, <2>4 DEF Awaits
<1> QED
  BY <1>5, <1>6, <1>7

-----------------------------------------------------------------------------
(* Each step of the expansion keeps what is sought in hand.                 *)

\* A path without star reaches its name and what is below it.
LEMMA ReachesBelow ==
  ASSUME NEW q \in PathRecs, ~q.star, NEW n \in Names, Reaches(q, n)
  PROVE  IsPrefix(q.name, n) /\ (n = q.name \/ IsStrictPrefix(q.name, n))
<1>1. q.name \in Names /\ IsPrefix(q.name, Of(n))
  BY DEF PathRecs, Reaches
<1> QED
  BY <1>1, StandsFor DEF IsStrictPrefix

LEMMA AskObjectsHonest ==
  ASSUME World, NEW b \in Groups, Honest(b), AskObjects(b)
  PROVE  Honest(b)'
<1> DEFINE q == First(b)
           E == FileEntries(FindObjects(b, q))
           T == group[b].todo
           A == group[b].asked \cup {"objects"}
           L == group[b].listed \cup FileEntries(AllObjects(b, q.name))
           U == {}
<1>1. /\ Expanding(b, FALSE) /\ Hns(b) /\ BucketsStay /\ UNCHANGED rmFaults /\ Expands(b, E, T, A, L, U)
      /\ At(b, "expand") /\ rmCall.recursive
  BY DEF AskObjects, Hears, Expanding
<1> HIDE DEF L, U
<1>2. q \in PathRecs /\ ~q.star /\ T # <<>> /\ q = Head(T)
  BY <1>1, PathFacts DEF Expanding, First
<1>3. /\ group'[b].found = group[b].found \cup E /\ group'[b].todo = T /\ group'[b].asked = A
      /\ group'[b].stage = group[b].stage
  BY <1>1, GroupFacts, ExpandsMeans
<1>4. /\ rmCall' = rmCall /\ UNCHANGED <<objects, folders, created>> /\ Hns(b)' = Hns(b)
      /\ Undisturbed' = Undisturbed
  BY <1>1, SameScope, SameFaults DEF BucketsStay
<1>5. Staying(b, objects)' = Staying(b, objects) /\ Staying(b, folders)' = Staying(b, folders)
  BY <1>4, UnsureStays, StayingSame
<1>6. ASSUME Unbounded PROVE Sought(b)'
  <2>1. Sought(b)
    BY <1>1, <1>6 DEF Honest, Thorough, At
  <2>2. FindObjects(b, q) = IF Under(q.name, objects[b]) # {} THEN Under(q.name, objects[b]) ELSE objects[b] \cap {q.name}
    BY <1>1, <1>6, Depthless DEF FindObjects, AllObjects
  <2>3. \A n \in Under(q.name, Staying(b, objects)) : <<n, "file">> \in group'[b].found
    <3>1. Under(q.name, Staying(b, objects)) \subseteq FindObjects(b, q)
      BY <2>2 DEF Under, Staying
    <3> QED
      BY <1>3, <3>1 DEF FileEntries
  <2>4. q = group[b].todo[1] /\ 1 \in DOMAIN group[b].todo
    BY <1>1, <1>6, Depthless
  <2>5. \A i : i # 1 => Awaits(b, i, "objects")'
    BY DEF Awaits
  <2>6. \A i : Awaits(b, i, "folders") => Awaits(b, i, "folders")'
    BY <1>3 DEF Awaits
  <2>7. ASSUME NEW n \in Staying(b, objects) PROVE ObjectInHand(b, n)'
    <3>1. ObjectInHand(b, n) /\ n \in Names
      BY <2>1, StayingNames DEF Sought
    <3>2. CASE <<n, "file">> \in group[b].found \/ <<n, "directory">> \in group[b].found
      BY <1>3, <3>2 DEF ObjectInHand
    <3>3. CASE \E i \in DOMAIN group[b].todo : Reaches(group[b].todo[i], n)
      <4>1. PICK i \in DOMAIN group[b].todo : Reaches(group[b].todo[i], n)
        BY <3>3
      <4>2. CASE i = 1
        <5>1. Reaches(q, n)
          BY <2>4, <4>1, <4>2
        <5>2. n = q.name \/ n \in Under(q.name, Staying(b, objects))
          BY <1>2, <3>1, <5>1, ReachesBelow DEF Under
        <5>3. CASE n = q.name
          <6>1. 1 \in DOMAIN group'[b].todo /\ Reaches(group'[b].todo[1], n) /\ n = group'[b].todo[1].name
            BY <1>3, <2>4, <5>1, <5>3 DEF Reaches
          <6> QED
            BY <6>1 DEF ObjectInHand
        <5>4. CASE n \in Under(q.name, Staying(b, objects))
          BY <2>3, <5>4 DEF ObjectInHand
        <5> QED
          BY <5>2, <5>3, <5>4
      <4>3. CASE i # 1
        <5>1. i \in DOMAIN group'[b].todo /\ Reaches(group'[b].todo[i], n) /\ Awaits(b, i, "objects")'
          BY <1>3, <2>5, <4>1, <4>3 DEF Reaches
        <5> QED
          BY <5>1 DEF ObjectInHand
      <4> QED
        BY <4>2, <4>3
    <3> QED
      BY <3>1, <3>2, <3>3 DEF ObjectInHand
  <2>8. ASSUME NEW n \in Staying(b, folders) PROVE FolderInHand(b, n)'
    <3>1. FolderInHand(b, n)
      BY <2>1 DEF Sought
    <3> QED
      BY <1>3, <1>4, <2>6, <3>1 DEF FolderInHand, Reaches
  <2>9. ASSUME NEW d \in NamesOf(group'[b].found, "directory"), NEW n \in Under(d, Staying(b, objects))
        PROVE  BelowInHand(b, n)'
    <3>1. d \in NamesOf(group[b].found, "directory")
      BY <1>3 DEF NamesOf, FileEntries
    <3>2. BelowInHand(b, n)
      BY <1>1, <2>1, <3>1 DEF Sought
    <3>3. CASE <<n, "file">> \in group[b].found
      BY <1>3, <3>3 DEF BelowInHand
    <3>4. CASE \E i \in DOMAIN group[b].todo : ~group[b].todo[i].star /\ IsStrictPrefix(group[b].todo[i].name, n)
      <4>1. PICK i \in DOMAIN group[b].todo : ~group[b].todo[i].star /\ IsStrictPrefix(group[b].todo[i].name, n)
        BY <3>4
      <4>2. CASE i = 1
        <5>1. n \in Under(q.name, Staying(b, objects))
          BY <2>4, <4>1, <4>2 DEF Under
        <5> QED
          BY <2>3, <5>1 DEF BelowInHand
      <4>3. CASE i # 1
        BY <1>3, <2>5, <4>1, <4>3 DEF BelowInHand
      <4> QED
        BY <4>2, <4>3
    <3> QED
      BY <3>2, <3>3, <3>4 DEF BelowInHand
  <2>10. <<Root, "file">> \notin group'[b].found
    <3>1. Root \notin objects[b]
      BY GroupFacts, ObjectNamesAre DEF BucketOK
    <3>2. <<Root, "file">> \notin E
      BY <2>2, <3>1 DEF FileEntries, Under
    <3>3. <<Root, "file">> \notin group[b].found
      BY <1>1, <2>1 DEF Sought
    <3> QED
      BY <1>3, <3>2, <3>3
  <2>11. First(b)' = q
    BY <1>3 DEF First
  <2> QED
    BY <1>4, <1>5, <2>3, <2>7, <2>8, <2>9, <2>10, <2>11 DEF Sought
<1> HIDE DEF E, A, T, q
<1> QED
  BY <1>1, <1>2, <1>4, <1>6, ExpandHonest

LEMMA AskFoldersHonest ==
  ASSUME World, NEW b \in Groups, Honest(b), AskFolders(b)
  PROVE  Honest(b)'
<1> DEFINE q == First(b)
           E == DirEntries(FindFolders(b, q))
           T == group[b].todo
           A == group[b].asked \cup {"folders"}
           L == group[b].listed \cup DirEntries(AllFolders(b, q.name))
           U == {}
<1>1. /\ Expanding(b, FALSE) /\ Hns(b) /\ BucketsStay /\ UNCHANGED rmFaults /\ Expands(b, E, T, A, L, U)
      /\ At(b, "expand") /\ rmCall.recursive
  BY DEF AskFolders, Hears, Expanding
<1> HIDE DEF L, U
<1>2. q \in PathRecs /\ ~q.star /\ T # <<>> /\ q = Head(T) /\ q.name \in Names
  BY <1>1, PathFacts DEF Expanding, First
<1>3. /\ group'[b].found = group[b].found \cup E /\ group'[b].todo = T /\ group'[b].asked = A
      /\ group'[b].stage = group[b].stage
  BY <1>1, GroupFacts, ExpandsMeans
<1>4. /\ rmCall' = rmCall /\ UNCHANGED <<objects, folders, created>> /\ Hns(b)' = Hns(b)
      /\ Undisturbed' = Undisturbed
  BY <1>1, SameScope, SameFaults DEF BucketsStay
<1>5. Staying(b, objects)' = Staying(b, objects) /\ Staying(b, folders)' = Staying(b, folders)
  BY <1>4, UnsureStays, StayingSame
<1>6. ASSUME Unbounded PROVE Sought(b)'
  <2>1. Sought(b)
    BY <1>1, <1>6 DEF Honest, Thorough, At
  <2>2. FindFolders(b, q) = {d \in folders[b] \ {Root} : IsPrefix(q.name, d)}
    BY <1>1, <1>6, Depthless DEF FindFolders, AllFolders
  <2>4. q = group[b].todo[1] /\ 1 \in DOMAIN group[b].todo
    BY <1>1, <1>6, Depthless
  <2>5. \A i : i # 1 => Awaits(b, i, "folders")'
    BY DEF Awaits
  <2>6. \A i : Awaits(b, i, "objects") => Awaits(b, i, "objects")'
    BY <1>3 DEF Awaits
  <2>7. ASSUME NEW n \in Staying(b, objects) PROVE ObjectInHand(b, n)'
    <3>1. ObjectInHand(b, n)
      BY <2>1 DEF Sought
    <3> QED
      BY <1>3, <1>4, <2>6, <3>1 DEF ObjectInHand, Reaches
  <2>8. ASSUME NEW n \in Staying(b, folders) PROVE FolderInHand(b, n)'
    <3>1. FolderInHand(b, n) /\ n \in Names /\ ~IsMarker(n) /\ n \in folders[b]
      BY <2>1, StayingNames DEF Sought
    <3>2. CASE <<n, "directory">> \in group[b].found
      BY <1>1, <1>3, <1>4, <3>2 DEF FolderInHand
    <3>3. CASE \E i \in DOMAIN group[b].todo : Reaches(group[b].todo[i], n)
      <4>1. PICK i \in DOMAIN group[b].todo : Reaches(group[b].todo[i], n)
        BY <3>3
      <4>2. CASE i = 1
        <5>1. Reaches(q, n)
          BY <2>4, <4>1, <4>2
        <5>2. CASE n = Root
          <6>1. 1 \in DOMAIN group'[b].todo /\ Reaches(group'[b].todo[1], n)
            BY <1>3, <2>4, <5>1 DEF Reaches
          <6> QED
            BY <5>2, <6>1 DEF FolderInHand
        <5>3. CASE n # Root
          <6>1. n \in FindFolders(b, q)
            BY <1>2, <2>2, <3>1, <5>1, <5>3, ReachesBelow
          <6>2. <<n, "directory">> \in group'[b].found
            BY <1>3, <6>1 DEF DirEntries
          <6> QED
            BY <1>1, <1>4, <6>2 DEF FolderInHand
        <5> QED
          BY <5>2, <5>3
      <4>3. CASE i # 1
        <5>1. i \in DOMAIN group'[b].todo /\ Reaches(group'[b].todo[i], n) /\ Awaits(b, i, "folders")'
          BY <1>3, <2>5, <4>1, <4>3 DEF Reaches
        <5> QED
          BY <5>1 DEF FolderInHand
      <4> QED
        BY <4>2, <4>3
    <3> QED
      BY <1>1, <3>1, <3>2, <3>3 DEF FolderInHand
  <2>9. ASSUME NEW d \in NamesOf(group'[b].found, "directory"), NEW n \in Under(d, Staying(b, objects))
        PROVE  BelowInHand(b, n)'
    <3>1. CASE d \in NamesOf(group[b].found, "directory")
      <4>1. BelowInHand(b, n)
        BY <1>1, <2>1, <3>1 DEF Sought
      <4> QED
        BY <1>3, <2>6, <4>1 DEF BelowInHand
    <3>2. CASE d \in FindFolders(b, q)
      <4>1. d \in Names /\ IsPrefix(q.name, d)
        BY <2>2, <3>2, GroupFacts DEF BucketOK
      <4>2. n \in Names /\ IsStrictPrefix(d, n) /\ n \in Staying(b, objects)
        BY StayingNames DEF Under
      <4>3. IsStrictPrefix(q.name, n)
        BY <1>2, <4>1, <4>2, PrefixOfPrefix DEF IsStrictPrefix
      <4>4. CASE "objects" \in group[b].asked
        <5>1. <<n, "file">> \in group[b].found
          BY <1>1, <2>1, <4>2, <4>3, <4>4 DEF Sought, Under
        <5> QED
          BY <1>3, <5>1 DEF BelowInHand
      <4>5. CASE "objects" \notin group[b].asked
        <5>1. /\ 1 \in DOMAIN group'[b].todo /\ ~group'[b].todo[1].star /\ IsStrictPrefix(group'[b].todo[1].name, n)
              /\ Awaits(b, 1, "objects")'
          BY <1>2, <1>3, <2>4, <4>3, <4>5 DEF Awaits
        <5> QED
          BY <5>1 DEF BelowInHand
      <4> QED
        BY <4>4, <4>5
    <3>3. d \in NamesOf(group[b].found, "directory") \/ d \in FindFolders(b, q)
      BY <1>3 DEF NamesOf, DirEntries
    <3> QED
      BY <3>1, <3>2, <3>3
  <2>10. <<Root, "file">> \notin group'[b].found
    <3>2. <<Root, "file">> \notin E
      BY DEF DirEntries
    <3>3. <<Root, "file">> \notin group[b].found
      BY <1>1, <2>1 DEF Sought
    <3> QED
      BY <1>3, <3>2, <3>3
  <2>11. First(b)' = q
    BY <1>3 DEF First
  <2>12. "objects" \in group'[b].asked =>
           \A n \in Under(q.name, Staying(b, objects)) : <<n, "file">> \in group'[b].found
    BY <1>1, <1>3, <2>1 DEF Sought
  <2> QED
    BY <1>4, <1>5, <2>7, <2>8, <2>9, <2>10, <2>11, <2>12 DEF Sought
<1> HIDE DEF E, A, T, q
<1> QED
  BY <1>1, <1>2, <1>4, <1>6, ExpandHonest

LEMMA NothingBefore ==
  ASSUME NEW t \in Seq(PathRecs), t # <<>>
  PROVE  <<>> \in Seq(PathRecs) /\ Tail(t) = <<>> \o Tail(t)
<1>1. Tail(t) \in Seq(PathRecs)
  BY HeadTailProperties
<1> QED
  BY <1>1, ConcatEmptySeq

LEMMA AskInfoHonest ==
  ASSUME World, NEW b \in Groups, Honest(b), AskInfo(b)
  PROVE  Honest(b)'
<1> DEFINE q == First(b)
           p == q.name
           replies == FileEntries({p} \cap objects[b]) \cup DirEntries({p} \cap folders[b])
           T == Tail(group[b].todo)
           none == {}
<1>e. PICK E : /\ Expands(b, E, T, none, none, none)
               /\ E = {} \/ \E e \in replies : E = {e}
               /\ Known(b) \/ replies = {} \/ E # {}
  BY DEF AskInfo, Finds, Passes
<1>1. Expanding(b, FALSE) /\ Hns(b) /\ BucketsStay /\ UNCHANGED rmFaults /\ At(b, "expand")
  BY DEF AskInfo, Heard, GroupOnly, Expanding
<1>m. \A e \in E : /\ e = <<p, "file">> \/ e = <<p, "directory">>
                  /\ e[1] = p /\ (e[2] = "file" => p \in objects[b])
  BY <1>e DEF FileEntries, DirEntries
<1>k. Known(b) => <<p, "file">> \in group[b].found \/ <<p, "directory">> \in group[b].found
  BY DEF Known
<1>d. none = {}
  OBVIOUS
<1> HIDE DEF none
<1>2. q \in PathRecs /\ ~q.star /\ p \in Names /\ ~IsMarker(p)
  BY <1>1, PathFacts DEF First
<1>3. /\ group'[b].found = group[b].found \cup E /\ group'[b].todo = T /\ group'[b].asked = {}
      /\ group'[b].stage = group[b].stage
  BY <1>e, <1>d, GroupFacts, ExpandsMeans
<1>4. /\ rmCall' = rmCall /\ UNCHANGED <<objects, folders, created>> /\ Hns(b)' = Hns(b)
      /\ Undisturbed' = Undisturbed
  BY <1>1, SameScope, SameFaults DEF BucketsStay
<1>5. Staying(b, objects)' = Staying(b, objects) /\ Staying(b, folders)' = Staying(b, folders)
  BY <1>4, UnsureStays, StayingSame
<1>6. ASSUME Unbounded PROVE Sought(b)'
  <2>1. Sought(b)
    BY <1>1, <1>6 DEF Honest, Thorough, At
  <2>2. group[b].asked = {"objects", "folders"}
    BY <1>6 DEF AskInfo, Heard, Listings, Unbounded
  <2>3. \A n \in Under(p, Staying(b, objects)) : <<n, "file">> \in group[b].found
    BY <1>1, <2>1, <2>2 DEF Sought
  <2>4. group[b].todo \in Seq(PathRecs) /\ group[b].todo # <<>>
    BY <1>1, GroupFacts, FieldsOf DEF Expanding
  <2>5. <<>> \in Seq(PathRecs) /\ group'[b].todo = <<>> \o Tail(group[b].todo)
    BY <1>3, <2>4, NothingBefore
  <2>6. group[b].found \subseteq group'[b].found
    BY <1>3
  <2>7. ASSUME NEW n \in Staying(b, objects) PROVE ObjectInHand(b, n)'
    <3>1. ObjectInHand(b, n) /\ n \in objects[b]
      BY <2>1, StayingNames DEF Sought
    <3>2. ObjectInHand(b, n)' \/ n = p
      <4>1. \/ ObjectInHand(b, n)'
            \/ Reaches(q, n) /\ (Hns(b) => "objects" \notin group[b].asked \/ n = p)
        BY <1>1, <1>3, <1>4, <2>5, <2>6, <3>1, HandedOn
      <4> QED
        BY <1>1, <2>2, <4>1
    <3>3. CASE n = p
      <4>1. Known(b) \/ E # {}
        BY <1>e, <3>1, <3>3 DEF FileEntries
      <4>2. <<p, "file">> \in group'[b].found \/ <<p, "directory">> \in group'[b].found
        BY <1>3, <1>k, <1>m, <4>1
      <4> QED
        BY <3>3, <4>2 DEF ObjectInHand
    <3> QED
      BY <3>2, <3>3
  <2>8. ASSUME NEW n \in Staying(b, folders) PROVE FolderInHand(b, n)'
    <3>1. FolderInHand(b, n) /\ n \in Names /\ n \in folders[b]
      BY <2>1, StayingNames DEF Sought
    <3>2. FolderInHand(b, n)' \/ (n = Root /\ Reaches(q, n))
      <4>1. \/ FolderInHand(b, n)'
            \/ Reaches(q, n) /\ (Hns(b) => "folders" \notin group[b].asked \/ n = Root)
        BY <1>1, <1>3, <1>4, <2>5, <2>6, <3>1, HandedOn
      <4> QED
        BY <1>1, <2>2, <4>1
    <3>3. CASE n = Root /\ Reaches(q, n)
      <4>1. p = Root
        BY <1>2, <3>1, <3>3, ReachesBelow, StrictlyLonger
      <4>2. p \notin objects[b] /\ p \in folders[b] /\ <<p, "file">> \notin group[b].found
        BY <1>1, <2>1, <3>1, <3>3, <4>1, GroupFacts, ObjectNamesAre DEF BucketOK, Sought
      <4>3. <<p, "directory">> \in group'[b].found
        <5>1. Known(b) => <<p, "directory">> \in group[b].found
          BY <1>k, <4>2
        <5>2. replies # {}
          BY <4>2 DEF DirEntries
        <5>3. E # {} => <<p, "directory">> \in E
          BY <1>m, <4>2
        <5> QED
          BY <1>e, <1>3, <5>1, <5>2, <5>3
      <4> QED
        BY <1>1, <1>4, <3>3, <4>1, <4>3 DEF FolderInHand
    <3> QED
      BY <3>2, <3>3
  <2>9. ASSUME NEW d \in NamesOf(group'[b].found, "directory"), NEW n \in Under(d, Staying(b, objects))
        PROVE  BelowInHand(b, n)'
    <3>1. CASE d \in NamesOf(group[b].found, "directory")
      <4>1. BelowInHand(b, n)
        BY <1>1, <2>1, <3>1 DEF Sought
      <4>2. \/ BelowInHand(b, n)'
            \/ ~q.star /\ IsStrictPrefix(p, n) /\ "objects" \notin group[b].asked
        BY <1>1, <1>3, <1>4, <2>5, <2>6, <4>1, HandedOn
      <4> QED
        BY <2>2, <4>2
    <3>2. CASE d = p
      BY <2>3, <2>6, <3>2 DEF BelowInHand
    <3>3. d \in NamesOf(group[b].found, "directory") \/ d = p
      BY <1>3, <1>m DEF NamesOf
    <3> QED
      BY <3>1, <3>2, <3>3
  <2>10. <<Root, "file">> \notin group'[b].found
    <3>1. Root \notin objects[b]
      BY GroupFacts, ObjectNamesAre DEF BucketOK
    <3>2. <<Root, "file">> \notin E
      BY <1>m, <3>1
    <3>3. <<Root, "file">> \notin group[b].found
      BY <1>1, <2>1 DEF Sought
    <3> QED
      BY <1>3, <3>2, <3>3
  <2> QED
    BY <1>3, <1>4, <1>5, <2>7, <2>8, <2>9, <2>10 DEF Sought
<1> HIDE DEF T, q
<1> QED
  BY <1>e, <1>1, <1>4, <1>6, ExpandHonest

LEMMA ExpandFlatHonest ==
  ASSUME World, NEW b \in Groups, Honest(b), ExpandFlat(b)
  PROVE  Honest(b)'
<1> DEFINE q == First(b)
           p == q.name
           below == FindObjects(b, q)
           itself == {p} \cap (objects[b] \cup ShownDirs(b) \cup folders[b])
           E == FileEntries(IF rmCall.recursive THEN FlatBelow(b) \cup itself ELSE {p})
           T == Tail(group[b].todo)
           none == {}
<1>1. /\ Expanding(b, FALSE) /\ ~Hns(b) /\ BucketsStay /\ UNCHANGED rmFaults /\ At(b, "expand")
      /\ Expands(b, E, T, none, none, none)
  BY DEF ExpandFlat, Expanding, Finds, Passes
<1>d. none = {}
  OBVIOUS
<1> HIDE DEF none
<1>2. q \in PathRecs /\ ~q.star /\ p \in Names /\ ~IsMarker(p)
  BY <1>1, PathFacts DEF First
<1>3. /\ group'[b].found = group[b].found \cup E /\ group'[b].todo = T /\ group'[b].asked = {}
      /\ group'[b].stage = group[b].stage
  BY <1>1, <1>d, GroupFacts, ExpandsMeans
<1>4. /\ rmCall' = rmCall /\ UNCHANGED <<objects, folders, created>> /\ Hns(b)' = Hns(b)
      /\ Undisturbed' = Undisturbed
  BY <1>1, SameScope, SameFaults DEF BucketsStay
<1>5. Staying(b, objects)' = Staying(b, objects) /\ Staying(b, folders)' = Staying(b, folders)
  BY <1>4, UnsureStays, StayingSame
<1>6. ASSUME Unbounded PROVE Sought(b)'
  <2>1. Sought(b)
    BY <1>1, <1>6 DEF Honest, Thorough, At
  <2>2. group[b].todo \in Seq(PathRecs) /\ group[b].todo # <<>>
    BY <1>1, GroupFacts, FieldsOf DEF Expanding
  <2>3. <<>> \in Seq(PathRecs) /\ group'[b].todo = <<>> \o Tail(group[b].todo)
    BY <1>3, <2>2, NothingBefore
  <2>4. group[b].found \subseteq group'[b].found
    BY <1>3
  <2>5. rmCall.recursive /\ below = IF Under(p, objects[b]) # {} THEN Under(p, objects[b]) ELSE objects[b] \cap {p}
    BY <1>1, <1>6, Depthless DEF FindObjects, AllObjects
  <2>6. \A n \in below \cup itself : <<n, "file">> \in group'[b].found
    BY <1>3, <2>5 DEF FileEntries, FlatBelow
  <2>7. ASSUME NEW n \in Staying(b, objects) PROVE ObjectInHand(b, n)'
    <3>1. ObjectInHand(b, n) /\ n \in objects[b] /\ n \in Names
      BY <2>1, StayingNames DEF Sought
    <3>2. ObjectInHand(b, n)' \/ Reaches(q, n)
      BY <1>1, <1>3, <1>4, <2>3, <2>4, <3>1, HandedOn
    <3>3. CASE Reaches(q, n)
      <4>1. n = p \/ n \in Under(p, objects[b])
        BY <1>2, <3>1, <3>3, ReachesBelow DEF Under
      <4>2. n \in below \cup itself
        BY <2>5, <3>1, <4>1
      <4> QED
        BY <2>6, <4>2 DEF ObjectInHand
    <3> QED
      BY <3>2, <3>3
  <2>8. ASSUME NEW n \in Staying(b, folders) PROVE FolderInHand(b, n)'
    <3>1. FolderInHand(b, n) /\ n \in Names /\ n = Root /\ n \in folders[b]
      BY <1>1, <2>1, StayingNames, GroupFacts DEF Sought, BucketOK
    <3>2. FolderInHand(b, n)' \/ Reaches(q, n)
      BY <1>1, <1>3, <1>4, <2>3, <2>4, <3>1, HandedOn
    <3>3. CASE Reaches(q, n)
      <4>1. n = p
        BY <1>2, <3>1, <3>3, ReachesBelow, StrictlyLonger
      <4>2. <<n, "file">> \in group'[b].found
        BY <2>6, <3>1, <4>1
      <4> QED
        BY <1>1, <1>4, <4>2 DEF FolderInHand
    <3> QED
      BY <3>2, <3>3
  <2> QED
    BY <1>1, <1>4, <1>5, <2>7, <2>8 DEF Sought
<1> HIDE DEF E, T, q
<1> QED
  BY <1>1, <1>4, <1>6, ExpandHonest

\* The failed request for a path is passed over: only the path itself is no longer sought.
LEMMA InfoFailsHonest ==
  ASSUME World, NEW b \in Groups, Honest(b), InfoFails(b)
  PROVE  Honest(b)'
<1> DEFINE q == First(b)
           p == q.name
           T == Tail(group[b].todo)
           U == {p}
           none == {}
<1>1. PICK X : /\ Passes(b, FileEntries(X), U)
               /\ \/ Heard(b) /\ X = {}
                  \/ ~Hns(b) /\ rmCall.recursive /\ X = FlatBelow(b)
  BY NoEntries DEF InfoFails
<1> DEFINE E == FileEntries(X)
<1>2. /\ Expanding(b, FALSE) /\ BucketsStay /\ rmFaults' = rmFaults + 1 /\ At(b, "expand")
      /\ Expands(b, E, T, none, none, U)
  BY <1>1 DEF InfoFails, Heard, Expanding, Passes
<1>3. ~Undisturbed' /\ q \in PathRecs /\ ~q.star /\ p \in Names
  BY <1>2, FaultCounted, PathFacts DEF First
<1>d. none = {} /\ U = {p} /\ (X = {} => E = {}) /\ \A n \in X : <<n, "file">> \in E
  BY DEF FileEntries
<1> HIDE DEF none, E, U
<1>4. /\ group'[b].found = group[b].found \cup E /\ group'[b].todo = T /\ group'[b].asked = {}
      /\ group'[b].unsure = group[b].unsure \cup {p}
  BY <1>2, <1>d, GroupFacts, ExpandsMeans
<1>5. rmCall' = rmCall /\ UNCHANGED <<objects, folders, created>> /\ Hns(b)' = Hns(b)
  BY <1>2, SameScope DEF BucketsStay
<1>6. /\ Staying(b, objects)' = Staying(b, objects) \ {p}
      /\ Staying(b, folders)' = Staying(b, folders) \ {p}
  BY <1>4, <1>5, SameScope DEF Staying
<1>7. ASSUME Unbounded PROVE Sought(b)'
  <2>1. Sought(b)
    BY <1>2, <1>7 DEF Honest, Thorough, At
  <2>2. group[b].todo \in Seq(PathRecs) /\ group[b].todo # <<>>
    BY <1>2, GroupFacts, FieldsOf DEF Expanding
  <2>3. <<>> \in Seq(PathRecs) /\ group'[b].todo = <<>> \o Tail(group[b].todo)
    BY <1>4, <2>2, NothingBefore
  <2>4. group[b].found \subseteq group'[b].found
    BY <1>4
  <2>5. Hns(b) => group[b].asked = {"objects", "folders"} /\ X = {}
    BY <1>1, <1>7 DEF Heard, Listings, Unbounded
  <2>6. ~Hns(b) => Under(p, objects[b]) \subseteq X
    <3>1. FindObjects(b, q) = IF Under(p, objects[b]) # {} THEN Under(p, objects[b]) ELSE objects[b] \cap {p}
      BY <1>2, <1>7, Depthless DEF FindObjects, AllObjects
    <3> QED
      BY <1>1, <3>1 DEF FlatBelow, Heard
  <2>7. ASSUME NEW n \in Staying(b, objects)' PROVE ObjectInHand(b, n)'
    <3>1. ObjectInHand(b, n) /\ n \in objects[b] /\ n \in Names /\ n # p
      BY <1>6, <2>1, StayingNames DEF Sought
    <3>2. \/ ObjectInHand(b, n)'
          \/ Reaches(q, n) /\ (Hns(b) => "objects" \notin group[b].asked \/ n = p)
      BY <1>2, <1>4, <1>5, <2>3, <2>4, <3>1, HandedOn
    <3>3. CASE ~Hns(b) /\ Reaches(q, n)
      <4>1. n \in X
        BY <1>3, <2>6, <3>1, <3>3, ReachesBelow DEF Under
      <4> QED
        BY <1>4, <1>d, <4>1 DEF ObjectInHand
    <3> QED
      BY <2>5, <3>1, <3>2, <3>3
  <2>8. ASSUME NEW n \in Staying(b, folders)' PROVE FolderInHand(b, n)'
    <3>1. FolderInHand(b, n) /\ n \in Names /\ n \in folders[b] /\ n # p
      BY <1>6, <2>1, StayingNames DEF Sought
    <3>2. \/ FolderInHand(b, n)'
          \/ Reaches(q, n) /\ (Hns(b) => "folders" \notin group[b].asked \/ n = Root)
      BY <1>2, <1>4, <1>5, <2>3, <2>4, <3>1, HandedOn
    <3>3. ~Hns(b) => n = Root
      BY <3>1, GroupFacts DEF BucketOK
    <3>4. ~(n = Root /\ Reaches(q, n))
      BY <1>3, <3>1, ReachesBelow, StrictlyLonger
    <3> QED
      BY <2>5, <3>2, <3>3, <3>4
  <2>9. ASSUME Hns(b), NEW d \in NamesOf(group'[b].found, "directory"), NEW n \in Under(d, Staying(b, objects)')
        PROVE  BelowInHand(b, n)'
    <3>1. d \in NamesOf(group[b].found, "directory") /\ n \in Under(d, Staying(b, objects))
      BY <1>4, <1>6, <1>d, <2>5, <2>9 DEF Under
    <3>2. BelowInHand(b, n)
      BY <2>1, <2>9, <3>1 DEF Sought
    <3>3. BelowInHand(b, n)' \/ "objects" \notin group[b].asked
      BY <1>2, <1>4, <1>5, <2>3, <2>4, <3>2, HandedOn
    <3> QED
      BY <2>5, <2>9, <3>3
  <2>10. Hns(b) => <<Root, "file">> \notin group'[b].found
    BY <1>4, <1>d, <2>1, <2>5 DEF Sought
  <2> QED
    BY <1>4, <1>5, <2>7, <2>8, <2>9, <2>10 DEF Sought
<1> HIDE DEF T, q
<1> QED
  BY <1>2, <1>3, <1>7, ExpandHonest

\* The name one part longer than p on the way to n.
LEMMA NextPart ==
  ASSUME NEW p \in Names, NEW n \in Names, IsStrictPrefix(p, n)
  PROVE  \E c \in Names : /\ Len(c) = Len(p) + 1 /\ IsStrictPrefix(p, c) /\ IsPrefix(c, n) /\ c # Root
                          /\ c = n \/ c \in Ancestors(n)
<1>1. /\ Len(p) \in Nat /\ Len(n) \in Nat /\ Len(p) < Len(n)
      /\ IsPrefix(p, n) /\ \A i \in 1..Len(p) : p[i] = n[i]
  BY StrictlyLonger, BeginsWith DEF Names, IsStrictPrefix
<1> DEFINE k == Len(p) + 1
           c == SubSeq(n, 1, k)
<1>2. c \in Names /\ Len(c) = k /\ \A i \in 1..k : c[i] = n[i]
  <2>1. n \in Seq(Parts) /\ k \in 1..Len(n)
    BY <1>1 DEF Names
  <2> HIDE DEF k
  <2> QED
    BY <2>1 DEF Names
<1> HIDE DEF c
<1>3. IsPrefix(c, n)
  BY <1>1, <1>2, BeginsWith
<1>4. IsPrefix(p, c) /\ p # c
  BY <1>1, <1>2, BeginsWith
<1>5. IsStrictPrefix(p, c)
  BY <1>4 DEF IsStrictPrefix
<1>6. c # Root
  BY <1>2, <1>5, StrictlyLonger
<1>7. c = n \/ c \in Ancestors(n)
  BY <1>2, <1>3, AncestorMeans DEF IsStrictPrefix
<1> QED
  BY <1>2, <1>3, <1>5, <1>6, <1>7

\* A pattern shows the directory on the way to an object, or the object itself.
LEMMA MatchForObject ==
  ASSUME World, NEW b \in Groups, NEW p \in Names, NEW n \in objects[b], IsStrictPrefix(p, Of(n))
  PROVE  \/ \E c \in Children(p, ShownDirs(b)) : IsPrefix(c, Of(n)) /\ IsPrefix(c, n) /\ c \in Names
         \/ n \in Children(p, objects[b])
<1>1. n \in Names /\ n # Root /\ Of(n) \in Names /\ \A d \in Ancestors(n) : d \in Names /\ ~IsMarker(d)
  BY GroupFacts, ObjectNamesAre, StandsFor DEF BucketOK
<1>2. PICK c \in Names : /\ Len(c) = Len(p) + 1 /\ IsStrictPrefix(p, c) /\ IsPrefix(c, Of(n)) /\ c # Root
                         /\ c = Of(n) \/ c \in Ancestors(Of(n))
  BY <1>1, NextPart
<1>3. c \in Ancestors(n) \/ (c = n /\ ~IsMarker(n))
  <2>1. CASE IsMarker(n)
    BY <1>1, <1>2, <2>1, ParentsAbove, AncestorsAbove DEF Of
  <2>2. CASE ~IsMarker(n)
    BY <1>2, <2>2 DEF Of
  <2> QED
    BY <2>1, <2>2
<1>4. CASE c \in Ancestors(n)
  <2>1. c \in ShownDirs(b)
    BY <1>2, <1>4, GroupFacts DEF ShownDirs, BucketOK
  <2>2. c \in Children(p, ShownDirs(b))
    BY <1>1, <1>2, <1>4, <2>1 DEF Children, Under
  <2> QED
    BY <1>1, <1>2, <2>2, StandsFor
<1>5. CASE c = n /\ ~IsMarker(n)
  BY <1>2, <1>5 DEF Children, Under
<1> QED
  BY <1>3, <1>4, <1>5

LEMMA MatchForFolder ==
  ASSUME World, NEW b \in Groups, Hns(b), NEW p \in Names, NEW n \in folders[b], IsStrictPrefix(p, n)
  PROVE  \E c \in Children(p, ShownDirs(b)) : IsPrefix(c, n) /\ c \in Names
<1>1. n \in Names /\ ~IsMarker(n) /\ Ancestors(n) \subseteq folders[b] /\ \A d \in folders[b] : ~IsMarker(d)
  BY GroupFacts DEF BucketOK
<1>2. PICK c \in Names : /\ Len(c) = Len(p) + 1 /\ IsStrictPrefix(p, c) /\ IsPrefix(c, n) /\ c # Root
                         /\ c = n \/ c \in Ancestors(n)
  BY <1>1, NextPart
<1> QED
  BY <1>1, <1>2 DEF Children, Under, ShownDirs

LEMMA MissingHonest ==
  ASSUME World, NEW b \in Groups, Honest(b), At(b, "expand"), BucketsStay, UNCHANGED rmFaults,
         GroupEnds(b, "missing")
  PROVE  Honest(b)'
<1>1. DOMAIN group = Groups /\ group[b] \in GroupStates
  BY GroupFacts
<1>2. group'[b].stage = "over" /\ group'[b].ended = "missing"
  BY <1>1, EndsMeans
<1>3. group'[b].gone = group[b].gone /\ group'[b].failed = group[b].failed /\ group'[b].dirs = group[b].dirs
  BY <1>1, EndsMeans
<1>4. Undisturbed' = Undisturbed /\ Unbounded' = Unbounded /\ Hns(b)' = Hns(b) /\ UNCHANGED <<rmCall, objects, folders>>
  BY SameFaults, SameScope DEF BucketsStay
<1>5. FlatDirs(b)'
  BY <1>3, <1>4 DEF Honest, FlatDirs
<1>6. Untouched(b)'
  BY <1>4 DEF Honest, Untouched, At
<1>7. Unbounded => Thorough(b)'
  BY <1>2, <1>3, <1>4 DEF Honest, Thorough
<1> QED
  BY <1>4, <1>5, <1>6, <1>7 DEF Honest

\* All of S are among the paths s, each to be expanded for itself.
InTurn(s, S) == \A n \in S : \E i \in DOMAIN s : s[i] = ToExpand(n, FALSE, 0)

\* What a pattern matches is found, and its matches are expanded in turn.
LEMMA GlobSought ==
  ASSUME World, NEW b \in Groups, Honest(b), Expanding(b, TRUE), BucketsStay, group'[b].unsure = group[b].unsure, Unbounded,
         NEW ds, ds = Children(First(b).name, ShownDirs(b)),
         NEW fs, fs = Children(First(b).name, objects[b]) \ ds,
         NEW s \in Seq(PathRecs), InTurn(s, fs \cup ds),
         group'[b].found = group[b].found \cup (FileEntries(fs) \cup DirEntries(ds)),
         Spliced(group'[b].todo, s, group[b].todo), group'[b].asked = {}
  PROVE  Sought(b)'
<1> DEFINE q == First(b)
<1>1. q \in PathRecs /\ q.star /\ q.name \in Names
  BY PathFacts
<1>2. rmCall' = rmCall /\ UNCHANGED <<objects, folders, created>> /\ Hns(b)' = Hns(b)
  BY SameScope DEF BucketsStay
<1>3. Staying(b, objects)' = Staying(b, objects) /\ Staying(b, folders)' = Staying(b, folders)
  BY <1>2, StayingSame
<1>4. Sought(b)
  BY DEF Honest, Thorough, Expanding, At
<1>5. group[b].found \subseteq group'[b].found /\ group'[b].todo = s \o Tail(group[b].todo)
  BY DEF Spliced
<1>6. (\A n \in fs : <<n, "file">> \in group'[b].found) /\ \A n \in ds : <<n, "directory">> \in group'[b].found
  BY DEF FileEntries, DirEntries
<1>7. group[b].todo \in Seq(PathRecs) /\ group[b].todo # <<>>
  BY GroupFacts, FieldsOf DEF Expanding
<1>8. \A n \in fs \cup ds : \E j \in DOMAIN group'[b].todo : group'[b].todo[j] = ToExpand(n, FALSE, 0)
  <2> DEFINE t == group[b].todo
             u == group'[b].todo
  <2>1. Spliced(u, s, t)
    OBVIOUS
  <2> HIDE DEF t, u
  <2>2. \A j \in DOMAIN s : j \in DOMAIN u /\ u[j] = s[j]
    BY <1>7, <2>1, LaterPaths DEF t
  <2> QED
    BY <2>2 DEF u, InTurn
<1>9. \A j, what : Awaits(b, j, what)'
  BY DEF Awaits
<1>10. ASSUME NEW c \in ds, NEW n, IsPrefix(c, Of(n)) PROVE ObjectInHand(b, n)'
  <2>1. PICK j \in DOMAIN group'[b].todo : group'[b].todo[j] = ToExpand(c, FALSE, 0)
    BY <1>8
  <2>2. Reaches(group'[b].todo[j], n)
    BY <1>10, <2>1 DEF Reaches, ToExpand
  <2> QED
    BY <1>9, <2>1, <2>2 DEF ObjectInHand
<1>11. ASSUME NEW n \in Staying(b, objects) PROVE ObjectInHand(b, n)'
  <2>1. ObjectInHand(b, n) /\ n \in objects[b]
    BY <1>4, StayingNames DEF Sought
  <2>2. ObjectInHand(b, n)' \/ Reaches(q, n)
    BY <1>2, <1>5, <2>1, HandedOn
  <2>3. CASE Reaches(q, n)
    <3>1. IsStrictPrefix(q.name, Of(n))
      BY <1>1, <2>3 DEF Reaches
    <3>2. (\E c \in ds : IsPrefix(c, Of(n))) \/ n \in fs \cup ds
      BY <1>1, <2>1, <3>1, MatchForObject
    <3>3. CASE n \in fs \cup ds
      BY <1>6, <3>3 DEF ObjectInHand
    <3> QED
      BY <1>10, <3>2, <3>3
  <2> QED
    BY <2>2, <2>3
<1>12. ASSUME NEW n \in Staying(b, folders) PROVE FolderInHand(b, n)'
  <2>1. FolderInHand(b, n) /\ n \in folders[b] /\ n \in Names /\ Of(n) = n
    BY <1>4, StayingNames, StandsFor DEF Sought
  <2>2. FolderInHand(b, n)' \/ Reaches(q, n)
    BY <1>2, <1>5, <2>1, HandedOn
  <2>3. CASE Reaches(q, n)
    <3>1. IsStrictPrefix(q.name, n)
      BY <1>1, <2>1, <2>3 DEF Reaches
    <3>2. Hns(b)
      <4>1. n # Root
        BY <1>1, <2>1, <3>1, StrictlyLonger
      <4> QED
        BY <2>1, <4>1, GroupFacts DEF BucketOK
    <3>3. PICK c \in ds : IsPrefix(c, n)
      BY <1>1, <2>1, <3>1, <3>2, MatchForFolder
    <3>4. PICK j \in DOMAIN group'[b].todo : group'[b].todo[j] = ToExpand(c, FALSE, 0)
      BY <1>8
    <3>5. Reaches(group'[b].todo[j], n)
      BY <2>1, <3>3, <3>4 DEF Reaches, ToExpand
    <3> QED
      BY <1>9, <3>4, <3>5 DEF FolderInHand
  <2> QED
    BY <2>2, <2>3
<1>13. ASSUME Hns(b), NEW d \in NamesOf(group'[b].found, "directory"), NEW n \in Under(d, Staying(b, objects))
       PROVE  BelowInHand(b, n)'
  <2>1. CASE d \in NamesOf(group[b].found, "directory")
    <3>1. BelowInHand(b, n)
      BY <1>4, <1>13, <2>1 DEF Sought
    <3>2. BelowInHand(b, n)' \/ ~q.star
      BY <1>2, <1>5, <3>1, HandedOn
    <3> QED
      BY <1>1, <3>2
  <2>2. CASE d \in ds
    <3>1. PICK j \in DOMAIN group'[b].todo : group'[b].todo[j] = ToExpand(d, FALSE, 0)
      BY <1>8, <2>2
    <3>2. IsStrictPrefix(d, n)
      BY DEF Under
    <3>3. ~group'[b].todo[j].star /\ group'[b].todo[j].name = d
      BY <3>1 DEF ToExpand
    <3> QED
      BY <1>9, <3>2, <3>3 DEF BelowInHand
  <2>3. d \in NamesOf(group[b].found, "directory") \/ d \in ds
    BY DEF NamesOf, FileEntries, DirEntries
  <2> QED
    BY <2>1, <2>2, <2>3
<1>14. Hns(b) => <<Root, "file">> \notin group'[b].found
  <2>1. Root \notin objects[b]
    BY GroupFacts, ObjectNamesAre DEF BucketOK
  <2>2. <<Root, "file">> \notin FileEntries(fs) \cup DirEntries(ds)
    BY <2>1 DEF FileEntries, DirEntries, Children, Under
  <2> QED
    BY <1>4, <2>2 DEF Sought
<1> QED
  BY <1>2, <1>3, <1>11, <1>12, <1>13, <1>14 DEF Sought

LEMMA GlobHonest ==
  ASSUME World, NEW b \in Groups, Honest(b), Glob(b)
  PROVE  Honest(b)'
<1> DEFINE q == First(b)
           ds == Children(q.name, ShownDirs(b))
           fs == Children(q.name, objects[b]) \ ds
           deeper == IF q.depth = 0 THEN 0 ELSE q.depth - 1
           E == FileEntries(fs) \cup DirEntries(ds)
           rest == {ToExpand(n, FALSE, deeper) : n \in fs \cup ds}
           T == Tail(group[b].todo)
           none == {}
<1>1. Expanding(b, TRUE) /\ BucketsStay /\ UNCHANGED rmFaults /\ At(b, "expand")
  BY DEF Glob, Expanding
<1>f. Undisturbed' => Undisturbed
  BY <1>1, SameFaults DEF BucketsStay
<1>2. \/ (~rmCall.recursive \/ q.depth = 1) /\ Expands(b, E, T, none, none, none)
      \/ GroupEnds(b, "missing")
      \/ rmCall.recursive /\ q.depth # 1 /\ Expands(b, E, SetToSeq(rest) \o T, none, none, none)
  BY DEF Glob, Finds, Passes
<1>3. ds = Children(First(b).name, ShownDirs(b)) /\ fs = Children(First(b).name, objects[b]) \ ds
  OBVIOUS
<1>4. IsFiniteSet(fs) /\ IsFiniteSet(ds)
  <2> HIDE DEF q, ds, fs
  <2> QED
    BY <1>1, GlobExpands DEF q, ds, fs
<1>5. rmCall.recursive /\ q.depth # 1 => \A n \in fs \cup ds : ToExpand(n, FALSE, deeper) \in PathRecs
  BY <1>1, GlobExpands
<1>6. Unbounded => rmCall.recursive /\ q.depth = 0 /\ deeper = 0
  BY <1>1, Depthless
<1>7. E = FileEntries(fs) \cup DirEntries(ds) /\ rest = {ToExpand(n, FALSE, deeper) : n \in fs \cup ds}
  OBVIOUS
<1>d. none = {}
  OBVIOUS
<1> HIDE DEF q, ds, fs, deeper, E, rest, T, none
<1>8. CASE (~rmCall.recursive \/ q.depth = 1) /\ Expands(b, E, T, none, none, none)
  BY <1>1, <1>f, <1>6, <1>8, ExpandHonest
<1>9. CASE GroupEnds(b, "missing")
  BY <1>1, <1>9, MissingHonest
<1>10. CASE rmCall.recursive /\ q.depth # 1 /\ Expands(b, E, SetToSeq(rest) \o T, none, none, none)
  <2> DEFINE s == SetToSeq(rest)
  <2>1. IsFiniteSet(rest)
    <3>1. IsFiniteSet(fs \cup ds)
      BY <1>4, FS_Union
    <3>2. [n \in fs \cup ds |-> ToExpand(n, FALSE, deeper)] \in Surjection(fs \cup ds, rest)
      BY <1>7 DEF Surjection
    <3> QED
      BY <3>1, <3>2, FS_Surjection
  <2>2. s \in Seq(rest) /\ \A x \in rest : \E i \in DOMAIN s : s[i] = x
    BY <2>1, SetToSeqIs
  <2>3. s \in Seq(PathRecs)
    <3>1. rest \subseteq PathRecs
      BY <1>5, <1>7, <1>10
    <3> QED
      BY <2>2, <3>1, SeqMonotonic
  <2> DEFINE u == s \o T
  <2>4. Expands(b, E, u, none, none, none)
    BY <1>10
  <2> HIDE DEF s, u
  <2>5. group'[b].found = group[b].found \cup E /\ group'[b].todo = u /\ group'[b].asked = {}
    BY <1>d, <2>4, GroupFacts, ExpandsMeans
  <2>6. ASSUME Unbounded PROVE Sought(b)'
    <3>1. InTurn(s, fs \cup ds)
      BY <1>6, <1>7, <2>2, <2>6 DEF InTurn
    <3>2. /\ group'[b].found = group[b].found \cup (FileEntries(fs) \cup DirEntries(ds))
          /\ Spliced(group'[b].todo, s, group[b].todo)
      BY <1>7, <2>5 DEF T, u, Spliced
    <3> QED
      BY <1>1, <1>3, <2>3, <2>5, <2>6, <3>1, <3>2, UnsureStays, GlobSought
  <2> QED
    BY <1>1, <1>f, <2>4, <2>6, ExpandHonest
<1> QED
  BY <1>2, <1>8, <1>9, <1>10

-----------------------------------------------------------------------------
(* All that was found is deleted, unless the group says otherwise.          *)

LEMMA AllFound ==
  ASSUME World, NEW b \in Groups, Honest(b), Unbounded, At(b, "expand"), group[b].todo = <<>>
  PROVE  Staying(b, objects) \subseteq FileNames(b) /\ Staying(b, folders) \subseteq DirNames(b)
<1>1. Sought(b)
  BY DEF Honest, Thorough, At
<1>2. \A i \in DOMAIN group[b].todo : FALSE
  OBVIOUS
<1>3. \A n \in Staying(b, objects) : <<n, "file">> \in group[b].found \/ <<n, "directory">> \in group[b].found
  BY <1>1, <1>2 DEF Sought, ObjectInHand
<1>4. \A n \in Staying(b, folders) : <<n, IF Hns(b) THEN "directory" ELSE "file">> \in group[b].found
  BY <1>1, <1>2 DEF Sought, FolderInHand
<1>5. Hns(b) => \A d \in NamesOf(group[b].found, "directory") : \A n \in Under(d, Staying(b, objects)) : <<n, "file">> \in group[b].found
  BY <1>1, <1>2 DEF Sought, BelowInHand
<1>6. \A n, type : <<n, type>> \in group[b].found => n \in NamesOf(group[b].found, type)
  <2>1. \A n, type : <<n, type>>[1] = n /\ <<n, type>>[2] = type
    OBVIOUS
  <2> QED
    BY <2>1 DEF NamesOf
<1>7. \A n \in Staying(b, objects) : n \in Names /\ n # Root
  BY StayingNames
<1>8. CASE Hns(b)
  <2>1. DirNames(b) = NamesOf(group[b].found, "directory") /\ FileNames(b) = NamesOf(group[b].found, "file") \cup Hidden(b)
    BY <1>8 DEF DirNames, FileNames
  <2>2. ASSUME NEW n \in Staying(b, objects), <<n, "file">> \notin group[b].found PROVE n \in Hidden(b)
    <3>1. n \in DirNames(b) \ {Root}
      BY <1>3, <1>6, <1>7, <2>1, <2>2
    <3>2. Front(n) \in Names /\ IsStrictPrefix(Front(n), n)
      BY <1>7, Fronts, FrontBegins, BeginsWithItself
    <3>3. Front(n) \notin DirNames(b)
      BY <1>5, <1>8, <2>1, <2>2, <3>2 DEF Under
    <3> QED
      BY <3>1, <3>3 DEF Hidden
  <2>3. Staying(b, objects) \subseteq FileNames(b)
    BY <1>6, <2>1, <2>2
  <2>4. Staying(b, folders) \subseteq DirNames(b)
    BY <1>4, <1>6, <1>8, <2>1
  <2> QED
    BY <2>3, <2>4
<1>9. CASE ~Hns(b)
  <2>1. Staying(b, objects) \subseteq FileNames(b)
    <3>1. \A n, type : <<n, type>> \in group[b].found => n \in {e[1] : e \in group[b].found}
      <4>1. \A n, type : <<n, type>>[1] = n
        OBVIOUS
      <4> QED
        BY <4>1
    <3> QED
      BY <1>3, <1>7, <1>9, <3>1 DEF FileNames
  <2>2. \A n \in Staying(b, folders) : n = Root
    BY <1>9, StayingNames, GroupFacts DEF BucketOK
  <2>3. Staying(b, folders) \subseteq DirNames(b)
    BY <1>4, <1>6, <1>9, <2>2 DEF DirNames
  <2> QED
    BY <2>1, <2>3
<1> QED
  BY <1>8, <1>9

LEMMA ExpandedHonest ==
  ASSUME World, NEW b \in Groups, Honest(b), Expanded(b)
  PROVE  Honest(b)'
<1>1. At(b, "expand") /\ group[b].todo = <<>> /\ GroupOnly
  BY DEF Expanded
<1>2. CASE group[b].found = {}
  BY <1>1, <1>2, MissingHonest DEF Expanded, GroupOnly
<1>3. CASE group[b].found # {}
  <2>1. DOMAIN group = Groups /\ group[b] \in GroupStates
    BY GroupFacts
  <2>2. /\ group'[b].stage = "files" /\ group'[b].ended = group[b].ended
        /\ group'[b].jobs = Batches(FileNames(b)) /\ group'[b].dirs = DirNames(b)
    BY <1>3, <2>1, ExpandedMeans
  <2>3. group'[b].gone = group[b].gone /\ group'[b].failed = group[b].failed
    BY <1>3, <2>1, ExpandedMeans
  <2>4. /\ Undisturbed' = Undisturbed /\ Unbounded' = Unbounded /\ Hns(b)' = Hns(b)
        /\ UNCHANGED <<rmCall, objects, folders, created>>
    BY <1>1, SameFaults, SameScope DEF GroupOnly, BucketsStay
  <2>5. Staying(b, objects)' = Staying(b, objects) /\ Staying(b, folders)' = Staying(b, folders)
    BY <2>4, UnsureStays, StayingSame
  <2>6. FlatDirs(b)'
    BY <2>2, <2>4, FoundNames DEF FlatDirs
  <2>7. Untouched(b)'
    BY <1>1, <2>2, <2>3, <2>4 DEF Honest, Untouched, At
  <2>8. ASSUME Unbounded PROVE Thorough(b)'
    <3>1. Staying(b, objects) \subseteq FileNames(b) /\ Staying(b, folders) \subseteq DirNames(b)
      BY <1>1, <2>8, AllFound
    <3>2. \A n \in FileNames(b) : \E job \in Batches(FileNames(b)) : n \in job.left
      BY FoundNames, BatchesAre
    <3>3. group[b].ended = "no" /\ group'[b].ended = "no"
      BY <1>1, <2>2 DEF At
    <3>4. \A n \in Staying(b, objects) : \E job \in group'[b].jobs : n \in job.left
      BY <2>2, <3>1, <3>2
    <3>5. Staying(b, folders) \subseteq group'[b].dirs
      BY <2>2, <3>1
    <3>6. Undisturbed => ~group'[b].failed
      BY <2>3, <2>8 DEF Honest, Thorough
    <3> QED
      BY <2>2, <2>4, <2>5, <3>3, <3>4, <3>5, <3>6 DEF Thorough
  <2> QED
    BY <2>4, <2>6, <2>7, <2>8 DEF Honest
<1> QED
  BY <1>2, <1>3

LEMMA ExpansionFailsHonest ==
  ASSUME World, NEW b \in Groups, Honest(b), ExpansionFails(b)
  PROVE  Honest(b)'
<1>1. GroupEnds(b, "error") /\ ~Undisturbed' /\ rmCall' = rmCall
  BY FaultCounted DEF ExpansionFails, BucketsStay
<1>2. group'[b].stage = "over" /\ group'[b].ended = "error" /\ group'[b].dirs = group[b].dirs
  BY <1>1, GroupFacts, EndsMeans
<1>3. Hns(b)' = Hns(b)
  BY <1>1, SameScope
<1> QED
  BY <1>1, <1>2, <1>3 DEF Honest, FlatDirs, Untouched, Thorough

LEMMA FilesDoneHonest ==
  ASSUME World, NEW b \in Groups, Honest(b), FilesDone(b)
  PROVE  Honest(b)'
<1>1. At(b, "files") /\ group[b].jobs = {} /\ GroupOnly /\ group' = [group EXCEPT ![b].stage = "dirs"]
  BY DEF FilesDone
<1>2. DOMAIN group = Groups /\ group[b] \in GroupStates
  BY GroupFacts
<1>3. /\ group'[b].stage = "dirs" /\ group'[b].ended = group[b].ended /\ group'[b].dirs = group[b].dirs
      /\ group'[b].gone = group[b].gone /\ group'[b].failed = group[b].failed
  BY <1>1, <1>2, FilesDoneMeans
<1>4. /\ Undisturbed' = Undisturbed /\ Unbounded' = Unbounded /\ Hns(b)' = Hns(b)
      /\ UNCHANGED <<rmCall, objects, folders, created>>
  BY <1>1, SameFaults, SameScope DEF GroupOnly, BucketsStay
<1>5. Staying(b, objects)' = Staying(b, objects) /\ Staying(b, folders)' = Staying(b, folders)
  BY <1>4, UnsureStays, StayingSame
<1>6. FlatDirs(b)' /\ Untouched(b)'
  BY <1>1, <1>3, <1>4 DEF Honest, FlatDirs, Untouched, At
<1>7. ASSUME Unbounded PROVE Thorough(b)'
  BY <1>1, <1>3, <1>4, <1>5, <1>7 DEF Honest, Thorough, At
<1> QED
  BY <1>4, <1>6, <1>7 DEF Honest

LEMMA GroupOverHonest ==
  ASSUME World, NEW b \in Groups, Honest(b), GroupOver(b)
  PROVE  Honest(b)'
<1> DEFINE how == IF group[b].failed THEN "error" ELSE IF ~Hns(b) /\ group[b].gone = {} THEN "missing" ELSE "done"
<1>1. At(b, "dirs") /\ group[b].dirs = {} /\ GroupOnly /\ GroupEnds(b, how)
  BY DEF GroupOver
<1>2. DOMAIN group = Groups /\ group[b] \in GroupStates
  BY GroupFacts
<1>3. group'[b].stage = "over" /\ group'[b].ended = how
  <2> HIDE DEF how
  <2> QED
    BY <1>1, <1>2, EndsMeans
<1>4. group'[b].gone = group[b].gone /\ group'[b].failed = group[b].failed /\ group'[b].dirs = group[b].dirs
  <2> HIDE DEF how
  <2> QED
    BY <1>1, <1>2, EndsMeans
<1>5. /\ Undisturbed' = Undisturbed /\ Unbounded' = Unbounded /\ Hns(b)' = Hns(b)
      /\ UNCHANGED <<rmCall, objects, folders, created>>
  BY <1>1, SameFaults, SameScope DEF GroupOnly, BucketsStay
<1>6. Staying(b, objects)' = Staying(b, objects) /\ Staying(b, folders)' = Staying(b, folders)
  BY <1>5, UnsureStays, StayingSame
<1>7. FlatDirs(b)' /\ Untouched(b)'
  BY <1>1, <1>3, <1>4, <1>5 DEF Honest, FlatDirs, Untouched
<1>8. ASSUME Unbounded PROVE Thorough(b)'
  BY <1>1, <1>3, <1>4, <1>5, <1>6, <1>8 DEF Honest, Thorough, At
<1> QED
  BY <1>5, <1>7, <1>8 DEF Honest

LEMMA AnswersFail ==
  ASSUME World, NEW b \in Groups, NEW job, NEW o, Answers(b, job, o)
  PROVE  group'[b].failed <=> group[b].failed \/ Faulty(o) \ Again(job, o) # {}
<1>1. DOMAIN group = Groups /\ group[b] \in GroupStates
  BY GroupFacts
<1> DEFINE J == (group[b].jobs \ {job}) \cup Retried(job, o)
           G == group[b].gone \cup FileEntries(Clean(job, o) \cap objects[b])
           f == group[b].failed \/ Faulty(o) \ Again(job, o) # {}
<1>2. group' = [group EXCEPT ![b].jobs = J, ![b].gone = G, ![b].failed = f]
  BY DEF Answers
<1>3. f \in BOOLEAN
  OBVIOUS
<1> HIDE DEF J, G, f
<1>4. group'[b].failed = f
  BY <1>1, <1>2 DEF GroupStates
<1> QED
  BY <1>3, <1>4 DEF f

LEMMA SendBatchHonest ==
  ASSUME World, NEW b \in Groups, Honest(b), NEW job \in group[b].jobs, SendBatch(b, job)
  PROVE  Honest(b)'
<1>1. PICK o : Answers(b, job, o)
  BY SendBatchMeans
<1>2. /\ At(b, "files") /\ o \in [job.left -> {"clean", "busy", "busyDone", "denied"}]
      /\ rmFaults' = rmFaults + Cardinality(Faulty(o))
      /\ objects'[b] = objects[b] \ Deleted(job, o) /\ UNCHANGED <<rmCall, folders, created>>
  BY <1>1, GroupFacts DEF Answers, RmShape
<1>3. group'[b].jobs = (group[b].jobs \ {job}) \cup Retried(job, o)
  BY <1>1, AnswersJobs
<1>4. /\ group'[b].gone = group[b].gone \cup FileEntries(Clean(job, o) \cap objects[b])
      /\ group'[b].stage = group[b].stage /\ group'[b].ended = group[b].ended /\ group'[b].dirs = group[b].dirs
      /\ group'[b].unsure = group[b].unsure
  BY <1>1, AnswersMean
<1>5. group'[b].failed <=> group[b].failed \/ Faulty(o) \ Again(job, o) # {}
  BY <1>1, AnswersFail
<1>6. Hns(b)' = Hns(b) /\ Unbounded' = Unbounded /\ Groups' = Groups
  BY <1>2, SameScope DEF Unbounded
<1>7. Undisturbed' => Undisturbed /\ Faulty(o) = {}
  <2>1. Cardinality(Faulty(o)) \in Nat /\ (Cardinality(Faulty(o)) = 0 => Faulty(o) = {})
    BY <1>2, GroupFacts, FaultyFinite DEF Sizes
  <2>2. rmFaults \in Nat
    BY GroupFacts DEF RmShape
  <2>3. Undisturbed' => rmFaults' = 0 /\ \A c \in Groups : created[c] = {}
    BY <1>2, <1>6 DEF Undisturbed
  <2>4. rmFaults' = 0 => rmFaults = 0 /\ Cardinality(Faulty(o)) = 0
    BY <1>2, <2>1, <2>2
  <2> QED
    BY <2>1, <2>3, <2>4 DEF Undisturbed
<1>8. FlatDirs(b)'
  BY <1>4, <1>6 DEF Honest, FlatDirs
<1>9. ASSUME Undisturbed', Clean(job, o) \cap objects[b] = {} PROVE objects'[b] = objects[b]
  BY <1>2, <1>7, <1>9 DEF Clean, Deleted
<1>10. FileEntries(Clean(job, o) \cap objects[b]) = {} => Clean(job, o) \cap objects[b] = {}
  BY DEF FileEntries
<1>11. Untouched(b)'
  <2> SUFFICES ASSUME Undisturbed', ~Hns(b), group'[b].gone = {}
               PROVE  objects'[b] = rmCall.objects[b] /\ folders'[b] = rmCall.folders[b]
    BY <1>2, <1>4, <1>6 DEF Untouched, At
  <2>1. group[b].gone = {} /\ Clean(job, o) \cap objects[b] = {}
    BY <1>4, <1>10
  <2> QED
    BY <1>2, <1>7, <1>9, <2>1 DEF Honest, Untouched
<1>12. Staying(b, objects)' = Staying(b, objects) \ Deleted(job, o) /\ Staying(b, folders)' = Staying(b, folders)
  BY <1>2, <1>4, SameScope DEF Staying
<1>13. ASSUME Unbounded PROVE Thorough(b)'
  <2>1. Thorough(b)
    BY <1>13 DEF Honest
  <2>2. group[b].stage = "files" /\ group[b].ended = "no"
    BY <1>2 DEF At
  <2>3. ASSUME ~group'[b].failed, NEW n \in Staying(b, objects), n \notin Deleted(job, o)
        PROVE  \E new \in group'[b].jobs : n \in new.left
    <3>1. ~group[b].failed /\ Faulty(o) \subseteq Again(job, o)
      BY <1>5, <2>3
    <3>2. PICK old \in group[b].jobs : n \in old.left
      BY <2>1, <2>2, <3>1 DEF Thorough
    <3>3. CASE old # job
      BY <1>3, <3>2, <3>3
    <3>4. CASE old = job
      <4>1. n \in Faulty(o)
        BY <1>2, <2>3, <3>2, <3>4 DEF Faulty, Deleted
      <4>2. n \in Again(job, o)
        BY <3>1, <4>1
      <4>3. [left |-> Again(job, o), sent |-> job.sent + 1] \in group'[b].jobs
        BY <1>3, <4>2 DEF Retried
      <4>4. [left |-> Again(job, o), sent |-> job.sent + 1].left = Again(job, o)
        OBVIOUS
      <4> QED
        BY <4>2, <4>3, <4>4
    <3> QED
      BY <3>3, <3>4
  <2>4. ~group'[b].failed => Staying(b, folders)' \subseteq group'[b].dirs
    BY <1>4, <1>5, <1>12, <2>1, <2>2 DEF Thorough
  <2>5. Undisturbed' => ~group'[b].failed
    BY <1>5, <1>7, <2>1 DEF Thorough
  <2> QED
    BY <1>4, <1>12, <2>2, <2>3, <2>4, <2>5 DEF Thorough
<1> QED
  BY <1>6, <1>8, <1>11, <1>13 DEF Honest

\* A step that fails says so, and no more is claimed.
LEMMA FailedHonest ==
  ASSUME NEW b, Honest(b), ~Undisturbed', rmCall' = rmCall, group'[b].failed,
         group'[b].stage = group[b].stage, group'[b].ended = "no", group'[b].stage # "expand", group'[b].dirs \subseteq group[b].dirs
  PROVE  Honest(b)'
<1>1. Hns(b)' = Hns(b)
  BY SameScope
<1> QED
  BY <1>1 DEF Honest, FlatDirs, Untouched, Thorough

LEMMA BatchFailsHonest ==
  ASSUME World, NEW b \in Groups, Honest(b), NEW job \in group[b].jobs, BatchFails(b, job)
  PROVE  Honest(b)'
<1>1. rmCall' = rmCall /\ rmFaults' = rmFaults + 1 /\ group'[b].failed
  BY BatchFailsMeans
<1>2. group'[b].stage = group[b].stage /\ group'[b].ended = group[b].ended /\ group'[b].dirs = group[b].dirs
  BY BatchFailsMeans
<1>3. group[b].stage = "files" /\ group[b].ended = "no"
  BY DEF BatchFails, At
<1> QED
  BY <1>1, <1>2, <1>3, FaultCounted, FailedHonest

LEMMA DirectoryFailsHonest ==
  ASSUME World, NEW b \in Groups, Honest(b), NEW d \in group[b].dirs, DirectoryFails(b, d)
  PROVE  Honest(b)'
<1>1. rmCall' = rmCall /\ rmFaults' = rmFaults + 1 /\ DirDone(b, d, TRUE)
  BY DirectoryFailsMeans
<1>2. group'[b].stage = group[b].stage /\ group'[b].ended = group[b].ended /\ group'[b].dirs = group[b].dirs \ {d}
  BY <1>1, DirDoneShape
<1>3. group'[b].failed = (group[b].failed \/ TRUE)
  BY <1>1, DirFailed
<1>4. group[b].stage = "dirs" /\ group[b].ended = "no"
  BY DEF DirectoryFails, At
<1> QED
  BY <1>1, <1>2, <1>3, <1>4, FaultCounted, FailedHonest

LEMMA RemoveMarkerHonest ==
  ASSUME World, NEW b \in Groups, Honest(b), NEW d \in group[b].dirs, RemoveMarker(b, d)
  PROVE  Honest(b)'
<1>1. UNCHANGED <<rmCall, folders, created, rmFaults>> /\ objects'[b] = objects[b] \ {Marker(d)}
  BY RemoveMarkerMeans
<1>2. group'[b].dirs = group[b].dirs /\ group'[b].failed = group[b].failed /\ group'[b].gone = group[b].gone
  BY RemoveMarkerMeans
<1>3. group'[b].stage = group[b].stage /\ group'[b].ended = group[b].ended /\ group'[b].unsure = group[b].unsure
  BY RemoveMarkerMeans
<1>4. group[b].stage = "dirs" /\ group[b].ended = "no" /\ d # Root
  BY DEF RemoveMarker, At, MarkerFirst
<1>5. Undisturbed' = Undisturbed /\ Unbounded' = Unbounded /\ Hns(b)' = Hns(b)
  BY <1>1, SameFaults, SameScope
<1>6. Staying(b, objects)' \subseteq Staying(b, objects) /\ Staying(b, folders)' = Staying(b, folders)
  BY <1>1, <1>3, SameScope DEF Staying
<1>7. Hns(b) /\ FlatDirs(b)'
  BY <1>2, <1>4, <1>5 DEF Honest, FlatDirs
<1>8. Untouched(b)'
  BY <1>3, <1>4, <1>5, <1>7 DEF Untouched
<1>9. Unbounded => Thorough(b)'
  BY <1>2, <1>3, <1>4, <1>5, <1>6 DEF Honest, Thorough
<1> QED
  BY <1>5, <1>7, <1>8, <1>9 DEF Honest

\* A folder of the deepest level is empty: what was below it has gone before.
LEMMA DeepestEmpty ==
  ASSUME World, NEW b \in Groups, Honest(b), Sure(b), Unbounded, Undisturbed, At(b, "dirs"), NEW d \in Level(b)
  PROVE  Empty(b, d)
<1>1. d \in group[b].dirs /\ \A e \in group[b].dirs : Len(e) <= Len(d)
  BY DEF Level
<1>2. d \in Names /\ InScope(b, d) /\ ~IsMarker(d)
  BY <1>1, GroupFacts, FieldsOf DEF Scoped
<1>3. Staying(b, objects) = {} /\ Staying(b, folders) \subseteq group[b].dirs
  BY DEF Honest, Thorough, At
<1>4. /\ created[b] = {} /\ objects[b] \subseteq Before(b) /\ folders[b] \subseteq Before(b)
      /\ group[b].unsure = {}
  BY GroupFacts DEF Undisturbed, BucketOK, Before, Sure
<1>5. ASSUME NEW n \in objects[b], IsStrictPrefix(d, n) PROVE FALSE
  <2>1. n \in Names
    BY GroupFacts, ObjectNamesAre DEF BucketOK
  <2>2. InScope(b, n)
    BY <1>2, <1>5, <2>1, BelowInScope DEF IsStrictPrefix
  <2> QED
    BY <1>3, <1>4, <2>2 DEF Staying
<1>6. ASSUME NEW n \in folders[b], IsStrictPrefix(d, n) PROVE FALSE
  <2>1. n \in Names /\ Len(d) < Len(n)
    BY <1>2, <1>6, GroupFacts, StrictlyLonger DEF BucketOK
  <2>2. InScope(b, n)
    BY <1>2, <1>6, <2>1, BelowInScope DEF IsStrictPrefix
  <2>3. n \in group[b].dirs
    BY <1>3, <1>4, <2>2 DEF Staying
  <2>4. Len(n) <= Len(d) /\ Len(n) \in Nat /\ Len(d) \in Nat
    BY <1>1, <1>2, <2>1, <2>3 DEF Names
  <2> QED
    BY <2>1, <2>4
<1> QED
  BY <1>5, <1>6 DEF Empty, Under

LEMMA RemoveFolderHonest ==
  ASSUME World, NEW b \in Groups, Honest(b), Sure(b), NEW d \in group[b].dirs, RemoveFolder(b, d)
  PROVE  Honest(b)'
<1>1. UNCHANGED <<rmCall, objects, created, rmFaults>>
  BY RemoveFolderMeans
<1>2. group[b].stage = "dirs" /\ group[b].ended = "no" /\ At(b, "dirs") /\ d \in Level(b)
  BY DEF RemoveFolder, At
<1>3. Undisturbed' = Undisturbed /\ Unbounded' = Unbounded /\ Hns(b)' = Hns(b)
  BY <1>1, SameFaults, SameScope
<1>4. /\ group'[b].dirs = group[b].dirs \ {d}
      /\ group'[b].stage = group[b].stage /\ group'[b].ended = group[b].ended
      /\ group'[b].unsure = group[b].unsure
  <2>1. DirDone(b, d, TRUE) \/ DirDone(b, d, FALSE)
    BY RemoveFolderMeans
  <2> QED
    BY <2>1, DirDoneShape
<1>5. FlatDirs(b)'
  BY <1>3, <1>4 DEF Honest, FlatDirs
<1>6. CASE d \in folders[b] /\ Empty(b, d) /\ folders'[b] = folders[b] \ {d} /\ DirDone(b, d, FALSE)
  <2>1. group'[b].gone = group[b].gone \cup DirEntries({d}) /\ group'[b].failed = group[b].failed
    BY <1>6, DirWent
  <2>2. group'[b].gone # {}
    BY <2>1 DEF DirEntries
  <2>3. Staying(b, objects)' = Staying(b, objects) /\ Staying(b, folders)' = Staying(b, folders) \ {d}
    BY <1>1, <1>4, <1>6, SameScope DEF Staying
  <2>4. Untouched(b)'
    BY <1>2, <1>4, <2>2 DEF Untouched
  <2>5. Unbounded => Thorough(b)'
    BY <1>2, <1>3, <1>4, <2>1, <2>3 DEF Honest, Thorough
  <2> QED
    BY <1>3, <1>5, <2>4, <2>5 DEF Honest
<1>7. CASE d \in folders[b] /\ ~Empty(b, d) /\ folders'[b] = folders[b] /\ DirDone(b, d, TRUE)
  <2>1. group'[b].failed = TRUE
    BY <1>7, DirFailed
  <2>2. group'[b].gone = group[b].gone
    BY <1>7, DirFailed
  <2>3. Untouched(b)'
    BY <1>1, <1>2, <1>3, <1>4, <1>7, <2>2 DEF Honest, Untouched
  <2>4. Unbounded => Thorough(b)'
    BY <1>2, <1>3, <1>4, <1>7, <2>1, DeepestEmpty DEF Thorough
  <2> QED
    BY <1>3, <1>5, <2>3, <2>4 DEF Honest
<1>8. CASE d \notin folders[b] /\ folders'[b] = folders[b] /\ DirDone(b, d, FALSE)
  <2>1. group'[b].gone = group[b].gone /\ group'[b].failed = group[b].failed
    BY <1>8, DirWent
  <2>2. Staying(b, objects)' = Staying(b, objects) /\ Staying(b, folders)' = Staying(b, folders) /\ d \notin Staying(b, folders)
    BY <1>1, <1>4, <1>8, SameScope DEF Staying
  <2>3. Untouched(b)'
    BY <1>1, <1>2, <1>3, <1>4, <1>8, <2>1 DEF Honest, Untouched
  <2>4. Unbounded => Thorough(b)'
    BY <1>2, <1>3, <1>4, <2>1, <2>2 DEF Honest, Thorough
  <2> QED
    BY <1>3, <1>5, <2>3, <2>4 DEF Honest
<1> QED
  BY <1>6, <1>7, <1>8, RemoveFolderMeans

LEMMA CreateHonest ==
  ASSUME World, NEW b \in Groups, NEW c \in Groups, Honest(c), NEW n \in CreateNames, Create(b, n)
  PROVE  Honest(c)'
<1>1. UNCHANGED <<rmCall, group, rmFaults>> /\ World' /\ Elsewhere(b)
  BY CreateKept DEF Create
<1>2. /\ objects'[b] = objects[b] \cup {n} /\ created'[b] = created[b] \cup {n} \cup Ancestors(n)
      /\ folders'[b] = folders[b] \cup IF Hns(b) THEN Ancestors(n) ELSE {}
  BY GroupFacts DEF Create, RmShape
<1>3. ~Undisturbed'
  BY <1>1, <1>2, SameScope DEF Undisturbed
<1>4. /\ created[c] \subseteq created'[c]
      /\ objects'[c] \subseteq objects[c] \cup created'[c] /\ folders'[c] \subseteq folders[c] \cup created'[c]
  BY <1>1, <1>2 DEF Elsewhere
<1>5. Staying(c, objects)' \subseteq Staying(c, objects) /\ Staying(c, folders)' \subseteq Staying(c, folders)
  BY <1>1, <1>4, StayingShrinks
<1> QED
  BY <1>1, <1>3, <1>5, HonestIdle

\* Faults and creations only add up.
LEMMA StillUndisturbed ==
  ASSUME World, [RmNext]_rmVars, Undisturbed'
  PROVE  Undisturbed
<1> SUFFICES ASSUME rmFaults \in Nat PROVE Undisturbed
  BY DEF World, RmShape
<1>1. CASE UNCHANGED rmVars
  BY <1>1, SameFaults DEF rmVars
<1>2. ASSUME NEW b \in Groups, Quiet(b) PROVE Undisturbed
  <2>1. CASE ExpansionFails(b) \/ InfoFails(b)
    BY <2>1, FaultCounted DEF ExpansionFails, InfoFails
  <2>2. CASE ~(ExpansionFails(b) \/ InfoFails(b))
    <3>1. BucketsStay /\ UNCHANGED rmFaults
      BY <1>2, <2>2 DEF Quiet, Glob, AskObjects, AskFolders, Hears, AskInfo, ExpandFlat, Expanded, FilesDone, GroupOver,
                        GroupOnly
    <3> QED
      BY <3>1, SameFaults DEF BucketsStay
  <2> QED
    BY <2>1, <2>2
<1>3. ASSUME NEW b \in Groups, NEW n \in CreateNames, Create(b, n) PROVE Undisturbed
  <2>1. created'[b] # {} /\ rmCall' = rmCall
    BY <1>3, GroupFacts DEF Create, RmShape
  <2> QED
    BY <2>1, SameScope DEF Undisturbed
<1>4. ASSUME NEW b \in Groups, NEW job \in group[b].jobs, SendBatch(b, job) PROVE Undisturbed
  <2>1. PICK o : Answers(b, job, o)
    BY <1>4, SendBatchMeans
  <2>2. /\ o \in [job.left -> {"clean", "busy", "busyDone", "denied"}]
        /\ rmFaults' = rmFaults + Cardinality(Faulty(o)) /\ rmCall' = rmCall /\ created' = created
    BY <2>1 DEF Answers
  <2>3. Cardinality(Faulty(o)) \in Nat
    BY <2>2, GroupFacts, FaultyFinite DEF Sizes
  <2>4. rmFaults' = 0 /\ \A c \in Groups : created[c] = {}
    BY <2>2, SameScope DEF Undisturbed
  <2>5. rmFaults = 0
    BY <2>2, <2>3, <2>4
  <2> QED
    BY <2>4, <2>5 DEF Undisturbed
<1>5. ASSUME NEW b \in Groups, NEW job \in group[b].jobs, BatchFails(b, job) PROVE Undisturbed
  BY <1>5, FaultCounted DEF BatchFails
<1>6. ASSUME NEW b \in Groups, NEW d \in group[b].dirs, RemoveMarker(b, d) PROVE Undisturbed
  BY <1>6, SameFaults DEF RemoveMarker
<1>7. ASSUME NEW b \in Groups, NEW d \in group[b].dirs, RemoveFolder(b, d) PROVE Undisturbed
  BY <1>7, SameFaults DEF RemoveFolder
<1>8. ASSUME NEW b \in Groups, NEW d \in group[b].dirs, DirectoryFails(b, d) PROVE Undisturbed
  BY <1>8, FaultCounted DEF DirectoryFails
<1> QED
  BY <1>1, <1>2, <1>3, <1>4, <1>5, <1>6, <1>7, <1>8, RmSteps

LEMMA NextSure ==
  ASSUME World, [RmNext]_rmVars, NEW b \in Groups, Sure(b)
  PROVE  Sure(b)'
<1> SUFFICES ASSUME Undisturbed', ~(group'[b].unsure = group[b].unsure) PROVE FALSE
  BY StillUndisturbed DEF Sure
<1>1. CASE UNCHANGED rmVars
  BY <1>1 DEF rmVars
<1>2. ASSUME NEW c \in Groups, Elsewhere(c) PROVE c = b
  BY <1>2 DEF Elsewhere
<1>3. ASSUME NEW c \in Groups, Quiet(c) PROVE FALSE
  <2>1. c = b
    BY <1>2, <1>3, QuietKept
  <2>2. ~InfoFails(b)
    BY FaultCounted DEF InfoFails
  <2> QED
    BY <1>3, <2>1, <2>2, UnsureStays DEF Quiet
<1>4. ASSUME NEW c \in Groups, NEW n \in CreateNames, Create(c, n) PROVE FALSE
  BY <1>4 DEF Create
<1>5. ASSUME NEW c \in Groups, NEW job \in group[c].jobs, SendBatch(c, job) PROVE FALSE
  <2>1. c = b
    BY <1>2, <1>5, SendBatchKept
  <2>2. \E o : Answers(b, job, o)
    BY <1>5, <2>1, SendBatchMeans
  <2> QED
    BY <2>2, AnswersMean
<1>6. ASSUME NEW c \in Groups, NEW job \in group[c].jobs, BatchFails(c, job) PROVE FALSE
  BY <1>2, <1>6, BatchFailsKept, BatchFailsMeans
<1>7. ASSUME NEW c \in Groups, NEW d \in group[c].dirs, RemoveMarker(c, d) PROVE FALSE
  BY <1>2, <1>7, RemoveMarkerKept, RemoveMarkerMeans
<1>8. ASSUME NEW c \in Groups, NEW d \in group[c].dirs, RemoveFolder(c, d) PROVE FALSE
  BY <1>2, <1>8, RemoveFolderKept, RemoveFolderMeans, DirDoneShape
<1>9. ASSUME NEW c \in Groups, NEW d \in group[c].dirs, DirectoryFails(c, d) PROVE FALSE
  BY <1>9, FaultCounted DEF DirectoryFails
<1> QED
  BY <1>1, <1>3, <1>4, <1>5, <1>6, <1>7, <1>8, <1>9, RmSteps

LEMMA NextHonest ==
  ASSUME World, [RmNext]_rmVars, NEW b \in Groups, Honest(b), Sure(b)
  PROVE  Honest(b)'
<1>1. CASE UNCHANGED rmVars
  <2>1. UNCHANGED <<rmCall, objects, folders, group, created, rmFaults>>
    BY <1>1 DEF rmVars
  <2>2. Staying(b, objects)' \subseteq Staying(b, objects) /\ Staying(b, folders)' \subseteq Staying(b, folders)
    BY <2>1, StayingShrinks
  <2> QED
    BY <2>1, <2>2, StillUndisturbed, HonestIdle
<1>2. ASSUME NEW c \in Groups, Elsewhere(c), c # b PROVE Honest(b)'
  <2>1. /\ rmCall' = rmCall /\ group'[b] = group[b] /\ objects'[b] = objects[b] /\ folders'[b] = folders[b]
        /\ created'[b] = created[b]
    BY <1>2 DEF Elsewhere
  <2>2. Staying(b, objects)' \subseteq Staying(b, objects) /\ Staying(b, folders)' \subseteq Staying(b, folders)
    BY <2>1, StayingShrinks
  <2> QED
    BY <2>1, <2>2, StillUndisturbed, HonestIdle
<1>3. ASSUME NEW c \in Groups, Quiet(c) PROVE Honest(b)'
  <2>1. CASE c = b
    BY <1>3, <2>1, GlobHonest, AskObjectsHonest, AskFoldersHonest, AskInfoHonest, ExpandFlatHonest, InfoFailsHonest,
       ExpandedHonest, ExpansionFailsHonest, FilesDoneHonest, GroupOverHonest DEF Quiet
  <2> QED
    BY <1>2, <1>3, <2>1, QuietKept
<1>4. ASSUME NEW c \in Groups, NEW n \in CreateNames, Create(c, n) PROVE Honest(b)'
  BY <1>4, CreateHonest
<1>5. ASSUME NEW c \in Groups, NEW job \in group[c].jobs, SendBatch(c, job) PROVE Honest(b)'
  BY <1>2, <1>5, SendBatchKept, SendBatchHonest
<1>6. ASSUME NEW c \in Groups, NEW job \in group[c].jobs, BatchFails(c, job) PROVE Honest(b)'
  BY <1>2, <1>6, BatchFailsKept, BatchFailsHonest
<1>7. ASSUME NEW c \in Groups, NEW d \in group[c].dirs, RemoveMarker(c, d) PROVE Honest(b)'
  BY <1>2, <1>7, RemoveMarkerKept, RemoveMarkerHonest
<1>8. ASSUME NEW c \in Groups, NEW d \in group[c].dirs, RemoveFolder(c, d) PROVE Honest(b)'
  BY <1>2, <1>8, RemoveFolderKept, RemoveFolderHonest
<1>9. ASSUME NEW c \in Groups, NEW d \in group[c].dirs, DirectoryFails(c, d) PROVE Honest(b)'
  BY <1>2, <1>9, DirectoryFailsKept, DirectoryFailsHonest
<1> QED
  BY <1>1, <1>3, <1>4, <1>5, <1>6, <1>7, <1>8, <1>9, RmSteps

LEMMA InitHonest == ASSUME RmInit, NEW b \in Groups PROVE Honest(b) /\ Sure(b)
<1> DEFINE p == rmCall.paths[b]
           t == [i \in DOMAIN p |-> ToExpand(p[i].name, p[i].star, rmCall.maxdepth)]
<1>1. group[b] = NewGroup(rmCall, b) /\ objects[b] = rmCall.objects[b] /\ folders[b] = rmCall.folders[b]
  BY DEF RmInit
<1>2. /\ group[b].todo = t /\ group[b].found = {} /\ group[b].asked = {} /\ group[b].dirs = {}
      /\ group[b].stage = "expand" /\ group[b].ended = "no" /\ group[b].failed = FALSE /\ group[b].unsure = {}
  BY <1>1 DEF NewGroup
<1>3. \A i \in DOMAIN p : \A n : Reaches(p[i], n) => Reaches(t[i], n)
  BY DEF Reaches, ToExpand
<1>4. \A i, what : Awaits(b, i, what)
  BY <1>2 DEF Awaits
<1>5. ASSUME Unbounded, NEW n, InScope(b, n) PROVE ObjectInHand(b, n) /\ FolderInHand(b, n)
  <2>1. PICK i \in DOMAIN p : Reaches(p[i], n)
    BY <1>5, UnboundedScope
  <2>2. i \in DOMAIN group[b].todo /\ Reaches(group[b].todo[i], n)
    BY <1>2, <1>3, <2>1
  <2> QED
    BY <1>4, <2>2 DEF ObjectInHand, FolderInHand
<1>6. Unbounded => Sought(b)
  <2>1. Unbounded => (\A n \in Staying(b, objects) : ObjectInHand(b, n)) /\ \A n \in Staying(b, folders) : FolderInHand(b, n)
    BY <1>5 DEF Staying
  <2>2. NamesOf(group[b].found, "directory") = {}
    BY <1>2 DEF NamesOf
  <2> QED
    BY <1>2, <2>1, <2>2 DEF Sought
<1> QED
  BY <1>1, <1>2, <1>6 DEF Honest, FlatDirs, Thorough, Untouched, Sure

\* Failures stay within their bound.
LEMMA FaultsCounted == MaxRmFaults \in Nat /\ (World => rmFaults \in Nat)
BY DeletionAssumption, Zenon DEF World, RmShape

LEMMA NextFaults ==
  ASSUME World, rmFaults <= MaxRmFaults, [RmNext]_rmVars
  PROVE  rmFaults' <= MaxRmFaults
<1>1. ASSUME NEW b \in Groups, Quiet(b) PROVE rmFaults' <= MaxRmFaults
  <2>1. rmFaults' = rmFaults \/ ExpansionFails(b) \/ InfoFails(b)
    BY <1>1 DEF Quiet, Glob, AskObjects, AskFolders, Hears, AskInfo, ExpandFlat, Expanded, FilesDone, GroupOver, GroupOnly
  <2>2. ExpansionFails(b) \/ InfoFails(b) => rmFaults < MaxRmFaults /\ rmFaults' = rmFaults + 1
    BY DEF ExpansionFails, InfoFails
  <2> QED
    BY <2>1, <2>2, FaultsCounted
<1>2. ASSUME NEW b \in Groups, NEW n, Create(b, n) PROVE rmFaults' <= MaxRmFaults
  BY <1>2 DEF Create
<1>3. ASSUME NEW b \in Groups, NEW job, SendBatch(b, job) PROVE rmFaults' <= MaxRmFaults
  BY <1>3 DEF SendBatch
<1>4. ASSUME NEW b \in Groups, NEW job, BatchFails(b, job) PROVE rmFaults' <= MaxRmFaults
  <2>1. rmFaults < MaxRmFaults /\ rmFaults' = rmFaults + 1
    BY <1>4 DEF BatchFails
  <2> QED
    BY <2>1, FaultsCounted
<1>5. ASSUME NEW b \in Groups, NEW d, RemoveMarker(b, d) \/ RemoveFolder(b, d) PROVE rmFaults' <= MaxRmFaults
  BY <1>5 DEF RemoveMarker, RemoveFolder
<1>6. ASSUME NEW b \in Groups, NEW d, DirectoryFails(b, d) PROVE rmFaults' <= MaxRmFaults
  <2>1. rmFaults < MaxRmFaults /\ rmFaults' = rmFaults + 1
    BY <1>6 DEF DirectoryFails
  <2> QED
    BY <2>1, FaultsCounted
<1>7. CASE UNCHANGED rmVars
  BY <1>7 DEF rmVars
<1> QED
  BY <1>1, <1>2, <1>3, <1>4, <1>5, <1>6, <1>7, RmSteps

\* A call without a depth limit that reports no failure has left nothing of its paths, but a path whose
\* own _info() failed; undisturbed, it does not fail; and one that says the path is missing has then
\* deleted nothing.
THEOREM ReportsHonestly == RmSpec => []RmHonest
<1> DEFINE AllHonest == rmFaults <= MaxRmFaults /\ \A b \in Groups : Honest(b) /\ Sure(b)
<1>1. RmInit => World /\ AllHonest
  BY InitWorld, InitHonest, FaultsCounted DEF RmInit
<1>2. ASSUME World, AllHonest, [RmNext]_rmVars PROVE (World /\ AllHonest)'
  <2>1. World'
    BY <1>2, NextWorld
  <2>2. \A b \in Groups : Honest(b)' /\ Sure(b)'
    BY <1>2, NextHonest, NextSure
  <2>3. Groups' = Groups
    BY <1>2, RmSteps, QuietKept, CreateKept, SendBatchKept, BatchFailsKept, RemoveMarkerKept, RemoveFolderKept,
       DirectoryFailsKept, SameScope DEF Elsewhere, rmVars
  <2>4. rmFaults' <= MaxRmFaults
    BY <1>2, NextFaults
  <2> QED
    BY <2>1, <2>2, <2>3, <2>4
<1>3. ASSUME World, AllHonest PROVE RmHonest
  <2>1. RmTypeOK
    <3>1. ASSUME NEW b \in Groups
          PROVE  /\ group[b].stage \in {"expand", "files", "dirs", "over"}
                 /\ group[b].ended \in {"no", "done", "missing", "error"}
                 /\ (group[b].ended = "no") = (group[b].stage # "over")
                 /\ group[b].asked \subseteq {"objects", "folders"} /\ group[b].failed \in BOOLEAN
      BY <1>3, GroupFacts DEF Sizes, GroupStates
    <3>2. rmFaults \in 0..MaxRmFaults
      BY <1>3, FaultsCounted
    <3> QED
      BY <3>1, <3>2 DEF RmTypeOK
  <2>2. ASSUME NEW b \in Groups
        PROVE  /\ group[b].ended = "done" /\ Unbounded =>
                    \A n \in (objects[b] \cup folders[b]) \ (created[b] \cup group[b].unsure) : ~(InScope(b, n) /\ n \in Before(b))
               /\ Undisturbed /\ Unbounded => group[b].ended # "error"
               /\ Undisturbed /\ group[b].ended = "missing" => Before(b) = objects[b] \cup folders[b]
    <3>1. Honest(b)
      BY <1>3
    <3>2. group[b].ended = "done" /\ Unbounded => Staying(b, objects) = {} /\ Staying(b, folders) = {}
      BY <3>1 DEF Honest, Thorough
    <3>3. Undisturbed /\ Unbounded => group[b].ended # "error"
      BY <3>1 DEF Honest, Thorough
    <3>4. Undisturbed /\ group[b].ended = "missing" => Before(b) = objects[b] \cup folders[b]
      BY <3>1 DEF Honest, Untouched, Before
    <3> QED
      BY <3>2, <3>3, <3>4 DEF Staying
  <2> QED
    BY <2>1, <2>2 DEF RmHonest
<1> HIDE DEF AllHonest
<1> QED
  BY <1>1, <1>2, <1>3, PTL DEF RmSpec

-----------------------------------------------------------------------------
(* The names of the newest reports, in order.                               *)

LEMMA ListFacts ==
  /\ KeyCount \in Nat /\ KeyCount >= 1 /\ InDir \subseteq Keys
  /\ PageSize \in Nat /\ PageSize >= 2 /\ ItemsPerCall \in Nat /\ MaxListChanges \in Nat /\ Limits \subseteq Nat
  /\ \A R \in Reports : IsFiniteSet(R) /\ \A r \in R : r.rows \in Seq(Keys \cup {Outside})
BY ListingAssumption

LEMMA LeastNat ==
  ASSUME NEW T \in SUBSET Nat, T # {}
  PROVE  \E x \in T : \A y \in T : x <= y
<1> DEFINE R == {ss \in Nat \X Nat : ss[1] < ss[2]}
<1>1. IsWellFoundedOn(R, Nat)
  BY NatLessThanWellFounded DEF OpToRel
<1>2. PICK x \in T : \A y \in T : <<y, x>> \notin R
  <2> HIDE DEF R
  <2> QED
    BY <1>1, WFMin
<1>3. \A y \in T : ~(y < x)
  BY <1>2
<1> QED
  BY <1>3

LEMMA LeastOf ==
  ASSUME NEW T \in SUBSET Nat, T # {}
  PROVE  Min(T) \in T /\ \A y \in T : Min(T) <= y
BY LeastNat DEF Min

LEMMA GreatestOf ==
  ASSUME NEW S \in SUBSET Nat, S # {}, NEW n \in Nat, \A s \in S : s <= n
  PROVE  Max(S) \in S /\ \A y \in S : y <= Max(S)
<1> DEFINE T == {m \in Nat : m <= n /\ n - m \in S}
<1>1. T \in SUBSET Nat /\ T # {}
  <2>1. PICK s \in S : TRUE
    OBVIOUS
  <2>2. n - s \in Nat /\ n - s <= n /\ n - (n - s) = s
    BY <2>1
  <2> QED
    BY <2>1, <2>2
<1>2. PICK m \in T : \A y \in T : m <= y
  <2> HIDE DEF T
  <2> QED
    BY <1>1, LeastNat
<1>3. ASSUME NEW s \in S PROVE s <= n - m
  <2>1. n - s \in T
    <3>1. n - s \in Nat /\ n - s <= n /\ n - (n - s) = s
      OBVIOUS
    <3> QED
      BY <3>1
  <2> QED
    BY <1>2, <2>1
<1>4. n - m \in S
  BY <1>2
<1> QED
  BY <1>3, <1>4 DEF Max

\* The rows are finitely many, and each has a name.
LEMMA RowsFinite ==
  ASSUME reports \in Reports \cup {{}}
  PROVE  IsFiniteSet(Rows) /\ \A x \in Rows : x[1].rows[x[2]] \in Keys
<1> DEFINE W(r) == {x \in DOMAIN r.rows : r.rows[x] # Outside}
           P(r) == {<<r, j>> : j \in W(r)}
           T == {P(r) : r \in Newest}
<1>1. IsFiniteSet(Newest) /\ \A r \in Newest : r.rows \in Seq(Keys \cup {Outside})
  <2>1. IsFiniteSet(reports) /\ \A r \in reports : r.rows \in Seq(Keys \cup {Outside})
    BY ListFacts, FS_EmptySet
  <2> QED
    BY <2>1, FS_Subset DEF Newest
<1>2. ASSUME NEW r \in Newest PROVE IsFiniteSet(P(r)) /\ \A x \in P(r) : x[1].rows[x[2]] \in Keys
  <2>1. W(r) \subseteq 1..Len(r.rows) /\ Len(r.rows) \in Nat /\ \A j \in W(r) : r.rows[j] \in Keys
    BY <1>1
  <2>2. IsFiniteSet(W(r))
    BY <2>1, FS_Interval, FS_Subset
  <2> DEFINE f == [j \in W(r) |-> <<r, j>>]
  <2>3. f \in Surjection(W(r), P(r))
    BY DEF Surjection
  <2> HIDE DEF f, W
  <2>4. IsFiniteSet(P(r))
    BY <2>2, <2>3, FS_Surjection
  <2>5. \A x \in P(r) : x[1].rows[x[2]] \in Keys
    BY <2>1
  <2> QED
    BY <2>4, <2>5
<1>3. IsFiniteSet(T)
  <2> DEFINE f == [r \in Newest |-> P(r)]
  <2> HIDE DEF P
  <2>1. f \in Surjection(Newest, T)
    BY DEF Surjection
  <2> HIDE DEF f
  <2> QED
    BY <1>1, <2>1, FS_Surjection
<1>4. \A X \in T : IsFiniteSet(X) /\ \A x \in X : x[1].rows[x[2]] \in Keys
  <2> HIDE DEF P
  <2> QED
    BY <1>2
<1>5. UNION T = Rows
  BY DEF Rows
<1> HIDE DEF T
<1>6. IsFiniteSet(UNION T) /\ \A x \in UNION T : x[1].rows[x[2]] \in Keys
  BY <1>3, <1>4, FS_UNION
<1> QED
  BY <1>5, <1>6

\* A sequence of names in order.
Rising(s) == \A i, j \in DOMAIN s : i <= j => s[i] <= s[j]

LEMMA SnapshotSorted ==
  ASSUME reports \in Reports \cup {{}}
  PROVE  SnapshotNames \in Seq(Keys) /\ Rising(SnapshotNames)
<1> DEFINE rows == Rows
           known(k) == {x \in rows : x[1].rows[x[2]] <= k}
           count(k) == Cardinality(known(k))
           n == Cardinality(rows)
           upTo(i) == {k \in Keys : count(k) >= i}
           s == [i \in 1..n |-> Min(upTo(i))]
<1>1. IsFiniteSet(rows) /\ \A x \in rows : x[1].rows[x[2]] \in Keys
  BY RowsFinite
<1>2. s = SnapshotNames
  BY DEF SnapshotNames
<1> HIDE DEF rows
<1>3. n \in Nat /\ \A k \in Keys : count(k) \in Nat
  <2>1. \A k \in Keys : known(k) \in SUBSET rows
    OBVIOUS
  <2> HIDE DEF known
  <2>2. \A k \in Keys : IsFiniteSet(known(k))
    BY <1>1, <2>1, FS_Subset
  <2> QED
    BY <1>1, <2>2, FS_CardinalityType
<1>4. KeyCount \in Keys /\ count(KeyCount) = n
  <2>1. KeyCount \in Keys /\ \A k \in Keys : k <= KeyCount
    BY ListFacts DEF Keys
  <2>2. known(KeyCount) = rows
    BY <1>1, <2>1
  <2> QED
    BY <2>1, <2>2
<1> HIDE DEF count, n
<1>5. ASSUME NEW i \in 1..n PROVE upTo(i) \in SUBSET Nat /\ upTo(i) # {}
  BY <1>3, <1>4, ListFacts DEF Keys
<1>6. ASSUME NEW i \in 1..n PROVE Min(upTo(i)) \in upTo(i) /\ \A k \in upTo(i) : Min(upTo(i)) <= k
  <2> HIDE DEF upTo
  <2> QED
    BY <1>5, LeastOf
<1>7. ASSUME NEW i \in 1..n, NEW j \in 1..n, i <= j PROVE Min(upTo(i)) <= Min(upTo(j))
  <2>1. upTo(j) \subseteq upTo(i)
    BY <1>3, <1>7
  <2> QED
    BY <1>6, <2>1
<1>8. ASSUME NEW i \in 1..n PROVE Min(upTo(i)) \in Keys
  BY <1>6
<1> HIDE DEF upTo
<1>9. s \in Seq(Keys)
  BY <1>3, <1>8
<1>10. Rising(s)
  BY <1>7 DEF Rising
<1> QED
  BY <1>2, <1>9, <1>10

-----------------------------------------------------------------------------
(* The ranges into which they divide all names.                             *)

LEMMA ProductsRise ==
  ASSUME NEW i \in Nat, NEW j \in Nat, NEW c \in Nat, i <= j
  PROVE  i * c \in Nat /\ j * c \in Nat /\ i * c <= j * c
<1>1. PICK d \in Nat : j = i + d
  <2>1. j - i \in Nat /\ j = i + (j - i)
    OBVIOUS
  <2> QED
    BY <2>1
<1>2. i * c \in Nat /\ d * c \in Nat
  OBVIOUS
<1>3. j * c = i * c + d * c
  BY <1>1
<1> QED
  BY <1>2, <1>3

LEMMA Quotient ==
  ASSUME NEW n \in Nat, NEW q \in Nat \ {0}
  PROVE  n \div q \in Nat /\ q * (n \div q) \in Nat /\ q * (n \div q) <= n /\ n < q * (n \div q) + q
<1>1. n \div q \in Nat /\ n = q * (n \div q) + (n % q) /\ n % q \in 0..(q - 1)
  OBVIOUS
<1>2. q * (n \div q) \in Nat
  BY <1>1
<1> QED
  BY <1>1, <1>2

\* The division of L names into ranges of a page or less.
LEMMA Divides ==
  ASSUME NEW L \in Nat, NEW count, count = L \div PageSize + 1, NEW each, each = L \div count
  PROVE  /\ count \in Nat \ {0} /\ each \in Nat
         /\ L = 0 => count = 1
         /\ L # 0 => each # 0
         /\ count * each <= L
<1>1. PageSize \in Nat /\ PageSize >= 2
  BY ListFacts
<1> DEFINE q == L \div PageSize
<1>2. q \in Nat /\ PageSize * q \in Nat /\ PageSize * q <= L
  BY <1>1, Quotient
<1> HIDE DEF q
<1>3. count \in Nat \ {0} /\ count = q + 1
  BY <1>2 DEF q
<1>4. L # 0 => count <= L
  <2>1. 2 * q <= PageSize * q
    BY <1>1, <1>2, ProductsRise
  <2> QED
    BY <1>1, <1>2, <1>3, <2>1
<1>5. each \in Nat /\ count * each \in Nat /\ count * each <= L /\ L < count * each + count
  BY <1>3, Quotient
<1>6. L # 0 => each # 0
  <2> SUFFICES ASSUME L # 0, each = 0 PROVE FALSE
    OBVIOUS
  <2>1. count * each = 0
    BY <1>3
  <2> QED
    BY <1>3, <1>4, <1>5, <2>1
<1>7. L = 0 => count = 1
  <2>1. 2 * q <= PageSize * q
    BY <1>1, <1>2, ProductsRise
  <2> QED
    BY <1>1, <1>2, <1>3, <2>1
<1> QED
  BY <1>3, <1>5, <1>6, <1>7

\* Ranges that take over from each other, from the first name to the last.
Parted(R) ==
  \E n \in Nat \ {0} :
    /\ R \in [1..n -> Keys \X (1..KeyCount + 1)] /\ R \in Seq(Keys \X (1..KeyCount + 1))
    /\ R[1][1] = 1 /\ R[n][2] = KeyCount + 1
    /\ \A i \in 1..n - 1 : R[i][2] = R[i + 1][1]
    /\ \A i, j \in 1..n : i <= j => R[i][1] <= R[j][1]

LEMMA WholeParted == Parted(<< <<1, KeyCount + 1>> >>)
<1> DEFINE R == << <<1, KeyCount + 1>> >>
<1>1. 1 \in Keys /\ KeyCount + 1 \in 1..KeyCount + 1
  BY ListFacts DEF Keys
<1>2. <<1, KeyCount + 1>> \in Keys \X (1..KeyCount + 1)
  BY <1>1
<1>3. R \in [1..1 -> Keys \X (1..KeyCount + 1)] /\ R \in Seq(Keys \X (1..KeyCount + 1))
      /\ R[1][1] = 1 /\ R[1][2] = KeyCount + 1
  BY <1>2
<1>4. (\A i \in 1..1 - 1 : R[i][2] = R[i + 1][1]) /\ \A i, j \in 1..1 : i <= j => R[i][1] <= R[j][1]
  BY <1>1 DEF Keys
<1> HIDE DEF R
<1>5. 1 \in Nat \ {0}
  OBVIOUS
<1>6. Parted(R)
  BY <1>3, <1>4, <1>5 DEF Parted
<1> QED
  BY <1>6 DEF R

LEMMA RangesParted ==
  ASSUME NEW names \in Seq(Keys), Rising(names)
  PROVE  Parted(Ranges(names))
<1> DEFINE L == Len(names)
           count == L \div PageSize + 1
           each == L \div count
           from(i) == IF (i - 1) * each = 0 THEN 1 ELSE names[(i - 1) * each + 1]
           end(i)  == IF i = count \/ i * each = L THEN KeyCount + 1 ELSE names[i * each + 1]
           R == [i \in 1..count |-> <<from(i), end(i)>>]
<1>1. R = Ranges(names)
  BY DEF Ranges
<1>2. L \in Nat /\ DOMAIN names = 1..L /\ \A i \in 1..L : names[i] \in Keys
  OBVIOUS
<1>3. /\ count \in Nat \ {0} /\ each \in Nat /\ (L = 0 => count = 1) /\ (L # 0 => each # 0) /\ count * each <= L
  <2>1. count = L \div PageSize + 1 /\ each = L \div count
    OBVIOUS
  <2> HIDE DEF L, count, each
  <2> QED
    BY <1>2, <2>1, Divides
<1>4. KeyCount \in Nat /\ KeyCount >= 1
  BY ListFacts
<1> HIDE DEF L, count, each
\* The first name of a range other than the first one.
<1>5. ASSUME NEW i \in 1..count - 1
      PROVE  i * each \in Nat \ {0} /\ i * each + 1 <= L /\ i * each # L
  <2>1. L # 0 /\ each # 0
    BY <1>2, <1>3
  <2>2. i * each \in Nat /\ 1 * each \in Nat /\ 1 * each <= i * each
    BY <1>3, ProductsRise
  <2>3. (i + 1) * each \in Nat /\ count * each \in Nat /\ (i + 1) * each <= count * each
    BY <1>3, ProductsRise
  <2>4. (i + 1) * each = i * each + each /\ 1 * each = each
    BY <1>3
  <2> QED
    BY <1>2, <1>3, <2>1, <2>2, <2>3, <2>4
<1>6. from(1) = 1
  BY <1>3
<1>7. ASSUME NEW i \in 1..count - 1
      PROVE  /\ end(i) = from(i + 1) /\ end(i) = names[i * each + 1] /\ end(i) \in Keys
  <2>1. i + 1 - 1 = i /\ i # count
    BY <1>3
  <2>2. i * each + 1 \in 1..L
    BY <1>2, <1>5
  <2> QED
    BY <1>2, <1>5, <2>1, <2>2
<1>8. end(count) = KeyCount + 1
  OBVIOUS
<1>9. ASSUME NEW i \in 1..count PROVE from(i) \in Keys
  <2>1. CASE i = 1
    BY <1>4, <1>6, <2>1 DEF Keys
  <2>2. CASE i # 1
    <3>1. i - 1 \in 1..count - 1 /\ (i - 1) + 1 = i
      BY <1>3, <2>2
    <3> QED
      BY <1>7, <3>1
  <2> QED
    BY <2>1, <2>2
<1>10. ASSUME NEW i \in 1..count PROVE end(i) \in 1..KeyCount + 1
  <2>1. CASE i = count
    BY <1>4, <1>8, <2>1
  <2>2. CASE i # count
    <3>1. i \in 1..count - 1
      BY <1>3, <2>2
    <3> QED
      BY <1>4, <1>7, <3>1 DEF Keys
  <2> QED
    BY <2>1, <2>2
<1>11. ASSUME NEW i \in 1..count, NEW j \in 1..count, i <= j PROVE from(i) <= from(j)
  <2>1. CASE i = 1
    BY <1>4, <1>6, <1>9, <2>1 DEF Keys
  <2>2. CASE i # 1
    <3>1. i - 1 \in 1..count - 1 /\ j - 1 \in 1..count - 1 /\ i - 1 <= j - 1 /\ (i - 1) + 1 = i /\ (j - 1) + 1 = j
      BY <1>3, <1>11, <2>2
    <3>2. from(i) = names[(i - 1) * each + 1] /\ from(j) = names[(j - 1) * each + 1]
      BY <1>5, <3>1
    <3>3. (i - 1) * each <= (j - 1) * each /\ (i - 1) * each \in Nat /\ (j - 1) * each \in Nat
      BY <1>3, <3>1, ProductsRise
    <3>4. (i - 1) * each + 1 \in 1..L /\ (j - 1) * each + 1 \in 1..L
      BY <1>2, <1>5, <3>1, <3>3
    <3> QED
      BY <1>2, <3>2, <3>3, <3>4 DEF Rising
  <2> QED
    BY <2>1, <2>2
<1> HIDE DEF from, end
<1>12. R \in [1..count -> Keys \X (1..KeyCount + 1)] /\ R \in Seq(Keys \X (1..KeyCount + 1))
  BY <1>3, <1>9, <1>10
<1>13. R[1][1] = 1 /\ R[count][2] = KeyCount + 1
  BY <1>3, <1>6, <1>8
<1>14. \A i \in 1..count - 1 : R[i][2] = R[i + 1][1]
  BY <1>3, <1>7
<1>15. \A i, j \in 1..count : i <= j => R[i][1] <= R[j][1]
  BY <1>11
<1> HIDE DEF R
<1>16. Parted(R)
  BY <1>3, <1>12, <1>13, <1>14, <1>15 DEF Parted
<1> QED
  BY <1>1, <1>16

InRange(i, k) == ranges[i][1] <= k /\ k < ranges[i][2]

\* Every name is in one range.
LEMMA EachInOne ==
  ASSUME Parted(ranges)
  PROVE  /\ \A k \in Keys : \E i \in DOMAIN ranges : InRange(i, k)
         /\ \A i, j \in DOMAIN ranges, k \in Keys : InRange(i, k) /\ InRange(j, k) => i = j
<1>1. PICK n \in Nat \ {0} :
        /\ ranges \in [1..n -> Keys \X (1..KeyCount + 1)]
        /\ ranges[1][1] = 1 /\ ranges[n][2] = KeyCount + 1
        /\ \A i \in 1..n - 1 : ranges[i][2] = ranges[i + 1][1]
        /\ \A i, j \in 1..n : i <= j => ranges[i][1] <= ranges[j][1]
  BY DEF Parted
<1>2. DOMAIN ranges = 1..n /\ \A i \in 1..n : ranges[i][1] \in Nat /\ ranges[i][2] \in Nat
  BY <1>1, ListFacts DEF Keys
<1>3. ASSUME NEW k \in Keys PROVE \E i \in 1..n : InRange(i, k)
  <2> DEFINE T == {m \in Nat : m < n /\ ranges[n - m][1] <= k}
  <2>1. k \in Nat /\ 1 <= k /\ k < KeyCount + 1
    BY ListFacts DEF Keys
  <2>2. n - 1 \in T
    <3>1. n - 1 \in Nat /\ n - 1 < n /\ n - (n - 1) = 1
      OBVIOUS
    <3> QED
      BY <1>1, <2>1, <3>1
  <2>3. PICK m \in T : \A y \in T : m <= y
    <3>1. T \in SUBSET Nat /\ T # {}
      BY <2>2
    <3> HIDE DEF T
    <3> QED
      BY <3>1, LeastNat
  <2>4. n - m \in 1..n /\ ranges[n - m][1] <= k
    OBVIOUS
  <2>5. k < ranges[n - m][2]
    <3>1. CASE m = 0
      BY <1>1, <2>1, <3>1
    <3>2. CASE m # 0
      <4>1. m - 1 \in Nat /\ m - 1 < n /\ m - 1 \notin T
        BY <2>3, <3>2
      <4>2. n - (m - 1) = (n - m) + 1 /\ n - m \in 1..n - 1 /\ (n - m) + 1 \in 1..n
        BY <3>2
      <4>3. ~(ranges[(n - m) + 1][1] <= k)
        BY <4>1, <4>2
      <4> QED
        BY <1>1, <1>2, <2>1, <4>2, <4>3
    <3> QED
      BY <3>1, <3>2
  <2> QED
    BY <2>4, <2>5 DEF InRange
<1>4. ASSUME NEW i \in 1..n, NEW j \in 1..n, NEW k \in Keys, InRange(i, k), InRange(j, k), i < j PROVE FALSE
  <2>1. i \in 1..n - 1 /\ i + 1 \in 1..n /\ i + 1 <= j
    BY <1>4
  <2>2. ranges[i][2] <= ranges[j][1]
    BY <1>1, <2>1
  <2>3. k \in Nat
    BY ListFacts DEF Keys
  <2> QED
    BY <1>2, <1>4, <2>2, <2>3 DEF InRange
<1>5. ASSUME NEW i \in 1..n, NEW j \in 1..n, NEW k \in Keys, InRange(i, k), InRange(j, k) PROVE i = j
  <2>1. ~(i < j) /\ ~(j < i)
    BY <1>4, <1>5
  <2> QED
    BY <2>1
<1> QED
  BY <1>2, <1>3, <1>5

-----------------------------------------------------------------------------
(* The pages.                                                               *)

\* What the pages of a range have shown.
RangeState(i) ==
  /\ passed[i] \in 0..KeyCount /\ IsFiniteSet(got[i])
  /\ got[i] \subseteq Shown({k \in everseen : InRange(i, k)})
  /\ \A k \in steady : InRange(i, k) /\ k <= passed[i] => Shows(k) \in got[i]
  /\ ~more[i] => \A k \in steady : InRange(i, k) => k <= passed[i]
  /\ limit # 0 => Cardinality(got[i]) <= limit

ListShape ==
  /\ steady \subseteq present /\ present \subseteq everseen /\ everseen \subseteq Keys
  /\ listChanges \in 0..MaxListChanges /\ limit \in Nat /\ reports \in Reports \cup {{}}
  /\ ranges = <<>> \/ Parted(ranges)
  /\ DOMAIN got = DOMAIN ranges /\ DOMAIN passed = DOMAIN ranges /\ DOMAIN more = DOMAIN ranges

ListInv == ListShape /\ \A i \in DOMAIN ranges : RangeState(i)

\* The name that a page ends with is one of those listed.
LEMMA ShowsKnown ==
  ASSUME NEW k \in Keys
  PROVE  Shows(k).of \in Keys
<1>1. k \in Nat /\ \A j \in InDir : j \in Nat /\ j <= KeyCount
  BY ListFacts DEF Keys
<1>2. CASE k \in InDir
  <2>1. InDir \in SUBSET Nat /\ InDir # {} /\ KeyCount \in Nat
    BY <1>1, <1>2, ListFacts
  <2>2. Max(InDir) \in InDir
    BY <1>1, <2>1, GreatestOf
  <2> QED
    BY <2>2, ListFacts DEF Shows
<1>3. CASE k \notin InDir
  BY <1>3 DEF Shows
<1> QED
  BY <1>2, <1>3

LEMMA ShownFinite ==
  ASSUME NEW S, S \subseteq Keys
  PROVE  IsFiniteSet(Shown(S)) /\ Cardinality(Shown(S)) \in Nat
<1>1. IsFiniteSet(S)
  <2>1. IsFiniteSet(1..KeyCount) /\ S \in SUBSET (1..KeyCount)
    BY ListFacts, FS_Interval DEF Keys
  <2> QED
    BY <2>1, FS_Subset
<1> DEFINE f == [k \in S |-> Shows(k)]
<1>2. f \in Surjection(S, Shown(S))
  BY DEF Shown, Surjection
<1> HIDE DEF f
<1> QED
  BY <1>1, <1>2, FS_Surjection, FS_CardinalityType

LEMMA InitList == ListInit => ListInv
<1> SUFFICES ASSUME ListInit PROVE ListInv
  OBVIOUS
<1>1. PageSize \in Nat /\ Limits \subseteq Nat /\ 0 \in 0..MaxListChanges
  BY ListFacts
<1>2. ListShape
  BY <1>1 DEF ListInit, ListShape
<1> QED
  BY <1>2 DEF ListInit, ListInv

LEMMA DivideKept == ASSUME ListInv, Divide PROVE ListInv'
<1>1. /\ UNCHANGED <<present, steady, everseen, delimited, reports, limit, listChanges>>
      /\ ranges' = IF reports = {} THEN << <<1, KeyCount + 1>> >> ELSE Ranges(SnapshotNames)
      /\ got' = [i \in DOMAIN ranges' |-> {}] /\ passed' = [i \in DOMAIN ranges' |-> 0]
      /\ more' = [i \in DOMAIN ranges' |-> TRUE]
  BY DEF Divide
<1>2. Parted(ranges')
  <2>1. reports \in Reports \cup {{}}
    BY DEF ListInv, ListShape
  <2>2. Parted(Ranges(SnapshotNames))
    BY <2>1, SnapshotSorted, RangesParted
  <2> QED
    BY <1>1, <2>2, WholeParted
<1>3. ListShape'
  <2>1. Parted(ranges)'
    BY <1>2 DEF Parted
  <2> QED
    BY <1>1, <2>1 DEF ListInv, ListShape
<1>4. ASSUME NEW i \in DOMAIN ranges' PROVE RangeState(i)'
  <2>1. got'[i] = {} /\ passed'[i] = 0 /\ more'[i]
    BY <1>1
  <2>2. IsFiniteSet({}) /\ Cardinality({}) = 0 /\ 0 \in 0..KeyCount
    BY FS_EmptySet, ListFacts
  <2>3. \A k \in steady' : ~(k <= 0)
    BY <1>1, ListFacts DEF ListInv, ListShape, Keys
  <2>4. limit' \in Nat
    BY <1>3 DEF ListShape
  <2> QED
    BY <2>1, <2>2, <2>3, <2>4 DEF RangeState
<1> QED
  BY <1>3, <1>4 DEF ListInv

LEMMA ChangeKept == ASSUME ListInv, NEW k \in Keys, ObjectChanges(k) PROVE ListInv'
<1>1. /\ listChanges < MaxListChanges /\ listChanges' = listChanges + 1
      /\ present' = IF k \in present THEN present \ {k} ELSE present \cup {k}
      /\ steady' = steady \ {k} /\ everseen' = everseen \cup {k}
      /\ UNCHANGED <<delimited, reports, limit, ranges, got, passed, more>>
  BY DEF ObjectChanges
<1>2. ListShape'
  <2>1. ranges' = <<>> \/ Parted(ranges)'
    BY <1>1 DEF ListInv, ListShape, Parted
  <2>2. listChanges' \in 0..MaxListChanges
    BY <1>1, ListFacts DEF ListInv, ListShape
  <2> QED
    BY <1>1, <2>1, <2>2 DEF ListInv, ListShape
<1>3. (\A j : Shows(j)' = Shows(j)) /\ \A i, j : InRange(i, j)' <=> InRange(i, j)
  BY <1>1 DEF Shows, InRange
<1>4. ASSUME NEW i \in DOMAIN ranges PROVE RangeState(i)'
  <2>1. RangeState(i)
    BY DEF ListInv
  <2>2. Shown({j \in everseen : InRange(i, j)}) \subseteq {Shows(j) : j \in {n \in everseen' : InRange(i, n)}}
    BY <1>1 DEF Shown
  <2>3. got'[i] \subseteq Shown({j \in everseen : InRange(i, j)})'
    BY <1>1, <1>3, <2>1, <2>2 DEF RangeState, Shown
  <2> QED
    BY <1>1, <1>3, <2>1, <2>3 DEF RangeState
<1> QED
  BY <1>1, <1>2, <1>4 DEF ListInv

\* A page of a range.
LEMMA PageMeans ==
  ASSUME ListShape, NEW i, Page(i)
  PROVE  /\ UNCHANGED <<present, steady, everseen, delimited, reports, limit, ranges, listChanges>>
         /\ i \in DOMAIN ranges /\ ~Full(i)
         /\ DOMAIN got' = DOMAIN ranges /\ DOMAIN passed' = DOMAIN ranges /\ DOMAIN more' = DOMAIN ranges
         /\ \A j \in DOMAIN ranges \ {i} : got'[j] = got[j] /\ passed'[j] = passed[j] /\ more'[j] = more[j]
         /\ \E last \in IF Left(i) = {} THEN {passed[i]} ELSE {Shows(k).of : k \in Left(i)} :
              LET page == Shown({k \in Left(i) : k <= last})
              IN /\ Cardinality(page) <= Wanted(i) /\ got'[i] = got[i] \cup page /\ passed'[i] = last
                 /\ more'[i] <=> \E k \in Left(i) : k > last
<1>1. PICK last \in IF Left(i) = {} THEN {passed[i]} ELSE {Shows(k).of : k \in Left(i)} :
        LET page == Shown({k \in Left(i) : k <= last})
        IN /\ Cardinality(page) <= Wanted(i) /\ got' = [got EXCEPT ![i] = @ \cup page]
           /\ passed' = [passed EXCEPT ![i] = last]
           /\ more' = [more EXCEPT ![i] = \E k \in Left(i) : k > last]
  BY DEF Page
<1> DEFINE page == Shown({k \in Left(i) : k <= last})
           follow == \E k \in Left(i) : k > last
<1>2. /\ UNCHANGED <<present, steady, everseen, delimited, reports, limit, ranges, listChanges>>
      /\ i \in DOMAIN ranges /\ ~Full(i)
  BY DEF Page
<1>3. Cardinality(page) <= Wanted(i) /\ got' = [got EXCEPT ![i] = @ \cup page] /\ passed' = [passed EXCEPT ![i] = last]
      /\ more' = [more EXCEPT ![i] = follow] /\ follow \in BOOLEAN
  BY <1>1
<1> HIDE DEF page, follow
<1>4. /\ DOMAIN got' = DOMAIN ranges /\ DOMAIN passed' = DOMAIN ranges /\ DOMAIN more' = DOMAIN ranges
      /\ \A j \in DOMAIN ranges \ {i} : got'[j] = got[j] /\ passed'[j] = passed[j] /\ more'[j] = more[j]
      /\ got'[i] = got[i] \cup page /\ passed'[i] = last /\ more'[i] = follow
  BY <1>2, <1>3 DEF ListShape
<1> USE DEF page, follow
<1>5. more'[i] <=> \E k \in Left(i) : k > last
  BY <1>4
<1> QED
  BY <1>1, <1>2, <1>3, <1>4, <1>5

LEMMA PageKept == ASSUME ListInv, NEW i \in DOMAIN ranges, Page(i) PROVE ListInv'
<1>1. ListShape /\ RangeState(i)
  BY DEF ListInv
<1>2. /\ UNCHANGED <<present, steady, everseen, delimited, reports, limit, ranges, listChanges>> /\ ~Full(i)
      /\ DOMAIN got' = DOMAIN ranges /\ DOMAIN passed' = DOMAIN ranges /\ DOMAIN more' = DOMAIN ranges
      /\ \A j \in DOMAIN ranges \ {i} : got'[j] = got[j] /\ passed'[j] = passed[j] /\ more'[j] = more[j]
  BY <1>1, PageMeans
<1>3. PICK last \in IF Left(i) = {} THEN {passed[i]} ELSE {Shows(k).of : k \in Left(i)} :
        LET page == Shown({k \in Left(i) : k <= last})
        IN /\ Cardinality(page) <= Wanted(i) /\ got'[i] = got[i] \cup page /\ passed'[i] = last
           /\ more'[i] <=> \E k \in Left(i) : k > last
  BY <1>1, PageMeans
<1> DEFINE P == {k \in Left(i) : k <= last}
           page == Shown(P)
<1>4. Cardinality(page) <= Wanted(i) /\ got'[i] = got[i] \cup page /\ passed'[i] = last
      /\ (more'[i] <=> \E k \in Left(i) : k > last)
  BY <1>3
<1>5. /\ steady \subseteq present /\ present \subseteq everseen /\ everseen \subseteq Keys /\ limit \in Nat
      /\ KeyCount \in Nat /\ ItemsPerCall \in Nat /\ Keys \subseteq Nat
  BY <1>1, ListFacts DEF ListShape, Keys
<1>6. \A k : k \in Left(i) <=> k \in present /\ InRange(i, k) /\ k > passed[i]
  BY DEF Left, InRange
<1>7. P \subseteq Keys
  BY <1>5, <1>6
<1> HIDE DEF P
<1>8. IsFiniteSet(page) /\ Cardinality(page) \in Nat
  BY <1>7, ShownFinite
<1> HIDE DEF page
<1>9. last \in 0..KeyCount
  <2>1. CASE Left(i) = {}
    BY <1>1, <1>3, <2>1 DEF RangeState
  <2>2. CASE Left(i) # {}
    <3>1. PICK k \in Left(i) : last = Shows(k).of
      BY <1>3, <2>2
    <3>2. last \in Keys
      BY <1>5, <1>6, <3>1, ShowsKnown
    <3> QED
      BY <1>5, <3>2 DEF Keys
  <2> QED
    BY <2>1, <2>2
<1>10. ListShape'
  <2>1. ranges' = <<>> \/ Parted(ranges)'
    BY <1>1, <1>2 DEF ListShape, Parted
  <2> QED
    BY <1>1, <1>2, <2>1 DEF ListShape
<1>11. (\A k : Shows(k)' = Shows(k)) /\ \A j, k : InRange(j, k)' <=> InRange(j, k)
  BY <1>2 DEF Shows, InRange
<1>12. \A S : Shown(S)' = {Shows(k) : k \in S'}
  BY <1>11 DEF Shown
<1>13. ASSUME NEW j \in DOMAIN ranges PROVE Shown({k \in everseen : InRange(j, k)})' = Shown({k \in everseen : InRange(j, k)})
  BY <1>2, <1>11 DEF Shown
<1>14. ASSUME NEW j \in DOMAIN ranges, j # i PROVE RangeState(j)'
  <2>1. RangeState(j)
    BY DEF ListInv
  <2>2. got'[j] = got[j] /\ passed'[j] = passed[j] /\ more'[j] = more[j]
    BY <1>2, <1>14
  <2> QED
    BY <1>2, <1>11, <1>13, <2>1, <2>2 DEF RangeState
<1>15. RangeState(i)'
  <2>1. IsFiniteSet(got[i]) /\ Cardinality(got[i]) \in Nat /\ passed[i] \in Nat
    BY <1>1, <1>5, FS_CardinalityType DEF RangeState
  <2>2. IsFiniteSet(got'[i]) /\ (limit # 0 => Cardinality(got'[i]) <= limit)
    <3>1. /\ IsFiniteSet(got[i] \cup page) /\ Cardinality(got[i] \cap page) \in Nat
          /\ Cardinality(got[i] \cup page) = Cardinality(got[i]) + Cardinality(page) - Cardinality(got[i] \cap page)
      BY <1>8, <2>1, FS_Union, FS_Intersection, FS_CardinalityType
    <3>2. limit # 0 => Wanted(i) <= limit - Cardinality(got[i]) /\ Wanted(i) \in Int
      BY <1>2, <1>5, <2>1 DEF Wanted, Full, MinOfTwo
    <3> QED
      BY <1>4, <1>5, <1>8, <2>1, <3>1, <3>2
  <2>3. page \subseteq Shown({k \in everseen : InRange(i, k)})
    BY <1>5, <1>6 DEF page, P, Shown
  <2>4. got'[i] \subseteq Shown({k \in everseen : InRange(i, k)})
    BY <1>1, <1>4, <2>3 DEF RangeState
  <2>5. ASSUME NEW k \in steady, InRange(i, k), k <= last PROVE Shows(k) \in got'[i]
    <3>1. CASE k <= passed[i]
      BY <1>1, <1>4, <2>5, <3>1 DEF RangeState
    <3>2. CASE ~(k <= passed[i])
      <4>1. k \in Left(i)
        <5>1. k \in present /\ InRange(i, k) /\ k \in Nat
          BY <1>5, <2>5
        <5>2. k > passed[i]
          BY <2>1, <3>2, <5>1
        <5> QED
          BY <1>6, <5>1, <5>2
      <4>2. Shows(k) \in page
        BY <2>5, <4>1 DEF page, P, Shown
      <4> QED
        BY <1>4, <4>2
    <3> QED
      BY <3>1, <3>2
  <2>6. ASSUME ~more'[i], NEW k \in steady, InRange(i, k) PROVE k <= last
    <3>1. CASE k <= passed[i]
      <4>1. passed[i] <= last
        <5>1. CASE Left(i) = {}
          BY <1>3, <2>1, <5>1
        <5>2. CASE Left(i) # {}
          <6>1. PICK n \in Left(i) : TRUE
            BY <5>2
          <6>2. n > passed[i] /\ n \in Nat /\ ~(n > last)
            BY <1>4, <1>5, <1>6, <2>6, <6>1
          <6> QED
            BY <1>9, <2>1, <6>2
        <5> QED
          BY <5>1, <5>2
      <4> QED
        BY <1>5, <1>9, <2>1, <3>1, <4>1
    <3>2. CASE ~(k <= passed[i])
      <4>1. k \in Left(i)
        <5>1. k \in present /\ InRange(i, k) /\ k \in Nat
          BY <1>5, <2>6
        <5>2. k > passed[i]
          BY <2>1, <3>2, <5>1
        <5> QED
          BY <1>6, <5>1, <5>2
      <4> QED
        BY <1>4, <1>5, <1>9, <2>6, <4>1
    <3> QED
      BY <3>1, <3>2
  <2>7. got'[i] \subseteq Shown({k \in everseen : InRange(i, k)})'
    BY <1>13, <2>4
  <2> QED
    BY <1>2, <1>4, <1>9, <1>11, <2>2, <2>5, <2>6, <2>7 DEF RangeState
<1> QED
  BY <1>2, <1>10, <1>14, <1>15 DEF ListInv

\* However old the report and however its pages fall, a listing has each object that stayed, once,
\* and none that never was: what it leaves out lies beyond the limit of its range.
THEOREM ListsAll == ListSpec => []ListsEverything
<1>1. ListInit => ListInv
  BY InitList
<1>2. ASSUME ListInv, [ListNext]_listVars PROVE ListInv'
  <2>1. CASE Divide
    BY <1>2, <2>1, DivideKept
  <2>2. ASSUME NEW i \in DOMAIN ranges, Page(i) PROVE ListInv'
    BY <1>2, <2>2, PageKept
  <2>3. ASSUME NEW k \in Keys, ObjectChanges(k) PROVE ListInv'
    BY <1>2, <2>3, ChangeKept
  <2>4. CASE UNCHANGED listVars
    <3>1. UNCHANGED <<present, steady, everseen, delimited, reports, limit, ranges, got, passed, more, listChanges>>
      BY <2>4 DEF listVars
    <3>2. (\A k : Shows(k)' = Shows(k)) /\ \A i, k : InRange(i, k)' <=> InRange(i, k)
      BY <3>1 DEF Shows, InRange
    <3>3. \A i : Shown({k \in everseen : InRange(i, k)})' = Shown({k \in everseen : InRange(i, k)})
      BY <3>1, <3>2 DEF Shown
    <3>4. ListShape'
      BY <1>2, <3>1 DEF ListInv, ListShape, Parted
    <3>5. ASSUME NEW i \in DOMAIN ranges PROVE RangeState(i)'
      BY <1>2, <3>1, <3>2, <3>3 DEF ListInv, RangeState
    <3> QED
      BY <3>1, <3>4, <3>5 DEF ListInv
  <2> QED
    BY <1>2, <2>1, <2>2, <2>3, <2>4 DEF ListNext, ListStep
<1>3. ASSUME ListInv PROVE ListsEverything
  <2>1. /\ ListShape /\ (\A i \in DOMAIN ranges : RangeState(i)) /\ Keys \subseteq Nat
        /\ steady \subseteq present /\ everseen \subseteq Keys /\ limit \in Nat
    BY <1>3, ListFacts DEF ListInv, ListShape, Keys
  <2>2. ListTypeOK
    <3>1. ASSUME NEW i \in DOMAIN ranges PROVE ranges[i] \in Keys \X (1..KeyCount + 1)
      <4>1. Parted(ranges)
        BY <2>1 DEF ListShape
      <4> QED
        BY <4>1 DEF Parted
    <3> QED
      BY <2>1, <3>1 DEF ListTypeOK, ListShape, RangeState
  <2>3. Listing \subseteq Shown(everseen)
    BY <2>1 DEF RangeState, Listing, Shown
  <2>4. ASSUME NEW i \in DOMAIN ranges, NEW j \in DOMAIN ranges, i # j, NEW e \in got[i] \cap got[j]
        PROVE  e.type = "prefix"
    <3>1. PICK k \in everseen : InRange(i, k) /\ e = Shows(k)
      BY <2>1 DEF RangeState, Shown
    <3>2. PICK n \in everseen : InRange(j, n) /\ e = Shows(n)
      BY <2>1 DEF RangeState, Shown
    <3>3. Parted(ranges)
      BY <2>1 DEF ListShape
    <3>4. k # n
      BY <2>1, <2>4, <3>1, <3>2, <3>3, EachInOne
    <3> QED
      BY <3>1, <3>2, <3>4 DEF Shows
  <2>5. limit # 0 => \A i \in DOMAIN ranges : Cardinality(got[i]) <= limit
    BY <2>1 DEF RangeState
  <2>6. ASSUME ListOver, NEW k \in steady
        PROVE  Shows(k) \in Listing \/ \E i \in DOMAIN ranges : k \in Left(i) /\ Full(i)
    <3>1. Parted(ranges) /\ k \in Keys
      BY <2>1, <2>6 DEF ListShape, ListOver
    <3>2. PICK i \in DOMAIN ranges : InRange(i, k)
      BY <3>1, EachInOne
    <3>3. CASE k <= passed[i]
      BY <2>1, <3>2, <3>3 DEF RangeState, Listing
    <3>4. CASE ~(k <= passed[i])
      <4>1. more[i]
        BY <2>1, <3>2, <3>4 DEF RangeState
      <4>2. Listed(i)
        BY <2>6 DEF ListOver
      <4>3. Full(i)
        BY <4>1, <4>2 DEF Listed
      <4>4. passed[i] \in Nat /\ k \in Nat
        <5>1. passed[i] \in 0..KeyCount
          BY <2>1 DEF RangeState
        <5>2. k \in Nat
          BY <2>1, <3>1
        <5> QED
          BY <5>1, <5>2, ListFacts
      <4>5. k \in Left(i)
        BY <2>1, <3>2, <3>4, <4>4 DEF Left, InRange
      <4> QED
        BY <4>3, <4>5
    <3> QED
      BY <3>3, <3>4
  <2> QED
    BY <2>2, <2>3, <2>4, <2>5, <2>6 DEF ListsEverything
<1> QED
  BY <1>1, <1>2, <1>3, PTL DEF ListSpec

=============================================================================
