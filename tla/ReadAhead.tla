----------------------------- MODULE ReadAhead -----------------------------
(***************************************************************************)
(* What a read-ahead cache of one open file promises.  It holds one window *)
(* of the file.  A read inside the window costs no request; any other read *)
(* costs one, for what the window does not have of it and a block beyond,  *)
(* which becomes the window.                                               *)
(***************************************************************************)
EXTENDS Integers

CONSTANTS
  Size,   \* length of the file
  Block   \* bytes to read ahead

VARIABLES
  lo, hi,    \* the window is lo..hi-1
  requests   \* bytes asked of the server by the last read: <<from, to>>, or <<0, 0>>

Init == lo = 0 /\ hi = 0 /\ requests = <<0, 0>>

Least(m, n) == IF m < n THEN m ELSE n

Hit(start, end) == lo <= start /\ end <= hi /\ UNCHANGED <<lo, hi>> /\ requests' = <<0, 0>>

Miss(start, end) ==
  LET from == IF lo <= start /\ start < hi THEN hi ELSE start IN
  /\ ~(lo <= start /\ end <= hi)
  /\ lo' = from /\ hi' = Least(Size, end + Block) /\ requests' = <<lo', hi'>>

\* The request fails or brings nothing: the window is lost.
Fail == \E at \in 0..Size : lo' = at /\ hi' = at /\ requests' = <<0, 0>>

Next == Fail \/ \E start, end \in 0..Size : start < end /\ (Hit(start, end) \/ Miss(start, end))

Spec == Init /\ [][Next]_<<lo, hi, requests>>
=============================================================================
