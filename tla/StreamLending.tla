--------------------------- MODULE StreamLending ---------------------------
(***************************************************************************)
(* What a pool of streams promises its callers: a stream that somebody     *)
(* uses is open, it is retired only when nobody uses it, a caller uses one *)
(* stream at a time, and no more than Limit streams are open.              *)
(***************************************************************************)
EXTENDS Integers, FiniteSets

CONSTANTS Streams, Users, Limit

VARIABLES live,  \* the streams the pool keeps open
          users  \* who uses each stream

lendingVars == <<live, users>>

Unserved(u) == \A m \in Streams : u \notin users[m]

LendingInit == live = {} /\ users = [m \in Streams |-> {}]

\* A stream is opened, or comes from elsewhere, for later use.
Supply(m) ==
  /\ live' = live \cup {m}
  /\ Cardinality(live') <= Limit
  /\ UNCHANGED users

\* A caller gets a stream, which is opened for it if it has to be.
Lend(u, m) ==
  /\ Unserved(u)
  /\ users' = [users EXCEPT ![m] = @ \cup {u}]
  /\ live' = live \cup {m}
  /\ Cardinality(live') <= Limit

\* The last user of a stream may retire it as it gives it back.
GiveBack(u, m) ==
  /\ u \in users[m]
  /\ users' = [users EXCEPT ![m] = @ \ {u}]
  /\ live' = live \/ (users'[m] = {} /\ live' = live \ {m})

Retire(S) ==
  /\ \A m \in S : users[m] = {}
  /\ live' = live \ S
  /\ UNCHANGED users

LendingNext ==
  \/ \E m \in Streams : Supply(m) \/ \E u \in Users : Lend(u, m) \/ GiveBack(u, m)
  \/ \E S \in SUBSET live : Retire(S)

LendingSpec == LendingInit /\ [][LendingNext]_lendingVars
=============================================================================
