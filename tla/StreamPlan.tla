----------------------------- MODULE StreamPlan -----------------------------
(***************************************************************************)
(* How _cat_ranges() of gcsfs/extended_gcsfs.py plans its streams: the     *)
(* loop of _allocate_streams() gives every object a number of streams, and *)
(* the loop of _split_ranges_across_streams(), shown for object 1, gives   *)
(* every stream a group of ranges.                                         *)
(***************************************************************************)
EXTENDS Integers, FiniteSetsExt, Bounds

CONSTANTS
  NumObjects,  \* the number of objects
  MaxCount,    \* bound: ranges of an object
  MaxTotal,    \* bound: streams of the call, and of an object
  MaxLength    \* bound: length of a range

ASSUME PlanAssumption ==
  /\ NumObjects \in Nat \ {0} /\ MaxCount \in Nat \ {0} /\ MaxTotal \in Nat \ {0} /\ MaxLength \in Nat

VARIABLES
  counts,   \* ranges of each object
  total,    \* total_streams
  cap,      \* per_object_cap
  share,    \* streams of each object so far
  budget,   \* streams left to give
  len,      \* length of each range of object 1
  group,    \* group of each range of object 1, 0 if it has none yet
  load      \* bytes in each group

planInputs == <<counts, total, cap, len>>
planVars == <<planInputs, share, budget, group, load>>

Objs == 1..NumObjects

\* caps of _allocate_streams()
Cap(o) == Most(1, Least(counts[o], cap))

\* The turns of the loop of _allocate_streams().
Budget == Most(0, Least(total, MapThenSumSet(Cap, Objs)) - NumObjects)

PlanInit ==
  /\ counts \in [Objs -> 1..MaxCount] /\ total \in 1..MaxTotal /\ cap \in 1..MaxTotal
  /\ share = [o \in Objs |-> 1]
  /\ budget = Budget
  /\ len \in [1..counts[1] -> 0..MaxLength]
  /\ group = [r \in 1..counts[1] |-> 0] /\ load = [g \in 1..MaxTotal |-> 0]

\* The objects in the heap, and whether o comes before p: it has more ranges per
\* stream, or as many and the lower index.
InHeap == {o \in Objs : share[o] < Cap(o)}
Before(o, p) ==
  \/ counts[o] * share[p] > counts[p] * share[o]
  \/ counts[o] * share[p] = counts[p] * share[o] /\ o <= p

\* Mistake: the first object in the heap, however many streams it has.
GiveOne_First ==
  /\ budget > 0 /\ budget' = budget - 1
  /\ \E o \in InHeap :
       /\ \A p \in InHeap : o <= p
       /\ share' = [share EXCEPT ![o] = @ + 1]
  /\ UNCHANGED <<planInputs, group, load>>

\* One turn of the loop of _allocate_streams().
GiveOne ==
  /\ budget > 0 /\ budget' = budget - 1
  /\ \E o \in InHeap :
       /\ \A p \in InHeap : Before(o, p)
       /\ share' = [share EXCEPT ![o] = @ + 1]
  /\ UNCHANGED <<planInputs, group, load>>

-----------------------------------------------------------------------------
\* The non-empty ranges, and the groups they are split into.
Requests == {r \in DOMAIN len : len[r] > 0}
NumGroups == Most(1, Least(share[1], Cardinality(Requests)))
Waiting == {r \in Requests : group[r] = 0}

\* The order of the sort, by length and reversed, and that of the heap.
Larger(r, q) == len[r] > len[q] \/ (len[r] = len[q] /\ r <= q)
Lighter(g, h) == load[g] < load[h] \/ (load[g] = load[h] /\ g <= h)

\* One turn of the loop of _split_ranges_across_streams().
Assign ==
  /\ budget = 0
  /\ \E r \in Waiting, g \in 1..NumGroups :
       /\ \A q \in Waiting : Larger(r, q)
       /\ \A h \in 1..NumGroups : Lighter(g, h)
       /\ group' = [group EXCEPT ![r] = g] /\ load' = [load EXCEPT ![g] = @ + len[r]]
  /\ UNCHANGED <<planInputs, share, budget>>

PlanNext == GiveOne \/ Assign
PlanSpec == PlanInit /\ [][PlanNext]_planVars

-----------------------------------------------------------------------------
PlanTypeOK ==
  /\ counts \in [Objs -> 1..MaxCount] /\ total \in 1..MaxTotal /\ cap \in 1..MaxTotal
  /\ \A o \in Objs : share[o] \in 1..Cap(o)
  /\ budget \in Nat
  /\ len \in [1..counts[1] -> 0..MaxLength]
  /\ group \in [1..counts[1] -> 0..MaxTotal] /\ load \in [1..MaxTotal -> Nat]

\* "in proportion to their range counts" (_allocate_streams): no stream of an
\* object would serve more ranges at another object that could take it.
Proportional ==
  \A o, p \in Objs :
    share[o] > 1 /\ share[p] < Cap(p) => counts[o] * share[p] >= counts[p] * (share[o] - 1)

\* The budget goes out to the last stream, and the heap is not empty before.
Alloc(o) == share[o]
BudgetSpent ==
  /\ budget > 0 => InHeap # {}
  /\ MapThenSumSet(Alloc, Objs) + budget = Most(NumObjects, Least(total, MapThenSumSet(Cap, Objs)))

\* "byte-balanced groups" (_split_ranges_across_streams): without any one of its
\* ranges, a group has no more bytes than another.
Balanced ==
  \A r \in Requests, h \in 1..NumGroups :
    group[r] > 0 => load[group[r]] - len[r] <= load[h]

\* No stream is left without a range while there are enough ranges.
NoIdleStream ==
  budget = 0 /\ Waiting = {} /\ Requests # {} => {group[r] : r \in Requests} = 1..NumGroups
\* The plan as a whole, at every turn of either loop.
PlanFair == PlanTypeOK /\ Proportional /\ BudgetSpent /\ Balanced /\ NoIdleStream
=============================================================================
