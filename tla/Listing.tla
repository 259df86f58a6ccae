------------------------------ MODULE Listing -------------------------------
(***************************************************************************)
(* Listing a bucket over HTTP, page by page (core.py), plainly or at once  *)
(* in the ranges into which the newest inventory report divides the names  *)
(* (inventory_report.py), while others create and delete objects.  A page  *)
(* stands for objects and, with a delimiter, for prefixes of several.      *)
(***************************************************************************)
EXTENDS Integers, Sequences, SequencesExt, FiniteSets

CONSTANTS
  KeyCount,       \* the names below the prefix listed are 1..KeyCount, in order
  InDir,          \* those of one subdirectory, which stand together
  PageSize,       \* page_size of a listing by ranges: 5000
  ItemsPerCall,   \* items_per_call: 1000
  DayLength,      \* of the times at which reports are made
  Reports,        \* sets of reports there may be: time made and rows
  Limits,         \* max_results of a plain listing, 0 for None
  MaxListChanges  \* bound: objects created and deleted meanwhile

Keys == 1..KeyCount
Outside == 0   \* a row of a report whose name lacks the prefix

ASSUME ListingAssumption ==
  /\ KeyCount \in Nat \ {0} /\ InDir \subseteq Keys /\ \A j, k \in InDir : j..k \subseteq InDir
  /\ PageSize \in Nat \ {0, 1} /\ ItemsPerCall \in Nat \ {0} /\ DayLength \in Nat \ {0}
  /\ \A R \in Reports : IsFiniteSet(R) /\ \A r \in R : r.made \in Nat /\ r.rows \in Seq(Keys \cup {Outside})
  /\ Limits \subseteq Nat /\ MaxListChanges \in Nat

VARIABLES
  present,   \* the objects
  steady,    \* those that have been there since the listing began
  everseen,  \* those that were there at some time since
  delimited, \* the delimiter is "/"
  reports,   \* the reports, or {} if none is configured
  limit,     \* max_results of each range
  ranges,    \* <<lowest, end>> of each; <<>> before they are known
  got,       \* entries listed of each range
  passed,    \* the last name of the pages of each range
  more,      \* a page of the range said that others follow, or there was none yet
  listChanges

listVars == <<present, steady, everseen, delimited, reports, limit, ranges, got, passed, more, listChanges>>

MinOfTwo(a, b) == IF a <= b THEN a ELSE b

ListInit ==
  /\ present \in SUBSET Keys /\ steady = present /\ everseen = present
  /\ delimited \in BOOLEAN /\ reports \in Reports \cup {{}}
  /\ limit \in IF reports = {} THEN Limits ELSE {PageSize}
  /\ ranges = <<>> /\ got = <<>> /\ passed = <<>> /\ more = <<>> /\ listChanges = 0

-----------------------------------------------------------------------------
(* The names of the newest report.                                          *)

\* Every report made on the day of the newest belongs to it.
Date(t) == t \div DayLength
NewestDay == Date(Max({r.made : r \in reports}))
Newest == {r \in reports : Date(r.made) = NewestDay}

\* The rows of those reports with the prefix.
Rows == UNION {{<<r, j>> : j \in {x \in DOMAIN r.rows : r.rows[x] # Outside}} : r \in Newest}
\* Their names sorted, the i-th being the first with i rows up to it; a name may come twice.
SnapshotNames ==
  LET rows    == Rows
      upTo(k) == Cardinality({x \in rows : x[1].rows[x[2]] <= k})
  IN [i \in 1..Cardinality(rows) |-> Min({k \in Keys : upTo(k) >= i})]

\* Mistake: the end of a range is the last of its names.
Ranges_EndsInside(names) ==
  LET count  == Len(names) \div PageSize + 1
      each   == Len(names) \div count
      from(i) == IF (i - 1) * each = 0 THEN 1 ELSE names[(i - 1) * each + 1]
      end(i)  == IF i = count \/ i * each = Len(names) THEN KeyCount + 1 ELSE names[i * each]
  IN [i \in 1..count |-> <<from(i), end(i)>>]

\* One range for each page the report promises, the last with what the division leaves.
Ranges(names) ==
  LET count  == Len(names) \div PageSize + 1
      each   == Len(names) \div count
      from(i) == IF (i - 1) * each = 0 THEN 1 ELSE names[(i - 1) * each + 1]
      end(i)  == IF i = count \/ i * each = Len(names) THEN KeyCount + 1 ELSE names[i * each + 1]
  IN [i \in 1..count |-> <<from(i), end(i)>>]

Divide ==
  /\ ranges = <<>>
  /\ IF reports = {} THEN ranges' = << <<1, KeyCount + 1>> >>
     ELSE \E names \in {SnapshotNames} : ranges' = Ranges(names)
  /\ got' = [i \in DOMAIN ranges' |-> {}] /\ passed' = [i \in DOMAIN ranges' |-> 0]
  /\ more' = [i \in DOMAIN ranges' |-> TRUE]
  /\ UNCHANGED <<present, steady, everseen, delimited, reports, limit, listChanges>>

-----------------------------------------------------------------------------
(* The pages of a range.                                                    *)

\* The names of a subdirectory are shown by its prefix.
Shows(k) == IF delimited /\ k \in InDir THEN [type |-> "prefix", of |-> Max(InDir)]
            ELSE [type |-> "item", of |-> k]
Shown(S) == {Shows(k) : k \in S}
Left(i) == {k \in present : ranges[i][1] <= k /\ k < ranges[i][2] /\ k > passed[i]}
Full(i) == limit # 0 /\ Cardinality(got[i]) >= limit
Wanted(i) ==
  IF limit = 0 THEN ItemsPerCall ELSE MinOfTwo(ItemsPerCall, limit - Cardinality(got[i]))

\* The server lists at most as many as wanted, but some if there are any, and says if more follow.
Page(i) ==
  /\ i \in DOMAIN ranges /\ more[i] /\ ~Full(i)
  /\ \E last \in IF Left(i) = {} THEN {passed[i]} ELSE {Shows(k).of : k \in Left(i)} :
       LET page == Shown({k \in Left(i) : k <= last})
       IN /\ Cardinality(page) <= Wanted(i)
          /\ got' = [got EXCEPT ![i] = @ \cup page]
          /\ passed' = [passed EXCEPT ![i] = last]
          /\ more' = [more EXCEPT ![i] = \E k \in Left(i) : k > last]
  /\ UNCHANGED <<present, steady, everseen, delimited, reports, limit, ranges, listChanges>>

Listed(i) == ~more[i] \/ Full(i)
ListOver == ranges # <<>> /\ \A i \in DOMAIN ranges : Listed(i)
Listing == UNION {got[i] : i \in DOMAIN ranges}

\* Others create and delete objects.
ObjectChanges(k) ==
  /\ ~ListOver /\ listChanges < MaxListChanges /\ listChanges' = listChanges + 1
  /\ present' = IF k \in present THEN present \ {k} ELSE present \cup {k}
  /\ steady' = steady \ {k} /\ everseen' = everseen \cup {k}
  /\ UNCHANGED <<delimited, reports, limit, ranges, got, passed, more>>

ListStep == Divide \/ \E i \in DOMAIN ranges : Page(i)
ListNext == ListStep \/ \E k \in Keys : ObjectChanges(k)
ListSpec == ListInit /\ [][ListNext]_listVars

-----------------------------------------------------------------------------
ListTypeOK ==
  /\ steady \subseteq present /\ present \subseteq everseen /\ everseen \subseteq Keys
  /\ listChanges \in 0..MaxListChanges
  /\ \A i \in DOMAIN ranges : ranges[i] \in Keys \X (1..KeyCount + 1) /\ passed[i] \in 0..KeyCount

\* However old the report and however its pages fall, a listing has each object that stayed, once,
\* and none that never was: what it leaves out lies beyond the limit of its range.  The only entry
\* two ranges may both list is the prefix of a subdirectory that lies across their border.
ListsEverything ==
  /\ ListTypeOK
  /\ Listing \subseteq Shown(everseen)
  /\ \A i, j \in DOMAIN ranges : i # j => \A e \in got[i] \cap got[j] : e.type = "prefix"
  /\ limit # 0 => \A i \in DOMAIN ranges : Cardinality(got[i]) <= limit
  /\ ListOver => \A k \in steady :
       \/ Shows(k) \in Listing
       \/ \E i \in DOMAIN ranges : k \in Left(i) /\ Full(i)

\* A listing ends once the others stop creating objects.
ListEnds == <>ListOver

\* test_inventory_report_listing.py lists a bucket with a report of all its objects and without one
\* and checks equality.
ReportListsTheSame ==
  ListOver /\ reports # {} /\ listChanges = 0 /\ ToSet(SnapshotNames) = present => Listing = Shown(present)
=============================================================================
