---------------------------- MODULE MCBucketOps -----------------------------
(***************************************************************************)
(* BucketOps on small buckets.  The names are "run", "run/a", "run/a/x",   *)
(* each of them an object, a folder or both, in a hierarchical bucket "h"  *)
(* and in a flat one "f".                                                  *)
(***************************************************************************)
EXTENDS BucketOps

run == <<"run">>
a == <<"run", "a">>
x == <<"run", "a", "x">>

Path(n) == <<[name |-> n, star |-> FALSE]>>
Star(n) == <<[name |-> n, star |-> TRUE]>>

World(objs, dirs) == [objects |-> objs, folders |-> dirs]
Worlds(b) ==
  IF b = "h" THEN {World({a, x, Marker(run), Marker(a)}, {Root, run, a}), World({run, a}, {Root, run})}
             ELSE {World({run, x, a}, {Root}), World({x}, {Root})}
PathLists(b) ==
  IF b = "h" THEN {Path(run), Path(a), Star(run), Path(Root), Star(a) \o Path(run), Path(x) \o Star(a)}
             ELSE {Path(run), Path(Root), Star(Root)}

Call(B, world, paths, recursive, maxdepth) ==
  [hns |-> [b \in B |-> b = "h"], objects |-> [b \in B |-> world[b].objects],
   folders |-> [b \in B |-> world[b].folders], paths |-> [b \in B |-> paths[b]],
   recursive |-> recursive, maxdepth |-> maxdepth]
OneBucket(b) ==
  {Call({b}, [c \in {b} |-> w], [c \in {b} |-> p], r[1], r[2]) :
     w \in Worlds(b), p \in PathLists(b), r \in {<<FALSE, 0>>, <<TRUE, 0>>, <<TRUE, 1>>, <<TRUE, 2>>}}
TwoBuckets ==
  {Call({"h", "f"}, [c \in {"h", "f"} |-> IF c = "h" THEN World({run, a}, {Root, run}) ELSE World(S, {Root})],
        [c \in {"h", "f"} |-> Path(run)], TRUE, 0) : S \in {{}, {run}}}

MCRmCalls == OneBucket("h") \cup OneBucket("f") \cup TwoBuckets
MCCreateNames == {<<"run", "a", "y">>, a}

\* A report of all names; three of which the last two are of the newest day and out of order, with a
\* name twice and one of another prefix; and one that begins late.
MCReports ==
  {{[made |-> 5, rows |-> <<1, 2, 3, 4, 5>>]},
   {[made |-> 3, rows |-> <<1>>], [made |-> 4, rows |-> <<0, 2, 5>>], [made |-> 5, rows |-> <<3, 2>>]},
   {[made |-> 4, rows |-> <<3, 4, 5>>]}}
=============================================================================
