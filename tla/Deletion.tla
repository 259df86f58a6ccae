------------------------------ MODULE Deletion ------------------------------
(***************************************************************************)
(* rm() of gcsfs/extended_gcsfs.py and core.py.  The paths of a call are   *)
(* grouped by bucket, and the groups run at once: each finds what its      *)
(* paths stand for, deletes the objects in batches whose failures are sent *)
(* again, and then the folders of a hierarchical bucket level by level,    *)
(* the bucket last.  Meanwhile others create objects, and replies are lost.*)
(***************************************************************************)
EXTENDS Naturals, Sequences, SequencesExt, FiniteSets

CONSTANTS
  Parts,         \* parts of names, with the empty one
  RmCalls,       \* the calls, and what the buckets hold when they are made
  BatchSize,     \* batchsize
  CreateNames,   \* names of the objects that others create
  RmAttempts,    \* times a batch is sent: 5 in the code
  MaxRmFaults,   \* bound: failed or lost requests
  MaxCreates     \* bound: objects that others create

\* A name is the sequence of its parts; a marker object "d/" ends in an empty part.
Root == <<>>   \* the bucket itself
Marker(d) == Append(d, "")
IsMarker(n) == n # Root /\ Last(n) = ""
Ancestors(n) == {SubSeq(n, 1, k) : k \in 0..Len(n) - 1}
Under(p, S) == {n \in S : IsStrictPrefix(p, n)}
Children(p, S) == {n \in Under(p, S) : Len(n) = Len(p) + 1 /\ ~IsMarker(n)}

\* The name of an object has no empty part but at its end.
Names == Seq(Parts)
ObjectNames == {n \in Names \ {Root} : \A d \in Ancestors(n) : ~IsMarker(d)}

\* A path of a call is a name or, with star, the pattern of all names just below it.
ASSUME DeletionAssumption ==
  /\ "" \in Parts /\ BatchSize \in Nat \ {0} /\ RmAttempts \in Nat \ {0} /\ MaxRmFaults \in Nat /\ MaxCreates \in Nat
  /\ CreateNames \subseteq ObjectNames
  /\ \A c \in RmCalls : c.recursive \in BOOLEAN /\ c.maxdepth \in Nat
  /\ \A c \in RmCalls : DOMAIN c.objects = DOMAIN c.paths /\ DOMAIN c.folders = DOMAIN c.paths
  /\ \A c \in RmCalls : \A b \in DOMAIN c.paths :
       /\ c.hns[b] \in BOOLEAN /\ c.paths[b] \in Seq([name : Names, star : BOOLEAN])
       /\ \A i \in DOMAIN c.paths[b] : ~IsMarker(c.paths[b][i].name)
       /\ IsFiniteSet(c.objects[b]) /\ IsFiniteSet(c.folders[b])
       /\ c.objects[b] \subseteq ObjectNames /\ Root \in c.folders[b] /\ c.folders[b] \subseteq Names
       /\ \A n \in c.folders[b] : ~IsMarker(n) /\ Ancestors(n) \subseteq c.folders[b]
       /\ IF c.hns[b] THEN \A n \in c.objects[b] : Front(n) \in c.folders[b]
                      ELSE c.folders[b] = {Root}

VARIABLES
  rmCall,     \* the call: hns, objects, folders, paths, recursive, maxdepth (0 for None)
  objects,    \* names of the objects of each bucket
  folders,    \* names of its folders, with Root while the bucket exists
  group,      \* state of the group of each bucket
  shown,      \* entries of the cached listings: pairs of a name and a type
  created,    \* what others created
  rmFaults
rmVars == <<rmCall, objects, folders, group, shown, created, rmFaults>>

Groups == DOMAIN rmCall.paths   \* the buckets of the call
Hns(b) == rmCall.hns[b]
Unbounded == rmCall.recursive /\ rmCall.maxdepth = 0
\* Mistake: maxdepth is forgotten.
Near_All(q, S) == S
Near(q, S) == {n \in S : q.depth = 0 \/ Len(n) <= Len(q.name) + q.depth}
FileEntries(S) == {<<n, "file">> : n \in S}
DirEntries(S) == {<<n, "directory">> : n \in S}
NamesOf(S, type) == {e[1] : e \in {x \in S : x[2] = type}}

\* stage "expand": todo paths with their depth left, of the first the listings asked for and the entries they
\* listed, found entries and the paths that stay unsure; "files": jobs, the batches; "dirs": the directories
\* left and those whose marker is removed; "over": ended says how.
ToExpand(name, star, depth) == [name |-> name, star |-> star, depth |-> depth]
NewGroup(c, b) ==
  [stage |-> "expand", asked |-> {}, listed |-> {}, found |-> {}, unsure |-> {},
   jobs |-> {}, gone |-> {}, failed |-> FALSE,
   todo |-> [i \in DOMAIN c.paths[b] |-> ToExpand(c.paths[b][i].name, c.paths[b][i].star, c.maxdepth)],
   dirs |-> {}, marked |-> {}, ended |-> "no"]

RmInit ==
  /\ rmCall \in RmCalls
  /\ objects = rmCall.objects /\ folders = rmCall.folders
  /\ group = [b \in Groups |-> NewGroup(rmCall, b)]
  /\ shown = [b \in Groups |-> FileEntries({n \in objects[b] : ~IsMarker(n)})
                                    \cup DirEntries(folders[b] \ {Root})]
  /\ created = [b \in Groups |-> {}] /\ rmFaults = 0

-----------------------------------------------------------------------------
(* The expansion: for each path the objects and, in a hierarchical bucket,  *)
(* at once the folders, and the path itself if neither shows it.            *)

\* _find(p): the objects below p or, if there is none, p itself; with the folders from p on.
AllObjects(b, p) == IF Under(p, objects[b]) # {} THEN Under(p, objects[b]) ELSE objects[b] \cap {p}
AllFolders(b, p) == {d \in folders[b] \ {Root} : IsPrefix(p, d)}
FindObjects(b, q) == Near(q, AllObjects(b, q.name))
FindFolders(b, q) == Near(q, AllFolders(b, q.name))

\* The directories a flat bucket shows: the parents of its objects.
ShownDirs(b) == IF Hns(b) THEN folders[b] \ {Root} ELSE (UNION {Ancestors(n) : n \in objects[b]}) \ {Root}

\* The group takes up a request of the first of its paths.
At(b, stage) == group[b].stage = stage /\ group[b].ended = "no"
First(b) == Head(group[b].todo)
Expanding(b, star) == At(b, "expand") /\ group[b].todo # <<>> /\ First(b).star = star
Expands(b, entries, todo, asked, listed, unsure) ==
  group' = [group EXCEPT ![b] = [group[b] EXCEPT !.found = @ \cup entries, !.todo = todo, !.asked = asked,
                                                 !.listed = listed, !.unsure = @ \cup unsure]]
Passes(b, entries, unsure) == Expands(b, entries, Tail(group[b].todo), {}, {}, unsure)
Finds(b, entries) == Passes(b, entries, {})
GroupEnds(b, how) == group' = [group EXCEPT ![b].stage = "over", ![b].ended = how]
BucketsStay == UNCHANGED <<rmCall, objects, folders, created>>
GroupOnly == BucketsStay /\ UNCHANGED <<shown, rmFaults>>

\* The cached listings after a listing of all that is below p: those of the directories it shows, and of p
\* if anything is there, hold what it shows, and an object hides the directory of its name.
Relisted(b, p, entries) ==
  LET above == {d \in UNION {Ancestors(e[1]) : e \in entries} : IsPrefix(p, d)}
      anew  == above \cup NamesOf(entries, "directory")
      shows == entries \cup DirEntries(above \ {p})
      hidden == DirEntries(NamesOf(entries, "file"))
  IN {e \in shown[b] : Front(e[1]) \notin anew} \cup {e \in shows \ hidden : Front(e[1]) \in anew}
Relists(b, entries) == shown' = [shown EXCEPT ![b] = Relisted(b, First(b).name, entries)]

\* A pattern: a directory hides the object of its name; its matches are expanded in turn,
\* and none at all ends the group there.
Glob(b) ==
  /\ Expanding(b, TRUE) /\ BucketsStay /\ UNCHANGED rmFaults
  /\ Relists(b, FileEntries(AllObjects(b, First(b).name)) \cup DirEntries(IF Hns(b) THEN AllFolders(b, First(b).name) ELSE {}))
  /\ LET q  == First(b)
         ds == Children(q.name, ShownDirs(b))
         fs == Children(q.name, objects[b]) \ ds
         deeper == IF q.depth = 0 THEN 0 ELSE q.depth - 1
     IN IF ~rmCall.recursive \/ q.depth = 1 THEN Finds(b, FileEntries(fs) \cup DirEntries(ds))
        ELSE IF fs \cup ds = {} THEN GroupEnds(b, "missing")
        ELSE Expands(b, FileEntries(fs) \cup DirEntries(ds),
                     SetToSeq({ToExpand(n, FALSE, deeper) : n \in fs \cup ds}) \o Tail(group[b].todo), {}, {}, {})

\* A path of a hierarchical bucket: two listings at once, each answered when it may be; with the second the
\* cached listings are made anew, whatever the depth.
Listings == {"objects", "folders"}
Hears(b, listing, all, near) ==
  LET asked == group[b].asked \cup {listing}
      listed == group[b].listed \cup all
  IN /\ Expanding(b, FALSE) /\ Hns(b) /\ rmCall.recursive /\ listing \notin group[b].asked
     /\ Expands(b, near, group[b].todo, asked, listed, {})
     /\ IF asked = Listings THEN Relists(b, listed) ELSE UNCHANGED shown
     /\ BucketsStay /\ UNCHANGED rmFaults
AskObjects(b) ==
  Hears(b, "objects", FileEntries(AllObjects(b, First(b).name)), FileEntries(FindObjects(b, First(b))))
AskFolders(b) ==
  Hears(b, "folders", DirEntries(AllFolders(b, First(b).name)), DirEntries(FindFolders(b, First(b))))

\* Neither listing showed the path: _info says whether it is a file or a directory, and either if it is both.
Heard(b) == Expanding(b, FALSE) /\ Hns(b) /\ (rmCall.recursive => group[b].asked = Listings)
Known(b) == {<<First(b).name, "file">>, <<First(b).name, "directory">>} \cap group[b].found # {}
AskInfo(b) ==
  /\ Heard(b) /\ GroupOnly
  /\ LET p == First(b).name
         info == FileEntries({p} \cap objects[b]) \cup DirEntries({p} \cap folders[b])
     IN IF Known(b) \/ info = {} THEN Finds(b, {}) ELSE \E e \in info : Finds(b, {e})

\* A path of a flat bucket: taken as it is unless the call is recursive, and then added if it exists.
FlatBelow(b) == FindObjects(b, First(b)) \cup Near(First(b), Under(First(b).name, ShownDirs(b)))
ExpandFlat(b) ==
  /\ Expanding(b, FALSE) /\ ~Hns(b) /\ BucketsStay /\ UNCHANGED rmFaults
  /\ LET p == First(b).name
         itself == {p} \cap (objects[b] \cup ShownDirs(b) \cup folders[b])
     IN IF rmCall.recursive
        THEN Finds(b, FileEntries(FlatBelow(b) \cup itself)) /\ Relists(b, FileEntries(AllObjects(b, p)))
        ELSE Finds(b, FileEntries({p})) /\ UNCHANGED shown

\* The request for the path itself fails: the failure is passed over, and the path with it.
InfoFails(b) ==
  /\ rmFaults < MaxRmFaults /\ rmFaults' = rmFaults + 1 /\ BucketsStay
  /\ LET p == First(b).name
     IN \/ Heard(b) /\ ~Known(b) /\ Passes(b, {}, {p}) /\ UNCHANGED shown
        \/ /\ Expanding(b, FALSE) /\ ~Hns(b) /\ rmCall.recursive /\ p \notin FlatBelow(b)
           /\ Passes(b, FileEntries(FlatBelow(b)), {p}) /\ Relists(b, FileEntries(AllObjects(b, p)))

\* What the entries found become: the objects to delete, in batches, and the directories.
DirNames(b) == IF Hns(b) THEN NamesOf(group[b].found, "directory")
               ELSE {Root} \cap NamesOf(group[b].found, "file")
Hidden(b) == {d \in DirNames(b) \ {Root} : ~(Unbounded /\ Front(d) \in DirNames(b))}
FileNames(b) == IF Hns(b) THEN NamesOf(group[b].found, "file") \cup Hidden(b)
                ELSE {e[1] : e \in group[b].found} \ {Root}
Batches(S) ==
  LET s == SetToSeq(S)
      number(j) == (j - 1) \div BatchSize
  IN {[left |-> {s[j] : j \in {k \in DOMAIN s : number(k) = number(i)}}, sent |-> 0] : i \in DOMAIN s}

Expanded(b) ==
  /\ At(b, "expand") /\ group[b].todo = <<>> /\ GroupOnly
  /\ IF group[b].found = {} THEN GroupEnds(b, "missing")
     ELSE group' = [group EXCEPT ![b].stage = "files", ![b].jobs = Batches(FileNames(b)),
                                 ![b].dirs = DirNames(b)]

ExpansionFails(b) ==
  /\ At(b, "expand") /\ group[b].todo # <<>> /\ rmFaults < MaxRmFaults /\ rmFaults' = rmFaults + 1
  /\ GroupEnds(b, "error") /\ BucketsStay /\ UNCHANGED shown

-----------------------------------------------------------------------------
(* The batches.  The reply names an outcome for each object: those of a     *)
(* transient error, which may hide a success, are sent again.               *)

Faulty(o) == {n \in DOMAIN o : o[n] # "clean"}
\* Mistake: entries are told apart by their names alone.
Unshown_ByName(b, names) ==
  IF Hns(b) THEN {e \in shown[b] : e[1] \notin names}
  ELSE {e \in shown[b] : \A n \in names : Front(e[1]) \notin Ancestors(n) \cup {n}}
\* The cached listings lose the confirmed names alone or, of a flat bucket, go with their parents.
Unshown(b, names) ==
  IF Hns(b) THEN shown[b] \ FileEntries(names)
  ELSE {e \in shown[b] : \A n \in names : Front(e[1]) \notin Ancestors(n) \cup {n}}

SendBatch(b, job) ==
  /\ At(b, "files") /\ job \in group[b].jobs
  /\ \E o \in [job.left -> {"clean", "busy", "busyDone", "denied"}] :
       LET busy == {n \in job.left : o[n] \in {"busy", "busyDone"}}
           again == IF job.sent + 1 < RmAttempts THEN busy ELSE {}
           clean == job.left \ Faulty(o)
       IN /\ rmFaults + Cardinality(Faulty(o)) <= MaxRmFaults
          /\ rmFaults' = rmFaults + Cardinality(Faulty(o))
          /\ objects' = [objects EXCEPT ![b] = @ \ {n \in job.left : o[n] \in {"clean", "busyDone"}}]
          /\ group' = [group EXCEPT
               ![b].jobs = (@ \ {job}) \cup IF again = {} THEN {}
                                            ELSE {[left |-> again, sent |-> job.sent + 1]},
               ![b].gone = @ \cup FileEntries(clean \cap objects[b]),
               ![b].failed = @ \/ Faulty(o) \ again # {}]
          /\ shown' = [shown EXCEPT ![b] = Unshown(b, clean)]
  /\ UNCHANGED <<rmCall, folders, created>>

\* The whole request fails for good; it may have been carried out.
BatchFails(b, job) ==
  /\ At(b, "files") /\ job \in group[b].jobs /\ rmFaults < MaxRmFaults /\ rmFaults' = rmFaults + 1
  /\ \E done \in {{}, job.left} : objects' = [objects EXCEPT ![b] = @ \ done]
  /\ group' = [group EXCEPT ![b].jobs = @ \ {job}, ![b].failed = TRUE]
  /\ UNCHANGED <<rmCall, folders, shown, created>>

FilesDone(b) ==
  /\ At(b, "files") /\ group[b].jobs = {} /\ GroupOnly
  /\ group' = [group EXCEPT ![b].stage = "dirs"]

-----------------------------------------------------------------------------
(* The directories, deepest level first: the marker unless the listing      *)
(* showed it, then the folder.                                              *)

\* Mistake: all directories at once.
Level_All(b) == group[b].dirs
Level(b) == {d \in group[b].dirs : \A e \in group[b].dirs : Len(e) <= Len(d)}
MarkerFirst(b, d) == d # Root /\ ~Unbounded
Empty(b, d) == Under(d, objects[b]) = {} /\ Under(d, folders[b]) = {}
DirDone(b, d, failed) ==
  group' = [group EXCEPT ![b].dirs = @ \ {d}, ![b].failed = @ \/ failed,
                         ![b].gone = @ \cup IF failed \/ d \notin folders[b] THEN {} ELSE DirEntries({d})]

RemoveMarker(b, d) ==
  /\ At(b, "dirs") /\ d \in Level(b) /\ MarkerFirst(b, d) /\ d \notin group[b].marked
  /\ group' = [group EXCEPT ![b].marked = @ \cup {d}]
  /\ objects' = [objects EXCEPT ![b] = @ \ {Marker(d)}]
  /\ UNCHANGED <<rmCall, folders, shown, created, rmFaults>>

RemoveFolder(b, d) ==
  /\ At(b, "dirs") /\ d \in Level(b) /\ (MarkerFirst(b, d) => d \in group[b].marked)
  /\ LET removed == d \in folders[b] /\ Empty(b, d)
     IN /\ folders' = [folders EXCEPT ![b] = IF removed THEN @ \ {d} ELSE @]
        /\ DirDone(b, d, d \in folders[b] /\ ~Empty(b, d))
        /\ shown' = [shown EXCEPT ![b] = IF ~removed THEN @
             ELSE {e \in @ : e # <<d, "directory">> /\ Front(e[1]) # d}]
  /\ UNCHANGED <<rmCall, objects, created, rmFaults>>

\* A request for a directory fails for good; it may have been carried out.
DirectoryFails(b, d) ==
  /\ At(b, "dirs") /\ d \in Level(b) /\ rmFaults < MaxRmFaults /\ rmFaults' = rmFaults + 1
  /\ DirDone(b, d, TRUE)
  /\ \/ UNCHANGED <<objects, folders>>
     \/ MarkerFirst(b, d) /\ d \notin group[b].marked
        /\ objects' = [objects EXCEPT ![b] = @ \ {Marker(d)}] /\ UNCHANGED folders
     \/ (MarkerFirst(b, d) => d \in group[b].marked) /\ Empty(b, d)
        /\ folders' = [folders EXCEPT ![b] = @ \ {d}] /\ UNCHANGED objects
  /\ UNCHANGED <<rmCall, shown, created>>

\* The group ends; a flat one that deleted nothing at all says the path is missing.
GroupOver(b) ==
  /\ At(b, "dirs") /\ group[b].dirs = {} /\ GroupOnly
  /\ GroupEnds(b, IF group[b].failed THEN "error"
                  ELSE IF ~Hns(b) /\ group[b].gone = {} THEN "missing" ELSE "done")

\* The call returns when all groups have: an error of one is raised, and missing only if all are.
CallOver == \A b \in Groups : group[b].ended # "no"
RmResult == IF \E b \in Groups : group[b].ended = "error" THEN "error"
            ELSE IF \A b \in Groups : group[b].ended = "missing" THEN "missing" ELSE "returned"

\* Another client creates an object, and with it the folders above in a hierarchical bucket.
Create(b, n) ==
  /\ ~CallOver /\ Cardinality(UNION {created[c] : c \in Groups}) < MaxCreates
  /\ Root \in folders[b] /\ n \notin objects[b]
  /\ objects' = [objects EXCEPT ![b] = @ \cup {n}]
  /\ folders' = [folders EXCEPT ![b] = @ \cup IF Hns(b) THEN Ancestors(n) ELSE {}]
  /\ created' = [created EXCEPT ![b] = @ \cup {n} \cup Ancestors(n)]
  /\ UNCHANGED <<rmCall, group, shown, rmFaults>>

RmStep(b) ==
  \/ Glob(b) \/ AskObjects(b) \/ AskFolders(b) \/ AskInfo(b) \/ ExpandFlat(b) \/ InfoFails(b)
  \/ Expanded(b) \/ ExpansionFails(b) \/ FilesDone(b) \/ GroupOver(b)
  \/ \E job \in group[b].jobs : SendBatch(b, job) \/ BatchFails(b, job)
  \/ \E d \in group[b].dirs : RemoveMarker(b, d) \/ RemoveFolder(b, d) \/ DirectoryFails(b, d)
RmNext == \E b \in Groups : RmStep(b) \/ \E n \in CreateNames : Create(b, n)
RmSpec == RmInit /\ [][RmNext]_rmVars

-----------------------------------------------------------------------------
RmTypeOK ==
  /\ \A b \in Groups :
       /\ group[b].stage \in {"expand", "files", "dirs", "over"}
       /\ group[b].ended \in {"no", "done", "missing", "error"}
       /\ (group[b].ended = "no") = (group[b].stage # "over")
       /\ group[b].asked \subseteq {"objects", "folders"} /\ group[b].failed \in BOOLEAN
  /\ rmFaults \in 0..MaxRmFaults

\* What the paths of the call reach in a bucket, by their words alone.
InScope(b, n) ==
  \E i \in DOMAIN rmCall.paths[b] :
    LET q == rmCall.paths[b][i]
        of == IF IsMarker(n) THEN Front(n) ELSE n
        deepest == Len(q.name) + IF rmCall.recursive THEN rmCall.maxdepth ELSE IF q.star THEN 1 ELSE 0
    IN (IF q.star THEN IsStrictPrefix(q.name, of) ELSE IsPrefix(q.name, of))
       /\ (Unbounded \/ Len(of) <= deepest)
Before(b) == rmCall.objects[b] \cup rmCall.folders[b]
Undisturbed == rmFaults = 0 /\ \A b \in Groups : created[b] = {}

\* rm never deletes an object or a folder outside its paths and its depth, whatever fails, whoever
\* creates objects meanwhile, and however a name shared by an object and a folder is resolved.
RmWithinScope ==
  \A b \in Groups : \A n \in Before(b) :
    n \notin objects[b] \cup folders[b] => InScope(b, n)

\* A call without a depth limit that reports no failure for a bucket has left nothing of its paths
\* there, but what was created meanwhile and the path itself if its _info() failed: neither a marker,
\* nor the object a folder hides, nor the object whose batch reply said to try again.  Undisturbed,
\* such a call does not fail: children go before their parents and markers before their folder.  One
\* that says the path is missing has then deleted nothing.
RmHonest ==
  /\ RmTypeOK
  /\ \A b \in Groups :
       /\ group[b].ended = "done" /\ Unbounded =>
            \A n \in (objects[b] \cup folders[b]) \ (created[b] \cup group[b].unsure) : ~(InScope(b, n) /\ n \in Before(b))
       /\ Undisturbed /\ Unbounded => group[b].ended # "error"
       /\ Undisturbed /\ group[b].ended = "missing" => Before(b) = objects[b] \cup folders[b]

\* Below a path that the call expands, an object hides the directory of its name when the listings
\* are made anew.
Hides(b, d) ==
  /\ d \in rmCall.objects[b] \cup created[b]
  /\ \E i \in DOMAIN rmCall.paths[b] :
       /\ rmCall.recursive \/ rmCall.paths[b][i].star
       /\ IsStrictPrefix(rmCall.paths[b][i].name, d)

\* Listings of a hierarchical bucket do not mend themselves, so an entry leaves them only when it is
\* known to be gone, and does then: an object or folder still there is still listed, whatever the
\* depth of the call, however the two listings of its expansion are answered, and whatever became of
\* the others in its batch or of the object that shares its name.  Only a folder which an object
\* hides is not.
RmKeepsListings ==
  \A b \in Groups : Hns(b) =>
    /\ FileEntries({n \in (objects[b] \cap rmCall.objects[b]) \ created[b] : ~IsMarker(n)}) \subseteq shown[b]
    /\ DirEntries({d \in (folders[b] \cap rmCall.folders[b]) \ (created[b] \cup {Root}) : ~Hides(b, d)}) \subseteq shown[b]
    /\ group[b].gone \cap shown[b] = {}

\* Every call comes to an end: batches give up after their attempts, and a directory that could not
\* be removed does not hold up the level above.
RmEnds == <>CallOver

=============================================================================
