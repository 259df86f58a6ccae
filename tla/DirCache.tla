------------------------------ MODULE DirCache ------------------------------
(***************************************************************************)
(* The directory listing cache of a file system (gcsfs/_dircache.py and    *)
(* the operations of core.py and extended_gcsfs.py that call it) beside    *)
(* the bucket it describes.  An operation is two steps: the server carries *)
(* it out, and later its reply arrives and the client updates the cache.   *)
(* Between the two the other tasks of the client run.                      *)
(***************************************************************************)
EXTENDS Integers, Sequences, SequencesExt, FiniteSets

CONSTANTS
  Paths,     \* paths in one bucket, as sequences of names
  Versions,  \* what a file's listing entry may say of its content
  Absent,    \* the version of a path that is no object
  Tasks,     \* asyncio tasks of the one client
  Clashes,   \* an object and a directory may have the same name
  MaxDoubts  \* bound: requests fail while at most so many paths are in doubt

Bucket == <<>>

ASSUME PathsAreSequences == \A p \in Paths : p \in Seq({p[i] : i \in DOMAIN p})
ASSUME PathsClosed == Bucket \in Paths /\ \A p \in Paths : p # Bucket => Front(p) \in Paths
ASSUME AbsentIsNoVersion == Absent \notin Versions
ASSUME ClashesBoolean == Clashes \in BOOLEAN
ASSUME MaxDoubtsNat == MaxDoubts \in Nat

VARIABLES
  hns,      \* the bucket has a hierarchical namespace
  file,     \* the version of the object at each path
  folders,  \* the folder objects (HNS)
  cache,    \* dircache: the cached directories with their listings
  op,       \* what each task waits for
  doubtful  \* history: paths whose cached entry a failed request may have left behind

server == <<hns, file, folders>>
vars == <<hns, file, folders, cache, op, doubtful>>

Idle == [kind |-> "idle"]

Ancestors(p) == {SubSeq(p, 1, n) : n \in 0..Len(p) - 1}
Below(p) == {q \in Paths : IsStrictPrefix(p, q)}
Children(p) == {q \in Below(p) : Len(q) = Len(p) + 1}

Entry(name, type, version) == [name |-> name, type |-> type, version |-> version]
DirEntry(p) == Entry(p, "directory", Absent)
FileEntry(p) == Entry(p, "file", file[p])

Objects == {p \in Paths : file[p] # Absent}
Dirs == IF hns THEN folders ELSE {d \in Paths \ {Bucket} : Below(d) \cap Objects # {}}

\* What the server lists in directory d.
Listing(d) ==
  {FileEntry(p) : p \in Children(d) \cap Objects} \cup {DirEntry(p) : p \in Children(d) \cap Dirs}

Init ==
  /\ hns \in BOOLEAN
  /\ file = [p \in Paths |-> Absent] /\ folders = {}
  /\ cache = <<>>
  /\ op = [t \in Tasks |-> Idle] /\ doubtful = {}

-----------------------------------------------------------------------------
(* Changes of the cache c. *)

Without(c, dirs) == [d \in DOMAIN c \ dirs |-> c[d]]

\* invalidate_cache(p)
Invalidate(c, p) == Without(c, {p} \cup Ancestors(p))

InvalidateAll(c, ps) == Without(c, ps \cup UNION {Ancestors(p) : p \in ps})

\* _cache_drop_entries
DropEntry(c, p, type) ==
  [d \in DOMAIN c |-> IF d = Front(p) THEN {e \in c[d] : ~(e.name = p /\ e.type = type)} ELSE c[d]]

\* _cache_upsert_entry
UpsertEntry(c, e) ==
  [d \in DOMAIN c |->
     IF d = Front(e.name)
     THEN {f \in c[d] : ~(f.name = e.name /\ f.type = e.type)} \cup {e} ELSE c[d]]

\* Mistake: a new directory stays hidden in the cached ancestors.
WriteUpdate_Parent(c, p) == Without(c, {Front(p)})

\* _write_file_cache_update
WriteUpdate(c, p) ==
  IF Front(p) \in DOMAIN c THEN Without(c, {Front(p)}) ELSE Invalidate(c, Front(p))

\* _rm_files_cache_update
DeleteUpdate(c, p) ==
  IF hns THEN DropEntry(c, p, "file") ELSE InvalidateAll(c, {p, Front(p)})

\* _mv_file_cache_update, with the entry the server replied
MoveUpdate(c, p, e) ==
  LET q    == e.name
      left == DropEntry(c, p, "file")
  IN IF ~hns THEN InvalidateAll(c, {Front(p), Front(q)})
     ELSE IF Front(q) \in DOMAIN left THEN UpsertEntry(left, e) ELSE Invalidate(left, Front(q))

\* _update_dircache_after_mkdir: each made directory, where the listing it
\* belongs to is cached.
MkdirUpdate(c, made) ==
  [d \in DOMAIN c |-> c[d] \cup {DirEntry(p) : p \in {m \in made : Front(m) = d}}]

\* _list_objects, and find for each directory it came upon
Store(c, listings) ==
  [d \in DOMAIN c \cup DOMAIN listings |-> IF d \in DOMAIN listings THEN listings[d] ELSE c[d]]

\* _hns_rmdir
RmdirUpdate(c, p) == DropEntry(Without(c, {p}), p, "directory")

\* _update_dircache_after_rename
RenameUpdate(c, p, q) ==
  LET gone == {p, q} \cup Below(p) \cup Below(q)
  IN UpsertEntry(DropEntry(Without(c, gone), p, "directory"), DirEntry(q))

\* A doubt about a path lasts as long as a listing that the client has kept of its
\* parent, of itself or of anything below it.
Lasting(doubts, kept) == {p \in doubts : ({p, Front(p)} \cup Below(p)) \cap kept # {}}

\* The cache becomes c, in which the listings of the directories fresh are new.
Caches(c, fresh) == cache' = c /\ doubtful' = Lasting(doubtful, DOMAIN c \ fresh)

-----------------------------------------------------------------------------
(* The server carries out a request of task t. *)

NoClash == Objects \cap Dirs = {}

Sent(t, what) ==
  /\ op[t] = Idle /\ op' = [op EXCEPT ![t] = what]
  /\ UNCHANGED <<hns, cache, doubtful>>
  /\ ~Clashes => NoClash'

\* An object written below missing folders makes them.
Makes(p) == IF hns THEN Ancestors(p) \ {Bucket} ELSE {}

\* put, pipe, cp, or the commit of an open file
Write(t, p) ==
  /\ p # Bucket
  /\ \E v \in Versions \ {file[p]} : file' = [file EXCEPT ![p] = v]
  /\ folders' = folders \cup Makes(p)
  /\ Sent(t, [kind |-> "write", path |-> p])

\* merge (compose)
Merge(t, p) ==
  /\ p # Bucket /\ Objects # {}
  /\ \E v \in Versions \ {file[p]} : file' = [file EXCEPT ![p] = v]
  /\ folders' = folders \cup Makes(p)
  /\ Sent(t, [kind |-> "merge"])

\* The delete of an object, or a 404 for it.
Delete(t, p) ==
  /\ p # Bucket
  /\ file' = [file EXCEPT ![p] = Absent] /\ UNCHANGED folders
  /\ Sent(t, [kind |-> "delete", path |-> p])

\* moveTo
Move(t, p, q) ==
  /\ p \in Objects /\ q \notin {p, Bucket}
  /\ file' = [file EXCEPT ![p] = Absent, ![q] = file[p]]
  /\ folders' = folders \cup Makes(q)
  /\ Sent(t, [kind |-> "move", path |-> p, entry |-> Entry(q, "file", file[p])])

\* What _info() finds at p, which _create_hns_folder asks first.
InfoFinds(p) ==
  \/ Front(p) \in DOMAIN cache /\ \E e \in cache[Front(p)] : e.name = p
  \/ p \in DOMAIN cache /\ cache[p] # {}
  \/ Front(p) \notin DOMAIN cache /\ p \in Objects

Mkdir(t, p, parents) ==
  LET made == {p} \cup IF parents THEN Makes(p) ELSE {} IN
  /\ hns /\ p # Bucket /\ ~InfoFinds(p)
  /\ p \notin folders /\ Front(p) \in folders \cup made \cup {Bucket}
  /\ folders' = folders \cup made /\ UNCHANGED file
  /\ Sent(t, [kind |-> "mkdir", made |-> made])

\* delete_folder, of an empty folder
Rmdir(t, p) ==
  /\ p \in folders /\ Below(p) \cap (Objects \cup folders) = {}
  /\ folders' = folders \ {p} /\ UNCHANGED file
  /\ Sent(t, [kind |-> "rmdir", path |-> p])

Renamed(r, p, q) == q \o SubSeq(r, Len(p) + 1, Len(r))

\* rename_folder
Rename(t, p, q) ==
  LET moving == {r \in Below(p) : r \in Objects \cup folders}
      came   == {Renamed(r, p, q) : r \in moving}
  IN
  /\ p \in folders /\ q \notin folders \cup {Bucket} /\ ~IsPrefix(p, q)
  /\ Front(q) \in folders \cup {Bucket} /\ came \subseteq Paths
  /\ file' = [r \in Paths |-> IF r \in Below(p) THEN Absent
                              ELSE IF r \in came THEN file[Renamed(r, q, p)] ELSE file[r]]
  /\ folders' = (folders \ ({p} \cup Below(p)))
                  \cup {q} \cup {Renamed(r, p, q) : r \in folders \cap Below(p)}
  /\ Sent(t, [kind |-> "rename", path |-> p, to |-> q])

\* The operation ended with an error of the server: nothing was renamed.
RenameRefused(t, p, q) ==
  /\ hns /\ op[t] = Idle /\ q # p
  /\ Caches(InvalidateAll(cache, {p, q}), {})
  /\ UNCHANGED <<server, op>>

\* ls of a directory whose listing is not in the cache
List(t, d) ==
  /\ IF d \in DOMAIN cache THEN cache[d] = {}
     ELSE d # Bucket /\ Front(d) \in DOMAIN cache => DirEntry(d) \in cache[Front(d)]
  /\ Listing(d) # {}
  /\ UNCHANGED server
  /\ Sent(t, [kind |-> "list", reply |-> [x \in {d} |-> Listing(d)]])

\* A find names each entry once: an object hides the directory of its name.
FoundListing(d) == {e \in Listing(d) : e.type = "file" \/ file[e.name] = Absent}

\* find lists everything below d and caches each directory it came upon.
Find(t, d) ==
  LET found == {x \in {d} \cup Below(d) : x \in Dirs \/ (x = Bucket /\ Listing(x) # {})} IN
  /\ UNCHANGED server
  /\ Sent(t, [kind |-> "list", reply |-> [x \in found |-> FoundListing(x)]])

-----------------------------------------------------------------------------
(* The reply reaches task t, which updates the cache. *)

Received(t, kind) ==
  /\ op[t].kind = kind /\ op' = [op EXCEPT ![t] = Idle]
  /\ UNCHANGED server

WriteDone(t)  == Received(t, "write")  /\ Caches(WriteUpdate(cache, op[t].path), {})
DeleteDone(t) == Received(t, "delete") /\ Caches(DeleteUpdate(cache, op[t].path), {})
MoveDone(t)   == Received(t, "move")   /\ Caches(MoveUpdate(cache, op[t].path, op[t].entry), {})
MkdirDone(t)  == Received(t, "mkdir")  /\ Caches(MkdirUpdate(cache, op[t].made), {})
RmdirDone(t)  == Received(t, "rmdir")  /\ Caches(RmdirUpdate(cache, op[t].path), {})
RenameDone(t) == Received(t, "rename") /\ Caches(RenameUpdate(cache, op[t].path, op[t].to), {})
ListDone(t)   == Received(t, "list")   /\ Caches(Store(cache, op[t].reply), DOMAIN op[t].reply)
MergeDone(t)  == Received(t, "merge")  /\ UNCHANGED <<cache, doubtful>>

\* The paths that a request of the server creates, changes or removes.
Touched(o) ==
  CASE o.kind \in {"write", "delete", "rmdir"} -> {o.path}
    [] o.kind = "move"   -> {o.path, o.entry.name}
    [] o.kind = "mkdir"  -> o.made
    [] o.kind = "rename" -> {o.path, o.to} \cup Below(o.path) \cup Below(o.to)
    [] OTHER             -> {}

\* Their listed entries, and those of the directories that come or go with them.
Doubts(o) == (UNION {{p} \cup Ancestors(p) : p \in Touched(o)}) \ {Bucket}

\* The call raises although the server has acted (a reply that is lost for good, a
\* reply that says NotFound to a repeated request, a checksum that does not match).
\* Of the calls only the rename touches the cache on its way out.
Failed(t) ==
  LET o == op[t]
      held == IF o.kind = "rename" THEN InvalidateAll(cache, {o.path, o.to}) ELSE cache
  IN
  /\ o.kind \notin {"idle", "merge"} /\ Cardinality(doubtful) <= MaxDoubts
  /\ op' = [op EXCEPT ![t] = Idle]
  /\ cache' = held /\ doubtful' = Lasting(doubtful \cup Doubts(o), DOMAIN held)
  /\ UNCHANGED server

\* invalidate_cache() by the user
Refresh(p) ==
  /\ Caches(Invalidate(cache, p), {})
  /\ UNCHANGED <<server, op>>

Next ==
  \/ \E t \in Tasks :
       \/ \E p \in Paths :
            \/ Write(t, p) \/ Delete(t, p) \/ Rmdir(t, p) \/ List(t, p) \/ Find(t, p)
            \/ \E parents \in BOOLEAN : Mkdir(t, p, parents)
            \/ \E q \in Paths : Move(t, p, q) \/ Rename(t, p, q) \/ RenameRefused(t, p, q)
       \/ WriteDone(t) \/ DeleteDone(t) \/ MoveDone(t) \/ MkdirDone(t)
       \/ RmdirDone(t) \/ RenameDone(t) \/ ListDone(t) \/ Failed(t)
  \/ \E p \in Paths : Refresh(p)

Spec == Init /\ [][Next]_vars

\* Clients that also compose objects.
MergeSpec ==
  Init /\ [][Next \/ \E t \in Tasks : MergeDone(t) \/ \E p \in Paths : Merge(t, p)]_vars

-----------------------------------------------------------------------------
Entries == [name : Paths, type : {"file", "directory"}, version : Versions \cup {Absent}]

TypeOK ==
  /\ file \in [Paths -> Versions \cup {Absent}] /\ file[Bucket] = Absent
  /\ hns \in BOOLEAN /\ folders \subseteq Paths \ {Bucket} /\ (~hns => folders = {})
  /\ DOMAIN cache \subseteq Paths
  /\ \A d \in DOMAIN cache :
       cache[d] \subseteq Entries /\ \A e \in cache[d] : e.name \in Children(d)
  /\ DOMAIN op = Tasks /\ doubtful \subseteq Paths

OutsideDoubt(entries) == {e \in entries : e.name \notin doubtful}

\* "After any mutating operation (delete, write, move, ...) that cache must be
\* kept consistent with the bucket" (_dircache.py): when no operation is under
\* way every cached listing is what the server would list, but for the entries
\* that a request which raised after the server had acted left behind, and
\* these only as long as a listing from before is cached at or around them.
Coherent ==
  /\ TypeOK
  /\ (\A t \in Tasks : op[t] = Idle) =>
       \A d \in DOMAIN cache : OutsideDoubt(cache[d]) = OutsideDoubt(Listing(d))
=============================================================================
