# gcsfs in TLA+

gcsfs is a Python file system over Google Cloud Storage: fsspec calls come in,
and HTTP requests (standard and hierarchical buckets) or gRPC streams (zonal
buckets, Rapid Cache Ultra) go out. Most of it runs as tasks of one asyncio event
loop; some as threads that wait for it, or as jobs of a thread pool. This
directory holds TLA+ models of the parts whose correctness depends on the order
of such steps, on failures half-way, or on arithmetic at the edges; TLC
configurations that check them on small instances; and proofs, checked by TLAPS,
that several of their properties hold for every value of the constants.

Paths such as `core.py:852` are relative to `src/gcsfs/`.

Contents: 1 inventory, 2 modules and the code, 3 runs, bounds and fairness,
4 proofs, 5 where code and documents disagree, 6 what is not modelled, 7 plan.

## 1. Inventory

| Component | Code | State | Operations | Calls and shares |
|---|---|---|---|---|
| Stream pool | `MRDPool`, zb_hns_utils.py:668 | queue of free streams, list of all, slot and reference counts, condition | `initialize`, `get_mrd` (a context manager), `close` | takes idle streams from the cache of pools, gives unused ones back |
| Cache of pools | `MRDPoolCache`, zb_hns_utils.py:974 | a queue of idle streams and a reference count per object, LRU of unreferenced keys | `get`, `get_idle_mrd`, `release`, `close` | called by zonal files, `_cat_file`, `_cat_ranges` |
| Memory writer | `DirectMemmoveBuffer`, `PartialView`, zb_hns_utils.py:377-651 | semaphore, pending count, event, lock, bytes written | `get_view`, `write`, a pool job, `get_value`, `close` | streams write into it from the event loop, jobs from a thread pool |
| Teardown helpers | `sync_teardown`, `_defer_task`, zb_hns_utils.py:244-374 | none | close a stream from a thread, with a time limit | zonal files |
| Listing cache | `_dircache.py`, `core.py`, `extended_gcsfs.py` | directory -> listing | list, find, write, delete, move, mkdir, rmdir, rename, merge, invalidate | every operation of the file system |
| Listing over HTTP | core.py:796-1041, inventory_report.py | none; the reports are objects of a bucket | pages, prefixes, limits, name ranges taken from a report | fills the listing cache |
| Deletion | `_rm`, `_perform_rm`, `_hns_rmdir`, `_expand_path_with_details`, extended_gcsfs.py:1841-2104; `_rm_files`, `_delete_files`, core.py:1667-1818 | groups of paths by bucket, batches, levels of directories | expand, delete in batches, try again, remove folders from the bottom | listing cache |
| Look-up of a path | `_info`, core.py:1281; `parallel_tasks_first_completed`, concurrency.py:22 | two tasks | ask the cache, or for object and directory at once; cancel the loser | listing cache |
| Download | `_get_file`, core.py:2165-2336; extended_gcsfs.py | local file, descriptor, threads that write | open, fetch, write, check, try again, clean up | prefetcher of fsspec, stream pool |
| Deferred close | core.py:2542-2585, 3021 | queue and thread of the worker; `closed`, `_close_deferred`, `forced` of a file | construct, close, collect, work, end of the interpreter | buffered and zonal files, event loop |
| Poller | `poller.py` | deadline, backoff | `poll_lro` | folder rename |
| Folder rename | `_mv`, extended_gcsfs.py:1308 | none | request, wait, fall back to copying | poller, listing cache |
| Zonal file, reading | zonal_file.py:91-330 | hand-off lock, the file's pool | open, interrupt, read, close | cache of pools |
| Zonal file, writing | zonal_file.py:219-549 | append stream, `forced`, `finalized`, `closed` | write, flush, commit, close | listing cache, teardown helpers |
| Buffered file | `GCSFile`, core.py:2588-3043 | buffer, offset, session, checker | write, flush, close, commit, discard | HTTP with retries |
| Retries | retry.py:164 | attempt count | `retry_request` | all HTTP requests |
| Bucket layouts | extended_gcsfs.py:78-477 | bucket -> layout | look-up, re-check, invalidate | `_put_file`, `_pipe_file`, `initiate_upload`, `simple_upload` choose gRPC or HTTP by it |
| Many ranges | `_cat_ranges`, extended_gcsfs.py:926-1278 | limiter, per object a pool, a lock and a count | allocate, split, open, read, close, cancel | cache of pools |
| One read | extended_gcsfs.py:540-907, core.py:1365-1430, concurrency.py, utils.py | none | limits, chunks, parts | stream pool, HTTP |
| Read-ahead cache | caching.py | queue of chunks | `_fetch` | an open file |
| Credentials, hash functions of the checkers, telemetry, CLI | credentials.py, checkers.py, telemetry/, cli/ | see section 6 | | |

What makes them hard. The event loop interleaves tasks at every `await`: state
read before is used after (listings, layouts, pools being opened). Cancellation
and Ctrl-C end a wait and not what is waited for. Requests fail after the server
has acted. Streams are shared and counted, so that each failure path has to give
back exactly what it took. Locks are held over some awaits and not over others.
Threads write through a descriptor that somebody else closes, and files are closed by
whichever thread drops the last reference.

What makes each component correct:

* pool: a stream in use is open, an open stream is queued or used, slots add up, nobody sleeps for ever;
* cache of pools: counts are exact, a stream has one owner, idle ones are bounded and reachable;
* memory writer: permits and pending count exact, nobody writes after `close()`, a value is complete;
* listing cache: what is cached equals what the server would list, unless a call that raised left it;
* rename: never copy while the server renames; report what happened; end in time;
* files: the object is what was written or is not there; nothing stays open after a `close()` that
  came to its teardown; success means stored;
* layouts: an outdated layout is a detour and not an error, and one write replaces the object once;
* reads: exactly the bytes asked for, a result for every range, no pool left open;
* listing: every object that stayed, once, however the names are divided;
* deletion: nothing outside the paths, nothing left of them after a success, listings that
  lose an entry only when the object is gone;
* look-up of a path: what it says was true at some time of the call;
* download: a whole file of one generation or none, as far as its bytes are checked; no write through a
  closed descriptor;
* deferred close: a file is torn down by one thread, once, and never by the loop waiting.

## 2. Modules and the code

An action is what the code does between two points where others may run (an
`await`, a lock, a blocking wait); `map` in PROJECT.json gives its lines.

`MRDPool` (it implements `StreamLending`, proofs in `MRDPoolProofs`). The code
variables keep their names where possible (`free` is `_free_mrds`, `all` is
`_all_mrds`, `active` is `_active_count`, ...). `pc` is where each `get_mrd()` is:
waiting for the lock, on the condition, opening outside the lock, holding a
stream. `phase` says whether `initialize()` or `close()` has the lock over its
awaits. `Grow` is a writer elsewhere appending to the object, which makes idle
streams stale. `StreamLending` is the pool as its users see it: streams with sets
of users, never more than the limit, closed only without users.

`MRDPoolCache` (`MCMRDPoolCache` adds symmetry, proofs in `MRDPoolCacheProofs`). `Get`, `InfoFails`, `Attach`,
`PoolReady`, `InitFails`, `Purge` are the stretches of `get()` between its
awaits; `PoolClose` and `Drained` are a pool giving its streams back at once and
later. Inside, pools are taken as MRDPool describes them.

`DirectMemmoveBuffer` (proofs in `DirectMemmoveBufferProofs`). Threads: a step is what
runs between two acquisitions of `_lock`. `AcquirePermit`, `EnterMove`, `Submit` are the
writer's, `MoveStarts`, `Moves`, `Counts`, `Releases`, `Ends` the job's, and
`CloseBegin`/`CloseEnd` enclose the wait on `_done_event`. `filled` counts how often each
byte was written.

`DirCache` (`MCDirCache` gives it a tree, proofs in `DirCacheProofs`). Each operation is a step of the
server and a later step of the client (`Write`, `WriteDone`, ...), which applies
the cache update of `_dircache.py`. `Find` rebuilds the listings of a subtree from
the object names. `hns` chooses a flat or a hierarchical bucket: the two updater
classes of `_dircache.py`. `Failed` is the other end of any request: the call raises although
the server has acted (a reply that is lost for good, NotFound in answer to a repeated request, the
ChecksumError of core.py:1876-1880 and 1959-1961), and no update is made, except that a
rename invalidates its two paths on its way out. `doubtful` is a history: the paths whose entry such
a call may have left stale, each for as long as a listing of the path, its parent or
what is below it from before is cached.

`Poller`, `FolderRename` (proofs in `BucketOpsProofs`). `_mv()` extends the
poller: `Submit`, then the poller's steps with time as a counter, then `MvEnds`
on its outcome. Delays take every value of their jittered range.

`ResumableUpload` (proofs in `FileWritesProofs`). `Write` puts bytes into the buffer; `_upload_chunk()` is the
loop over `Initiate`, `HoldBack`, `Send`, and what it makes of a reply
(`KeepRest`, `AllTaken`, `Complete`). The session of the server takes any part of
a piece (`Store`), and a reply may be lost (`Retry`). Bytes are their positions.

`ZonalFile` extends `ZonalOpen`, `ZonalWrite` (proofs of both in `ZonalFileProofs`) and
`DirectMemmoveBuffer`: `mode` says whether files are opened for reading, one is read in
parts, or one is written. `ZonalOpen` has the caller's thread, the checkout task on the
loop, and the hand-off between them under a lock, with an interrupt at any moment.
`ZonalWrite` has one method at a time, the stream call it waits for (`pc`), and the calls
an interrupt left running (`orphans`).

`BucketLayout` (proofs in `FileWritesProofs`). `LookUp`, `Answers`, `LookedUp` are a
look-up in three steps; `Opened`, `Rejected`, `Rechecked` what `_init_aaow()` does;
`Uploads` the HTTP path, which looks up in its turn. `Toggle` is the administrator.

`DeferredClose` (proofs in `FileWritesProofs`). `Construct` and `StartWorker` are the two looks at the queue, without
the lock and under it; `CloseFile`, `Collect` and `Work` the three ways into a
teardown, of which `EnterClose`, `CloseDone`, `CloseFails` are the steps. The teardown runs on the
event loop, so the loop's own thread must never be the one that waits. A file is used by
one thread at a time (fsspec files are not meant to be shared) and handed on by `Passes`.

`FileWrites` puts `ResumableUpload`, `BucketLayout` and `DeferredClose` side by side
(`part`): how the bytes of a file go, which way they go, and which thread ends it.

`Deletion` (proofs in `BucketOpsProofs`). One `group` for each bucket of the call, at once. A name is the sequence of its
parts (`Parts`, of which the empty one ends the name of a marker), and each path left to expand has the depth that is left to it. `Glob`, `AskObjects`, `AskFolders`, `AskInfo`, `ExpandFlat` are the requests of the
expansion, each answered at its own time (`asked`), `Expanded` sorts what they found into batches and directories, `SendBatch`
and `BatchFails` are the requests of `_rm_files()`, `RemoveMarker` and `RemoveFolder` those
of `_hns_rmdir()`. `Create` is another client. `shown` is what the cached listings say: once both
listings of a path have been heard (`Hears`), and with those of `Glob` and `ExpandFlat`, they are made
anew below it (`Relists`), where an object hides the directory of its name (`Hides`). `InfoFails`
is an `_info()` whose failure is swallowed (extended_gcsfs.py:1902-1906): the expansion goes on, and the
path is `unsure`.

`Listing` (proofs in `BucketOpsProofs`). Names are the numbers of their order.
`SnapshotNames` are the sorted names of the newest report: `Rows` are counted up to each
name, which is what sorting them comes to. `Divide` cuts them into ranges, or takes one
range if none is configured; `Page` is one request of one range, which the server may fill
less than asked; `ObjectChanges` is another client.

`InfoLookup` (proofs in `BucketOpsProofs`). `InfoBegins` reads the cached listings; `ObjectReply`, `ObjectForbidden`,
`ObjectListed` and `DirectoryReply` are the two lookups, `Race` the choice between
them, `CancelInfo`, `TaskEnds` and `Settle` how both come to their ends before the call does.

`BucketOps` (`MCBucketOps` gives the names and the reports) puts `FolderRename`, `Deletion`,
`Listing` and `InfoLookup` side by side (`operation`). What such calls share, the listing
cache under several operations, is `DirCache`.

`Download` (proofs in `ReadPathsProofs`). `Open` begins a try; `FetchBlock`, `FetchFails` and
`BodyEnds` are the body, the stream or the prefetcher, `WriteBlock` a thread of the executor,
`WaitOne` and `Drain` how the loop waits for the threads, `AfterTry` the decorator that
tries again, `Clean` the handler that removes the file. A block holds the number of its generation,
or is `Wrong`: other bytes, as many. `compares` is what the checker compares (nothing, the size or a
hash), which for gRPC blocks is at most the size (`Comparisons`); the stream of the zonal
file system compares nothing. `retried` says whether the decorator is there, as it is for
blocks, for the body, and for a stream that is reached from `_get_file_concurrent()`.

`ReadPaths` puts five modules side by side (`way`), as a read takes one of these ways and
they share no state. `StreamPlan` (proofs in `ReadPathsProofs`) is one action per
turn of the loops of `_allocate_streams()` and `_split_ranges_across_streams()`;
`CatRanges` (proofs in the same module) is the life of the streams so planned; `ByteRanges` (proofs in
`ReadPathsProofs`) the limits of one read and its parts; `ReadAheadChunked`
(proved, and checked, to implement `ReadAhead`, the plain read-ahead cache) the cache of an open
file; and `Download`. `Bounds` is min and max.

A composition is there so that one run and one fairness condition cover calls that
never meet. Its parts keep variables and properties of their own, and the theorems are about each
part's own specification.

Definitions named `X_Something` under a comment "Mistake:" are versions of `X`
with a plausible bug. Each property has one that it catches (`mutants` in
PROJECT.json); no specification uses them.

## 3. Runs, bounds and fairness

| Run | Specification | Bounds | Shows | Distinct states |
|---|---|---|---|---|
| `pool` | `MRDPool!LiveSpec` | 3 calls, 2 slots, 2 idle streams, 1 append | the pool's safety, the refinement, answers and draining | 137,492 |
| `pool_cache` | `MRDPoolCache!Spec` | 2 keys, 3 pools, 4 streams, 1 evictable key, queues of 2 | references, ownership, eviction | 27,927 (with symmetry) |
| `dircache` | `DirCache!Spec` | two subtrees of three levels, 2 versions, 1 task, flat and HNS, requests that fail when nothing is in doubt (`MaxDoubts = 0`) | listings equal the bucket | 465,157 (with symmetry) |
| `zonal_file` | `ZonalFile!FairSpec` | 3 files; 3 appends; 2 writers, 4 bytes, 2 permits, threshold 1 | hand-off, write and close, parallel filling of one buffer | 93,525 |
| `file_writes` | `FileWrites!FairSpec` | 9 bytes in units of 2, blocks of 3, pieces of at most 4, writes of 1, 3, 6; 2 tasks, 2 changes, 1 write each; 2 files, 2 threads, 1 failing teardown | content and commit, detours, one closer | 160,008 |
| `bucket_ops` | `BucketOps!OpsFairSpec` | rename: 20 ticks, delays 2-5, replies 2-6, backoff 2-8; rm: batches of 2, sent twice, 2 faults, 1 object created; listing: 5 names, pages of 2, 2 changes; info: 1 change, 2 faults | rename, rm, listing, info | 255,547 |
| `read_paths` | `ReadPaths!FairSpec` | 2 objects of 2 streams, 3 streams in all, 2 slots; plans of 3 objects, 5 streams; sizes to 6, limits to 7 either way; file of 7, block 2; download of 3 blocks, 2 threads, 2 tries, 2 faults, 1 replacement, 2 cancellations | all five ways of reading | 429,395 |
| `dircache_merge` | `DirCache!MergeSpec` | one level less | a violation, section 5 | |
| `rename_lost` | `FolderRename!LostReplySpec` | as `bucket_ops` | a violation, section 5 | |
| `zonal_commit` | `ZonalWrite!WriteSpec` | 2 appends | a violation, section 5 | |
| `listing_cut` | `BucketOps!OpsFairSpec` | as `bucket_ops` | a violation, section 5 | |
| `download_swallowed` | `ReadPaths!FairSpec` | as `read_paths`, the caller in an except clause | a violation, section 5 | |

What the properties of each run say. A property that gathers others is a
conjunction of named parts, each stated and commented in the module.

* `pool`: `Inductive` (slots and reference counts are exact, no stream is leaked,
  stale, or queued while in use, a closed pool holds nothing, no wakeup is lost; see
  section 4; that a stream in use is open is part of it), `LendsStreams` (the
  refinement), `EveryCallAnswered`, `ClosedPoolDrains`.
* `pool_cache`: `RefsExact`, `OneOwner` (no two pools drive one stream),
  `QueuesInOrder` (every queue is reachable by a pool or by eviction, and bounded).
* `dircache`: `Coherent` (a cached listing is what the server would list, but for the entries in doubt:
  those that a request which raised after the server acted left behind, and only while
  listings from before remain).
* `zonal_file`: `HandedOver` (an open file has its pool, a file that is over has none);
  `WritesKept` (a finalized object is whole, a success is persisted);
  `TeardownComplete` (a `close()` that returned or raised has closed the stream and, if no
  call was interrupted, left no stale listing, whatever failed; one interrupted in its teardown has
  closed the stream in the end; one interrupted before its teardown is not spoken of, section 5); `CountsExact`
  (semaphore, pending count and its event), `ValueRight` (a value is whole and nobody
  writes to it any more); `ZonalEnd` (an opened file settles, calls on the buffer return).
* `file_writes`: `ContentExact` (no gap in what is sent, the object is what was written),
  `ChecksumHonest` (neither false alarm nor, where it is compared, false comfort),
  `CommitHonest` (the object appears only when committed, success means it is stored);
  `LayoutRight` (an outdated layout costs `_put_file`, `_pipe_file`, `initiate_upload` and
  `simple_upload` neither their success nor a second copy, an invalidation ends it; a
  zonal file that is opened in a bucket which is zonal no more says so with an error of its own,
  `RapidCacheUltraDisabledError`, which counts as an outcome); `CloseOnce` (one worker, one closer for a file, no more than one
  final upload, none skipped but by an interpreter that ends); `WritingEnds`.
* `bucket_ops`: `OnTime` (a wait exceeds its timeout by one question at most), `MvHonest`
  (a cancellation is kept, copying begins only after the server's failure),
  `ReportsTruth`; `RmWithinScope` (nothing outside paths and depth is deleted), `RmHonest`
  (a success left nothing, but a path whose own `_info()` failed; an undisturbed call succeeds; a path
  called missing lost nothing), `RmKeepsListings` (an entry leaves the cached listings exactly when its object
  is known to be gone, but for a folder hidden by an object of its name below an expanded path); `ListsEverything` (each object that stayed is listed once, unless
  its range met its limit); `InfoHonest` (the answer was true at some time of the call and no
  lookup outlives it); `BucketCallsEnd`.
* `read_paths`: `StreamsRight` (slots of the limiter, reads from open pools only, a result
  for every range, nothing left open), `PlanFair` (proportional, balanced, budget spent,
  no idle stream), `ReadsRight` (limits and parts are those of the slice), `JoinsExactly`
  and `ReadsAhead` (the read-ahead cache and its refinement), `DownloadWhole` (one that returns
  leaves every block, of one generation; wrong bytes of the right length only where no hash is
  compared or over the stream; one that raises leaves no file), `NoStrayWrite`, `ReadsEnd`.

Why the bounds are enough for the interesting cases. Two slots and three calls
give a call that finds every slot taken while another opens, one that shares, and
one that returns while another still uses the stream. Two idle streams and a
growing object give a stale and a fresh one. Three pools on two keys give
eviction of a key that comes back. Two writers with more chunks than permits give
blocked writers while `close()` waits. The rename's ticks keep the ratios of the
code's constants (floor below cap, minimal reply time below the maximal) so that
each clip applies somewhere. Two streams of one object beside one of another, with
two slots, give a stream that waits for a pool being opened, one that finds it
failed, and objects that take the slots in turn. Three units of upload with blocks
that are no multiple of the unit give pieces cut, held back and left over. A path of
three levels distinguishes parent, ancestors and subtree. Five streams for three objects
are the least for which an object reaches its cap while another waits for its turn.
The deletions have a folder with its marker inside another, and an object, a folder or both under one name, in
two buckets at once, with batches of two of up to four names, so that a batch
fails while another succeeds and a directory waits for its children. Five names in pages of two give
three ranges, a prefix that lies across a border, and a last range longer
than a page. Three blocks for two threads give a download that waits for one thread
while the other writes; two tries give one that begins again; two cancellations one that is
cancelled while it drains. Two threads that open their first files give the race for the worker.
Counters that the code leaves unbounded are bounded by `MaxSize`, `MaxBytes`,
`MaxWrites`, `MaxDoubts`, `MaxToggles`, `MaxCreates`, `MaxListChanges`, `MaxPathChanges`, `MaxReplaced`,
`MaxCancels`, the limits on faults (`MaxRmFaults`, `MaxInfoFaults`, `MaxGetFaults`,
`MaxCloseFaults`) and the sets of calls, files and pools, all constants.

Deadlock is not checked where all calls can be over and the system stops for good
(every run but `dircache`, which checks it).

Fairness:

* tasks of the event loop that can run do (`pool`, `bucket_ops`, `file_writes`,
  `read_paths`): the loop runs every ready task, a request returns or fails;
* `pool`: a caller need not ever return its stream; only `ClosedPoolDrains`
  assumes it, in the property itself (`Returns`);
* `zonal_file`: threads, those of the executor too, and the loop run; nobody has to close
  a file, to interrupt, or to close the buffer;
* `bucket_ops`: time passes and the loop runs; of a rename the server and the network owe
  nothing, the other requests are answered or fail. A listing ends although others
  create objects: each range passes a name once;
* `file_writes`, uploads: weak fairness of the method and of the server, and strong fairness
  of a server that can take something and refuses again and again, because the loop
  of `_upload_chunk()` goes on for as long as nothing is taken;
* `file_writes`, layouts: writes end if the user does not invalidate for ever, stated in the property;
* `file_writes`, closing: threads that are in a teardown go on, and the worker takes its
  next job; nobody has to drop or close a file, and the interpreter may end at any time,
  which the property allows for;
* `read_paths`, downloads: the loop's steps and the writing threads go on. Faults, replacements and
  cancellations are bounded, so no condition on them is needed.

## 4. Proofs

All by TLAPS, for every value of the constants that satisfies the assumptions
named in the modules (finite sets of calls, positive sizes, distinct names).

| Theorem | States |
|---|---|
| `MRDPoolProofs!PoolInvariant`, `TypeCorrect`, `HeldStreamsStayOpen`, `ReferenceCountsExact`, `NoLeak`, `SlotsAndWakeups`, `SharingReachesEveryStream` | the safety of the stream pool, any number of calls, slots and idle streams, any growth |
| `MRDPoolProofs!PoolLends` | the pool implements `StreamLending` |
| `MRDPoolCacheProofs!CountsAreExact`, `StreamsHaveOneOwner`, `QueuesStayInOrder` | the cache of pools counts its users, shares no stream between two pools, and loses no queue, any number of tasks, pools, keys and streams |
| `DirCacheProofs!CachesAreCoherent` | cached listings are the server's but for entries in doubt after calls that raised, any tree of paths, flat or hierarchical, for one task and no object with a directory's name (`Tasks = {t}`, `~Clashes`: with either the code is not coherent, section 5) |
| `BucketOpsProofs!PollerIsSound`, `WaitsOnTime`, `CancelsAreKept`, `FallBackIsSafe`, `MovesAreHonest`, `ReportsAreTrue` | the safety of a wait, whoever asks for it, and of the rename around it, any timeouts and delays |
| `BucketOpsProofs!InfoIsHonest` | `info()` says what was so while it ran, and leaves no lookup behind, any number of changes and failures |
| `BucketOpsProofs!DeletesWithinScope`, `KeepsListings`, `ReportsHonestly` | `rm()` deletes nothing outside its paths and depth, keeps the listings of a hierarchical bucket true but for folders hidden by objects, and its results say what it did but for a path whose `_info()` failed; names, contents, paths, depths, batches, attempts and failures of any number and length |
| `BucketOpsProofs!ListsAll` | a listing by pages or ranges shows each object that stayed, once, and nothing that never was, any number of names, reports and pages; what the limit of a range cuts off is excepted, as in the property (section 5) |
| `ZonalFileProofs!HandOverExact` | the hand-off between thread and task, any number of files |
| `ZonalFileProofs!KeepsWrites`, `LeavesNothingOpen` | what success and finalized objects of a zonal file mean, and that close() closes the stream, unless it is interrupted before its teardown (section 5), any number of writes and interrupts, for callers that do not commit after a failure (`~CommitsAfterFailure`, section 5) |
| `ReadPathsProofs!AllocationFair`, `GroupsBalanced` | D'Hondt allocation and balanced groups, any number of objects, ranges and streams |
| `ReadPathsProofs!PlansAreFair`, `StreamsAreRight` | the plan gives out the budget at every turn of its loops; the streams so planned keep their slots, and every range is answered, any finite set of objects and any failures |
| `ReadPathsProofs!ReadsJoinExactly`, `ChunksReadAhead` | the pieces of a read are the bytes asked for; the cache with chunks implements the one with a single block; any sizes of files and blocks |
| `ReadPathsProofs!LimitsRight`, `EmptyRight`, `PartsMakeWhole`, `ReadsAreRight` | limits are those of a slice for all integers; chunks cover every length and all of them are waited for; so the bytes read are those of the slice, if no range over HTTP is counted from the end (`~FromEnd`, section 5) |
| `ReadPathsProofs!WritesStay`, `DownloadsAreWhole` | no write through a closed descriptor; what a download leaves on disk; any number of blocks, threads, tries and faults. The second is about callers that handle no exception of their own, and says of bytes that came wrong that only a hash, compared where one is, keeps them out |
| `FileWritesProofs!UploadsAreExact`, `ChecksumsAreHonest`, `CommitsAreHonest` | the object of a resumable upload is what was written; its checksum and its commit do not lie; any sizes of writes, blocks, quantum and file, any number of tries |
| `FileWritesProofs!LayoutIsRight` | outdated layouts are detours and invalidations end them, any number of tasks, writes and changes |
| `FileWritesProofs!ClosesOnce` | one worker, one closer of a file, sent before it is closed and once, any number of files and threads |
| `DirectMemmoveBufferProofs!CountsAreExact`, `ValueIsRight` | permits, pending count and event are exact, and a value is whole and left alone, any number of threads and any sizes |

Along which argument. The pool: none of its properties is inductive alone. A
holder that sees `_inflight` reach zero puts the stream back, so a free stream is
unused only if the count is the number of holders; that no slot is lost needs
`_active_count` to be the listed streams plus those being opened, which needs
every open stream to be listed once; that a waiting call will be woken needs that
nobody waits once the pool is closed. `Inductive` in MRDPool is the conjunction,
with `CallState`, `PhaseState`, `Listed` and `SizesKnown` as what remains; it is
also an invariant of the run `pool`. The proof has one lemma per action, and
lemmas on cardinalities and sequences.

The pool as its users see it: the refinement maps the pool to its open streams and each stream to
the calls that hold it. By `Inductive`, what `get_mrd()` hands out is open, and a stream is
closed when its count is zero, which is when nobody holds it.

The cache of pools: the three invariants carry each other. The count of a key follows its open
pools one at a time (`ReferrerComes`, `ReferrerGoes`); a key that is used does not wait for eviction, as
`get()` takes it out of the order, which needs that it stood there once (`WaitsOnce`,
`RemoveFirstFacts`); and a pool that gives its streams back finds the queue of its key, because it
counted until then (`PoolsHold`).

The listing cache: the invariant looks ahead. `Kept` says that the cache which the reply
under way *will* leave (`After`) has the listings of the server, of directories that exist. A
request then needs one lemma: what the server does to the tree is what the update does to the
listings. Two facts about trees carry them. What is above an existing directory exists
(`ExistsUp`, by a shortest counterexample), so that an object written where the parent is cached
makes no new directory further up, which is why dropping the parent's listing is enough; and
a directory keeps its listing if nothing below it changes (`Elsewhere`). A rename takes with each
path its parent (`RenamedFront`) and comes to a place where nothing was. `invalidate_cache()` may come between
request and reply, so that updates have to leave less of a smaller cache (`RepliesRestrict`). All of this is
said of the entries outside doubt. A call that raises puts what it touched, and what is above, in doubt,
and a doubt ends only when no listing from before is left that could show it (`Lasting`), so that
a listing made later is right without exception.

The rename: `OnTime` needs a bound on `until` (the end of the sleep or of the
question) for every program point, as a sleep is clipped to the budget and a question
may start just before it ends; `ReportsTruth` needs that a reported result is the
server's and that the server changes its mind no more.

The hand-off: for each file, the pair of places of the thread and the task
determines who owes a close; the invariant lists which pairs exist.

`info()`: `Observed` says of each lookup that what it answered was so when it asked, and so at
some time of the call; `Deciding` that the call goes by the object's lookup and, only if that
found nothing, by the directory's; `Racing` that none is under way outside the race.

The deletion: `World` says that every path left, entry found, batch and directory of a group
is of the call's paths and depth (`Scoped`), which gives `DeletesWithinScope`, and that folders stand above
what they hold (`BucketOK`). What one path reaches within its depth is what the requests of its expansion find: `PathReaches`,
`PatternReaches`. `KeepsListings` needs that what is taken out of the listings was deleted in that very step, or was known
to be gone; making the listings anew keeps every entry that is there and not hidden, which needs that what the first
of the two listings said is still known when the second comes (`Recalls`). That nothing is forgotten is about what is still in hand: `Sought` says of each object and folder
that stayed that it was found, or that a path on the list, or a request of it still to come, reaches it; `Thorough` carries
this on: as long as no failure is noted, an object that stayed is in a batch, none is left when the
directories begin, and a folder that stayed is among those still to be removed. Paths whose `_info()` failed are left out of this (`Staying`), and only a failed request makes a path one of them (`Sure`). Undisturbed, no folder of the deepest level is
occupied, as its objects went with the batches and its folders with the levels before (`DeepestEmpty`).

The listing: that no name falls between two ranges needs no order of the report's names, only that a range ends where the
next begins (`Parted`); that none falls into two needs that they are sorted (`SnapshotSorted`), and that each range takes a name at
least (`Divides`). Each page then keeps `RangeState`: what stayed and was passed has been shown, however few entries a
page has.

The zonal writer: `Stopped` says that a failure or the end stops writing, so that a call an
interrupt left running belongs to a file that is lost or finished; `Finalizing` that nothing of a failed
write can come into an object that is finalized, which is where a commit after a failure
has to be excluded; `Persisting` relates what was sent, kept and persisted at each step.

The upload: `Buffered` says that the buffer is the run of bytes from `offset` to what was
written and that what lies before is hashed; `InSession` that the session holds at least what
was taken and no more than was written, in place; `OnTheWay` that the piece sent is the
head of the buffer, so that wherever the session stopped in it, the rest begins there. That
`close()` does not return early needs that of a buffer longer than a block a piece leaves
something over (`PieceFits`).

The closing of files: `Hired` says that whoever looked for the worker has one before anybody
else has its file; `Parted` that a file is closed by the worker if it was left to it and
else by its user; `Sending` that only an unfinished final flush has been forced and not closed.

The plan: at each turn an object in the heap has at least the ratio of every
other's last turn; groups differ by at most one range because a group gets a range
only when it is the lightest and ranges come in order of size. The
multiplications are isolated in lemmas about integers.

That the plan gives out the budget is about sums over the objects. That there is such a sum (`IsSum`, over the subsets of a finite set),
and what it becomes when one value changes, is proved by induction on the number of objects (`LeastNat`,
`Induct`, from the library's theorem that `<` on the naturals is well founded).

The streams so planned: `CatInductive` says which streams hold a slot and that an object counts its active
ones (`SlotHeld`, `RemainingExact`), that one stream initializes and one closes (`LockHeld`, `OneCloses`), where
the pool of an object is by what its streams do (`PoolOfStream`, `PoolOfObject`), and that a stream that is over
has left its results unless it raised (`AnswersOfStream`), so that a call that returns has them all.

The chunked cache: a window has at most two chunks, so its folds unroll; `ReadsJoinExactly` follows from
the window being without gaps (`Answered`), and the refinement from the window's
chunks having the bounds of the single block.

The reads: `ReadsAreRight` puts together that the limits are the slice's, that the chunks
of a length leave neither gap nor overlap, and that a reply cut short at the end of the object is the
slice cut short there. A range counted from the end is cut before it is resolved, which is why
`~FromEnd` is assumed.

The download: `Descriptor` (while a write is pending the descriptor is open and the write is
one that is waited for) gives `NoStrayWrite`; `Content` says of a try without an
error that each block fetched is in the file, on its way, or known to have failed, and
`Ending` that only such a try returns, of which wrong bytes survive only where no hash is compared or over the stream. A write that failed after the loop stopped looking is
known only to `Drain`, where the exception of a caller hides it: hence the hypothesis on
callers.

The layouts: `Trusting` says that a task nothing has disturbed re-checks its layout only if the
bucket did change; `Answering` that an answer on its way cannot be older than an
invalidation that promised something; `Storing` that only the last step of a write
replaces the object, so that HTTP cannot be a second time.

The memory writer: views are disjoint, and the chunks given away are the parts of views
already passed (`Views`), so no two moves share a byte (`Spans`); permits and pending
count the jobs by the steps they are at (`Counted`), for which sets of offsets are compared
by cardinality. `totalMoved` is the number of bytes of the moves that are over unless a move
failed (`Bytes`): if it equals the size of the buffer every byte is behind, and
`get_value()` may return. Nothing starts once `stop` is set and `_done_event` with it (`Closing`).

Only model-checked: everything under fairness (`EveryCallAnswered`, `BucketCallsEnd`,
`WritingEnds`, ...), which the prover does not reach, nor `ENABLED`. What a fold over a sequence of any length computes is proved
nowhere, as the library's induction over sequences takes an operator: the folds of
ReadAheadChunked have at most two elements, the sums of StreamPlan are
sums of functions over finite sets.

## 5. Where code and documents disagree

Five have a run whose counterexample is short and exact:

1. `dircache_merge`, core.py:1506. `_merge()` composes the destination and updates
   no listing, while `_dircache.py:3-5` says "After any mutating operation
   (delete, write, move, ...) that cache must be kept consistent with the bucket."
2. `rename_lost`, extended_gcsfs.py:1437. If `rename_folder()` itself raises after
   its retries although the server has taken it, `_mv()` copies and deletes while
   the rename may be active, against its own comment at 1434-1436.
3. `zonal_commit`, zonal_file.py:411. `commit()` after a failed append finalizes
   the partial object; `_abort_write` (433-437) says that it is not finalized.
4. `listing_cut`, core.py:939. The last range of a listing by an inventory report takes
   what the division leaves, which may be more than a page, and each range is limited to a page: of
   14,999 names in a report, three ranges of 4,999, 4,999 and 5,001 list 14,998 objects,
   and the listing is cached as complete. test_inventory_report_listing.py:28 asserts
   that it equals the items of the bucket.
5. `download_swallowed`, core.py:2332. The failure of a write is raised from the finally clause
   only if `sys.exc_info()[1]` is None, which also sees an exception that the caller
   is handling: a download awaited in an except clause returns over a file with a hole.
   test_core.py:4289 expects the error.

Further divergences met while modelling. Each can be reproduced by the change to
a configuration that is given.

* core.py:852, `_list_objects` stores a listing after its awaits, undoing what
  other tasks wrote or invalidated meanwhile: `DirCache.cfg` with
  `Tasks = {t1, t2}` violates `Coherent`.
* core.py:2103, after `find()` an object `a` hides the directory `a/` of the
  parent's listing, which extended_gcsfs.py:2189-2190 says "can coexist in HNS
  buckets": `DirCache.cfg` with `Clashes = TRUE` violates `Coherent`.
* core.py:1876-1880 and 1959-1961, an upload that the server has stored and whose checksum does not
  match raises before `_write_file_cache_update()`, and so does any request whose reply is lost for good, or
  whose repetition is answered NotFound: the listings stay as they were, against
  `_dircache.py:3-5`. A rename whose wait fails calls `invalidate_cache()`, which drops the
  path and its ancestors (core.py:1108) and not, as the docstring at 1099-1100 says, "listings at or under given
  path". `Failed` in DirCache is all of these: with `OutsideDoubt` as the identity
  `Coherent` is violated, and the entries in doubt are those it excepts.
* zonal_file.py:504, a `close()` that is interrupted in its flush passes `except Exception` and skips the
  teardown, of a file that is marked closed, while the comment at 500-501 says "A failed closing flush must not skip
  the teardown below": the stream stays open and the listing stale.
  `StreamClosedHowever` as an invariant of `ZonalFile.cfg` is violated. `StreamClosed` is what holds.
* zb_hns_utils.py:1078, a `get()` awaiting `_info()` while `close()` runs makes a queue
  in the closed cache, whose streams nobody closes, against the docstring at 1133
  "Closes the cache and all pooled MRDs.": `ClosedCacheHoldsNothing` as an
  invariant of `MRDPoolCache.cfg` is violated.
* core.py:2922, a last piece without data skips the comparison of checksums, while
  core.py:2637-2640 says "'md5' does a full checksum": `VerifiedAtClose` as an
  invariant of `FileWrites.cfg` is violated. `VerifiedWithLastPiece` is what holds.
* extended_gcsfs.py:394, a look-up in flight over a change and
  `invalidate_storage_layout_cache()` stores the old layout, against 408-411
  "so that later reads and writes pick the matching data path". `promised` in
  BucketLayout therefore takes that no look-up is under way.
* core.py:1391, `_cat_file_concurrent()` splits limits that count from the end of
  the object without resolving them: `ReadPaths.cfg` with `FromEnd = TRUE` violates
  `ConcurrentIsSlice`; `cat_file(path, end=-1, concurrency=2)` is empty.
* zonal_file.py:263, an interrupt while the writer opens leaves a stream the file
  does not know of; `StreamClosed` and `ListingDropped` speak of a file that has
  its writer.

And some that the models allow for, or leave out, without a property against them:

* checkers.py:63-76, with "size" only the length is compared, and extended_gcsfs.py:2675-2680 lowers "md5" and
  "crc32c" to it for gRPC blocks, while the stream is compared with nothing: wrong bytes of the
  right length are returned there. `DownloadWhole` allows for that.
* core.py:2097-2115, with extended_gcsfs.py:2218-2220, the expansion of `rm()` makes listings anew in which
  an object hides the folder of its name (the two "can coexist in HNS buckets", 2189-2190): if the object goes and
  the removal of the folder fails, the folder is there and not listed. `RmKeepsListings` excepts it
  (`Hides`), and is violated without.
* extended_gcsfs.py:1902-1906, a failed `_info()` of the expansion, and a failed `_exists()` for a flat bucket, are
  swallowed: `rm()` of a path with something below it returns without having removed what has the path's own
  name. `RmHonest` excepts such a path (`unsure`), and is violated without.
* core.py:1815, a flat `_rm()` whose only request was carried out but answered with a
  transient error gets a 404 on the second try and raises FileNotFoundError under
  "nothing got deleted". `RmHonest` therefore speaks of undisturbed calls there.
* extended_gcsfs.py:2055-2056, `_perform_rm()` documents a list of exceptions and returns what was
  deleted.
* extended_gcsfs.py:1916, a recursive pattern without a match raises FileNotFoundError for all
  paths of its bucket, the existing ones too; `Glob` ends the group.
* core.py:2165, a download that fails removes whatever is at the local path, also a file of
  the caller's that the failed try had not opened yet (`DownloadWhole` says so).
* core.py:3021, an explicit `close()` of a file that was left to the worker returns
  before the upload is done; jobs that are pending when the interpreter ends are lost with
  the daemon thread (`abandoned`, `finalizing`).
* core.py:884, with `use_snapshot_listing` the names are those of the report, with the bucket in
  front, and the prefix is compared without it.

## 6. What is not modelled

* External: the server, gRPC streams and fsspec. They are modelled as the code uses them
  and may fail at any call; actions of theirs are marked external in `map`.
* Expiry of listings by time, `max_paths`, object generations but in downloads.
* Hash functions: a checksum is the content it was computed from.
* Back-off times of `retry_request()`; attempts are counted in `Deletion`, `Download` and
  `ResumableUpload`, where something depends on them.
* `_defer_task()` on another loop: a close is carried out or times out.
* The branch of `_delete_files()` for emulators, which deletes one by one.
* `use_snapshot_listing` and the parsing of report configurations (inventory_report.py).
* A fork, after which the child has no worker for deferred closes.
* Uploads in create mode whose precondition fails on the retry of a request that
  was carried out (core.py:3310); a cancelled `upload_chunk()` of the functional
  interface (extended_gcsfs.py:2806).
* `_fetch_range()` of a zonal file, beyond the buffer it fills and the pool it reads from.
* Credentials (I/O and a check under a lock, credentials.py:238), telemetry, CLI, mapping,
  tests, benchmarks and docs.

## 7. Plan

The order was: stream pool (the heart of zonal reading), cache of pools, listing
cache, memory writer, rename with its wait, uploads, zonal files, layouts, ranges,
read-ahead; then deletion, listing, look-ups, downloads and deferred closes, and the proofs about
downloads, layouts, reads, the memory writer, uploads, the closing of files, look-ups, zonal
writes, the cache of pools, the plan of many ranges, the chunked cache, the listing cache, the deletion and the listing. To come:

1. `_fetch_range()` with its retries, together with the prefetcher that calls it.
2. The classification and back-off of `retry_request()`, and requests that are not idempotent under it.
3. `_defer_task()` between two event loops.
