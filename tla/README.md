# TLA+ models of GroundDB

GroundDB is a PostgreSQL 13 fork that separates compute from storage. A compute
node ships its WAL and its page requests over Thrift RPC to a *storage server*,
which keeps an index of WAL records per page and replays them on demand. Compute
nodes also share an *RDMA memory pool* of pages. This directory models the parts
of both servers in which several threads share state.

`tlc -config <run>.cfg <module>` runs a model, `tlapm <module>.tla` checks the
proofs of a module; `PROJECT.json` lists the runs, the source lines of every
definition, the hazards and the theorems.

## The system

| part | where | what it does | model |
|---|---|---|---|
| page cache | `storage/DSMEngine/cache.cc`, `GroundDB/lru.hh` | sharded LRU cache of page frames; the frame of an evicted entry is handed over to the new one | `LRUCache`, proofs |
| page handlers | `storage/GroundDB/init_server.cc` | `flush_page`, `access_page`, `sync_pat` and `mr_info` requests, run by a thread pool | `MemPool`, `PagePool`, proofs (the first two) |
| dispatch, thread pool | `init_server.cc`, `DSMEngine/ThreadPool.cc` | one thread per client, one queue per worker | no: see Not modelled |
| RDMA transport | `DSMEngine/rdma_manager.cc`, `GroundDB/util.cc` | verbs, queue pairs, registered memory | no: device I/O |
| pool clients | `GroundDB/read.cc`, `write.cc` | one-sided reads, page address table | no |
| WAL ingestion | `storage/rpc/rpcserver.cpp` | `RpcXLogWrite`, `WaitParse` | `WalIngest`, `WalOrder`, proofs |
| WAL parser | `access/transam/xlog.c`, `xlogreader.c`, `logindex/wakeup_latch.c` | the startup thread reads records and fills the log index | `WalIngest`, `WalOrder`, proofs |
| log index | `access/logindex/logindex_hashmap.cpp` | for each page the LSNs of the records that change it | `HeadNode`, `HeadNodeSpec`, `LogIndex`, `HashBucket`, proofs |
| page service | `rpcserver.cpp` (`ReadBufferCommon`) | a page as of an LSN: replay what is missing, store the result | `LogIndex`, `PageVersions`, `LogIndexVersions`, proofs |
| vacuumer | `logindex/background_hashmap_vacuumer.cpp` | replays pages in the background, frees list nodes | `HeadNode`, `LogIndex`, `HashBucket`, proofs |
| page store | `storage/kvstore/kv_interface.c` | page versions in RocksDB | three atomic operations of `LogIndex` |
| replay processes | `tcop/storage_server.c`, `wal_redo.c` | apply records to a page, on request of any thread, over pipes | `ReplayPool`, `ReplayService`, proofs |
| relation sizes | `storage/rel_cache`, `xlog.c`, `rpcserver.cpp` | cache of relation sizes | no: see Not modelled |
| record types | `access/logindex/*_idx.c` | which blocks of a record get an entry | one step of `WalIngest` |
| RPC client, Thrift | `storage/rpc` | marshalling, generated code | no |
| the rest of PostgreSQL | | unchanged by the fork | no |

How they interact: `RpcXLogWrite` → page buffers and `RpcXLogFlushedLsn` → startup
thread → log index and `XLogParseUpto` → `WaitParse` in the page service → replay
under `headLock`, by one of the replay processes → RocksDB; the vacuumer competes with the page service for
`headLock`. The memory pool is a separate process that shares nothing with this.

## Modules

**LRUCache.** One action per operation of the cache: `Lookup`, `LookupInsert`,
`Insert`, `Release`, `Erase`, `Prune`. Each is atomic, as the shard's mutex makes it.
The fields of `LRUHandle` are functions on the set `Handles` of addresses, `live` is
the set of allocated ones, the circular lists are sequences, and `held` is the
handle a caller has. An insertion evicts as often as the `while` loop's body runs
(`Evictions`), erases a duplicate and takes a frame (`InsertFrame`,
`LookupInsertFrame`): from the last evicted entry, else from the free list.

**MemPool** extends it with the handlers, one action per step between which other
workers can run: pin, lock `rw_mtx`, copy the page in two halves, copy the page id
and unlock, release. **PagePool** is what the pool promises: a flush takes effect
once, on its own page, and a page that is being flushed is not dropped. `MemPool`
instantiates it with the contents a client can see.

**HeadNode** has the pure algorithms on a head node: insertion, the binary search
`LsnListFindLowerBound`, `BlockReplayList` (the body of `HashMapGetBlockReplayList`
under `headLock`), what the background thread collects and what it frees.
**HeadNodeSpec** is the life of one head node under these operations, each in one
step, with the reference definitions they are compared with.
**LogIndex** lets the parser, readers and the background thread use them on one
page; a page is the sequence of records applied to it. The steps are those between
which `headLock` or RocksDB can change. **PageVersions** is what this promises: every
page a request gets is a version of the page that is not newer than it asked for, a
request that has to replay gets exactly the version it asked for and takes effect
in one step, and the replayed version moves only forward, from record to record.
**LogIndexVersions** instantiates it with the page of a request from the step on that
publishes it. **HashBucket** has the list of heads, the
move to the front and all locks of a bucket, with the background scan across turns.

**WalIngest.** The WAL is a sequence of units of 64 bytes with record ends at
`RecordEnds`; a page of the file, or of a buffer, is how much of it is filled. The
steps of `RpcXLogWrite` are separate (file, each buffer's lock, copy,
`RpcXLogFlushedLsn`, wake-up), and so are those of the startup thread: availability
test and length, lock of the buffer, copy, validation, log index, `XLogParseUpto`,
and the gap between the test and `pthread_cond_timedwait` in which a broadcast is
lost. Initially the file may hold WAL of an earlier time, as after a restart.
**WalOrder** is what this promises: what is announced is in the file, records get
into the log index one by one, in WAL order and only when the file has all of them,
and the parser's position goes on by one record that is already in the index.
`WalIngest` instantiates it with the LSNs up to which the file holds the WAL,
`RpcXLogFlushedLsn`, the indexed records and `XLogParseUpto`.

**ReplayPool.** Every call of `storage_server.c` that uses a replay process (but
`SyncReplayProcess`, whose calls are all commented out) is a
sequence of commands with the length of each request and answer, counted in units of
which a page has several; a pipe is a sequence of units, moved in portions of any
size by `Write`, `BufferedRead`, `WriteAnswer` and `Read`. A thread tries the mutexes
from the process its thread id selects on (`TryLock`), and queues for that one if
none is free (`Lock`). A process reads commands from `stdin_buf`, executes them and writes the
answer of those that have one; `GetPageByLsn` sends two commands and reads one
answer. A process may die of an error (`Crash`), after which its caller reads
for ever, with the mutex held, as in the code; the server may exit (`ServerExit`),
and a process ends when the last write end of its pipe is closed (`HasWriter`: every
process keeps the write ends of the processes started after it).
**ReplayService** is what the pool promises: a call's commands are executed one after
the other by one process, each once, with no command of another call in between.
`ReplayPool` instantiates it.

`MC…` modules hold model values and symmetry sets.

## Runs

| run | bounds | states | shows |
|---|---|---|---|
| `lru_cache` | 5 pages, 2 callers, 2 shards with 1 and 2 frames | 44 000 | lists, table, reference counts and frame ownership stay consistent; a shard exceeds its capacity by pinned entries only; an entry in use leaves the cache only by `Erase` or `Insert` of its own key |
| `mem_pool` | 3 pages, 2 frames, 2 workers, 2 contents, any number of requests | 343 000 | pages are never torn or mixed up, frames never lost, `PagePool` is implemented, a request that was begun ends |
| `mem_pool_access` | | | **violated**: see Findings |
| `head_node` | all head nodes up to 10 LSNs, nodes of 2 and 4 entries | 6 600 | the algorithms agree with their reference definitions, and nodes stay filled |
| `log_index` | 4 LSNs, nodes of 1 and 2, 2 readers, background thread | 253 000 | `PageVersions` is implemented: stored versions are exact, the next replay finds its base version, vacuuming loses no record, no version leaks, `headLock` is released |
| `log_index_fetch` | as above | | **violated** |
| `hash_bucket` | 3 pages, parser, reader, background thread, batches of 1 | 257 000 | no head is lost, listed twice or cut off; no deadlock |
| `hash_bucket_live` | 2 pages | 21 000 | a scan ends, every `headLock` is released |
| `hash_bucket_scan` | as `hash_bucket` | | **violated** |
| `wal_ingest` | 3 records, 3 pages, 2 buffers, 2 waiting threads | 117 000 | complete pages are read whole, `WalOrder` is implemented (records are indexed in order and only when on disk), a lost wake-up delays only, `WaitParse` returns |
| `wal_page_read` | as above, 1 thread | | **violated** |
| `replay_pool` | 3 threads with 2, 1 and 1 calls, 2 processes, pages of 2 units, one death, server exit | 119 000 | every call gets its own complete answer, `ReplayService` is implemented, a process that lives is released again, all processes end after the server |

Why the bounds are enough: there are more pages than frames, and in `lru_cache`
more callers than the smaller shard has frames, so eviction, hand-over, a shard over
its capacity and an empty free list happen; lists
need the head, a full element node and a partial one, with the collection limit
reached inside one; two readers and the background thread can each replay from the
version another left; with three heads, one can be first, last or between when it
moves, and batches of one make every scan take several turns; the WAL has a record
within a page, one over three pages and one that ends at a page boundary, and wraps
around the ring; two of the three threads select the same replay process, so one
goes on to the next and, if both are taken, queues; pages of two units make every
loop over `read` and `write` go round more than once. Every property has a mutant of a modelled operation that violates
it (the `Faulty…` definitions).

Deadlock is checked but in `lru_cache` and `mem_pool*`, where callers may all stop
(nobody has to send requests, and a handle address may not be free), and in `replay_pool`, where calls are bounded and the
server exits.

**Fairness.** A thread that can take a step takes it (weak fairness), for threads
that are inside an operation only: nobody has to send requests or WAL. In
`HashBucket`, taking `bucketLock` for reading is strongly fair: glibc's
`pthread_rwlock_t` prefers readers by default, so a reader gets the lock if it is
free again and again. A replay process and its callers are scheduled in the same
sense; nothing makes a process die or the server exit. `RequestsEnd` allows that a
request waits for ever for `rw_mtx` while other requests that begin later get it:
`std::shared_mutex` promises no order. `WaitForNewXLog` times out, by `pthread_cond_timedwait`.

`CompletedIsParsed` and `WaitParseEnds` speak of WAL that has gone on to a later
page. Before that, `WaitParse` may have to wait for more WAL (see Findings).

## Findings

* `mem_pool_access`: `access_page_handler` releases what `Lookup` returned without a
  test; for a page that is not cached that is `nullptr` (`init_server.cc:335`).
* `log_index_fetch`: with an empty replay list, `ReadBufferCommon` fetches the
  version `replayedLsn` names after `headLock` has been released, and for a target
  below `replayedLsn` one that was deleted or never stored (`rpcserver.cpp:348`).
* `hash_bucket_scan`: the background scan skips the heads it has finished once more
  from where it stopped, and so leaves out others
  (`background_hashmap_vacuumer.cpp:77`).
* `wal_page_read`: for the page that `RpcXLogFlushedLsn` lies in, `XLogPageRead`
  computes the length from `flushedUpto`, 0 on the storage server; records there
  are not parsed before the WAL goes on to the next page (`xlog.c:12769`).

## Proofs

`LRUCacheProofs` proves, for any number of
pages, addresses, callers, shards and frames (`ConstantsAssumption`: callers and
addresses are finitely many, `NULL` is none of the others):

* `CacheInvariant`: `CacheSpec => []CacheInv`, and from it `TypesCorrect`,
  `EntriesOnOneList`, `TableFindsEntries`, `RefsExact`, `UsageExact`,
  `HandlesStayLive` and `FramesHaveOneOwner`;
* `UsageStaysBounded`: a shard has at most as many entries as its capacity or as
  there are callers;
* `PinnedStayCached`: the action property `PinnedLeavesByRequest`, an entry in use
  leaves the cache only by `Erase` or `Insert` of its own key. What is evicted or
  pruned has one reference, the cache's, and is deleted in the same step.

`CacheInv` is the conjunction of the invariants that `lru_cache` checks but
`UsageBounded`, the types and `UsageCounted`. None is inductive alone: that a caller's handle is live needs
exact reference counts; exact counts need that an evicted entry, one with a single
reference, is held by nobody, hence that `lru_` holds exactly those; the eviction
finds each entry of `lru_` under its key, which needs the table; frames have one
owner only if the evicted handle is deleted, which needs the counts again. The
module has first the lemmas on lists and counting and the operations that only
remove (`Ref`, `Release`, erasure), then the insertion, whose evictions are
the first entries of the list without a duplicate, and at last combines them. For
`UsageStaysBounded`, the loop ends either within the capacity or with an empty
list, when every entry is held, and no caller holds two (`AllPinned`).

`MemPoolProofs` proves, for any number of pages, frames, shards and workers such that
no shard has fewer frames than there are workers (`WorkersAssumption`; the server
starts 10 workers and gives each shard 256 frames), `PoolInvariant`:
`Spec => [](CacheInv /\ PoolInv)`, and from it `PagesIntact`,
`ShardsStayWithinCapacity`, `FramesStay`, `PagesHaveOneFrame` and
`ServerImplementsPagePool` (`Spec => ImplementsPagePool`). `PoolInv` adds to the
cache's invariant that the handlers never make an entry leave the cache while it is
used, and that each handle has a frame (`FramesInv`); that a worker owns `rw_mtx`
exactly between lock and unlock, of a handle of its own page (`WorkerInv`); and that a
page is whole unless a worker is about to write it, and then has what that worker
wrote so far (`ContentsInv`). A miss in the cache is the hard step (`MissStep`): a
shard within its capacity that is full has an entry nobody holds, since the other
workers are fewer than its entries, and hands its frame over; if it is not full, the
free list is not empty, because the capacities of all shards add up to no more
than the number of frames (`ShareOfShard`, `SharesDisjoint`, `FrameLeft`). In the
refinement, pinning is `Request`, with the pages of the evicted entries dropped, the
first half of the copy is `Apply`, and the release of a flush is `End`.

`ReplayPoolProofs` proves, for any number of threads, processes, calls, deaths and
units of a page (`PoolAssumption`), `PoolInvariant`: `Spec => []PoolInv`, and from
it `AnswersAreOwn`, `FreeIsReady` and `Refinement` (`Spec => Service!ServiceSpec`).
That an answer is the caller's own follows from the state of the pipes: behind an
owned mutex, what is in `serverPipe`, `stdin_buf` and already executed is, in this
order, what the owner has sent (`RequestsInOrder`), and what is in `computePipe` and
read is what the process has answered (`AnswersInOrder`); behind a free mutex both
pipes and `stdin_buf` are empty (`FreeInv`), unless the process is gone. `Unlock`
establishes the latter from the former because every call reads exactly as much as
its last command answers. The refinement maps a call's commands that are not yet
executed to `todo` and the owner of a mutex to `serving`.

`WalIngestProofs` proves, for every page size, number of buffers, set of record ends
and number of waiting threads (`WalAssumption`), `IngestInvariant`:
`Spec => []IngestInv`, and from it `TypesCorrect`, `CompletePagesAreFull`,
`IndexedRecordsStored`, `ParsedRecordsIndexed` and `IngestImplementsWalOrder`
(`Spec => ImplementsWalOrder`). `FullPageComplete` is far from
inductive: the parser decides by `RpcXLogFlushedLsn`, then takes a buffer's lock,
then compares `RpcXlblocks`, then copies, and the writer may be anywhere in its
own five steps. `IngestInv` adds what the steps in between rely on: the file holds
exactly the WAL up to some LSN (`DiskInv`); nothing is published before it is
written, and the pages of one write have different buffers (`WriterInv`); a buffer
labelled with a page by `RpcXlblocks` holds all of it if the WAL was beyond that page
when the write began, and otherwise, once unlocked, no more than the file
(`BufferInv`); and what the parser has read, decided or indexed is in the file
(`ParserInv`). In the refinement, `Pwrite` is `Write`, `PublishFlushed` is `Announce`,
`IndexRecord` is `Index` and `AdvanceParseUpto` is `Advance`; a file with the WAL up to an
LSN holds it up to no later one (`ContentCovers`).

Type correctness of `LRUCache`, `MemPool`, `LogIndex`, `WalIngest` and `ReplayPool` is a
part of these invariants and is proved rather than checked by a run.

`HeadNodeProofs` is about the operators of `HeadNode`, for every head node whose
entries ascend and whose nodes are filled (`NodeInOrder`), every target and all sizes
of the nodes (`SizesAssumption`):

* `LowerBoundFound`: the binary search returns the position of the last entry that
  is not above its target (`LastUpTo`). The induction over the search interval is on
  its length, by the library's theorem that the naturals are well-founded: a smallest
  interval on which the search were wrong would have a smaller one (`SearchFinds`);
* `ReplayListExact`, `OlderVersionExact`: what `HashMapGetBlockReplayList` returns,
  whether it starts in the head, in the first element node or behind others;
* `CollectedExact`, `FreedNodesCollected`: what the background thread collects is
  the first unreplayed LSNs without a gap, and it frees no node that has more;
* `InsertedInOrder`: an insertion keeps `NodeInOrder` and adds its LSN.

`LogIndexVersionsProofs` proves of every head node that can be built (`HeadNodeSpec`), for any sequence
of insertions, replays and turns of the background thread, all sizes of the nodes and
every `LastLsn`, what the run `head_node` checks up to ten LSNs: `LowerBoundAlways`,
`ReplayListAlways`, `OlderVersionAlways`, `CollectedAlways` and `NodesFilledAlways`.
The theorems above need a node in order, and compare with what the node lists; the
properties compare with all that was inserted, of which the background thread has
removed a part.
So the inductive invariant, `NodeInv` (`NodeInvariant`), says that the node is in
order, that it lists inserted LSNs only, all that are above `replayedLsn`, and
always the last one, and that `replayedLsn` is 0 or one of them. Freeing nodes
keeps this only because what is freed has been collected (`FreedNodesCollected`), what
is collected has no gap (`CollectedExact`) and becomes `replayedLsn` in the same step,
and because the last node of the chain is never freed (`LastNodeKept`).

`LogIndexProofs` proves, for any number of readers, any WAL and all sizes of the nodes
(`SizesAssumption`, `ThreadsAssumption`, `ValuesAssumption`: `NONE` is neither a
thread, a head node nor a page), `LogInvariant`: `Spec => []LogInv`, and from it
`LogIndexTypes`, `VersionsAreExact`, `ReplayedVersionIsStored`, `UnreplayedIsKept`,
`NoVersionIsLeaked` and `ReplayedAnswersAreExact`. That a stored version is exact
cannot be shown alone: it is made from the version `replayedLsn` names and a list
that was built some steps before. `LogInv` adds who holds `headLock` (`LockInv`);
that the head node lists every record of the WAL above `replayedLsn`, or, while the
background thread has the lock and has already freed nodes, above the last one that
it has collected (`HeadInv`, `FreedUpTo`); that a thread with the lock has exactly the
records that follow the current version, up to the last of its list, and has applied
them once it is past `"apply"` (`Carries`); that this last one is the last up to the
reader's target (`Reaches`); and that `replayedLsn` names a stored version but in the
background thread's step between deletion and update, which holds the lock
(`StoreInv`, `VacuumerInv`). A reader deletes the old version only after it has
released the lock; this is harmless because what it deletes is older than
`replayedLsn`, which never decreases (`ReaderInv`).

`LogIndexVersionsProofs` proves the refinement, `LogIndexImplementsPageVersions`:
`Spec => ImplementsPageVersions`.
A request's page is shown in `PageVersions` from its `HashMapUpdateReplayedLsn` on,
which is its `Replay`: `Carries` and `Reaches` say that it has applied exactly the
records up to the last one not above its target, and that no such record has been
parsed since, because an insertion needs `headLock` too. `Fetch` is `Recall`, or a
stutter if the version is gone (see Findings): what it finds is a version by
`VersionsExact`, and not above the target by `RequestOK`, the only addition to `LogInv`
that the refinement needs. The background thread's update is `Advance`; all other
steps between asking and returning are invisible.

`HashBucketProofs` proves, for any number of pages, readers and background threads
(`BucketAssumption`), `BucketInvariant`: `Spec => []BucketInv`, and from it
`HeadsStayListed`, `PrevHeadsSound` and `LockedHeadsListed`. `BucketInv` says that
there is a sequence of all heads along which `nextHead` runs from `nodeList` to its
end, while a `prevHead` is either not set or names the head in front (`Linked`), and
which thread holds which lock at which step. The proof gives the new sequence: a
new head is put in front of it, and `MoveToFront` takes a head out and puts it there,
or leaves the list alone if its `prevHead` is not set. Both happen under the write
lock, so no thread that reads the list sees it in between.

Only model-checked is liveness, which needs fairness and ENABLED and is beyond TLAPS:
`RequestsEnd`, `LockReleased`, `ScanEnds`, `HeadLocksReleased`, `WaitParseEnds`,
`CompletedIsParsed`, `ProcessReleased` and `ProcessesEnd`. Every invariant, action
property and refinement of a passing run has a theorem.

## Not modelled

* I/O errors (a short or failed `pg_pwrite`, RocksDB errors), the RDMA device, the
  contents of records and pages, segment switches and timelines of the WAL. Time:
  intervals and timeouts are nondeterministic.
* Dispatch and thread pool of the memory pool. The workers of `MemPool` take any
  request at any time, which includes every order in which the queues can deliver
  them, but not what the queues can lose (a full queue, several producers, a restart
  of the pool), nor that `server_communication_thread` passes a local variable. These
  are listed as hazards without a property. The handlers' replies, which go to node 0
  (`init_server.cc:315`), are left out with the transport.
* Clients of the memory pool: a one-sided read is a transfer by the device, and its
  consistency with a flush is not promised anywhere in the code.
* The relation-size cache. The sizes that parser and handlers put there come from
  relation files, by `smgr` and the replay processes; a model would need those files
  and the record types that change them. `ReplayPool` has the calls that ask for a
  size.
* Record types: which blocks of a record get an entry is a table of cases without
  interaction, one step (`IndexRecord`) of `WalIngest`.
* The composition of `LogIndex` and `WalIngest`: a reader of `LogIndex` asks for any
  LSN at any time, parsed or not, so what `WaitParse` adds is only in `WalIngest`.
* Compute nodes, generated code, and PostgreSQL as far as the fork leaves it alone.

`PROJECT.json` lists every part with its status, and the hazards that no property
covers with the reason.
