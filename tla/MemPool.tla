------------------------------ MODULE MemPool -------------------------------
(***************************************************************************)
(* The page handlers of the memory pool server (MemPoolManager,            *)
(* src/backend/storage/GroundDB/init_server.cc): worker threads of the     *)
(* server's thread pool run flush_page_handler and access_page_handler     *)
(* concurrently over the page cache of module LRUCache.                    *)
(*                                                                         *)
(* A page is copied in two halves, as memcpy is not atomic.  A worker      *)
(* takes any request whenever it is idle, without end.  Allocating and     *)
(* sending the reply touches none of this state and belongs to the step    *)
(* that ends a handler.                                                    *)
(***************************************************************************)
EXTENDS LRUCache

CONSTANTS
  Data           \* page contents a client can flush

Halves == {1, 2}

NoRequest == [page_id |-> NULL, page_data |-> NULL]
Requests == [page_id : Keys, page_data : Data \cup {NULL}] \cup {NoRequest}

\* No shard has fewer frames than there are workers: mempool_server.cc starts
\* 10 workers, and 1 << 15 frames give each shard 256.
ASSUME WorkersAssumption ==
  /\ \A s \in Shards : Capacity(s) >= Cardinality(Threads)
  /\ NULL \notin Threads \cup Data \cup Requests
  /\ NULL \notin [page_id : Keys, page_data : Data, done : BOOLEAN]

VARIABLES
  pc,        \* where each worker is in its handler
  req,       \* the request it serves: page id and page data
  rw_mtx,    \* the worker that owns a handle's rw_mtx, or NULL
  page,      \* the page array (pa_buf): the two halves of each frame
  page_id,   \* the page id array (pida_buf)
  down       \* the process has dereferenced nullptr

poolVars == <<pc, req, rw_mtx, page, page_id, down>>
vars == <<cacheVars, poolVars>>

Init ==
  /\ CacheInit
  /\ pc = [t \in Threads |-> "idle"]
  /\ req = [t \in Threads |-> NoRequest]
  /\ rw_mtx = [h \in Handles |-> NULL]
  /\ page = [f \in Frames |-> [i \in Halves |-> NULL]]
  /\ page_id = [f \in Frames |-> NULL]
  /\ down = FALSE

At(t, from, to) ==
  /\ ~down /\ pc[t] = from
  /\ pc' = [pc EXCEPT ![t] = to]

Take(t, r) == req' = [req EXCEPT ![t] = r]

\* pagemeta, the frame of the pinned entry.
frame(t) == value[held[t]]

-----------------------------------------------------------------------------
(***************************************************************************)
(* flush_page_handler.                                                     *)
(***************************************************************************)
\* Faulty variant: a page that is cached is not written again.
FaultyFlushPinKeepsOld(t, k, d) ==
  /\ At(t, "idle", IF table[k] # NULL THEN "release" ELSE "lock")
  /\ Take(t, [page_id |-> k, page_data |-> d])
  /\ LookupInsert(t, k)
  /\ UNCHANGED <<rw_mtx, page, page_id, down>>

\* LookupInsert(req->page_id, nullptr, 1, nullptr) pins an entry for the page.
FlushPin(t, k, d) ==
  /\ At(t, "idle", "lock")
  /\ Take(t, [page_id |-> k, page_data |-> d])
  /\ LookupInsert(t, k)
  /\ UNCHANGED <<rw_mtx, page, page_id, down>>

\* Faulty variant: the mutex is not waited for.
FaultyFlushLock(t) ==
  /\ At(t, "lock", "copy1")
  /\ rw_mtx' = [rw_mtx EXCEPT ![held[t]] = t]
  /\ UNCHANGED <<cacheVars, req, page, page_id, down>>

\* pagemeta = e->value; lk(e->rw_mtx).
FlushLock(t) ==
  /\ At(t, "lock", "copy1")
  /\ rw_mtx[held[t]] = NULL
  /\ rw_mtx' = [rw_mtx EXCEPT ![held[t]] = t]
  /\ UNCHANGED <<cacheVars, req, page, page_id, down>>

\* memcpy(pagemeta->page_addr, ...), the first half; without a frame,
\* pagemeta is nullptr and the server dies.
FlushCopyFirst(t) ==
  /\ At(t, "copy1", "copy2")
  /\ IF frame(t) = NULL
       THEN down' = TRUE /\ page' = page
       ELSE down' = down /\ page' = [page EXCEPT ![frame(t)][1] = req[t]]
  /\ UNCHANGED <<cacheVars, req, rw_mtx, page_id>>

FlushCopySecond(t) ==
  /\ At(t, "copy2", "copyid")
  /\ page' = [page EXCEPT ![frame(t)][2] = req[t]]
  /\ UNCHANGED <<cacheVars, req, rw_mtx, page_id, down>>

\* Faulty variant: the mutex stays locked.
FaultyFlushCopyIdLocked(t) ==
  /\ At(t, "copyid", "release")
  /\ page_id' = [page_id EXCEPT ![frame(t)] = req[t].page_id]
  /\ UNCHANGED <<cacheVars, req, rw_mtx, page, down>>

\* memcpy(pagemeta->page_id_addr, ...); lk.unlock().
FlushCopyId(t) ==
  /\ At(t, "copyid", "release")
  /\ page_id' = [page_id EXCEPT ![frame(t)] = req[t].page_id]
  /\ rw_mtx' = [rw_mtx EXCEPT ![held[t]] = NULL]
  /\ UNCHANGED <<cacheVars, req, page, down>>

\* lru->Release(e), and the reply; also the end of access_page_handler.
ReleasePage(t) ==
  /\ At(t, "release", "idle")
  /\ Release(t)
  /\ req' = [req EXCEPT ![t] = NoRequest]
  /\ UNCHANGED <<rw_mtx, page, page_id, down>>

-----------------------------------------------------------------------------
(***************************************************************************)
(* access_page_handler: refresh the page's position in the LRU order.  It  *)
(* releases what Lookup returned, nullptr included.                        *)
(***************************************************************************)
AccessLookup(t, k) ==
  /\ At(t, "idle", "release")
  /\ Take(t, [page_id |-> k, page_data |-> NULL])
  /\ Lookup(t, k)
  /\ UNCHANGED <<rw_mtx, page, page_id, down>>

ReleaseNull(t) ==
  /\ At(t, "release", "idle")
  /\ held[t] = NULL
  /\ down' = TRUE
  /\ UNCHANGED <<cacheVars, req, rw_mtx, page, page_id>>

Worker(t) ==
  \/ \E k \in Keys, d \in Data : FlushPin(t, k, d)
  \/ FlushLock(t) \/ FlushCopyFirst(t) \/ FlushCopySecond(t) \/ FlushCopyId(t)
  \/ \E k \in Keys : AccessLookup(t, k)
  \/ ReleasePage(t) \/ ReleaseNull(t)

Next == \E t \in Threads : Worker(t)

\* A worker thread that has begun a request keeps running.
Fairness ==
  \A t \in Threads :
    WF_vars(FlushLock(t) \/ FlushCopyFirst(t) \/ FlushCopySecond(t)
              \/ FlushCopyId(t) \/ ReleasePage(t) \/ ReleaseNull(t))

Spec == Init /\ [][Next]_vars
FairSpec == Spec /\ Fairness

-----------------------------------------------------------------------------
(***************************************************************************)
(* Properties.                                                             *)
(***************************************************************************)
\* The type of the handlers' state and of the page arrays.
PoolTypeOK ==
  /\ pc \in [Threads -> {"idle", "lock", "copy1", "copy2", "copyid", "release"}]
  /\ req \in [Threads -> Requests]
  /\ rw_mtx \in [Handles -> Threads \cup {NULL}]
  /\ page \in [Frames -> [Halves -> Requests \cup {NULL}]]
  /\ page_id \in [Frames -> Keys \cup {NULL}]
  /\ down \in BOOLEAN

\* A cached page no handler is working on is whole: both halves are from one
\* flush, of that very page, and the page id array names it.  The pin, the
\* rw_mtx and the hand-over of frames are all needed for this
\* (init_server.cc:305-311).
PageIntact ==
  \A s \in Shards : \A h \in Range(lru[s]) :
    /\ value[h] # NULL
    /\ page[value[h]][1] = page[value[h]][2]
    /\ page[value[h]][1].page_id = key[h]
    /\ page_id[value[h]] = key[h]

\* Every frame is on the free list or belongs to a cached page: none is lost,
\* so a flush always gets a frame and pagemeta is never nullptr.  This needs
\* that no shard is smaller than the number of workers.
FramesConserved ==
  /\ Range(freelist) \cup {value[h] : h \in live} = Frames
  /\ \A t \in Threads : pc[t] = "copy1" => frame(t) # NULL

\* cache.cc:204, assert(usage_ <= capacity_), when the workers are no more
\* than a shard's capacity.
WithinCapacity == \A s \in Shards : usage[s] <= Capacity(s)

\* One page has one frame: two allocated handles never have the same key.
OneFramePerPage == \A g, h \in live : key[g] = key[h] => g = h

\* Every request a worker has begun ends, or the server is down, or requests
\* that begin later get rw_mtx before it for ever: a mutex promises no order.
RequestsEnd ==
  \A t \in Threads :
    \/ []<>(pc[t] = "idle" \/ down)
    \/ []<><<\E u \in Threads : pc[u] = "idle" /\ pc'[u] # "idle">>_vars

\* cache.h:119-121: only a handle that a method of the cache returned is
\* released.  access_page_handler releases Lookup's nullptr (init_server.cc:335).
ReleasesOnlyHandles == \A t \in Threads : pc[t] = "release" => held[t] # NULL

(***************************************************************************)
(* The pool's contents, as a client sees them: a flush counts from its     *)
(* first write to the frame on.                                            *)
(***************************************************************************)
poolContents ==
  [k \in Keys |->
     LET h == table[k]
         here == h # NULL /\ value[h] # NULL
         c == IF here THEN page[value[h]][1] ELSE NULL
     IN  IF c # NULL /\ c.page_id = k THEN c.page_data ELSE NULL]

\* The flush a worker is executing.
flushRequest ==
  [t \in Threads |->
     IF req[t].page_data = NULL THEN NULL
     ELSE [page_id |-> req[t].page_id, page_data |-> req[t].page_data,
           done |-> pc[t] \notin {"lock", "copy1"}]]

Pool == INSTANCE PagePool
          WITH pool <- poolContents, flushing <- flushRequest, Clients <- Threads, None <- NULL

\* The server implements PagePool: each flush changes its own page, once; no
\* page is replaced by another one's contents, nor dropped during a flush.
ImplementsPagePool == Pool!Spec

-----------------------------------------------------------------------------
(***************************************************************************)
(* The inductive invariant behind the safety properties, beside that of    *)
(* the cache.                                                              *)
(***************************************************************************)
\* The worker is in flush_page_handler and has not finished its page.
Writing(t) == pc[t] \in {"lock", "copy1", "copy2", "copyid"}

\* The worker owns the rw_mtx of its handle.
Locked(t) == pc[t] \in {"copy1", "copy2", "copyid"}

\* Both halves of the handle's frame are from one flush of its page.
Intact(h) ==
  /\ page[value[h]][1] \in Requests
  /\ page[value[h]][1] = page[value[h]][2]
  /\ page[value[h]][1].page_id = key[h]
  /\ page_id[value[h]] = key[h]

\* Only unused entries leave the cache, so all handles are cached; each has a
\* frame, and the frames that nobody had yet are blank.
FramesInv ==
  /\ live = in_cache
  /\ \A h \in live : value[h] # NULL
  /\ Range(freelist) \cup {value[h] : h \in live} = Frames
  /\ \A f \in Range(freelist) : page[f][1] = NULL

\* A worker's handle belongs to the page of its request, which an idle worker
\* does not have, and it owns the mutex between lock and unlock.
WorkerInv ==
  \A t \in Threads :
    /\ pc[t] = "idle" => held[t] = NULL
    /\ Writing(t) => held[t] # NULL
    /\ held[t] # NULL => req[t].page_id = key[held[t]] /\ req[t] # NoRequest
    /\ held[t] = NULL => req[t].page_data = NULL
    /\ Writing(t) => req[t].page_data # NULL
    /\ \A h \in Handles : rw_mtx[h] = t <=> Locked(t) /\ held[t] = h

\* What a worker has copied so far is still there, and a page is whole unless
\* a worker is about to write it.
ContentsInv ==
  /\ \A t \in Threads :
       /\ pc[t] \in {"copy2", "copyid"} => page[frame(t)][1] = req[t]
       /\ pc[t] = "copyid" => page[frame(t)][2] = req[t]
  /\ \A h \in live : Intact(h) \/ \E t \in Threads : held[t] = h /\ Writing(t)

PoolInv ==
  PoolTypeOK /\ WithinCapacity /\ FramesInv /\ WorkerInv /\ ContentsInv
=============================================================================
