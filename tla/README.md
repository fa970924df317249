# A TLA+ model of the pgvector indexes

The repository is a PostgreSQL extension (pgvector with the TurboQuant and
hybrid-search additions). What it owns is vector types and three index access
methods whose pages are read and written by many backends at once: HNSW,
IVFFlat, and a native TurboQuant graph with a BM25 side. PostgreSQL supplies
buffer locks, WAL, heavyweight page locks and the heap; the extension supplies
the protocol between inserts, scans, VACUUM and cancelled statements. That
protocol is what these modules model, what TLC checks and what TLAPS proves;
beside it stand the extension's sequential algorithms (top-k pruning, fusion,
neighbor selection, k-means, graph search, sparse vectors), checked against definitions of
their results.

Run a model with `tlc -config <X>.cfg MC_<module>`, the proofs with
`tlapm <module>Proofs.tla` (and NatOrder, TqGraphInvariant). `PROJECT.json` lists runs, mutants, the definition
to source map, findings, hazards and theorems.

## Inventory

| Component | State it keeps | Operations | What is hard |
|---|---|---|---|
| HNSW index (`hnswinsert.c`, `hnswvacuum.c`, `hnswutils.c`, `hnswscan.c`) | element and neighbor tuples on a chain of pages; metapage (entry point, its level, insert page); `HNSW_UPDATE_LOCK`, `HNSW_SCAN_LOCK` | insert (search, duplicate, add element, update neighbors, metapage), ordered scan, VACUUM in three passes | every page is locked alone, so neighbors, levels and entry point are remembered across steps; VACUUM's two waits; cancelled statements; places are reused |
| HNSW build (`hnswbuild.c`) | graph in shared memory, its memory counter, locks (flush, entry, entry wait, list, elements) | parallel insertion, flush to pages, switch to on-disk inserts, end of the build | the flush racing inserts, two participants raising the entry point, a page layout computed before the pages exist |
| HNSW search (`hnswutils.c`, `hnswscan.c`) | candidates, results, visited and discarded elements of a scan; closer flags of a list | SelectNeighbors, batches of an iterative scan | flags reused when a list changes; nothing lost or returned twice between batches |
| IVFFlat (`ivfinsert.c`, `ivfvacuum.c`, `ivfscan.c`, `ivfutils.c`) | lists with start and insert page, chains of entry pages | insert, VACUUM, batched scans | the insert page is a hint two writers race on; cleanup locks |
| IVFFlat build (`ivfbuild.c`, `ivfkmeans.c`) | samples, centers, bounds | sampling, Elkan k-means, sorted insertion | bounds staying valid, empty clusters |
| TurboQuant graph (`tqgraph*.c`) | code, adjacency and exact tuples by node id; metapage with node count and generation; a cache per backend | in-place insert, scan, VACUUM with adjacency repair | reciprocal links are written before the node exists; caches validated by generation; VACUUM reads the metapage before it locks |
| Quality control (`tqgraphcontrol.c`, `tqgraph_psquare.c`) | running quantiles | observe, adapt the search effort | numeric edges |
| Hybrid search (`tqhybrid.c`, `hybrid_query.c`) | query object, arm results | parse, budgets, run both arms, merge by sort or hash, fuse | ties, documents of one arm only, a product of two ints |
| BM25 (`tqhybrid_bm25_*.c`) | base postings, delta records, metadata; cursor and cache per backend; accumulator of a query | insert, VACUUM, compaction, build with spills, top-k | compaction without a lock, caches keyed by some of what they depend on, pruning by bounds |
| Types (`vector.c`, `halfvec.c`, `sparsevec.c`, `bitvec.c`) | none | parsing, casts, arithmetic | boundaries, merge order |
| Scoring kernels, diagnostics (`tqgraph_score.c`, `tqgraph_diag.c`, `tqstats.c`) | counters | SIMD dispatch, reports | nothing a state model adds to |

What makes the HNSW index correct: a heap TID is in the element of its value and
of no other; a TID the heap may reuse is nowhere in the index; the entry point
is an element that exists, at its level; a write meant for one element never
lands in another that took its place; no scan computes a distance to a vector
VACUUM has erased; a committed row can be found; inserts and VACUUM end.

## Modules

### HnswIndex

One step is what a backend does under one buffer lock, or one call to LockPage.
Between two steps of a backend any other backend may run.

* Shared state: `elem`, `ntup` (tuples by slot), `npages`, `meta`, `heap`,
  `updLock`, `scanLock`. A slot is a page of the `nextblkno` chain that holds one
  element and its neighbor tuple, which is what the program does for vectors
  that fill a page; with several elements on a page its steps only grow.
* Local state of a backend: `pc` (where it is), `me` (the element it inserts or
  repairs), `ep` (the entry point it read), `srch` (a HnswSearchLayer call), `nb`
  (neighbors selected per layer), `upd` (HnswUpdateNeighborsOnDisk), `walk`
  (AddElementOnDisk), `vac` (HnswVacuumState).
* Inserts: `BeginInsert`, `LockForInsert` (shared lock, given back to wait for the
  exclusive one), the search steps, `GiveUpDuplicates`/`AddDuplicate`,
  `ReplaceDeleted`/`NextPage`/`AppendPage`, `UpdateInsertPage`, the neighbor
  update, `FinishInsert` (entry point, unlock).
* Searches (`EntryCandidate`, `ExpandCandidate`, `LoadUnvisited`, `DescendLayer`,
  `FinishLayer`) are shared by inserts, repairs and scans. Neighbor TIDs are
  copied under one lock and loaded one by one under others.
* VACUUM: `RemoveHeapTids` per page; `WaitForInserts`; `LockHighest` ..
  `LockEntryPoint` for RepairGraphEntryPoint; `LoadForRepair` ..
  `FinishRepair` for the repair loop; `WaitForScans`; `MarkDeleted` per page;
  `EndVacuum`. The repair runs the same search and the same neighbor update.
* `Cancel` ends any statement between two steps, as an interrupt or an I/O error
  does. What it wrote stays. `RowDies` is the heap.

Distances are abstracted: which candidate is closest is a nondeterministic
choice. efConstruction and ef_search are at least the number of slots, so a
search of the layers an element lives in is exhaustive; a smaller ef finds
fewer neighbors, which is a matter of recall, not of this protocol.

| Run | Instance | Shows |
|---|---|---|
| `hnsw_scan_vacuum` | 1 insert, 1 scan, 2 VACUUMs, 3 slots, 1 layer, 1 cancel | places are reused, index and heap agree; repaired elements have no deleted neighbor; scans never load a zeroed vector; inserts (`InsertsEnd`) and VACUUM (`VacuumEnds`) end |
| `hnsw_concurrent` | 2 inserts, VACUUM, 4 slots, 2 layers, 2 values | duplicates and neighbor updates hit the element they were decided for; committed rows stay reachable; the metapage names a live element at its level (`EntryOk`; with cancels and an empty index by the theorem `EntryKept`); `Coherent` |
| `hnsw_promoted_entry` | 1 insert, 1 scan, 1 VACUUM, M = 1, 2 layers, nothing cancelled | finding: a scan loads a vector that MarkDeleted has zeroed |

Two inserts are the fewest that race each other, and with VACUUM every pair of
roles is present; four slots are two built elements and one for each insert;
two values are the fewest for which a wrong duplicate shows; two layers are the
fewest with an entry point change. HEAPTIDS is 2 (or 1) instead of 10 so that
elements fill up. Deadlock checking is off because rows, VACUUM runs and pages
are bounded and the system legitimately comes to rest.

Fairness (`LiveSpec`): inserts and VACUUM are strongly fair, because LockPage
queues requests and grants a lock that is free again and again; scans are
weakly fair, since they only run. Nobody is obliged to begin anything.

`hnsw_promoted_entry` differs from `hnsw_scan_vacuum` in its second layer.
RepairGraphElement skips the entry point (hnswvacuum.c:218), and pass 1 leaves
out of `highestPoint` the entry point there was when it began. An insert that is
promoted during pass 1 is not that one and may become `highestPoint`; it is then
skipped in all three repairs (lines 285, 327 and 436), each time because it is
the entry point it would be repaired with. If pass 1 emptied one of its
neighbors after it was selected, it keeps it. So `DeletedUnreferenced` and
`ScansNeverReadDeleted` are no theorems for all constants. That this is the only
way to break them is one: they hold of every behaviour in which no insert replaces
an entry point during pass 1 (`EntryStays`). With one layer no insert replaces an
entry point that exists, so `hnsw_scan_vacuum` checks them without that hypothesis.

The bounds keep out some more behaviours of the code in which a comment of it
is too strong; the same model shows them with other constants:

* Elements still to be repaired keep deleted neighbors, so an insert that begins
  after RepairGraph's wait (hnswvacuum.c:351) can meet one and load its vector
  after MarkDeleted, which waits for scans only, has zeroed it.
  `ScansNeverReadDeleted` is about scans for this reason.
* RemoveElements (hnswutils.c:3188) drops an element without TIDs before
  neighbors are selected. A row inserted while the entry point is emptied is
  connected to the others only, and if VACUUM is cancelled before pass 2 it
  cannot be reached from the entry point: `AllReachable` is checked without
  cancelled statements.
* SelectNeighbors returns candidates unsorted when they all fit, so the loop of
  FindDuplicateOnDisk that stops at the first neighbor with another value
  (hnswinsert.c:703) may stop before a duplicate. The row then gets an element
  of its own, which breaks no property here.
* Versions wrap from 15 to 1 (hnswvacuum.c:554); an iterative scan would have to
  sleep through 15 reuses of a place, which is out of TLC's bounds.

### HnswIndexProofs

`TypeCorrect`, `AlwaysCoherent`, `ValuesCorrect`, `WritesCorrect`, `TidsPlaced`,
`EntryKept`, `RepairComplete` and `ScansSafe`, for every set of backends, rows and
pages, every M, number of levels and VACUUM runs.
Assumptions are those of `ConstantsAssumption`: backends are distinct, Nil is no
TID, the built rows fit in pages and lists.

The type invariant is not inductive: a step that follows a TID needs it to be
valid. `Defined` says so, for each step that follows one, and `TypeOK /\ Defined`
is inductive (`T_Next`). That CREATE INDEX leaves an entry point needs the least
element of a set of naturals (`NatOrder`, by well-founded induction).

`TidRightValue` and `WriteTarget` depend on the whole protocol: a backend that
remembers a live element acts on it later without looking at its version. It is
safe because (1) an insert holds `HNSW_UPDATE_LOCK` from its search to its last
write (`Locked`), (2) VACUUM empties elements in pass 1, waits for all holders,
and deletes only elements that were empty (`Current`: an element that is
remembered may be empty only while VACUUM has not got past that wait), (3) an
insert replaces only deleted elements or takes new pages, and (4) VACUUM
repairs an element as it loaded it, since a live element is deleted by nobody
else (`Repairing`). `Fresh` is the conjunction, `Coherent` adds the types; TLC
checks it in `hnsw_concurrent`, and F_<action> proves each step. The barrier is
`F_WaitForInserts`: with the lock free, every insert is outside its locked
section and remembers nothing.

`TidPlaced` and `EntryOk` rest on `Steady` (`AlwaysSteady`; S_<action> proves each
step, on top of `Coherent`), which has four parts:

* `Matched` says `TidPlaced` of all pages, in the chain or not: a row is in one
  element at most, elements with TIDs are in the chain.
* `Inserting` is about the time between the steps of an insert: its TID is its
  own, in no element until it is placed, and then in the element it has placed
  (`Placing`). So AddDuplicateOnDisk cannot make a second copy, and a cancelled
  insert leaves a dead TID that VACUUM finds.
* `Removing`: VACUUM's TIDs stay dead; pages it has passed have none of them, and
  those it has passed without TIDs are on its list of the deleted. That no new
  page can hide one is why `EndVacuum` may give the TIDs back to the heap.
* `Entered`: EntryOk is not inductive, since MarkDeleted deletes what has no TIDs
  and the entry point may be emptied. Whatever can become the entry point has TIDs
  (`Alive`: the highest element kept, the element the loop repairs, by `Inserting`
  the element of an insert), and once the loop has begun (`Replaced`) the entry
  point itself has some: an empty one was on VACUUM's list, by `Removing`, and
  RepairGraphEntryPoint has replaced it. A VACUUM cancelled before may leave an
  empty entry point, never a deleted one.

`RepairComplete` (`DeletedUnreferenced`) and `ScansSafe` (`ScansNeverReadDeleted`)
have one hypothesis, `EntryStays`: while VACUUM is in pass 1 (`pc[Vacuum] =
"remove"`), no step replaces an entry point. The first row of an empty index may
become one, inserts may go on, promote after pass 1 and be cancelled, and VACUUM
may replace or repair the entry point. The hypothesis leaves out promotions over an
entry point during pass 1, with which `hnsw_promoted_entry` begins.
The invariant is `Sound` (`AlwaysSound`; C_<action> proves each step, on top of
`Coherent` and `Steady`):

* `Guarded`: there is a set of elements that scans cannot leave. It contains every
  live element and the entry point, no deleted element, and with an element all
  its neighbors (`Closed`); what a scan remembers of its search is in it
  (`Within`). It is quantified, not defined, since elements that are empty but
  still referenced belong to it until VACUUM has waited for scans:
  `C_WaitForScans` shrinks it to the live elements, and only then does
  `MarkDeleted` delete what is outside.
* `Repaired`: what allows that. An element is in `Clean` if all its neighbors are
  live. `LoopDone` says of the repair loop that live elements behind it are clean,
  `EntryDone` and `HighestDone` say it of the two elements that are repaired out of
  turn, because a repair skips the entry point (StartRepair's "repaired").
* `PlacedClean`: what an insert places after VACUUM has waited for inserts is
  clean. Its search meets live elements only as neighbors to choose (`Holds`).
* `Pass1` and `Alone`: `highestPoint` is not the entry point there was when pass 1
  began; in an empty index the first insert holds the lock alone and its element
  has no neighbors, so its promotion during pass 1 does no harm.
* `Held`: a repair holds the lock, that of the entry point exclusively, so no
  insert is promoted while the entry point is being repaired.

### IvfflatIndex

No lock but that of one buffer protects anything, so a step is what happens
under one buffer lock (two when a page is appended).

* Shared state: `page` (tuples and `nextblkno` of the entry pages), `nblocks`,
  `list` (start and insert page of each list), `heap`.
* Inserts: `BeginInsert` (FindInsertPage: the nearest center and its insert
  page), then `PutTuple`, `NextPage` or `AppendPage` along the chain. A new page
  is linked and logged (IvfflatCommitBuffer) before the tuple is put on it by
  `FillPage`, under a lock that is kept (`Unlocked`). `UpdateList` moves the
  insert page if the insert ended on another one.
* VACUUM: `VacuumPage` per page under a cleanup lock, `VacuumList` after each
  list: the first page that lost a tuple becomes the insert page.
* Scans: `BeginScan` (GetScanLists, a bounded heap, as a function over the
  lists), `ScanList`, `ScanPage` per page, `ReturnTuple` in any order (the
  sort), `NextBatch`, `EndScan`.
* `Cancel` and `RowDies` as above. A TID VACUUM has removed is not handed out
  again; `TidPlaced` says it could be.

| Run | Instance | Shows |
|---|---|---|
| `ivf_writers` | 2 inserts, VACUUM, 1 cancel, 2 lists, 3 built pages, 5 pages | no page overflows, lists share no page, no tuple is lost or doubled |
| `ivf_scan` | 1 insert, 1 scan in two batches, VACUUM, 4 lists | GetScanLists finds the nearest lists; every row that was there comes, and comes once; an empty batch does not end an iterative scan |

One tuple fills a page, so that each insert has to walk or append; two more
pages than the built ones let two inserts append to the same list or to
different ones; a list of two pages gives VACUUM an insert page to move back.

### IvfflatIndexProofs

`TypeCorrect` and `ListsSeparated`, for every number of backends, rows, lists
and pages. `Separated` says that pages can be told apart by the list they serve;
it is not inductive, since a backend writes where it remembers. `Owned` adds
that an insert's current page and VACUUM's current and insert page belong to
the list they work on; the owner function is extended when a page is appended
(`O_AppendPage`), which needs that a page not yet in the relation is linked and
remembered by nobody (`Bounded`) and that a page being filled is one insert's
alone (`Ready`). That every row has a nearest list and every list a first and a
last page needs least and greatest elements of sets of naturals (`NatOrder`).

### IvfflatScanProofs

The three invariants about rows and scans, on top of `Owned`:

* `RowsPlaced` (`TidPlaced`): `Placed` adds what TidPlaced needs between the steps
  of an insert: its row is on no page until the tuple is put (`Searching`) and on
  one before `UpdateList`, and no two inserts have one TID. `Swept` is about
  VACUUM: pages of the lists it is through with, and those it has passed in the
  present one, have none of its dead rows. That needs `Ordered`: the pages of a list
  are linked in the order of their numbers, from its start page on.
* `NearestProbed` (`ProbesNearest`): GetScanLists is a loop over the lists with a
  bounded heap. `Heap` is its loop invariant: after n lists the heap holds the
  nearest of them. The induction is over a natural number and goes through the
  set of those n for which it holds (`UpTo`, `Iteration` of `NatOrder`), since the
  library's own rule takes an operator.
* `ScansComplete` (`ScanComplete`): `ScanReady` says of a scan that what it has got
  will not be put on a page it has still to read, and that it has got every row
  of its snapshot that is live and on a page it has passed. Chains are in the
  order of their pages and VACUUM moves no tuple, so that a page behind stays
  behind; with `Placed`, a live row that is on no page to come has been returned.

### TqGraph

The native TurboQuant graph. Inserts hold `HNSW_UPDATE_LOCK` exclusively, scans
hold `HNSW_SCAN_LOCK` shared and VACUUM holds it exclusively, so inserts run
beside scans and beside VACUUM. A step is what a backend does under one buffer
lock, or with its own cache.

* Shared state: `page` (blocks with their kind, `nextblkno` and tuples, in the
  order they were appended), `meta` (`graphFlags` as generation, node count,
  entry, maximum level, chain roots), `heap` with a number for each row, so that
  a TID that is used again can be told from its first use.
* `cache`: the TqGraphNativeCache of each backend, with the metapage it was built
  for as its key. `LoadCodePage` and `LoadAdjPage` fill it page by page.
* Inserts: `BeginInsert`, the cache, `Select`, `Link` per neighbor (list of the
  cache, pruned, written over the list of the page), `AppendCode`, `AppendAdj` per
  level, `UpdateMeta`. The cache learns the new node but not the new generation.
  `InsertNull` is a row that gets a TID without touching the index.
* Scans: `BeginScan` (the snapshot), `StartScan` (lock, metapage, cache),
  `Collect`, `EndScan`.
* VACUUM: `BeginVacuum` reads the metapage before `LockVacuum` takes the lock;
  `VacuumCode` and `RepairAdj` per page; `FinishVacuum` raises the generation if
  anything changed, and the heap frees the TIDs.
* `Cancel` is an error or an interrupt before one of the steps of `CancelAt`.

Which node is nearer is a choice. The graph has at most
TQ_GRAPH_MAX_ENTRY_POINTS nodes, for which TqGraphTraverse takes every node as
an entry, and ef is at least their number: `ScanComplete` is about pages and
caches, not about recall. Exact vectors, payloads and corrections are left out.

| Run | Instance | Shows |
|---|---|---|
| `tq_graph` | 2 backends, VACUUM, 3 TIDs, an empty index and one of 2 rows, 2 new rows, 2 scans, 1 delete, 1 VACUUM, 1 failed statement | a cache that would be used equals the code pages; scans return every row and none under a wrong TID; lists stay bounded |
| `tq_cancelled_vacuum` | 1 backend, 1 built row, 2 TIDs, 2 VACUUMs, the first cancelled at a CHECK_FOR_INTERRUPTS (`vacCode`, `vacAdj`) | finding: a scan returns a row under the node of the row whose TID it has taken over |

Two backends are the fewest in which one's cache is outdated by the other. Two
code tuples fill a page, so the third node starts a new one behind the adjacency
page, where the guess of contiguous pages fails. M is 1, so that two built
nodes fill their upper lists and the third prunes them; the third node also
becomes the entry. With three TIDs and one VACUUM a TID is used again.

In `tq_graph` a statement fails only where nothing that a later statement trips
over is left: while a cache is loaded, while links are written, before the code
tuple is appended, before VACUUM marks. (Links to a node that never came stay in
lists; `LinksOk` allows for that one node id, which the next insert takes.) With
the other labels in `CancelAt` properties fail, and rightly so.

* A failure between the code tuple and the metapage (`adj`, `meta`) leaves a code tuple
  for a node id that the next insert uses again. Code tuples then outnumber the nodes,
  the last node may lie beyond the pages a cache loads, and `ScanComplete` fails.
* A VACUUM cancelled after it marked a node and before it raised the generation (`vacCode`,
  `vacAdj`) leaves caches that have the node alive under a key that still matches. The next
  VACUUM finds the node dead already; if no list is left to repair it raises nothing
  (tqgraph.c:3797), the heap reuses the TID, and a scan through such a cache returns the
  new row for the vector of the old one. `tq_cancelled_vacuum` shows it (`RightRow`). In
  an index of several nodes the cancel must come after the last list was repaired.

The generation has 16 bits (tqgraph.c:1301); 65536 VACUUM runs are out of TLC's bounds.

### TqGraphInvariant and TqGraphProofs

For every number of backends, TIDs, rows, levels and statements, and every page
capacity: `TypesHold` (`TypeOK`), `CachesHold` (`CacheCurrent`), `RowsRight`
(`RightRow`), `ScansComplete` (`ScanComplete`) and `LinksHold` (`LinksOk`).

All five are about `Spec /\ Orderly`, behaviours of which two things are true:

* `[][Whole]_vars`: no statement fails while pages and metapage disagree, that is, no
  insert between its code tuple and the metapage, and no VACUUM that has changed a
  page (`Stale`) before it raises the generation. Wherever else a statement fails is
  allowed, in VACUUM too as long as it has changed nothing.
* `FewVacuums`: fewer than 65535 VACUUM runs. `TqGraphCacheMatches` compares
  generations for equality, and a cache kept through 65536 increments would match again.

The code guarantees neither. Of the first, `tq_cancelled_vacuum` shows that `RowsRight`
does not hold without it.

The inductive invariant is `Inv`: types (`Typed`), whose turn it is (`Turns`), and
that there are the code pages `cs` and the adjacency pages `ads` in the order of
their chains with `Good(cs, ads)`:

* `Chained`: the pages of a kind are one chain with ascending block numbers, not
  contiguous ones. `Numbered`: code tuples are in the order of their nodes and only
  the last page has room, so that node n is on the page n \div CodeCap of the chain.
  That is what lets `LoadCodePage` guess, check and fall back to the block map.
* `Placed`: one adjacency tuple for each level of each node of the metapage, and
  for the levels the insert under way has written; `Lists`: what the tuples hold.
* `HeapOk`: a node that is not dead is of the row at its TID.
* `VacOk`: nodes behind VACUUM's page that it had to mark are dead. Nodes
  inserted since it read the metapage are of no TID it removes.
* `InsertOk`: the metapage the insert has read is still the metapage, but for the
  generation, which VACUUM may raise; where its tuples went.
* `CacheOk` of each backend: the tuples of a cache are those of the pages, but for
  dead flags. Its age (`Aged`) is how often VACUUM has raised the generation since
  its key was read. A cache of age 0 has the dead flags as well, unless VACUUM is
  marking; the metapage's generation is the key's plus the age plus the nodes
  inserted since, modulo 2^16 (the cache of an insert takes the new count but
  not the new generation: it is of age 1). A cache that matches is then of age 0.
* `ScanOk`: the rows a scan owes have nodes in the metapage it has read, and TIDs
  of its snapshot are neither freed nor reused before it ends.

`<action>Keeps` says that an action keeps `Inv`, with lemmas for what an appended
tuple, a rewritten list and a marked page do to each part. TqGraphInvariant has
`Inv`, these lemmas, scans and the loading of caches; TqGraphProofs inserts,
VACUUM and the theorems. `NextKeeps` puts the actions together, and `InitKeeps`
follows the pages that CREATE INDEX writes, node by node and level by level.
TqGraph avoids nested `@` and functions of two arguments that recur over both
(hence `WithAdj`), which the prover does not read.

### Bm25Store and TextIndex

The text side of a turbohybrid index, beside the graph whose node ids name its
documents. A step is what a backend does under one buffer lock.

* Shared state: `graph` (nodes with TID, row and dead flag; generation), `base`
  (postings written by CREATE INDEX or by a compaction; older ones stay on
  their pages), `dpage` (delta pages with `nextblkno`), `meta`
  (TqHybridBm25MetaTuple: base, delta root, counts, generations), `heap`, `rows`.
* Local state: `cache` (the BM25 cache of a backend, with its key), `cursor` (the
  remembered tail of the delta chain), `op`, `vac`, `pc`.
* Inserts: `BeginInsert`, `InsertNode` (the graph, under HNSW_UPDATE_LOCK),
  `ReadTail` (the cursor if it is of this generation and root, else the chain),
  `AppendRecord`, `UpdateMeta`.
* Queries: `BeginQuery` (snapshot), `ReadMeta`, `OpenCache`, `EnsureLiveness`,
  `Score`, `EndQuery`. A query is for one term and returns every document that
  has it, with the number of times it was scored. It is scored from postings; heads
  of best postings, which keep dead nodes (see Algorithms), are not in this module.
* VACUUM: `BeginVacuum`, `MarkDead`, `Reap` (the heap frees the TIDs),
  `BeginCompact`, `ReadNodeStates`, `CollectDelta`, `ReplaceBase`.
* `Cancel` ends a statement before the steps of `CancelAt`; `RowDies` is the heap.

`TextIndex` is what the component promises: a document enters once, is there
once, leaves when VACUUM marks its node and never comes back. `Bm25Store`
implements it (`ImplementsTextIndex`, by INSTANCE WITH: `copies` of a node are
the base postings and delta records of the current metadata that a query would
count, `gone` the dead nodes). Compaction is a stuttering step of it.

| Run | Instance | Shows |
|---|---|---|
| `bm25_store` | 2 backends, VACUUM, 2 TIDs, 1 built row, texts with the term, without it and none, 2 new rows, 2 queries, 1 delete, 1 VACUUM, 1 failure | every row of a snapshot comes (`QueryComplete`), once and under its own TID, also when TIDs are used again; the refinement |
| `bm25_lost_delta` | the same with inserts during a compaction (`Overlap`) | finding: the new metadata resets the delta root, and a committed row is gone |

`Overlap` is FALSE in `bm25_store`: inserts wait while a compaction is under
way, which the code does not make them do; that is the finding. One record fills
a delta page, so a second insert follows a chain or a stale cursor. Two new rows
are the fewest with which one backend's cursor is outdated by the other. VACUUM's
backend queries nothing, so its own cache is not kept; rows without a vector are
out; they enter neither graph nor text index. No weak fairness is stated:
nothing here waits.

### Bm25StoreProofs

For every number of backends, TIDs, terms, texts, rows and statements, and every
`DeltaCap`: `TypeCorrect`, `NothingMissed` (`QueryComplete`), `RightRows`
(`RightRow`), `NothingTwice` (`CountedOnce`) and `TextImplemented`, the refinement
of `TextIndex`. The texts are finite sets of terms (`ConstantsAssumption`).

All five are about `Spec /\ Orderly`, where `Orderly` excludes the two things the
code does not survive:

* `Overlap`: an insert beside a compaction. Run `bm25_lost_delta` is what happens.
* A VACUUM that fails at `reap`, between marking nodes dead and raising the
  generation. Caches of the old generation keep the nodes' TIDs, the next VACUUM
  frees them, finds the nodes dead already and raises nothing; a query with such
  a cache returns the TID for another row. A failure at any other step is
  allowed. `Bm25Store.cfg` fulfils both.

Neither is assumed of the constants: a theorem's hypothesis says it.

The inductive invariant is `Inv`: types, turns, and that there are an owner `o` for
each delta page and a history `H` of the metadata with `Shape(o, H)`.

* `Pages`: an owner is the first page of a chain, a page without successor is the
  last of its owner's, and a successor is the next one of them. Then LastPage,
  defined by iterating over the chain, ends at the last page (`ChainOfOwner`), and
  the records a query collects from a delta root are those on its owner's pages.
* `History`: `H[g]` is the metadata whose `deltaGen` was g with the records its
  chain had at that time. Metadata is only ever replaced by one of a greater
  `deltaGen`, and a chain only grows, so that a query with old metadata or an old
  cache finds what it would have found then, and more.
* `Docs`: a node has one delta record at most, and none if a base has it: what
  makes `CountedOnce` hold across appends and compactions. Its text is the text
  of its row, so that scores are right.
* `HeapOk`: what VACUUM has not marked is of the row at its TID, and the document
  of a live row is found from the current metadata.
* `CacheOk` of each backend: the cache has one metadata of the history, its
  liveness array has every node that is not dead, and as long as the generation is
  the one it was built for, no node whose TID has another row (`Kept`). `RightRow`
  needs this: a node is scored on the word of the array.
* `InsertOk`, `SnapOk`, `DueOk`, `CursorOk`, `VacOk`: what a statement remembers
  between two steps. The cursor may be of any older root; it is used only if
  generation and root agree, and then it is a page of the chain.

Each action has a lemma `A_<action>` that gives the new owners and history with
what became of the copies (`Same`, `Added` or `Removed`: the step of TextIndex it
implements); `StepGood` puts them together. `Bm25Store` keeps `MarkDead` free of
nested `@`, which the prover reads in the wrong scope.

### HnswBuild and HnswPages

CREATE INDEX with a leader and workers. A step is what a participant does under
one lock or up to the next one: `NextRow`, `BeginInsert` (flushed or not),
`Allocate` or `OutOfMemory`, `Flush` under the exclusive flush lock,
`InsertOnDisk`, `WaitForEntry`, `GetEntry`, `LockWait`, `LockEntry` (shared, then
given back and taken exclusively if the element is higher), `FindNeighbors`,
`AddDuplicate` or `NoDuplicate`, `AddElementInMemory`, `CopyNeighbors` and
`UpdateNeighbor` per neighbor, `StoreEntry`, `Finish`, `CountTuple`, and
`EndBuild` of the leader. `HnswPages` is CreateGraphPages: a first pass gives
places to element and neighbor tuples, a second one writes neighbor TIDs.

Searches take one step and may find any set of elements that links lead to;
which member a full list loses is a choice too. Lists are bags: in a parallel
build an element can come into a list twice (HnswUpdateConnection,
hnswutils.c:3118). What an insert on disk does to pages is HnswIndex.

| Run | Instance | Shows |
|---|---|---|
| `hnsw_build` | 2 participants, 5 rows (a null, duplicates), 2 levels, M = 1, memory for 2 or 3 elements, pages of 4 units | the entry point is on the highest layer (`EntryHighest`) and all elements are reachable (`EveryReached` of `GraphSound`); what the flush wrote is the graph it found, every TID at the place it names (`FlushFaithful` of `GraphSound`); every row is in the index once, on whichever path; the build ends (`BuildEnds`) |

Memory for three elements and a margin make both ways to fill it happen: the
check with the margin and the failed allocation. `GraphSound` claims in
`EveryReached` that every element is reached; with at most three elements in
memory and 2M = 2 places in a list of layer 0, no list loses its only way to another. Fairness is weak, per participant and for
`EndBuild`: LWLocks wake the waiters in the order of their queue and no lock
is freed and taken again for ever, since the rows end.

### HnswBuildProofs

`AllRowsOnce` (`RowsOnce`) for every finite set of participants, and any number of
rows, levels, values, memory and costs of elements: when the leader has finished,
each row with a vector is in one element of the flushed list or inserted on disk,
not in both, in an element of its own value, and counted once. The inductive
invariant is `Inv`:

* `Typed`: what the variables hold, without the bounds of `TypeOK`.
* `Turns`: each participant has a row of its own, in the part of the heap the scan
  has given out. A participant in memory holds `flushLock`, so that nobody is
  there once the graph is flushed, and what is flushed is the whole list. `done`
  is the number of participants that have ended, and none ends before the scan.
* `Elements`: a row nobody has placed yet is in no element and not on disk; every
  other one is in exactly one place, which has its value. The list has each
  element once, since it is added by the participant that has its row.
* `Linked`: links and entry points lead to elements of the list only. This is why
  a duplicate is added to an element that the flush writes: `FindDuplicateInMemory`
  takes its candidates from neighbors, and an element becomes a neighbor only by
  being reached (`ReachedAdded`, by induction over the rounds of `Reached`).
* `indtuples` is the number of rows given out that nobody has in hand (`Counted`).

Each action has its lemma (`<action>Keeps`); `RowsKept` and `LocksKept` do the many
that leave rows in their places. The entry locks are not needed for this
property. They are for the next one.

`EntryAlwaysHighest` (`EntryHighest`): while nobody holds `entryLock` exclusively,
the entry point is on the highest layer of the list. The invariant adds to `Inv`:

* `Held`: a participant holds `entryLock` from the entry point it takes to the one
  it stores, exclusively and alone if its element may be higher. Hence the entry
  point it remembers is still the one of the graph when it decides (`StoreEntry`),
  and one that holds the lock shared has an element that is not higher.
* `Highest`: no element of the list is above the entry point, except the one of
  the participant that holds the lock exclusively. `EntryHighest` is this with
  nobody there; during the insert it would be false.

`HeldKept` does the steps that neither take nor give back the lock; `HeldLeft` is
for those that give it back. That the participant looks again under the
exclusive lock (`LatestEntry`, hnswbuild.c:490) is what makes `LockEntry` keep
`Held`; with the entry point from before the wait TLC finds the counterexample.

`MemorySuffices`: with two or more participants `graph.used` never exceeds
`MemoryTotal`. It needs of the constants that no element is larger than the
margin, which is part of `ConstantsAssumption` for parallel builds only.

### Algorithms

`MC_Algorithms` runs each sequential algorithm on every input of a bounded set:
a behaviour chooses a task, computes it in one step and stops; each invariant
compares the result with a definition of what it should be. The integers keep
their widths (`U16Max`, `U32Max`, `IntMax`), scaled down so that they are reached.

| Module | Code | Property and bounds |
|---|---|---|
| `Bm25Build` | collector, spilled runs and their merge, three encodings of chunks, lexicon, heads | `PostingsExact`: 4 documents, 5 texts, budgets 0 to 5 (no run up to one per tuple); gaps around 16 and 32 bits |
| `Bm25Query` | accumulators, DAAT, WAND, heads, delta, final selection | `TopKExact`: 3 documents and a delta one, one of them dead, heads in the cache or on pages, "val", "and", "or", k = 1 or 2, one chunk or chunks of two; 5 queries with the dense accumulator, whose generation wraps |
| `BinaryHeap` | the array heaps written out in tqgraph.c, tqhybrid.c and tqhybrid_bm25_*.c | used by the others |
| `HybridFusion` | budgets, merges, RRF and weighted fusion, top-N | `FusionExact`: up to 3 candidates an arm, all orders, ties, two nodes that collide in the hash table |
| `HnswSelect` | SelectNeighbors, HnswUpdateConnection | `SelectionCached`: 5 elements that come one after the other, lists of 2 or 3, 7 places in the plane, any stale flag |
| `HnswIterate` | HnswSearchLayer, GetScanItems, ResumeScanItems, hnswgettuple | `ScanIterates`: all graphs of 4 elements with up to 2 links, ef 1 or 2, off, relaxed, strict, with and without a tuple limit |
| `VectorTypes` | input, output and casts of sparsevec, its merges and order beside those of vector, subvector, avg | `TypesExact`: all pairs of vectors of up to 4 elements, texts with numbers around an int of 4 bits, all ints of subvector, up to 4 rows shared among 3 workers |
| `IvfKmeans` | ElkanKmeans | `KmeansNearest`: 4 samples of 4 values, 3 centers from any samples, empty clusters, 4 rounds |
| `TqBuild`, `TqSearch` | graph construction and renumbering; entry points, traversal, payload references, widening | `GraphFound`: 5 nodes, m = 1 (lists are pruned) and m = 2 (none is), dead nodes, filters, planner hints |

What `TopKExact` claims depends on how a query is evaluated. Document at a time, by
WAND with the postings of a term in one chunk, and from the head of a single term
without dead nodes, the result is exactly the k best live documents, ties
included. The design promises as much of the other cases
(docs/turbohybrid_bm25_design.md:361), and the code does not keep it:

* Run `bm25_wand` has chunks of two and violates the property: WAND ends when the
  chunks it stands in cannot beat the threshold, although later chunks could.
* For OR the default strategy seeds the threshold with the k-th best sum of the heads
  (tqhybrid_bm25_query.c:2377-2382), and WAND then adds only what is above it: a
  document that reaches just the k-th best score can be lost to a worse one that was
  met before. `TopKExact` asks of such queries that they return k live documents
  with their scores and all that are better than the k-th best score (`KeepsBetter`).
  With k = 1 that leaves any document possible.
* A head on the pages keeps nodes that died since (lines 2074-2157), and
  ScoreImpactSingle returns them, with the TIDs they had (`heapTids` is filled for
  dead nodes too). `TopKExact` asks only that the live rows returned are the best
  (`IsPrefix`), and of a threshold seeded from such heads that rows are live and
  full in number (`FullRows`).

`TypesExact` is about arrays of at most SPARSEVEC_MAX_NNZ nonzero elements.
`array_to_sparsevec` (sparsevec.c:683-808) has no such bound of its own, while
`sparsevec_in` (line 221), `sparsevec_recv` and the documentation (README.md:1085) have: a
vector of more elements that a cast has made does not come back from its own text.
VectorTypes has the cast as it is; the tasks leave such arrays out.

The score of a posting is its tf and idf is 1: pruning only compares scores.
`GraphFound` takes distances of codes as exact, as they are when every node has
its vector in the cache; generations of visited marks are sets.

## Hazards and properties

`PROJECT.json` lists under `hazards` what is hard to test, each at its line with
the properties that would catch it. Most are of four kinds: a place, page, node
id or TID remembered across a lock (HnswIndex, IvfflatIndex, Bm25Store); a cache
or hint used after what it was made from has changed (TqGraph, Bm25Store,
HnswSelect); a statement that stops half way (`Cancel`, the memory limit of a
build); bounds and widths (encodings, budgets, generations, pruning).

Every property has a mutant: a definition the map names, changed as a plausible
bug would, for which the property fails. Mutated forms (`NeverInDoubt`,
`GetEntryKeepsShared`, `LeavesRest`, ...) stand before the definition they vary and
are used by nothing.

## Checked by TLC only

Liveness (fairness is out of the proof system's reach), reachability (a
recursive function over the graph). Of HNSW's `DeletedUnreferenced` and
`ScansNeverReadDeleted` the theorems have a hypothesis, which cannot be dropped
(`hnsw_promoted_entry`). Of HnswBuild, `GraphSound` and
`TypeOK` hold for the constants of the run and not for all: full lists may lose
any member, so that larger graphs can come apart, and a build in one process
asks for no margin, so that its last element may go beyond `MemoryTotal`
(`MemorySuffices` has the hypothesis). The bound of a list in `TypeOK` is the
cardinality of a bag, a recursive sum.
`FlushFaithful` is about the two passes of HnswPages, which are folds. The
algorithms are recursive or folds over sequences: what they compute
for every input would need induction over data, which the prover cannot do;
TLC compares them on all inputs up to the bounds.

## Plan

Done: HnswIndex, IvfflatIndex, Bm25Store and TqGraph with their proofs; TextIndex;
HnswBuild with the proofs of `RowsOnce` and `EntryHighest`; the algorithms. Next:

1. Exact rerank and the cache of exact vectors (tqgraph_cache.c) in TqSearch.
2. The quantile estimator and the control of search effort.

## Not modelled

The scoring kernels and the types' floating-point arithmetic (no state, out of
TLC's reach), halfvec and bit vectors (the same operations on other elements) and
the character scanners of all types; options, cost estimates, statistics and diagnostics; text forms of
queries (`hybrid_query.c`); sampling and the random choice of centers in
ivfkmeans.c, and the sort of an IVFFlat build (PostgreSQL's tuplesort); the flat
scan and the rescoring of HNSW; WAL replay (generic WAL makes a page write
atomic, which is what a step is).
