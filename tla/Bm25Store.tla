----------------------------- MODULE Bm25Store -----------------------------
(***************************************************************************)
(* The text side of a turbohybrid index (tqhybrid.c, tqhybrid_bm25_build.c,*)
(* tqhybrid_bm25_query.c): base postings written by CREATE INDEX or by a   *)
(* compaction, delta records appended by inserts, a compaction that VACUUM *)
(* runs without any lock, and queries that combine both through a cache of *)
(* their backend.  A step is what a backend does under one buffer lock.    *)
(*                                                                         *)
(* The graph is what TqGraph models; here it is the node ids it hands out, *)
(* its generation and the dead flags of its nodes.  Scores are left to     *)
(* Bm25Query: a query is for one term and returns every document that has  *)
(* it, with the number of times it was scored.  It is scored from postings *)
(* and records; heads of best postings are left out.                       *)
(***************************************************************************)
EXTENDS Integers, Sequences, FiniteSets, SequencesExt, FiniteSetsExt

CONSTANTS
  Backends,    \* backends that insert and query
  Vacuum,      \* the backend that vacuums
  Tids,        \* heap TIDs
  Terms,       \* lexemes
  Texts,       \* the tsvectors rows may have: sets of lexemes, or NoText
  BuiltTids,   \* the rows CREATE INDEX finds
  BuiltTexts,  \* and their tsvectors
  DeltaCap,    \* delta tuples in a page
  Threshold,   \* bm25_delta_compaction_threshold
  Overlap,     \* whether inserts run while the delta is compacted
  MaxNew,      \* bound: rows inserted in a behaviour
  MaxQueries,  \* bound: queries in a behaviour
  MaxDeletes,  \* bound: rows deleted in a behaviour
  MaxVacuums,  \* bound: VACUUM runs in a behaviour
  MaxCancels,  \* bound: statements that fail in a behaviour
  CancelAt     \* the steps before which a statement may fail

NoText  == {"null"}
Nil     == 0
NBuilt  == Len(BuiltTids)
MaxRows == NBuilt + MaxNew
NodeIds == 0..(MaxRows - 1)

ASSUME ConstantsAssumption ==
  /\ Vacuum \notin Backends /\ Nil \notin Tids
  /\ Texts \subseteq (SUBSET Terms) \cup {NoText} /\ "null" \notin Terms
  /\ \A text \in Texts : IsFiniteSet(text)
  /\ BuiltTids \in Seq(Tids) /\ BuiltTexts \in Seq(Texts) /\ Len(BuiltTexts) = NBuilt
  /\ \A i, j \in 1..NBuilt : i # j => BuiltTids[i] # BuiltTids[j]
  /\ DeltaCap \in Nat \ {0} /\ Threshold \in 1..100 /\ Overlap \in BOOLEAN
  /\ MaxRows # 0
  /\ {MaxNew, MaxQueries, MaxDeletes, MaxVacuums, MaxCancels} \subseteq Nat

VARIABLES
  graph,   \* metapage and code tuples: generation, nodes in the order of their ids
  base,    \* the base page chains there have been: document lengths and postings
  dpage,   \* the delta pages: nextblkno, tuples
  meta,    \* TqHybridBm25MetaTuple
  heap,    \* the row at each heap TID and its state
  rows,    \* the tsvectors of the rows there have been
  cache,   \* the TqHybridBm25Cache of each backend
  cursor,  \* tqhybrid_bm25_delta_cursor of each backend
  op,      \* the insert or query of each backend
  pc,      \* what each backend does next
  vac,     \* the local variables of VACUUM
  bounds   \* new rows, queries, deletes, VACUUM runs and failed statements so far

vars == <<graph, base, dpage, meta, heap, rows, cache, cursor, op, pc, vac, bounds>>

Goto(p, label) == pc' = [pc EXCEPT ![p] = label]

Count == Len(graph.node)
NodeState(n) == graph.node[n + 1]
DocLen(text) == IF text = NoText THEN 0 ELSE Cardinality(text)
HasTerm(text, w) == text # NoText /\ w \in text

-----------------------------------------------------------------------------
(* Delta pages                                                             *)

\* TqHybridBm25CountChainPagesAndTail: the blocks of the chain
Chain(start) ==
  LET C[n \in 0..Len(dpage)] ==
        IF n = 0 THEN IF start = Nil THEN <<>> ELSE <<start>>
        ELSE LET c == C[n - 1]
             IN IF c = <<>> \/ dpage[c[Len(c)]].next = Nil THEN c
                ELSE Append(c, dpage[c[Len(c)]].next)
  IN C[Len(dpage)]
LastPage(start) == LET c == Chain(start) IN IF c = <<>> THEN Nil ELSE c[Len(c)]

\* The tuples of the chain, and how many of them are document n
RecordsAt(start) ==
  UNION {{<<b, i>> : i \in 1..Len(dpage[b].tup)} : b \in ToSet(Chain(start))}
Rec(p) == dpage[p[1]].tup[p[2]]

\* Whether the page has room
RoomLeft(b) == Len(dpage[b].tup) <= DeltaCap
HasRoom(b) == Len(dpage[b].tup) < DeltaCap

\* TqGraphAppendTuple from the given block on
AppendAt(start, tup) ==
  LET new == Len(dpage) + 1
      last == LastPage(start)
  IN IF start = Nil
       THEN [pages |-> Append(dpage, [next |-> Nil, tup |-> <<tup>>]), start |-> new, blk |-> new]
     ELSE IF HasRoom(last)
       THEN [pages |-> [dpage EXCEPT ![last].tup = Append(@, tup)], start |-> start, blk |-> last]
     ELSE [pages |-> Append([dpage EXCEPT ![last].next = new], [next |-> Nil, tup |-> <<tup>>]),
           start |-> start, blk |-> new]

-----------------------------------------------------------------------------
(* Base page chains: TqHybridBm25WriteBasePages                            *)

\* What a collector with these documents and term tuples writes.  Two term
\* tuples of one document and term become two postings.
BasePages(docs, lens, tuples) ==
  [docs |-> Cardinality(docs),
   len  |-> [n \in NodeIds |-> IF n \in docs THEN lens[n] ELSE 0],
   post |-> [w \in Terms |-> [n \in NodeIds |-> tuples[w][n]]]]
\* uniqueTerms
TermCount(B) == Cardinality({w \in Terms : \E n \in NodeIds : B.post[w][n] > 0})

\* TqHybridBm25BuildCollect: the rows CREATE INDEX finds
Built ==
  LET docs == {n \in 0..(NBuilt - 1) : BuiltTexts[n + 1] # NoText}
  IN BasePages(docs, [n \in docs |-> DocLen(BuiltTexts[n + 1])],
       [w \in Terms |-> [n \in NodeIds |->
          IF n \in docs /\ w \in BuiltTexts[n + 1] THEN 1 ELSE 0]])

NoRow    == [row |-> Nil, state |-> "free"]
NoCache  == [key |-> <<>>]
NoCursor == [start |-> Nil, tail |-> Nil, gen |-> 0]
NoOp     == [kind |-> "none"]
NoVacuum == [dead |-> {}]

\* TqHybridWriteMeta
Init ==
  /\ graph = [gen |-> 1, node |-> [i \in 1..NBuilt |->
                [tid |-> BuiltTids[i], row |-> i, dead |-> FALSE]]]
  /\ base = <<Built>> /\ dpage = <<>>
  /\ meta = [docs |-> Built.docs, base |-> 1, deltaStart |-> Nil, deltaGen |-> 0,
             deltaDocs |-> 0, lastGen |-> 0]
  /\ heap = [t \in Tids |->
       IF \E i \in 1..NBuilt : BuiltTids[i] = t
         THEN [row |-> CHOOSE i \in 1..NBuilt : BuiltTids[i] = t, state |-> "live"] ELSE NoRow]
  /\ rows = BuiltTexts
  /\ cache = [b \in Backends |-> NoCache]
  /\ cursor = [b \in Backends |-> NoCursor]
  /\ op = [b \in Backends |-> NoOp]
  /\ pc = [p \in Backends \cup {Vacuum} |-> "idle"]
  /\ vac = NoVacuum
  /\ bounds = [new |-> 0, queries |-> 0, deletes |-> 0, vacuums |-> 0, cancels |-> 0]

-----------------------------------------------------------------------------
(* tqhybridinsert, under HNSW_UPDATE_LOCK                                  *)

Inserting(b) == op[b].kind = "insert"
UpdateLockFree == \A b \in Backends : ~Inserting(b)
Compacting == pc[Vacuum] \in {"nodes", "collect", "replace"}

\* The heap gives t to a row; the statement gets the lock.  When ~Overlap the
\* application keeps inserts and VACUUM apart, which the code does not.
BeginInsert(b, t, text) ==
  /\ pc[b] = "idle" /\ UpdateLockFree /\ (Overlap \/ ~Compacting)
  /\ heap[t].state = "free" /\ bounds.new < MaxNew
  /\ rows' = Append(rows, text)
  /\ heap' = [heap EXCEPT ![t] = [row |-> Len(rows) + 1, state |-> "inserting"]]
  /\ op' = [op EXCEPT ![b] = [kind |-> "insert", tid |-> t, text |-> text, node |-> Nil,
                              start |-> Nil, tail |-> Nil]]
  /\ Goto(b, "graph")
  /\ bounds' = [bounds EXCEPT !.new = @ + 1]
  /\ UNCHANGED <<graph, base, dpage, meta, cache, cursor, vac>>

\* The row is committed and the lock released
Done(b) ==
  /\ op' = [op EXCEPT ![b] = NoOp] /\ Goto(b, "idle")
  /\ heap' = [heap EXCEPT ![op[b].tid].state = "live"]

\* TqGraphReadMeta for the node id, and TqGraphInsertValueInPlace, whose node
\* is there when the metapage counts it
InsertNode(b) ==
  /\ pc[b] = "graph"
  /\ graph' = [gen |-> graph.gen + 1,
               node |-> Append(graph.node, [tid |-> op[b].tid, row |-> heap[op[b].tid].row,
                                            dead |-> FALSE])]
  /\ IF op[b].text = NoText THEN Done(b)
     ELSE /\ op' = [op EXCEPT ![b].node = Count] /\ Goto(b, "tail")
          /\ UNCHANGED heap
  /\ UNCHANGED <<base, dpage, meta, rows, cache, cursor, vac, bounds>>

\* TqHybridBm25AppendDelta: the BM25 metadata, and the last delta page from
\* the cursor of the backend if nobody has appended since
CursorHits(b) == cursor[b].gen = meta.deltaGen /\ cursor[b].start = meta.deltaStart
ReadTail(b) ==
  /\ pc[b] = "tail"
  /\ op' = [op EXCEPT ![b].start = meta.deltaStart,
                      ![b].tail = IF CursorHits(b) THEN cursor[b].tail ELSE LastPage(meta.deltaStart)]
  /\ Goto(b, "append")
  /\ UNCHANGED <<graph, base, dpage, meta, heap, rows, cache, cursor, vac, bounds>>

AppendRecord(b) ==
  /\ pc[b] = "append"
  /\ LET o == op[b]
         from == IF o.tail # Nil THEN o.tail ELSE o.start
         a == AppendAt(from, [node |-> o.node, tid |-> o.tid, text |-> o.text])
     IN /\ dpage' = a.pages
        /\ op' = [op EXCEPT ![b].start = IF @ = Nil THEN a.start ELSE @, ![b].tail = a.blk]
  /\ Goto(b, "meta")
  /\ UNCHANGED <<graph, base, meta, heap, rows, cache, cursor, vac, bounds>>

\* The BM25 metadata again, the cursor, TqHybridBm25InvalidateCache
WithRecord(start) ==
  [meta EXCEPT !.deltaStart = start, !.deltaGen = @ + 1, !.deltaDocs = @ + 1]
UpdateMeta(b) ==
  /\ pc[b] = "meta"
  /\ meta' = WithRecord(op[b].start)
  /\ cursor' = [cursor EXCEPT ![b] = [start |-> op[b].start, tail |-> op[b].tail,
                                      gen |-> meta'.deltaGen]]
  /\ cache' = [cache EXCEPT ![b] = NoCache]
  /\ Done(b)
  /\ UNCHANGED <<graph, base, dpage, rows, vac, bounds>>

-----------------------------------------------------------------------------
(* Queries: TqHybridBm25TopK, with no lock but that of a buffer            *)

Snapshot == {t \in Tids : heap[t].state = "live"}
Versions(S) == {<<t, heap[t].row>> : t \in S}

BeginQuery(b, w) ==
  /\ pc[b] = "idle" /\ bounds.queries < MaxQueries
  /\ op' = [op EXCEPT ![b] =
       [kind |-> "query", term |-> w, meta |-> meta, ret |-> {},
        snap |-> Versions(Snapshot),
        due |-> Versions({t \in Snapshot : HasTerm(rows[heap[t].row], w)})]]
  /\ Goto(b, "readMeta")
  /\ bounds' = [bounds EXCEPT !.queries = @ + 1]
  /\ UNCHANGED <<graph, base, dpage, meta, heap, rows, cache, cursor, vac>>

ReadMeta(b) ==
  /\ pc[b] = "readMeta"
  /\ op' = [op EXCEPT ![b].meta = meta]
  /\ Goto(b, "open")
  /\ UNCHANGED <<graph, base, dpage, meta, heap, rows, cache, cursor, vac, bounds>>

\* TqHybridBm25CacheMatches: what of the metadata and of the metapage is
\* compared.  A base without documents has no pages.
KeyOfText(m) ==
  [docs |-> m.docs, base |-> m.base, deltaStart |-> m.deltaStart, deltaGen |-> m.deltaGen]
CacheKey(m) ==
  [docs |-> m.docs, base |-> IF base[m.base].docs = 0 THEN Nil ELSE m.base,
   terms |-> TermCount(base[m.base]), deltaStart |-> m.deltaStart,
   deltaGen |-> m.deltaGen, lastGen |-> m.lastGen, count |-> Count, gen |-> graph.gen]

\* The base a cache is of: that of the metadata the query has read
CurrentBase(m) == meta.base
BaseOf(m) == m.base

\* TqHybridBm25GetCache: the metapage is read after the BM25 metadata; stale
\* caches are dropped.  A term that is nowhere ends the query.
OpenCache(b) ==
  /\ pc[b] = "open"
  /\ LET m == op[b].meta
         key == <<CacheKey(m)>>
         unknown == (\A n \in NodeIds : base[m.base].post[op[b].term][n] = 0) /\ m.deltaDocs = 0
     IN /\ cache' = IF Count = 0 \/ cache[b].key = key THEN cache
                    ELSE [cache EXCEPT ![b] = [key |-> key, base |-> BaseOf(m), count |-> Count,
                                               live |-> <<>>, delta |-> <<>>]]
        /\ Goto(b, IF Count = 0 \/ unknown THEN "done" ELSE "liveness")
  /\ UNCHANGED <<graph, base, dpage, meta, heap, rows, cursor, op, vac, bounds>>

\* TqHybridBm25EnsureDocStats and TqHybridBm25EnsureLiveness (an empty
\* sequence is an array that has not been loaded)
LiveButLast(count) == 0..(count - 2)
LiveBelow(count) == {n \in 0..(count - 1) : ~NodeState(n).dead}
EnsureLiveness(b) ==
  /\ pc[b] = "liveness"
  /\ cache' = IF cache[b].live # <<>> THEN cache
              ELSE [cache EXCEPT ![b].live = <<LiveBelow(cache[b].count)>>]
  /\ Goto(b, "score")
  /\ UNCHANGED <<graph, base, dpage, meta, heap, rows, cursor, op, vac, bounds>>

\* TqHybridBm25BuildDeltaCacheEntries: the records of live nodes
LiveRecords(start, live) == {p \in RecordsAt(start) : Rec(p).node \in live}

\* How often the scoring loops add the term's score to a document: once for
\* each posting of the base and for each delta record
Scored(n, w, B, live, recs) ==
  (IF n \in live /\ B.len[n] # 0 THEN B.post[w][n] ELSE 0)
  + Cardinality({p \in recs : Rec(p).node = n /\ w \in Rec(p).text})

\* The delta entries, cached or for this query only (cached: the backend has
\* set tqhybrid.bm25_cache_max_mb to 0), and the results
Score(b, cached) ==
  /\ pc[b] = "score"
  /\ LET c == cache[b]
         live == c.live[1]
         recs == IF c.delta # <<>> THEN c.delta[1] ELSE LiveRecords(op[b].meta.deltaStart, live)
         B == base[c.base]
     IN /\ cache' = IF c.delta = <<>> /\ cached THEN [cache EXCEPT ![b].delta = <<recs>>] ELSE cache
        /\ op' = [op EXCEPT ![b].ret =
             {[tid |-> NodeState(n).tid, row |-> NodeState(n).row,
               times |-> Scored(n, op[b].term, B, live, recs)] :
              n \in {n \in 0..(c.count - 1) : Scored(n, op[b].term, B, live, recs) > 0}}]
  /\ Goto(b, "done")
  /\ UNCHANGED <<graph, base, dpage, meta, heap, rows, cursor, vac, bounds>>

EndQuery(b) ==
  /\ pc[b] = "done"
  /\ op' = [op EXCEPT ![b] = NoOp] /\ Goto(b, "idle")
  /\ UNCHANGED <<graph, base, dpage, meta, heap, rows, cache, cursor, vac, bounds>>

-----------------------------------------------------------------------------
(* VACUUM: tqhybridbulkdelete, then tqhybridvacuumcleanup                  *)

\* Rows that no snapshot sees are to be removed
Removable == {t \in Tids : /\ heap[t].state = "dead"
                           /\ \A b \in Backends : op[b].kind = "query" =>
                                <<t, heap[t].row>> \notin op[b].snap}
BeginVacuum ==
  /\ pc[Vacuum] = "idle" /\ bounds.vacuums < MaxVacuums
  /\ bounds' = [bounds EXCEPT !.vacuums = @ + 1]
  /\ vac' = [dead |-> Removable, changed |-> FALSE]
  /\ Goto(Vacuum, IF Removable = {} THEN "cleanup" ELSE "mark")
  /\ UNCHANGED <<graph, base, dpage, meta, heap, rows, cache, cursor, op>>

\* tqgraphbulkdelete marks the code tuples
MarkDead ==
  /\ pc[Vacuum] = "mark"
  /\ LET kill == {i \in 1..Len(graph.node) :
                    ~graph.node[i].dead /\ graph.node[i].tid \in vac.dead}
         dead(i) == graph.node[i].dead \/ i \in kill
     IN /\ graph' = [graph EXCEPT !.node =
                       [i \in 1..Len(graph.node) |-> [graph.node[i] EXCEPT !.dead = dead(i)]]]
        /\ vac' = [vac EXCEPT !.changed = kill # {}]
  /\ Goto(Vacuum, "reap")
  /\ UNCHANGED <<base, dpage, meta, heap, rows, cache, cursor, op, bounds>>

\* It raises the generation, and the heap frees the TIDs
Reap ==
  /\ pc[Vacuum] = "reap"
  /\ graph' = [graph EXCEPT !.gen = IF vac.changed THEN @ + 1 ELSE @]
  /\ heap' = [t \in Tids |-> IF t \in vac.dead THEN NoRow ELSE heap[t]]
  /\ Goto(Vacuum, "cleanup")
  /\ UNCHANGED <<base, dpage, meta, rows, cache, cursor, op, vac, bounds>>

\* TqHybridBm25MaybeCompact, which takes no lock: the metadata and the
\* threshold
AtLeastOne(n) == IF n = 0 THEN 1 ELSE n
Due(m) == m.deltaDocs # 0 /\ m.deltaStart # Nil
          /\ m.deltaDocs * 100 >= AtLeastOne(m.docs) * Threshold
BeginCompact ==
  /\ pc[Vacuum] = "cleanup" /\ (Overlap \/ UpdateLockFree)
  /\ IF Due(meta)
       THEN vac' = [meta |-> meta, live |-> {}, recs |-> {}] /\ Goto(Vacuum, "nodes")
       ELSE vac' = NoVacuum /\ Goto(Vacuum, "idle")
  /\ UNCHANGED <<graph, base, dpage, meta, heap, rows, cache, cursor, op, bounds>>

\* TqHybridReadNodeStates
ReadNodeStates ==
  /\ pc[Vacuum] = "nodes"
  /\ vac' = [vac EXCEPT !.live = LiveBelow(Count)]
  /\ Goto(Vacuum, "collect")
  /\ UNCHANGED <<graph, base, dpage, meta, heap, rows, cache, cursor, op, bounds>>

\* TqHybridBm25CollectDelta; the base pages, which nobody writes, are read
\* before (TqHybridBm25ReadDocLens, TqHybridBm25CollectBasePostings)
CollectDelta ==
  /\ pc[Vacuum] = "collect"
  /\ vac' = [vac EXCEPT !.recs = LiveRecords(vac.meta.deltaStart, vac.live)]
  /\ Goto(Vacuum, "replace")
  /\ UNCHANGED <<graph, base, dpage, meta, heap, rows, cache, cursor, op, bounds>>

BaseDocs(B) == {n \in vac.live : B.len[n] > 0}
DeltaDocs == {Rec(p).node : p \in vac.recs}
Collected(B) ==
  LET lens(n) == IF n \in BaseDocs(B) THEN B.len[n]
                 ELSE DocLen(Rec(CHOOSE p \in vac.recs : Rec(p).node = n).text)
  IN BasePages(BaseDocs(B) \cup DeltaDocs,
       [n \in BaseDocs(B) \cup DeltaDocs |-> lens(n)],
       [w \in Terms |-> [n \in NodeIds |-> Scored(n, w, B, vac.live, vac.recs)]])

\* TqHybridBm25WriteBasePages and TqHybridBm25UpdateCompactedMeta
CompactedKeepsDelta(docs) ==
  [meta EXCEPT !.docs = docs, !.base = Len(base) + 1,
     !.deltaGen = vac.meta.deltaGen + 1, !.deltaDocs = 0, !.lastGen = vac.meta.deltaGen + 1]
Compacted(docs) ==
  [docs |-> docs, base |-> Len(base) + 1, deltaStart |-> Nil,
   deltaGen |-> vac.meta.deltaGen + 1, deltaDocs |-> 0, lastGen |-> vac.meta.deltaGen + 1]
ReplaceBase ==
  /\ pc[Vacuum] = "replace"
  /\ LET new == Collected(base[vac.meta.base])
     IN base' = Append(base, new) /\ meta' = Compacted(new.docs)
  /\ vac' = NoVacuum /\ Goto(Vacuum, "idle")
  /\ UNCHANGED <<graph, dpage, heap, rows, cache, cursor, op, bounds>>

-----------------------------------------------------------------------------
(* Deletes, and statements that fail                                       *)

RowDies(t) ==
  /\ heap[t].state = "live" /\ bounds.deletes < MaxDeletes
  /\ heap' = [heap EXCEPT ![t].state = "dead"]
  /\ bounds' = [bounds EXCEPT !.deletes = @ + 1]
  /\ UNCHANGED <<graph, base, dpage, meta, rows, cache, cursor, op, pc, vac>>

\* An interrupt, or a document too large for a delta tuple: the lock is
\* released, what was written stays, the row of an insert is dead
Cancel(p) ==
  /\ pc[p] \in CancelAt /\ bounds.cancels < MaxCancels
  /\ bounds' = [bounds EXCEPT !.cancels = @ + 1]
  /\ Goto(p, "idle")
  /\ IF p = Vacuum THEN vac' = NoVacuum /\ UNCHANGED <<op, heap>>
     ELSE /\ op' = [op EXCEPT ![p] = NoOp]
          /\ heap' = IF Inserting(p) THEN [heap EXCEPT ![op[p].tid].state = "dead"] ELSE heap
          /\ UNCHANGED vac
  /\ UNCHANGED <<graph, base, dpage, meta, rows, cache, cursor>>

Next ==
  \/ \E b \in Backends :
       \/ \E t \in Tids, text \in Texts : BeginInsert(b, t, text)
       \/ InsertNode(b) \/ ReadTail(b) \/ AppendRecord(b) \/ UpdateMeta(b)
       \/ \E w \in Terms : BeginQuery(b, w)
       \/ ReadMeta(b) \/ OpenCache(b) \/ EnsureLiveness(b) \/ EndQuery(b)
       \/ \E cached \in BOOLEAN : Score(b, cached)
  \/ BeginVacuum \/ MarkDead \/ Reap
  \/ BeginCompact \/ ReadNodeStates \/ CollectDelta \/ ReplaceBase
  \/ \E t \in Tids : RowDies(t)
  \/ \E p \in Backends \cup {Vacuum} : Cancel(p)

Spec == Init /\ [][Next]_vars

-----------------------------------------------------------------------------
(* Properties                                                              *)

\* The variables have their types; pointers lead to pages and nodes that exist.
TypeOK ==
  /\ graph.gen \in Nat
  /\ \A i \in 1..Count : graph.node[i].tid \in Tids /\ graph.node[i].row \in 1..Len(rows)
                         /\ graph.node[i].dead \in BOOLEAN
  /\ meta.base \in 1..Len(base) /\ meta.deltaStart \in 0..Len(dpage)
  /\ {meta.docs, meta.deltaGen, meta.deltaDocs, meta.lastGen} \subseteq Nat
  /\ \A b \in 1..Len(dpage) : dpage[b].next \in 0..Len(dpage) /\ Len(dpage[b].tup) \in 1..DeltaCap
  /\ \A t \in Tids : heap[t].row \in 0..Len(rows)
                     /\ heap[t].state \in {"free", "inserting", "live", "dead"}
  /\ \A b \in Backends : cursor[b].tail \in 0..Len(dpage)

Returned(b) == {<<r.tid, r.row>> : r \in op[b].ret}

\* Every row of the snapshot that has the term is returned, whichever of the
\* base, the delta chain and the cache of the backend its document is in
\* (TqHybridBm25TopK, TqHybridBm25CacheMatches).
QueryComplete ==
  \A b \in Backends : pc[b] = "done" => op[b].due \subseteq Returned(b)

\* A TID of the snapshot is returned only for the row that the snapshot sees
\* there: the executor does not recheck (xs_recheck is false), so a cached
\* node whose TID a later row has taken would bring that row in.
RightRow ==
  \A b \in Backends : pc[b] = "done" =>
    \A x \in Returned(b), y \in op[b].snap : x[1] = y[1] => x[2] = y[2]

\* No document is scored from the base and from the delta, or twice from
\* either: TqHybridBm25ScoreDelta adds to what the base loops left.
CountedOnce ==
  \A b \in Backends : pc[b] = "done" => \A r \in op[b].ret : r.times = 1

\* How often a query for any of its terms would find document n now
Copies(n) ==
  LET text == rows[NodeState(n).row]
      times == {Scored(n, w, base[meta.base], {n}, RecordsAt(meta.deltaStart)) : w \in text}
  IN IF n >= Count \/ NodeState(n).dead \/ text \in {NoText, {}} THEN 0 ELSE Max(times)
Text == INSTANCE TextIndex WITH
          Nodes  <- NodeIds,
          copies <- [n \in NodeIds |-> Copies(n)],
          gone   <- {n \in 0..(Count - 1) : NodeState(n).dead}

\* The pages implement TextIndex: a document appears once, with the step that
\* makes its delta record reachable, compaction changes nothing, and only
\* VACUUM's mark takes a document away, for good.
ImplementsTextIndex == Text!Spec
=============================================================================
