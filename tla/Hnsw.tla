-------------------------------- MODULE Hnsw --------------------------------
(***************************************************************************)
(* The HNSW graph (internal/index/hnsw: graph.go, batch.go, heap.go) and   *)
(* the snapshot of it that internal/storage/segment writes and loads.      *)
(*                                                                         *)
(* Writers hold wmu from beginning to end and nothing else changes the     *)
(* graph, so the search phase of an insert and its link phase see the same *)
(* graph; a Search holds mu throughout.  One operation is one step.        *)
(*                                                                         *)
(* A vector is a point of a line.  Distinct points lie at distinct         *)
(* distances from any point, so that "the closest" is never a choice.      *)
(***************************************************************************)
EXTENDS Integers, Sequences, FiniteSets, FiniteSetsExt, SequencesExt

CONSTANTS
  Ids,
  Vectors,        \* per id: the points it may be written at
  Starts,         \* the batches a graph may have been built from
  Batches,        \* those written to it later
  Queries,        \* the points searched for
  M,              \* cfg.M
  EfConstruction,
  Levels,         \* what randomLevel may return
  MinChunk,       \* 2 * workers
  NodesPerChunk,  \* a chunk is at most this fraction of the graph (8)
  MaxOps,         \* bound: operations
  MaxTall         \* bound: nodes above level 0

Points == UNION {Vectors[i] : i \in Ids}
Dist(p, q) == IF p < q THEN q - p ELSE p - q

ASSUME HnswAssumption ==
  /\ Points \subseteq Nat
  /\ \A i, j \in Ids : i # j => Vectors[i] \cap Vectors[j] = {}
  /\ Levels \subseteq Nat /\ 0 \in Levels
  /\ M > 1 /\ EfConstruction > 0 /\ MinChunk > 1 /\ NodesPerChunk > 0
  /\ \A q, r \in Points, p \in Points \cup Queries : Dist(p, q) = Dist(p, r) => q = r

VARIABLES
  graph,
  written,  \* history: the vector last written under each id not deleted since
  lapses,   \* history: why a live node may be out of reach
  ops

vars == <<graph, written, lapses, ops>>

\* Per slot: its node's id, level, links per layer, vector and tombstone.
\* Slots count from 1; entry is 0 while there is none.
Empty ==
  [id |-> <<>>, level |-> <<>>, links |-> <<>>, vec |-> <<>>, dead |-> <<>>,
   entry |-> 0, maxLevel |-> 0, live |-> 0]

Slots(g) == DOMAIN g.id
SlotOf(g, id) == {s \in Slots(g) : g.id[s] = id}

-----------------------------------------------------------------------------
(* Link lists. *)

\* links: layer l of a slot, empty above its own layers.
Links(g, s, l) == IF l < Len(g.links[s]) THEN g.links[s][l + 1] ELSE <<>>

\* setLinks makes the node's own list of layers longer if it has to.
SetLinks(g, s, l, list) ==
  [g EXCEPT !.links[s] =
     [i \in 1..(IF l < Len(@) THEN Len(@) ELSE l + 1) |->
        IF i = l + 1 THEN list ELSE IF i <= Len(@) THEN @[i] ELSE <<>>]]

MaxLinks(l) == IF l = 0 THEN 2 * M ELSE M

Near(g, q, s) == Dist(q, g.vec[s])
Closest(g, q, S) == CHOOSE s \in S : \A t \in S : Near(g, q, s) <= Near(g, q, t)
Farthest(g, q, S) == CHOOSE s \in S : \A t \in S : Near(g, q, t) <= Near(g, q, s)
ByDistance(g, q, S) ==
  [i \in 1..Cardinality(S) |->
     CHOOSE s \in S : Cardinality({t \in S : Near(g, q, t) < Near(g, q, s)}) = i - 1]

\* diverse: keep a candidate that is closer to the base than to those kept.
Diverse(g, q, candidates, m) ==
  FoldLeft(LAMBDA out, c :
             IF Len(out) < m /\ \A k \in ToSet(out) : ~(Near(g, g.vec[c], k) < Near(g, q, c))
             THEN Append(out, c) ELSE out,
           <<>>, candidates)

\* addLinks: edges to -> from[i], pruned once if there are too many.
AddLinks(g, to, from, l) ==
  LET cur == FoldLeft(LAMBDA list, s : IF s \in ToSet(list) THEN list ELSE Append(list, s),
                      Links(g, to, l), from)
      base == g.vec[to] IN
  SetLinks(g, to, l,
           IF Len(cur) > MaxLinks(l)
           THEN Diverse(g, base, ByDistance(g, base, ToSet(cur)), MaxLinks(l))
           ELSE cur)

-----------------------------------------------------------------------------
(* Traversals. *)

RECURSIVE GreedyClosest(_, _, _, _)
GreedyClosest(g, q, best, l) ==
  LET next == Closest(g, q, {best} \cup ToSet(Links(g, best, l))) IN
  IF next = best THEN best ELSE GreedyClosest(g, q, next, l)

RECURSIVE Descend(_, _, _, _, _)
\* Greedy walks from layer top down to the one above bottom.
Descend(g, q, entry, top, bottom) ==
  IF top <= bottom THEN entry
  ELSE Descend(g, q, GreedyClosest(g, q, entry, top), top - 1, bottom)

\* Mutant: the search does not go on from a tombstone.
ScoreLive(g, q, ef, st, s) ==
  LET better == Cardinality(st.results) < ef \/ Near(g, q, s) < Near(g, q, Farthest(g, q, st.results))
      found == st.results \cup {s} IN
  IF g.dead[s] \/ ~better THEN st
  ELSE [st EXCEPT !.frontier = @ \cup {s},
                  !.results = IF Cardinality(found) > ef
                              THEN found \ {Farthest(g, q, found)} ELSE found]

\* One scored neighbour: tombstones are walked through and never returned.
Score(g, q, ef, st, s) ==
  LET better == Cardinality(st.results) < ef \/ Near(g, q, s) < Near(g, q, Farthest(g, q, st.results))
      found == st.results \cup (IF g.dead[s] THEN {} ELSE {s}) IN
  IF ~better THEN st
  ELSE [st EXCEPT !.frontier = @ \cup {s},
                  !.results = IF Cardinality(found) > ef
                              THEN found \ {Farthest(g, q, found)} ELSE found]

RECURSIVE Beam(_, _, _, _, _)
Beam(g, q, ef, l, st) ==
  IF st.frontier = {} THEN st.results
  ELSE LET c == Closest(g, q, st.frontier)
           fresh == SelectSeq(Links(g, c, l), LAMBDA s : s \notin st.visited)
           popped == [st EXCEPT !.frontier = @ \ {c}, !.visited = @ \cup ToSet(fresh)] IN
       IF Cardinality(st.results) >= ef
          /\ Near(g, q, c) > Near(g, q, Farthest(g, q, st.results))
       THEN st.results
       ELSE Beam(g, q, ef, l, FoldLeft(LAMBDA a, s : Score(g, q, ef, a, s), popped, fresh))

\* searchLayer: up to ef slots, closest first.
SearchLayer(g, q, entry, ef, l) ==
  ByDistance(g, q,
    Beam(g, q, ef, l, [frontier |-> {entry}, visited |-> {entry},
                       results |-> IF g.dead[entry] THEN {} ELSE {entry}]))

\* SearchContext: slots; topK is positive.
Search(g, q, topK, ef) ==
  IF g.entry = 0 THEN <<>>
  ELSE LET found == SearchLayer(g, q, Descend(g, q, g.entry, g.maxLevel, 0),
                                IF ef < topK THEN topK ELSE ef, 0) IN
       SubSeq(found, 1, IF Len(found) > topK THEN topK ELSE Len(found))

\* ExactSearchContext keeps the topK closest live slots in a heap.
ExactSearch(g, q, ids, topK) ==
  ByDistance(g, q,
    FoldSet(LAMBDA s, h :
              IF g.dead[s] THEN h
              ELSE IF Cardinality(h) < topK THEN h \cup {s}
              ELSE IF Near(g, q, s) < Near(g, q, Farthest(g, q, h))
              THEN (h \ {Farthest(g, q, h)}) \cup {s} ELSE h,
            {}, UNION {SlotOf(g, i) : i \in ids}))

-----------------------------------------------------------------------------
(* Insert. *)

\* place: a new slot is appended, a known id's is written over.
Place(g, s, nd) ==
  LET set(f, v) == IF s = Len(f) + 1 THEN Append(f, v) ELSE [f EXCEPT ![s] = v] IN
  [g EXCEPT !.id = set(@, nd.id), !.level = set(@, nd.level), !.vec = set(@, nd.vec),
            !.dead = set(@, FALSE), !.links = set(@, nd.links)]

RECURSIVE Pick(_, _, _, _, _)
\* Phase 2: the links of layers 0..l, the search of each starting from the
\* closest node found in the one above.  The node's own old self is no candidate.
Pick(g, slot, q, entry, l) ==
  LET found == SelectSeq(SearchLayer(g, q, entry, EfConstruction, l), LAMBDA s : s # slot)
      picked == Diverse(g, q, found, MaxLinks(l))
      next == IF found = <<>> THEN entry ELSE Head(found) IN
  IF l = 0 THEN <<picked>> ELSE Append(Pick(g, slot, q, next, l - 1), picked)

\* One list per layer of the node, those above the graph's top layer empty.
Padded(lists, level) ==
  [i \in 1..(level + 1) |-> IF i <= Len(lists) THEN lists[i] ELSE <<>>]

\* Mutant: a node without links is left where it is.
EnterTallest(g, s) ==
  IF g.level[s] > g.maxLevel THEN [g EXCEPT !.maxLevel = g.level[s], !.entry = s] ELSE g

\* The entry point moves to a node that is taller than all others, or that
\* found no live node to link to.
Enter(g, s) ==
  CASE g.level[s] > g.maxLevel -> [g EXCEPT !.maxLevel = g.level[s], !.entry = s]
    [] g.level[s] <= g.maxLevel /\ Links(g, s, 0) = <<>> -> [g EXCEPT !.entry = s]
    [] OTHER -> g

BackLinks(g, s) ==
  FoldLeft(LAMBDA a, l : FoldLeft(LAMBDA b, nbr : AddLinks(b, nbr, <<s>>, l), a, Links(a, s, l)),
           g, [i \in 1..(g.level[s] + 1) |-> i - 1])

\* insertLocked.
InsertLocked(g, id, q, level) ==
  LET known == SlotOf(g, id)
      slot == IF known = {} THEN Len(g.id) + 1 ELSE CHOOSE s \in known : TRUE
      fresh == known = {} \/ g.dead[slot]
      live == IF fresh THEN g.live + 1 ELSE g.live
      node(links) == [id |-> id, level |-> level, vec |-> q, links |-> links] IN
  IF g.entry = 0
  THEN [Place(g, slot, node(Padded(<<>>, level)))
          EXCEPT !.entry = slot, !.maxLevel = level, !.live = g.live + 1]
  ELSE LET start == Descend(g, q, g.entry, g.maxLevel, level)
           top == IF level < g.maxLevel THEN level ELSE g.maxLevel
           placed == Place(g, slot, node(Padded(Pick(g, slot, q, start, top), level))) IN
       Enter([BackLinks(placed, slot) EXCEPT !.live = live], slot)

-----------------------------------------------------------------------------
(* InsertBatch.  A batch is a sequence of id, vec and level. *)

\* insertChunk: every node searches the graph as it was, and is shown the
\* chunk-mates before it; then all are placed, linked and linked back to.
InsertChunk(g, chunk) ==
  LET n == Len(g.id)
      K == DOMAIN chunk
      all == FoldLeft(LAMBDA a, k :
                        Place(a, n + k, [id |-> chunk[k].id, level |-> chunk[k].level,
                                         vec |-> chunk[k].vec, links |-> <<>>]),
                      g, [k \in K |-> k])
      searched(k) ==
        LET top == IF chunk[k].level < g.maxLevel THEN chunk[k].level ELSE g.maxLevel IN
        Pick(g, 0, chunk[k].vec, Descend(g, chunk[k].vec, g.entry, g.maxLevel, chunk[k].level), top)
      mates(k, l) == {n + j : j \in {i \in K : i < k /\ l <= chunk[i].level}}
      pick(k, l) ==
        LET found == IF l < Len(searched(k)) THEN ToSet(searched(k)[l + 1]) ELSE {} IN
        Diverse(all, chunk[k].vec, ByDistance(all, chunk[k].vec, found \cup mates(k, l)), MaxLinks(l))
      linked == FoldLeft(LAMBDA a, k :
                           [a EXCEPT !.links[n + k] =
                              [i \in 1..(chunk[k].level + 1) |-> pick(k, i - 1)]],
                         all, [k \in K |-> k])
      from(to, l) == SelectSeq([k \in K |-> n + k],
                               LAMBDA s : l <= linked.level[s] /\ to \in ToSet(Links(linked, s, l)))
      groups == {<<to, l>> \in Slots(all) \X (0..Max(Levels)) : from(to, l) # <<>>}
      back == FoldSet(LAMBDA key, a : AddLinks(a, key[1], from(key[1], key[2]), key[2]), linked, groups) IN
  FoldLeft(LAMBDA a, k : Enter([a EXCEPT !.live = @ + 1], n + k), back, [k \in K |-> k])

\* Mutant: a batch that has an id twice passes for fresh.
FreshIDsKnown(g, batch) == \A k \in DOMAIN batch : SlotOf(g, batch[k].id) = {}

\* freshIDs
FreshIDs(g, batch) ==
  /\ \A k \in DOMAIN batch : SlotOf(g, batch[k].id) = {}
  /\ \A j, k \in DOMAIN batch : batch[j].id = batch[k].id => j = k

RECURSIVE InsertBatch(_, _)
InsertBatch(g, batch) ==
  LET size == Min({Len(g.id) \div NodesPerChunk, Len(batch)})
      rest(n) == SubSeq(batch, n + 1, Len(batch)) IN
  IF batch = <<>> THEN g
  ELSE IF size < MinChunk \/ ~FreshIDs(g, SubSeq(batch, 1, size))
  THEN InsertBatch(InsertLocked(g, batch[1].id, batch[1].vec, batch[1].level), rest(1))
  ELSE InsertBatch(InsertChunk(g, SubSeq(batch, 1, size)), rest(size))

-----------------------------------------------------------------------------
(* Snapshots. *)

\* Mutant: tombstones are saved as live nodes.
SnapshotAlive(g) ==
  [nodes |-> [s \in Slots(g) |->
                [id |-> g.id[s], vec |-> g.vec[s], level |-> g.level[s], deleted |-> FALSE,
                 neighbors |-> [i \in DOMAIN g.links[s] |->
                                  [j \in DOMAIN g.links[s][i] |-> g.id[g.links[s][i][j]]]]]],
   hasEntry |-> g.entry # 0, entryPoint |-> IF g.entry = 0 THEN 0 ELSE g.id[g.entry],
   maxLevel |-> g.maxLevel]

\* Graph.Snapshot: links are saved by id.
Snapshot(g) ==
  [nodes |-> [s \in Slots(g) |->
                [id |-> g.id[s], vec |-> g.vec[s], level |-> g.level[s], deleted |-> g.dead[s],
                 neighbors |-> [i \in DOMAIN g.links[s] |->
                                  [j \in DOMAIN g.links[s][i] |-> g.id[g.links[s][i][j]]]]]],
   hasEntry |-> g.entry # 0, entryPoint |-> IF g.entry = 0 THEN 0 ELSE g.id[g.entry],
   maxLevel |-> g.maxLevel]

\* What segment.Load, BeginRestore, RestoreNode and EndRestore insist on.
Consistent(sn) ==
  LET ids == {sn.nodes[s].id : s \in DOMAIN sn.nodes} IN
  /\ sn.hasEntry <=> sn.nodes # <<>>
  /\ sn.hasEntry => sn.entryPoint \in ids
  /\ Cardinality(ids) = Len(sn.nodes)
  /\ \A s \in DOMAIN sn.nodes :
       LET nd == sn.nodes[s] IN
       /\ Len(nd.neighbors) = nd.level + 1
       /\ \A i \in DOMAIN nd.neighbors :
            IsInjective(nd.neighbors[i]) /\ ToSet(nd.neighbors[i]) \subseteq ids \ {nd.id}

\* The graph it restores; layer 0 keeps the first 2M.
Restore(sn) ==
  LET slot(id) == CHOOSE s \in DOMAIN sn.nodes : sn.nodes[s].id = id
      kept(i, list) == SubSeq(list, 1, IF i = 1 /\ Len(list) > 2 * M THEN 2 * M ELSE Len(list))
      each(f(_)) == [s \in DOMAIN sn.nodes |-> f(sn.nodes[s])] IN
  [id |-> each(LAMBDA nd : nd.id), level |-> each(LAMBDA nd : nd.level),
   vec |-> each(LAMBDA nd : nd.vec), dead |-> each(LAMBDA nd : nd.deleted),
   links |-> each(LAMBDA nd : [i \in DOMAIN nd.neighbors |->
                                 [j \in DOMAIN kept(i, nd.neighbors[i]) |-> slot(nd.neighbors[i][j])]]),
   entry |-> IF sn.hasEntry THEN slot(sn.entryPoint) ELSE 0,
   maxLevel |-> sn.maxLevel,
   live |-> Cardinality({s \in DOMAIN sn.nodes : ~sn.nodes[s].deleted})]

-----------------------------------------------------------------------------
\* Some layer-0 link has no link back: one was pruned, or an insert replaced
\* the links of a node others lead to.
OneWay(g) ==
  \E s \in Slots(g) : \E t \in ToSet(Links(g, s, 0)) : s \notin ToSet(Links(g, t, 0))

Write(f, id, p) == [i \in DOMAIN f \cup {id} |-> IF i = id THEN p ELSE f[i]]

Init ==
  /\ \E b \in Starts :
       /\ graph = InsertBatch(Empty, b)
       /\ written = FoldLeft(LAMBDA f, w : Write(f, w.id, w.vec), [i \in {} |-> 0], b)
  /\ lapses = IF OneWay(graph) THEN {"oneWay"} ELSE {}
  /\ ops = 0

Op(g, why) ==
  /\ ops < MaxOps /\ ops' = ops + 1
  /\ Cardinality({s \in Slots(g) : g.level[s] > 0}) <= MaxTall
  /\ graph' = g
  /\ lapses' = why \cup (IF OneWay(g) THEN {"oneWay"} ELSE {})

Insert(id, p, level) ==
  /\ Op(InsertLocked(graph, id, p, level), lapses)
  /\ written' = Write(written, id, p)

Batch(b) ==
  LET chunk == Len(graph.id) \div NodesPerChunk >= MinChunk /\ FreshIDs(graph, b) IN
  /\ Op(InsertBatch(graph, b), lapses \cup IF chunk /\ graph.live = 0 THEN {"nobodyLive"} ELSE {})
  /\ written' = FoldLeft(LAMBDA f, w : Write(f, w.id, w.vec), written, b)

Delete(id) ==
  /\ \E s \in SlotOf(graph, id) :
       /\ ~graph.dead[s]
       /\ Op([graph EXCEPT !.dead[s] = TRUE, !.live = @ - 1], lapses)
  /\ written' = [i \in DOMAIN written \ {id} |-> written[i]]

\* Compact builds a new graph of the live vectors, in slot order.
Compact(levels) ==
  LET alive == SelectSeq([s \in Slots(graph) |-> s], LAMBDA s : ~graph.dead[s]) IN
  /\ graph.live < Len(graph.id)
  /\ DOMAIN levels = DOMAIN alive
  /\ Op(InsertBatch(Empty, [k \in DOMAIN alive |-> [id |-> graph.id[alive[k]],
                                                    vec |-> graph.vec[alive[k]],
                                                    level |-> levels[k]]]), {})
  /\ UNCHANGED written

\* Save and, in the next process, Load.
Restart ==
  /\ graph.id # <<>> /\ Consistent(Snapshot(graph))
  /\ Op(Restore(Snapshot(graph)), lapses)
  /\ UNCHANGED written

Next ==
  \/ \E id \in Ids, l \in Levels : \E p \in Vectors[id] : Insert(id, p, l)
  \/ \E b \in Batches : Batch(b)
  \/ \E id \in Ids : Delete(id)
  \/ \E levels \in [1..graph.live -> Levels] : Compact(levels)
  \/ Restart

Spec == Init /\ [][Next]_vars

-----------------------------------------------------------------------------
(* What Search is measured against. *)

RECURSIVE ReachableFrom(_, _)
ReachableFrom(g, S) ==
  LET more == S \cup UNION {ToSet(Links(g, s, 0)) : s \in S} IN
  IF more = S THEN S ELSE ReachableFrom(g, more)

Live(g, S) == {s \in S : ~g.dead[s]}

\* The topK closest of S, by sorting all of it.
Nearest(g, q, S, topK) ==
  LET sorted == ByDistance(g, q, S) IN
  SubSeq(sorted, 1, IF Len(sorted) > topK THEN topK ELSE Len(sorted))

\* The live slots a query can reach at layer 0.
InReach(g, q) ==
  IF g.entry = 0 THEN {}
  ELSE Live(g, ReachableFrom(g, {Descend(g, q, g.entry, g.maxLevel, 0)}))

-----------------------------------------------------------------------------
\* What Get and IDs return is what was written and not deleted since, whether
\* alone, in a chunk or over an old node, and across Compact and a restart.
HoldsWhatWasWritten ==
  LET live == Live(graph, Slots(graph)) IN
  /\ {graph.id[s] : s \in live} = DOMAIN written
  /\ \A s \in live : graph.vec[s] = written[graph.id[s]]

\* However narrow its beam, Search returns topK live nodes if that many are in
\* reach, walking through tombstones; with a beam as wide as the graph they
\* are the closest.  ExactSearch returns the closest of the ids it is given.
SearchAnswers ==
  \A q \in Queries :
    LET reach == InReach(graph, q)
        narrow == Search(graph, q, 2, 1) IN
    /\ Len(narrow) = Min({2, Cardinality(reach)}) /\ IsInjective(narrow)
    /\ ToSet(narrow) \subseteq reach
    /\ Search(graph, q, 2, Len(graph.id)) = Nearest(graph, q, reach, 2)
    /\ ExactSearch(graph, q, {graph.id[s] : s \in reach}, 2) = Nearest(graph, q, reach, 2)

\* Every live vector can be found, for any query, as long as links go both ways
\* and no chunk was linked into a graph without a live node.
LiveIsReachable ==
  lapses = {} => \A q \in Queries : InReach(graph, q) = Live(graph, Slots(graph))

\* A snapshot of a graph in which no node has links above its own level loads,
\* and loads as the same graph.
SnapshotRestores ==
  (\A s \in Slots(graph) : Len(graph.links[s]) = graph.level[s] + 1) =>
     Consistent(Snapshot(graph)) /\ Restore(Snapshot(graph)) = graph

-----------------------------------------------------------------------------
\* "persists a full HNSW graph to a single on-disk snapshot file and restores
\* it back": whatever Snapshot returns can be loaded.
SnapshotLoads == Consistent(Snapshot(graph))
=============================================================================
