------------------------------- MODULE Search -------------------------------
(***************************************************************************)
(* Reads beside writes: SearchContext, Get and List of                     *)
(* internal/engine/engine.go with the filters of filter.go, as the gRPC    *)
(* server calls them.  A read holds no lock from beginning to end: it      *)
(* loads the graph pointer once, takes the graph's lock and metaMu by      *)
(* turns, and commits, compactions and snapshot installations run between  *)
(* its steps.                                                              *)
(*                                                                         *)
(* A graph is the vectors it stores, points of a line; what a traversal    *)
(* returns is Hnsw's business, and any of the live ids here.               *)
(***************************************************************************)
EXTENDS Integers, Sequences, FiniteSets, FiniteSetsExt, SequencesExt

CONSTANTS
  MaxId,          \* the greatest id: math.MaxUint64
  Opened,         \* what the engine may hold at first
  Snapshots,      \* what a snapshot it loads may hold
  Commits,        \* the groups of records that may be committed
  Number,         \* the metadata values that parse as a number, and as which
  Requests,       \* the searches asked for: topK, ef and filters
  PageSizes,      \* the page sizes asked for
  Query,          \* the point searched for
  MaxTopK, MaxEf, MaxPageSize, DefaultPage, DefaultEf,
  ExactLimit,     \* exactFilterLimit
  Widen,          \* how much wider each attempt is (4)
  MaxAttempts,    \* maxAttempts (3)
  MaxWrites       \* bound: commits, compactions and loads

Ids == 0..MaxId
Absent == -1
Unlimited == 1000000
NoMeta == [k \in {} |-> ""]

VARIABLES
  graphs,    \* every graph e.graph has pointed at; the last is current
  metadata, postings,
  writer,    \* the write that holds e.mu
  r,         \* the read in progress or last finished
  during,    \* history: what was stored while r ran
  writes

vars == <<graphs, metadata, postings, writer, r, during, writes>>

Stored(g) == {i \in Ids : g[i] # Absent}
Graph == Last(graphs)

Dist(p) == IF p < Query THEN Query - p ELSE p - Query
Closest(g, S) ==
  [n \in 1..Cardinality(S) |->
     CHOOSE i \in S : Cardinality({j \in S : Dist(g[j]) < Dist(g[i])}) = n - 1]
Upto(s, n) == SubSeq(s, 1, Min({n, Len(s)}))
Ascending(S) ==
  [n \in 1..Cardinality(S) |-> CHOOSE i \in S : Cardinality({j \in S : j < i}) = n - 1]

-----------------------------------------------------------------------------
(* Filters. *)

Compares == {"gt", "gte", "lt", "lte"}

\* Filter.validate
Valid(f) ==
  /\ f.op \in {"eq", "ne"} \cup Compares => Len(f.values) = 1
  /\ f.op \in {"in", "notin"} => Len(f.values) > 0
  /\ f.op \in Compares => f.values[1] \in DOMAIN Number

\* Filter.match
Match(f, md) ==
  LET ok == f.key \in DOMAIN md
      number == ok /\ md[f.key] \in DOMAIN Number
      x == Number[md[f.key]]
      want == Number[f.values[1]] IN
  \/ f.op = "eq" /\ ok /\ md[f.key] = f.values[1]
  \/ f.op = "ne" /\ (ok => md[f.key] # f.values[1])
  \/ f.op = "in" /\ ok /\ md[f.key] \in ToSet(f.values)
  \/ f.op = "notin" /\ (ok => md[f.key] \notin ToSet(f.values))
  \/ f.op = "exists" /\ ok
  \/ f.op = "gt" /\ number /\ x > want
  \/ f.op = "gte" /\ number /\ x >= want
  \/ f.op = "lt" /\ number /\ x < want
  \/ f.op = "lte" /\ number /\ x <= want

\* matchesFilters
Matches(md, filters) == \A f \in ToSet(filters) : Match(f, md)

\* Pairs of md, as the postings index holds them.
Pairs(md, id) == {<<key, md[key], id>> : key \in DOMAIN md}

\* buildPostings
BuildPostings(md) == UNION {Pairs(md[i], i) : i \in Ids}

Posting(key, v) == {i \in Ids : <<key, v, i>> \in postings}

\* A list without its repeats: seenValues.
Distinct(values) ==
  FoldLeft(LAMBDA out, v : IF v \in ToSet(out) THEN out ELSE Append(out, v), <<>>, values)

\* Mutant: a value given twice has its ids collected twice.
PoolRepeated(f) == FlattenSeq([n \in DOMAIN f.values |-> Ascending(Posting(f.key, f.values[n]))])

\* The ids an Eq or In filter allows, from the postings of its values.
Pool(f) ==
  LET values == Distinct(f.values) IN
  FlattenSeq([n \in DOMAIN values |-> Ascending(Posting(f.key, values[n]))])

\* Stands for ok = false.
TooBroad == <<-1>>

\* Mutant: the postings of one filter are taken for matches of all of them.
FilterCandidatesUnchecked(g, filters, limit) ==
  LET indexed == SelectSeq(filters, LAMBDA f : f.op \in {"eq", "in"})
      best == Pool(SortSeq(indexed, LAMBDA a, b : Len(Pool(a)) < Len(Pool(b)))[1]) IN
  IF indexed # <<>>
  THEN IF Len(best) <= limit THEN best ELSE TooBroad
  ELSE IF limit = Unlimited
  THEN SelectSeq(Ascending(Stored(g)), LAMBDA i : Matches(metadata[i], filters)) ELSE TooBroad

\* filterCandidates: the ids that match, out of those the most selective Eq or
\* In filter allows, or of all ids if there is no such filter and no limit.
FilterCandidates(g, filters, limit) ==
  LET indexed == SelectSeq(filters, LAMBDA f : f.op \in {"eq", "in"})
      best == Pool(SortSeq(indexed, LAMBDA a, b : Len(Pool(a)) < Len(Pool(b)))[1])
      matching(ids) == SelectSeq(ids, LAMBDA i : Matches(metadata[i], filters)) IN
  IF indexed # <<>>
  THEN IF Len(best) <= limit THEN matching(best) ELSE TooBroad
  ELSE IF limit = Unlimited THEN matching(Ascending(Stored(g))) ELSE TooBroad

-----------------------------------------------------------------------------
(* Writes.  writer.phase says what is left to do before e.mu is released. *)

NoWrite == [phase |-> "none", recs |-> <<>>, pos |-> 1, load |-> <<>>]

\* setMeta
SetMeta(id, md) ==
  /\ metadata' = [metadata EXCEPT ![id] = md]
  /\ postings' = (postings \ Pairs(metadata[id], id)) \cup Pairs(md, id)

Begin(w) ==
  /\ writer.phase = "none" /\ writes < MaxWrites /\ writes' = writes + 1
  /\ writer' = w
  /\ UNCHANGED <<metadata, postings, r>>

\* commitLocked, once the log has the records.
Commit(recs) ==
  /\ Begin([NoWrite EXCEPT !.phase = "graph", !.recs = recs])
  /\ UNCHANGED graphs

Advance(next) ==
  writer' = IF writer.pos < Len(writer.recs) THEN [writer EXCEPT !.pos = @ + 1]
            ELSE IF next = "none" THEN NoWrite ELSE [writer EXCEPT !.phase = next, !.pos = 1]

\* The graph takes the vectors and the deletes in log order...
WriteGraph ==
  LET rec == writer.recs[writer.pos]
      put(v) == [graphs EXCEPT ![Len(graphs)][rec.id] = v] IN
  /\ writer.phase = "graph"
  /\ graphs' = CASE rec.op = "insert" -> put(rec.vec)
                 [] rec.op = "delete" -> put(Absent)
                 [] rec.op = "meta" -> graphs
  /\ Advance("meta")
  /\ UNCHANGED <<metadata, postings, r, writes>>

\* ...and then metadata follows, record by record.
WriteMeta ==
  LET rec == writer.recs[writer.pos] IN
  /\ writer.phase = "meta"
  /\ IF Graph[rec.id] # Absent \/ rec.op = "delete"
     THEN SetMeta(rec.id, rec.md)
     ELSE UNCHANGED <<metadata, postings>>
  /\ Advance("none")
  /\ UNCHANGED <<graphs, r, writes>>

\* LoadSnapshot swaps the graph first and the metadata after it.
LoadGraph(db) ==
  /\ Begin([NoWrite EXCEPT !.phase = "load", !.load = <<db>>])
  /\ graphs' = Append(graphs, db.graph)

LoadMeta ==
  /\ writer.phase = "load"
  /\ metadata' = writer.load[1].meta /\ postings' = BuildPostings(writer.load[1].meta)
  /\ writer' = NoWrite
  /\ UNCHANGED <<graphs, r, writes>>

\* compactLocked points e.graph at a new graph of the live vectors; it needs
\* tombstones, which only ids that are not stored can leave.
Compact ==
  /\ Stored(Graph) # Ids
  /\ Begin(NoWrite)
  /\ graphs' = Append(graphs, Graph)

-----------------------------------------------------------------------------
(* Reads.  r.found holds ids, r.out what is returned. *)

Idle ==
  [op |-> "none", pc |-> "done", g |-> 1, filters |-> <<>>, topK |-> 0, want |-> 0,
   attempt |-> 1, exact |-> FALSE, ids |-> <<>>, found |-> <<>>, out |-> <<>>, err |-> "none"]

Result(id, v) == [id |-> id, vec |-> v, md |-> metadata[id]]
Fail(read, why) == [read EXCEPT !.pc = "done", !.err = why]

\* A behaviour has one read: reads leave nothing behind for the next.
Start(read) ==
  /\ r.op = "none"
  /\ r' = read \/ r' = Fail(read, "rateLimited")  \* tenant.allow(1)
  /\ UNCHANGED <<graphs, metadata, postings, writer, writes>>

Step(read) ==
  /\ r' = read
  /\ UNCHANGED <<graphs, metadata, postings, writer, writes>>

\* Server.Search: the bounds of a request.
Refused(req) == req.topK \notin 1..MaxTopK \/ req.ef \notin 0..MaxEf

\* SearchContext up to the load of the graph pointer.
StartSearch(req) ==
  LET ef == Max({req.topK, IF req.ef = 0 THEN DefaultEf ELSE req.ef})
      read == [Idle EXCEPT !.op = "search", !.filters = req.filters, !.topK = req.topK,
                           !.g = Len(graphs), !.pc = IF req.filters = <<>> THEN "graph" ELSE "select",
                           !.want = IF req.filters = <<>> THEN ef ELSE ef * Widen] IN
  Start(IF Refused(req) \/ \E f \in ToSet(req.filters) : ~Valid(f)
        THEN Fail([Idle EXCEPT !.op = "search"], "invalid") ELSE read)

\* Few enough ids to score one by one, or a graph search.
Select ==
  LET ids == FilterCandidates(graphs[r.g], r.filters, ExactLimit) IN
  /\ r.pc = "select"
  /\ Step(IF ids = TooBroad THEN [r EXCEPT !.pc = "graph"]
          ELSE [r EXCEPT !.pc = "exact", !.ids = ids])

\* SearchContext of the graph: as many live ids as asked for or as there are.
GraphSearch ==
  LET g == graphs[r.g] IN
  /\ r.pc = "graph"
  /\ \E S \in kSubset(Min({r.want, Cardinality(Stored(g))}), Stored(g)) :
       LET sorted == Closest(g, S) IN
       Step([r EXCEPT !.pc = "filter",
                      !.found = [n \in DOMAIN sorted |-> [id |-> sorted[n], vec |-> g[sorted[n]]]]])

\* Mutant: a search that found too little is not finished by an exact scan.
FilterMatchesOnly ==
  LET matched == SelectSeq(r.found, LAMBDA c : Matches(metadata[c.id], r.filters))
      out == [n \in DOMAIN Upto(matched, r.topK) |-> Result(matched[n].id, matched[n].vec)] IN
  /\ r.pc = "filter"
  /\ Step(IF Len(out) = r.topK \/ Len(r.found) < r.want \/ r.attempt = MaxAttempts
          THEN [r EXCEPT !.pc = "done", !.out = out, !.found = <<>>]
          ELSE [r EXCEPT !.attempt = @ + 1, !.found = <<>>, !.want = @ * Widen, !.pc = "graph"])

\* filterMatches, and what is done with too few.
FilterMatches ==
  LET matched == SelectSeq(r.found, LAMBDA c : Matches(metadata[c.id], r.filters))
      out == [n \in DOMAIN Upto(matched, r.topK) |-> Result(matched[n].id, matched[n].vec)] IN
  /\ r.pc = "filter"
  /\ Step(IF Len(out) = r.topK \/ Len(r.found) < r.want THEN [r EXCEPT !.pc = "done", !.out = out, !.found = <<>>]
          ELSE [r EXCEPT !.attempt = @ + 1, !.found = <<>>, !.want = @ * Widen,
                         !.pc = IF r.attempt < MaxAttempts THEN "graph" ELSE "selectAll"])

SelectAll ==
  /\ r.pc = "selectAll"
  /\ Step([r EXCEPT !.pc = "exact", !.ids = FilterCandidates(graphs[r.g], r.filters, Unlimited)])

\* ExactSearchContext skips ids the graph no longer has.
ExactSearch ==
  LET g == graphs[r.g]
      live == SelectSeq(r.ids, LAMBDA i : g[i] # Absent)
      sorted == SortSeq(live, LAMBDA i, j : Dist(g[i]) < Dist(g[j])) IN
  /\ r.pc = "exact"
  /\ Step([r EXCEPT !.pc = "attach", !.exact = TRUE, !.ids = <<>>,
                    !.found = [n \in DOMAIN Upto(sorted, r.topK) |->
                                 [id |-> sorted[n], vec |-> g[sorted[n]]]]])

\* withMetadata
WithMetadata ==
  /\ r.pc = "attach"
  /\ Step([r EXCEPT !.pc = "done", !.found = <<>>,
                    !.out = [n \in DOMAIN r.found |-> Result(r.found[n].id, r.found[n].vec)]])

\* The client is gone: the scans look at their context.
Cancel ==
  /\ r.pc \in {"graph", "exact"}
  /\ Step(Fail(r, "canceled"))

\* Get reads the vector first...
StartGet(id) ==
  LET read == [Idle EXCEPT !.op = "get"] IN
  Start(IF Graph[id] = Absent THEN Fail(read, "notFound")
        ELSE [read EXCEPT !.pc = "attach", !.found = <<[id |-> id, vec |-> Graph[id]]>>])

\* Server.List: the page size of a request.  A client asks for page after page.
StartList(size) ==
  LET read == [Idle EXCEPT !.op = "list", !.pc = "page", !.want = 0,
                           !.topK = IF size = 0 THEN DefaultPage ELSE size] IN
  Start(IF size \notin 0..MaxPageSize THEN Fail(read, "invalid") ELSE read)

\* Mutant: a full page is taken for a sign of more.
MorePagesIfFull(all, limit) == Len(all) >= limit

MorePages(all, limit) == Len(all) > limit

\* Engine.List of ids from r.want on, and the token for the page after it.
Page ==
  LET all == Ascending({i \in Stored(Graph) : i >= r.want})
      page == Upto(all, r.topK)
      out == r.out \o [n \in DOMAIN page |-> Result(page[n], Graph[page[n]])] IN
  /\ r.pc = "page"
  /\ Step(IF MorePages(all, r.topK)
          THEN [r EXCEPT !.out = out, !.want = (Last(page) + 1) % (MaxId + 1)]
          ELSE [r EXCEPT !.out = out, !.pc = "done"])

-----------------------------------------------------------------------------
(* What was stored while a read ran. *)

Now(filters) ==
  [steady |-> {i \in Stored(Graph) : Matches(metadata[i], filters)},
   vecs |-> {<<i, Graph[i]>> : i \in Stored(Graph)},
   mds |-> {<<i, metadata[i]>> : i \in Ids}]

Fresh == during' = Now(r.filters)'

Watch ==
  IF r.pc = "done" THEN UNCHANGED during
  ELSE LET now == Now(r.filters)' IN
       during' = [steady |-> during.steady \cap now.steady, vecs |-> during.vecs \cup now.vecs,
                  mds |-> during.mds \cup now.mds]

Init ==
  /\ \E db \in Opened :
       /\ graphs = <<db.graph>>
       /\ metadata = db.meta /\ postings = BuildPostings(db.meta)
  /\ writer = NoWrite /\ writes = 0
  /\ r = Idle /\ during = [steady |-> {}, vecs |-> {}, mds |-> {}]

Read == Select \/ GraphSearch \/ FilterMatches \/ SelectAll \/ ExactSearch \/ WithMetadata \/ Cancel \/ Page

Write ==
  \/ \E recs \in Commits : Commit(recs)
  \/ WriteGraph \/ WriteMeta
  \/ \E db \in Snapshots : LoadGraph(db)
  \/ LoadMeta \/ Compact

Next ==
  \/ (\E req \in Requests : StartSearch(req)) /\ Fresh
  \/ (\E id \in Ids : StartGet(id)) /\ Fresh
  \/ (\E size \in PageSizes : StartList(size)) /\ Fresh
  \/ Read /\ Watch
  \/ Write /\ Watch

Spec == Init /\ [][Next]_vars

-----------------------------------------------------------------------------
Answered(ops) == r.pc = "done" /\ r.err = "none" /\ r.op \in ops

\* "it can't come back short": a search returns topK results, or all the ids
\* that were stored and matched its filters throughout, whichever way it took
\* and whatever was written, compacted or installed meanwhile.
NotShort ==
  Answered({"search"}) => Len(r.out) >= Min({r.topK, Cardinality(during.steady)})

\* Results are closest first, no id appears twice, and when matches were scored
\* one by one, no id that stayed put and matched throughout was passed over for
\* a farther one.
ClosestFirst ==
  Answered({"search"}) =>
    /\ \A m, n \in DOMAIN r.out :
         m < n => r.out[m].id # r.out[n].id /\ Dist(r.out[m].vec) <= Dist(r.out[n].vec)
    /\ r.exact =>
         \A i \in during.steady \ {r.out[n].id : n \in DOMAIN r.out} :
           \A n \in DOMAIN r.out : \E v \in {e[2] : e \in {e \in during.vecs : e[1] = i}} :
             Dist(r.out[n].vec) <= Dist(v)

\* Nothing is returned that was not there: a vector was stored under its id,
\* and the metadata was that id's, at some moment of the call; and the metadata
\* matches the filters, unless an exact answer's changed during the call.
AnswersWereStored ==
  Answered({"search", "get"}) =>
    \A n \in DOMAIN r.out :
      LET o == r.out[n] IN
      /\ <<o.id, o.vec>> \in during.vecs /\ <<o.id, o.md>> \in during.mds
      /\ \/ Matches(o.md, r.filters)
         \/ r.exact /\ \E e \in during.mds : e[1] = o.id /\ e[2] # o.md

\* Pages come in ascending order without repeats, each id that was stored
\* throughout is on one of them, and the token never wraps at the last id.
ListComplete ==
  r.op = "list" =>
    /\ \A m, n \in DOMAIN r.out : m < n => r.out[m].id < r.out[n].id
    /\ Answered({"list"}) => during.steady \subseteq {r.out[n].id : n \in DOMAIN r.out}

=============================================================================
