------------------------------- MODULE Router -------------------------------
(***************************************************************************)
(* The scatter/gather client of a sharded cluster (router.Router) over the *)
(* cluster's view of who owns each shard (Cluster.ShardOwner, on the ring  *)
(* and the replicated leader table) and the stores of the nodes.  A vector *)
(* is stored as its distance to the one query that is searched for.        *)
(*                                                                         *)
(* One write (Insert, InsertBatch or Delete) and one Search may be under   *)
(* way at once, each with a goroutine per shard, while shards change       *)
(* owner, nodes stop and come back, a write the caller has given up on is  *)
(* applied late, and the router is closed.                                 *)
(***************************************************************************)
EXTENDS Naturals, Sequences, FiniteSets

CONSTANTS Nodes, Shards, Ids, Scores,
          Absent,        \* what a store holds for an id it does not have
          None,          \* no node
          ShardFor,      \* router.ShardFor: the shard an id hashes to
          Point,         \* ring.hashKey of a node's virtual nodes
          ShardPoint,    \* ring.hashKey of a shard
          Inserts, Batches, Deletes,  \* what the writes are called with
          Memberships, Holdings,      \* the clusters and the data to start from
          TopKs,         \* the topK values Search is called with
          SearchAttempts,
          MaxCalls, MaxEvents

ASSUME RouterAssumption ==
  /\ ShardFor \in [Ids -> Shards] /\ Absent \notin Scores /\ None \notin Nodes
  /\ Point \in [Nodes -> SUBSET Nat] /\ ShardPoint \in [Shards -> Nat]
  /\ \A n \in Nodes : Point[n] # {}
  /\ \A m, n \in Nodes : m # n => Point[m] \cap Point[n] = {}

VARIABLES
  leader,    \* FSM: ShardLeader, None where Rebalance has set none
  members,   \* Cluster.ring's nodes and Cluster.addrs' keys: one view
  up,        \* the nodes that answer
  store,     \* node -> id -> distance or Absent
  late,      \* writes sent to a node whose caller stopped waiting for them
  closed,    \* Router.closed
  w,         \* the write call
  s,         \* the Search call
  home,      \* history: the nodes that have owned each shard
  due,       \* history: the values each id's shard may hold
  since,     \* history: the owner of a shard has been one live node since
             \*   the shard's first attempt of this Search failed
  count      \* the bounds' counters

cluster == <<leader, members, up>>
vars == <<cluster, store, late, closed, w, s, home, due, since, count>>

\* The bounds: calls, and what happens while one is under way.  A call that
\* overlaps another counts as an event.
Busy == w.pc = "running" \/ s.pc = "running"
Eventful == count.events < MaxEvents /\ Busy
MayCall ==
  /\ count.calls < MaxCalls /\ (Busy => Eventful)
  /\ count' = [calls |-> count.calls + 1, events |-> count.events + IF Busy THEN 1 ELSE 0]

-----------------------------------------------------------------------------
(* Who owns a shard. *)

\* Ring.OwnerOf: the first point at or after the shard's, round the circle.
OwnerOf(sh) ==
  LET points == UNION {Point[n] : n \in members}
      ahead  == {p \in points : p >= ShardPoint[sh]}
      least(P) == CHOOSE p \in P : \A q \in P : p <= q
  IN IF points = {} THEN None
     ELSE CHOOSE n \in members : least(IF ahead # {} THEN ahead ELSE points) \in Point[n]

\* Cluster.ShardOwner: the replicated leader, the ring before there is one;
\* None stands for an error (no nodes, or no address known for the owner).
ShardOwner(sh) ==
  LET id == IF leader[sh] # None THEN leader[sh] ELSE OwnerOf(sh)
  IN IF id \in members THEN id ELSE None

\* Router.ownerClient and clientFor: a client on the owner's connection, which
\* the pool keeps or makes; None if there is no owner or the router is closed.
OwnerClient(sh) == IF closed THEN None ELSE ShardOwner(sh)

\* A request that gets an answer: the node is up, and Close has not closed
\* the connection under it.
Answers(node) == node \in up /\ ~closed

-----------------------------------------------------------------------------
(* What a call sends and gets back. *)

Put(id, score) == [id |-> id, score |-> score]
IdsOf(items) == {items[i].id : i \in DOMAIN items}

\* The value a list of items leaves an id with: a later item replaces an
\* earlier one.
Last(items, id) ==
  LET at == {i \in DOMAIN items : items[i].id = id}
  IN items[CHOOSE i \in at : \A j \in at : j <= i].score

\* The store of a node after a batch.
Stored(st, items) == [id \in Ids |-> IF id \in IdsOf(items) THEN Last(items, id) ELSE st[id]]

\* Mutant: a part is put together back to front.
ByShardReversed(items, sh) ==
  LET Here(it) == ShardFor[it.id] = sh
      part == SelectSeq(items, Here)
  IN [i \in DOMAIN part |-> part[Len(part) + 1 - i]]

\* The items that go to one shard, in the order of the call.
ByShard(items, sh) ==
  LET Here(it) == ShardFor[it.id] = sh IN SelectSeq(items, Here)

\* The k best of a set of matches; which of several at one distance is open.
Best(S, n) ==
  {R \in SUBSET S : /\ Cardinality(R) = IF Cardinality(S) < n THEN Cardinality(S) ELSE n
                    /\ \A a \in R, b \in S \ R : a.score <= b.score}

\* What a node has to offer, whatever shard it is asked for.
Held(node) == {Put(id, store[node][id]) : id \in {i \in Ids : store[node][i] # Absent}}

-----------------------------------------------------------------------------
(* Writes: one goroutine for every shard the items fall in. *)

Over(pc) == [pc |-> pc, node |-> None]
NoWrite == [pc |-> "idle", items |-> <<>>, around |-> [id \in Ids |-> {}],
            part |-> [sh \in Shards |-> Over("none")]]
OnItsWay(id) == {Last(l.items, id) : l \in {x \in late : id \in IdsOf(x.items)}}

Start(items) ==
  /\ w.pc = "idle" /\ MayCall
  /\ w' = [pc |-> "running", items |-> items, around |-> [id \in Ids |-> OnItsWay(id)],
           part |-> [sh \in Shards |-> Over(IF ByShard(items, sh) = <<>> THEN "none" ELSE "resolve")]]
  /\ due' = [id \in Ids |-> due[id] \cup {Last(items, id) : x \in {id} \cap IdsOf(items)}]
  /\ UNCHANGED <<cluster, store, late, closed, s, home, since>>

Insert == \E item \in Inserts : Start(<<item>>)
InsertBatch == \E items \in Batches : Start(items)
Delete == \E id \in Deletes : Start(<<Put(id, Absent)>>)

\* The goroutine gets the owner's client, or fails.
WriteResolve(sh) ==
  /\ w.part[sh].pc = "resolve"
  /\ LET node == OwnerClient(sh) IN
       w' = [w EXCEPT !.part[sh] = [pc |-> IF node = None THEN "err" ELSE "rpc", node |-> node]]
  /\ UNCHANGED <<cluster, store, late, closed, s, home, due, since, count>>

\* The node writes its part and says so.
WriteAnswered(sh) ==
  /\ w.part[sh].pc = "rpc" /\ Answers(w.part[sh].node)
  /\ store' = [store EXCEPT ![w.part[sh].node] = Stored(@, ByShard(w.items, sh))]
  /\ w' = [w EXCEPT !.part[sh] = Over("ok")]
  /\ s' = [s EXCEPT !.quiet = s.pc = "idle"]
  /\ UNCHANGED <<cluster, late, closed, home, due, since, count>>

\* The node is away, or Close took the connection.
WriteRefused(sh) ==
  /\ w.part[sh].pc = "rpc" /\ ~Answers(w.part[sh].node)
  /\ w' = [w EXCEPT !.part[sh] = Over("err")]
  /\ UNCHANGED <<cluster, store, late, closed, s, home, due, since, count>>

\* The context ends, or the answer is lost, while the request is under way.
WriteGivenUp(sh) ==
  /\ w.part[sh].pc = "rpc" /\ Eventful
  /\ late' = late \cup {[node |-> w.part[sh].node, items |-> ByShard(w.items, sh)]}
  /\ w' = [w EXCEPT !.part[sh] = Over("err")]
  /\ count' = [count EXCEPT !.events = @ + 1]
  /\ UNCHANGED <<cluster, store, closed, s, home, due, since>>

\* The node gets to it after all.
LateWrite ==
  \E l \in late :
    /\ l.node \in up
    /\ store' = [store EXCEPT ![l.node] = Stored(@, l.items)]
    /\ late' = late \ {l}
    /\ s' = [s EXCEPT !.quiet = s.pc = "idle"]
    /\ UNCHANGED <<cluster, closed, w, home, due, since, count>>

\* The collector has every part's answer.  The call returns nil if no part
\* failed, and then each id has its last value, or one that an abandoned
\* earlier write brought after all.
Settled == \A sh \in Shards : w.part[sh].pc \in {"none", "ok", "err"}

\* Mutant: an answer from every shard is waited for.
WriteReturnAll ==
  /\ w.pc = "running" /\ \A sh \in Shards : w.part[sh].pc \in {"ok", "err"}
  /\ w' = NoWrite
  /\ UNCHANGED <<cluster, store, late, closed, s, home, due, since, count>>

WriteReturn ==
  /\ w.pc = "running" /\ Settled
  /\ due' = IF \E sh \in Shards : w.part[sh].pc = "err" THEN due
            ELSE [id \in Ids |-> IF id \in IdsOf(w.items) THEN {Last(w.items, id)} \cup w.around[id]
                                 ELSE due[id]]
  /\ w' = NoWrite
  /\ UNCHANGED <<cluster, store, late, closed, s, home, since, count>>

-----------------------------------------------------------------------------
(* Search: a goroutine per shard, up to SearchAttempts tries each. *)

NoMatches == [pc |-> "resolve", attempt |-> 0, node |-> None, matches |-> {}]
NoSearch == [pc |-> "idle", topK |-> 0, quiet |-> TRUE, cancelled |-> FALSE,
             shard |-> [sh \in Shards |-> NoMatches], failed |-> {}, result |-> {}]

Search ==
  \E n \in TopKs :
    /\ s.pc = "idle" /\ MayCall
    /\ n > 0    \* or an error at once
    /\ s' = [NoSearch EXCEPT !.pc = "running", !.topK = n]
    /\ since' = [sh \in Shards |-> FALSE]
    /\ UNCHANGED <<cluster, store, late, closed, w, home, due>>

\* Mutant: there is no second try.
FailedAtOnce(sh) == s' = [s EXCEPT !.shard[sh] = [NoMatches EXCEPT !.pc = "err"]]

\* The try failed: the loop goes round, or the goroutine reports its error.
Failed(sh) ==
  s' = [s EXCEPT !.shard[sh] =
          IF s.shard[sh].attempt + 1 < SearchAttempts
          THEN [NoMatches EXCEPT !.attempt = s.shard[sh].attempt + 1]
          ELSE [NoMatches EXCEPT !.pc = "err"]]

Live(sh) == ~closed /\ ShardOwner(sh) \in up
FirstFailure(sh) ==
  since' = IF s.shard[sh].attempt = 0 THEN [since EXCEPT ![sh] = Live(sh)] ELSE since

\* The owner is resolved before each try.
SearchResolve(sh) ==
  /\ s.pc = "running" /\ s.shard[sh].pc = "resolve" /\ ~s.cancelled
  /\ LET node == OwnerClient(sh) IN
       /\ node # None
       /\ s' = [s EXCEPT !.shard[sh].pc = "rpc", !.shard[sh].node = node]
  /\ UNCHANGED <<cluster, store, late, closed, w, home, due, since, count>>

SearchNoOwner(sh) ==
  /\ s.pc = "running" /\ s.shard[sh].pc = "resolve" /\ ~s.cancelled
  /\ OwnerClient(sh) = None
  /\ Failed(sh) /\ FirstFailure(sh)
  /\ UNCHANGED <<cluster, store, late, closed, w, home, due, count>>

\* The loop looks at the context before each try.
SearchStops(sh) ==
  /\ s.pc = "running" /\ s.shard[sh].pc = "resolve" /\ s.cancelled
  /\ s' = [s EXCEPT !.shard[sh] = [NoMatches EXCEPT !.pc = "err"]]
  /\ UNCHANGED <<cluster, store, late, closed, w, home, due, since, count>>

SearchAnswered(sh) ==
  /\ s.pc = "running" /\ s.shard[sh].pc = "rpc" /\ Answers(s.shard[sh].node)
  /\ \E R \in Best(Held(s.shard[sh].node), s.topK) :
       s' = [s EXCEPT !.shard[sh] = [NoMatches EXCEPT !.pc = "ok", !.matches = R]]
  /\ UNCHANGED <<cluster, store, late, closed, w, home, due, since, count>>

SearchRefused(sh) ==
  /\ s.pc = "running" /\ s.shard[sh].pc = "rpc" /\ (~Answers(s.shard[sh].node) \/ s.cancelled)
  /\ Failed(sh) /\ FirstFailure(sh)
  /\ UNCHANGED <<cluster, store, late, closed, w, home, due, count>>

\* The answer does not arrive.
SearchLost(sh) ==
  /\ s.pc = "running" /\ s.shard[sh].pc = "rpc" /\ Eventful
  /\ Failed(sh)
  /\ since' = [since EXCEPT ![sh] = s.shard[sh].attempt = 0 /\ Live(sh)]
  /\ count' = [count EXCEPT !.events = @ + 1]
  /\ UNCHANGED <<cluster, store, late, closed, w, home, due>>

\* The caller cancels the context.
Cancel ==
  /\ s.pc = "running" /\ ~s.cancelled /\ Eventful
  /\ s' = [s EXCEPT !.cancelled = TRUE]
  /\ count' = [count EXCEPT !.events = @ + 1]
  /\ UNCHANGED <<cluster, store, late, closed, w, home, due, since>>

\* Mutant: the merged matches are not sorted before they are cut.
MergeInOrder(failed) ==
  LET merged == UNION {{[id |-> m.id, score |-> m.score, shard |-> sh] : m \in s.shard[sh].matches} :
                       sh \in Shards \ failed}
  IN {R \in SUBSET merged : Cardinality(R) = IF Cardinality(merged) < s.topK THEN Cardinality(merged) ELSE s.topK}

\* Every goroutine is done: the matches are merged, each tagged with its
\* shard here because nothing removes a repeated one, and cut to topK.
Merge(failed) ==
  LET merged == UNION {{[id |-> m.id, score |-> m.score, shard |-> sh] : m \in s.shard[sh].matches} :
                       sh \in Shards \ failed}
  IN IF failed = Shards THEN {{}} ELSE Best(merged, s.topK)

SearchReturn ==
  /\ s.pc = "running" /\ \A sh \in Shards : s.shard[sh].pc \in {"ok", "err"}
  /\ LET failed == {sh \in Shards : s.shard[sh].pc = "err"} IN
       \E R \in Merge(failed) :
         s' = [s EXCEPT !.pc = "done", !.failed = failed, !.result = R,
                        !.shard = [sh \in Shards |-> NoMatches]]
  /\ UNCHANGED <<cluster, store, late, closed, w, home, due, since, count>>

-----------------------------------------------------------------------------
(* Around them. *)

Close ==
  /\ Eventful /\ ~closed /\ closed' = TRUE
  /\ since' = [sh \in Shards |-> FALSE]
  /\ count' = [count EXCEPT !.events = @ + 1]
  /\ UNCHANGED <<cluster, store, late, w, s, home, due>>

\* What every change of the cluster does to the history variables.
Track ==
  /\ home' = [sh \in Shards |-> home[sh] \cup ({ShardOwner(sh)'} \ {None})]
  /\ since' = [sh \in Shards |-> since[sh] /\ ShardOwner(sh)' = ShardOwner(sh) /\ ShardOwner(sh) \in up']
  /\ UNCHANGED <<store, late, closed, w, s, due>>

\* A Rebalance or a failover sets a shard's leader (ControlPlane).
SetShardLeader ==
  /\ Eventful
  /\ \E sh \in Shards, n \in Nodes : leader[sh] # n /\ leader' = [leader EXCEPT ![sh] = n]
  /\ count' = [count EXCEPT !.events = @ + 1]
  /\ UNCHANGED <<members, up>> /\ Track

\* Refresh learns of a Join or a Leave.
Refresh ==
  /\ Eventful
  /\ \E n \in Nodes : members' = IF n \in members THEN members \ {n} ELSE members \cup {n}
  /\ count' = [count EXCEPT !.events = @ + 1]
  /\ UNCHANGED <<leader, up>> /\ Track

Down ==
  /\ Eventful
  /\ \E n \in up : up' = up \ {n}
  /\ count' = [count EXCEPT !.events = @ + 1]
  /\ UNCHANGED <<leader, members>> /\ Track

Up ==
  /\ Eventful
  /\ \E n \in Nodes \ up : up' = up \cup {n}
  /\ count' = [count EXCEPT !.events = @ + 1]
  /\ UNCHANGED <<leader, members>> /\ Track

-----------------------------------------------------------------------------
\* A cluster whose data is where the router would have put it.
Init ==
  /\ leader = [sh \in Shards |-> None]
  /\ members \in Memberships /\ up = Nodes
  /\ home = [sh \in Shards |-> {ShardOwner(sh)}]
  /\ \E held \in Holdings :
       /\ due = [id \in Ids |-> {held[id]}]
       /\ store = [n \in Nodes |-> [id \in Ids |->
                     IF n = ShardOwner(ShardFor[id]) THEN held[id] ELSE Absent]]
  /\ late = {} /\ closed = FALSE
  /\ w = NoWrite
  /\ s = NoSearch
  /\ since = [sh \in Shards |-> FALSE]
  /\ count = [calls |-> 0, events |-> 0]

\* The steps of the goroutines; each runs on until it has reported.
WriteStep == WriteReturn \/ \E sh \in Shards : WriteResolve(sh) \/ WriteAnswered(sh) \/ WriteRefused(sh)
SearchStep ==
  \/ SearchReturn
  \/ \E sh \in Shards : \/ SearchResolve(sh) \/ SearchNoOwner(sh) \/ SearchStops(sh)
                        \/ SearchAnswered(sh) \/ SearchRefused(sh)

Next ==
  \/ Insert \/ InsertBatch \/ Delete \/ Search
  \/ WriteStep \/ SearchStep
  \/ \E sh \in Shards : WriteGivenUp(sh) \/ SearchLost(sh)
  \/ LateWrite \/ Cancel \/ Close
  \/ SetShardLeader \/ Refresh \/ Down \/ Up

Spec == Init /\ [][Next]_vars /\ WF_vars(WriteStep) /\ WF_vars(SearchStep)

-----------------------------------------------------------------------------
Pcs == {"none", "resolve", "rpc", "ok", "err"}
Items == [id : Ids, score : Scores \cup {Absent}]

\* A write that returned nil is in place, all parts of it, and a retry after
\* an error leaves what one write would have (router.go:145): while a shard
\* has had one owner, the owner holds for each id the value of the last write
\* that returned nil, or of one that failed after it or was still on its way
\* when it began.
NilMeansWritten ==
  w.pc = "idle" =>
    \A id \in Ids, n \in Nodes : home[ShardFor[id]] = {n} => store[n][id] \in due[id]

\* Search, router.go:241: as long as every shard has had one owner and no
\* node has owned two, and nothing was written meanwhile, the result is the
\* best topK of what the shards that answered hold, with no id twice; and it
\* is empty if no shard answered.
OneShardEach ==
  /\ \A sh \in Shards : Cardinality(home[sh]) = 1
  /\ \A a, b \in Shards : a # b => home[a] # home[b]
Merged ==
  s.pc = "done" /\ s.quiet /\ OneShardEach =>
    LET answered == UNION {home[sh] : sh \in Shards \ s.failed}
        got == {Put(m.id, m.score) : m \in s.result}
    IN /\ Cardinality(got) = Cardinality(s.result)
       /\ got \in Best(UNION {Held(n) : n \in answered}, s.topK)

\* searchAttempts, router.go:236: a shard whose owner has been one live node
\* ever since its first try failed is not among the failed ones, unless the
\* caller cancelled.
RetryReachesTheOwner ==
  s.pc = "done" /\ ~s.cancelled => \A sh \in s.failed : ~since[sh]

\* Search and InsertBatch return: no goroutine, and no collector, waits for
\* an answer nobody sends.
CallsReturn ==
  /\ (w.pc = "running") ~> (w.pc = "idle")
  /\ (s.pc = "running") ~> (s.pc = "done")
=============================================================================
