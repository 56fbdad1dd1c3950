---------------------------- MODULE ControlPlane ----------------------------
(***************************************************************************)
(* The cluster control plane: the topology kept by Raft (internal/cluster/ *)
(* raft), the ring each host derives from it (internal/cluster, ring) and  *)
(* the health checker (internal/cluster/health).  Joins, leaves and        *)
(* failovers are sequences of Raft proposals; they run on whichever host   *)
(* leads, beside each other, and may be cut short by an error.             *)
(*                                                                         *)
(* Raft is external: one order of committed commands, which each host      *)
(* applies in its own time; a proposal that reports an error may have been *)
(* committed all the same.                                                 *)
(***************************************************************************)
EXTENDS Naturals, Sequences, FiniteSets, SequencesExt

CONSTANTS
  Members,            \* node ids
  Hosts,              \* the members whose control plane is modelled
  None,
  Circle,             \* every member's points on the hash circle, in order
  Starts,             \* per shard: the first point at or after its hash
  ReplicationFactor, FailureThreshold, EvictThreshold,
  MaxLag,             \* bound: commands a host is behind
  MaxEvents           \* bound: an operator's joins and leaves, Raft calls that
                      \* report an error, elections, deaths and recoveries

Shards == DOMAIN Starts
Threads == {"admin", "checker"}

ASSUME ControlPlaneAssumption ==
  /\ Hosts \subseteq Members
  /\ Circle \in Seq(Members) /\ Members = ToSet(Circle)
  /\ \A s \in Shards : Starts[s] \in 1..Len(Circle)
  /\ ReplicationFactor > 0 /\ 0 < FailureThreshold /\ FailureThreshold <= EvictThreshold

VARIABLES
  lead, voters,       \* Raft: the leader and the voting members
  state, queue,       \* per host: its FSM, and the commands it has yet to apply
  ring,               \* per host: the nodes of its ring and their addresses
  notify, watch, seen,   \* per host: Watch's channel, where Watch is, what it read
  thread,             \* per host and thread: the operation in progress
  failures, failedOver,  \* per host: the checker's maps
  results,            \* per host: the probe results its tick has yet to look at
  dead,
  lapses,             \* history, see the actions that add to it
  events

raft == <<lead, voters, state, queue>>
watching == <<notify, watch, seen>>
checker == <<failures, failedOver, results>>
vars == <<raft, ring, watching, thread, checker, dead, lapses, events>>

-----------------------------------------------------------------------------
(* The replicated state machine. *)

NoState ==
  [nodes |-> {}, leader |-> [s \in Shards |-> None], replicas |-> [s \in Shards |-> {}]]

Cmd(op, n, s) == [op |-> op, node |-> n, shard |-> s]

\* FSM.Apply.
Apply(st, c) ==
  CASE c.op = "addNode" -> [st EXCEPT !.nodes = @ \cup {c.node}]
    [] c.op = "removeNode" -> [st EXCEPT !.nodes = @ \ {c.node}]
    [] c.op = "setLeader" -> [st EXCEPT !.leader[c.shard] = c.node]
    [] c.op = "addReplica" -> [st EXCEPT !.replicas[c.shard] = @ \cup {c.node}]
    [] c.op = "removeReplica" -> [st EXCEPT !.replicas[c.shard] = @ \ {c.node}]

\* What the committed commands amount to.
Committed == FoldLeft(Apply, state[lead], queue[lead])

-----------------------------------------------------------------------------
(* The ring. *)

\* The points met walking clockwise from the shard, those of nodes only.
Walk(nodes, s) ==
  SelectSeq(SubSeq(Circle, Starts[s], Len(Circle)) \o SubSeq(Circle, 1, Starts[s] - 1),
            LAMBDA n : n \in nodes)

\* OwnersOf: the first distinct nodes among them.
OwnersOf(nodes, s) ==
  LET distinct == FoldLeft(LAMBDA o, n : IF n \in ToSet(o) THEN o ELSE Append(o, n),
                           <<>>, Walk(nodes, s)) IN
  SubSeq(distinct, 1, IF ReplicationFactor < Len(distinct)
                      THEN ReplicationFactor ELSE Len(distinct))

\* Rebalance for one shard: the proposals that turn current into what the
\* ring wants.
ShardPlan(nodes, current, s) ==
  LET owners == OwnersOf(nodes, s)
      replicas == ToSet(Tail(owners))
      each(op, set) == [i \in 1..Cardinality(set) |-> Cmd(op, SetToSeq(set)[i], s)] IN
  IF owners = <<>> THEN <<>>
  ELSE (IF current.leader[s] = Head(owners) THEN <<>>
        ELSE <<Cmd("setLeader", Head(owners), s)>>)
       \o each("removeReplica", current.replicas[s] \ replicas)
       \o each("addReplica", replicas \ current.replicas[s])

Plan(nodes, current) ==
  FlattenSeq([i \in 1..Cardinality(Shards) |->
                ShardPlan(nodes, current, SetToSeq(Shards)[i])])

-----------------------------------------------------------------------------
Quiet == [pc |-> "idle", op |-> None, node |-> None, ring |-> {}, plan |-> <<>>,
          shards |-> {}]

\* The hosts and perhaps others have joined, and Cluster has just been created
\* on the hosts.
Init ==
  /\ lead = CHOOSE h \in Hosts : TRUE   \* the one that bootstrapped
  /\ voters \in {known \in SUBSET Members : Hosts \subseteq known}
  /\ state = [h \in Hosts |->
       FoldLeft(Apply, [NoState EXCEPT !.nodes = voters], Plan(voters, NoState))]
  /\ queue = [h \in Hosts |-> <<>>]
  /\ ring = [h \in Hosts |-> voters]
  /\ notify = [h \in Hosts |-> FALSE] /\ watch = [h \in Hosts |-> "off"]
  /\ seen = [h \in Hosts |-> {}]
  /\ thread = [h \in Hosts |-> [t \in Threads |-> Quiet]]
  /\ failures = [h \in Hosts |-> [n \in Members |-> 0]]
  /\ failedOver = [h \in Hosts |-> {}] /\ results = [h \in Hosts |-> {}]
  /\ dead = {} /\ lapses = {}
  /\ events = 0

Event == events < MaxEvents /\ events' = events + 1
Lapse(cond, what) == IF cond THEN {what} ELSE {}

\* Host h applies commands: its subscriber, if any, is told.
Applied(h) ==
  /\ notify' = [notify EXCEPT ![h] = watch[h] # "off"]
  /\ UNCHANGED <<watch, seen>>

\* Committed by the leader, applied there at once and by the others later.
Commit(h, c) ==
  /\ \A g \in Hosts \ {h} : Len(queue[g]) < MaxLag
  /\ state' = [state EXCEPT ![h] = Apply(FoldLeft(Apply, @, queue[h]), c)]
  /\ queue' = [g \in Hosts |-> IF g = h THEN <<>> ELSE Append(queue[g], c)]
  /\ Applied(h)

\* A follower's FSM goroutine.
ApplyNext(h) ==
  /\ queue[h] # <<>>
  /\ state' = [state EXCEPT ![h] = Apply(@, Head(queue[h]))]
  /\ queue' = [queue EXCEPT ![h] = Tail(@)]
  /\ Applied(h)
  /\ lapses' = lapses \cup Lapse(watch[h] = "off", "lateSubscribe")
  /\ UNCHANGED <<lead, voters, ring, thread, checker, dead, events>>

\* Watch has not subscribed yet, so nobody tells it of the change; or the FSM
\* of a new leader is behind, and so was what the proposal was based on.
Exposed(h) ==
  Lapse(watch[h] = "off", "lateSubscribe") \cup Lapse(queue[h] # <<>>, "behind")

\* Thread t of host h proposes c and goes on to next, or to failed on error.
Propose(h, t, c, next, failed, lapse) ==
  \/ /\ lead = h
     /\ Commit(h, c)
     /\ thread' = [thread EXCEPT ![h][t] = next]
     /\ lapses' = lapses \cup Exposed(h)
     /\ UNCHANGED events
  \/ /\ IF lead = h THEN Event ELSE UNCHANGED events
     /\ \/ /\ lead = h
           /\ Commit(h, c)
           /\ thread' = [thread EXCEPT ![h][t] = failed]
           /\ lapses' = lapses \cup {"lateCommit"} \cup Exposed(h)
        \/ /\ thread' = [thread EXCEPT ![h][t] = failed]
           /\ lapses' = lapses \cup lapse
           /\ UNCHANGED <<state, queue, watching>>

\* Raft's voters become new; a leader that is not one of them steps down.
Reconfigure(new) ==
  /\ new \cap Hosts # {}
  /\ voters' = new
  /\ IF lead \in new THEN UNCHANGED lead ELSE lead' \in new \cap Hosts

\* AddVoter or RemoveServer.
ChangeVoters(h, t, new, next, failed, lapse) ==
  \/ /\ lead = h
     /\ Reconfigure(new)
     /\ thread' = [thread EXCEPT ![h][t] = next]
     /\ UNCHANGED <<lapses, events>>
  \/ /\ IF lead = h THEN Event ELSE UNCHANGED events
     /\ thread' = [thread EXCEPT ![h][t] = failed]
     /\ \/ UNCHANGED <<lead, voters>> /\ lapses' = lapses \cup lapse
        \/ lead = h /\ Reconfigure(new) /\ lapses' = lapses \cup {"lateCommit"}

-----------------------------------------------------------------------------
(* Join, Leave and FailoverNode, step by step. *)

Goto(w, pc) == [w EXCEPT !.pc = pc]

\* An operation begins. Nothing keeps it from running beside another, which
\* may be about the same node.
Begin(h, t, next, also) ==
  LET others == {u \in Hosts \X Threads : thread[u[1]][u[2]].pc # "idle"} IN
  /\ thread' = [thread EXCEPT ![h][t] = next]
  /\ lapses' = lapses \cup also
       \cup Lapse(others # {}, "overlap")
       \cup Lapse(\E u \in others : thread[u[1]][u[2]].node = next.node, "crossed")

Operation(op, n, pc) == [Quiet EXCEPT !.pc = pc, !.op = op, !.node = n]

Join(h, n) ==
  /\ thread[h]["admin"].pc = "idle"
  /\ Event
  /\ Begin(h, "admin", Operation("join", n, "addVoter"),
           Lapse(n \in Committed.nodes, "rejoin"))
  /\ UNCHANGED <<raft, ring, watching, checker, dead>>

Leave(h, n) ==
  /\ thread[h]["admin"].pc = "idle"
  /\ Event
  /\ Begin(h, "admin", Operation("leave", n, "removeNode"), {})
  /\ UNCHANGED <<raft, ring, watching, checker, dead>>

\* Mutant: Join goes on without a vote.
AddVoterAnyway(h, t) ==
  LET w == thread[h][t] IN
  /\ w.pc = "addVoter"
  /\ ChangeVoters(h, t, voters \cup {w.node}, Goto(w, "addNode"), Goto(w, "addNode"), {})
  /\ UNCHANGED <<state, queue, ring, watching, checker, dead>>

AddVoter(h, t) ==
  LET w == thread[h][t] IN
  /\ w.pc = "addVoter"
  /\ ChangeVoters(h, t, voters \cup {w.node}, Goto(w, "addNode"), Quiet, {})
  /\ UNCHANGED <<state, queue, ring, watching, checker, dead>>

AddNode(h, t) ==
  LET w == thread[h][t] IN
  /\ w.pc = "addNode"
  /\ Propose(h, t, Cmd("addNode", w.node, None), Goto(w, "refresh"), Goto(w, "undoVoter"), {})
  /\ UNCHANGED <<lead, voters, ring, checker, dead>>

\* Join's error path; its own error is dropped. A node that was known before
\* this Join stays known and loses its vote.
UndoVoter(h, t) ==
  LET w == thread[h][t] IN
  /\ w.pc = "undoVoter"
  /\ ChangeVoters(h, t, voters \ {w.node}, Quiet, Quiet, {"unrestored"})
  /\ UNCHANGED <<state, queue, ring, watching, checker, dead>>

RemoveNode(h, t) ==
  LET w == thread[h][t] IN
  /\ w.pc = "removeNode"
  /\ Propose(h, t, Cmd("removeNode", w.node, None),
             [w EXCEPT !.pc = "removeServer", !.ring = state[h].nodes \cap {w.node}], Quiet, {})
  /\ UNCHANGED <<lead, voters, ring, checker, dead>>

RemoveServer(h, t) ==
  LET w == thread[h][t] IN
  /\ w.pc = "removeServer"
  /\ ChangeVoters(h, t, voters \ {w.node}, Goto(w, "refresh"),
                  IF w.ring = {} THEN Quiet ELSE Goto(w, "restore"), {})
  /\ UNCHANGED <<state, queue, ring, watching, checker, dead>>

\* Mutant: the node's entry is not put back.
RestoreNothing(h, t) ==
  LET w == thread[h][t] IN
  /\ w.pc = "restore"
  /\ thread' = [thread EXCEPT ![h][t] = Quiet]
  /\ UNCHANGED <<raft, ring, watching, checker, dead, lapses, events>>

\* Leave's error path puts the node's entry back.
Restore(h, t) ==
  LET w == thread[h][t] IN
  /\ w.pc = "restore"
  /\ Propose(h, t, Cmd("addNode", w.node, None), Quiet, Quiet, {"unrestored"})
  /\ UNCHANGED <<lead, voters, ring, checker, dead>>

\* Refresh reads the FSM's state ...
RefreshRead(h, t) ==
  LET w == thread[h][t] IN
  /\ w.pc = "refresh"
  /\ thread' = [thread EXCEPT ![h][t] = [w EXCEPT !.pc = "setRing", !.ring = state[h].nodes]]
  /\ UNCHANGED <<raft, ring, watching, checker, dead, lapses, events>>

\* ... and takes c.mu only to store the ring built from it. If the state has
\* changed meanwhile and Watch has dealt with that, the older ring stays.
RefreshStore(h, t) ==
  LET w == thread[h][t] IN
  /\ w.pc = "setRing"
  /\ ring' = [ring EXCEPT ![h] = w.ring]
  /\ thread' = [thread EXCEPT ![h][t] = [w EXCEPT !.pc = "plan", !.ring = {}]]
  /\ lapses' = lapses \cup Lapse(w.ring # state[h].nodes /\ ~notify[h], "overtaken")
  /\ UNCHANGED <<raft, watching, checker, dead, events>>

\* Mutant: a departure needs no rebalance.
MakePlanForJoin(h, t) ==
  LET w == thread[h][t] IN
  /\ w.pc = "plan"
  /\ thread' = [thread EXCEPT ![h][t] =
       [w EXCEPT !.pc = "propose",
                 !.plan = IF w.op = "leave" THEN <<>> ELSE Plan(ring[h], state[h])]]
  /\ UNCHANGED <<raft, ring, watching, checker, dead, lapses, events>>

\* Rebalance fixes the ring and the state it compares once, at its start. Watch
\* may have put an older ring back since Refresh.
MakePlan(h, t) ==
  LET w == thread[h][t] IN
  /\ w.pc = "plan"
  /\ thread' = [thread EXCEPT ![h][t] =
       [w EXCEPT !.pc = "propose", !.plan = Plan(ring[h], state[h])]]
  /\ lapses' = lapses \cup Lapse(ring[h] # state[h].nodes, "oldRing")
  /\ UNCHANGED <<raft, ring, watching, checker, dead, events>>

\* tick, when the Leave it called returns nil.
Forget(h, w) ==
  IF w.op = "evict"
  THEN /\ failures' = [failures EXCEPT ![h][w.node] = 0]
       /\ failedOver' = [failedOver EXCEPT ![h] = @ \ {w.node}]
       /\ UNCHANGED results
  ELSE UNCHANGED checker

Rebalance(h, t) ==
  LET w == thread[h][t] IN
  /\ w.pc = "propose"
  /\ \/ /\ w.plan # <<>>
        /\ Propose(h, t, Head(w.plan), [w EXCEPT !.plan = Tail(@)], Quiet, {"cutShort"})
        /\ UNCHANGED checker
     \/ /\ w.plan = <<>>
        /\ thread' = [thread EXCEPT ![h][t] = Quiet]
        /\ Forget(h, w)
        /\ UNCHANGED <<state, queue, watching, lapses, events>>
  /\ UNCHANGED <<lead, voters, ring, dead>>

-----------------------------------------------------------------------------
(* The health checker. *)

\* tick: the nodes of the ring are probed at once. A success that has nothing
\* to delete from the checker's maps is left out.
Probe(h) ==
  /\ lead = h /\ thread[h]["checker"].pc = "idle" /\ results[h] = {}
  /\ results' = [results EXCEPT ![h] =
       {[node |-> n, err |-> n \in dead] :
          n \in {m \in ring[h] \ {h} : m \in dead \/ failures[h][m] > 0 \/ m \in failedOver[h]}}]
  /\ results'[h] # {}
  /\ UNCHANGED <<raft, ring, watching, thread, failures, failedOver, dead, lapses, events>>

\* tick, for one result: what it leads to runs to its end before the next one
\* is looked at. The leader, the ring and the node may have changed since.
ProbeFailed(h, n) ==
  LET count == failures[h][n] + 1 IN
  /\ failures' = [failures EXCEPT ![h][n] = IF count > EvictThreshold THEN @ ELSE count]
  /\ \/ count >= EvictThreshold /\ Begin(h, "checker", Operation("evict", n, "removeNode"), {})
     \/ /\ FailureThreshold <= count /\ count < EvictThreshold /\ n \notin failedOver[h]
        /\ Begin(h, "checker",
                 [Operation("failover", n, "failover")
                    EXCEPT !.shards = {s \in Shards : state[h].leader[s] = n}], {})
     \/ /\ count < FailureThreshold \/ (count < EvictThreshold /\ n \in failedOver[h])
        /\ UNCHANGED <<thread, lapses>>
  /\ UNCHANGED failedOver

ProbeSucceeded(h, n) ==
  /\ failures' = [failures EXCEPT ![h][n] = 0]
  /\ failedOver' = [failedOver EXCEPT ![h] = @ \ {n}]
  /\ UNCHANGED <<thread, lapses>>

Result(h) ==
  /\ thread[h]["checker"].pc = "idle"
  /\ \E res \in results[h] :
       /\ results' = [results EXCEPT ![h] = @ \ {res}]
       /\ \/ res.err /\ ProbeFailed(h, res.node)
          \/ ~res.err /\ ProbeSucceeded(h, res.node)
  /\ UNCHANGED <<raft, ring, watching, dead, events>>

\* FailoverShardLeader for the next shard: which replica has applied the most
\* is for the replicas to say.
Choose(h) ==
  LET w == thread[h]["checker"] IN
  /\ w.pc = "failover" /\ w.shards # {}
  /\ \E s \in w.shards :
       LET rest == w.shards \ {s}
           candidates == state[h].replicas[s] \ {w.node}
           go(next) == thread' = [thread EXCEPT ![h]["checker"] = next] IN
       \/ state[h].leader[s] # w.node /\ go([w EXCEPT !.shards = rest])
       \/ state[h].leader[s] = w.node /\ candidates = {} /\ go(Quiet)
       \/ /\ state[h].leader[s] = w.node
          /\ \E best \in candidates :
               go([w EXCEPT !.pc = "promote", !.shards = rest, !.plan = <<Cmd("setLeader", best, s)>>])
  \* A new leader's FSM may be behind.
  /\ lapses' = lapses \cup Lapse(queue[h] # <<>>, "behind")
  /\ UNCHANGED <<raft, ring, watching, checker, dead, events>>

Promote(h) ==
  LET w == thread[h]["checker"] IN
  /\ w.pc = "promote"
  /\ Propose(h, "checker", Head(w.plan), Goto(w, "failover"), Quiet, {})
  /\ UNCHANGED <<lead, voters, ring, checker, dead>>

FailoverDone(h) ==
  LET w == thread[h]["checker"] IN
  /\ w.pc = "failover" /\ w.shards = {}
  /\ thread' = [thread EXCEPT ![h]["checker"] = Quiet]
  /\ failedOver' = [failedOver EXCEPT ![h] = @ \cup {w.node}]
  /\ UNCHANGED <<raft, ring, watching, failures, results, dead, lapses, events>>

-----------------------------------------------------------------------------
(* Watch. *)

Subscribe(h) ==
  /\ watch[h] = "off"
  /\ watch' = [watch EXCEPT ![h] = "wait"]
  /\ UNCHANGED <<raft, ring, notify, seen, thread, checker, dead, lapses, events>>

\* Watch takes the notification, and Refresh reads the state.
Wake(h) ==
  /\ watch[h] = "wait" /\ notify[h]
  /\ notify' = [notify EXCEPT ![h] = FALSE]
  /\ seen' = [seen EXCEPT ![h] = state[h].nodes]
  /\ watch' = [watch EXCEPT ![h] = "store"]
  /\ UNCHANGED <<raft, ring, thread, checker, dead, lapses, events>>

\* Mutant: the channel is emptied after the refresh, not before it.
WatchStoreDrains(h) ==
  /\ watch[h] = "store"
  /\ ring' = [ring EXCEPT ![h] = seen[h]]
  /\ watch' = [watch EXCEPT ![h] = "wait"] /\ seen' = [seen EXCEPT ![h] = {}]
  /\ notify' = [notify EXCEPT ![h] = FALSE]
  /\ UNCHANGED <<raft, thread, checker, dead, lapses, events>>

WatchStore(h) ==
  /\ watch[h] = "store"
  /\ ring' = [ring EXCEPT ![h] = seen[h]]
  /\ watch' = [watch EXCEPT ![h] = "wait"] /\ seen' = [seen EXCEPT ![h] = {}]
  /\ UNCHANGED <<raft, notify, thread, checker, dead, lapses, events>>

-----------------------------------------------------------------------------
(* The environment. *)

\* Another voter becomes leader, its FSM possibly behind.
Elect(h) ==
  /\ h \in voters \ {lead}
  /\ Event
  /\ lead' = h
  /\ UNCHANGED <<voters, state, queue, ring, watching, thread, checker, dead, lapses>>

\* A member that runs no modelled control plane dies or comes back.
Flip(n) ==
  /\ n \notin Hosts
  /\ Event
  /\ dead' = (dead \ {n}) \cup ({n} \ dead)
  /\ UNCHANGED <<raft, ring, watching, thread, checker, lapses>>

Operate(h, t) ==
  /\ thread[h][t].op \in {"join", "leave", "evict"}
  /\ \/ AddVoter(h, t) \/ AddNode(h, t) \/ UndoVoter(h, t)
     \/ RemoveNode(h, t) \/ RemoveServer(h, t) \/ Restore(h, t)
     \/ RefreshRead(h, t) \/ RefreshStore(h, t) \/ MakePlan(h, t) \/ Rebalance(h, t)
FailOver(h) ==
  /\ thread[h]["checker"].op = "failover"
  /\ Choose(h) \/ Promote(h) \/ FailoverDone(h)
Tick(h) == Probe(h) \/ Result(h)
Watch(h) == Subscribe(h) \/ Wake(h) \/ WatchStore(h)

System ==
  \E h \in Hosts :
    \/ ApplyNext(h) \/ Watch(h) \/ FailOver(h) \/ Tick(h)
    \/ \E t \in Threads : Operate(h, t)

Environment ==
  \/ \E h \in Hosts : Elect(h) \/ \E n \in Members : Join(h, n) \/ Leave(h, n)
  \/ \E n \in Members : Flip(n)

Next == System \/ Environment

Spec == Init /\ [][Next]_vars

-----------------------------------------------------------------------------
(* What the code leaves open, recorded when it happens:                    *)
(*   lateSubscribe  the topology changes between New and Watch's Subscribe *)
(*   overtaken      Refresh stores an older ring over a newer one          *)
(*   oldRing        Rebalance starts from a ring Watch has put back        *)
(*   behind         a new leader acts before its FSM has caught up         *)
(*   lateCommit     a Raft call reports an error and takes effect          *)
(*   cutShort       an error ends Rebalance halfway                        *)
(*   unrestored     an error on Join's or Leave's own error path           *)
(*   rejoin         Join of a node that is known already                   *)
(*   crossed        two operations on one node at the same time            *)
(*   overlap        two operations at the same time                        *)
(* The properties are about runs without them, except that two operations  *)
(* at the same time disturb only the last two.                             *)
Unharmed == lapses \subseteq {"overlap"}

\* Every known node is a Raft voter: Join and Leave keep to "both are needed
\* and in this order" on their error paths too. Otherwise a node would be
\* given shards and never hear of it.
KnownNodesVote == Unharmed => Committed.nodes \subseteq voters

\* A ring that differs from the host's topology is about to be rebuilt: the
\* coalesced notification never loses the last change.
RingCatchesUp ==
  Unharmed =>
    \A h \in Hosts : ring[h] # state[h].nodes =>
      notify[h] \/ (watch[h] = "store" /\ seen[h] = state[h].nodes)

AllIdle == \A h \in Hosts, t \in Threads : thread[h][t].pc = "idle"
Orphans == {s \in Shards : Committed.leader[s] \notin Committed.nodes \cup {None}}

\* Between operations every shard is led by a known node, whatever joins,
\* leaves, failovers, elections and errors there were.
NoOrphans == lapses = {} /\ AllIdle => Orphans = {}

\* Between operations every Raft voter is a known node: the error paths of Join
\* and Leave undo what came before. A voter that is not known is in no ring, so
\* the checker would never probe or evict it, dead as it may be.
VotersAreKnown == lapses = {} /\ AllIdle => voters \subseteq Committed.nodes

=============================================================================
