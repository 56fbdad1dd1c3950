---------------------------- MODULE GroupCommit ----------------------------
(***************************************************************************)
(* Group commit (Engine.group in internal/engine/engine.go): concurrent    *)
(* Insert, Delete and UpdateMetadata calls queue under qmu; one of them    *)
(* leads, commits the whole queue under mu with one fsync, answers the     *)
(* others over their done channels and hands the lead to the next waiter.  *)
(* InsertBatch commits beside them, under mu alone.                        *)
(*                                                                         *)
(* A call is one pendingOp; each critical section is one action.           *)
(***************************************************************************)
EXTENDS Naturals, Sequences

CONSTANT Calls

VARIABLES
  queue, flushing,  \* e.queue and e.flushing, under qmu
  pc,               \* where each call is
  done,             \* what is in each pendingOp's done channel, capacity 1
  group,            \* the group a leader took, then its calls still to answer
  err,              \* a leader's commit result, then each call's return value
  log,              \* the calls committed successfully, in log order
  sends             \* history: values ever sent on each done channel

vars == <<queue, flushing, pc, done, group, err, log, sends>>

Results == {"ok", "error"}
Messages == {"lead"} \cup Results

Init ==
  /\ queue = <<>> /\ flushing = FALSE /\ log = <<>>
  /\ pc = [c \in Calls |-> "idle"]
  /\ done = [c \in Calls |-> <<>>]
  /\ group = [c \in Calls |-> <<>>]
  /\ err = [c \in Calls |-> "none"]
  /\ sends = [c \in Calls |-> 0]

\* A value put into q's channel: the sender blocks while it is full.
Send(q, v) ==
  /\ done[q] = <<>>
  /\ done' = [done EXCEPT ![q] = <<v>>]
  /\ sends' = [sends EXCEPT ![q] = @ + 1]

\* Mutant: flushing is set after qmu is released, so two calls can lead.
EnqueueUnmarked(c) ==
  /\ pc[c] = "idle"
  /\ queue' = Append(queue, c)
  /\ pc' = [pc EXCEPT ![c] = IF flushing THEN "wait" ELSE "lead"]
  /\ UNCHANGED <<flushing, done, group, err, log, sends>>

Enqueue(c) ==
  /\ pc[c] = "idle"
  /\ queue' = Append(queue, c)
  /\ pc' = [pc EXCEPT ![c] = IF flushing THEN "wait" ELSE "lead"]
  /\ flushing' = TRUE
  /\ UNCHANGED <<done, group, err, log, sends>>

Receive(c) ==
  /\ pc[c] = "wait" /\ done[c] # <<>>
  /\ done' = [done EXCEPT ![c] = <<>>]
  /\ \/ Head(done[c]) = "lead" /\ pc' = [pc EXCEPT ![c] = "lead"] /\ UNCHANGED err
     \/ /\ Head(done[c]) \in Results
        /\ pc' = [pc EXCEPT ![c] = "returned"]
        /\ err' = [err EXCEPT ![c] = Head(done[c])]
  /\ UNCHANGED <<queue, flushing, group, log, sends>>

TakeQueue(c) ==
  /\ pc[c] = "lead"
  /\ group' = [group EXCEPT ![c] = queue]
  /\ queue' = <<>>
  /\ pc' = [pc EXCEPT ![c] = "commit"]
  /\ UNCHANGED <<flushing, done, err, log, sends>>

\* commitLocked under mu; an error leaves nothing applied.
Commit(c) ==
  /\ pc[c] = "commit"
  /\ \E r \in Results :
       /\ err' = [err EXCEPT ![c] = r]
       /\ log' = IF r = "ok" THEN log \o group[c] ELSE log
  /\ pc' = [pc EXCEPT ![c] = "notify"]
  /\ UNCHANGED <<queue, flushing, done, group, sends>>

\* Mutant: the leader answers itself too.
NotifyEveryone(c) ==
  /\ pc[c] = "notify" /\ group[c] # <<>>
  /\ Send(Head(group[c]), err[c])
  /\ group' = [group EXCEPT ![c] = Tail(@)]
  /\ UNCHANGED <<queue, flushing, pc, err, log>>

\* One iteration of the loop that answers the group.
Notify(c) ==
  /\ pc[c] = "notify" /\ group[c] # <<>>
  /\ IF Head(group[c]) = c THEN UNCHANGED <<done, sends>> ELSE Send(Head(group[c]), err[c])
  /\ group' = [group EXCEPT ![c] = Tail(@)]
  /\ UNCHANGED <<queue, flushing, pc, err, log>>

\* Mutant: calls that queued during the commit are left to themselves.
HandOffNobody(c) ==
  /\ pc[c] = "notify" /\ group[c] = <<>>
  /\ flushing' = FALSE
  /\ pc' = [pc EXCEPT ![c] = "returned"]
  /\ UNCHANGED <<queue, done, group, err, log, sends>>

HandOff(c) ==
  /\ pc[c] = "notify" /\ group[c] = <<>>
  /\ \/ queue = <<>> /\ flushing' = FALSE /\ UNCHANGED <<done, sends>>
     \/ queue # <<>> /\ Send(Head(queue), "lead") /\ UNCHANGED flushing
  /\ pc' = [pc EXCEPT ![c] = "returned"]
  /\ UNCHANGED <<queue, group, err, log>>

\* InsertBatch: its own records, its own commit, under mu.
Batch(c) ==
  /\ pc[c] = "idle"
  /\ \E r \in Results :
       /\ err' = [err EXCEPT ![c] = r]
       /\ log' = IF r = "ok" THEN Append(log, c) ELSE log
  /\ pc' = [pc EXCEPT ![c] = "returned"]
  /\ UNCHANGED <<queue, flushing, done, group, sends>>

\* What a call that was made does next.
Step(c) == Receive(c) \/ TakeQueue(c) \/ Commit(c) \/ Notify(c) \/ HandOff(c)

Next == \E c \in Calls : Enqueue(c) \/ Batch(c) \/ Step(c)

Safe == Init /\ [][Next]_vars

\* A goroutine that can run is eventually scheduled; sync.Mutex does not
\* starve a waiter.
Spec == Safe /\ \A c \in Calls : WF_vars(Step(c))

-----------------------------------------------------------------------------
\* Every variable has its type, and no channel holds more than one value.
TypeOK ==
  /\ queue \in Seq(Calls) /\ flushing \in BOOLEAN /\ log \in Seq(Calls)
  /\ pc \in [Calls -> {"idle", "wait", "lead", "commit", "notify", "returned"}]
  /\ done \in [Calls -> {<<>>} \cup {<<m>> : m \in Messages}]
  /\ group \in [Calls -> Seq(Calls)]
  /\ err \in [Calls -> {"none"} \cup Results]
  /\ sends \in [Calls -> Nat]

Leading == {c \in Calls : pc[c] \in {"lead", "commit", "notify"} \/ done[c] = <<"lead">>}

\* While somebody flushes exactly one call leads, counting the one the lead
\* is on its way to, and otherwise nobody does and every waiter has its answer: groups are
\* committed one after another and no call is stranded in the queue.
OneLeader ==
  IF flushing THEN \E c \in Calls : Leading = {c}
  ELSE Leading = {} /\ queue = <<>> /\ \A c \in Calls : pc[c] = "wait" => done[c] # <<>>

\* "buffered, receives exactly one value": no call is sent a second value, so
\* no sender ever blocks on a done channel, and a returned waiter got its one.
OneValue ==
  /\ \A c \in Calls : sends[c] <= 1
  /\ \A c \in Calls : pc[c] = "notify" /\ group[c] # <<>> =>
       LET q == Head(group[c]) IN q = c \/ (pc[q] = "wait" /\ sends[q] = 0)

-----------------------------------------------------------------------------
(* Group commit implements OrderedWrites. *)

\* The group being committed is still undecided, ahead of the queue.
Undecided == {c \in Calls : pc[c] = "commit"}
WaitingBar ==
  IF Undecided = {} THEN queue
  ELSE group[CHOOSE c \in Undecided : TRUE] \o queue

\* A call is decided when its leader's commit returns.
Decider(c) ==
  {l \in Calls : pc[l] = "notify" /\ (l = c \/ \E i \in 1..Len(group[l]) : group[l][i] = c)}
OutcomeBar ==
  [c \in Calls |->
     CASE pc[c] = "idle" -> "idle"
       [] pc[c] = "returned" -> err[c]
       [] done[c] \in {<<r>> : r \in Results} -> Head(done[c])
       [] Decider(c) # {} -> err[CHOOSE l \in Decider(c) : TRUE]
       [] OTHER -> "waiting"]

Promise ==
  INSTANCE OrderedWrites WITH
    waiting <- WaitingBar, outcome <- OutcomeBar,
    returned <- {c \in Calls : pc[c] = "returned"}

\* Every call is decided exactly once, in arrival order, before it returns,
\* and every call that was made returns.
KeepsPromise == Promise!Spec
=============================================================================
