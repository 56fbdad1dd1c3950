---------------------------- MODULE Replication ----------------------------
(***************************************************************************)
(* Replication of one shard (internal/cluster/replication over             *)
(* Engine.OpenWALForReplication, OpenSnapshot, LoadSnapshot,               *)
(* ApplyReplicated and wal.FollowOpened): each follower keeps a connection *)
(* to the leader, over which the leader streams its log file while it is   *)
(* appended to and rotated, after a snapshot where the follower's log does *)
(* not continue into its own.                                              *)
(*                                                                         *)
(* An engine is the sequence of records it has applied; base says how many *)
(* of them its log file no longer has.  A checksum identifies a record.    *)
(* Who is leader is decided elsewhere.                                     *)
(***************************************************************************)
EXTENDS Naturals, Sequences

CONSTANTS
  Nodes, Values,
  None,          \* "no checksum", "no follower"
  MaxLog,        \* bound: records in one log
  MaxSnaps,      \* bound: snapshots taken on their own account
  MaxDrops,      \* bound: connections lost, crashes
  MaxFailovers   \* bound: changes of leader

ASSUME NodesAssumption == Nodes # {} /\ None \notin Nodes
ASSUME NoneAssumption == None \notin Nat

VARIABLES
  leader,
  log,      \* per node: the records in its snapshot and its log file
  acked,    \* per node: e.seq, the records applied
  base,     \* per node: the records rotated out of its log file
  snapSeq,  \* per node: e.snapshotSeq
  snap,     \* per node: the snapshot in progress under snapMu
  conn,     \* per follower: the leader's side of its connection
  chan,     \* per follower: messages on their way to it
  follow,   \* per follower: where its Follow call is
  lapses,   \* history, see Accept and OpenFile
  snaps, drops, failovers

engines == <<log, acked, base, snapSeq, snap>>
streams == <<conn, chan, follow>>
counters == <<snaps, drops, failovers>>
vars == <<leader, engines, streams, lapses, counters>>

Followers == Nodes \ {leader}

Idle == [pc |-> "idle", seq |-> 0, for |-> None]
NoFile == [base |-> 0, end |-> None]   \* end: None while it is the live log
NoConn == [pc |-> "none", seq |-> 0, sum |-> None, file |-> NoFile, pos |-> 0]

Init ==
  /\ leader = CHOOSE n \in Nodes : TRUE   \* they start alike
  /\ log = [n \in Nodes |-> <<>>]
  /\ acked = [n \in Nodes |-> 0] /\ base = [n \in Nodes |-> 0] /\ snapSeq = base
  /\ snap = [n \in Nodes |-> Idle]
  /\ conn = [n \in Nodes |-> NoConn]
  /\ chan = [n \in Nodes |-> <<>>]
  /\ follow = [n \in Nodes |-> "idle"]
  /\ lapses = {}
  /\ snaps = 0 /\ drops = 0 /\ failovers = 0

\* RecordSum: the checksum of record n, if node's log file still has it.
RecordSum(node, n) ==
  IF base[node] < n /\ n <= Len(log[node]) THEN log[node][n] ELSE None

-----------------------------------------------------------------------------
(* The leader's own writes and every node's snapshots. *)

\* A record reaches the file, where a stream can read it, before the fsync.
Write ==
  /\ acked[leader] = Len(log[leader]) /\ Len(log[leader]) < MaxLog
  /\ \E v \in Values : log' = [log EXCEPT ![leader] = Append(@, v)]
  /\ UNCHANGED <<leader, acked, base, snapSeq, snap, streams, lapses, counters>>

Commit ==
  /\ acked[leader] < Len(log[leader])
  /\ acked' = [acked EXCEPT ![leader] = Len(log[leader])]
  /\ UNCHANGED <<leader, log, base, snapSeq, snap, streams, lapses, counters>>

\* snapshotLocked, begun by a timer or for a follower.
Capture(n, f) ==
  /\ snap[n].pc = "idle" /\ acked[n] = Len(log[n])
  /\ snap' = [snap EXCEPT ![n] = [pc |-> "captured", seq |-> acked[n], for |-> f]]

TakeSnapshot(n) ==
  /\ snaps < MaxSnaps
  /\ snaps' = snaps + 1
  /\ Capture(n, None)
  /\ UNCHANGED <<leader, log, acked, base, snapSeq, streams, lapses, drops, failovers>>

\* A stream of n that still reads the live file keeps it, under no name.
Detached(n, c) ==
  IF n = leader /\ c.pc \in {"read", "stat"} /\ c.file.end = None
  THEN [c EXCEPT !.file.end = Len(log[n])] ELSE c

\* rotateWALLocked; for a follower, OpenSnapshot then sends what it saved.
Rotate(n) ==
  LET s == snap[n] IN
  /\ s.pc = "captured" /\ acked[n] = Len(log[n])
  /\ base' = [base EXCEPT ![n] = s.seq] /\ snapSeq' = [snapSeq EXCEPT ![n] = s.seq]
  /\ snap' = [snap EXCEPT ![n] = Idle]
  /\ conn' = [f \in Nodes |->
       IF f = s.for /\ conn[f].pc = "snapshot"
       THEN [conn[f] EXCEPT !.pc = "open", !.seq = s.seq]
       ELSE Detached(n, conn[f])]
  /\ chan' = IF s.for # None /\ conn[s.for].pc = "snapshot"
             THEN [chan EXCEPT ![s.for] =
                     Append(@, [type |-> "S", body |-> SubSeq(log[n], 1, s.seq)])]
             ELSE chan
  /\ UNCHANGED <<leader, log, acked, follow, lapses, counters>>

-----------------------------------------------------------------------------
(* The follower's opening message and the leader's answer. *)

\* Follow: dial, and send the last sequence number with its checksum.
Dial(f) ==
  /\ f \in Followers /\ follow[f] = "idle"
  /\ follow' = [follow EXCEPT ![f] = "marker"]
  /\ conn' = [conn EXCEPT ![f] =
       [NoConn EXCEPT !.pc = "accept", !.seq = acked[f], !.sum = RecordSum(f, acked[f])]]
  /\ UNCHANGED <<leader, engines, chan, lapses, counters>>

\* The follower's log ends where the leader's file can continue it.
Resumes(c) ==
  /\ snapSeq[leader] <= c.seq /\ c.seq <= acked[leader]
  /\ c.seq = 0 \/ (c.sum # None /\ c.sum = RecordSum(leader, c.seq))

\* Mutant: only the sequence numbers are compared.
AcceptBySeq(f) ==
  LET c == conn[f] IN
  /\ c.pc = "accept" /\ snap[leader].pc = "idle"
  /\ \/ /\ snapSeq[leader] <= c.seq /\ c.seq <= acked[leader]
        /\ conn' = [conn EXCEPT ![f] =
             [c EXCEPT !.pc = "read", !.file = [base |-> base[leader], end |-> None],
                       !.pos = base[leader]]]
        /\ chan' = [chan EXCEPT ![f] = Append(@, [type |-> "N"])]
     \/ /\ ~(snapSeq[leader] <= c.seq /\ c.seq <= acked[leader])
        /\ conn' = [conn EXCEPT ![f].pc = "resync"]
        /\ UNCHANGED chan
  /\ UNCHANGED <<leader, engines, follow, lapses, counters>>

\* OpenWALForReplication, under snapMu. Only the last record is compared: two
\* logs that differ earlier and agree there pass for one.
Accept(f) ==
  LET c == conn[f] IN
  /\ c.pc = "accept" /\ snap[leader].pc = "idle"
  /\ \/ /\ Resumes(c)
        /\ conn' = [conn EXCEPT ![f] =
             [c EXCEPT !.pc = "read", !.file = [base |-> base[leader], end |-> None],
                       !.pos = base[leader]]]
        /\ chan' = [chan EXCEPT ![f] = Append(@, [type |-> "N"])]
        /\ lapses' = IF SubSeq(log[f], 1, c.seq) = SubSeq(log[leader], 1, c.seq)
                     THEN lapses ELSE lapses \cup {"sameLastRecord"}
     \/ /\ ~Resumes(c)
        /\ conn' = [conn EXCEPT ![f].pc = "resync"]
        /\ UNCHANGED <<chan, lapses>>
  /\ UNCHANGED <<leader, engines, follow, counters>>

\* OpenSnapshot takes a fresh snapshot first.
Resync(f) ==
  /\ conn[f].pc = "resync"
  /\ Capture(leader, f)
  /\ conn' = [conn EXCEPT ![f].pc = "snapshot"]
  /\ UNCHANGED <<leader, log, acked, base, snapSeq, chan, follow, lapses, counters>>

-----------------------------------------------------------------------------
(* wal.FollowOpened on the leader. *)

\* The live log is opened by its path. If it was rotated past what has been
\* sent, the records in between are in no file the stream reads.
OpenFile(f) ==
  /\ conn' = [conn EXCEPT ![f] =
       [@ EXCEPT !.pc = "read", !.file = [base |-> base[leader], end |-> None],
                 !.pos = base[leader]]]
  /\ lapses' = IF base[leader] > conn[f].seq THEN lapses \cup {"gap"} ELSE lapses

\* serveConn opens it once the snapshot has been sent.
OpenAfterSnapshot(f) ==
  /\ conn[f].pc = "open"
  /\ OpenFile(f)
  /\ UNCHANGED <<leader, engines, chan, follow, counters>>

FileEnd(c) == IF c.file.end = None THEN Len(log[leader]) ELSE c.file.end

\* One complete frame; those at or below fromSeq are passed over.
ReadFrame(f) ==
  LET c == conn[f]  n == c.pos + 1 IN
  /\ c.pc = "read" /\ c.pos < FileEnd(c)
  /\ conn' = [conn EXCEPT ![f].pos = n, ![f].seq = IF n > @ THEN n ELSE @]
  /\ chan' = IF n > c.seq
             THEN [chan EXCEPT ![f] = Append(@, [type |-> "R", seq |-> n, val |-> log[leader][n]])]
             ELSE chan
  /\ UNCHANGED <<leader, engines, follow, lapses, counters>>

\* ReadAt finds the end of the file...
ReadEnd(f) ==
  /\ conn[f].pc = "read" /\ conn[f].pos = FileEnd(conn[f])
  /\ conn' = [conn EXCEPT ![f].pc = "stat"]
  /\ UNCHANGED <<leader, engines, chan, follow, lapses, counters>>

\* Mutant: the open descriptor is all there is.
StatForgets(f) ==
  /\ conn[f].pc = "stat"
  /\ conn' = [conn EXCEPT ![f].pc = "read"]
  /\ UNCHANGED <<leader, engines, chan, follow, lapses, counters>>

\* ... and Stat whether it still is the log; if not, the new one is opened.
Stat(f) ==
  /\ conn[f].pc = "stat"
  /\ IF conn[f].file.end = None
     THEN conn' = [conn EXCEPT ![f].pc = "read"] /\ UNCHANGED lapses
     ELSE OpenFile(f)
  /\ UNCHANGED <<leader, engines, chan, follow, counters>>

-----------------------------------------------------------------------------
(* Follow on the follower. *)

Closed(f) ==
  /\ conn' = [conn EXCEPT ![f] = NoConn]
  /\ chan' = [chan EXCEPT ![f] = <<>>]
  /\ follow' = [follow EXCEPT ![f] = "idle"]

Took(f, state) ==
  /\ chan' = [chan EXCEPT ![f] = Tail(@)]
  /\ follow' = [follow EXCEPT ![f] = state]
  /\ UNCHANGED conn

NoSnapshot(f) ==
  /\ follow[f] = "marker" /\ chan[f] # <<>> /\ Head(chan[f]).type = "N"
  /\ Took(f, "stream")
  /\ UNCHANGED <<leader, engines, lapses, counters>>

\* LoadSnapshot replaces everything (see SnapshotInstall).
Install(f) ==
  /\ follow[f] = "marker" /\ chan[f] # <<>> /\ Head(chan[f]).type = "S"
  /\ snap[f].pc = "idle"
  /\ LET body == Head(chan[f]).body IN
       /\ log' = [log EXCEPT ![f] = body]
       /\ acked' = [acked EXCEPT ![f] = Len(body)]
       /\ base' = [base EXCEPT ![f] = Len(body)]
       /\ snapSeq' = [snapSeq EXCEPT ![f] = Len(body)]
  /\ Took(f, "stream")
  /\ UNCHANGED <<leader, snap, lapses, counters>>

\* ApplyReplicated; AppendRecord refuses any number but the next one, and
\* Follow then returns.
Apply(f) ==
  /\ follow[f] = "stream" /\ chan[f] # <<>>
  /\ LET m == Head(chan[f]) IN
     IF m.seq = acked[f] + 1
     THEN /\ log' = [log EXCEPT ![f] = Append(@, m.val)]
          /\ acked' = [acked EXCEPT ![f] = m.seq]
          /\ Took(f, "stream")
     ELSE Closed(f) /\ UNCHANGED <<log, acked>>
  /\ UNCHANGED <<leader, base, snapSeq, snap, lapses, counters>>

-----------------------------------------------------------------------------
(* The environment. *)

Drop(f) ==
  /\ follow[f] # "idle" /\ drops < MaxDrops
  /\ drops' = drops + 1
  /\ Closed(f)
  /\ UNCHANGED <<leader, engines, lapses, snaps, failovers>>

\* A node that stops loses its connections. It keeps every acknowledged
\* record, perhaps one that was written and never acknowledged, and perhaps
\* the snapshot it was taking, without the rotation.
Stop(n) ==
  LET lost == IF n = leader THEN Nodes ELSE {n} IN
  /\ \E k \in acked[n]..Len(log[n]) :
       /\ log' = [log EXCEPT ![n] = SubSeq(@, 1, k)]
       /\ acked' = [acked EXCEPT ![n] = k]
  /\ \/ UNCHANGED snapSeq
     \/ snap[n].pc = "captured" /\ snapSeq' = [snapSeq EXCEPT ![n] = snap[n].seq]
  /\ snap' = [snap EXCEPT ![n] = Idle]
  /\ conn' = [f \in Nodes |-> IF f \in lost THEN NoConn ELSE conn[f]]
  /\ chan' = [f \in Nodes |-> IF f \in lost THEN <<>> ELSE chan[f]]
  /\ follow' = [f \in Nodes |-> IF f \in lost THEN "idle" ELSE follow[f]]
  /\ UNCHANGED <<base, lapses>>

Restart(n) ==
  /\ drops < MaxDrops
  /\ drops' = drops + 1
  /\ Stop(n)
  /\ UNCHANGED <<leader, snaps, failovers>>

\* The leader dies and another node takes over; it comes back as a follower.
Failover ==
  /\ failovers < MaxFailovers
  /\ failovers' = failovers + 1
  /\ leader' \in Followers
  /\ Stop(leader)
  /\ UNCHANGED <<snaps, drops>>

-----------------------------------------------------------------------------
Serve(f) ==
  Accept(f) \/ Resync(f) \/ OpenAfterSnapshot(f) \/ ReadFrame(f) \/ ReadEnd(f) \/ Stat(f)
Receive(f) == NoSnapshot(f) \/ Install(f) \/ Apply(f)

Next ==
  \/ Write \/ Commit \/ Failover
  \/ \E n \in Nodes :
       \/ TakeSnapshot(n) \/ Rotate(n)
       \/ Dial(n) \/ Serve(n) \/ Receive(n) \/ Drop(n) \/ Restart(n)

\* Goroutines that can run do, and Follow is called again when it returns.
Fairness ==
  /\ WF_vars(Commit)
  /\ \A n \in Nodes :
       WF_vars(Rotate(n)) /\ WF_vars(Dial(n)) /\ WF_vars(Serve(n)) /\ WF_vars(Receive(n))

Spec == Init /\ [][Next]_vars /\ Fairness

-----------------------------------------------------------------------------
\* The first records of t are those of s.
Begins(s, t) == Len(s) <= Len(t) /\ \A i \in 1..Len(s) : s[i] = t[i]

\* Once its stream has begun a follower's log is the beginning of the
\* leader's: no record skipped, applied twice, or kept from an earlier leader,
\* whatever rotations, restarts and failovers came before.
FollowsLeader ==
  "sameLastRecord" \notin lapses =>
    \A f \in Followers : follow[f] = "stream" => Begins(log[f], log[leader])

\* When writes and failures stop, every follower ends up with the leader's
\* log, unless a rotation took records from under its stream.
CatchesUp ==
  <>(lapses # {}) \/ <>[](\A f \in Followers : log[f] = log[leader])

=============================================================================
