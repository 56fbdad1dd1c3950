------------------------- MODULE ReplicationProofs -------------------------
(***************************************************************************)
(* Proofs about Replication, for any number of nodes, any records and any  *)
(* bounds: once a follower's stream has begun, its log is the beginning of *)
(* the leader's.                                                           *)
(***************************************************************************)
EXTENDS Replication, TLAPS

Messages == {[type |-> "N"]} \cup [type : {"S"}, body : Seq(Values)]
              \cup [type : {"R"}, seq : Nat, val : Values]
Files == [base : Nat, end : Nat \cup {None}]
Pcs == {"none", "accept", "resync", "snapshot", "open", "read", "stat"}
Conns == [pc : Pcs, seq : Nat, sum : Values \cup {None}, file : Files, pos : Nat]
Snaps == [pc : {"idle", "captured"}, seq : Nat, for : Nodes \cup {None}]

TypeOK ==
  /\ leader \in Nodes
  /\ log \in [Nodes -> Seq(Values)] /\ acked \in [Nodes -> Nat]
  /\ base \in [Nodes -> Nat] /\ snapSeq \in [Nodes -> Nat] /\ snap \in [Nodes -> Snaps]
  /\ conn \in [Nodes -> Conns] /\ chan \in [Nodes -> Seq(Messages)]
  /\ follow \in [Nodes -> {"idle", "marker", "stream"}]

\* Only the leader has records it has not acknowledged, and a snapshot saves
\* what the log has; only the leader takes one for a follower.
EngineOK(n) ==
  /\ acked[n] <= Len(log[n]) /\ (n # leader => acked[n] = Len(log[n]))
  /\ snap[n].pc = "captured" => snap[n].seq <= Len(log[n]) /\ (snap[n].for # None => n = leader)

\* What a message holds is in the leader's log.
Sent(m) ==
  /\ m.type = "S" => Begins(m.body, log[leader])
  /\ m.type = "R" => m.seq \in 1..Len(log[leader]) /\ m.val = log[leader][m.seq]

\* Where the two ends of a connection are, and what is on the way.
Ends(f) ==
  /\ follow[f] = "idle" => conn[f].pc = "none" /\ chan[f] = <<>>
  /\ conn[f].pc \in {"accept", "resync", "snapshot"} => chan[f] = <<>> /\ follow[f] = "marker"
  /\ conn[f].pc = "accept" => conn[f].seq = acked[f]
  /\ conn[f].file.end # None => conn[f].file.end <= Len(log[leader])

\* Records follow the answer to the opening message.
Wire(f) ==
  \A i \in 1..Len(chan[f]) :
    Sent(chan[f][i]) /\ (chan[f][i].type # "R" => i = 1 /\ follow[f] = "marker")

\* A follower that was told to go on from its own log, or has begun to.
Resumed(f) == follow[f] = "stream" \/ (chan[f] # <<>> /\ chan[f][1].type = "N")

Alike == "sameLastRecord" \notin lapses

Link(f) ==
  /\ Ends(f) /\ Wire(f)
  /\ Alike /\ Resumed(f) => Begins(log[f], log[leader])

Inv ==
  /\ TypeOK
  /\ follow[leader] = "idle"
  /\ \A n \in Nodes : EngineOK(n) /\ Link(n)

-----------------------------------------------------------------------------
(* Sequences, messages and connections. *)

\* The beginnings of a sequence, and a sequence with one more element.
LEMMA SeqFacts ==
  ASSUME NEW S, NEW s \in Seq(S)
  PROVE  /\ Len(s) \in Nat
         /\ \A i \in 1..Len(s) : s[i] \in S
         /\ \A k \in 0..Len(s) : /\ SubSeq(s, 1, k) \in Seq(S) /\ Len(SubSeq(s, 1, k)) = k
                                 /\ \A i \in 1..k : SubSeq(s, 1, k)[i] = s[i]
         /\ \A e \in S : /\ Append(s, e) \in Seq(S) /\ Len(Append(s, e)) = Len(s) + 1
                         /\ \A i \in 1..Len(s) : Append(s, e)[i] = s[i]
                         /\ Append(s, e)[Len(s) + 1] = e
<1>1. Len(s) \in Nat /\ \A i \in 1..Len(s) : s[i] \in S
  OBVIOUS
<1>2. ASSUME NEW k \in 0..Len(s)
      PROVE  /\ SubSeq(s, 1, k) \in Seq(S) /\ Len(SubSeq(s, 1, k)) = k
             /\ \A i \in 1..k : SubSeq(s, 1, k)[i] = s[i]
  OBVIOUS
<1>3. ASSUME NEW e \in S
      PROVE  /\ Append(s, e) \in Seq(S) /\ Len(Append(s, e)) = Len(s) + 1
             /\ \A i \in 1..Len(s) : Append(s, e)[i] = s[i]
             /\ Append(s, e)[Len(s) + 1] = e
  OBVIOUS
<1> QED
  BY Zenon, <1>1, <1>2, <1>3

\* The rest of a sequence.
LEMMA TailFacts ==
  ASSUME NEW S, NEW s \in Seq(S), s # <<>>
  PROVE  /\ Len(s) \in Nat \ {0} /\ Head(s) = s[1] /\ s[1] \in S
         /\ Tail(s) \in Seq(S) /\ Len(Tail(s)) = Len(s) - 1
         /\ \A i \in 1..Len(Tail(s)) : Tail(s)[i] = s[i + 1] /\ i + 1 \in 1..Len(s) /\ i + 1 # 1
<1>1. Len(s) \in Nat \ {0} /\ Head(s) = s[1] /\ s[1] \in S
  OBVIOUS
<1>2. Tail(s) \in Seq(S) /\ Len(Tail(s)) = Len(s) - 1
  OBVIOUS
<1>3. ASSUME NEW i \in 1..Len(Tail(s))
      PROVE  Tail(s)[i] = s[i + 1] /\ i + 1 \in 1..Len(s) /\ i + 1 # 1
  BY <1>1, <1>2
<1> QED
  BY Zenon, <1>1, <1>2, <1>3

\* What is in a message.
LEMMA MessageTypes ==
  ASSUME NEW m \in Messages
  PROVE  /\ m.type \in {"N", "S", "R"}
         /\ m.type = "S" => m.body \in Seq(Values)
         /\ m.type = "R" => m.seq \in Nat /\ m.val \in Values
BY DEF Messages

\* What is in a connection.
LEMMA ConnTypes ==
  ASSUME NEW c \in Conns
  PROVE  /\ c.pc \in Pcs /\ c.seq \in Nat /\ c.pos \in Nat /\ c.file \in Files
         /\ c.file.end \in Nat \cup {None}
         /\ \A p \in Pcs : [c EXCEPT !.pc = p] \in Conns
         /\ \A e \in Nat : [c EXCEPT !.file.end = e] \in Conns
<1>1. c.pc \in Pcs /\ c.seq \in Nat /\ c.pos \in Nat /\ c.file \in Files
  BY Zenon DEF Conns
<1>2. c.file.end \in Nat \cup {None}
  BY Zenon, <1>1 DEF Files
<1>3. \A p \in Pcs : [c EXCEPT !.pc = p] \in Conns
  BY Zenon DEF Conns
<1>4. \A e \in Nat : [c EXCEPT !.file.end = e] \in Conns
  BY Zenon, <1>1 DEF Conns, Files
<1> QED
  BY Zenon, <1>1, <1>2, <1>3, <1>4

\* A connection that was never opened, or is closed.
LEMMA NoConnType ==
  /\ NoConn \in Conns /\ NoConn.pc = "none" /\ NoConn.file.end = None
  /\ Idle \in Snaps /\ Idle.pc = "idle"
BY Zenon DEF NoConn, NoFile, Conns, Files, Pcs, Idle, Snaps

-----------------------------------------------------------------------------
(* Types. *)

\* The types at the start.
LEMMA TypeInit == Init => TypeOK
<1> SUFFICES ASSUME Init PROVE TypeOK
  BY Zenon
<1>1. leader \in Nodes
  BY Zenon, NodesAssumption DEF Init
<1> QED
  BY <1>1, NoConnType DEF Init, TypeOK

\* A snapshot begins.
LEMMA TypeCapture ==
  ASSUME TypeOK, NEW n \in Nodes, NEW f \in Nodes \cup {None}, Capture(n, f)
  PROVE  snap' \in [Nodes -> Snaps]
BY Zenon DEF TypeOK, Capture, Snaps

\* A connection is closed.
LEMMA TypeClosed ==
  ASSUME TypeOK, NEW f \in Nodes, Closed(f)
  PROVE  /\ conn' \in [Nodes -> Conns] /\ chan' \in [Nodes -> Seq(Messages)]
         /\ follow' \in [Nodes -> {"idle", "marker", "stream"}]
BY SMTT(60), NoConnType DEF TypeOK, Closed

\* A message is taken.
LEMMA TypeTook ==
  ASSUME TypeOK, NEW f \in Nodes, chan[f] # <<>>, Took(f, "stream")
  PROVE  /\ conn' \in [Nodes -> Conns] /\ chan' \in [Nodes -> Seq(Messages)]
         /\ follow' \in [Nodes -> {"idle", "marker", "stream"}]
<1>1. Tail(chan[f]) \in Seq(Messages)
  BY Zenon, TailFacts DEF TypeOK
<1> QED
  BY SMTT(60), <1>1 DEF TypeOK, Took

\* A node stops.
LEMMA TypeStop ==
  ASSUME TypeOK, NEW n \in Nodes, Stop(n)
  PROVE  /\ log' \in [Nodes -> Seq(Values)] /\ acked' \in [Nodes -> Nat]
         /\ base' \in [Nodes -> Nat] /\ snapSeq' \in [Nodes -> Nat] /\ snap' \in [Nodes -> Snaps]
         /\ conn' \in [Nodes -> Conns] /\ chan' \in [Nodes -> Seq(Messages)]
         /\ follow' \in [Nodes -> {"idle", "marker", "stream"}]
<1>1. PICK k \in acked[n]..Len(log[n]) :
        log' = [log EXCEPT ![n] = SubSeq(log[n], 1, k)] /\ acked' = [acked EXCEPT ![n] = k]
  BY Zenon DEF Stop
<1>2. k \in Nat /\ k \in 0..Len(log[n]) /\ log[n] \in Seq(Values)
  BY SMTT(60) DEF TypeOK
<1>3. SubSeq(log[n], 1, k) \in Seq(Values)
  BY Zenon, <1>2, SeqFacts
<1>4. log' \in [Nodes -> Seq(Values)] /\ acked' \in [Nodes -> Nat]
  BY SMTT(60), <1>1, <1>2, <1>3 DEF TypeOK
<1>5. base' \in [Nodes -> Nat] /\ snapSeq' \in [Nodes -> Nat]
  BY Zenon DEF Stop, TypeOK, Snaps
<1>6. snap' \in [Nodes -> Snaps]
  BY Zenon, NoConnType DEF Stop, TypeOK
<1>7. conn' \in [Nodes -> Conns]
  BY Zenon, NoConnType DEF Stop, TypeOK
<1>8. chan' \in [Nodes -> Seq(Messages)]
  BY DEF Stop, TypeOK
<1>9. follow' \in [Nodes -> {"idle", "marker", "stream"}]
  BY Zenon DEF Stop, TypeOK
<1> QED
  BY SMTT(60), <1>4, <1>5, <1>6, <1>7, <1>8, <1>9

\* The log is opened for a stream.
LEMMA TypeOpened ==
  ASSUME NEW c \in Conns, NEW b \in Nat
  PROVE  [c EXCEPT !.pc = "read", !.file = [base |-> b, end |-> None], !.pos = b] \in Conns
BY Zenon DEF Conns, Files, Pcs

\* The live log is opened by its path.
LEMMA TypeOpenFile ==
  ASSUME TypeOK, NEW f \in Nodes, OpenFile(f)
  PROVE  conn' \in [Nodes -> Conns]
<1>1. conn[f] \in Conns /\ base[leader] \in Nat
  BY Zenon DEF TypeOK
<1> QED
  BY Zenon, <1>1, TypeOpened DEF TypeOK, OpenFile

\* A snapshot ends.
LEMMA TypeRotate ==
  ASSUME TypeOK, NEW n \in Nodes, EngineOK(n), Rotate(n)
  PROVE  TypeOK'
<1>1. snap[n] \in Snaps /\ snap[n].seq \in Nat /\ snap[n].for \in Nodes \cup {None}
      /\ log[n] \in Seq(Values) /\ Len(log[n]) \in Nat /\ snap[n].seq \in 0..Len(log[n])
  <2>1. snap[n] \in Snaps /\ log[n] \in Seq(Values)
    BY Zenon DEF TypeOK
  <2>2. snap[n].seq \in Nat /\ snap[n].for \in Nodes \cup {None} /\ Len(log[n]) \in Nat
    BY <2>1 DEF Snaps
  <2>3. snap[n].seq <= Len(log[n])
    BY Zenon DEF Rotate, EngineOK
  <2> QED
    BY <2>1, <2>2, <2>3
<1>2. /\ base' \in [Nodes -> Nat] /\ snapSeq' \in [Nodes -> Nat] /\ snap' \in [Nodes -> Snaps]
      /\ UNCHANGED <<leader, log, acked, follow>>
  BY Zenon, <1>1, NoConnType DEF Rotate, TypeOK
<1>3. \A f \in Nodes : Detached(n, conn[f]) \in Conns
  BY SMTT(60), <1>1, ConnTypes DEF Detached, TypeOK
<1>4. \A f \in Nodes : [conn[f] EXCEPT !.pc = "open", !.seq = snap[n].seq] \in Conns
  BY ZenonT(60), <1>1 DEF TypeOK, Conns, Pcs
<1>5. conn' \in [Nodes -> Conns]
  BY Zenon, <1>3, <1>4 DEF Rotate
<1>6. [type |-> "S", body |-> SubSeq(log[n], 1, snap[n].seq)] \in Messages
  <2>1. SubSeq(log[n], 1, snap[n].seq) \in Seq(Values)
    BY Zenon, <1>1, SeqFacts
  <2> QED
    BY Zenon, <2>1 DEF Messages
<1>7. chan' \in [Nodes -> Seq(Messages)]
  <2>1. CASE snap[n].for \in Nodes
    <3>1. Append(chan[snap[n].for], [type |-> "S", body |-> SubSeq(log[n], 1, snap[n].seq)])
            \in Seq(Messages)
      BY <1>6, <2>1 DEF TypeOK
    <3> QED
      BY Zenon, <2>1, <3>1 DEF Rotate, TypeOK
  <2>2. CASE snap[n].for = None
    BY Zenon, <2>2 DEF Rotate, TypeOK
  <2> QED
    BY Zenon, <1>1, <2>1, <2>2
<1> QED
  BY Zenon, <1>2, <1>5, <1>7 DEF TypeOK

\* The leader answers the opening message, or sends a record.
LEMMA TypeServe ==
  ASSUME TypeOK, NEW f \in Nodes, Serve(f), Ends(f)
  PROVE  TypeOK'
<1>0. /\ conn[f] \in Conns /\ base[leader] \in Nat /\ chan[f] \in Seq(Messages)
      /\ conn[f].pc \in Pcs /\ conn[f].seq \in Nat /\ conn[f].pos \in Nat
      /\ \A p \in Pcs : [conn[f] EXCEPT !.pc = p] \in Conns
      /\ conn[f].file.end \in Nat \cup {None}
  BY Zenon, ConnTypes DEF TypeOK
<1>1. CASE Accept(f)
  <2>1. [conn[f] EXCEPT !.pc = "read", !.file = [base |-> base[leader], end |-> None],
                        !.pos = base[leader]] \in Conns
    BY Zenon, <1>0, TypeOpened
  <2>2. Append(chan[f], [type |-> "N"]) \in Seq(Messages) /\ "resync" \in Pcs
    BY <1>0 DEF Messages, Pcs
  <2>3. CASE Resumes(conn[f])
    BY ZenonT(60), <1>1, <2>1, <2>2, <2>3 DEF Accept, TypeOK, engines
  <2>4. CASE ~Resumes(conn[f])
    BY Zenon, <1>0, <1>1, <2>2, <2>4 DEF Accept, TypeOK, engines
  <2> QED
    BY Zenon, <2>3, <2>4
<1>2. CASE Resync(f)
  <2>1. conn' \in [Nodes -> Conns] /\ leader \in Nodes
    BY Zenon, <1>0, <1>2 DEF Resync, TypeOK, Pcs
  <2>2. snap' \in [Nodes -> Snaps]
    BY Zenon, <1>2, <2>1, TypeCapture DEF Resync
  <2> QED
    BY SMTT(60), <1>2, <2>1, <2>2 DEF Resync, TypeOK
<1>3. CASE OpenAfterSnapshot(f)
  BY Zenon, <1>3, TypeOpenFile DEF OpenAfterSnapshot, TypeOK, engines
<1>4. CASE ReadFrame(f)
  <2>1. conn[f].pos + 1 \in 1..Len(log[leader]) /\ conn[f].pos + 1 \in Nat
    <3>1. Len(log[leader]) \in Nat
      BY DEF TypeOK
    <3>2. FileEnd(conn[f]) \in Nat /\ FileEnd(conn[f]) <= Len(log[leader])
      BY <1>0, <3>1 DEF FileEnd, Ends
    <3>3. conn[f].pos < FileEnd(conn[f])
      BY Zenon, <1>4 DEF ReadFrame
    <3> QED
      BY SMTT(60), <1>0, <3>1, <3>2, <3>3
  <2>2. log[leader][conn[f].pos + 1] \in Values
    BY SMTT(60), <2>1 DEF TypeOK
  <2>3. [type |-> "R", seq |-> conn[f].pos + 1, val |-> log[leader][conn[f].pos + 1]] \in Messages
    BY Zenon, <2>1, <2>2 DEF Messages
  <2>4. chan' \in [Nodes -> Seq(Messages)]
    BY SMTT(60), <1>0, <1>4, <2>3 DEF ReadFrame, TypeOK
  <2>5. conn' = [conn EXCEPT ![f] = [conn[f] EXCEPT !.pos = conn[f].pos + 1,
                   !.seq = IF conn[f].pos + 1 > conn[f].seq THEN conn[f].pos + 1 ELSE conn[f].seq]]
    BY Zenon, <1>0, <1>4 DEF ReadFrame, TypeOK, Conns
  <2>6. [conn[f] EXCEPT !.pos = conn[f].pos + 1,
           !.seq = IF conn[f].pos + 1 > conn[f].seq THEN conn[f].pos + 1 ELSE conn[f].seq] \in Conns
    BY Zenon, <1>0, <2>1 DEF Conns
  <2>7. conn' \in [Nodes -> Conns]
    BY Zenon, <2>5, <2>6 DEF TypeOK
  <2> QED
    BY SMTT(60), <1>4, <2>4, <2>7 DEF ReadFrame, TypeOK, engines
<1>5. CASE ReadEnd(f)
  BY SMTT(60), <1>0, <1>5 DEF ReadEnd, TypeOK, engines, Pcs
<1>6. CASE Stat(f)
  <2>1. conn' \in [Nodes -> Conns]
    BY Zenon, <1>0, <1>6, TypeOpenFile DEF Stat, TypeOK, Pcs
  <2> QED
    BY SMTT(60), <1>6, <2>1 DEF Stat, TypeOK, engines
<1> QED
  BY Zenon, <1>1, <1>2, <1>3, <1>4, <1>5, <1>6 DEF Serve

\* The follower takes a message.
LEMMA TypeReceive ==
  ASSUME TypeOK, NEW f \in Nodes, Receive(f), Wire(f)
  PROVE  TypeOK'
<1>0. chan[f] # <<>> /\ chan[f] \in Seq(Messages) /\ Head(chan[f]) = chan[f][1]
      /\ chan[f][1] \in Messages /\ 1 \in 1..Len(chan[f])
  BY TailFacts DEF Receive, NoSnapshot, Install, Apply, TypeOK
<1>1. CASE NoSnapshot(f)
  BY Zenon, <1>0, <1>1, TypeTook DEF NoSnapshot, TypeOK, engines
<1>2. CASE Install(f)
  <2>1. chan[f][1].body \in Seq(Values)
    BY Zenon, <1>0, <1>2, MessageTypes DEF Install
  <2>2. Len(chan[f][1].body) \in Nat
    BY <2>1
  <2>3. /\ log' \in [Nodes -> Seq(Values)] /\ acked' \in [Nodes -> Nat]
        /\ base' \in [Nodes -> Nat] /\ snapSeq' \in [Nodes -> Nat]
    BY SMTT(60), <1>0, <1>2, <2>1, <2>2 DEF Install, TypeOK
  <2> QED
    BY Zenon, <1>0, <1>2, <2>3, TypeTook DEF Install, TypeOK
<1>3. CASE Apply(f)
  <2>1. chan[f][1].type = "R"
    BY Zenon, <1>0, <1>3 DEF Apply, Wire
  <2>2. chan[f][1].seq \in Nat /\ chan[f][1].val \in Values
    BY Zenon, <1>0, <2>1, MessageTypes
  <2>3. Append(log[f], chan[f][1].val) \in Seq(Values)
    BY <2>2 DEF TypeOK
  <2>4. log' \in [Nodes -> Seq(Values)] /\ acked' \in [Nodes -> Nat]
    <3>1. CASE chan[f][1].seq = acked[f] + 1
      <4>1. /\ log' = [log EXCEPT ![f] = Append(log[f], chan[f][1].val)]
            /\ acked' = [acked EXCEPT ![f] = chan[f][1].seq]
        BY Zenon, <1>0, <1>3, <3>1 DEF Apply
      <4> QED
        BY SMTT(60), <2>2, <2>3, <4>1 DEF TypeOK
    <3>2. CASE chan[f][1].seq # acked[f] + 1
      BY SMTT(60), <1>0, <1>3, <3>2 DEF Apply, TypeOK
    <3> QED
      BY Zenon, <3>1, <3>2
  <2>5. /\ conn' \in [Nodes -> Conns] /\ chan' \in [Nodes -> Seq(Messages)]
        /\ follow' \in [Nodes -> {"idle", "marker", "stream"}]
    BY Zenon, <1>0, <1>3, TypeTook, TypeClosed DEF Apply
  <2> QED
    BY Zenon, <1>3, <2>4, <2>5 DEF Apply, TypeOK
<1> QED
  BY Zenon, <1>1, <1>2, <1>3 DEF Receive

\* The leader writes and acknowledges a record; a follower dials; nodes and
\* connections fail.
LEMMA TypeOther ==
  ASSUME TypeOK,
         \/ Write \/ Commit \/ Failover
         \/ \E n \in Nodes : TakeSnapshot(n) \/ Dial(n) \/ Drop(n) \/ Restart(n)
  PROVE  TypeOK'
<1>1. CASE Write
  <2>1. PICK v \in Values : log' = [log EXCEPT ![leader] = Append(log[leader], v)]
    BY Zenon, <1>1 DEF Write
  <2>2. Append(log[leader], v) \in Seq(Values)
    BY DEF TypeOK
  <2> QED
    BY SMTT(60), <1>1, <2>1, <2>2 DEF Write, TypeOK, streams
<1>2. CASE Commit
  <2>1. Len(log[leader]) \in Nat
    BY DEF TypeOK
  <2> QED
    BY Zenon, <1>2, <2>1 DEF Commit, TypeOK, streams
<1>3. CASE Failover
  <2>1. leader' \in Nodes /\ leader \in Nodes /\ Stop(leader)
    BY Zenon, <1>3 DEF Failover, Followers, TypeOK
  <2> QED
    BY Zenon, <2>1, TypeStop DEF TypeOK
<1>4. ASSUME NEW n \in Nodes, TakeSnapshot(n)
      PROVE  TypeOK'
  BY Zenon, <1>4, TypeCapture DEF TakeSnapshot, TypeOK, streams
<1>5. ASSUME NEW n \in Nodes, Dial(n)
      PROVE  TypeOK'
  <2>1. RecordSum(n, acked[n]) \in Values \cup {None}
    BY DEF RecordSum, TypeOK
  <2>2. [NoConn EXCEPT !.pc = "accept", !.seq = acked[n], !.sum = RecordSum(n, acked[n])] \in Conns
    BY Zenon, <2>1, NoConnType DEF TypeOK, Conns, Pcs
  <2> QED
    BY Zenon, <1>5, <2>2 DEF Dial, TypeOK, engines
<1>6. ASSUME NEW n \in Nodes, Drop(n)
      PROVE  TypeOK'
  BY Zenon, <1>6, TypeClosed DEF Drop, TypeOK, engines
<1>7. ASSUME NEW n \in Nodes, Restart(n)
      PROVE  TypeOK'
  BY Zenon, <1>7, TypeStop DEF Restart, TypeOK
<1> QED
  BY Zenon, <1>1, <1>2, <1>3, <1>4, <1>5, <1>6, <1>7

-----------------------------------------------------------------------------
(* The leader's log grows under the connections. *)

\* The beginning of a beginning.
LEMMA BeginsTrans ==
  ASSUME NEW r \in Seq(Values), NEW s \in Seq(Values), NEW t \in Seq(Values),
         Begins(r, s), Begins(s, t)
  PROVE  Begins(r, t)
<1>1. Len(r) \in Nat /\ Len(s) \in Nat /\ Len(t) \in Nat
  OBVIOUS
<1> QED
  BY SMTT(60), <1>1 DEF Begins

\* Nothing that was sent, and no log that begins the leader's, is overtaken
\* when the leader's log grows.
LEMMA Grows ==
  ASSUME TypeOK, TypeOK', leader' = leader, Begins(log[leader], log'[leader])
  PROVE  /\ \A s \in Seq(Values) : Begins(s, log[leader]) => Begins(s, log'[leader])
         /\ \A m \in Messages : Sent(m) => Sent(m)'
         /\ Len(log[leader]) \in Nat /\ Len(log'[leader]) \in Nat
         /\ Len(log[leader]) <= Len(log'[leader])
<1>1. log[leader] \in Seq(Values) /\ log'[leader] \in Seq(Values)
  BY Zenon DEF TypeOK
<1>2. \A s \in Seq(Values) : Begins(s, log[leader]) => Begins(s, log'[leader])
  BY Zenon, <1>1, BeginsTrans
<1>3. /\ Len(log[leader]) \in Nat /\ Len(log'[leader]) \in Nat
      /\ Len(log[leader]) <= Len(log'[leader])
      /\ \A i \in 1..Len(log[leader]) : i \in 1..Len(log'[leader]) /\ log[leader][i] = log'[leader][i]
  BY <1>1 DEF Begins
<1>4. ASSUME NEW m \in Messages, Sent(m)
      PROVE  Sent(m)'
  <2>1. m.type = "S" => Begins(m.body, log'[leader])
    BY Zenon, <1>2, <1>4, MessageTypes DEF Sent
  <2>2. m.type = "R" => m.seq \in 1..Len(log'[leader]) /\ m.val = log'[leader][m.seq]
    BY Zenon, <1>3, <1>4 DEF Sent
  <2> QED
    BY Zenon, <2>1, <2>2 DEF Sent
<1> QED
  BY Zenon, <1>2, <1>3, <1>4

\* A connection a step leaves alone stays as it should be.
LEMMA Untouched ==
  ASSUME TypeOK, TypeOK', leader' = leader, Begins(log[leader], log'[leader]), Alike' => Alike,
         follow[leader] = "idle", NEW g \in Nodes, Link(g),
         conn'[g] = conn[g], chan'[g] = chan[g], follow'[g] = follow[g],
         g # leader => log'[g] = log[g] /\ acked'[g] = acked[g]
  PROVE  Link(g)'
<1>1. g = leader => follow[g] = "idle" /\ conn[g].pc = "none" /\ chan[g] = <<>>
  BY Zenon DEF Link, Ends
<1>2. conn[g].file.end \in Nat \cup {None} /\ log[g] \in Seq(Values) /\ chan[g] \in Seq(Messages)
  BY Zenon, ConnTypes DEF TypeOK
<1>3. Ends(g)'
  <2>1. conn[g].file.end # None => conn[g].file.end <= Len(log'[leader])
    BY <1>2, Grows DEF Link, Ends
  <2> QED
    BY Zenon, <1>1, <2>1 DEF Link, Ends
<1>4. Wire(g)'
  <2>1. \A i \in 1..Len(chan[g]) : chan[g][i] \in Messages
    BY <1>2
  <2> QED
    BY Zenon, <2>1, Grows DEF Link, Wire
<1>5. ASSUME Alike', Resumed(g)'
      PROVE  Begins(log'[g], log'[leader])
  <2>1. Resumed(g)
    BY Zenon, <1>5 DEF Resumed
  <2>2. g # leader
    BY Zenon, <1>1, <2>1 DEF Resumed
  <2>3. Begins(log[g], log[leader])
    BY Zenon, <1>5, <2>1 DEF Link
  <2> QED
    BY Zenon, <1>2, <2>2, <2>3, Grows
<1> QED
  BY Zenon, <1>3, <1>4, <1>5 DEF Link

\* A connection that is closed is as it should be.
LEMMA Closes ==
  ASSUME NEW g \in Nodes, conn'[g] = NoConn, chan'[g] = <<>>, follow'[g] = "idle"
  PROVE  Link(g)'
<1>1. Len(<<>>) = 0
  BY Zenon
<1>2. Ends(g)' /\ Wire(g)' /\ ~Resumed(g)'
  BY <1>1, NoConnType DEF Ends, Wire, Resumed
<1> QED
  BY Zenon, <1>2 DEF Link

\* What a step of follower f's connection leaves alone.
LEMMA OnlyOne ==
  ASSUME Inv, TypeOK', NEW f \in Nodes, leader' = leader, log'[leader] = log[leader],
         lapses \subseteq lapses', Link(f)', follow'[leader] = "idle",
         \A g \in Nodes \ {f} : /\ conn'[g] = conn[g] /\ chan'[g] = chan[g] /\ follow'[g] = follow[g]
                                /\ log'[g] = log[g] /\ acked'[g] = acked[g]
  PROVE  follow'[leader'] = "idle" /\ \A g \in Nodes : Link(g)'
<1>1. Begins(log[leader], log'[leader])
  <2>1. Len(log[leader]) \in Nat
    BY DEF Inv, TypeOK
  <2> QED
    BY <2>1 DEF Begins
<1>2. Alike' => Alike
  BY Zenon DEF Alike
<1>3. ASSUME NEW g \in Nodes \ {f}
      PROVE  Link(g)'
  BY Zenon, <1>1, <1>2, <1>3, Untouched DEF Inv
<1> QED
  BY Zenon, <1>3

-----------------------------------------------------------------------------
(* Steps of a connection. *)

\* A follower dials.
LEMMA DialStep ==
  ASSUME Inv, TypeOK', NEW f \in Nodes, Dial(f)
  PROVE  follow'[leader'] = "idle" /\ \A g \in Nodes : Link(g)'
<1>1. f # leader /\ follow[f] = "idle" /\ chan[f] = <<>>
  BY Zenon DEF Dial, Followers, Inv, Link, Ends
<1>2. /\ conn'[f] = [NoConn EXCEPT !.pc = "accept", !.seq = acked[f],
                                   !.sum = RecordSum(f, acked[f])]
      /\ follow'[f] = "marker" /\ chan'[f] = <<>> /\ acked'[f] = acked[f]
  BY Zenon, <1>1 DEF Dial, Inv, TypeOK, engines
<1>3. conn'[f].pc = "accept" /\ conn'[f].seq = acked[f] /\ conn'[f].file.end = None
  BY Zenon, <1>2, NoConnType DEF Conns, NoConn
<1>4. Link(f)'
  BY <1>2, <1>3 DEF Link, Ends, Wire, Resumed
<1>5. /\ leader' = leader /\ log'[leader] = log[leader] /\ lapses \subseteq lapses'
      /\ follow'[leader] = "idle"
      /\ \A g \in Nodes \ {f} : /\ conn'[g] = conn[g] /\ chan'[g] = chan[g] /\ follow'[g] = follow[g]
                                /\ log'[g] = log[g] /\ acked'[g] = acked[g]
  BY Zenon, <1>1 DEF Dial, Inv, TypeOK, engines
<1> QED
  BY Zenon, <1>4, <1>5, OnlyOne

\* What the leader's side of f's connection leaves alone.
LEMMA ServeLeaves ==
  ASSUME Inv, TypeOK', NEW f \in Nodes, Serve(f), Link(f)'
  PROVE  follow'[leader'] = "idle" /\ \A g \in Nodes : Link(g)'
<1>1. /\ leader' = leader /\ log' = log /\ acked' = acked /\ follow' = follow
      /\ \A g \in Nodes \ {f} : chan'[g] = chan[g]
  BY ZenonT(60) DEF Serve, Accept, Resync, OpenAfterSnapshot, ReadFrame, ReadEnd, Stat, engines,
     Inv, TypeOK
<1>2. lapses \subseteq lapses'
  BY Zenon DEF Serve, Accept, Resync, OpenAfterSnapshot, OpenFile, ReadFrame, ReadEnd, Stat
<1>3. \A g \in Nodes \ {f} : conn'[g] = conn[g]
  <2>1. CASE Accept(f)
    BY Zenon, <2>1 DEF Accept, Inv, TypeOK
  <2>2. CASE Resync(f) \/ ReadFrame(f) \/ ReadEnd(f)
    BY Zenon, <2>2 DEF Resync, ReadFrame, ReadEnd, Inv, TypeOK
  <2>3. CASE OpenAfterSnapshot(f) \/ Stat(f)
    BY Zenon, <2>3 DEF OpenAfterSnapshot, Stat, OpenFile, Inv, TypeOK
  <2> QED
    BY Zenon, <2>1, <2>2, <2>3 DEF Serve
<1>4. follow'[leader] = "idle"
  BY Zenon, <1>1 DEF Inv
<1> QED
  BY Zenon, <1>1, <1>2, <1>3, <1>4, OnlyOne

\* OpenWALForReplication lets a follower go on only from a log that begins the
\* leader's, unless the two agree on the last record and not before.
LEMMA AcceptStep ==
  ASSUME Inv, TypeOK', NEW f \in Nodes, Accept(f)
  PROVE  Link(f)'
<1>1. /\ conn[f].pc = "accept" /\ chan[f] = <<>> /\ follow[f] = "marker" /\ f # leader
      /\ conn[f].seq = acked[f] /\ acked[f] = Len(log[f])
      /\ UNCHANGED <<leader, log, acked, follow>>
  BY Zenon DEF Accept, Inv, Link, Ends, EngineOK, engines
<1>2. conn[f] \in Conns /\ log[f] \in Seq(Values) /\ log[leader] \in Seq(Values) /\ acked[leader] \in Nat
  BY Zenon DEF Inv, TypeOK
<1>3. CASE Resumes(conn[f])
  <2>1. /\ conn'[f].pc = "read" /\ conn'[f].file.end = None
        /\ chan'[f] = <<[type |-> "N"]>>
    <3>1. /\ conn' = [conn EXCEPT ![f] =
               [conn[f] EXCEPT !.pc = "read", !.file = [base |-> base[leader], end |-> None],
                               !.pos = base[leader]]]
          /\ chan' = [chan EXCEPT ![f] = Append(chan[f], [type |-> "N"])]
      BY Zenon, <1>3 DEF Accept
    <3>2. conn'[f].pc = "read" /\ conn'[f].file.end = None
      BY Zenon, <1>2, <3>1 DEF Inv, TypeOK, Conns
    <3>3. chan'[f] = <<[type |-> "N"]>>
      BY <1>1, <3>1 DEF Inv, TypeOK
    <3> QED
      BY Zenon, <3>2, <3>3
  <2>2. Ends(f)'
    BY Zenon, <1>1, <2>1 DEF Ends
  <2>3. Wire(f)'
    <3>1. Len(chan'[f]) = 1 /\ chan'[f][1].type = "N"
      BY <2>1
    <3> QED
      BY <1>1, <3>1 DEF Wire, Sent
  <2>4. ASSUME Alike'
        PROVE  Begins(log'[f], log'[leader'])
    <3>1. SubSeq(log[f], 1, conn[f].seq) = SubSeq(log[leader], 1, conn[f].seq)
      BY Zenon, <1>3, <2>4 DEF Accept, Alike
    <3>2. conn[f].seq <= Len(log[leader])
      <4>1. conn[f].seq <= acked[leader] /\ acked[leader] <= Len(log[leader])
        BY Zenon, <1>3 DEF Resumes, Inv, EngineOK, TypeOK
      <4>2. conn[f].seq \in Nat /\ Len(log[leader]) \in Nat
        BY <1>2 DEF Conns
      <4> QED
        BY <1>2, <4>1, <4>2
    <3>3. Len(log[f]) \in Nat /\ Len(log[leader]) \in Nat /\ Len(log[f]) <= Len(log[leader])
      BY <1>1, <1>2, <3>2
    <3>4. \A i \in 1..Len(log[f]) : log[f][i] = log[leader][i]
      <4>1. /\ \A i \in 1..Len(log[f]) : SubSeq(log[f], 1, Len(log[f]))[i] = log[f][i]
            /\ \A i \in 1..Len(log[f]) : SubSeq(log[leader], 1, Len(log[f]))[i] = log[leader][i]
        BY <1>2, <3>3, SeqFacts
      <4> QED
        BY Zenon, <1>1, <3>1, <4>1
    <3> QED
      BY Zenon, <1>1, <3>3, <3>4 DEF Begins
  <2> QED
    BY Zenon, <2>2, <2>3, <2>4 DEF Link
<1>4. CASE ~Resumes(conn[f])
  <2>1. conn'[f] = [conn[f] EXCEPT !.pc = "resync"] /\ chan'[f] = <<>>
    BY Zenon, <1>1, <1>4 DEF Accept, Inv, TypeOK
  <2>2. conn'[f].pc = "resync" /\ conn'[f].file = conn[f].file
    BY Zenon, <1>2, <2>1 DEF Conns
  <2>3. Ends(f)'
    BY Zenon, <1>1, <2>1, <2>2 DEF Ends, Inv, Link
  <2>4. Wire(f)' /\ ~Resumed(f)'
    BY <1>1, <2>1 DEF Wire, Resumed
  <2> QED
    BY Zenon, <2>3, <2>4 DEF Link
<1> QED
  BY Zenon, <1>3, <1>4

\* A step of the leader's side that sends nothing.
LEMMA SilentStep ==
  ASSUME Inv, TypeOK', NEW f \in Nodes, UNCHANGED <<leader, log, acked, chan, follow>>,
         Alike' => Alike, conn[f].pc # "none", conn'[f].pc \notin {"none", "accept"},
         conn'[f].pc \in {"resync", "snapshot"} => conn[f].pc \in {"accept", "resync", "snapshot"},
         conn'[f].file.end \in {None, conn[f].file.end}
  PROVE  Link(f)'
<1>1. Ends(f)'
  BY Zenon DEF Inv, Link, Ends
<1>2. Wire(f)'
  BY Zenon DEF Inv, Link, Wire, Sent
<1>3. Alike' /\ Resumed(f)' => Begins(log'[f], log'[leader])
  BY Zenon DEF Inv, Link, Resumed
<1> QED
  BY Zenon, <1>1, <1>2, <1>3 DEF Link

\* The leader reads a record of its log and sends it.
LEMMA ReadFrameStep ==
  ASSUME Inv, TypeOK', NEW f \in Nodes, ReadFrame(f)
  PROVE  Link(f)'
<1>1. /\ conn[f].pc = "read" /\ UNCHANGED <<leader, log, acked, follow, lapses>>
      /\ conn[f] \in Conns /\ log[leader] \in Seq(Values) /\ chan[f] \in Seq(Messages)
      /\ Link(f) /\ Ends(f) /\ Wire(f)
  BY Zenon DEF ReadFrame, engines, Inv, TypeOK, Link
<1>2. conn'[f].pc = "read" /\ conn'[f].file = conn[f].file
  BY Zenon, <1>1 DEF ReadFrame, Inv, TypeOK, Conns
<1>3. Ends(f)'
  BY Zenon, <1>1, <1>2 DEF Ends
<1>4. conn[f].pos + 1 \in 1..Len(log[leader])
  <2>1. conn[f].pos \in Nat /\ conn[f].file.end \in Nat \cup {None} /\ Len(log[leader]) \in Nat
    BY <1>1, ConnTypes
  <2>2. FileEnd(conn[f]) \in Nat /\ FileEnd(conn[f]) <= Len(log[leader])
    BY <1>1, <2>1 DEF FileEnd, Ends
  <2> QED
    BY SMTT(60), <2>1, <2>2 DEF ReadFrame
<1>5. PICK m \in {[type |-> "R", seq |-> conn[f].pos + 1,
                val |-> log[leader][conn[f].pos + 1]]} : TRUE
  BY Zenon
<1>6. m.type = "R" /\ m.seq = conn[f].pos + 1 /\ m.val = log[leader][conn[f].pos + 1]
  BY <1>5
<1>7. Sent(m)
  BY Zenon, <1>4, <1>6 DEF Sent
<1>8. m \in Messages
  BY <1>1, <1>4, <1>5 DEF Messages
<1>9. chan'[f] = chan[f] \/ chan'[f] = Append(chan[f], m)
  BY Zenon, <1>5 DEF ReadFrame, Inv, TypeOK
<1>10. CASE chan'[f] = chan[f]
  BY Zenon, <1>1, <1>3, <1>10 DEF Link, Wire, Sent, Resumed, Alike
<1>11. CASE chan'[f] = Append(chan[f], m)
  <2>1. /\ Len(chan'[f]) = Len(chan[f]) + 1 /\ Len(chan[f]) \in Nat
        /\ \A i \in 1..Len(chan[f]) : chan'[f][i] = chan[f][i]
        /\ chan'[f][Len(chan[f]) + 1] = m
    <3>1. chan[f] \in Seq(Messages)
      BY Zenon, <1>1
    <3> QED
      BY <1>8, <1>11, <3>1, SeqFacts
  <2>2. \A i \in 1..Len(chan'[f]) :
          Sent(chan'[f][i]) /\ (chan'[f][i].type # "R" => i = 1 /\ follow[f] = "marker")
    <3>1. ASSUME NEW i \in 1..Len(chan[f]) + 1
          PROVE  Sent(chan'[f][i]) /\ (chan'[f][i].type # "R" => i = 1 /\ follow[f] = "marker")
      <4>1. CASE i \in 1..Len(chan[f])
        BY Zenon, <1>1, <2>1, <4>1 DEF Wire
      <4>2. CASE i = Len(chan[f]) + 1
        BY Zenon, <1>6, <1>7, <2>1, <4>2
      <4> QED
        BY <2>1, <4>1, <4>2
    <3> QED
      BY Zenon, <2>1, <3>1
  <2>3. Wire(f)'
    BY Zenon, <1>1, <2>2 DEF Wire, Sent
  <2>4. Resumed(f)' => Resumed(f)
    <3>1. chan[f] = <<>> => chan'[f][1] = m
      BY <2>1
    <3>2. chan[f] # <<>> => 1 \in 1..Len(chan[f])
      BY <1>1, TailFacts
    <3> QED
      BY Zenon, <1>1, <1>6, <2>1, <3>1, <3>2 DEF Resumed
  <2> QED
    BY Zenon, <1>1, <1>3, <2>3, <2>4 DEF Link, Alike
<1> QED
  BY Zenon, <1>9, <1>10, <1>11

\* Every step of the leader's side.
LEMMA ServeStep ==
  ASSUME Inv, TypeOK', NEW f \in Nodes, Serve(f)
  PROVE  follow'[leader'] = "idle" /\ \A g \in Nodes : Link(g)'
<1>0. conn[f] \in Conns /\ conn \in [Nodes -> Conns]
  BY Zenon DEF Inv, TypeOK
<1>1. CASE Resync(f)
  <2>1. conn'[f].pc = "snapshot" /\ conn'[f].file = conn[f].file
    BY Zenon, <1>0, <1>1 DEF Resync, Conns
  <2> QED
    BY Zenon, <1>1, <2>1, SilentStep, ServeLeaves DEF Resync, Alike
<1>2. CASE OpenAfterSnapshot(f) \/ (Stat(f) /\ OpenFile(f))
  <2>1. conn'[f].pc = "read" /\ conn'[f].file.end = None
    <3>1. conn'[f] = [conn[f] EXCEPT !.pc = "read", !.pos = base[leader],
                                     !.file = [base |-> base[leader], end |-> None]]
      BY ZenonT(60), <1>0, <1>2 DEF OpenAfterSnapshot, OpenFile
    <3> QED
      BY <1>0, <3>1 DEF Conns
  <2>2. Alike' => Alike
    BY Zenon, <1>2 DEF OpenAfterSnapshot, OpenFile, Alike
  <2>3. UNCHANGED <<leader, log, acked, chan, follow>> /\ conn[f].pc # "none"
    BY Zenon, <1>2 DEF OpenAfterSnapshot, Stat, engines
  <2> QED
    BY Zenon, <2>1, <2>2, <2>3, SilentStep, ServeLeaves
<1>3. CASE ReadEnd(f) \/ (Stat(f) /\ conn[f].file.end = None)
  <2>1. conn'[f].pc \in {"read", "stat"} /\ conn'[f].file = conn[f].file
    BY Zenon, <1>0, <1>3 DEF ReadEnd, Stat, Conns
  <2>2. UNCHANGED <<leader, log, acked, chan, follow, lapses>> /\ conn[f].pc # "none"
    BY Zenon, <1>3 DEF ReadEnd, Stat, engines
  <2> QED
    BY Zenon, <2>1, <2>2, SilentStep, ServeLeaves DEF Alike
<1>4. CASE Accept(f)
  BY Zenon, <1>4, AcceptStep, ServeLeaves
<1>5. CASE ReadFrame(f)
  BY Zenon, <1>5, ReadFrameStep, ServeLeaves
<1> QED
  BY Zenon, <1>1, <1>2, <1>3, <1>4, <1>5 DEF Serve, Stat

\* What the follower's side of f's connection leaves alone.
LEMMA FollowerLeaves ==
  ASSUME Inv, TypeOK', NEW f \in Nodes, Receive(f) \/ Drop(f), Link(f)'
  PROVE  follow'[leader'] = "idle" /\ \A g \in Nodes : Link(g)'
<1>1. f # leader
  BY Zenon DEF Receive, NoSnapshot, Install, Apply, Drop, Inv
<1>2. /\ leader' = leader /\ lapses' = lapses
      /\ \A g \in Nodes \ {f} : log'[g] = log[g] /\ acked'[g] = acked[g]
  BY Zenon DEF Receive, NoSnapshot, Install, Apply, Drop, engines, Inv, TypeOK
<1>3. \A g \in Nodes \ {f} : conn'[g] = conn[g] /\ chan'[g] = chan[g] /\ follow'[g] = follow[g]
  <2>1. CASE Took(f, "stream")
    BY Zenon, <2>1 DEF Took, Inv, TypeOK
  <2>2. CASE Closed(f)
    BY Zenon, <2>2 DEF Closed, Inv, TypeOK
  <2> QED
    BY Zenon, <2>1, <2>2 DEF Receive, NoSnapshot, Install, Apply, Drop
<1>4. log'[leader] = log[leader] /\ follow'[leader] = "idle"
  BY Zenon, <1>1, <1>2, <1>3 DEF Inv, TypeOK
<1> QED
  BY Zenon, <1>1, <1>2, <1>3, <1>4, OnlyOne

\* A follower that takes a message and then has a log that begins the
\* leader's.
LEMMA TookStep ==
  ASSUME Inv, TypeOK', NEW f \in Nodes, chan[f] # <<>>, Took(f, "stream"), leader' = leader,
         log'[leader] = log[leader], lapses' = lapses, Alike => Begins(log'[f], log'[leader])
  PROVE  Link(f)'
<1>0. Link(f) /\ Ends(f) /\ Wire(f) /\ chan[f] \in Seq(Messages)
  BY Zenon DEF Inv, Link, TypeOK
<1>1. conn'[f] = conn[f] /\ chan'[f] = Tail(chan[f]) /\ follow'[f] = "stream"
  BY Zenon DEF Took, Inv, TypeOK
<1>2. conn[f].pc \notin {"accept", "resync", "snapshot"}
  BY Zenon, <1>0 DEF Ends
<1>3. Ends(f)'
  BY Zenon, <1>0, <1>1, <1>2 DEF Ends
<1>4. \A i \in 1..Len(Tail(chan[f])) : Sent(Tail(chan[f])[i]) /\ Tail(chan[f])[i].type = "R"
  BY <1>0, TailFacts DEF Wire
<1>5. Wire(f)'
  BY Zenon, <1>1, <1>4 DEF Wire, Sent
<1> QED
  BY Zenon, <1>3, <1>5 DEF Link, Alike

\* Every step of the follower's side.
LEMMA ReceiveStep ==
  ASSUME Inv, TypeOK', NEW f \in Nodes, Receive(f) \/ Drop(f)
  PROVE  follow'[leader'] = "idle" /\ \A g \in Nodes : Link(g)'
<1>0. /\ Link(f) /\ Wire(f) /\ f # leader /\ acked[f] = Len(log[f]) /\ log[f] \in Seq(Values)
      /\ log[leader] \in Seq(Values)
  BY Zenon DEF Receive, NoSnapshot, Install, Apply, Drop, Inv, Link, EngineOK, TypeOK
<1>1. ASSUME chan[f] # <<>>
      PROVE  Head(chan[f]) = chan[f][1] /\ chan[f][1] \in Messages /\ Sent(chan[f][1])
  <2>1. chan[f] \in Seq(Messages)
    BY Zenon DEF Inv, TypeOK
  <2>2. Head(chan[f]) = chan[f][1] /\ chan[f][1] \in Messages /\ Len(chan[f]) \in Nat \ {0}
    BY Zenon, <1>1, <2>1, TailFacts
  <2>3. 1 \in 1..Len(chan[f])
    BY <2>2
  <2> QED
    BY Zenon, <1>0, <2>2, <2>3 DEF Wire
<1>2. CASE NoSnapshot(f)
  <2>1. /\ chan[f] # <<>> /\ chan[f][1].type = "N" /\ Took(f, "stream")
        /\ UNCHANGED <<leader, log, lapses>>
    BY Zenon, <1>1, <1>2 DEF NoSnapshot, engines
  <2>2. Alike => Begins(log'[f], log'[leader])
    BY Zenon, <1>0, <2>1 DEF Link, Resumed
  <2> QED
    BY Zenon, <2>1, <2>2, <1>2, TookStep, FollowerLeaves
<1>3. CASE Install(f)
  <2>1. /\ chan[f] # <<>> /\ chan[f][1].type = "S" /\ Took(f, "stream")
        /\ UNCHANGED <<leader, lapses>> /\ log' = [log EXCEPT ![f] = chan[f][1].body]
    BY Zenon, <1>1, <1>3 DEF Install
  <2>2. Begins(chan[f][1].body, log[leader])
    BY Zenon, <1>1, <2>1 DEF Sent
  <2>3. log'[leader] = log[leader] /\ log'[f] = chan[f][1].body
    BY Zenon, <1>0, <2>1 DEF Inv, TypeOK
  <2>4. Alike => Begins(log'[f], log'[leader])
    BY Zenon, <2>1, <2>2, <2>3
  <2> QED
    BY Zenon, <2>1, <2>3, <2>4, <1>3, TookStep, FollowerLeaves
<1>4. CASE Closed(f)
  BY Zenon, <1>4, Closes, FollowerLeaves DEF Closed, Inv, TypeOK
<1>5. CASE Apply(f) /\ ~Closed(f)
  <2>1. /\ chan[f] # <<>> /\ chan[f][1].type = "R" /\ follow[f] = "stream"
    BY <1>0, <1>1, <1>5 DEF Apply, Wire
  <2>2. /\ Took(f, "stream") /\ UNCHANGED <<leader, lapses>> /\ chan[f][1].seq = acked[f] + 1
        /\ log' = [log EXCEPT ![f] = Append(log[f], chan[f][1].val)]
    BY Zenon, <1>1, <1>5, <2>1 DEF Apply
  <2>3. log'[leader] = log[leader] /\ log'[f] = Append(log[f], chan[f][1].val)
    BY Zenon, <1>0, <2>2 DEF Inv, TypeOK
  <2>4. /\ chan[f][1].val \in Values /\ chan[f][1].seq = Len(log[f]) + 1
        /\ chan[f][1].seq \in 1..Len(log[leader]) /\ chan[f][1].val = log[leader][chan[f][1].seq]
    BY Zenon, <1>0, <1>1, <2>1, <2>2, MessageTypes DEF Sent
  <2>5. ASSUME Alike
        PROVE  Begins(log'[f], log'[leader])
    <3>1. Begins(log[f], log[leader])
      BY Zenon, <1>0, <2>1, <2>5 DEF Link, Resumed
    <3>2. /\ Len(log'[f]) = Len(log[f]) + 1 /\ Len(log[f]) \in Nat /\ Len(log[leader]) \in Nat
          /\ \A i \in 1..Len(log[f]) : log'[f][i] = log[f][i]
          /\ log'[f][Len(log[f]) + 1] = chan[f][1].val
      BY <1>0, <2>3, <2>4, SeqFacts
    <3> QED
      BY <2>3, <2>4, <3>1, <3>2 DEF Begins
  <2> QED
    BY Zenon, <2>1, <2>2, <2>3, <2>5, <1>5, TookStep, FollowerLeaves DEF Receive
<1> QED
  BY Zenon, <1>2, <1>3, <1>4, <1>5 DEF Receive, Drop

-----------------------------------------------------------------------------
(* Steps of the engines. *)

\* The leader writes or acknowledges a record, or a node begins a snapshot.
LEMMA QuietStep ==
  ASSUME Inv, TypeOK', Write \/ Commit \/ \E n \in Nodes : TakeSnapshot(n)
  PROVE  follow'[leader'] = "idle" /\ \A g \in Nodes : Link(g)'
<1>1. UNCHANGED <<leader, conn, chan, follow, lapses>>
  BY Zenon DEF Write, Commit, TakeSnapshot, streams
<1>2. \A g \in Nodes : g # leader => log'[g] = log[g] /\ acked'[g] = acked[g]
  BY Zenon DEF Write, Commit, TakeSnapshot, Inv, TypeOK
<1>3. Begins(log[leader], log'[leader])
  <2>0. log[leader] \in Seq(Values) /\ Len(log[leader]) \in Nat
    BY DEF Inv, TypeOK
  <2>1. CASE log' = log
    BY <2>0, <2>1 DEF Begins
  <2>2. CASE Write
    <3>1. PICK v \in Values : log'[leader] = Append(log[leader], v)
      BY Zenon, <2>2 DEF Write, Inv, TypeOK
    <3> QED
      BY <2>0, <3>1, SeqFacts DEF Begins
  <2> QED
    BY Zenon, <2>1, <2>2 DEF Commit, TakeSnapshot
<1>4. ASSUME NEW g \in Nodes
      PROVE  Link(g)'
  BY Zenon, <1>1, <1>2, <1>3, Untouched DEF Inv, Alike
<1> QED
  BY Zenon, <1>1, <1>4 DEF Inv

\* A stream that reads the live log reads no further than it when the log is
\* rotated.
LEMMA DetachedEnds ==
  ASSUME Inv, NEW n \in Nodes, NEW g \in Nodes, NEW c, c = Detached(n, conn[g])
  PROVE  /\ c.pc = conn[g].pc /\ c.seq = conn[g].seq
         /\ c.file.end # None => c.file.end <= Len(log[leader])
<1>1. conn[g] \in Conns /\ Len(log[leader]) \in Nat /\ Ends(g)
  BY DEF Inv, TypeOK, Link
<1>2. CASE c = conn[g]
  BY Zenon, <1>1, <1>2 DEF Ends
<1>3. CASE n = leader /\ c = [conn[g] EXCEPT !.file.end = Len(log[n])]
  <2>1. c.pc = conn[g].pc /\ c.seq = conn[g].seq /\ c.file.end = Len(log[leader])
    BY Zenon, <1>1, <1>3 DEF Conns, Files
  <2> QED
    BY <1>1, <2>1
<1> QED
  BY Zenon, <1>2, <1>3 DEF Detached

\* The end of a snapshot: it goes to the follower it was taken for.
LEMMA RotateStep ==
  ASSUME Inv, TypeOK', NEW n \in Nodes, Rotate(n)
  PROVE  follow'[leader'] = "idle" /\ \A g \in Nodes : Link(g)'
<1>1. UNCHANGED <<leader, log, acked, follow, lapses>>
  BY Zenon DEF Rotate
<1>2. ASSUME NEW g \in Nodes, ~(g = snap[n].for /\ conn[g].pc = "snapshot")
      PROVE  Link(g)'
  <2>1. conn'[g] = Detached(n, conn[g])
    BY Zenon, <1>2 DEF Rotate
  <2>2. chan'[g] = chan[g]
    BY ZenonT(60), <1>2 DEF Rotate, Inv, TypeOK
  <2>3. Ends(g)'
    <3>1. Ends(g)
      BY Zenon DEF Inv, Link
    <3>2. /\ conn'[g].pc = conn[g].pc /\ conn'[g].seq = conn[g].seq
          /\ conn'[g].file.end # None => conn'[g].file.end <= Len(log[leader])
      BY Zenon, <2>1, DetachedEnds
    <3> QED
      BY Zenon, <1>1, <2>2, <3>1, <3>2 DEF Ends
  <2>4. Wire(g)'
    <3>1. Wire(g)
      BY Zenon DEF Inv, Link
    <3> QED
      BY Zenon, <1>1, <2>2, <3>1 DEF Wire, Sent
  <2>5. Alike' /\ Resumed(g)' => Begins(log'[g], log'[leader'])
    BY Zenon, <1>1, <2>2 DEF Inv, Link, Resumed, Alike
  <2> QED
    BY Zenon, <2>3, <2>4, <2>5 DEF Link
<1>3. ASSUME NEW g \in Nodes, g = snap[n].for, conn[g].pc = "snapshot"
      PROVE  Link(g)'
  <2>1. n = leader /\ snap[n].seq \in 0..Len(log[n]) /\ log[n] \in Seq(Values) /\ Len(log[n]) \in Nat
    <3>1. snap[n].pc = "captured" /\ snap[n].for # None
      BY Zenon, <1>3, NodesAssumption DEF Rotate
    <3>2. snap[n].seq \in Nat /\ log[n] \in Seq(Values)
      BY Zenon DEF Inv, TypeOK, Snaps
    <3> QED
      BY <3>1, <3>2 DEF Inv, EngineOK
  <2>2. chan[g] = <<>> /\ follow[g] = "marker" /\ conn[g] \in Conns
        /\ (conn[g].file.end # None => conn[g].file.end <= Len(log[leader]))
    BY Zenon, <1>3 DEF Inv, Link, Ends, TypeOK
  <2>3. conn'[g] = [conn[g] EXCEPT !.pc = "open", !.seq = snap[n].seq]
    BY Zenon, <1>3 DEF Rotate
  <2>4. conn'[g].pc = "open" /\ conn'[g].file = conn[g].file
    BY Zenon, <2>2, <2>3 DEF Conns
  <2>5. PICK m \in {[type |-> "S", body |-> SubSeq(log[n], 1, snap[n].seq)]} : TRUE
    BY Zenon
  <2>6. chan'[g] = <<m>>
    <3>1. chan' = [chan EXCEPT ![g] = Append(chan[g], m)]
      BY Zenon, <1>3, <2>5, NodesAssumption DEF Rotate
    <3> QED
      BY <2>2, <3>1 DEF Inv, TypeOK
  <2>7. m.type = "S" /\ m.body = SubSeq(log[n], 1, snap[n].seq)
    BY <2>5
  <2>8. Begins(m.body, log[leader])
    BY <2>1, <2>7, SeqFacts DEF Begins
  <2>9. Ends(g)'
    BY Zenon, <1>1, <2>2, <2>4 DEF Ends
  <2>10. Wire(g)'
    <3>1. Len(chan'[g]) = 1 /\ chan'[g][1] = m
      BY <2>6
    <3>2. Sent(m)'
      BY Zenon, <1>1, <2>7, <2>8 DEF Sent
    <3>3. follow'[g] = "marker"
      BY Zenon, <1>1, <2>2
    <3>4. ASSUME NEW i \in 1..Len(chan'[g])
          PROVE  i = 1
      BY <3>1
    <3> QED
      BY Zenon, <3>1, <3>2, <3>3, <3>4 DEF Wire, Sent
  <2>11. ~Resumed(g)'
    BY <1>1, <2>2, <2>6, <2>7 DEF Resumed
  <2> QED
    BY Zenon, <2>9, <2>10, <2>11 DEF Link
<1> QED
  BY Zenon, <1>1, <1>2, <1>3 DEF Inv

\* A node stops, and another may take over.
LEMMA StopStep ==
  ASSUME Inv, TypeOK', Failover \/ \E n \in Nodes : Restart(n)
  PROVE  follow'[leader'] = "idle" /\ \A g \in Nodes : Link(g)'
<1>0. leader \in Nodes /\ leader' \in Nodes /\ follow[leader] = "idle"
  BY Zenon DEF Inv, TypeOK
<1>1. CASE Stop(leader)
  <2>1. \A g \in Nodes : conn'[g] = NoConn /\ chan'[g] = <<>> /\ follow'[g] = "idle"
    BY Zenon, <1>1 DEF Stop
  <2> QED
    BY Zenon, <1>0, <2>1, Closes
<1>2. ASSUME NEW n \in Nodes \ {leader}, Restart(n)
      PROVE  follow'[leader'] = "idle" /\ \A g \in Nodes : Link(g)'
  <2>1. leader' = leader /\ lapses' = lapses /\ Stop(n)
    BY Zenon, <1>2 DEF Restart, Stop
  <2>2. conn'[n] = NoConn /\ chan'[n] = <<>> /\ follow'[n] = "idle"
    BY Zenon, <1>2, <2>1 DEF Stop
  <2>3. \A g \in Nodes \ {n} : /\ conn'[g] = conn[g] /\ chan'[g] = chan[g] /\ follow'[g] = follow[g]
                               /\ log'[g] = log[g] /\ acked'[g] = acked[g]
    BY Zenon, <1>2, <2>1 DEF Stop, Inv, TypeOK
  <2> QED
    BY Zenon, <1>0, <1>2, <2>1, <2>2, <2>3, Closes, OnlyOne
<1> QED
  BY Zenon, <1>0, <1>1, <1>2 DEF Failover, Restart

\* The engines.
LEMMA EngineStep ==
  ASSUME Inv, TypeOK', Next
  PROVE  \A n \in Nodes : EngineOK(n)'
<1>0. /\ leader \in Nodes
      /\ \A n \in Nodes : log[n] \in Seq(Values) /\ Len(log[n]) \in Nat /\ acked[n] \in Nat
      /\ \A n \in Nodes : acked[n] <= Len(log[n]) /\ (n # leader => acked[n] = Len(log[n]))
      /\ \A n \in Nodes : snap[n].pc = "captured" =>
           snap[n].seq <= Len(log[n]) /\ (snap[n].for # None => n = leader)
      /\ \A n \in Nodes : snap[n] \in Snaps
  <2>1. \A n \in Nodes : log[n] \in Seq(Values) /\ acked[n] \in Nat /\ snap[n] \in Snaps
    BY Zenon DEF Inv, TypeOK
  <2> QED
    BY Zenon, <2>1, SeqFacts DEF Inv, TypeOK, EngineOK
<1>1. CASE UNCHANGED <<leader, log, acked, snap>>
  BY Zenon, <1>0, <1>1 DEF EngineOK
<1>2. CASE Write
  <2>1. PICK v \in Values : log' = [log EXCEPT ![leader] = Append(log[leader], v)]
    BY Zenon, <1>2 DEF Write
  <2>2. log'[leader] = Append(log[leader], v) /\ Len(log'[leader]) = Len(log[leader]) + 1
    <3>1. log'[leader] = Append(log[leader], v)
      BY Zenon, <2>1 DEF Inv, TypeOK
    <3> QED
      BY <1>0, <3>1, SeqFacts
  <2>3. \A n \in Nodes \ {leader} : log'[n] = log[n]
    BY Zenon, <2>1 DEF Inv, TypeOK
  <2>4. UNCHANGED <<leader, acked, snap>>
    BY Zenon, <1>2 DEF Write
  <2>5. ASSUME NEW n \in Nodes
        PROVE  EngineOK(n)'
    <3>1. CASE n = leader
      <4>1. snap[n].seq \in Nat
        BY Zenon, <1>0 DEF Snaps
      <4> QED
        BY SMTT(60), <1>0, <2>2, <2>4, <3>1, <4>1 DEF EngineOK
    <3>2. CASE n # leader
      BY Zenon, <1>0, <2>3, <2>4, <3>2 DEF EngineOK
    <3> QED
      BY Zenon, <3>1, <3>2
  <2> QED
    BY Zenon, <2>5
<1>3. CASE Commit
  BY <1>0, <1>3 DEF Commit, EngineOK, Inv, TypeOK
<1>4. ASSUME NEW n \in Nodes, NEW f \in Nodes \cup {None}, Capture(n, f),
             UNCHANGED <<leader, log, acked>>, f # None => n = leader
      PROVE  \A g \in Nodes : EngineOK(g)'
  <2>1. snap'[n].seq = Len(log[n]) /\ snap'[n].for = f /\ \A g \in Nodes \ {n} : snap'[g] = snap[g]
    BY Zenon, <1>4 DEF Capture, Inv, TypeOK
  <2> QED
    BY <1>0, <1>4, <2>1 DEF EngineOK
<1>5. ASSUME NEW n \in Nodes, UNCHANGED <<leader, log, acked>>, snap' = [snap EXCEPT ![n] = Idle]
      PROVE  \A g \in Nodes : EngineOK(g)'
  <2>1. snap'[n].pc = "idle" /\ \A g \in Nodes \ {n} : snap'[g] = snap[g]
    BY Zenon, <1>5, NoConnType DEF Inv, TypeOK
  <2> QED
    BY Zenon, <1>0, <1>5, <2>1 DEF EngineOK
<1>6. ASSUME NEW f \in Nodes, Install(f)
      PROVE  \A g \in Nodes : EngineOK(g)'
  <2>1. /\ log'[f] = Head(chan[f]).body /\ acked'[f] = Len(log'[f]) /\ snap[f].pc = "idle"
        /\ UNCHANGED <<leader, snap>>
        /\ \A g \in Nodes \ {f} : log'[g] = log[g] /\ acked'[g] = acked[g]
    BY Zenon, <1>6 DEF Install, Inv, TypeOK
  <2>2. Len(log'[f]) \in Nat
    BY DEF TypeOK
  <2> QED
    BY <1>0, <2>1, <2>2 DEF EngineOK
<1>7. ASSUME NEW f \in Nodes, Apply(f), ~UNCHANGED <<leader, log, acked, snap>>
      PROVE  \A g \in Nodes : EngineOK(g)'
  <2>1. chan[f] # <<>> /\ follow[f] = "stream" /\ f # leader /\ chan[f] \in Seq(Messages)
    BY Zenon, <1>7 DEF Apply, Inv, TypeOK
  <2>2. Head(chan[f]) = chan[f][1] /\ 1 \in 1..Len(chan[f]) /\ chan[f][1] \in Messages
    BY <2>1, TailFacts
  <2>3. chan[f][1].type = "R"
    BY Zenon, <2>1, <2>2 DEF Inv, Link, Wire
  <2>4. /\ UNCHANGED <<leader, snap>> /\ chan[f][1].seq = acked[f] + 1
        /\ log' = [log EXCEPT ![f] = Append(log[f], chan[f][1].val)]
        /\ acked' = [acked EXCEPT ![f] = chan[f][1].seq]
    BY Zenon, <1>7, <2>2 DEF Apply
  <2>5. chan[f][1].val \in Values
    BY Zenon, <2>2, <2>3, MessageTypes
  <2>6. /\ Len(log'[f]) = Len(log[f]) + 1 /\ acked'[f] = Len(log[f]) + 1
        /\ \A g \in Nodes \ {f} : log'[g] = log[g] /\ acked'[g] = acked[g]
    <3>1. log'[f] = Append(log[f], chan[f][1].val) /\ acked'[f] = acked[f] + 1
      BY Zenon, <2>4 DEF Inv, TypeOK
    <3>2. Len(log'[f]) = Len(log[f]) + 1
      BY <1>0, <2>5, <3>1, SeqFacts
    <3> QED
      BY Zenon, <1>0, <2>1, <2>4, <3>1, <3>2 DEF Inv, TypeOK
  <2>7. snap[f].seq \in Nat
    BY Zenon, <1>0 DEF Snaps
  <2>8. EngineOK(f)'
    BY <1>0, <2>1, <2>4, <2>6, <2>7 DEF EngineOK
  <2> QED
    BY Zenon, <1>0, <2>4, <2>6, <2>8 DEF EngineOK
<1>8. ASSUME NEW n \in Nodes, Stop(n), leader' = leader \/ n = leader
      PROVE  \A g \in Nodes : EngineOK(g)'
  <2>1. PICK k \in acked[n]..Len(log[n]) :
          log' = [log EXCEPT ![n] = SubSeq(log[n], 1, k)] /\ acked' = [acked EXCEPT ![n] = k]
    BY Zenon, <1>8 DEF Stop
  <2>2. k \in 0..Len(log[n]) /\ k \in Nat
    BY <1>0
  <2>3. log'[n] = SubSeq(log[n], 1, k) /\ acked'[n] = k /\ Len(SubSeq(log[n], 1, k)) = k
    BY <1>0, <2>1, <2>2, SeqFacts DEF Inv, TypeOK
  <2>4. snap'[n].pc = "idle" /\ \A g \in Nodes \ {n} : snap'[g] = snap[g]
    BY ZenonT(60), <1>8, NoConnType DEF Stop, Inv, TypeOK
  <2>5. \A g \in Nodes \ {n} : log'[g] = log[g] /\ acked'[g] = acked[g]
    BY Zenon, <2>1 DEF Inv, TypeOK
  <2>6. EngineOK(n)'
    BY <2>2, <2>3, <2>4 DEF EngineOK
  <2>7. ASSUME NEW g \in Nodes \ {n}
        PROVE  EngineOK(g)'
    BY Zenon, <1>0, <1>8, <2>4, <2>5 DEF EngineOK
  <2> QED
    BY Zenon, <2>6, <2>7
<1>9. CASE Failover
  BY Zenon, <1>0, <1>8, <1>9 DEF Failover
<1>10. ASSUME NEW n \in Nodes, TakeSnapshot(n) \/ Resync(n)
       PROVE  \A g \in Nodes : EngineOK(g)'
  BY Zenon, <1>0, <1>4, <1>10 DEF TakeSnapshot, Resync
<1>11. ASSUME NEW n \in Nodes, Rotate(n)
       PROVE  \A g \in Nodes : EngineOK(g)'
  BY Zenon, <1>5, <1>11 DEF Rotate
<1>12. ASSUME NEW n \in Nodes, Restart(n)
       PROVE  \A g \in Nodes : EngineOK(g)'
  BY Zenon, <1>8, <1>12 DEF Restart
<1>13. ASSUME NEW n \in Nodes,
              \/ Dial(n) \/ Drop(n) \/ NoSnapshot(n)
              \/ Accept(n) \/ OpenAfterSnapshot(n) \/ ReadFrame(n) \/ ReadEnd(n) \/ Stat(n)
       PROVE  UNCHANGED <<leader, log, acked, snap>>
  BY Zenon, <1>13 DEF Dial, Drop, NoSnapshot, Accept, OpenAfterSnapshot, ReadFrame, ReadEnd, Stat,
     engines
<1> QED
  BY Zenon, <1>1, <1>2, <1>3, <1>6, <1>7, <1>9, <1>10, <1>11, <1>12, <1>13 DEF Next, Serve, Receive

-----------------------------------------------------------------------------
\* The inductive invariant holds at the start and after every step.
LEMMA Invariance ==
  Init /\ [][Next]_vars => []Inv
<1>1. ASSUME Init
      PROVE  Inv
  <2>1. TypeOK
    BY Zenon, <1>1, TypeInit
  <2>2. \A n \in Nodes : /\ Len(log[n]) = 0 /\ acked[n] = 0 /\ Len(chan[n]) = 0 /\ chan[n] = <<>>
                         /\ snap[n] = Idle /\ conn[n] = NoConn /\ follow[n] = "idle"
    BY Zenon, <1>1 DEF Init
  <2>3. ASSUME NEW n \in Nodes
        PROVE  EngineOK(n)
    <3>1. snap[n].pc # "captured"
      BY Zenon, <2>2, NoConnType
    <3>2. acked[n] = Len(log[n]) /\ acked[n] <= Len(log[n])
      BY <2>2
    <3> QED
      BY Zenon, <3>1, <3>2 DEF EngineOK
  <2>4. ASSUME NEW n \in Nodes
        PROVE  Link(n)
    <3>1. Ends(n)
      BY Zenon, <2>2, NoConnType DEF Ends
    <3>2. Wire(n)
      BY <2>2 DEF Wire
    <3> QED
      BY Zenon, <2>2, <3>1, <3>2 DEF Link, Resumed
  <2> QED
    BY Zenon, <2>1, <2>2, <2>3, <2>4 DEF Inv, TypeOK
<1>2. ASSUME Inv, Next
      PROVE  Inv'
  <2>1. TypeOK'
    BY Zenon, <1>2, TypeOther, TypeRotate, TypeServe, TypeReceive DEF Next, Inv, Link
  <2>2. \A n \in Nodes : EngineOK(n)'
    BY Zenon, <1>2, <2>1, EngineStep
  <2>3. follow'[leader'] = "idle" /\ \A n \in Nodes : Link(n)'
    BY Zenon, <1>2, <2>1, QuietStep, RotateStep, StopStep, DialStep, ServeStep, ReceiveStep DEF Next
  <2> QED
    BY Zenon, <2>1, <2>2, <2>3 DEF Inv
<1>3. ASSUME Inv, UNCHANGED vars
      PROVE  Inv'
  <2>1. TypeOK'
    BY Zenon, <1>3 DEF Inv, TypeOK, vars, engines, streams
  <2>2. UNCHANGED <<leader, log, acked, snap, conn, chan, follow, lapses>>
    BY Zenon, <1>3 DEF vars, engines, streams
  <2>3. ASSUME NEW n \in Nodes
        PROVE  EngineOK(n)' /\ Link(n)'
    <3>1. EngineOK(n)'
      BY Zenon, <1>3, <2>2 DEF Inv, EngineOK
    <3>2. Ends(n)' /\ Wire(n)'
      BY Zenon, <1>3, <2>2 DEF Inv, Link, Ends, Wire, Sent
    <3>3. Alike' /\ Resumed(n)' => Begins(log'[n], log'[leader'])
      BY Zenon, <1>3, <2>2 DEF Inv, Link, Resumed, Alike
    <3> QED
      BY Zenon, <3>1, <3>2, <3>3 DEF Link
  <2> QED
    BY Zenon, <1>3, <2>1, <2>2, <2>3 DEF Inv
<1>4. Inv /\ [Next]_vars => Inv'
  BY Zenon, <1>2, <1>3
<1> QED
  BY <1>1, <1>4, PTL

\* Once its stream has begun a follower's log is the beginning of the leader's, through every
\* rotation, lost connection, restart and failover, for any number of nodes and records.
THEOREM LogsFollow == Spec => []FollowsLeader
<1>1. Inv => FollowsLeader
  BY Zenon DEF Inv, Link, Resumed, Alike, FollowsLeader, Followers
<1> QED
  BY <1>1, Invariance, PTL DEF Spec

=============================================================================
