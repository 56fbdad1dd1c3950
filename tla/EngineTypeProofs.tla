-------------------------- MODULE EngineTypeProofs --------------------------
(***************************************************************************)
(* Engine's type invariant for every set of ids, vectors and metadata,     *)
(* every bound and every choice of environment events; what the steps that *)
(* apply records do to the rest of its invariant.                          *)
(***************************************************************************)
EXTENDS EngineInv, TLAPS

DB == [graph : Graphs, meta : MetaMaps]

\* What the elements, the beginnings and the ends of a sequence are.
LEMMA Element ==
  ASSUME NEW S, NEW s \in Seq(S), NEW n \in 1..Len(s)
  PROVE  s[n] \in S
  OBVIOUS

\* Applying a record to a database gives a database.
LEMMA ApplyType ==
  ASSUME NEW s \in DB, NEW r \in Records
  PROVE  /\ Apply(s, r) \in DB
         /\ GraphAfter(s.graph, r) \in Graphs
         /\ MetaAfter(s, r) \in MetaMaps
  BY Zenon, ConstantsAssumption DEF DB, Apply, GraphAfter, MetaAfter, Graphs, MetaMaps,
     Records, Inserts, Deletes, MetaUpdates

\* So is the state after any number of records.
LEMMA StateAtType ==
  ASSUME TypeOK, NEW n \in 0..Len(log)
  PROVE  StateAt(n) \in DB
<1>1. [graph |-> EmptyGraph, meta |-> EmptyMeta] \in DB
  BY Zenon DEF DB, Graphs, MetaMaps, EmptyGraph, EmptyMeta
<1>2. states \in Seq(DB) /\ Len(states) = Len(log) /\ log \in Seq(Records)
  BY Zenon DEF TypeOK, DB
<1>3. n # 0 => states[n] \in DB
  BY <1>2, Element
<1> QED
  BY Zenon, <1>1, <1>3 DEF StateAt

\* What a prefix of a sequence is.
LEMMA Prefix ==
  ASSUME NEW S, NEW s \in Seq(S), NEW m \in 0..Len(s)
  PROVE  /\ SubSeq(s, 1, m) \in Seq(S)
         /\ Len(SubSeq(s, 1, m)) = m
         /\ \A i \in 1..m : SubSeq(s, 1, m)[i] = s[i]
  OBVIOUS

\* The end of a sequence is a sequence of the same elements.
LEMMA Suffix ==
  ASSUME NEW S, NEW s \in Seq(S), NEW m \in 0..Len(s)
  PROVE  /\ SubSeq(s, m + 1, Len(s)) \in Seq(S)
         /\ Len(SubSeq(s, m + 1, Len(s))) = Len(s) - m
         /\ \A i \in 1..Len(s) - m : SubSeq(s, m + 1, Len(s))[i] = s[m + i]
  OBVIOUS

\* A sequence with one more element, element by element.
LEMMA Extend ==
  ASSUME NEW S, NEW s \in Seq(S), NEW e \in S
  PROVE  /\ Append(s, e) \in Seq(S)
         /\ Len(Append(s, e)) = Len(s) + 1
         /\ \A i \in 1..Len(s) : Append(s, e)[i] = s[i]
         /\ Append(s, e)[Len(s) + 1] = e
  OBVIOUS

-----------------------------------------------------------------------------
(* Types. *)

\* An empty directory, opened.
LEMMA TypeInit == Init => TypeOK
<1> SUFFICES ASSUME Init PROVE TypeOK
  BY Zenon
<1>1. EmptyGraph \in Graphs /\ EmptyMeta \in MetaMaps
  BY Zenon DEF EmptyGraph, EmptyMeta, Graphs, MetaMaps
<1>2. \A S : <<>> \in Seq(S)
  OBVIOUS
<1>3. shadow \in [file : BOOLEAN, wal : Seq(Frames)]
  BY Zenon, <1>2 DEF Init, NoShadow
<1>4. Len(wal) = 0 /\ Len(batch) = 0 /\ Len(states) = Len(log)
  BY Zenon DEF Init
<1>5. snap \in [pc : {"idle", "captured", "metaSaved", "graphSaved", "rotated"}, seq : Nat,
                graph : Graphs, meta : MetaMaps, off : Nat, closing : BOOLEAN]
  BY Zenon, <1>1 DEF Init, NoSnap
<1>6. /\ wal \in Seq(Frames) /\ batch \in Seq(Records) /\ log \in Seq(Records)
      /\ states \in Seq([graph : Graphs, meta : MetaMaps])
  BY Zenon, <1>2 DEF Init
<1>7. snapFile \in [seq : Nat, graph : Graphs]
  BY Zenon, <1>1 DEF Init
<1>8. failed \in BOOLEAN
  BY Zenon DEF Init
<1> QED
  BY <1>1, <1>3, <1>4, <1>5, <1>6, <1>7, <1>8 DEF Init, TypeOK

\* A batch is taken up by commitLocked.
LEMMA TypeBegin == TypeOK /\ Begin => TypeOK'
<1> SUFFICES ASSUME TypeOK, Begin PROVE TypeOK'
  BY Zenon
<1>1. batch' \in Seq(Records) /\ k' \in 0..Len(batch') + 1
  <2>1. PICK n \in 1..MaxBatch : \E b \in [1..n -> Records] : batch' = b
    BY Zenon DEF Begin
  <2>2. batch' \in [1..n -> Records] /\ n \in Nat
    BY <2>1, ConstantsAssumption
  <2>3. batch' \in Seq(Records)
    BY <2>2
  <2> QED
    BY <2>2, <2>3 DEF Begin
<1> QED
  BY SMTT(60), <1>1 DEF TypeOK, Begin, files, memory, history

\* The two modes are told apart.
LEMMA UpIsNotReplay == "up" # "replay"
  BY Zenon

\* One record of the batch reaches the log file.
LEMMA TypeWriteFrame == TypeOK /\ WriteFrame => TypeOK'
<1> SUFFICES ASSUME TypeOK, WriteFrame PROVE TypeOK'
  BY Zenon
<1>1. batch[k] \in Records /\ k \in 1..Len(batch)
  BY SMTT(60), Element DEF TypeOK, WriteFrame
<1>2. wal' \in Seq(Frames) /\ Len(wal') = Len(wal) + 1
  BY <1>1, Extend DEF TypeOK, WriteFrame, Frames
<1>3. log' \in Seq(Records) /\ Len(log') = Len(log) + 1
  BY <1>1, Extend DEF TypeOK, WriteFrame
<1>4. states' \in Seq(DB) /\ Len(states') = Len(states) + 1
  <2>1. StateAt(Len(log)) \in DB
    BY SMTT(60), StateAtType DEF TypeOK
  <2>2. Apply(StateAt(Len(log)), batch[k]) \in DB
    BY Zenon, <1>1, <2>1, ApplyType
  <2> QED
    <3>1. states \in Seq(DB)
      BY Zenon DEF TypeOK, DB
    <3>2. states' = Append(states, Apply(StateAt(Len(log)), batch[k]))
      BY Zenon DEF WriteFrame
    <3> QED
      BY Zenon, <2>2, <3>1, <3>2, Extend
<1>5. k' \in 0..Len(batch') + 1 /\ k' > 0
  BY <1>1 DEF TypeOK, WriteFrame
<1>6. synced' \in 0..Len(wal') /\ mode = "up"
  BY <1>2 DEF TypeOK, WriteFrame
<1>7. Len(states') = Len(log')
  BY Zenon, <1>3, <1>4 DEF TypeOK
<1>8. UNCHANGED <<tail, shadow, snapFile, metaFile, metaSeq, mode, graph, metadata, seq,
                  snapshotSeq, nextSeq, failed, rpos, seen, phase, batch, snap, acked, lapses,
                  events, snaps>>
  BY Zenon DEF WriteFrame, memory
<1> QED
  BY SMTT(60), <1>2, <1>3, <1>4, <1>5, <1>6, <1>7, <1>8, UpIsNotReplay DEF TypeOK, DB

\* A failed write or fsync leaves the writer poisoned.
LEMMA TypePoison == TypeOK /\ (WriteFails \/ SyncFails) => TypeOK'
<1>1. ASSUME TypeOK, NEW rest \in {"clean", "torn", "hole"}, Poison(rest), Event("write") \/ Event("sync")
      PROVE  TypeOK'
  <2>1. events' \in Nat
    BY SMTT(60), <1>1 DEF TypeOK, Event
  <2>2. batch' \in Seq(Records) /\ k' \in 0..Len(batch') + 1
    BY <1>1 DEF Poison
  <2>3. failed' \in BOOLEAN /\ phase' = "idle" /\ tail' \in {"clean", "torn", "hole"}
    BY Zenon, <1>1 DEF Poison
  <2>4. UNCHANGED <<wal, synced, shadow, snapFile, metaFile, metaSeq, mode, graph, metadata,
                    seq, snapshotSeq, nextSeq, rpos, seen, snap, log, states, acked, lapses, snaps>>
    BY Zenon, <1>1 DEF Poison, history
  <2> QED
    BY Zenon, <1>1, <2>1, <2>2, <2>3, <2>4 DEF TypeOK
<1> QED
  BY Zenon, <1>1 DEF WriteFails, SyncFails, TypeOK

\* The fsync of a batch.
LEMMA TypeSync == TypeOK /\ Sync => TypeOK'
  BY SMTT(60) DEF TypeOK, Sync, history

\* One record of the batch is applied to the graph.
LEMMA TypeApplyGraph == TypeOK /\ ApplyGraph => TypeOK'
<1> SUFFICES ASSUME TypeOK, ApplyGraph PROVE TypeOK'
  BY Zenon
<1>1. batch[k] \in Records /\ k \in 1..Len(batch)
  BY Element DEF TypeOK, ApplyGraph
<1>2. graph' \in Graphs
  <2>1. [graph |-> graph, meta |-> metadata] \in DB
    BY Zenon DEF TypeOK, DB
  <2> QED
    BY Zenon, <1>1, <2>1, ApplyType DEF ApplyGraph
<1> QED
  BY <1>1, <1>2 DEF TypeOK, ApplyGraph, files, history, Stored

\* The whole batch is in the graph.
LEMMA TypeGraphDone == TypeOK /\ GraphDone => TypeOK'
  BY SMTT(60) DEF TypeOK, GraphDone, files, memory, history

\* One record of the batch is applied to the metadata.
LEMMA TypeApplyMeta == TypeOK /\ ApplyMeta => TypeOK'
<1> SUFFICES ASSUME TypeOK, ApplyMeta PROVE TypeOK'
  BY Zenon
<1>1. batch[k] \in Records /\ k \in 1..Len(batch)
  BY Element DEF TypeOK, ApplyMeta
<1>2. metadata' \in MetaMaps
  BY Zenon, <1>1 DEF TypeOK, ApplyMeta, SetMeta, MetaMaps, Records, Inserts, Deletes, MetaUpdates
<1> QED
  BY SMTT(60), <1>1, <1>2 DEF TypeOK, ApplyMeta, files, history

\* The callers are answered.
LEMMA TypeAcknowledge == TypeOK /\ Acknowledge => TypeOK'
  BY SMTT(60) DEF TypeOK, Acknowledge, files

\* A snapshot captures its view.
LEMMA TypeSnapCapture == TypeOK /\ SnapCapture => TypeOK'
  BY SMTT(60) DEF TypeOK, SnapCapture, files, memory, commit, history

\* What is remembered of a replaced file, when nothing is.
LEMMA NoShadowType == NoShadow \in [file : BOOLEAN, wal : Seq(Frames)]
<1>1. <<>> \in Seq(Frames)
  OBVIOUS
<1> QED
  BY Zenon, <1>1 DEF NoShadow

\* A snapshot writes one of its two files.
LEMMA TypeSnapSave == TypeOK /\ (SnapSaveMeta \/ SnapSaveGraph) => TypeOK'
<1>1. ASSUME TypeOK, SnapSaveMeta PROVE TypeOK'
  <2>1. metaFile' \in MetaMaps /\ metaSeq' \in Nat /\ mode = "up"
    BY Zenon, <1>1 DEF TypeOK, SnapSaveMeta
  <2>2. /\ snap' \in [pc : {"idle", "captured", "metaSaved", "graphSaved", "rotated"}, seq : Nat,
                      graph : Graphs, meta : MetaMaps, off : Nat, closing : BOOLEAN]
    BY Zenon, <1>1 DEF TypeOK, SnapSaveMeta
  <2> QED
    BY Zenon, <1>1, <2>1, <2>2, NoShadowType DEF TypeOK, SnapSaveMeta, memory, commit, history
<1>2. ASSUME TypeOK, SnapSaveGraph PROVE TypeOK'
  <2>1. snapFile' \in [seq : Nat, graph : Graphs]
    BY Zenon, <1>2 DEF TypeOK, SnapSaveGraph
  <2> QED
    BY Zenon, <1>2, <2>1, NoShadowType DEF TypeOK, SnapSaveGraph, memory, commit, history
<1> QED
  BY Zenon, <1>1, <1>2

\* A snapshot that is not under way.
LEMMA NoSnapType ==
  NoSnap \in [pc : {"idle", "captured", "metaSaved", "graphSaved", "rotated"}, seq : Nat,
              graph : Graphs, meta : MetaMaps, off : Nat, closing : BOOLEAN]
<1>1. EmptyGraph \in Graphs /\ EmptyMeta \in MetaMaps
  BY Zenon DEF EmptyGraph, EmptyMeta, Graphs, MetaMaps
<1> QED
  BY Zenon, <1>1 DEF NoSnap

\* A snapshot gives up.
LEMMA TypeSnapFails == TypeOK /\ SnapFails => TypeOK'
<1> SUFFICES ASSUME TypeOK, SnapFails PROVE TypeOK'
  BY Zenon
<1>1. snapFile' \in [seq : Nat, graph : Graphs] /\ metaFile' \in MetaMaps /\ metaSeq' \in Nat
  BY SMTT(60) DEF TypeOK, SnapFails
<1>2. events' \in Nat
  BY DEF TypeOK, SnapFails, Event
<1>3. snap' = NoSnap /\ mode = "up"
  BY Zenon DEF TypeOK, SnapFails
<1>4. UNCHANGED <<wal, tail, synced, shadow, mode, graph, metadata, seq, snapshotSeq, nextSeq,
                  failed, rpos, seen, phase, batch, k, log, states, acked, lapses, snaps>>
  BY Zenon DEF SnapFails, memory, commit, history
<1> QED
  BY SMTT(60), <1>1, <1>2, <1>3, <1>4, NoSnapType DEF TypeOK

\* The log is replaced by its records after the snapshot.
LEMMA TypeRotate == TypeOK /\ Rotate => TypeOK'
<1> SUFFICES ASSUME TypeOK, Rotate PROVE TypeOK'
  BY Zenon
<1>0. /\ wal' = SubSeq(wal, snap.off + 1, Len(wal)) /\ synced' = Len(wal')
      /\ nextSeq' = seq + 1 /\ snapshotSeq' = snap.seq
      /\ snap' = IF snap.closing THEN [snap EXCEPT !.pc = "rotated"] ELSE NoSnap
  BY Zenon DEF Rotate, CopyTail, FirstSeq
<1>1. wal' \in Seq(Frames) /\ Len(wal') \in Nat
  <2>1. wal \in Seq(Frames) /\ snap.off \in Nat /\ Len(wal) \in Nat
    BY DEF TypeOK
  <2>2. \A i \in snap.off + 1 .. Len(wal) : wal[i] \in Frames
    BY <2>1, Element
  <2>3. SubSeq(wal, snap.off + 1, Len(wal)) \in Seq(Frames)
    BY <2>1, <2>2, Suffix, Prefix
  <2> QED
    BY <1>0, <2>3
<1>2. SubSeq(wal, 1, synced) \in Seq(Frames)
  BY SMTT(60), Prefix DEF TypeOK
<1>3. shadow' \in [file : BOOLEAN, wal : Seq(Frames)]
  <2>1. PICK p \in Seq(Frames) : shadow' = NoShadow \/ shadow' = [file |-> TRUE, wal |-> p]
    BY Zenon, <1>2 DEF Rotate, CopyTail, FirstSeq
  <2>2. [file |-> TRUE, wal |-> p] \in [file : BOOLEAN, wal : Seq(Frames)]
    BY Zenon
  <2> QED
    BY Zenon, <2>1, <2>2, NoShadowType
<1>4. snap' \in [pc : {"idle", "captured", "metaSaved", "graphSaved", "rotated"}, seq : Nat,
                 graph : Graphs, meta : MetaMaps, off : Nat, closing : BOOLEAN]
  BY Zenon, <1>0, NoSnapType DEF TypeOK
<1>5. events' \in Nat
  <2>1. events' = events \/ events' = events + 1
    BY Zenon DEF Rotate, CopyTail, FirstSeq, Event
  <2> QED
    BY SMTT(60), <2>1 DEF TypeOK
<1>6. mode = "up"
  BY Zenon DEF TypeOK, Rotate, CopyTail, FirstSeq
<1>7. lapses' \subseteq {"poisonedRotation", "reorderedPages", "unsyncedReplay", "unsyncedEntry"}
  BY Zenon DEF TypeOK, Rotate, CopyTail, FirstSeq
<1>8. synced' \in 0..Len(wal') /\ tail' = "clean"
  BY <1>0, <1>1 DEF Rotate, CopyTail, FirstSeq
<1>10. failed' \in BOOLEAN
  BY Zenon DEF Rotate, CopyTail, FirstSeq
<1>9. UNCHANGED <<snapFile, metaFile, metaSeq, mode, graph, metadata, seq, rpos, seen,
                  phase, batch, k, log, states, acked, snaps>>
  BY Zenon DEF Rotate, CopyTail, FirstSeq, commit
<1>11. nextSeq' \in Nat /\ nextSeq' > 0 /\ snapshotSeq' \in Nat
  <2>1. nextSeq' = seq + 1 /\ snapshotSeq' = snap.seq
    BY Zenon, <1>0
  <2>2. seq \in Nat /\ snap.seq \in Nat
    BY Zenon DEF TypeOK
  <2> QED
    BY <2>1, <2>2
<1> QED
  BY Zenon, <1>1, <1>3, <1>4, <1>5, <1>6, <1>7, <1>8, <1>9, <1>10, <1>11 DEF TypeOK

\* The process is gone, and its memory with it.
LEMMA TypeStop ==
  ASSUME TypeOK, Stop,
         wal' \in Seq(Frames), tail' \in {"clean", "torn", "hole"}, synced' \in 0..Len(wal'),
         shadow' \in [file : BOOLEAN, wal : Seq(Frames)],
         UNCHANGED <<snapFile, metaFile, metaSeq, acked, snaps>>,
         log' \in Seq(Records), Len(states') = Len(log'), states' \in Seq(DB),
         events' \in Nat,
         lapses' \subseteq {"poisonedRotation", "reorderedPages", "unsyncedReplay",
                            "unsyncedEntry"}
  PROVE  TypeOK'
<1>1. EmptyGraph \in Graphs /\ EmptyMeta \in MetaMaps
  BY Zenon DEF EmptyGraph, EmptyMeta, Graphs, MetaMaps
<1>2. failed' \in BOOLEAN
  BY Zenon DEF Stop
<1>3. batch' \in Seq(Records) /\ Len(batch') = 0
  BY DEF Stop
<1>4. NoSnap.pc = "idle"
  BY Zenon DEF NoSnap
<1> QED
  BY <1>1, <1>2, <1>3, <1>4, NoSnapType DEF TypeOK, Stop, DB

\* The history cut to what a power loss left.
LEMMA ForgetType ==
  ASSUME TypeOK, NEW n \in Nat, Forget(n)
  PROVE  log' \in Seq(Records) /\ Len(states') = Len(log') /\ states' \in Seq(DB)
<1>1. PICK m \in 0..Len(log) : log' = SubSeq(log, 1, m) /\ states' = SubSeq(states, 1, m)
  <2>1. Least(n, Len(log)) \in 0..Len(log)
    BY DEF Least, TypeOK
  <2> QED
    BY Zenon, <2>1 DEF Forget
<1>2. log \in Seq(Records) /\ states \in Seq(DB) /\ Len(states) = Len(log)
  BY Zenon DEF TypeOK, DB
<1>3. log' \in Seq(Records) /\ Len(log') = m
  BY Zenon, <1>1, <1>2, Prefix
<1>4. states' \in Seq(DB) /\ Len(states') = m
  BY Zenon, <1>1, <1>2, Prefix
<1> QED
  BY Zenon, <1>3, <1>4

\* The numbers recovery gets to.
LEMMA ReachedType ==
  ASSUME TypeOK, NEW w \in Seq(Frames), NEW n \in 0..Len(w)
  PROVE  Reached(w, n) \in Nat
<1>1. snapFile.seq \in Nat
  BY Zenon DEF TypeOK
<1>2. CASE n = 0
  BY Zenon, <1>1, <1>2 DEF Reached
<1>3. CASE n # 0
  <2>1. w[n] \in Frames
    BY <1>3, Element
  <2>2. w[n].seq \in Nat
    BY Zenon, <2>1 DEF Frames
  <2> QED
    BY Zenon, <1>1, <1>3, <2>2 DEF Reached, Greatest
<1> QED
  BY Zenon, <1>2, <1>3

\* Close, a kill and both kinds of power loss.
LEMMA TypeCrash == TypeOK /\ Crash => TypeOK'
<1> SUFFICES ASSUME TypeOK, Crash PROVE TypeOK'
  BY Zenon
<1>1. CASE Close
  <2>1. Stop /\ UNCHANGED <<files, history, events, snaps>>
    BY Zenon, <1>1 DEF Close
  <2> QED
    BY Zenon, <2>1, TypeStop DEF TypeOK, files, history, DB
<1>2. CASE Kill
  <2>1. Stop /\ UNCHANGED <<wal, synced, shadow, snapFile, metaFile, metaSeq, history, snaps>>
    BY Zenon, <1>2 DEF Kill
  <2>2. tail' \in {"clean", "torn", "hole"} /\ events' \in Nat
    BY SMTT(60), <1>2 DEF Kill, Event, TypeOK
  <2> QED
    BY Zenon, <2>1, <2>2, TypeStop DEF TypeOK, history, DB
<1>3. CASE PowerLoss
  <2>1. PICK n \in synced..Len(wal) :
          /\ wal' = SubSeq(wal, 1, n) /\ synced' = n
          /\ Forget(Reached(wal, n))
    BY Zenon, <1>3 DEF PowerLoss
  <2>2. n \in 0..Len(wal)
    BY DEF TypeOK
  <2>3. wal' \in Seq(Frames) /\ Len(wal') = n
    BY SMTT(60), <2>1, <2>2, Prefix DEF TypeOK
  <2>4. log' \in Seq(Records) /\ Len(states') = Len(log') /\ states' \in Seq(DB)
    <3>1. Reached(wal, n) \in Nat
      BY SMTT(60), <2>2, ReachedType DEF TypeOK
    <3> QED
      BY Zenon, <2>1, <3>1, ForgetType
  <2>5. events' \in Nat
    BY <1>3 DEF PowerLoss, Event, TypeOK
  <2>6. lapses' \subseteq {"poisonedRotation", "reorderedPages", "unsyncedReplay",
                           "unsyncedEntry"}
    BY Zenon, <1>3 DEF PowerLoss, TypeOK
  <2>7. tail' \in {"clean", "torn", "hole"}
    BY Zenon, <1>3 DEF PowerLoss
  <2>8. Stop /\ shadow' = NoShadow /\ UNCHANGED <<snapFile, metaFile, metaSeq, acked, snaps>>
    BY Zenon, <1>3 DEF PowerLoss
  <2> QED
    BY <2>1, <2>2, <2>3, <2>4, <2>5, <2>6, <2>7, <2>8, NoShadowType, TypeStop
<1>4. CASE PowerLossEntry
  <2>1. shadow.wal \in Seq(Frames)
    BY Zenon DEF TypeOK
  <2>2. wal' \in Seq(Frames) /\ synced' \in 0..Len(wal')
    BY <1>4, <2>1 DEF PowerLossEntry
  <2>3. Reached(shadow.wal, Len(shadow.wal)) \in Nat
    BY <2>1, ReachedType
  <2>4. log' \in Seq(Records) /\ Len(states') = Len(log') /\ states' \in Seq(DB)
    BY Zenon, <1>4, <2>3, ForgetType DEF PowerLossEntry
  <2>5. events' \in Nat /\ tail' = "clean"
    BY <1>4 DEF PowerLossEntry, Event, TypeOK
  <2>6. lapses' \subseteq {"poisonedRotation", "reorderedPages", "unsyncedReplay",
                           "unsyncedEntry"}
    BY Zenon, <1>4 DEF PowerLossEntry, TypeOK
  <2>7. Stop /\ shadow' = NoShadow /\ UNCHANGED <<snapFile, metaFile, metaSeq, acked, snaps>>
    BY Zenon, <1>4 DEF PowerLossEntry
  <2> QED
    BY Zenon, <2>2, <2>4, <2>5, <2>6, <2>7, NoShadowType, TypeStop
<1> QED
  BY Zenon, <1>1, <1>2, <1>3, <1>4 DEF Crash

\* The steps of Open: loading, replaying, refusing, finishing.
LEMMA TypeOpen == TypeOK /\ Open => TypeOK'
<1> SUFFICES ASSUME TypeOK, Open PROVE TypeOK'
  BY Zenon
<1>1. CASE OpenLoad
  <2>1. graph' \in Graphs /\ metadata' \in MetaMaps /\ seq' \in Nat /\ snapshotSeq' \in Nat
    BY SMTT(60), <1>1 DEF OpenLoad, TypeOK
  <2>2. mode' = "replay" /\ rpos' \in Nat /\ rpos' <= Len(wal) /\ phase = "idle" /\ snap.pc = "idle"
    BY SMTT(60), <1>1 DEF OpenLoad, TypeOK
  <2>3. UNCHANGED <<wal, tail, synced, shadow, snapFile, metaFile, metaSeq, nextSeq, failed, seen,
                    phase, batch, k, snap, log, states, acked, lapses, events, snaps>>
    BY Zenon, <1>1 DEF OpenLoad, files, commit, history
  <2>4. mode' \in {"down", "replay", "up", "refused"} /\ mode' # "up"
    BY Zenon, <2>2
  <2> QED
    BY ZenonT(60), <2>1, <2>2, <2>3, <2>4 DEF TypeOK
<1>2. CASE OpenReplay
  <2> DEFINE f == wal[rpos + 1]
  <2>1. f \in Frames /\ rpos + 1 <= Len(wal)
    <3>1. wal \in Seq(Frames) /\ rpos \in Nat /\ rpos < Len(wal)
      BY Zenon, <1>2 DEF OpenReplay, TypeOK
    <3> QED
      BY <3>1, Element
  <2>2. f.rec \in Records /\ f.seq \in Nat
    BY Zenon, <2>1 DEF Frames
  <2>3. [graph |-> graph, meta |-> metadata] \in DB
    BY Zenon DEF TypeOK, DB
  <2>4. GraphAfter(graph, f.rec) \in Graphs
    BY Zenon, <2>2, <2>3, ApplyType
  <2>5. [metadata EXCEPT ![f.rec.id] = f.rec.meta] \in MetaMaps
    <3>1. f.rec.id \in Ids /\ f.rec.meta \in Metas \cup {NoMeta}
      BY Zenon, <2>2 DEF Records, Inserts, Deletes, MetaUpdates
    <3> QED
      BY SMTT(60), <3>1 DEF TypeOK, MetaMaps
  <2>6. graph' \in Graphs /\ metadata' \in MetaMaps /\ seq' \in Nat /\ rpos' = rpos + 1
    BY Zenon, <1>2, <2>2, <2>4, <2>5 DEF OpenReplay, TypeOK
  <2> QED
    <3>1. rpos' \in Nat /\ rpos' <= Len(wal)
      BY <2>1, <2>6 DEF TypeOK
    <3>2. UNCHANGED <<wal, tail, synced, shadow, snapFile, metaFile, metaSeq, mode, snapshotSeq,
                      nextSeq, failed, seen, phase, batch, k, snap, log, states, acked, lapses,
                      events, snaps>>
      BY Zenon, <1>2 DEF OpenReplay, files, commit, history
    <3> QED
      BY SMTT(60), <2>6, <3>1, <3>2 DEF TypeOK
<1>3. CASE OpenRefuses
  <2>1. mode = "replay" /\ mode' = "refused"
    BY Zenon, <1>3 DEF OpenRefuses
  <2>2. phase = "idle" /\ snap.pc = "idle"
    BY Zenon, <2>1 DEF TypeOK
  <2>3. UNCHANGED <<wal, tail, synced, shadow, snapFile, metaFile, metaSeq, graph, metadata, seq,
                    snapshotSeq, nextSeq, failed, rpos, seen, phase, batch, k, snap, log, states,
                    acked, lapses, events, snaps>>
    BY Zenon, <1>3 DEF OpenRefuses, files, memory, commit, history
  <2>4. mode' \in {"down", "replay", "up", "refused"} /\ mode' # "replay" /\ mode' # "up"
    BY Zenon, <2>1
  <2> QED
    BY Zenon, <2>2, <2>3, <2>4 DEF TypeOK
<1>4. CASE OpenFinish
  <2>1. failed' \in BOOLEAN
    BY <1>4, Zenon DEF OpenFinish, FirstSeq
  <2>2. metadata' \in MetaMaps
    BY Zenon, <1>4 DEF OpenFinish, FirstSeq, TypeOK, MetaMaps
  <2>3. tail' \in {"clean", "torn", "hole"} /\ nextSeq' \in Nat /\ nextSeq' > 0 /\ rpos' \in Nat
    BY SMTT(60), <1>4 DEF OpenFinish, FirstSeq, TypeOK
  <2>4. seen' \subseteq Ids
    BY Zenon, <1>4 DEF OpenFinish, Stored
  <2>5. mode' = "up" /\ mode' \in {"down", "replay", "up", "refused"} /\ mode' # "replay"
    BY Zenon, <1>4 DEF OpenFinish
  <2>6. UNCHANGED <<wal, synced, shadow, snapFile, metaFile, metaSeq, graph, seq, snapshotSeq,
  phase,
                    batch, k, snap, log, states, acked, lapses, events, snaps>>
    BY Zenon, <1>4 DEF OpenFinish, commit, history
  <2> QED
    BY ZenonT(60), <2>1, <2>2, <2>3, <2>4, <2>5, <2>6 DEF TypeOK
<1> QED
  BY Zenon, <1>1, <1>2, <1>3, <1>4 DEF Open

\* Every step keeps the types.
LEMMA TypeNext == TypeOK /\ [Next]_vars => TypeOK'
<1>1. TypeOK /\ UNCHANGED vars => TypeOK'
  BY ZenonT(60) DEF TypeOK, vars, files, memory, commit, history
<1> QED
  BY Zenon, <1>1, TypeBegin, TypeWriteFrame, TypePoison, TypeSync, TypeApplyGraph, TypeGraphDone,
     TypeApplyMeta, TypeAcknowledge, TypeSnapCapture, TypeSnapSave, TypeSnapFails, TypeRotate,
     TypeCrash, TypeOpen
     DEF Next, Commit, Snapshot

\* Every variable of the engine keeps its type, the log and the states it
\* describes stay equally long, and a commit or a snapshot only ever runs in
\* an engine that is up.
THEOREM TypeCorrect == Spec => []TypeOK
  BY TypeInit, TypeNext, PTL DEF Spec


-----------------------------------------------------------------------------
(* The history: it is left alone, extended by one record, or cut. *)

\* The numbers among the variables.
LEMMA Numbers ==
  ASSUME TypeOK
  PROVE  /\ seq \in Nat /\ snapshotSeq \in Nat /\ nextSeq \in Nat /\ rpos \in Nat /\ k \in Nat
         /\ metaSeq \in Nat /\ acked \in Nat /\ snapFile.seq \in Nat
         /\ snap.seq \in Nat /\ snap.off \in Nat
         /\ Len(log) \in Nat /\ Len(wal) \in Nat /\ Len(batch) \in Nat
         /\ synced \in Nat /\ synced <= Len(wal) /\ k <= Len(batch) + 1
  BY SMTT(60) DEF TypeOK

\* A number before the first record of the log is an integer.
LEMMA BaseInt ==
  ASSUME TypeOK
  PROVE  Base \in Int /\ Len(wal) = Len(log) - Base
  BY Numbers DEF Base

\* The numbers that the files and the history are about, and their order.
LEMMA FileNumbers ==
  ASSUME TypeOK
  PROVE  /\ snapFile.seq \in Nat /\ metaSeq \in Nat /\ acked \in Nat /\ synced \in Nat
         /\ Len(log) \in Nat /\ Len(wal) \in Nat /\ synced <= Len(wal)
  BY Zenon, Numbers

\* The order of the numbers in the files and the history.
LEMMA FileOrder ==
  ASSUME TypeOK, Core
  PROVE  /\ Base <= snapFile.seq /\ snapFile.seq <= metaSeq /\ metaSeq <= Len(log)
         /\ snapFile.seq <= Len(log) /\ acked <= Len(log) /\ Len(wal) <= Len(log)
<1>1. snapFile.seq <= metaSeq /\ metaSeq <= Len(log)
  BY Zenon DEF Core, FilesInv
<1>2. acked <= Len(log)
  BY Zenon DEF Core, DurableInv
<1>3. Base <= snapFile.seq /\ Len(wal) <= Len(log)
  BY Zenon DEF Core, WalInv
<1> QED
  BY <1>1, <1>2, <1>3, FileNumbers

\* The history tells the same states when its records are the same.
LEMMA StatesSame ==
  ASSUME UNCHANGED <<log, states>>
  PROVE  \A n : StateAt(n)' = StateAt(n)
  BY Zenon DEF StateAt

\* The part of the invariant about the history, when nothing it speaks of changes.
LEMMA HistorySame ==
  ASSUME HistoryInv, UNCHANGED <<log, states>>
  PROVE  HistoryInv'
  BY SMTT(60), StatesSame DEF HistoryInv, StatesFollow, NoStrayMeta, Frame, Removal, Untouched

\* What one record does to one id.
LEMMA ApplyAt ==
  ASSUME NEW s \in DB, NEW r \in Records, NEW id \in Ids
  PROVE  /\ r.id # id => /\ Apply(s, r).graph[id] = s.graph[id]
                         /\ Apply(s, r).meta[id] = s.meta[id]
         /\ s.graph[id] # Absent /\ Apply(s, r).graph[id] = Absent => r.op = "delete" /\ r.id = id
         /\ (s.graph[id] = Absent => s.meta[id] = NoMeta) =>
              (Apply(s, r).graph[id] = Absent => Apply(s, r).meta[id] = NoMeta)
         /\ r.id = id /\ Apply(s, r).graph[id] # Absent => Apply(s, r).meta[id] = r.meta
  BY Zenon, ConstantsAssumption DEF DB, Apply, GraphAfter, MetaAfter, Graphs, MetaMaps,
     Records, Inserts, Deletes, MetaUpdates

\* One more record is logged.
Grows(r) ==
  /\ log' = Append(log, r)
  /\ states' = Append(states, Apply(StateAt(Len(log)), r))

\* What a history with one more record is.
LEMMA GrowsFacts ==
  ASSUME TypeOK, NEW r \in Records, Grows(r)
  PROVE  /\ Len(log') = Len(log) + 1 /\ log'[Len(log) + 1] = r
         /\ \A n \in 1..Len(log) : log'[n] = log[n]
         /\ \A n \in 0..Len(log) : StateAt(n)' = StateAt(n)
         /\ StateAt(Len(log))' = Apply(StateAt(Len(log)), r)
<1>1. Len(log) \in Nat /\ StateAt(Len(log)) \in DB
  BY SMTT(60), StateAtType DEF TypeOK
<1>2. PICK a \in DB : a = Apply(StateAt(Len(log)), r)
  BY Zenon, <1>1, ApplyType
<1>3. /\ Len(log') = Len(log) + 1 /\ log'[Len(log) + 1] = r
      /\ \A n \in 1..Len(log) : log'[n] = log[n]
  BY Extend DEF TypeOK, Grows
<1>4. /\ states'[Len(log) + 1] = a
      /\ \A n \in 1..Len(log) : states'[n] = states[n]
  <2>1. states \in Seq(DB) /\ Len(states) = Len(log) /\ states' = Append(states, a)
    BY Zenon, <1>2 DEF TypeOK, DB, Grows
  <2> QED
    BY <2>1, Extend
<1>5. StateAt(Len(log))' = a
  BY <1>1, <1>3, <1>4 DEF StateAt
<1>6. ASSUME NEW n \in 0..Len(log) PROVE StateAt(n)' = StateAt(n)
  <2>1. n # 0 => states'[n] = states[n]
    BY <1>1, <1>4
  <2> QED
    BY Zenon, <2>1 DEF StateAt
<1> QED
  BY Zenon, <1>2, <1>3, <1>5, <1>6

\* It keeps the part of the invariant about the history.
LEMMA HistoryGrows ==
  ASSUME TypeOK, HistoryInv, NEW r \in Records, Grows(r)
  PROVE  HistoryInv'
<1>1. PICK N \in Nat : N = Len(log)
  BY DEF TypeOK
<1>2. PICK S \in DB : S = StateAt(N)
  BY <1>1, StateAtType
<1>3. /\ Len(log') = N + 1 /\ log'[N + 1] = r
      /\ \A n \in 1..N : log'[n] = log[n]
      /\ \A n \in 0..N : StateAt(n)' = StateAt(n)
      /\ StateAt(N + 1)' = Apply(S, r)
  <2>1. Len(log') = N + 1 /\ StateAt(Len(log))' = Apply(S, r)
    BY Zenon, <1>1, <1>2, GrowsFacts
  <2>2. StateAt(Len(log))' = StateAt(N + 1)'
    BY Zenon, <2>1
  <2> QED
    BY Zenon, <1>1, <2>1, <2>2, GrowsFacts
<1>4. StatesFollow'
  <2> SUFFICES ASSUME NEW n \in 1..N + 1
               PROVE  StateAt(n)' = Apply(StateAt(n - 1)', log'[n])
    BY Zenon, <1>3 DEF StatesFollow
  <2>1. CASE n \in 1..N
    BY <2>1, <1>1, <1>3 DEF HistoryInv, StatesFollow
  <2>2. CASE n = N + 1
    BY <2>2, <1>2, <1>3
  <2> QED
    BY <2>1, <2>2
<1>5. NoStrayMeta'
  <2> SUFFICES ASSUME NEW n \in 0..N + 1, NEW id \in Ids, (StateAt(n)').graph[id] = Absent
               PROVE  (StateAt(n)').meta[id] = NoMeta
    BY Zenon, <1>3 DEF NoStrayMeta
  <2>1. CASE n \in 0..N
    BY Zenon, <2>1, <1>1, <1>3 DEF HistoryInv, NoStrayMeta
  <2>2. CASE n = N + 1
    <3>1. S.graph[id] = Absent => S.meta[id] = NoMeta
      BY <1>1, <1>2 DEF HistoryInv, NoStrayMeta
    <3> QED
      BY <2>2, <3>1, <1>3, ApplyAt
  <2> QED
    BY <2>1, <2>2
<1>6. Frame'
  <2> SUFFICES ASSUME NEW i \in 0..N + 1, NEW j \in i..N + 1, NEW id \in Ids,
                      \A n \in i + 1..j : log'[n].id # id
               PROVE  /\ (StateAt(j)').graph[id] = (StateAt(i)').graph[id]
                      /\ (StateAt(j)').meta[id] = (StateAt(i)').meta[id]
    BY <1>3 DEF Frame, Untouched
  <2>1. ASSUME NEW m \in i..N, m <= j
        PROVE  /\ StateAt(m).graph[id] = StateAt(i).graph[id]
               /\ StateAt(m).meta[id] = StateAt(i).meta[id]
    <3>1. i \in 0..N
      BY <2>1
    <3>2. \A n \in i + 1..m : log[n].id # id
      BY <2>1, <3>1, <1>3
    <3> QED
      BY SMTT(60), <2>1, <3>1, <3>2, <1>1 DEF HistoryInv, Frame, Untouched
  <2>2. CASE j <= N
    BY <2>1, <2>2, <1>3
  <2>3. CASE j = N + 1 /\ i <= N
    <3>1. S.graph[id] = StateAt(i).graph[id] /\ S.meta[id] = StateAt(i).meta[id]
      BY <2>3, <2>1, <1>2
    <3>2. r.id # id
      BY <2>3, <1>3
    <3>3. Apply(S, r).graph[id] = S.graph[id] /\ Apply(S, r).meta[id] = S.meta[id]
      BY Zenon, <3>2, ApplyAt
    <3> QED
      BY <2>3, <3>1, <3>3, <1>3
  <2>4. CASE j = i
    BY Zenon, <2>4
  <2> QED
    BY <2>2, <2>3, <2>4
<1>7. Removal'
  <2> SUFFICES ASSUME NEW i \in 0..N + 1, NEW j \in i..N + 1, NEW id \in Ids,
                      (StateAt(i)').graph[id] # Absent, (StateAt(j)').graph[id] = Absent
               PROVE  \E n \in i + 1..j : log'[n].op = "delete" /\ log'[n].id = id
    BY Zenon, <1>3 DEF Removal
  <2>1. ASSUME NEW m \in i..N, m <= j, StateAt(m).graph[id] = Absent
        PROVE  \E n \in i + 1..j : log'[n].op = "delete" /\ log'[n].id = id
    <3>1. i \in 0..N /\ StateAt(i).graph[id] # Absent
      BY <2>1, <1>3
    <3>2. PICK n \in i + 1..m : log[n].op = "delete" /\ log[n].id = id
      <4>1. i \in 0..Len(log) /\ m \in i..Len(log)
        BY Zenon, <2>1, <3>1, <1>1
      <4> QED
        BY Zenon, <4>1, <2>1, <3>1 DEF HistoryInv, Removal
    <3>3. n \in 1..N /\ n \in i + 1..j
      BY <2>1, <3>1
    <3> QED
      BY Zenon, <3>2, <3>3, <1>3
  <2>2. CASE j <= N
    BY <2>1, <2>2, <1>3
  <2>3. CASE j = N + 1 /\ i <= N /\ S.graph[id] = Absent
    BY <2>3, <2>1, <1>2
  <2>4. CASE j = N + 1 /\ i <= N /\ S.graph[id] # Absent
    <3>1. r.op = "delete" /\ r.id = id
      BY Zenon, <2>4, <1>3, ApplyAt
    <3> QED
      BY <2>4, <3>1, <1>3
  <2>5. CASE j = i
    BY Zenon, <2>5
  <2> QED
    BY <2>2, <2>3, <2>4, <2>5
<1> QED
  BY Zenon, <1>4, <1>5, <1>6, <1>7 DEF HistoryInv

\* The log is cut to its first m records.
Shrinks(m) == log' = SubSeq(log, 1, m) /\ states' = SubSeq(states, 1, m)

\* What a history cut short is.
LEMMA ShrinksFacts ==
  ASSUME TypeOK, NEW m \in 0..Len(log), Shrinks(m)
  PROVE  /\ Len(log') = m
         /\ \A n \in 1..m : log'[n] = log[n]
         /\ \A n \in 0..m : StateAt(n)' = StateAt(n)
<1>1. log \in Seq(Records) /\ states \in Seq(DB) /\ Len(states) = Len(log) /\ Len(log) \in Nat
  BY DEF TypeOK, DB
<1>2. Len(log') = m /\ \A n \in 1..m : log'[n] = log[n]
  BY Zenon, <1>1, Prefix DEF Shrinks
<1>3. \A n \in 1..m : states'[n] = states[n]
  BY Zenon, <1>1, Prefix DEF Shrinks
<1>4. ASSUME NEW n \in 0..m PROVE StateAt(n)' = StateAt(n)
  <2>1. n # 0 => states'[n] = states[n]
    BY <1>3
  <2> QED
    BY Zenon, <2>1 DEF StateAt
<1> QED
  BY Zenon, <1>2, <1>4

\* It keeps the part of the invariant about the history.
LEMMA HistoryShrinks ==
  ASSUME TypeOK, HistoryInv, NEW m \in 0..Len(log), Shrinks(m)
  PROVE  HistoryInv'
<1>1. PICK N \in Nat : N = Len(log)
  BY DEF TypeOK
<1>2. /\ Len(log') = m /\ \A n \in 1..m : log'[n] = log[n]
      /\ \A n \in 0..m : StateAt(n)' = StateAt(n)
  BY Zenon, ShrinksFacts
<1>3. StatesFollow'
  BY <1>1, <1>2 DEF HistoryInv, StatesFollow
<1>4. NoStrayMeta'
  BY <1>1, <1>2 DEF HistoryInv, NoStrayMeta
<1>5. Frame'
  BY SMTT(60), <1>1, <1>2 DEF HistoryInv, Frame, Untouched
<1>6. Removal'
  BY SMTT(60), <1>1, <1>2 DEF HistoryInv, Removal
<1> QED
  BY Zenon, <1>3, <1>4, <1>5, <1>6 DEF HistoryInv

-----------------------------------------------------------------------------
(* What a step leaves alone. *)

\* A step that leaves the files and the history alone, but for a torn end.
LEMMA FilesStay ==
  ASSUME Core, tail' # "hole",
         UNCHANGED <<wal, synced, snapFile, metaFile, metaSeq, log, states, acked>>
  PROVE  HistoryInv' /\ WalInv' /\ FilesInv' /\ DurableInv'
<1>1. HistoryInv'
  BY Zenon, HistorySame DEF Core
<1>2. WalInv'
  BY Zenon DEF Core, WalInv, Base
<1>3. FilesInv'
  BY Zenon, StatesSame DEF Core, FilesInv
<1>4. DurableInv'
  BY Zenon DEF Core, DurableInv, Reached
<1> QED
  BY Zenon, <1>1, <1>2, <1>3, <1>4

\* The parts of the invariant about the files are kept.
LEMMA FilesUnchanged ==
  ASSUME Core, UNCHANGED <<files, history>>
  PROVE  HistoryInv' /\ WalInv' /\ FilesInv' /\ DurableInv'
<1>1. tail # "hole"
  BY Zenon DEF Core, WalInv
<1>2. tail' # "hole" /\ UNCHANGED <<wal, synced, snapFile, metaFile, metaSeq, log, states, acked>>
  BY Zenon, <1>1 DEF files, history
<1> QED
  BY Zenon, <1>2, FilesStay

\* A step that leaves the log file, the memory and the commit alone.
LEMMA MemoryStays ==
  ASSUME Core, UNCHANGED <<wal, tail, synced, mode, memory, commit, log, states, acked>>
  PROVE  ServingInv' /\ WritingInv' /\ WriteInv' /\ GraphInv' /\ MetaInv' /\ ModeInv'
<1>1. \A n : StateAt(n)' = StateAt(n)
  BY Zenon, StatesSame
<1>2. ServingInv'
  BY Zenon, <1>1 DEF Core, ServingInv, Base, memory, commit
<1>3. WritingInv' /\ ModeInv'
  BY Zenon DEF Core, WritingInv, ModeInv, memory, commit
<1>4. WriteInv'
  BY Zenon, <1>1 DEF Core, WriteInv, memory, commit
<1>5. GraphInv'
  BY Zenon, <1>1 DEF Core, GraphInv, memory, commit
<1>6. MetaInv'
  BY Zenon, <1>1 DEF Core, MetaInv, MetaUpTo, Untouched, memory, commit
<1> QED
  BY Zenon, <1>2, <1>3, <1>4, <1>5, <1>6

\* Where recovery gets to from the first n records of wal.log.
LEMMA ReachedAt ==
  ASSUME TypeOK, Core, NEW n \in 0..Len(wal)
  PROVE  Reached(wal, n) = Greatest(Base + n, snapFile.seq)
<1>1. ASSUME n # 0 PROVE wal[n].seq = Base + n
  <2>1. n \in 1..Len(wal)
    BY <1>1, Numbers
  <2>2. wal[n] = [seq |-> Base + n, rec |-> log[Base + n]]
    BY Zenon, <2>1 DEF Core, WalInv
  <2> QED
    BY <2>2
<1> QED
  BY SMTT(60), <1>1, Numbers DEF Core, WalInv, Reached, Greatest, Base

-----------------------------------------------------------------------------
(* Applying a committed batch, and acknowledging it. *)

\* The record an application step is at, and its place in the log.
LEMMA BatchInLog ==
  ASSUME TypeOK, Core, phase \in {"graph", "meta"}, k <= Len(batch)
  PROVE  /\ batch[k] \in Records /\ k \in 1..Len(batch)
         /\ seq + k \in 1..Len(log) /\ log[seq + k] = batch[k]
         /\ seq + (k - 1) \in 0..Len(log)
         /\ StateAt(seq + k) = Apply(StateAt(seq + (k - 1)), batch[k])
<1>1. k \in 1..Len(batch) /\ batch \in Seq(Records)
  BY DEF TypeOK
<1>2. Len(log) = seq + Len(batch)
  BY Zenon DEF Core, GraphInv, MetaInv
<1>3. PICK m \in 1..Len(log) : m = seq + k /\ m - 1 = seq + (k - 1) /\ m - 1 \in 0..Len(log)
  <2>1. seq \in Nat /\ Len(batch) \in Nat /\ k \in 1..Len(batch)
    BY Zenon, <1>1, Numbers
  <2> QED
    BY <2>1, <1>2
<1>4. log[seq + k] = batch[k]
  <2>1. seq \in Nat /\ Len(batch) \in Nat
    BY Zenon, Numbers
  <2>2. k \in 1..Len(log) - seq
    BY <1>1, <1>2, <2>1
  <2> QED
    BY Zenon, <2>2 DEF Core, WritingInv
<1>5. StateAt(m) = Apply(StateAt(m - 1), log[m])
  BY Zenon DEF Core, HistoryInv, StatesFollow
<1> QED
  BY Zenon, <1>1, <1>3, <1>4, <1>5, Element

\* Applying one record to the graph keeps the invariant.
LEMMA CoreApplyGraph == TypeOK /\ TypeOK' /\ Core /\ ApplyGraph => Core'
<1> SUFFICES ASSUME TypeOK, TypeOK', Core, ApplyGraph PROVE Core'
  BY Zenon
<1>1. /\ phase = "graph" /\ k <= Len(batch) /\ graph' = GraphAfter(graph, batch[k]) /\ k' = k + 1
      /\ UNCHANGED <<files, mode, metadata, seq, snapshotSeq, nextSeq, failed, phase, batch, snap,
                     history>>
  BY Zenon DEF ApplyGraph
<1>2. HistoryInv' /\ WalInv' /\ FilesInv' /\ DurableInv'
  BY Zenon, <1>1, FilesUnchanged
<1>3. mode = "up" /\ graph = StateAt(seq + (k - 1)).graph
  BY Zenon, <1>1 DEF Core, WritingInv, GraphInv
<1>4. ServingInv' /\ WritingInv' /\ WriteInv' /\ ReplayInv' /\ ModeInv' /\ MetaInv'
  BY SMTT(60), <1>1, <1>3, Numbers
     DEF Core, ServingInv, WritingInv, WriteInv, ReplayInv, ModeInv, MetaInv, Base, files, history
<1>5. graph' = StateAt(seq + k).graph
  BY <1>1, <1>3, BatchInLog DEF Apply
<1>6. GraphInv'
  <2>1. StateAt(seq + (k - 1))' = StateAt(seq + k)
    BY <1>1, StatesSame, Numbers DEF history
  <2> QED
    BY Zenon, <2>1, <1>1, <1>5, StatesSame DEF Core, GraphInv, files, history
<1>7. SnapInv'
  BY Zenon, <1>1, StatesSame DEF Core, SnapInv, Base, files, history
<1> QED
  BY Zenon, <1>2, <1>4, <1>6, <1>7 DEF Core

\* Turning from the graph to the metadata keeps the invariant.
LEMMA CoreGraphDone == TypeOK /\ TypeOK' /\ Core /\ GraphDone => Core'
<1> SUFFICES ASSUME TypeOK, TypeOK', Core, GraphDone PROVE Core'
  BY Zenon
<1>1. /\ phase = "graph" /\ k = Len(batch) + 1 /\ phase' = "meta" /\ k' = 1
      /\ UNCHANGED <<files, mode, memory, batch, snap, history>>
  BY Zenon DEF GraphDone
<1>2. HistoryInv' /\ WalInv' /\ FilesInv' /\ DurableInv'
  BY Zenon, <1>1, FilesUnchanged
<1>3. /\ mode = "up" /\ nextSeq = Len(log) + 1 /\ Len(log) = seq + Len(batch)
      /\ synced = Len(wal) /\ metadata = StateAt(seq).meta
  BY Zenon, <1>1 DEF Core, WritingInv, GraphInv
<1>4. graph = StateAt(Len(log)).graph
  <2>1. seq + (k - 1) = Len(log)
    BY <1>1, <1>3, Numbers
  <2> QED
    BY Zenon, <2>1, <1>1 DEF Core, GraphInv
<1>5. ServingInv' /\ WritingInv' /\ WriteInv' /\ GraphInv' /\ ReplayInv' /\ ModeInv'
  BY SMTT(60), <1>1, <1>3 DEF Core, ServingInv, WritingInv, WriteInv, GraphInv, ReplayInv,
     ModeInv, Base,
                    files, memory, history
<1>6. ASSUME NEW id \in Ids, graph[id] = Absent
      PROVE  metadata[id] = NoMeta \/ \E i \in 1..Len(batch) : batch[i].op = "delete" /\ batch[i].id = id
  <2>1. seq \in 0..Len(log) /\ Len(log) \in seq..Len(log)
    BY SMTT(60), <1>3, Numbers
  <2>2. CASE StateAt(seq).graph[id] = Absent
    BY Zenon, <2>1, <2>2, <1>3 DEF Core, HistoryInv, NoStrayMeta
  <2>3. CASE StateAt(seq).graph[id] # Absent
    <3>1. PICK n \in seq + 1..Len(log) : log[n].op = "delete" /\ log[n].id = id
      BY Zenon, <2>1, <2>3, <1>4, <1>6 DEF Core, HistoryInv, Removal
    <3>2. PICK i \in 1..Len(batch) : n = seq + i /\ i \in 1..Len(log) - seq
      <4>0. seq \in Nat /\ Len(batch) \in Nat /\ Len(log) = seq + Len(batch)
        BY Zenon, <1>3, Numbers
      <4>1. n - seq \in 1..Len(batch) /\ n = seq + (n - seq) /\ n - seq \in 1..Len(log) - seq
        BY <4>0
      <4> QED
        BY Zenon, <4>1
    <3>3. log[seq + i] = batch[i]
      BY Zenon, <3>2, <1>1 DEF Core, WritingInv
    <3> QED
      BY Zenon, <3>1, <3>2, <3>3
  <2> QED
    BY Zenon, <2>2, <2>3
<1>7. MetaInv'
  <2>1. seq + (k' - 1) = seq
    BY <1>1, Numbers
  <2>2. StateAt(Len(log))' = StateAt(Len(log)) /\ StateAt(seq)' = StateAt(seq)
        /\ StateAt(seq + (k - 1))' = StateAt(seq)
    BY Zenon, <1>1, <2>1, StatesSame DEF history, memory
  <2> QED
    BY Zenon, <2>2, <1>1, <1>3, <1>4, <1>6 DEF MetaInv, MetaUpTo, files, memory, history
<1>8. SnapInv'
  BY Zenon, <1>1, StatesSame DEF Core, SnapInv, Base, files, memory, history
<1> QED
  BY Zenon, <1>2, <1>5, <1>7, <1>8 DEF Core

\* One id's metadata after the record at k has been applied to it.
LEMMA MetaStep ==
  ASSUME TypeOK, Core, ApplyMeta, NEW id \in Ids
  PROVE  IF graph[id] # Absent
         THEN metadata'[id] = StateAt(seq + k).meta[id] \/ ~Untouched(id, seq + k, Len(log))
         ELSE metadata'[id] = NoMeta \/
                \E i \in k + 1..Len(batch) : batch[i].op = "delete" /\ batch[i].id = id
<1>1. phase = "meta" /\ k <= Len(batch) /\ metadata' = SetMeta(graph, metadata, batch[k])
  BY Zenon DEF ApplyMeta
<1>2. PICK r \in Records : r = batch[k]
  BY Zenon, <1>1, BatchInLog
<1>3. PICK m \in 1..Len(log) : m = seq + k /\ m - 1 = seq + (k - 1) /\ log[m] = r
  BY SMTT(60), <1>1, <1>2, BatchInLog, Numbers
<1>4. StateAt(m) = Apply(StateAt(m - 1), r) /\ StateAt(m - 1) \in DB /\ m - 1 \in 0..Len(log)
  BY Zenon, <1>1, <1>2, <1>3, BatchInLog, StateAtType, Numbers
<1>5. graph = StateAt(Len(log)).graph /\ Len(log) = seq + Len(batch)
  BY Zenon, <1>1 DEF Core, MetaInv
<1>6. IF graph[id] # Absent
      THEN metadata[id] = StateAt(m - 1).meta[id] \/ ~Untouched(id, m - 1, Len(log))
      ELSE metadata[id] = NoMeta \/
             \E i \in k..Len(batch) : batch[i].op = "delete" /\ batch[i].id = id
  BY Zenon, <1>1, <1>3 DEF Core, MetaInv, MetaUpTo
<1>7. metadata' = IF graph[r.id] # Absent \/ r.op = "delete"
                  THEN [metadata EXCEPT ![r.id] = r.meta] ELSE metadata
  BY Zenon, <1>1, <1>2 DEF SetMeta
<1>8. metadata \in MetaMaps /\ graph \in Graphs /\ k \in Nat /\ Len(batch) \in Nat /\ Len(log) \in Nat
  BY Zenon, Numbers DEF TypeOK
<1>9. CASE r.id # id /\ graph[id] # Absent
  <2>1. metadata'[id] = metadata[id]
    BY Zenon, <1>7, <1>8, <1>9 DEF MetaMaps
  <2>2. StateAt(m).meta[id] = StateAt(m - 1).meta[id]
    BY SMTT(60), <1>4, <1>9, ApplyAt
  <2>3. Untouched(id, m, Len(log)) => Untouched(id, m - 1, Len(log))
    <3> SUFFICES ASSUME Untouched(id, m, Len(log)), NEW n \in m..Len(log) PROVE log[n].id # id
      BY <1>8 DEF Untouched
    <3>1. CASE n = m
      BY Zenon, <3>1, <1>3, <1>9
    <3>2. CASE n # m
      BY <3>2, <1>8 DEF Untouched
    <3> QED
      BY Zenon, <3>1, <3>2
  <2> QED
    BY Zenon, <2>1, <2>2, <2>3, <1>3, <1>6, <1>9
<1>10. CASE graph[id] = Absent /\ (r.id # id \/ r.op # "delete")
  <2>1. metadata'[id] = metadata[id]
    BY Zenon, <1>7, <1>8, <1>10 DEF MetaMaps
  <2>2. \A i \in k..Len(batch) : batch[i].op = "delete" /\ batch[i].id = id => i \in k + 1..Len(batch)
    BY <1>2, <1>8, <1>10
  <2> QED
    BY Zenon, <2>1, <2>2, <1>6, <1>10
<1>11. CASE r.id = id /\ r.op = "delete" /\ graph[id] = Absent
  <2>1. r.meta = NoMeta
    BY Zenon, <1>11 DEF Records, Inserts, Deletes, MetaUpdates
  <2> QED
    BY Zenon, <2>1, <1>7, <1>8, <1>11 DEF MetaMaps
<1>12. CASE r.id = id /\ graph[id] # Absent
  <2>1. metadata'[id] = r.meta
    BY Zenon, <1>7, <1>8, <1>12 DEF MetaMaps
  <2>2. CASE StateAt(m).graph[id] = Absent
    <3>1. ~Untouched(id, m, Len(log))
      <4>1. m \in 0..Len(log) /\ Len(log) \in m..Len(log)
        BY <1>8
      <4> QED
        BY Zenon, <4>1, <2>2, <1>5, <1>12 DEF Core, HistoryInv, Frame
    <3> QED
      BY Zenon, <3>1, <1>3, <1>12
  <2>3. CASE StateAt(m).graph[id] # Absent
    <3>1. StateAt(m).meta[id] = r.meta
      BY SMTT(60), <2>3, <1>4, <1>12, ApplyAt
    <3> QED
      BY Zenon, <3>1, <2>1, <1>3, <1>12
  <2> QED
    BY Zenon, <2>2, <2>3
<1> QED
  BY Zenon, <1>9, <1>10, <1>11, <1>12

\* Applying one record to the metadata keeps the invariant.
LEMMA CoreApplyMeta == TypeOK /\ TypeOK' /\ Core /\ ApplyMeta => Core'
<1> SUFFICES ASSUME TypeOK, TypeOK', Core, ApplyMeta PROVE Core'
  BY Zenon
<1>1. /\ phase = "meta" /\ k <= Len(batch) /\ k' = k + 1
      /\ UNCHANGED <<files, mode, graph, seq, snapshotSeq, nextSeq, failed, phase, batch, snap,
                     history>>
  BY Zenon DEF ApplyMeta
<1>2. HistoryInv' /\ WalInv' /\ FilesInv' /\ DurableInv'
  BY Zenon, <1>1, FilesUnchanged
<1>3. mode = "up"
  BY Zenon, <1>1 DEF Core, WritingInv
<1>4. ServingInv' /\ WritingInv' /\ WriteInv' /\ GraphInv' /\ ReplayInv' /\ ModeInv'
  BY SMTT(60), <1>1, <1>3, Numbers
     DEF Core, ServingInv, WritingInv, WriteInv, GraphInv, ReplayInv, ModeInv, Base, files, history
<1>5. MetaInv'
  <2>1. seq + (k' - 1) = seq + k
    BY SMTT(60), <1>1, Numbers
  <2>2. StateAt(Len(log))' = StateAt(Len(log)) /\ StateAt(seq + (k - 1))' = StateAt(seq + k)
    BY Zenon, <1>1, <2>1, StatesSame DEF history
  <2>3. \A id \in Ids : Untouched(id, seq + (k - 1), Len(log))' <=> Untouched(id, seq + k, Len(log))
    BY Zenon, <1>1, <2>1 DEF Untouched, history
  <2> QED
    <3>1. /\ nextSeq = Len(log) + 1 /\ Len(log) = seq + Len(batch) /\ synced = Len(wal)
          /\ graph = StateAt(Len(log)).graph
      BY Zenon, <1>1 DEF Core, MetaInv
    <3>2. /\ nextSeq' = Len(log)' + 1 /\ Len(log)' = seq' + Len(batch)' /\ synced' = Len(wal)'
          /\ graph' = StateAt(Len(log))'.graph
      BY Zenon, <3>1, <2>2, <1>1 DEF files, history
    <3>3. ASSUME NEW id \in Ids
          PROVE  IF graph[id] # Absent
                 THEN MetaUpTo(seq + (k - 1), Len(log), id)'
                 ELSE metadata'[id] = NoMeta \/
                        \E i \in k + 1..Len(batch) : batch[i].op = "delete" /\ batch[i].id = id
      BY Zenon, <2>2, <2>3, MetaStep DEF MetaUpTo
    <3>4. k' = k + 1 /\ batch' = batch /\ graph' = graph
      BY Zenon, <1>1
    <3> QED
      BY Zenon, <3>2, <3>3, <3>4 DEF MetaInv
<1>6. SnapInv'
  BY Zenon, <1>1, StatesSame DEF Core, SnapInv, Base, files, history
<1> QED
  BY Zenon, <1>2, <1>4, <1>5, <1>6 DEF Core

\* Answering the callers keeps the invariant: what they are told of is durable.
LEMMA CoreAcknowledge == TypeOK /\ TypeOK' /\ Core /\ Acknowledge => Core'
<1> SUFFICES ASSUME TypeOK, TypeOK', Core, Acknowledge PROVE Core'
  BY Zenon
<1>1. /\ phase = "meta" /\ k = Len(batch) + 1 /\ seq' = nextSeq - 1 /\ acked' = Len(log)
      /\ phase' = "idle"
      /\ UNCHANGED <<files, mode, graph, metadata, snapshotSeq, nextSeq, failed, snap, log, states>>
  BY Zenon DEF Acknowledge
<1>2. /\ nextSeq = Len(log) + 1 /\ Len(log) = seq + Len(batch) /\ synced = Len(wal)
      /\ graph = StateAt(Len(log)).graph
  BY Zenon, <1>1 DEF Core, MetaInv
<1>3. mode = "up" /\ ~failed /\ tail = "clean" /\ seq' = Len(log) /\ seq <= Len(log)
  <2>1. mode = "up" /\ ~failed /\ tail = "clean"
    BY Zenon, <1>1 DEF Core, WritingInv
  <2>2. seq' = Len(log) /\ seq <= Len(log)
    BY SMTT(60), <1>1, <1>2, Numbers
  <2> QED
    BY Zenon, <2>1, <2>2
<1>4. HistoryInv' /\ WalInv' /\ FilesInv'
  BY Zenon, <1>1, HistorySame, StatesSame DEF Core, WalInv, FilesInv, Base, files
<1>5. DurableInv'
  <2>1. Reached(wal, synced)' = Reached(wal, Len(wal))
    BY Zenon, <1>1, <1>2 DEF Reached, files
  <2>2. Reached(wal, Len(wal)) = Greatest(Base + Len(wal), snapFile.seq)
    BY Numbers, ReachedAt
  <2>3. Len(log) <= Reached(wal, Len(wal))
    BY <2>2, Numbers DEF Base, Greatest
  <2> QED
    BY <2>1, <2>3, <1>1, Numbers DEF DurableInv
<1>6. metadata = StateAt(Len(log)).meta
  <2>1. Len(log) \in 0..Len(log) /\ seq + (k - 1) = Len(log)
    BY SMTT(60), <1>1, <1>2, Numbers
  <2>2. metadata \in MetaMaps /\ StateAt(Len(log)).meta \in MetaMaps
    <3>1. metadata \in MetaMaps
      BY Zenon DEF TypeOK
    <3>2. StateAt(Len(log)) \in DB
      BY Zenon, <2>1, StateAtType
    <3> QED
      BY Zenon, <3>1, <3>2 DEF DB
  <2>3. ASSUME NEW id \in Ids PROVE metadata[id] = StateAt(Len(log)).meta[id]
    <3>1. CASE graph[id] # Absent
      <4>1. Untouched(id, Len(log), Len(log))
        BY Numbers DEF Untouched
      <4> QED
        BY Zenon, <4>1, <3>1, <2>1, <1>1 DEF Core, MetaInv, MetaUpTo
    <3>2. CASE graph[id] = Absent
      <4>1. metadata[id] = NoMeta
        <5>1. k..Len(batch) = {}
          BY SMTT(60), <1>1, Numbers
        <5> QED
          BY Zenon, <5>1, <3>2, <1>1 DEF Core, MetaInv
      <4>2. StateAt(Len(log)).meta[id] = NoMeta
        BY Zenon, <3>2, <2>1, <1>2 DEF Core, HistoryInv, NoStrayMeta
      <4> QED
        BY Zenon, <4>1, <4>2
    <3> QED
      BY Zenon, <3>1, <3>2
  <2> QED
    BY <2>2, <2>3 DEF MetaMaps
<1>7. ServingInv'
  <2>1. StateAt(seq)' = StateAt(Len(log))
    BY Zenon, <1>1, <1>3, StatesSame
  <2>2. Base' = Base
    BY Zenon, <1>1 DEF Base, files
  <2>3. Base <= snapshotSeq /\ snapshotSeq <= Len(log)
    <3>1. Base <= snapshotSeq /\ snapshotSeq <= seq
      BY Zenon, <1>3 DEF Core, ServingInv
    <3> QED
      BY SMTT(60), <3>1, <1>3, Numbers
  <2>4. acked' <= seq' /\ seq' <= Len(log)' /\ nextSeq' = seq' + 1
    <3>1. acked' = Len(log) /\ seq' = Len(log) /\ Len(log)' = Len(log) /\ nextSeq' = Len(log) + 1
      BY Zenon, <1>1, <1>2, <1>3
    <3> QED
      BY <3>1, Numbers
  <2>5. graph' = StateAt(seq)'.graph /\ metadata' = StateAt(seq)'.meta
    BY Zenon, <2>1, <1>1, <1>2, <1>6
  <2> QED
    BY Zenon, <2>2, <2>3, <2>4, <2>5, <1>1, <1>3 DEF ServingInv, files
<1>8. WritingInv' /\ WriteInv' /\ GraphInv' /\ MetaInv' /\ ReplayInv' /\ ModeInv'
  BY Zenon, <1>1, <1>3 DEF WritingInv, WriteInv, GraphInv, MetaInv, ReplayInv, ModeInv
<1>9. SnapInv'
  <2>1. Base' = Base
    BY Zenon, <1>1 DEF Base, files
  <2>2. snap.pc # "idle" => snap.seq <= Len(log)
    BY SMTT(60), <1>3, Numbers DEF Core, SnapInv
  <2> QED
    BY Zenon, <2>1, <2>2, <1>1, <1>3, StatesSame DEF Core, SnapInv, files
<1> QED
  BY Zenon, <1>4, <1>5, <1>7, <1>8, <1>9 DEF Core

=============================================================================
