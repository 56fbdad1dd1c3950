---------------------------- MODULE EngineProofs ----------------------------
(***************************************************************************)
(* The steps that write a batch to the log, those of a snapshot and of the *)
(* log's rotation, crashes and recovery keep Engine's invariant; the       *)
(* properties that follow from it, for every set of ids, vectors and       *)
(* metadata, every bound and every choice of environment events.           *)
(***************************************************************************)
EXTENDS EngineTypeProofs

-----------------------------------------------------------------------------
(* Writing a batch to the log. *)

\* Taking up a batch keeps the invariant.
LEMMA CoreBegin == TypeOK /\ TypeOK' /\ Core /\ Begin => Core'
<1> SUFFICES ASSUME TypeOK, TypeOK', Core, Begin PROVE Core'
  BY Zenon
<1>1. UNCHANGED <<files, mode, memory, snap, history>> /\ mode = "up" /\ phase = "idle"
      /\ ~failed /\ phase' = "write" /\ k' = 1
  BY Zenon DEF Begin
<1>2. HistoryInv' /\ WalInv' /\ FilesInv' /\ DurableInv'
  BY Zenon, <1>1, FilesUnchanged
<1>3. seq = Len(log) /\ tail = "clean" /\ nextSeq = seq + 1
      /\ graph = StateAt(seq).graph /\ metadata = StateAt(seq).meta
  BY Zenon, <1>1 DEF Core, ServingInv
<1>4. ServingInv'
  BY Zenon, <1>1 DEF Core, ServingInv, files, memory, history, Base
<1>5. WritingInv' /\ WriteInv' /\ GraphInv' /\ MetaInv'
  BY SMTT(60), <1>1, <1>3, StatesSame DEF WritingInv, WriteInv, GraphInv, MetaInv, files, memory,
     history, TypeOK
<1>6. ReplayInv' /\ ModeInv'
  BY Zenon, <1>1 DEF ReplayInv, ModeInv
<1>7. SnapInv'
  BY Zenon, <1>1, StatesSame DEF Core, SnapInv, Base, files, memory, history
<1> QED
  BY SMTT(60), <1>2, <1>4, <1>5, <1>6, <1>7 DEF Core

\* One more record in the log file is one more in the history.
LEMMA CoreWriteFrame == TypeOK /\ TypeOK' /\ Core /\ WriteFrame => Core'
<1> SUFFICES ASSUME TypeOK, TypeOK', Core, WriteFrame PROVE Core'
  BY Zenon
<1>1. PICK N \in Nat : N = Len(log)
  BY DEF TypeOK
<1>2. PICK W \in Nat : W = Len(wal)
  BY DEF TypeOK
<1>3. PICK r \in Records : r = batch[k] /\ k \in 1..Len(batch)
  <2>1. k \in 1..Len(batch) /\ batch \in Seq(Records)
    BY SMTT(60) DEF TypeOK, WriteFrame
  <2> QED
    BY Zenon, <2>1, Element
<1>4. Grows(r)
  BY Zenon, <1>3 DEF WriteFrame, Grows
<1>5. /\ Len(log') = N + 1 /\ log'[N + 1] = r
      /\ \A n \in 1..N : log'[n] = log[n]
      /\ \A n \in 0..N : StateAt(n)' = StateAt(n)
  BY Zenon, <1>1, <1>4, GrowsFacts
<1>6. HistoryInv'
  BY Zenon, <1>4, HistoryGrows DEF Core
<1>7. /\ mode = "up" /\ phase = "write" /\ nextSeq = seq + 1 /\ N = seq + (k - 1)
      /\ tail = "clean" /\ ~failed /\ seq \in Nat /\ seq <= N
      /\ graph = StateAt(seq).graph /\ metadata = StateAt(seq).meta
  <2>1. phase = "write"
    BY Zenon DEF WriteFrame
  <2>2. mode = "up" /\ tail = "clean" /\ ~failed
    BY Zenon, <2>1 DEF Core, WritingInv
  <2>3. /\ nextSeq = seq + 1 /\ Len(log) = seq + (k - 1)
        /\ graph = StateAt(seq).graph /\ metadata = StateAt(seq).meta
    BY Zenon, <2>1 DEF Core, WriteInv
  <2>4. seq \in Nat /\ k - 1 \in Nat
    BY <1>3, Numbers
  <2> QED
    BY <1>1, <2>1, <2>2, <2>3, <2>4
<1>8. /\ Len(wal') = W + 1 /\ wal'[W + 1] = [seq |-> N + 1, rec |-> r]
      /\ \A i \in 1..W : wal'[i] = wal[i]
  <2> DEFINE f == [seq |-> N + 1, rec |-> r]
  <2>1. f \in Frames
    BY DEF Frames
  <2>2. nextSeq + (k - 1) = N + 1
    BY <1>3, <1>7
  <2>3. wal' = Append(wal, f)
    BY SMTT(60), <1>3, <2>2 DEF WriteFrame
  <2> HIDE DEF f
  <2>4. /\ Len(wal') = W + 1 /\ wal'[W + 1] = f
        /\ \A i \in 1..W : wal'[i] = wal[i]
    BY <1>2, <2>1, <2>3, Extend DEF TypeOK
  <2> QED
    BY Zenon, <2>4 DEF f
<1>9. UNCHANGED <<tail, synced, snapFile, metaFile, metaSeq, mode, memory, phase, batch, snap,
acked>>
      /\ k' = k + 1
  BY Zenon DEF WriteFrame
<1>10. Base' = Base /\ Base = N - W /\ W <= N
  BY <1>1, <1>2, <1>5, <1>8 DEF Base, Core, WalInv
<1>11. WalInv'
  <2>1. Base' <= snapFile'.seq /\ tail' # "hole"
    BY Zenon, <1>9, <1>10 DEF Core, WalInv
  <2>2. ASSUME NEW i \in 1..W + 1 PROVE wal'[i] = [seq |-> N - W + i, rec |-> log'[N - W + i]]
    <3>1. CASE i \in 1..W
      <4>1. wal[i] = [seq |-> N - W + i, rec |-> log[N - W + i]]
        BY Zenon, <3>1, <1>2, <1>10 DEF Core, WalInv
      <4>2. N - W + i \in 1..N
        BY <3>1, <1>10
      <4> QED
        BY Zenon, <3>1, <4>1, <4>2, <1>5, <1>8
    <3>2. CASE i = W + 1
      BY <3>2, <1>5, <1>8
    <3> QED
      BY <3>1, <3>2
  <2> QED
    BY SMTT(60), <2>1, <2>2, <1>5, <1>8, <1>10 DEF WalInv
<1>12. FilesInv'
  <2>1. snapFile.seq \in 0..N /\ metaSeq \in 0..N
    BY SMTT(60), <1>1, Numbers DEF Core, FilesInv
  <2> QED
    BY <2>1, <1>1, <1>5, <1>9 DEF Core, FilesInv
<1>13. DurableInv'
  <2>1. synced \in 0..W
    BY Zenon, <1>2 DEF TypeOK
  <2>2. Reached(wal, synced)' = Reached(wal, synced)
    BY SMTT(60), <2>1, <1>8, <1>9 DEF Reached
  <2> QED
    <3>1. acked <= Reached(wal, synced) /\ acked <= Len(log)
      BY Zenon DEF Core, DurableInv
    <3>2. acked' = acked /\ Len(log') = Len(log) + 1 /\ acked \in Nat /\ Len(log) \in Nat
      BY Zenon, <1>1, <1>5, <1>9, Numbers
    <3>3. acked' <= Len(log')
      BY <3>1, <3>2
    <3> QED
      BY Zenon, <2>2, <3>1, <3>2, <3>3 DEF DurableInv
<1>14. ServingInv'
  BY SMTT(60), <1>1, <1>5, <1>7, <1>9, <1>10, Numbers DEF Core, ServingInv, memory
<1>15. WritingInv'
  <2>1. ASSUME NEW i \in 1..N + 1 - seq PROVE log'[seq + i] = batch[i]
    <3>1. CASE i \in 1..N - seq
      BY SMTT(60), <3>1, <1>1, <1>5, <1>7 DEF Core, WritingInv
    <3>2. CASE i = N + 1 - seq
      BY <3>2, <1>3, <1>5, <1>7
    <3> QED
      BY <3>1, <3>2, <1>7
  <2> QED
    BY SMTT(60), <2>1, <1>3, <1>5, <1>7, <1>9 DEF WritingInv, memory
<1>16. WriteInv' /\ GraphInv' /\ MetaInv' /\ ReplayInv' /\ ModeInv'
  BY SMTT(60), <1>3, <1>5, <1>7, <1>9 DEF WriteInv, GraphInv, MetaInv, ReplayInv, ModeInv, memory
<1>17. SnapInv'
  <2>1. snap.pc # "idle" => snap.seq \in 0..N
    BY SMTT(60), <1>7, Numbers DEF Core, SnapInv
  <2> QED
    BY Zenon, <2>1, <1>5, <1>7, <1>9, <1>10 DEF Core, SnapInv, memory
<1> QED
  BY Zenon, <1>6, <1>11, <1>12, <1>13, <1>14, <1>15, <1>16, <1>17 DEF Core

\* A failed write leaves at most a torn record after the ones in the history.
LEMMA CorePoison == TypeOK /\ TypeOK' /\ Core /\ (WriteFails \/ SyncFails) => Core'
<1> SUFFICES ASSUME TypeOK, TypeOK', Core, WriteFails \/ SyncFails PROVE Core'
  BY Zenon
<1>1. /\ phase = "write" /\ tail' # "hole" /\ failed' /\ phase' = "idle"
      /\ UNCHANGED <<wal, synced, snapFile, metaFile, metaSeq, mode, graph, metadata,
                     seq, snapshotSeq, nextSeq, rpos, snap, history>>
  BY Zenon DEF WriteFails, SyncFails, Poison, Core, WalInv
<1>2. HistoryInv' /\ WalInv' /\ FilesInv' /\ DurableInv'
  BY Zenon, <1>1, FilesStay DEF history
<1>3. mode = "up" /\ nextSeq = seq + 1 /\ graph = StateAt(seq).graph /\ metadata = StateAt(seq).meta
  BY Zenon, <1>1 DEF Core, WriteInv, WritingInv
<1>5. ServingInv'
  BY Zenon, <1>1, <1>3, StatesSame DEF Core, ServingInv, history, Base
<1>6. WritingInv' /\ WriteInv' /\ GraphInv' /\ MetaInv' /\ ReplayInv' /\ ModeInv'
  BY Zenon, <1>1, <1>3 DEF WritingInv, WriteInv, GraphInv, MetaInv, ReplayInv, ModeInv
<1>7. SnapInv'
  BY Zenon, <1>1, StatesSame DEF Core, SnapInv, Base, history
<1> QED
  BY Zenon, <1>2, <1>5, <1>6, <1>7 DEF Core

\* A batch that is fsynced is durable.
LEMMA CoreSync == TypeOK /\ TypeOK' /\ Core /\ Sync => Core'
<1> SUFFICES ASSUME TypeOK, TypeOK', Core, Sync PROVE Core'
  BY Zenon
<1>1. /\ phase = "write" /\ phase' = "graph" /\ k = Len(batch) + 1 /\ k' = 1
      /\ nextSeq' = nextSeq + Len(batch) /\ synced' = Len(wal)
      /\ UNCHANGED <<wal, tail, snapFile, metaFile, metaSeq, mode, graph, metadata, seq,
                     snapshotSeq, failed, batch, snap, log, states, acked>>
  BY Zenon DEF Sync, history
<1>2. HistoryInv' /\ WalInv' /\ FilesInv'
  BY Zenon, <1>1, HistorySame, StatesSame DEF Core, WalInv, FilesInv, Base
<1>3. DurableInv'
  <2>1. Reached(wal, synced)' = Reached(wal, Len(wal))
    BY Zenon, <1>1 DEF Reached
  <2>2. /\ Reached(wal, synced) = Greatest(Base + synced, snapFile.seq)
        /\ Reached(wal, Len(wal)) = Greatest(Base + Len(wal), snapFile.seq)
    BY SMTT(60), Numbers, ReachedAt
  <2>3. /\ Reached(wal, synced) <= Reached(wal, Len(wal))
        /\ Reached(wal, synced) \in Int /\ Reached(wal, Len(wal)) \in Int
    <3>1. PICK b \in Int : b = Base
      BY Zenon, BaseInt
    <3>2. PICK s \in Nat : s = snapFile.seq
      BY SMTT(60), Numbers
    <3>3. PICK n \in Nat : n = Len(wal)
      BY Zenon, Numbers
    <3>4. PICK y \in 0..n : y = synced
      BY SMTT(60), <3>3, Numbers
    <3>5. /\ Greatest(b + y, s) <= Greatest(b + n, s)
          /\ Greatest(b + y, s) \in Int /\ Greatest(b + n, s) \in Int
      BY DEF Greatest
    <3> QED
      BY Zenon, <2>2, <3>1, <3>2, <3>3, <3>4, <3>5
  <2>4. acked <= Reached(wal, synced) /\ acked <= Len(log) /\ acked \in Nat
    BY Zenon, Numbers DEF Core, DurableInv
  <2>5. acked <= Reached(wal, Len(wal))
    BY <2>3, <2>4
  <2> QED
    BY Zenon, <2>1, <2>4, <2>5, <1>1 DEF DurableInv
<1>4. nextSeq = seq + 1 /\ Len(log) = seq + Len(batch) /\ mode = "up"
      /\ graph = StateAt(seq).graph /\ metadata = StateAt(seq).meta
  BY <1>1, Numbers DEF Core, WriteInv, WritingInv
<1>5. ServingInv' /\ WritingInv' /\ WriteInv' /\ ReplayInv' /\ ModeInv' /\ MetaInv'
  <2>1. Base' = Base
    BY Zenon, <1>1 DEF Base
  <2>2. ServingInv'
    BY Zenon, <2>1, <1>1, <1>4 DEF Core, ServingInv
  <2>3. WritingInv'
    BY <1>1, <1>4 DEF Core, WritingInv
  <2>4. WriteInv' /\ ReplayInv' /\ ModeInv' /\ MetaInv'
    BY Zenon, <1>1, <1>4 DEF WriteInv, ReplayInv, ModeInv, MetaInv
  <2> QED
    BY Zenon, <2>2, <2>3, <2>4
<1>6. GraphInv'
  <2>1. StateAt(seq + (k - 1))' = StateAt(seq) /\ StateAt(seq)' = StateAt(seq)
    BY SMTT(60), <1>1, StatesSame, Numbers
  <2>2. nextSeq' = Len(log) + 1
    BY SMTT(60), <1>1, <1>4, Numbers
  <2> QED
    BY Zenon, <2>1, <2>2, <1>1, <1>4 DEF GraphInv
<1>7. SnapInv'
  BY Zenon, <1>1, StatesSame DEF Core, SnapInv, Base
<1> QED
  BY Zenon, <1>2, <1>3, <1>5, <1>6, <1>7 DEF Core

-----------------------------------------------------------------------------
(* Snapshots and rotation. *)

\* The captured view is the state after the records applied so far.
LEMMA CoreSnapCapture == TypeOK /\ TypeOK' /\ Core /\ SnapCapture => Core'
<1> SUFFICES ASSUME TypeOK, TypeOK', Core, SnapCapture PROVE Core'
  BY Zenon
<1>1. /\ mode = "up" /\ phase = "idle" /\ ~failed
      /\ UNCHANGED <<files, mode, memory, commit, history>>
      /\ snap'.seq = seq /\ snap'.graph = graph /\ snap'.meta = metadata
      /\ snap'.off = Len(wal) /\ snap'.pc = "captured"
  BY DEF SnapCapture
<1>2. HistoryInv' /\ WalInv' /\ FilesInv' /\ DurableInv'
  BY Zenon, <1>1, FilesUnchanged
<1>3. ServingInv' /\ WritingInv' /\ WriteInv' /\ GraphInv' /\ MetaInv' /\ ReplayInv' /\ ModeInv'
  BY ZenonT(60), <1>1, StatesSame
     DEF Core, ServingInv, WritingInv, WriteInv, GraphInv, MetaInv, ReplayInv, ModeInv, Base,
         files, memory, commit, history
<1>4. seq = Len(log) /\ graph = StateAt(seq).graph /\ metadata = StateAt(seq).meta
  BY Zenon, <1>1 DEF Core, ServingInv
<1>5. snapFile.seq <= seq /\ metaSeq <= seq
  <2>1. FilesInv
    BY Zenon DEF Core
  <2> QED
    BY SMTT(60), <2>1, <1>4, Numbers DEF FilesInv
<1>6. Len(wal) = seq - Base
  BY <1>4, Numbers DEF Base
<1>7. SnapInv'
  BY SMTT(60), <1>1, <1>4, <1>5, <1>6, Numbers, StatesSame DEF SnapInv, Base, files, memory, history
<1> QED
  BY Zenon, <1>2, <1>3, <1>7 DEF Core

\* The new metadata file may be ahead of the graph file; the log still covers both.
LEMMA CoreSnapSaveMeta == TypeOK /\ TypeOK' /\ Core /\ SnapSaveMeta => Core'
<1> SUFFICES ASSUME TypeOK, TypeOK', Core, SnapSaveMeta PROVE Core'
  BY Zenon
<1>1. /\ snap.pc = "captured" /\ metaFile' = snap.meta /\ metaSeq' = snap.seq
      /\ snap'.pc = "metaSaved" /\ snap'.seq = snap.seq /\ snap'.graph = snap.graph
      /\ snap'.meta = snap.meta /\ snap'.off = snap.off
      /\ UNCHANGED <<wal, tail, synced, snapFile, mode, memory, commit, history>>
  BY Zenon DEF SnapSaveMeta, TypeOK
<1>2. /\ mode = "up" /\ snap.seq <= seq /\ snapFile.seq <= snap.seq
      /\ snap.graph = StateAt(snap.seq).graph /\ snap.meta = StateAt(snap.seq).meta
      /\ snap.off = snap.seq - Base
  BY Zenon, <1>1 DEF Core, SnapInv
<1>3. seq <= Len(log)
  BY Zenon, <1>2 DEF Core, ServingInv
<1>4. HistoryInv' /\ WalInv' /\ DurableInv'
  BY Zenon, <1>1, HistorySame DEF Core, WalInv, DurableInv, Reached, Base, history
<1>5. FilesInv'
  <2>1. snap.seq <= Len(log)
    BY SMTT(60), <1>2, <1>3, Numbers
  <2> QED
    BY Zenon, <2>1, <1>1, <1>2, StatesSame DEF Core, FilesInv, history
<1>6. ServingInv' /\ WritingInv' /\ WriteInv' /\ GraphInv' /\ MetaInv' /\ ReplayInv' /\ ModeInv'
  BY Zenon, <1>1, <1>2, MemoryStays DEF ReplayInv, history
<1>7. SnapInv'
  <2>1. Base' = Base
    BY Zenon, <1>1 DEF Base, history
  <2>2. /\ snap'.seq <= seq' /\ snapFile'.seq <= snap'.seq /\ metaSeq' <= snap'.seq
        /\ metaSeq' = snap'.seq /\ snap'.off = snap'.seq - Base'
    BY SMTT(60), <2>1, <1>1, <1>2, Numbers DEF memory
  <2>3. StateAt(snap.seq)' = StateAt(snap.seq)
    BY Zenon, <1>1, StatesSame DEF history
  <2> QED
    BY Zenon, <2>2, <2>3, <1>1, <1>2 DEF SnapInv
<1> QED
  BY Zenon, <1>4, <1>5, <1>6, <1>7 DEF Core

\* A newer snapshot lets recovery get at least as far.
LEMMA ReachedGrows ==
  ASSUME TypeOK, UNCHANGED <<wal, synced>>,
         snapFile'.seq \in Nat, snapFile.seq <= snapFile'.seq
  PROVE  /\ Reached(wal, synced) <= Reached(wal, synced)'
         /\ Reached(wal, synced) \in Nat /\ Reached(wal, synced)' \in Nat
<1>1. CASE synced = 0
  BY Zenon, <1>1, Numbers DEF Reached
<1>2. CASE synced # 0
  <2>1. synced \in 1..Len(wal) /\ wal \in Seq(Frames)
    BY SMTT(60), <1>2 DEF TypeOK
  <2>2. wal[synced] \in Frames
    BY Zenon, <2>1, Element
  <2>3. wal[synced].seq \in Nat
    BY Zenon, <2>2 DEF Frames
  <2>4. /\ Reached(wal, synced) = Greatest(wal[synced].seq, snapFile.seq)
        /\ Reached(wal, synced)' = Greatest(wal[synced].seq, snapFile'.seq)
    BY Zenon, <1>2 DEF Reached, Greatest
  <2>5. snapFile.seq \in Nat
    BY Zenon, Numbers
  <2> QED
    BY SMTT(60), <2>3, <2>4, <2>5 DEF Greatest
<1> QED
  BY Zenon, <1>1, <1>2

\* The new graph file completes the snapshot.
LEMMA CoreSnapSaveGraph == TypeOK /\ TypeOK' /\ Core /\ SnapSaveGraph => Core'
<1> SUFFICES ASSUME TypeOK, TypeOK', Core, SnapSaveGraph PROVE Core'
  BY Zenon
<1>1. /\ snap.pc = "metaSaved" /\ snapFile'.graph = snap.graph /\ snapFile'.seq = snap.seq
      /\ snap'.pc = "graphSaved" /\ snap'.seq = snap.seq /\ snap'.graph = snap.graph
      /\ snap'.meta = snap.meta /\ snap'.off = snap.off
      /\ UNCHANGED <<wal, tail, synced, metaFile, metaSeq, mode, memory, commit, history>>
  BY SMTT(60) DEF SnapSaveGraph, TypeOK
<1>2. /\ mode = "up" /\ snap.seq <= seq /\ snapFile.seq <= snap.seq /\ metaSeq = snap.seq
      /\ snap.graph = StateAt(snap.seq).graph /\ snap.meta = StateAt(snap.seq).meta
      /\ snap.off = snap.seq - Base
  BY Zenon, <1>1 DEF Core, SnapInv
<1>3. WalInv'
  <2>1. Base' = Base /\ Base <= snap.seq
    BY SMTT(60), <1>1, <1>2, Numbers DEF Base, Core, WalInv, history
  <2> QED
    BY Zenon, <2>1, <1>1 DEF Core, WalInv, history
<1>4. DurableInv'
  <2>1. Reached(wal, synced) <= Reached(wal, synced)' /\ Reached(wal, synced) \in Nat
        /\ Reached(wal, synced)' \in Nat
    BY Zenon, <1>1, <1>2, Numbers, ReachedGrows
  <2> QED
    BY SMTT(60), <2>1, <1>1, Numbers DEF Core, DurableInv, history
<1>5. HistoryInv' /\ FilesInv'
  <2>1. snap.seq <= Len(log)
    BY SMTT(60), <1>2, Numbers DEF Core, ServingInv
  <2>2. HistoryInv' /\ \A n : StateAt(n)' = StateAt(n)
    BY Zenon, <1>1, HistorySame, StatesSame DEF Core, history
  <2>3. metaFile = StateAt(metaSeq).meta
    BY Zenon DEF Core, FilesInv
  <2>4. snapFile'.seq <= metaSeq /\ metaSeq <= Len(log)
    BY SMTT(60), <2>1, <1>1, <1>2, Numbers
  <2> QED
    BY Zenon, <2>2, <2>3, <2>4, <1>1, <1>2 DEF FilesInv, history
<1>6. ServingInv' /\ WritingInv' /\ WriteInv' /\ GraphInv' /\ MetaInv' /\ ReplayInv' /\ ModeInv'
  BY Zenon, <1>1, <1>2, MemoryStays DEF ReplayInv, history
<1>7. SnapInv'
  <2>1. Base' = Base
    BY Zenon, <1>1 DEF Base, history
  <2>2. /\ snap'.seq <= seq' /\ snapFile'.seq <= snap'.seq /\ metaSeq' <= snap'.seq
        /\ metaSeq' = snap'.seq /\ snap'.off = snap'.seq - Base'
    BY SMTT(60), <2>1, <1>1, <1>2, Numbers DEF memory
  <2>3. StateAt(snap.seq)' = StateAt(snap.seq)
    BY Zenon, <1>1, StatesSame DEF history
  <2> QED
    BY Zenon, <2>2, <2>3, <1>1, <1>2 DEF SnapInv
<1> QED
  BY Zenon, <1>3, <1>4, <1>5, <1>6, <1>7 DEF Core

\* A snapshot that gives up leaves files the log still covers.
LEMMA CoreSnapFails == TypeOK /\ TypeOK' /\ Core /\ SnapFails => Core'
<1> SUFFICES ASSUME TypeOK, TypeOK', Core, SnapFails PROVE Core'
  BY Zenon
<1>1. /\ snap.pc # "idle" /\ snap'.pc = "idle"
      /\ UNCHANGED <<wal, tail, synced, mode, memory, commit, history>>
  BY Zenon DEF SnapFails, NoSnap
<1>2. \/ snap.pc = "captured" /\ metaFile' = snap.meta /\ metaSeq' = snap.seq /\ snapFile' = snapFile
      \/ snap.pc = "metaSaved" /\ snapFile'.seq = snap.seq /\ snapFile'.graph = snap.graph
         /\ metaFile' = metaFile /\ metaSeq' = metaSeq
      \/ snapFile' = snapFile /\ metaFile' = metaFile /\ metaSeq' = metaSeq
  BY DEF SnapFails
<1>3. /\ mode = "up" /\ snap.seq <= Len(log) /\ snapFile.seq <= snap.seq
      /\ snap.graph = StateAt(snap.seq).graph /\ snap.meta = StateAt(snap.seq).meta
      /\ snap.pc = "metaSaved" => metaSeq = snap.seq
  BY SMTT(60), <1>1, Numbers DEF Core, SnapInv, ServingInv
<1>4. snapFile.seq <= snapFile'.seq /\ snapFile'.seq \in Nat
  BY SMTT(60), <1>2, <1>3, Numbers
<1>5. HistoryInv' /\ FilesInv'
  <2>1. HistoryInv' /\ \A n : StateAt(n)' = StateAt(n)
    BY Zenon, <1>1, HistorySame, StatesSame DEF Core, history
  <2>2. snapFile.seq <= metaSeq /\ metaSeq <= Len(log)
      /\ snapFile.graph = StateAt(snapFile.seq).graph /\ metaFile = StateAt(metaSeq).meta
    BY Zenon DEF Core, FilesInv
  <2>3. snapFile'.seq <= metaSeq' /\ metaSeq' <= Len(log)
    BY SMTT(60), <2>2, <1>2, <1>3, Numbers
  <2>4. snapFile'.graph = StateAt(snapFile'.seq).graph /\ metaFile' = StateAt(metaSeq').meta
    BY Zenon, <2>2, <1>2, <1>3
  <2> QED
    BY Zenon, <2>1, <2>3, <2>4, <1>1 DEF FilesInv, history
<1>6. WalInv'
  <2>1. Base' = Base /\ Base <= snapFile'.seq
    BY SMTT(60), <1>1, <1>4, Numbers DEF Base, Core, WalInv, history
  <2> QED
    BY Zenon, <2>1, <1>1 DEF Core, WalInv, history
<1>7. DurableInv'
  <2>1. Reached(wal, synced) <= Reached(wal, synced)' /\ Reached(wal, synced) \in Nat
        /\ Reached(wal, synced)' \in Nat
    BY Zenon, <1>1, <1>4, ReachedGrows
  <2>2. DurableInv
    BY Zenon DEF Core
  <2>3. acked' = acked /\ acked \in Nat /\ log' = log
    BY Zenon, <1>1, Numbers DEF history
  <2> QED
    BY <2>1, <2>2, <2>3 DEF DurableInv
<1>8. ServingInv' /\ WritingInv' /\ WriteInv' /\ GraphInv' /\ MetaInv' /\ ReplayInv' /\ ModeInv'
  BY Zenon, <1>1, <1>3, MemoryStays DEF ReplayInv, history
<1>9. SnapInv'
  BY Zenon, <1>1 DEF SnapInv
<1> QED
  BY Zenon, <1>5, <1>6, <1>7, <1>8, <1>9 DEF Core

\* The records left out of the new log are those the snapshot holds.
LEMMA CoreRotate == TypeOK /\ TypeOK' /\ Core /\ Rotate /\ lapses' = {} => Core'
<1> SUFFICES ASSUME TypeOK, TypeOK', Core, Rotate, lapses' = {} PROVE Core'
  BY Zenon
<1>1. /\ snap.pc = "graphSaved" /\ phase = "idle"
      /\ tail' = "clean" /\ synced' = Len(wal') /\ nextSeq' = seq + 1 /\ ~failed'
      /\ snapshotSeq' = snap.seq
      /\ UNCHANGED <<snapFile, metaFile, metaSeq, mode, graph, metadata, seq, phase, batch, k,
                     log, states, acked>>
      /\ snap'.pc # "idle" => /\ snap'.pc = "rotated" /\ snap'.seq = snap.seq
                              /\ snap'.graph = snap.graph /\ snap'.meta = snap.meta
  BY SMTT(60) DEF Rotate, CopyTail, FirstSeq, commit, NoSnap, TypeOK
<1>2. ~(failed /\ seq < Len(log))
  BY Zenon DEF Rotate, CopyTail, FirstSeq
<1>3. /\ mode = "up" /\ snap.seq <= seq /\ snapFile.seq = snap.seq /\ metaSeq = snap.seq
      /\ snap.graph = StateAt(snap.seq).graph /\ snap.meta = StateAt(snap.seq).meta
      /\ snap.off = snap.seq - Base
  BY Zenon, <1>1 DEF Core, SnapInv
<1>4. /\ seq = Len(log) /\ acked <= seq
      /\ graph = StateAt(seq).graph /\ metadata = StateAt(seq).meta
  BY SMTT(60), <1>1, <1>2, <1>3, Numbers DEF Core, ServingInv
<1>5. PICK N \in Nat : N = Len(log)
  BY Zenon, Numbers
<1>6. PICK W \in Nat : W = Len(wal)
  BY Zenon, Numbers
<1>16. PICK q \in Nat : q = snap.seq /\ q = snapFile.seq /\ q <= N
  BY Zenon, <1>3, <1>4, <1>5, Numbers
<1>7. PICK o \in 0..W : o = snap.off /\ Base = N - W /\ q = N - W + o
  <2>1. snap.off \in Nat
    BY Zenon, Numbers
  <2>2. Base = N - W
    BY Zenon, <1>5, <1>6 DEF Base
  <2>3. snap.off = q - (N - W)
    BY Zenon, <2>2, <1>3, <1>16
  <2>4. snap.off \in 0..W /\ q = N - W + snap.off
    BY <2>1, <2>3, <1>16
  <2> QED
    BY Zenon, <2>2, <2>4
<1>8. Len(wal') = W - o /\ \A i \in 1..W - o : wal'[i] = wal[o + i]
  <2>1. wal' = SubSeq(wal, o + 1, Len(wal)) /\ wal \in Seq(Frames)
    BY SMTT(60), <1>7 DEF Rotate, CopyTail, FirstSeq, TypeOK
  <2> QED
    BY Zenon, <2>1, <1>6, Suffix
<1>9. Base' = q
  <2>1. Base' = N - (W - o)
    BY Zenon, <1>1, <1>5, <1>8 DEF Base
  <2> QED
    BY <2>1, <1>7
<1>10. HistoryInv' /\ FilesInv'
  BY Zenon, <1>1, HistorySame, StatesSame DEF Core, FilesInv
<1>11. WalInv'
  <2>1. ASSUME NEW i \in 1..W - o
        PROVE  wal'[i] = [seq |-> q + i, rec |-> log[q + i]]
    <3>1. PICK j \in 1..W : j = o + i /\ N - W + j = q + i
      BY <1>7
    <3>2. wal[j] = [seq |-> N - W + j, rec |-> log[N - W + j]]
      BY Zenon, <1>6, <1>7 DEF Core, WalInv
    <3> QED
      BY Zenon, <3>1, <3>2, <1>8
  <2>2. Len(wal') <= Len(log)'
    <3>1. Len(wal') = W - o /\ Len(log)' = N
      BY Zenon, <1>1, <1>5, <1>8
    <3> QED
      BY SMTT(60), <3>1, <1>7, <1>16
  <2>3. Base' <= snapFile'.seq
    BY SMTT(60), <1>1, <1>9, <1>16
  <2> QED
    BY Zenon, <2>1, <2>2, <2>3, <1>1, <1>8, <1>9 DEF WalInv
<1>12. DurableInv'
  <2>1. CASE W - o = 0
    <3>1. snapFile.seq = Len(log)
      BY <2>1, <1>5, <1>7, <1>16
    <3> QED
      BY Zenon, <2>1, <3>1, <1>1, <1>4, <1>8 DEF DurableInv, Reached
  <2>2. CASE W - o # 0
    <3>1. W - o \in 1..W - o
      BY <2>2, <1>7
    <3>2. wal'[W - o] = [seq |-> Base' + (W - o), rec |-> log'[Base' + (W - o)]]
      BY Zenon, <3>1, <1>8, <1>11 DEF WalInv
    <3>3. wal'[W - o].seq = N
      BY SMTT(60), <3>2, <1>7, <1>9
    <3>4. Reached(wal, synced)' = Greatest(N, snapFile.seq)
      BY Zenon, <3>3, <2>2, <1>1, <1>8 DEF Reached, Greatest
    <3> QED
      BY SMTT(60), <3>4, <1>1, <1>4, <1>5, Numbers DEF DurableInv, Greatest
  <2> QED
    BY Zenon, <2>1, <2>2
<1>13. ServingInv'
  <2>1. Base' <= snapshotSeq' /\ snapshotSeq' <= seq /\ seq <= Len(log)
    BY SMTT(60), <1>1, <1>4, <1>5, <1>9, <1>16
  <2>2. StateAt(seq)' = StateAt(seq)
    BY Zenon, <1>1, StatesSame
  <2> QED
    BY Zenon, <2>1, <2>2, <1>1, <1>3, <1>4 DEF ServingInv
<1>14. WritingInv' /\ WriteInv' /\ GraphInv' /\ MetaInv' /\ ReplayInv' /\ ModeInv'
  BY Zenon, <1>1, <1>3 DEF WritingInv, WriteInv, GraphInv, MetaInv, ReplayInv, ModeInv
<1>15. SnapInv'
  <2>1. \A n : StateAt(n)' = StateAt(n)
    BY Zenon, <1>1, StatesSame
  <2>2. snap'.pc # "idle" =>
          (snap.graph = StateAt(snap.seq).graph /\ snap.meta = StateAt(snap.seq).meta)'
    BY Zenon, <2>1, <1>1, <1>3
  <2>3. snap'.pc # "idle" =>
          snap'.seq <= seq' /\ snapFile'.seq = snap'.seq /\ metaSeq' = snap'.seq /\ snap'.seq \in Nat
    BY Zenon, <1>1, <1>3, Numbers
  <2>4. snap'.pc # "idle" => snapFile'.seq <= snap'.seq /\ metaSeq' <= snap'.seq
    BY SMTT(60), <2>3
  <2>5. mode' = "up" /\ (snap'.pc = "idle" \/ snap'.pc = "rotated")
    BY Zenon, <1>1, <1>3
  <2> QED
    BY Zenon, <2>2, <2>3, <2>4, <2>5 DEF SnapInv
<1> QED
  BY Zenon, <1>10, <1>11, <1>12, <1>13, <1>14, <1>15 DEF Core

-----------------------------------------------------------------------------
(* Crashes. *)

\* Without a process only the files are left to speak of.
LEMMA CoreStop ==
  ASSUME Stop
  PROVE  /\ ServingInv' /\ WritingInv' /\ WriteInv' /\ GraphInv' /\ MetaInv' /\ ReplayInv'
         /\ SnapInv' /\ ModeInv'
  BY SMTT(60) DEF Stop, NoSnap, ServingInv, WritingInv, WriteInv, GraphInv, MetaInv, ReplayInv,
     SnapInv,
         ModeInv

\* The files stay as they are.
LEMMA CoreCloseKill == TypeOK /\ Core /\ (Close \/ Kill) => Core'
<1> SUFFICES ASSUME TypeOK, Core, Close \/ Kill PROVE Core'
  BY Zenon
<1>1. /\ Stop /\ tail' # "hole"
      /\ UNCHANGED <<wal, synced, snapFile, metaFile, metaSeq, log, states, acked>>
  BY Zenon DEF Close, Kill, files, history, Core, WalInv
<1> QED
  BY Zenon, <1>1, FilesStay, CoreStop DEF Core

\* A power loss takes only records after the last fsync.
LEMMA CorePowerLoss == TypeOK /\ TypeOK' /\ Core /\ PowerLoss /\ lapses' = {} => Core'
<1> SUFFICES ASSUME TypeOK, TypeOK', Core, PowerLoss, lapses' = {} PROVE Core'
  BY Zenon
<1>1. PICK n \in synced..Len(wal) :
        /\ wal' = SubSeq(wal, 1, n) /\ synced' = n
        /\ Forget(Reached(wal, n)) /\ tail' # "hole" /\ ~FilesAhead(n)
  <2>1. PICK n \in synced..Len(wal) :
          /\ wal' = SubSeq(wal, 1, n) /\ synced' = n /\ Forget(Reached(wal, n))
          /\ lapses' = lapses \cup (IF tail' = "hole" THEN {"reorderedPages"} ELSE {})
                              \cup (IF FilesAhead(n) THEN {"unsyncedReplay"} ELSE {})
    BY Zenon DEF PowerLoss
  <2>2. tail' # "hole" /\ ~FilesAhead(n)
    BY Zenon, <2>1
  <2> QED
    BY Zenon, <2>1, <2>2
<1>2. Stop /\ UNCHANGED <<snapFile, metaFile, metaSeq, acked>>
  BY Zenon DEF PowerLoss
<1>3. PICK N \in Nat : N = Len(log)
  BY Zenon, Numbers
<1>4. PICK W \in Nat : W = Len(wal)
  BY Zenon, Numbers
<1>5. PICK s \in Nat : s = snapFile.seq
  BY SMTT(60), Numbers
<1>6. Base = N - W /\ W <= N /\ N - W <= s /\ s <= N /\ n \in 0..W
  <2>1. Base = N - W
    BY Zenon, <1>3, <1>4 DEF Base
  <2>2. s <= N
    BY Zenon, <1>3, <1>5, FileOrder
  <2>3. W <= N /\ N - W <= s
    BY Zenon, <2>1, <1>3, <1>4, <1>5, FileOrder
  <2> QED
    BY <2>1, <2>2, <2>3, <1>4, FileNumbers
<1>7. Reached(wal, n) = Greatest(N - W + n, s)
  BY Zenon, <1>4, <1>5, <1>6, ReachedAt
<1>8. PICK m \in 0..N : m = Greatest(N - W + n, s)
  <2>1. Greatest(N - W + n, s) \in 0..N
    BY <1>6 DEF Greatest
  <2> QED
    BY Zenon, <2>1
<1>9. Shrinks(m)
  <2>1. Least(m, Len(log)) = m
    BY <1>3 DEF Least
  <2> QED
    BY Zenon, <2>1, <1>1, <1>7, <1>8 DEF Forget, Shrinks
<1>10. /\ Len(log') = m
       /\ \A i \in 1..m : log'[i] = log[i]
       /\ \A i \in 0..m : StateAt(i)' = StateAt(i)
  BY Zenon, <1>3, <1>9, ShrinksFacts
<1>11. HistoryInv'
  BY Zenon, <1>3, <1>9, HistoryShrinks DEF Core
<1>12. Len(wal') = n /\ \A i \in 1..n : wal'[i] = wal[i]
  BY SMTT(60), <1>1, <1>4, <1>6, Prefix DEF TypeOK
<1>13. n # 0 => wal[n].seq = N - W + n
  <2> SUFFICES ASSUME n # 0 PROVE wal[n].seq = N - W + n
    BY Zenon
  <2>1. n \in 1..Len(wal)
    BY <1>4, <1>6
  <2>2. wal[n] = [seq |-> N - W + n, rec |-> log[N - W + n]]
    BY Zenon, <2>1, <1>6 DEF Core, WalInv
  <2> QED
    BY <2>2
<1>14. (n # 0 => m = N - W + n) /\ (n = 0 => m = s) /\ metaSeq <= m
  <2>1. n # 0 => ~(N - W + n < s)
    BY SMTT(60), <1>1, <1>5, <1>6, <1>13 DEF FilesAhead
  <2>2. ~(m < metaSeq)
    BY Zenon, <1>1, <1>7, <1>8 DEF FilesAhead
  <2> QED
    BY SMTT(60), <2>1, <2>2, <1>6, <1>8, Numbers DEF Greatest
<1>15. WalInv'
  <2>1. Base' = m - n
    BY Zenon, <1>10, <1>12 DEF Base
  <2>2. ASSUME NEW i \in 1..n PROVE wal'[i] = [seq |-> m - n + i, rec |-> log'[m - n + i]]
    <3>1. PICK j \in 1..m : j = m - n + i /\ j = N - W + i /\ i \in 1..W
      BY <1>6, <1>8, <1>14
    <3>2. wal[i] = [seq |-> N - W + i, rec |-> log[N - W + i]]
      BY SMTT(60), <3>1, <1>4, <1>6 DEF Core, WalInv
    <3> QED
      BY SMTT(60), <3>1, <3>2, <1>10, <1>12
  <2>3. n <= m /\ m - n <= s
    BY <1>6, <1>14
  <2> QED
    BY SMTT(60), <2>1, <2>2, <2>3, <1>1, <1>2, <1>5, <1>10, <1>12 DEF WalInv
<1>16. FilesInv'
  <2>1. s \in 0..m /\ metaSeq \in 0..m /\ s <= metaSeq
    BY SMTT(60), <1>5, <1>6, <1>8, <1>14, Numbers DEF Greatest, Core, FilesInv
  <2> QED
    BY SMTT(60), <2>1, <1>2, <1>5, <1>10 DEF Core, FilesInv
<1>17. DurableInv'
  <2>1. Reached(wal, synced)' = Reached(wal, n)
    BY SMTT(60), <1>1, <1>2, <1>12 DEF Reached
  <2>2. Reached(wal, synced) = Greatest(N - W + synced, s)
    BY <1>4, <1>5, <1>6, FileNumbers, ReachedAt
  <2>3. acked <= Greatest(N - W + synced, s) /\ acked \in Nat
    BY Zenon, <2>2, Numbers DEF Core, DurableInv
  <2>4. synced \in 0..n
    BY Numbers
  <2>5. acked <= m
    BY <2>3, <2>4, <1>6, <1>8 DEF Greatest
  <2> QED
    BY Zenon, <2>1, <2>5, <1>2, <1>7, <1>8, <1>10 DEF DurableInv
<1> QED
  BY Zenon, <1>2, <1>11, <1>15, <1>16, <1>17, <1>1, CoreStop DEF Core

-----------------------------------------------------------------------------
(* Recovery. *)

\* What is not touched between two points is the same at both.
LEMMA FrameAt ==
  ASSUME Core, NEW i \in 0..Len(log), NEW j \in i..Len(log), NEW id \in Ids, Untouched(id, i, j)
  PROVE  StateAt(j).graph[id] = StateAt(i).graph[id] /\ StateAt(j).meta[id] = StateAt(i).meta[id]
  BY Zenon DEF Core, HistoryInv, Frame

\* Open loads the two snapshot files.
LEMMA CoreOpenLoad == TypeOK /\ TypeOK' /\ Core /\ OpenLoad => Core'
<1> SUFFICES ASSUME TypeOK, TypeOK', Core, OpenLoad PROVE Core'
  BY Zenon
<1>1. /\ mode = "down" /\ mode' = "replay" /\ graph' = snapFile.graph /\ metadata' = metaFile
      /\ seq' = snapFile.seq /\ snapshotSeq' = snapFile.seq /\ rpos' = 0
      /\ UNCHANGED <<files, commit, snap, history>>
  BY Zenon DEF OpenLoad
<1>2. HistoryInv' /\ WalInv' /\ FilesInv' /\ DurableInv'
  BY Zenon, <1>1, FilesUnchanged
<1>3. phase = "idle" /\ snap.pc = "idle"
  BY Zenon, <1>1 DEF Core, WritingInv, SnapInv
<1>4. /\ snapFile.graph = StateAt(snapFile.seq).graph /\ metaFile = StateAt(metaSeq).meta
      /\ snapFile.seq \in 0..Len(log) /\ metaSeq \in snapFile.seq..Len(log)
  <2>1. snapFile.graph = StateAt(snapFile.seq).graph /\ metaFile = StateAt(metaSeq).meta
    BY Zenon DEF Core, FilesInv
  <2>2. snapFile.seq \in 0..Len(log) /\ metaSeq \in snapFile.seq..Len(log)
    BY FileNumbers, FileOrder
  <2> QED
    BY Zenon, <2>1, <2>2
<1>5. ReplayInv'
  <2>1. Base' = Base /\ snapFile.seq = Greatest(snapFile.seq, Base + 0)
    <3>1. Base \in Int /\ Base <= snapFile.seq
      BY SMTT(60), Numbers DEF Base, Core, WalInv
    <3> QED
      BY SMTT(60), <3>1, <1>1, Numbers DEF Base, Greatest, files, history
  <2>2. StateAt(seq)' = StateAt(snapFile.seq)
    BY Zenon, <1>1, StatesSame DEF history
  <2>3. ASSUME NEW id \in Ids, Untouched(id, snapFile.seq, metaSeq)
        PROVE  metaFile[id] = StateAt(snapFile.seq).meta[id]
    BY Zenon, <2>3, <1>4, FrameAt
  <2> QED
    BY Zenon, <2>1, <2>2, <2>3, <1>1, <1>3, <1>4
       DEF ReplayInv, MetaUpTo, Untouched, files, commit, history
<1>6. ServingInv' /\ WritingInv' /\ WriteInv' /\ GraphInv' /\ MetaInv' /\ SnapInv' /\ ModeInv'
  BY Zenon, <1>1, <1>3 DEF ServingInv, WritingInv, WriteInv, GraphInv, MetaInv, SnapInv, ModeInv,
     commit
<1> QED
  BY Zenon, <1>2, <1>5, <1>6 DEF Core

\* The next record of wal.log is the one after those replayed.
LEMMA NextFrame ==
  ASSUME TypeOK, Core, mode = "replay", rpos < Len(wal)
  PROVE  /\ ~OutOfSequence(wal[rpos + 1])
         /\ wal[rpos + 1] = [seq |-> Base + rpos + 1, rec |-> log[Base + rpos + 1]]
         /\ wal[rpos + 1].seq = Base + rpos + 1
         /\ Base + rpos + 1 \in 1..Len(log)
         /\ Base + rpos + 1 > snapshotSeq => seq = Base + rpos
<1>1. PICK N \in Nat : N = Len(log)
  BY Zenon, Numbers
<1>2. PICK W \in Nat : W = Len(wal)
  BY Zenon, Numbers
<1>3. PICK p \in 0..W - 1 : p = rpos
  BY SMTT(60), <1>2, Numbers
<1>4. Base = N - W /\ W <= N
  BY Zenon, <1>1, <1>2 DEF Base, Core, WalInv
<1>5. \A i \in 1..W : wal[i] = [seq |-> N - W + i, rec |-> log[N - W + i]]
  BY SMTT(60), <1>2, <1>4 DEF Core, WalInv
<1>6. PICK s \in Nat : s = snapshotSeq /\ s = snapFile.seq
  BY SMTT(60), Numbers DEF Core, ReplayInv
<1>7. seq = Greatest(s, N - W + p)
  BY Zenon, <1>3, <1>4, <1>6 DEF Core, ReplayInv
<1>8. /\ wal[p + 1] = [seq |-> N - W + p + 1, rec |-> log[N - W + p + 1]]
      /\ p > 0 => wal[p] = [seq |-> N - W + p, rec |-> log[N - W + p]]
  <2>1. p + 1 \in 1..W /\ N - W + (p + 1) = N - W + p + 1
    BY <1>3, <1>4
  <2>2. p > 0 => p \in 1..W
    BY <1>3
  <2>3. wal[p + 1] = [seq |-> N - W + (p + 1), rec |-> log[N - W + (p + 1)]]
    BY SMTT(60), <2>1, <1>5
  <2>4. wal[p + 1] = [seq |-> N - W + p + 1, rec |-> log[N - W + p + 1]]
    BY Zenon, <2>1, <2>3
  <2> QED
    BY Zenon, <2>2, <2>4, <1>5
<1>9. ~(p > 0 /\ wal[p + 1].seq # wal[p].seq + 1)
  BY <1>8, <1>4, <1>3
<1>10. N - W + p + 1 > s => seq = N - W + p
  BY <1>7, <1>4, <1>3 DEF Greatest
<1>11. ~OutOfSequence(wal[p + 1])
  BY SMTT(60), <1>3, <1>4, <1>6, <1>8, <1>9, <1>10 DEF OutOfSequence
<1>12. Base + rpos + 1 = N - W + p + 1 /\ Base + rpos = N - W + p
  BY Zenon, <1>3, <1>4
<1>13. N - W + p + 1 \in 1..N
  BY <1>3, <1>4
<1>14. wal[p + 1].seq = N - W + p + 1
  BY SMTT(60), <1>8
<1> QED
  BY Zenon, <1>1, <1>3, <1>6, <1>8, <1>10, <1>11, <1>12, <1>13, <1>14

\* Replaying one record brings the loaded state closer to the history.
LEMMA CoreOpenReplay == TypeOK /\ TypeOK' /\ Core /\ OpenReplay => Core'
<1> SUFFICES ASSUME TypeOK, TypeOK', Core, OpenReplay PROVE Core'
  BY Zenon
<1>1. /\ mode = "replay" /\ rpos < Len(wal) /\ rpos' = rpos + 1
      /\ UNCHANGED <<files, mode, snapshotSeq, commit, snap, history>>
  BY Zenon DEF OpenReplay
<1>2. HistoryInv' /\ WalInv' /\ FilesInv' /\ DurableInv'
  BY Zenon, <1>1, FilesUnchanged
<1>3. phase = "idle" /\ snap.pc = "idle" /\ snapshotSeq = snapFile.seq
      /\ seq = Greatest(snapFile.seq, Base + rpos) /\ graph = StateAt(seq).graph
      /\ \A id \in Ids : graph[id] # Absent => MetaUpTo(seq, metaSeq, id)
  BY Zenon, <1>1 DEF Core, ReplayInv, SnapInv
<1>9. PICK b \in Int : b = Base
  BY Zenon, BaseInt
<1>10. PICK p \in Nat : p = rpos
  BY Zenon, Numbers
<1>4. PICK m \in 1..Len(log) :
        m = b + p + 1 /\ wal[rpos + 1].seq = m /\ wal[rpos + 1].rec = log[m]
        /\ (m > snapshotSeq => seq = m - 1)
  <2>1. b + p + 1 - 1 = b + p
    OBVIOUS
  <2>2. /\ wal[rpos + 1] = [seq |-> b + p + 1, rec |-> log[b + p + 1]]
        /\ b + p + 1 \in 1..Len(log)
        /\ b + p + 1 > snapshotSeq => seq = b + p
    BY Zenon, <1>1, <1>9, <1>10, NextFrame
  <2>3. wal[rpos + 1].seq = b + p + 1 /\ wal[rpos + 1].rec = log[b + p + 1]
    BY SMTT(60), <2>2
  <2>4. b + p + 1 > snapshotSeq => seq = b + p + 1 - 1
    BY Zenon, <2>1, <2>2
  <2> QED
    BY SMTT(60), <2>2, <2>3, <2>4
<1>5. Base' = Base /\ Base \in Int /\ Base + rpos' = m /\ Base + rpos = m - 1
  <2>1. Base' = Base
    BY Zenon, <1>1 DEF Base, files, history
  <2>2. b + rpos' = m /\ b + rpos = m - 1
    BY <1>1, <1>4, <1>10
  <2> QED
    BY Zenon, <2>1, <2>2, <1>9
<1>6. ServingInv' /\ WritingInv' /\ WriteInv' /\ GraphInv' /\ MetaInv' /\ SnapInv' /\ ModeInv'
  BY Zenon, <1>1, <1>3 DEF ServingInv, WritingInv, WriteInv, GraphInv, MetaInv, SnapInv, ModeInv,
     commit
<1>7. CASE m <= snapshotSeq
  <2>1. UNCHANGED <<graph, metadata, seq>>
    <3>1. ~(m > snapshotSeq)
      BY SMTT(60), <1>7, Numbers
    <3> QED
      BY Zenon, <3>1, <1>4 DEF OpenReplay
  <2>2. seq = snapFile.seq /\ seq = Greatest(snapFile.seq, m)
    <3>1. seq = Greatest(snapFile.seq, m - 1) /\ m <= snapFile.seq /\ snapFile.seq \in Nat
      <4>1. snapFile.seq \in Nat
        BY Zenon, Numbers
      <4> QED
        BY Zenon, <4>1, <1>3, <1>5, <1>7
    <3>2. m \in Nat
      OBVIOUS
    <3> QED
      BY <3>1, <3>2 DEF Greatest
  <2>3. StateAt(seq)' = StateAt(seq)
    BY Zenon, <1>1, <2>1, StatesSame DEF history
  <2>4. ReplayInv'
    <3>1. /\ phase' = "idle" /\ snapshotSeq' = snapFile'.seq
          /\ seq' = Greatest(snapFile'.seq, Base' + rpos') /\ graph' = StateAt(seq)'.graph
      BY Zenon, <2>1, <2>2, <2>3, <1>1, <1>3, <1>5 DEF files, commit
    <3>2. \A id \in Ids : MetaUpTo(seq, metaSeq, id)' <=> MetaUpTo(seq, metaSeq, id)
      BY Zenon, <2>1, <2>3, <1>1 DEF MetaUpTo, Untouched, files, history
    <3> QED
      BY Zenon, <3>1, <3>2, <2>1, <1>3 DEF ReplayInv
  <2> QED
    BY Zenon, <2>4, <1>2, <1>6 DEF Core
<1>8. CASE m > snapshotSeq
  <2>1. PICK r \in Records : r = log[m]
    <3>1. log \in Seq(Records)
      BY Zenon DEF TypeOK
    <3> QED
      BY Zenon, <3>1, Element
  <2>2. /\ graph' = GraphAfter(graph, r) /\ seq' = m
        /\ metadata' = [metadata EXCEPT ![r.id] = r.meta]
    <3>1. ~(m <= snapshotSeq)
      BY SMTT(60), <1>8, Numbers
    <3> QED
      BY Zenon, <3>1, <1>4, <2>1 DEF OpenReplay
  <2>3. seq = m - 1 /\ m - 1 \in 0..Len(log) /\ StateAt(m - 1) \in DB
    <3>1. seq = m - 1 /\ m - 1 \in 0..Len(log)
      BY SMTT(60), <1>4, <1>8, Numbers
    <3> QED
      BY Zenon, <3>1, StateAtType
  <2>4. StateAt(m) = Apply(StateAt(m - 1), r)
    BY Zenon, <2>1 DEF Core, HistoryInv, StatesFollow
  <2>5. graph' = StateAt(m).graph
    BY SMTT(60), <2>2, <2>3, <2>4, <1>3 DEF Apply
  <2>6. m = Greatest(snapFile.seq, m)
    BY SMTT(60), <1>3, <1>8, Numbers DEF Greatest
  <2>7. metadata \in MetaMaps /\ metaSeq \in Nat
    BY SMTT(60) DEF TypeOK
  <2>8. ASSUME NEW id \in Ids, graph'[id] # Absent
        PROVE  metadata'[id] = StateAt(m).meta[id] \/ ~Untouched(id, m, metaSeq)
    <3>1. CASE r.id = id
      <4>1. StateAt(m).meta[id] = r.meta
        BY SMTT(60), <3>1, <2>3, <2>4, <2>5, <2>8, ApplyAt
      <4> QED
        BY Zenon, <4>1, <3>1, <2>2, <2>7 DEF MetaMaps
    <3>2. CASE r.id # id
      <4>1. StateAt(m).graph[id] = StateAt(m - 1).graph[id] /\ StateAt(m).meta[id] = StateAt(m - 1).meta[id]
        BY SMTT(60), <3>2, <2>3, <2>4, ApplyAt
      <4>2. metadata'[id] = metadata[id]
        BY Zenon, <3>2, <2>2, <2>7 DEF MetaMaps
      <4>3. metadata[id] = StateAt(m - 1).meta[id] \/ ~Untouched(id, m - 1, metaSeq)
        BY Zenon, <4>1, <2>3, <2>5, <2>8, <1>3 DEF MetaUpTo
      <4>4. Untouched(id, m, metaSeq) => Untouched(id, m - 1, metaSeq)
        <5> SUFFICES ASSUME Untouched(id, m, metaSeq), NEW n \in m..metaSeq PROVE log[n].id # id
          BY <2>7 DEF Untouched
        <5>1. CASE n = m
          BY Zenon, <5>1, <3>2, <2>1
        <5>2. CASE n # m
          BY <5>2, <2>7 DEF Untouched
        <5> QED
          BY Zenon, <5>1, <5>2
      <4> QED
        BY Zenon, <4>1, <4>2, <4>3, <4>4
    <3> QED
      BY Zenon, <3>1, <3>2
  <2>9. StateAt(seq)' = StateAt(m)
    BY Zenon, <1>1, <2>2, StatesSame DEF history
  <2>10. ReplayInv'
    BY ZenonT(60), <2>2, <2>5, <2>6, <2>8, <2>9, <1>1, <1>3, <1>5
       DEF ReplayInv, MetaUpTo, Untouched, files, commit, history
  <2> QED
    BY Zenon, <2>10, <1>2, <1>6 DEF Core
<1> QED
  BY SMTT(60), <1>7, <1>8, Numbers

\* No directory the engine wrote is refused.
LEMMA CoreOpenRefuses == TypeOK /\ Core => ~OpenRefuses
  BY Zenon, NextFrame DEF OpenRefuses, Core, WalInv

\* After the replay the served state is the one the history tells.
LEMMA CoreOpenFinish == TypeOK /\ TypeOK' /\ Core /\ OpenFinish => Core'
<1> SUFFICES ASSUME TypeOK, TypeOK', Core, OpenFinish PROVE Core'
  BY Zenon
<1>1. /\ mode = "replay" /\ rpos = Len(wal) /\ mode' = "up" /\ tail' = "clean"
      /\ nextSeq' = seq + 1 /\ ~failed'
      /\ UNCHANGED <<wal, synced, snapFile, metaFile, metaSeq, graph, seq, snapshotSeq, commit, snap,
                     history>>
  BY Zenon DEF OpenFinish, FirstSeq
<1>2. HistoryInv' /\ WalInv' /\ FilesInv' /\ DurableInv'
  <2>1. UNCHANGED <<log, states, acked>>
    BY Zenon, <1>1 DEF history
  <2> QED
    BY Zenon, <2>1, <1>1, FilesStay
<1>3. phase = "idle" /\ snap.pc = "idle" /\ snapshotSeq = snapFile.seq
      /\ seq = Greatest(snapFile.seq, Base + rpos) /\ graph = StateAt(seq).graph
      /\ \A id \in Ids : graph[id] # Absent => MetaUpTo(seq, metaSeq, id)
  BY Zenon, <1>1 DEF Core, ReplayInv, SnapInv
<1>4. snapFile.seq <= Len(log) /\ metaSeq <= Len(log) /\ acked <= Len(log) /\ Base <= snapFile.seq
  BY Zenon, FileOrder
<1>5. seq = Len(log)
  <2>1. Base + rpos = Len(log)
    BY <1>1, FileNumbers DEF Base
  <2>2. seq = Greatest(snapFile.seq, Len(log))
    BY Zenon, <2>1, <1>3
  <2> QED
    BY Zenon, <2>2, <1>4, FileNumbers DEF Greatest
<1>6. metadata' = StateAt(seq).meta
  <2>1. seq \in 0..Len(log) /\ StateAt(seq).meta \in MetaMaps
    BY SMTT(60), <1>5, Numbers, StateAtType DEF DB
  <2>2. ASSUME NEW id \in Ids
        PROVE  (IF graph[id] = Absent THEN NoMeta ELSE metadata[id]) = StateAt(seq).meta[id]
    <3>1. CASE graph[id] = Absent
      BY Zenon, <3>1, <2>1, <1>3 DEF Core, HistoryInv, NoStrayMeta
    <3>2. CASE graph[id] # Absent
      <4>1. Untouched(id, seq, metaSeq)
        BY <1>4, <1>5, FileNumbers DEF Untouched
      <4> QED
        BY Zenon, <4>1, <3>2, <1>3 DEF MetaUpTo
    <3> QED
      BY Zenon, <3>1, <3>2
  <2>3. metadata' = [id \in Ids |-> IF graph[id] = Absent THEN NoMeta ELSE metadata[id]]
    BY Zenon DEF OpenFinish, FirstSeq
  <2> QED
    BY Zenon, <2>1, <2>2, <2>3 DEF MetaMaps
<1>7. ServingInv'
  <2>1. Base' = Base /\ StateAt(seq)' = StateAt(seq)
    BY Zenon, <1>1, StatesSame DEF Base, history
  <2> QED
    BY SMTT(60), <2>1, <1>1, <1>3, <1>4, <1>5, <1>6, Numbers DEF ServingInv, history
<1>8. WritingInv' /\ WriteInv' /\ GraphInv' /\ MetaInv' /\ ReplayInv' /\ SnapInv' /\ ModeInv'
  BY Zenon, <1>1, <1>3 DEF WritingInv, WriteInv, GraphInv, MetaInv, ReplayInv, SnapInv, ModeInv,
     commit
<1> QED
  BY Zenon, <1>2, <1>7, <1>8 DEF Core

-----------------------------------------------------------------------------
(* The invariant and its consequences. *)

\* The invariant holds of an empty directory.
LEMMA CoreInit == Init => Core
<1> SUFFICES ASSUME Init PROVE Core
  BY Zenon
<1>1. Len(wal) = 0 /\ Len(log) = 0
  BY Zenon DEF Init
<1>2. StateAt(0).graph = EmptyGraph /\ StateAt(0).meta = EmptyMeta
  BY Zenon DEF StateAt
<1>3. HistoryInv
  BY SMTT(60), <1>1, <1>2 DEF HistoryInv, StatesFollow, NoStrayMeta, Frame, Removal, EmptyGraph,
     EmptyMeta
<1>4. WalInv /\ FilesInv /\ DurableInv
  BY SMTT(60), <1>1, <1>2 DEF Init, WalInv, FilesInv, DurableInv, Reached, Base
<1>5. ServingInv
  BY SMTT(60), <1>1, <1>2 DEF Init, ServingInv, Base
<1>6. WritingInv /\ WriteInv /\ GraphInv /\ MetaInv /\ ReplayInv /\ SnapInv /\ ModeInv
  BY Zenon DEF Init, NoSnap, WritingInv, WriteInv, GraphInv, MetaInv, ReplayInv, SnapInv, ModeInv
<1> QED
  BY SMTT(60), <1>3, <1>4, <1>5, <1>6 DEF Core

\* A lapse is never undone.
LEMMA LapsesGrow == TypeOK /\ [Next]_vars => lapses \subseteq lapses'
<1>1. Commit => lapses' = lapses
  <2>1. Begin => lapses' = lapses
    BY Zenon DEF Begin, history
  <2>2. WriteFrame => lapses' = lapses
    BY Zenon DEF WriteFrame
  <2>3. WriteFails => lapses' = lapses
    BY Zenon DEF WriteFails, Poison, history
  <2>4. SyncFails => lapses' = lapses
    BY Zenon DEF SyncFails, Poison, history
  <2>5. Sync => lapses' = lapses
    BY Zenon DEF Sync, history
  <2>6. ApplyGraph => lapses' = lapses
    BY Zenon DEF ApplyGraph, history
  <2>7. GraphDone => lapses' = lapses
    BY Zenon DEF GraphDone, history
  <2>8. ApplyMeta => lapses' = lapses
    BY Zenon DEF ApplyMeta, history
  <2>9. Acknowledge => lapses' = lapses
    BY Zenon DEF Acknowledge
  <2> QED
    BY Zenon, <2>1, <2>2, <2>3, <2>4, <2>5, <2>6, <2>7, <2>8, <2>9 DEF Commit
<1>2. Snapshot => lapses \subseteq lapses'
  <2>1. SnapCapture => lapses \subseteq lapses'
    BY Zenon DEF SnapCapture, history
  <2>2. SnapSaveMeta => lapses \subseteq lapses'
    BY Zenon DEF SnapSaveMeta, history
  <2>3. SnapSaveGraph => lapses \subseteq lapses'
    BY Zenon DEF SnapSaveGraph, history
  <2>4. SnapFails => lapses \subseteq lapses'
    BY Zenon DEF SnapFails, history
  <2>5. Rotate => lapses \subseteq lapses'
    BY Zenon DEF Rotate, history
  <2> QED
    BY Zenon, <2>1, <2>2, <2>3, <2>4, <2>5 DEF Snapshot
<1>3. Crash => lapses \subseteq lapses'
  <2>1. Close => lapses \subseteq lapses'
    BY Zenon DEF Close, history
  <2>2. Kill => lapses \subseteq lapses'
    BY Zenon DEF Kill, history
  <2>3. PowerLoss => lapses \subseteq lapses'
    BY Zenon DEF PowerLoss
  <2>4. PowerLossEntry => lapses \subseteq lapses'
    BY Zenon DEF PowerLossEntry
  <2> QED
    BY Zenon, <2>1, <2>2, <2>3, <2>4 DEF Crash
<1>4. Open => lapses' = lapses
  <2>1. OpenLoad => lapses' = lapses
    BY Zenon DEF OpenLoad, history
  <2>2. OpenReplay => lapses' = lapses
    BY Zenon DEF OpenReplay, history
  <2>3. OpenRefuses => lapses' = lapses
    BY Zenon DEF OpenRefuses, history
  <2>4. OpenFinish => lapses' = lapses
    BY Zenon DEF OpenFinish, history
  <2> QED
    BY Zenon, <2>1, <2>2, <2>3, <2>4 DEF Open
<1>5. UNCHANGED vars => lapses' = lapses
  BY Zenon DEF vars, history
<1> QED
  BY Zenon, <1>1, <1>2, <1>3, <1>4, <1>5 DEF Next

\* Every step without a lapse keeps the invariant.
LEMMA CoreNext == TypeOK /\ TypeOK' /\ Core /\ [Next]_vars /\ lapses' = {} => Core'
<1> SUFFICES ASSUME TypeOK, TypeOK', Core, [Next]_vars, lapses' = {} PROVE Core'
  BY Zenon
<1>1. CASE Commit
  BY Zenon, <1>1, CoreBegin, CoreWriteFrame, CorePoison, CoreSync, CoreApplyGraph, CoreGraphDone,
     CoreApplyMeta, CoreAcknowledge DEF Commit
<1>2. CASE Snapshot
  BY Zenon, <1>2, CoreSnapCapture, CoreSnapSaveMeta, CoreSnapSaveGraph, CoreSnapFails, CoreRotate
     DEF Snapshot
<1>3. CASE Crash
  <2>1. ~PowerLossEntry
    BY Zenon DEF PowerLossEntry
  <2> QED
    BY Zenon, <2>1, <1>3, CoreCloseKill, CorePowerLoss DEF Crash
<1>4. CASE Open
  BY Zenon, <1>4, CoreOpenLoad, CoreOpenReplay, CoreOpenRefuses, CoreOpenFinish DEF Open
<1>5. CASE UNCHANGED vars
  <2>1. HistoryInv' /\ WalInv' /\ FilesInv' /\ DurableInv'
    BY Zenon, <1>5, FilesUnchanged DEF vars
  <2>2. ServingInv' /\ WritingInv' /\ WriteInv' /\ GraphInv' /\ MetaInv' /\ ModeInv'
    BY Zenon, <1>5, MemoryStays DEF vars, files, history
  <2>3. ReplayInv'
    BY ZenonT(60), <1>5, StatesSame DEF vars, files, memory, commit, history, Core, ReplayInv,
       Base, MetaUpTo, Untouched
  <2>4. SnapInv'
    BY Zenon, <1>5, StatesSame DEF vars, files, memory, history, Core, SnapInv, Base
  <2> QED
    BY Zenon, <2>1, <2>2, <2>3, <2>4 DEF Core
<1> QED
  BY Zenon, <1>1, <1>2, <1>3, <1>4, <1>5 DEF Next

\* The inductive invariant: as long as no lapse has happened, files, memory
\* and history fit together in every state, mid-commit, mid-snapshot and
\* mid-recovery included.
THEOREM Inductive == Spec => []IInv
<1>1. Init => IInv
  BY Zenon, CoreInit DEF IInv
<1>2. TypeOK /\ TypeOK' /\ IInv /\ [Next]_vars => IInv'
  BY Zenon, CoreNext, LapsesGrow DEF IInv, Unharmed
<1> QED
  BY <1>1, <1>2, TypeCorrect, PTL DEF Spec

\* Open never refuses a directory the engine wrote: wal.Recover finds
\* contiguous records and the ones after the snapshot follow it.
THEOREM Reopens == Spec => []OpenSucceeds
<1>1. IInv => OpenSucceeds
  BY Zenon DEF IInv, Core, ModeInv, OpenSucceeds
<1> QED
  BY <1>1, Inductive, PTL

\* Between commits the served database is what the log describes.
THEOREM ServesTheLog == Spec => []ServedMatchesLog
<1>1. IInv => ServedMatchesLog
  BY Zenon DEF IInv, Core, ServingInv, ServedMatchesLog
<1> QED
  BY <1>1, Inductive, PTL

\* commitLocked answers OK only to what the fsynced log and the snapshot
\* file hold, and nothing afterwards takes that away.
THEOREM AcksAreDurable == Spec => []AckedIsDurable
<1>1. IInv => AckedIsDurable
  BY Zenon DEF IInv, Core, DurableInv, AckedIsDurable
<1> QED
  BY <1>1, Inductive, PTL

\* What OpenWALForReplication promises a replica that has seen snapshotSeq.
THEOREM TailIsComplete == Spec => []TailServesReplicas
<1>1. TypeOK /\ IInv => TailServesReplicas
  <2> SUFFICES ASSUME TypeOK, IInv, Unharmed, mode = "up", NEW n \in snapshotSeq + 1..seq
               PROVE  \E i \in 1..Len(wal) : wal[i] = [seq |-> n, rec |-> log[n]]
    BY Zenon DEF TailServesReplicas
  <2>1. Core /\ Base <= snapshotSeq /\ seq <= Len(log)
    BY Zenon DEF IInv, Core, ServingInv
  <2>2. PICK b \in Int : b = Base /\ Len(wal) = Len(log) - b
    BY Zenon, BaseInt
  <2>3. PICK i \in 1..Len(wal) : n = Base + i
    <3>1. b <= snapshotSeq /\ snapshotSeq \in Nat /\ seq \in Nat
      BY Zenon, <2>1, <2>2, Numbers
    <3>2. n - b \in 1..Len(log) - b /\ n = b + (n - b)
      BY SMTT(60), <2>1, <3>1, Numbers
    <3> QED
      BY Zenon, <3>2, <2>2
  <2> QED
    BY Zenon, <2>1, <2>3 DEF Core, WalInv
<1> QED
  BY <1>1, Inductive, TypeCorrect, PTL

\* No step takes back an acknowledged record: what a rotation, a crash or a
\* recovery removes was never acknowledged.
THEOREM AcksSurvive == Spec => AckedNeverLost
<1> DEFINE Kept == lapses' = {} =>
                     /\ acked <= acked'
                     /\ \A n \in 1..acked : n <= Len(log') /\ log'[n] = log[n]
<1>1. TypeOK /\ IInv /\ [Next]_vars => [Kept]_vars
  <2> SUFFICES ASSUME TypeOK, IInv, [Next]_vars, lapses' = {}
               PROVE  /\ acked <= acked'
                      /\ \A n \in 1..acked : n <= Len(log') /\ log'[n] = log[n]
    BY Zenon DEF Kept
  <2>1. Core /\ acked <= Len(log)
    BY Zenon, LapsesGrow DEF IInv, Unharmed, Core, DurableInv
  <2>0. PICK a \in 0..Len(log) : a = acked
    BY SMTT(60), <2>1, Numbers
  <2>2. CASE UNCHANGED <<log, acked>>
    BY <2>1, <2>2, FileNumbers
  <2>3. CASE WriteFrame
    <3>1. batch[k] \in Records
      <4>1. k \in 1..Len(batch) /\ batch \in Seq(Records)
        BY SMTT(60), <2>3 DEF WriteFrame, TypeOK
      <4> QED
        BY Zenon, <4>1, Element
    <3>2. Grows(batch[k]) /\ acked' = acked
      BY Zenon, <2>3 DEF WriteFrame, Grows
    <3>3. Len(log') = Len(log) + 1 /\ \A n \in 1..Len(log) : log'[n] = log[n]
      BY Zenon, <3>1, <3>2, GrowsFacts
    <3> QED
      <4>1. acked' = a /\ Len(log') = Len(log) + 1 /\ Len(log) \in Nat
        BY Zenon, <3>2, <3>3, <2>0, Numbers
      <4>2. ASSUME NEW n \in 1..a PROVE n <= Len(log') /\ log'[n] = log[n]
        <5>1. n \in 1..Len(log) /\ n <= Len(log) + 1
          BY <4>1
        <5> QED
          BY Zenon, <5>1, <4>1, <3>3
      <4> QED
        BY <4>1, <4>2, <2>0
  <2>4. CASE Acknowledge
    <3>1. acked' = Len(log) /\ log' = log
      BY Zenon, <2>4 DEF Acknowledge
    <3> QED
      BY <3>1, <2>1, FileNumbers
  <2>5. CASE PowerLoss
    <3>1. PICK n \in synced..Len(wal) : Forget(Reached(wal, n))
      BY Zenon, <2>5 DEF PowerLoss
    <3>2. acked' = acked
      BY Zenon, <2>5 DEF PowerLoss
    <3>3. PICK m \in 0..Len(log) : m = Least(Reached(wal, n), Len(log)) /\ Shrinks(m)
      <4>1. wal \in Seq(Frames) /\ n \in 0..Len(wal)
        <5>1. wal \in Seq(Frames)
          BY Zenon DEF TypeOK
        <5>2. synced \in Nat
          BY Zenon, Numbers
        <5> QED
          BY <5>1, <5>2
      <4>2. Reached(wal, n) \in Nat
        BY Zenon, <4>1, ReachedType
      <4>3. Least(Reached(wal, n), Len(log)) \in 0..Len(log)
        BY <4>2, Numbers DEF Least
      <4> QED
        BY Zenon, <4>3, <3>1 DEF Forget, Shrinks
    <3>4. acked <= m
      <4>1. acked <= Reached(wal, synced)
        BY Zenon, <2>1 DEF Core, DurableInv
      <4>2. PICK b \in Int : b = Base
        BY Zenon, BaseInt
      <4>3. /\ Reached(wal, synced) = Greatest(b + synced, snapFile.seq)
            /\ Reached(wal, n) = Greatest(b + n, snapFile.seq)
        <5>1. synced \in 0..Len(wal) /\ n \in 0..Len(wal)
          BY FileNumbers
        <5> QED
          BY Zenon, <5>1, <4>2, <2>1, ReachedAt
      <4>4. PICK s \in Nat : s = snapFile.seq
        BY SMTT(60), Numbers
      <4>5. PICK y \in 0..n : y = synced
        BY SMTT(60), Numbers
      <4>6. a <= Greatest(b + y, s)
        BY Zenon, <4>1, <4>3, <4>4, <4>5, <2>0
      <4>7. m = Least(Greatest(b + n, s), Len(log)) /\ Len(log) \in Nat
        BY Zenon, <4>3, <4>4, <3>3, Numbers
      <4>8. a <= m
        BY <4>6, <4>7, <4>5 DEF Greatest, Least
      <4> QED
        BY Zenon, <4>8, <2>0
    <3>5. Len(log') = m /\ \A i \in 1..m : log'[i] = log[i]
      BY Zenon, <3>3, ShrinksFacts
    <3> QED
      BY <3>2, <3>4, <3>5, <2>0
  <2>6. ~PowerLossEntry
    BY Zenon DEF PowerLossEntry
  <2>7. CASE Commit
    <3>1. CASE Begin
      BY Zenon, <3>1, <2>2 DEF Begin, history
    <3>2. CASE WriteFails
      BY Zenon, <3>2, <2>2 DEF WriteFails, Poison, history
    <3>3. CASE SyncFails
      BY Zenon, <3>3, <2>2 DEF SyncFails, Poison, history
    <3>4. CASE Sync
      BY Zenon, <3>4, <2>2 DEF Sync, history
    <3>5. CASE ApplyGraph
      BY Zenon, <3>5, <2>2 DEF ApplyGraph, history
    <3>6. CASE GraphDone
      BY Zenon, <3>6, <2>2 DEF GraphDone, history
    <3>7. CASE ApplyMeta
      BY Zenon, <3>7, <2>2 DEF ApplyMeta, history
    <3> QED
      BY Zenon, <2>7, <3>1, <3>2, <3>3, <3>4, <3>5, <3>6, <3>7, <2>3, <2>4 DEF Commit
  <2>8. CASE Snapshot
    <3>1. CASE SnapCapture
      BY Zenon, <3>1, <2>2 DEF SnapCapture, history
    <3>2. CASE SnapSaveMeta
      BY Zenon, <3>2, <2>2 DEF SnapSaveMeta, history
    <3>3. CASE SnapSaveGraph
      BY Zenon, <3>3, <2>2 DEF SnapSaveGraph, history
    <3>4. CASE SnapFails
      BY Zenon, <3>4, <2>2 DEF SnapFails, history
    <3>5. CASE Rotate
      BY Zenon, <3>5, <2>2 DEF Rotate, history
    <3> QED
      BY Zenon, <2>8, <3>1, <3>2, <3>3, <3>4, <3>5 DEF Snapshot
  <2>9. CASE Crash
    <3>1. CASE Close
      BY Zenon, <3>1, <2>2 DEF Close, history
    <3>2. CASE Kill
      BY Zenon, <3>2, <2>2 DEF Kill, history
    <3> QED
      BY Zenon, <2>9, <3>1, <3>2, <2>5, <2>6 DEF Crash
  <2>10. CASE Open
    <3>1. CASE OpenLoad
      BY Zenon, <3>1, <2>2 DEF OpenLoad, history
    <3>2. CASE OpenReplay
      BY Zenon, <3>2, <2>2 DEF OpenReplay, history
    <3>3. CASE OpenRefuses
      BY Zenon, <3>3, <2>2 DEF OpenRefuses, history
    <3>4. CASE OpenFinish
      BY Zenon, <3>4, <2>2 DEF OpenFinish, history
    <3> QED
      BY Zenon, <2>10, <3>1, <3>2, <3>3, <3>4 DEF Open
  <2>11. CASE UNCHANGED vars
    BY Zenon, <2>11, <2>2 DEF vars, history
  <2> QED
    BY Zenon, <2>7, <2>8, <2>9, <2>10, <2>11 DEF Next
<1> QED
  BY <1>1, Inductive, TypeCorrect, PTL DEF Spec, AckedNeverLost

=============================================================================
