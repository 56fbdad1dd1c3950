------------------------------ MODULE EngineInv ------------------------------
(***************************************************************************)
(* The inductive invariant behind Engine's properties.  It speaks of runs  *)
(* in which no lapse has happened; TLC checks it on small instances and    *)
(* EngineProofs proves it.                                                 *)
(***************************************************************************)
EXTENDS Engine

\* The records that were logged before the first one of the current wal.log.
Base == Len(log) - Len(wal)

\* No record in i+1..j is about id.
Untouched(id, i, j) == \A n \in i + 1..j : log[n].id # id

\* Each state follows from the one before it.
StatesFollow == \A n \in 1..Len(log) : StateAt(n) = Apply(StateAt(n - 1), log[n])

\* An id that is not stored has no metadata.
NoStrayMeta ==
  \A n \in 0..Len(log) : \A id \in Ids :
    StateAt(n).graph[id] = Absent => StateAt(n).meta[id] = NoMeta

\* What no record touches does not change.
Frame ==
  \A i \in 0..Len(log) : \A j \in i..Len(log) : \A id \in Ids :
    Untouched(id, i, j) => /\ StateAt(j).graph[id] = StateAt(i).graph[id]
                           /\ StateAt(j).meta[id] = StateAt(i).meta[id]

\* Only a delete removes an id.
Removal ==
  \A i \in 0..Len(log) : \A j \in i..Len(log) : \A id \in Ids :
    StateAt(i).graph[id] # Absent /\ StateAt(j).graph[id] = Absent =>
      \E n \in i + 1..j : log[n].op = "delete" /\ log[n].id = id

HistoryInv == StatesFollow /\ NoStrayMeta /\ Frame /\ Removal

\* wal.log is a contiguous run of the log up to its end, and the snapshot
\* file covers everything before it.
WalInv ==
  /\ Len(wal) <= Len(log)
  /\ \A i \in 1..Len(wal) : wal[i] = [seq |-> Base + i, rec |-> log[Base + i]]
  /\ Base <= snapFile.seq
  /\ tail # "hole"

\* metadata.json is never older than snapshot.bin.
FilesInv ==
  /\ snapFile.seq <= metaSeq /\ metaSeq <= Len(log)
  /\ snapFile.graph = StateAt(snapFile.seq).graph
  /\ metaFile = StateAt(metaSeq).meta

DurableInv == acked <= Reached(wal, synced) /\ acked <= Len(log)

\* metadata agrees with the log up to r, except where a record in r+1..last
\* is still going to overwrite it.
MetaUpTo(r, last, id) ==
  metadata[id] = StateAt(r).meta[id] \/ ~Untouched(id, r, last)

ServingInv ==
  mode = "up" =>
    /\ Base <= snapshotSeq /\ snapshotSeq <= seq /\ seq <= Len(log)
    /\ acked <= seq
    /\ phase = "idle" =>
         /\ graph = StateAt(seq).graph /\ metadata = StateAt(seq).meta
         /\ nextSeq = seq + 1
         /\ ~failed => seq = Len(log) /\ tail = "clean"

WritingInv ==
  phase # "idle" =>
    /\ mode = "up" /\ ~failed /\ tail = "clean" /\ k > 0
    /\ \A i \in 1..Len(log) - seq : log[seq + i] = batch[i]

WriteInv ==
  phase = "write" =>
    /\ nextSeq = seq + 1 /\ Len(log) = seq + (k - 1)
    /\ graph = StateAt(seq).graph /\ metadata = StateAt(seq).meta

GraphInv ==
  phase = "graph" =>
    /\ nextSeq = Len(log) + 1 /\ Len(log) = seq + Len(batch) /\ synced = Len(wal)
    /\ graph = StateAt(seq + (k - 1)).graph /\ metadata = StateAt(seq).meta

\* An id the batch leaves stored gets the metadata of its last record; one
\* it removes loses its metadata at the removal at the latest.
MetaInv ==
  phase = "meta" =>
    /\ nextSeq = Len(log) + 1 /\ Len(log) = seq + Len(batch) /\ synced = Len(wal)
    /\ graph = StateAt(Len(log)).graph
    /\ \A id \in Ids :
         IF graph[id] # Absent
         THEN MetaUpTo(seq + (k - 1), Len(log), id)
         ELSE metadata[id] = NoMeta \/
                \E i \in k..Len(batch) : batch[i].op = "delete" /\ batch[i].id = id

ReplayInv ==
  mode = "replay" =>
    /\ phase = "idle"
    /\ snapshotSeq = snapFile.seq
    /\ seq = Greatest(snapFile.seq, Base + rpos)
    /\ graph = StateAt(seq).graph
    /\ \A id \in Ids : graph[id] # Absent => MetaUpTo(seq, metaSeq, id)

SnapInv ==
  snap.pc # "idle" =>
    /\ mode = "up"
    /\ snap.seq <= seq /\ snapFile.seq <= snap.seq /\ metaSeq <= snap.seq
    /\ snap.graph = StateAt(snap.seq).graph /\ snap.meta = StateAt(snap.seq).meta
    /\ snap.pc # "rotated" => snap.off = snap.seq - Base
    /\ snap.pc # "captured" => metaSeq = snap.seq
    /\ snap.pc \in {"graphSaved", "rotated"} => snapFile.seq = snap.seq

\* mode is never "refused".
ModeInv == mode # "refused"

Core ==
  /\ HistoryInv /\ WalInv /\ FilesInv /\ DurableInv
  /\ ServingInv /\ WritingInv /\ WriteInv /\ GraphInv /\ MetaInv
  /\ ReplayInv /\ SnapInv /\ ModeInv

\* Everything above holds as long as no lapse has happened: what recovery,
\* rotation and the commit path rely on of each other.
IInv == Unharmed => Core
=============================================================================
