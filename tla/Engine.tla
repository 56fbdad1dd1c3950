------------------------------- MODULE Engine -------------------------------
(***************************************************************************)
(* One storage engine (internal/engine/engine.go) over its three files:    *)
(* the write-ahead log (internal/storage/wal), the graph snapshot          *)
(* snapshot.bin and the metadata file metadata.json.  The model covers the *)
(* commit path under e.mu, the snapshot and log rotation that run beside   *)
(* it, process kills, power losses, I/O errors, and the recovery in Open.  *)
(*                                                                         *)
(* A log record is kept whole; the graph is the map from id to vector that *)
(* it stores (its links are not part of what recovery must reproduce).     *)
(***************************************************************************)
EXTENDS Integers, Sequences

CONSTANTS
  Ids,        \* vector ids
  Vectors,    \* vectors
  Metas,      \* non-empty metadata maps
  Absent,     \* "no vector stored under this id"
  NoMeta,     \* "no metadata stored under this id"
  Faults,     \* the environment events that may happen, see FaultKinds
  MaxSeq,     \* bound: records logged and not lost
  MaxBatch,   \* bound: records in one commit
  MaxSnaps,   \* bound: snapshots begun
  MaxEvents   \* bound: kills, power losses and I/O errors together

FaultKinds == {"kill", "power", "reorder", "entry", "write", "sync", "snap", "dirsync"}

ASSUME ConstantsAssumption ==
  /\ Absent \notin Vectors
  /\ NoMeta \notin Metas
  /\ Faults \subseteq FaultKinds
  /\ MaxSeq \in Nat /\ MaxBatch \in Nat /\ MaxSnaps \in Nat /\ MaxEvents \in Nat

VARIABLES
  \* Files.
  wal,        \* the complete records of wal.log, in file order
  tail,       \* what follows them: "clean", "torn" or "hole"
  synced,     \* how many of them an fsync has made durable
  shadow,     \* the wal.log that an unsynced directory entry still names
  snapFile,   \* snapshot.bin: the graph and its sequence number
  metaFile,   \* metadata.json
  \* Memory of the running process.
  mode,       \* "down", "replay" (inside Open), "up", "refused" (Open failed)
  graph, metadata,
  seq,        \* e.seq, and lastSeq while Open replays
  snapshotSeq,
  nextSeq, failed,  \* the WAL writer
  rpos,       \* records Open has read so far
  seen,       \* ids some caller may have found stored since Open
  phase, batch, k,  \* the commit in progress under e.mu
  snap,       \* the snapshot in progress under snapMu
  \* History, read only by the properties.
  log,        \* the record logged under each sequence number
  states,     \* the database after each of them
  acked,      \* the highest sequence number answered OK
  metaSeq,    \* the sequence number metaFile was captured at
  lapses,     \* events the code does not protect acknowledged writes from
  events, snaps

files == <<wal, tail, synced, shadow, snapFile, metaFile, metaSeq>>
memory == <<graph, metadata, seq, snapshotSeq, nextSeq, failed, rpos, seen>>
commit == <<phase, batch, k>>
history == <<log, states, acked, lapses>>
vars == <<files, mode, memory, commit, snap, history, events, snaps>>

-----------------------------------------------------------------------------
(* Records and the database they describe. *)

Inserts == [op : {"insert"}, id : Ids, vec : Vectors, meta : Metas \cup {NoMeta}]
Deletes == [op : {"delete"}, id : Ids, vec : {Absent}, meta : {NoMeta}]
MetaUpdates == [op : {"meta"}, id : Ids, vec : {Absent}, meta : Metas \cup {NoMeta}]
Records == Inserts \cup Deletes \cup MetaUpdates
Frames == [seq : Nat, rec : Records]

Graphs == [Ids -> Vectors \cup {Absent}]
MetaMaps == [Ids -> Metas \cup {NoMeta}]
EmptyGraph == [id \in Ids |-> Absent]
EmptyMeta == [id \in Ids |-> NoMeta]

Stored(g) == {id \in Ids : g[id] # Absent}

\* What a record does to the graph: both commitLocked and Open keep the
\* graph's operations in log order.
GraphAfter(g, r) ==
  IF r.op = "meta" THEN g ELSE [g EXCEPT ![r.id] = r.vec]

\* What a record means for the metadata: a metadata update of an id that is
\* not stored has no effect.
MetaAfter(s, r) ==
  IF r.op = "meta" /\ s.graph[r.id] = Absent THEN s.meta
  ELSE [s.meta EXCEPT ![r.id] = r.meta]

Apply(s, r) == [graph |-> GraphAfter(s.graph, r), meta |-> MetaAfter(s, r)]

\* The database the first n logged records describe.
StateAt(n) ==
  IF n = 0 THEN [graph |-> EmptyGraph, meta |-> EmptyMeta] ELSE states[n]

\* setMeta as commitLocked calls it, after the whole batch is in the graph.
SetMeta(g, md, r) ==
  IF g[r.id] # Absent \/ r.op = "delete"
  THEN [md EXCEPT ![r.id] = r.meta]
  ELSE md

NoShadow == [file |-> FALSE, wal |-> <<>>]
NoSnap == [pc |-> "idle", seq |-> 0, graph |-> EmptyGraph, meta |-> EmptyMeta,
           off |-> 0, closing |-> FALSE]

Least(m, n) == IF m <= n THEN m ELSE n
Greatest(m, n) == IF m <= n THEN n ELSE m

-----------------------------------------------------------------------------
Init ==
  /\ wal = <<>> /\ tail = "clean" /\ synced = 0
  \* The log is created without syncing its directory; where a file's fsync
  \* does not cover its directory entry, a power loss can still remove it.
  /\ shadow = IF "entry" \in Faults THEN [file |-> TRUE, wal |-> <<>>] ELSE NoShadow
  /\ snapFile = [seq |-> 0, graph |-> EmptyGraph]
  /\ metaFile = EmptyMeta /\ metaSeq = 0
  /\ mode = "up"
  /\ graph = EmptyGraph /\ metadata = EmptyMeta
  /\ seq = 0 /\ snapshotSeq = 0 /\ nextSeq = 1 /\ failed = FALSE
  /\ rpos = 0 /\ seen = {}
  /\ phase = "idle" /\ batch = <<>> /\ k = 0
  /\ snap = NoSnap
  /\ log = <<>> /\ states = <<>> /\ acked = 0 /\ lapses = {}
  /\ events = 0 /\ snaps = 0

\* An environment event of one of the kinds this instance allows.
Event(kind) == kind \in Faults /\ events < MaxEvents /\ events' = events + 1

-----------------------------------------------------------------------------
(* Commit: a group of queued operations, or one InsertBatch call, under mu. *)

\* Delete and UpdateMetadata look the id up before they queue, without mu, so
\* by the time the record is logged the id was stored at some earlier moment.
MayLog(r) == r.op = "insert" \/ r.id \in seen

Begin ==
  /\ mode = "up" /\ phase = "idle"
  /\ \E n \in 1..MaxBatch : \E b \in [1..n -> Records] :
       /\ \A i \in 1..n : MayLog(b[i])
       /\ Len(log) + n <= MaxSeq
       /\ batch' = b
  \* AppendBatch refuses before it writes once the writer is poisoned.
  /\ ~failed
  /\ phase' = "write" /\ k' = 1
  /\ UNCHANGED <<files, mode, memory, snap, history, events, snaps>>

\* AppendBatch's single Write, record by record: a kill or an error can
\* leave any prefix of the batch in the file.
WriteFrame ==
  /\ phase = "write" /\ k <= Len(batch)
  /\ wal' = Append(wal, [seq |-> nextSeq + (k - 1), rec |-> batch[k]])
  /\ log' = Append(log, batch[k])
  /\ states' = Append(states, Apply(StateAt(Len(log)), batch[k]))
  /\ k' = k + 1
  /\ UNCHANGED <<tail, synced, shadow, snapFile, metaFile, metaSeq, mode, memory,
                 phase, batch, snap, acked, lapses, events, snaps>>

\* Mutant: the error is returned and the writer stays usable.
PoisonForgotten(rest) ==
  /\ tail' = rest
  /\ phase' = "idle" /\ batch' = <<>> /\ k' = 0
  /\ UNCHANGED <<wal, synced, shadow, snapFile, metaFile, metaSeq, mode, memory, snap, history,
                 snaps>>

\* The write or the fsync fails: the writer is poisoned, the callers get the
\* error, and what reached the file stays there.
Poison(rest) ==
  /\ tail' = rest
  /\ failed' = TRUE
  /\ phase' = "idle" /\ batch' = <<>> /\ k' = 0
  /\ UNCHANGED <<wal, synced, shadow, snapFile, metaFile, metaSeq, mode, graph, metadata,
                 seq, snapshotSeq, nextSeq, rpos, seen, snap, history, snaps>>

WriteFails ==
  /\ phase = "write" /\ k <= Len(batch)
  /\ Event("write")
  /\ \E rest \in {"clean", "torn"} : Poison(rest)

SyncFails ==
  /\ phase = "write" /\ k = Len(batch) + 1
  /\ Event("sync")
  /\ Poison(tail)

\* Mutant: AppendBatch returns without Sync.
SyncSkipped ==
  /\ phase = "write" /\ k = Len(batch) + 1
  /\ nextSeq' = nextSeq + Len(batch)
  /\ phase' = "graph" /\ k' = 1
  /\ UNCHANGED <<files, mode, graph, metadata, seq, snapshotSeq, failed, rpos, seen, batch, snap,
                 history, events, snaps>>

Sync ==
  /\ phase = "write" /\ k = Len(batch) + 1
  /\ synced' = Len(wal)
  /\ nextSeq' = nextSeq + Len(batch)
  /\ phase' = "graph" /\ k' = 1
  /\ UNCHANGED <<wal, tail, shadow, snapFile, metaFile, metaSeq, mode, graph, metadata, seq,
                 snapshotSeq, failed, rpos, seen, batch, snap, history, events, snaps>>

ApplyGraph ==
  /\ phase = "graph" /\ k <= Len(batch)
  /\ graph' = GraphAfter(graph, batch[k])
  /\ seen' = seen \cup Stored(graph')
  /\ k' = k + 1
  /\ UNCHANGED <<files, mode, metadata, seq, snapshotSeq, nextSeq, failed, rpos,
                 phase, batch, snap, history, events, snaps>>

GraphDone ==
  /\ phase = "graph" /\ k = Len(batch) + 1
  /\ phase' = "meta" /\ k' = 1
  /\ UNCHANGED <<files, mode, memory, batch, snap, history, events, snaps>>

ApplyMeta ==
  /\ phase = "meta" /\ k <= Len(batch)
  /\ metadata' = SetMeta(graph, metadata, batch[k])
  /\ k' = k + 1
  /\ UNCHANGED <<files, mode, graph, seq, snapshotSeq, nextSeq, failed, rpos, seen,
                 phase, batch, snap, history, events, snaps>>

\* e.seq advances, mu is released and every caller in the group gets nil.
Acknowledge ==
  /\ phase = "meta" /\ k = Len(batch) + 1
  /\ seq' = nextSeq - 1
  /\ acked' = Len(log)
  /\ phase' = "idle" /\ batch' = <<>> /\ k' = 0
  /\ UNCHANGED <<files, mode, graph, metadata, snapshotSeq, nextSeq, failed, rpos, seen,
                 snap, log, states, lapses, events, snaps>>

-----------------------------------------------------------------------------
(* Snapshot, and the snapshot Close begins with. *)

SnapCapture ==
  /\ mode = "up" /\ phase = "idle" /\ snap.pc = "idle"
  /\ snaps < MaxSnaps
  /\ ~failed                                  \* Size fails on a poisoned writer
  /\ \E closing \in BOOLEAN :
       snap' = [pc |-> "captured", seq |-> seq, graph |-> graph, meta |-> metadata,
                off |-> Len(wal), closing |-> closing]
  /\ snaps' = snaps + 1
  /\ UNCHANGED <<files, mode, memory, commit, history, events>>

\* Mutant: the metadata is marshalled when it is written, not when it is captured.
SaveLiveMeta ==
  /\ snap.pc = "captured"
  /\ metaFile' = metadata /\ metaSeq' = snap.seq
  /\ shadow' = NoShadow
  /\ snap' = [snap EXCEPT !.pc = "metaSaved"]
  /\ UNCHANGED <<wal, tail, synced, snapFile, mode, memory, commit, history, events, snaps>>

\* writeFileAtomic(metadata.json): fsynced, renamed, directory synced.
SnapSaveMeta ==
  /\ snap.pc = "captured"
  /\ metaFile' = snap.meta /\ metaSeq' = snap.seq
  /\ shadow' = NoShadow
  /\ snap' = [snap EXCEPT !.pc = "metaSaved"]
  /\ UNCHANGED <<wal, tail, synced, snapFile, mode, memory, commit, history, events, snaps>>

\* Mutant: snapshot.bin does not wait for metadata.json.
SaveGraphFirst ==
  /\ snap.pc \in {"captured", "metaSaved"}
  /\ snapFile' = [seq |-> snap.seq, graph |-> snap.graph]
  /\ shadow' = NoShadow
  /\ snap' = [snap EXCEPT !.pc = IF @ = "captured" THEN @ ELSE "graphSaved"]
  /\ UNCHANGED <<wal, tail, synced, metaFile, metaSeq, mode, memory, commit, history,
                 events, snaps>>

\* segment.SaveState(snapshot.bin).
SnapSaveGraph ==
  /\ snap.pc = "metaSaved"
  /\ snapFile' = [seq |-> snap.seq, graph |-> snap.graph]
  /\ shadow' = NoShadow
  /\ snap' = [snap EXCEPT !.pc = "graphSaved"]
  /\ UNCHANGED <<wal, tail, synced, metaFile, metaSeq, mode, memory, commit, history,
                 events, snaps>>

\* An I/O error ends the snapshot. The file being replaced may already have
\* been renamed into place.
SnapFails ==
  /\ snap.pc # "idle"
  /\ Event("snap")
  /\ \/ snap.pc = "captured" /\ metaFile' = snap.meta /\ metaSeq' = snap.seq
        /\ UNCHANGED snapFile
     \/ snap.pc = "metaSaved" /\ snapFile' = [seq |-> snap.seq, graph |-> snap.graph]
        /\ UNCHANGED <<metaFile, metaSeq>>
     \/ UNCHANGED <<snapFile, metaFile, metaSeq>>
  /\ snap' = NoSnap
  /\ UNCHANGED <<wal, tail, synced, shadow, mode, memory, commit, history, snaps>>

\* Mutants: the new log starts empty, or one record late.
CopyNothing == <<>>
CopyTailLate == SubSeq(wal, snap.off + 2, Len(wal))

\* copyTail: what was appended after the captured offset.
CopyTail == SubSeq(wal, snap.off + 1, Len(wal))

\* openAppend: the number a fresh writer gives its first record.
FirstSeq(startSeq) == startSeq + 1

\* rotateWALLocked: the records after the captured offset become the new log,
\* opened by a fresh writer that continues from e.seq. A failed directory sync
\* is reported, but the new log is in use by then.
Rotate ==
  /\ snap.pc = "graphSaved" /\ phase = "idle"
  /\ wal' = CopyTail
  /\ tail' = "clean"
  /\ synced' = Len(wal')
  /\ nextSeq' = FirstSeq(seq)
  /\ failed' = FALSE
  /\ snapshotSeq' = snap.seq
  /\ \/ shadow' = NoShadow /\ UNCHANGED events
     \/ Event("dirsync") /\ shadow' = [file |-> TRUE, wal |-> SubSeq(wal, 1, synced)]
  /\ lapses' = IF failed /\ seq < Len(log) THEN lapses \cup {"poisonedRotation"} ELSE lapses
  /\ snap' = IF snap.closing THEN [snap EXCEPT !.pc = "rotated"] ELSE NoSnap
  /\ UNCHANGED <<snapFile, metaFile, metaSeq, mode, graph, metadata, seq, rpos, seen, commit,
                 log, states, acked, snaps>>

-----------------------------------------------------------------------------
(* Stopping: Close, kill -9 and power loss. *)

Stop ==
  /\ mode' = "down"
  /\ graph' = EmptyGraph /\ metadata' = EmptyMeta
  /\ seq' = 0 /\ snapshotSeq' = 0 /\ nextSeq' = 0 /\ failed' = FALSE
  /\ rpos' = 0 /\ seen' = {}
  /\ phase' = "idle" /\ batch' = <<>> /\ k' = 0
  /\ snap' = NoSnap

\* The last sequence number recovery can reach from the first n records.
Reached(w, n) == IF n = 0 THEN snapFile.seq ELSE Greatest(w[n].seq, snapFile.seq)

\* The records recovery can still find are what is left of the history.
Forget(n) ==
  /\ log' = SubSeq(log, 1, Least(n, Len(log)))
  /\ states' = SubSeq(states, 1, Least(n, Len(log)))

Close ==
  /\ snap.pc = "rotated" /\ phase = "idle"
  /\ Stop
  /\ UNCHANGED <<files, history, events, snaps>>

\* kill -9 keeps what was written, fsynced or not, and can tear a Write.
Kill ==
  /\ mode \in {"up", "replay"}
  /\ Event("kill")
  /\ Stop
  /\ \/ UNCHANGED tail
     \/ phase = "write" /\ k <= Len(batch) /\ tail' = "torn"
  /\ UNCHANGED <<wal, synced, shadow, snapFile, metaFile, metaSeq, history, snaps>>

\* Only the first n records survive, and a file written from more than that
\* is still there.
FilesAhead(n) ==
  \/ n > 0 /\ wal[n].seq < snapFile.seq
  \/ Reached(wal, n) < metaSeq

\* A power loss keeps at least the fsynced records. Out-of-order writeback
\* can leave a damaged record before a good one of the same write.
PowerLoss ==
  /\ mode # "refused"
  /\ Event("power")
  /\ Stop
  /\ \E n \in synced..Len(wal) :
       /\ wal' = SubSeq(wal, 1, n) /\ synced' = n
       /\ tail' \in {"clean"} \cup (IF n < Len(wal) \/ phase = "write" \/ tail = "torn"
                                    THEN {"torn"} ELSE {})
                    \cup (IF n + 1 < Len(wal) /\ "reorder" \in Faults THEN {"hole"} ELSE {})
       /\ Forget(Reached(wal, n))
       /\ lapses' = lapses
            \cup (IF tail' = "hole" THEN {"reorderedPages"} ELSE {})
            \cup (IF FilesAhead(n) THEN {"unsyncedReplay"} ELSE {})
  /\ shadow' = NoShadow
  /\ UNCHANGED <<snapFile, metaFile, metaSeq, acked, snaps>>

\* The directory entry was never made durable: the earlier file comes back.
PowerLossEntry ==
  /\ mode # "refused" /\ shadow.file
  /\ Event("power")
  /\ Stop
  /\ wal' = shadow.wal /\ tail' = "clean" /\ synced' = Len(shadow.wal)
  /\ Forget(Reached(shadow.wal, Len(shadow.wal)))
  /\ lapses' = lapses \cup {"unsyncedEntry"}
  /\ shadow' = NoShadow
  /\ UNCHANGED <<snapFile, metaFile, metaSeq, acked, snaps>>

-----------------------------------------------------------------------------
(* Open: load the snapshot and the metadata, replay the log, cut its tail. *)

OpenLoad ==
  /\ mode = "down"
  /\ graph' = snapFile.graph /\ metadata' = metaFile
  /\ seq' = snapFile.seq /\ snapshotSeq' = snapFile.seq
  /\ rpos' = 0
  /\ mode' = "replay"
  /\ UNCHANGED <<files, nextSeq, failed, seen, commit, snap, history, events, snaps>>

\* wal.Recover's own contiguity check, then the one in Open's callback.
OutOfSequence(f) ==
  \/ rpos > 0 /\ f.seq # wal[rpos].seq + 1
  \/ f.seq > snapshotSeq /\ f.seq # seq + 1

OpenReplay ==
  /\ mode = "replay" /\ rpos < Len(wal)
  /\ LET f == wal[rpos + 1] IN
       /\ ~OutOfSequence(f)
       /\ rpos' = rpos + 1
       /\ \/ f.seq <= snapshotSeq /\ UNCHANGED <<graph, metadata, seq>>
          \/ /\ f.seq > snapshotSeq
             /\ graph' = GraphAfter(graph, f.rec)
             /\ metadata' = [metadata EXCEPT ![f.rec.id] = f.rec.meta]
             /\ seq' = f.seq
  /\ UNCHANGED <<files, mode, snapshotSeq, nextSeq, failed, seen, commit, snap, history,
                 events, snaps>>

\* ErrInvalidSequence, or ErrCorruptMidLog for a good record after a bad one.
OpenRefuses ==
  /\ mode = "replay"
  /\ \/ rpos < Len(wal) /\ OutOfSequence(wal[rpos + 1])
     \/ rpos = Len(wal) /\ tail = "hole"
  /\ mode' = "refused"
  /\ UNCHANGED <<files, memory, commit, snap, history, events, snaps>>

\* Metadata of ids the graph does not have is dropped, a torn tail is cut,
\* and the writer continues after the last record. Nothing is fsynced.
OpenFinish ==
  /\ mode = "replay" /\ rpos = Len(wal) /\ tail # "hole"
  /\ metadata' = [id \in Ids |-> IF graph[id] = Absent THEN NoMeta ELSE metadata[id]]
  /\ tail' = "clean"
  /\ nextSeq' = FirstSeq(seq) /\ failed' = FALSE
  /\ seen' = Stored(graph)
  /\ rpos' = 0
  /\ mode' = "up"
  /\ UNCHANGED <<wal, synced, shadow, snapFile, metaFile, metaSeq, graph, seq, snapshotSeq,
                 commit, snap, history, events, snaps>>

-----------------------------------------------------------------------------
Commit == Begin \/ WriteFrame \/ WriteFails \/ SyncFails \/ Sync
            \/ ApplyGraph \/ GraphDone \/ ApplyMeta \/ Acknowledge
Snapshot == SnapCapture \/ SnapSaveMeta \/ SnapSaveGraph \/ SnapFails \/ Rotate
Crash == Close \/ Kill \/ PowerLoss \/ PowerLossEntry
Open == OpenLoad \/ OpenReplay \/ OpenRefuses \/ OpenFinish

Next == Commit \/ Snapshot \/ Crash \/ Open

Spec == Init /\ [][Next]_vars

-----------------------------------------------------------------------------
\* Every variable has its type, counters never go below what the code gives
\* them, and a commit or a snapshot is in progress only in an open engine.
TypeOK ==
  /\ wal \in Seq(Frames) /\ tail \in {"clean", "torn", "hole"} /\ synced \in 0..Len(wal)
  /\ shadow \in [file : BOOLEAN, wal : Seq(Frames)]
  /\ snapFile \in [seq : Nat, graph : Graphs] /\ metaFile \in MetaMaps /\ metaSeq \in Nat
  /\ mode \in {"down", "replay", "up", "refused"}
  /\ graph \in Graphs /\ metadata \in MetaMaps
  /\ seq \in Nat /\ snapshotSeq \in Nat /\ nextSeq \in Nat /\ failed \in BOOLEAN
  /\ rpos \in Nat /\ (mode = "replay" => rpos <= Len(wal)) /\ seen \subseteq Ids
  /\ phase \in {"idle", "write", "graph", "meta"}
  /\ batch \in Seq(Records) /\ k \in 0..Len(batch) + 1
  /\ phase # "idle" => k > 0
  /\ phase # "idle" \/ snap.pc # "idle" => mode = "up"
  /\ mode = "up" => nextSeq > 0
  /\ snap \in [pc : {"idle", "captured", "metaSaved", "graphSaved", "rotated"}, seq : Nat,
               graph : Graphs, meta : MetaMaps, off : Nat, closing : BOOLEAN]
  /\ log \in Seq(Records) /\ Len(states) = Len(log)
  /\ states \in Seq([graph : Graphs, meta : MetaMaps])
  /\ acked \in Nat /\ events \in Nat /\ snaps \in Nat
  /\ lapses \subseteq {"poisonedRotation", "reorderedPages", "unsyncedReplay", "unsyncedEntry"}

\* None of the events the code leaves unprotected has happened.
Unharmed == lapses = {}

\* Open never refuses a directory the engine itself wrote: no sequence gap,
\* no duplicate and no mid-log damage is ever found on restart.
OpenSucceeds == Unharmed => mode # "refused"

\* Between commits the served database is exactly what the log up to e.seq
\* describes, nothing acknowledged missing: after any mix of commits,
\* snapshots cut short, crashes and replays onto a newer metadata.json.
ServedMatchesLog ==
  Unharmed /\ mode = "up" /\ phase = "idle" =>
    /\ acked <= seq /\ seq <= Len(log)
    /\ graph = StateAt(seq).graph
    /\ metadata = StateAt(seq).meta

\* At every moment, mid-commit and mid-snapshot included, the fsynced part of
\* wal.log and the snapshot file alone reach every acknowledged record.
AckedIsDurable == Unharmed => acked <= Reached(wal, synced)

\* A replica that has everything up to snapshotSeq finds every later applied
\* record in the log (OpenWALForReplication serves it without a snapshot).
TailServesReplicas ==
  Unharmed /\ mode = "up" =>
    \A n \in snapshotSeq + 1..seq :
      \E i \in 1..Len(wal) : wal[i] = [seq |-> n, rec |-> log[n]]

\* An acknowledged record is never dropped or replaced, whatever the step.
AckedNeverLost ==
  [][lapses' = {} =>
       /\ acked <= acked'
       /\ \A n \in 1..acked : n <= Len(log') /\ log'[n] = log[n]]_vars

=============================================================================
