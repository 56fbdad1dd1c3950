-------------------------- MODULE SnapshotInstall --------------------------
(***************************************************************************)
(* Installing a leader's snapshot on a follower (LoadSnapshot,             *)
(* beginSnapshotInstall and recoverSnapshotInstall in                      *)
(* internal/engine/engine.go): three files are swapped under a marker file *)
(* with backups, so that a crash, an I/O error or a crash during the       *)
(* recovery itself leaves the old three files or the new three.            *)
(*                                                                         *)
(* A file is the version of the engine's state it belongs to; every file   *)
(* is fsynced before it is renamed, so only directory entries are at risk. *)
(* A kill keeps the directory as it is; a power loss returns to any of its *)
(* states since the last syncDir, in the order they were made.             *)
(***************************************************************************)
EXTENDS Naturals

CONSTANTS
  None,         \* "there is no such file"
  NoMarker,     \* "there is no install marker"
  MaxVersions,  \* bound: snapshots installed or taken
  MaxCrashes,   \* bound: kills and power losses
  MaxErrors     \* bound: I/O errors

Files == {"snapshot", "metadata", "wal"}

ASSUME ConstantsAssumption ==
  /\ None \notin Nat /\ NoMarker \notin [Files -> BOOLEAN]
  /\ MaxVersions \in Nat /\ MaxCrashes \in Nat /\ MaxErrors \in Nat

VARIABLES
  dir,      \* the engine's directory
  past,     \* its states since the last syncDir, the present one included
  first,    \* the three files the engine started with
  pc, i,    \* the step of LoadSnapshot or of the recovery, and the file it is at
  caller,   \* who runs the recovery: "open" or "rollback"
  original, \* targets[i].original
  mem,      \* the files the served state was loaded from or saved to
  ver,      \* versions made so far
  kept,     \* the version a caller was last told is installed or saved
  lapses,   \* errors after which the code leaves the marker behind
  crashes, errors

vars == <<dir, past, first, pc, i, caller, original, mem, ver, kept, lapses, crashes, errors>>

Order == <<"snapshot", "metadata", "wal">>   \* targets, in order
Versions == Nat \cup {None}
Triples == [Files -> Versions]
Markers == [Files -> BOOLEAN] \cup {NoMarker}
Dirs == [live : Triples, incoming : Triples, backup : Triples, marker : Markers]

Nothing == [f \in Files |-> None]
Image(v) == IF v = 0 THEN first ELSE [f \in Files |-> v]

\* A directory change that a power loss can still undo, and the syncDir
\* after which it cannot.
Change(d) == dir' = d /\ past' = past \cup {d}
SyncDir == past' = {dir} /\ UNCHANGED dir

Init ==
  /\ first \in {f \in [Files -> {0, None}] : f["wal"] = 0 /\ (f["snapshot"] = 0 => f["metadata"] = 0)}
  /\ dir = [live |-> first, incoming |-> Nothing, backup |-> Nothing, marker |-> NoMarker]
  /\ past = {dir}
  /\ pc = "idle" /\ i = 1 /\ caller = "open"
  /\ original = [f \in Files |-> FALSE]
  /\ mem = first /\ ver = 0 /\ kept = 0 /\ lapses = {}
  /\ crashes = 0 /\ errors = 0

Error == errors < MaxErrors /\ errors' = errors + 1

-----------------------------------------------------------------------------
(* LoadSnapshot up to the marker: the live files are not touched. *)

\* writeFileFrom for the two transferred files, CreateWriter for the log.
Receive ==
  /\ pc = "receive" \/ (pc = "idle" /\ ver < MaxVersions)
  /\ ver' = IF pc = "idle" THEN ver + 1 ELSE ver
  /\ Change([dir EXCEPT !.incoming[Order[i]] = ver'])
  /\ IF i < 3 THEN pc' = "receive" /\ i' = i + 1 ELSE pc' = "begin" /\ i' = 1
  /\ UNCHANGED <<first, caller, original, mem, kept, lapses, crashes, errors>>

\* A broken transfer, a file that does not validate, an error before the
\* marker is renamed: the deferred removes are all that is left to do.
ReceiveFails ==
  /\ pc \in {"receive", "begin", "marker"}
  /\ Error
  /\ Change([dir EXCEPT !.incoming = Nothing])
  /\ pc' = "idle" /\ i' = 1
  /\ UNCHANGED <<first, caller, original, mem, ver, kept, lapses, crashes>>

BeginInstall ==
  /\ pc = "begin"
  /\ original' = [f \in Files |-> dir.live[f] # None]
  /\ Change([dir EXCEPT !.backup = Nothing])
  /\ pc' = "marker"
  /\ UNCHANGED <<first, i, caller, mem, ver, kept, lapses, crashes, errors>>

\* writeFileAtomic renames the marker into place...
WriteMarker ==
  /\ pc = "marker"
  /\ Change([dir EXCEPT !.marker = original])
  /\ pc' = "markerSync"
  /\ UNCHANGED <<first, i, caller, original, mem, ver, kept, lapses, crashes, errors>>

\* ... and syncs the directory.
SyncMarker ==
  /\ pc = "markerSync"
  /\ SyncDir
  /\ pc' = "swapOut"
  /\ UNCHANGED <<first, i, caller, original, mem, ver, kept, lapses, crashes, errors>>

\* LoadSnapshot returns the error before it has deferred the rollback, so
\* the marker stays.
SyncMarkerFails ==
  /\ pc = "markerSync"
  /\ Error
  /\ Change([dir EXCEPT !.incoming = Nothing])
  /\ lapses' = lapses \cup {"staleMarker"}
  /\ pc' = "idle" /\ i' = 1
  /\ UNCHANGED <<first, caller, original, mem, ver, kept, crashes>>

-----------------------------------------------------------------------------
(* The swap, under mu. *)

SwapOut ==
  /\ pc = "swapOut"
  /\ LET f == Order[i] IN
       Change(IF original[f]
              THEN [dir EXCEPT !.backup[f] = dir.live[f], !.live[f] = None]
              ELSE dir)
  /\ pc' = "swapIn"
  /\ UNCHANGED <<first, i, caller, original, mem, ver, kept, lapses, crashes, errors>>

SwapIn ==
  /\ pc = "swapIn"
  /\ LET f == Order[i] IN
       Change([dir EXCEPT !.live[f] = dir.incoming[f], !.incoming[f] = None])
  /\ IF i < 3 THEN pc' = "swapOut" /\ i' = i + 1 ELSE pc' = "swapSync" /\ i' = 1
  /\ UNCHANGED <<first, caller, original, mem, ver, kept, lapses, crashes, errors>>

SyncSwap ==
  /\ pc = "swapSync"
  /\ SyncDir
  /\ pc' = "commit"
  /\ UNCHANGED <<first, i, caller, original, mem, ver, kept, lapses, crashes, errors>>

RemoveMarker ==
  /\ pc = "commit"
  /\ Change([dir EXCEPT !.marker = NoMarker])
  /\ pc' = "committed"
  /\ UNCHANGED <<first, i, caller, original, mem, ver, kept, lapses, crashes, errors>>

\* Mutant: LoadSnapshot returns the error and leaves the rest to the next Open.
SwapFailsReturns ==
  /\ pc \in {"swapOut", "swapIn", "swapSync", "commit"}
  /\ Error
  /\ pc' = "idle" /\ i' = 1
  /\ UNCHANGED <<dir, past, first, caller, original, mem, ver, kept, lapses, crashes>>

\* Any error before the commit point runs the recovery as a rollback.
SwapFails ==
  /\ pc \in {"swapOut", "swapIn", "swapSync", "commit"}
  /\ Error
  /\ pc' = "restore" /\ i' = 1 /\ caller' = "rollback"
  /\ UNCHANGED <<dir, past, first, original, mem, ver, kept, lapses, crashes>>

\* The new state is served whether or not the last syncDir succeeds; only if
\* it does are the backups removed and nil returned.
Finish ==
  /\ pc = "committed"
  /\ \/ /\ dir' = [dir EXCEPT !.backup = Nothing]
        /\ past' = {dir, dir'}
        /\ kept' = ver
        /\ UNCHANGED errors
     \/ Error /\ UNCHANGED <<dir, past, kept>>
  /\ mem' = dir.live
  /\ pc' = "idle"
  /\ UNCHANGED <<first, i, caller, original, ver, lapses, crashes>>

\* Between installs the engine may save its own state: metadata.json,
\* snapshot.bin and a rotated log, each synced (module Engine).
LocalSnapshot ==
  /\ pc = "idle" /\ ver < MaxVersions
  /\ ver' = ver + 1 /\ kept' = ver'
  /\ dir' = [dir EXCEPT !.live = [f \in Files |-> ver']]
  /\ past' = {dir'}
  /\ mem' = dir'.live
  /\ UNCHANGED <<first, pc, i, caller, original, lapses, crashes, errors>>

-----------------------------------------------------------------------------
(* Crashes, and recoverSnapshotInstall. *)

Kill ==
  /\ pc # "down" /\ crashes < MaxCrashes
  /\ crashes' = crashes + 1
  /\ pc' = "down"
  /\ UNCHANGED <<dir, past, first, i, caller, original, mem, ver, kept, lapses, errors>>

PowerLoss ==
  /\ pc # "down" /\ crashes < MaxCrashes
  /\ crashes' = crashes + 1
  /\ pc' = "down"
  /\ dir' \in past
  /\ past' = {dir'}
  /\ UNCHANGED <<first, i, caller, original, mem, ver, kept, lapses, errors>>

\* Without a marker the live files have won and the leftovers go.
OpenClean ==
  /\ pc = "down" /\ dir.marker = NoMarker
  /\ Change([dir EXCEPT !.backup = Nothing, !.incoming = Nothing])
  /\ mem' = dir.live
  /\ pc' = "idle" /\ i' = 1
  /\ UNCHANGED <<first, caller, original, ver, kept, lapses, crashes, errors>>

OpenRestores ==
  /\ pc = "down" /\ dir.marker # NoMarker
  /\ pc' = "restore" /\ i' = 1 /\ caller' = "open"
  /\ UNCHANGED <<dir, past, first, original, mem, ver, kept, lapses, crashes, errors>>

\* Mutant: a file without a backup is taken for a new one and removed.
RestoreUnconditionally ==
  /\ pc = "restore"
  /\ LET f == Order[i] IN Change([dir EXCEPT !.live[f] = None])
  /\ pc' = "restoreRename"
  /\ UNCHANGED <<first, i, caller, original, mem, ver, kept, lapses, crashes, errors>>

\* The installed file goes, if there is a backup or there was no file.
RestoreRemove ==
  /\ pc = "restore"
  /\ LET f == Order[i] IN
       Change(IF dir.marker[f] /\ dir.backup[f] = None
              THEN dir ELSE [dir EXCEPT !.live[f] = None])
  /\ pc' = "restoreRename"
  /\ UNCHANGED <<first, i, caller, original, mem, ver, kept, lapses, crashes, errors>>

\* Mutant: after each file the recovery starts over.
RestoreStartsOver ==
  /\ pc = "restoreRename"
  /\ LET f == Order[i] IN
       Change(IF dir.marker[f] /\ dir.backup[f] # None
              THEN [dir EXCEPT !.live[f] = dir.backup[f], !.backup[f] = None, !.incoming[f] = None]
              ELSE [dir EXCEPT !.incoming[f] = None])
  /\ pc' = "restore" /\ i' = 1
  /\ UNCHANGED <<first, caller, original, mem, ver, kept, lapses, crashes, errors>>

\* The backup takes its place; what was received goes.
RestoreRename ==
  /\ pc = "restoreRename"
  /\ LET f == Order[i] IN
       Change(IF dir.marker[f] /\ dir.backup[f] # None
              THEN [dir EXCEPT !.live[f] = dir.backup[f], !.backup[f] = None, !.incoming[f] = None]
              ELSE [dir EXCEPT !.backup[f] = IF dir.marker[f] THEN @ ELSE None,
                               !.incoming[f] = None])
  /\ IF i < 3 THEN pc' = "restore" /\ i' = i + 1 ELSE pc' = "restoreSync" /\ i' = 1
  /\ UNCHANGED <<first, caller, original, mem, ver, kept, lapses, crashes, errors>>

RestoreSync ==
  /\ pc = "restoreSync"
  /\ SyncDir
  /\ pc' = "restoreCommit"
  /\ UNCHANGED <<first, i, caller, original, mem, ver, kept, lapses, crashes, errors>>

RestoreCommit ==
  /\ pc = "restoreCommit"
  /\ Change([dir EXCEPT !.marker = NoMarker])
  /\ pc' = "restored"
  /\ UNCHANGED <<first, i, caller, original, mem, ver, kept, lapses, crashes, errors>>

\* The last syncDir; Open then loads the files, a rollback only reports.
RestoreDone ==
  /\ pc = "restored"
  /\ SyncDir
  /\ mem' = IF caller = "open" THEN dir.live ELSE mem
  /\ pc' = "idle"
  /\ UNCHANGED <<first, i, caller, original, ver, kept, lapses, crashes, errors>>

\* Open fails and can be tried again; a rollback's error is dropped and the
\* engine keeps running beside whatever is in the directory.
RestoreFails ==
  /\ pc \in {"restore", "restoreRename", "restoreSync", "restoreCommit", "restored"}
  /\ Error
  /\ IF caller = "open" THEN pc' = "down" /\ UNCHANGED <<dir, past, lapses>>
     ELSE /\ pc' = "idle" /\ lapses' = lapses \cup {"failedRollback"}
          /\ Change([dir EXCEPT !.incoming = Nothing])
  /\ i' = 1
  /\ UNCHANGED <<first, caller, original, mem, ver, kept, crashes>>

-----------------------------------------------------------------------------
Install ==
  \/ Receive \/ ReceiveFails \/ BeginInstall \/ WriteMarker \/ SyncMarker \/ SyncMarkerFails
  \/ SwapOut \/ SwapIn \/ SyncSwap \/ RemoveMarker \/ SwapFails \/ Finish
Restore ==
  \/ OpenClean \/ OpenRestores \/ RestoreRemove \/ RestoreRename \/ RestoreSync
  \/ RestoreCommit \/ RestoreDone \/ RestoreFails

Next == Install \/ LocalSnapshot \/ Kill \/ PowerLoss \/ Restore

Safe == Init /\ [][Next]_vars

\* A process that is down is started again, and a running call goes on.
Spec == Safe /\ WF_vars(Restore)

-----------------------------------------------------------------------------
Unharmed == lapses = {}

\* The three files recovery makes of a directory.
Recovers(d) ==
  [f \in Files |->
     IF d.marker = NoMarker THEN d.live[f]
     ELSE IF ~d.marker[f] THEN None
     ELSE IF d.backup[f] # None THEN d.backup[f]
     ELSE d.live[f]]

\* Whatever happens next, a kill or a power loss at this very step included,
\* the next Open finds three files of one version, and not of one older than
\* the last install or snapshot a caller was told had succeeded.
AllOldOrAllNew ==
  Unharmed => \A d \in past : \E v \in kept..ver : Recovers(d) = Image(v)

\* Outside LoadSnapshot the engine serves, and logs to, the files that are in
\* place: a failed install has put every one of them back.
ServesItsFiles ==
  Unharmed /\ pc = "idle" => dir.live = mem /\ dir.marker = NoMarker

\* A started recovery ends, with the engine open or the error reported, once
\* crashes and I/O errors stop.
RecoveryEnds == pc = "down" ~> pc = "idle"
=============================================================================
