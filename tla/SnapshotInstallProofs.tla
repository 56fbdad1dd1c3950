------------------------ MODULE SnapshotInstallProofs ------------------------
(***************************************************************************)
(* Proofs about SnapshotInstall: whatever crashes and I/O errors there are *)
(* the directory recovers to three files of one version, and the engine    *)
(* serves the files that are in place.                                     *)
(***************************************************************************)
EXTENDS SnapshotInstall, TLAPS

Before == {"idle", "receive", "begin", "marker"}   \* no marker yet
Swapping == {"swapOut", "swapIn", "swapSync", "commit"}
Restoring == {"restore", "restoreRename", "restoreSync", "restoreCommit"}
Looping == {"receive", "swapOut", "swapIn", "restore", "restoreRename"}
Pcs == Before \cup {"markerSync", "committed", "restored", "down"} \cup Swapping \cup Restoring

TypeOK ==
  /\ dir \in Dirs /\ past \subseteq Dirs /\ dir \in past
  /\ first \in Triples /\ mem \in Triples
  /\ pc \in Pcs /\ i \in 1..3 /\ caller \in {"open", "rollback"}
  /\ original \in [Files -> BOOLEAN]
  /\ ver \in Nat /\ kept \in Nat /\ kept <= ver

\* The file that recovery makes of one file of a directory.
RecoversTo(d, f) ==
  IF d.marker = NoMarker THEN d.live[f]
  ELSE IF ~d.marker[f] THEN None
  ELSE IF d.backup[f] # None THEN d.backup[f]
  ELSE d.live[f]

\* The file has been transferred.
Received(f) == dir.incoming[f] = ver

\* A file that is still to be swapped, that is out of the way, and that is in.
ToSwap(f) == dir.live[f] = mem[f] /\ dir.backup[f] = None /\ Received(f)
Saved(f) == (original[f] => dir.backup[f] = mem[f])
SwappedIn(f) == Saved(f) /\ dir.live[f] = ver

\* The recovery is done with a file.
Settled(f) == IF dir.marker[f] THEN dir.backup[f] = None ELSE dir.live[f] = None

\* The installed file is out of the way, or is not one.
Removed(f) == (dir.marker[f] /\ dir.backup[f] = None) \/ dir.live[f] = None

\* The loops leave i at 1, and a running install has made a version.
Counting ==
  /\ pc \notin Looping => pc = "down" \/ i = 1
  /\ pc \in {"receive", "begin", "marker", "markerSync", "committed"} \cup Swapping => ver > 0

\* Where an install is: the live files are the served ones until the marker
\* names those there were; from then on recovery gives the served files back,
\* each being live or saved, until all three new ones are in.
Installing ==
  /\ pc \in Before => dir.marker = NoMarker /\ dir.live = mem
  /\ pc = "receive" => \A j \in 1..3 : j < i => Received(Order[j])
  /\ pc \in {"begin", "marker", "markerSync"} => \A f \in Files : Received(f)
  /\ pc \in {"marker", "markerSync"} =>
       dir.live = mem /\ dir.backup = Nothing /\ \A f \in Files : original[f] <=> mem[f] # None
  /\ pc \in {"markerSync"} \cup Swapping => dir.marker = original
  /\ pc \in Swapping => \A f \in Files : original[f] <=> mem[f] # None
  /\ pc \in {"swapOut", "swapIn"} =>
       /\ \A j \in 1..3 : j < i => SwappedIn(Order[j])
       /\ \A j \in 1..3 : j > i => ToSwap(Order[j])
  /\ pc = "swapOut" => ToSwap(Order[i])
  /\ pc = "swapIn" => Saved(Order[i]) /\ Received(Order[i])
  /\ pc \in {"swapSync", "commit"} => \A f \in Files : SwappedIn(f)
  /\ pc = "committed" => dir.marker = NoMarker /\ \A f \in Files : dir.live[f] = ver

\* Where a recovery is: it is done with the files before i, and a rollback is
\* on its way back to what is served.
Recovering ==
  /\ pc \in Restoring => dir.marker # NoMarker
  /\ pc = "restored" => dir.marker = NoMarker
  /\ pc \in Restoring \cup {"restored"} /\ caller = "rollback" => \A f \in Files : RecoversTo(dir, f) = mem[f]
  /\ pc \in {"restore", "restoreRename"} => \A j \in 1..3 : j < i => Settled(Order[j])
  /\ pc = "restoreRename" => Removed(Order[i])
  /\ pc \in {"restoreSync", "restoreCommit"} => \A f \in Files : Settled(f)

\* The inductive invariant.  A lapse ends all but the types.
Inv ==
  /\ TypeOK
  /\ Counting
  /\ AllOldOrAllNew
  /\ Unharmed => Installing /\ Recovering

-----------------------------------------------------------------------------
(* Files, in order. *)

\* targets lists each of the three files once.
LEMMA OrderFiles ==
  /\ \A j \in 1..3 : Order[j] \in Files
  /\ \A f \in Files : \E j \in 1..3 : f = Order[j]
  /\ \A j, k \in 1..3 : Order[j] = Order[k] => j = k
BY DEF Order, Files

\* The recovery, file by file.
LEMMA RecoversAlike ==
  ASSUME NEW d, NEW e, \A f \in Files : RecoversTo(d, f) = RecoversTo(e, f)
  PROVE  Recovers(d) = Recovers(e)
BY Zenon DEF Recovers, RecoversTo

\* Only the directory is added to the states a power loss may return to, and
\* it recovers as before.
LEMMA PastGrows ==
  ASSUME Inv, Unharmed,
         past' = past \cup {dir'}, first' = first, kept' = kept, ver' \in Nat, ver <= ver',
         \A f \in Files : RecoversTo(dir', f) = RecoversTo(dir, f)
  PROVE  AllOldOrAllNew'
<1>1. \A d : Recovers(d)' = Recovers(d)
  BY Zenon DEF Recovers
<1>2. Recovers(dir') = Recovers(dir)
  BY Zenon, RecoversAlike
<1>3. \A d \in past' : \E v \in kept..ver : Recovers(d) = Image(v)
  BY Zenon, <1>2 DEF Inv, AllOldOrAllNew, TypeOK
<1>4. \A v : Image(v)' = Image(v)
  BY Zenon DEF Image
<1> QED
  BY <1>1, <1>3, <1>4 DEF AllOldOrAllNew, Inv, TypeOK

\* A sync, or a power loss, only takes states away.
LEMMA PastShrinks ==
  ASSUME Inv, Unharmed, past' \subseteq past, first' = first, kept' = kept, ver' = ver
  PROVE  AllOldOrAllNew'
<1>1. \A d : Recovers(d)' = Recovers(d)
  BY Zenon DEF Recovers
<1>2. \A v : Image(v)' = Image(v)
  BY Zenon DEF Image
<1> QED
  BY Zenon, <1>1, <1>2 DEF AllOldOrAllNew, Inv

\* A transferred file: only incoming changes.
LEMMA ReceiveStep == Inv /\ Receive => Inv'
<1> SUFFICES ASSUME Inv, Receive PROVE Inv'
  BY Zenon
<1> PICK f \in Files : f = Order[i]
  BY Zenon, OrderFiles DEF Inv, TypeOK
<1>1. /\ dir' = [dir EXCEPT !.incoming = [dir.incoming EXCEPT ![f] = ver']]
      /\ dir' \in Dirs /\ past' = past \cup {dir'}
  BY SMTT(60), OrderFiles DEF Receive, Change, Inv, TypeOK, Dirs, Triples, Versions, Markers,
     Nothing
<1>2. TypeOK'
  BY <1>1 DEF Receive, Inv, TypeOK, Pcs, Before, Swapping, Restoring
<1>3. Counting'
  BY <1>1 DEF Receive, Inv, Counting, Looping, TypeOK, Pcs, Before, Swapping, Restoring
<1>4. AllOldOrAllNew'
  <2> SUFFICES ASSUME Unharmed PROVE AllOldOrAllNew'
    BY Zenon DEF AllOldOrAllNew, Unharmed, Receive
  <2>1. \A g \in Files : RecoversTo(dir', g) = RecoversTo(dir, g)
    BY Zenon, <1>1 DEF RecoversTo, Inv, TypeOK, Dirs
  <2> QED
    BY <1>1, <2>1, PastGrows DEF Receive, Inv, TypeOK
<1>5. Unharmed' => Installing'
  <2> SUFFICES ASSUME Unharmed PROVE Installing'
    BY Zenon DEF Unharmed, Receive
  <2>1. /\ dir'.marker = dir.marker /\ dir'.live = dir.live /\ dir'.incoming[f] = ver'
        /\ \A g \in Files : g # f => dir'.incoming[g] = dir.incoming[g]
    BY Zenon, <1>1 DEF Inv, TypeOK, Dirs, Triples
  <2>2. \A j \in 1..3 : j <= i => dir'.incoming[Order[j]] = ver'
    BY <2>1, OrderFiles DEF Receive, Inv, Installing, Received, Counting, Looping, TypeOK
  <2>3. CASE i < 3
    BY <2>1, <2>2, <2>3 DEF Receive, Inv, Installing, Before, Swapping, Received, TypeOK
  <2>4. CASE i = 3
    <3>1. \A g \in Files : dir'.incoming[g] = ver'
      BY <2>2, <2>4, OrderFiles
    <3> QED
      BY <2>1, <2>4, <3>1 DEF Receive, Inv, Installing, Before, Swapping, Received, TypeOK
  <2> QED
    BY <2>3, <2>4 DEF Inv, TypeOK
<1>6. Unharmed' => Recovering'
  BY Zenon, <1>1, OrderFiles DEF Unharmed, Receive, Inv, Recovering, Before, Swapping, Restoring,
     RecoversTo,
     Settled, Removed, TypeOK, Dirs, Triples
<1> QED
  BY Zenon, <1>2, <1>3, <1>4, <1>5, <1>6 DEF Inv

\* The files received so far go; the live ones were not touched.
LEMMA ReceiveFailsStep == Inv /\ ReceiveFails => Inv'
<1> SUFFICES ASSUME Inv, ReceiveFails PROVE Inv'
  BY Zenon
<1>1. /\ dir' = [dir EXCEPT !.incoming = Nothing]
      /\ dir' \in Dirs /\ past' = past \cup {dir'}
  BY SMTT(60), OrderFiles DEF ReceiveFails, Error, Change, Inv, TypeOK, Dirs, Triples, Versions,
     Markers, Nothing
<1>2. TypeOK'
  BY <1>1 DEF ReceiveFails, Inv, TypeOK, Pcs, Before, Swapping, Restoring
<1>3. Counting'
  BY Zenon, <1>1 DEF ReceiveFails, Inv, Counting, Looping, TypeOK, Pcs, Before, Swapping, Restoring
<1>4. AllOldOrAllNew'
  <2> SUFFICES ASSUME Unharmed PROVE AllOldOrAllNew'
    BY Zenon DEF AllOldOrAllNew, Unharmed, ReceiveFails
  <2>1. \A g \in Files : RecoversTo(dir', g) = RecoversTo(dir, g)
    BY Zenon, <1>1 DEF RecoversTo, Inv, TypeOK, Dirs
  <2> QED
    BY <1>1, <2>1, PastGrows DEF ReceiveFails, Inv, TypeOK
<1>5. Unharmed' => Installing'
  BY Zenon, <1>1, OrderFiles DEF Unharmed, ReceiveFails, Inv, Installing, Before, Swapping, Restoring,
     Received, ToSwap, Saved, SwappedIn, TypeOK, Dirs, Triples
<1>6. Unharmed' => Recovering'
  BY Zenon, <1>1, OrderFiles DEF Unharmed, ReceiveFails, Inv, Recovering, Before, Swapping, Restoring,
     RecoversTo, Settled, Removed, TypeOK, Dirs, Triples
<1> QED
  BY Zenon, <1>2, <1>3, <1>4, <1>5, <1>6 DEF Inv

\* Leftover backups go while there is no marker to make them count.
LEMMA BeginInstallStep == Inv /\ BeginInstall => Inv'
<1> SUFFICES ASSUME Inv, BeginInstall PROVE Inv'
  BY Zenon
<1>1. /\ dir' = [dir EXCEPT !.backup = Nothing]
      /\ dir' \in Dirs /\ past' = past \cup {dir'}
  BY Zenon, OrderFiles DEF BeginInstall, Change, Inv, TypeOK, Dirs, Triples, Versions, Markers, Nothing
<1>2. TypeOK'
  BY Zenon, <1>1 DEF BeginInstall, Inv, TypeOK, Pcs, Before, Swapping, Restoring
<1>3. Counting'
  BY Zenon, <1>1 DEF BeginInstall, Inv, Counting, Looping, TypeOK, Pcs, Before, Swapping, Restoring
<1>4. AllOldOrAllNew'
  <2> SUFFICES ASSUME Unharmed PROVE AllOldOrAllNew'
    BY Zenon DEF AllOldOrAllNew, Unharmed, BeginInstall
  <2>1. \A g \in Files : RecoversTo(dir', g) = RecoversTo(dir, g)
    BY Zenon, <1>1 DEF BeginInstall, RecoversTo, Inv, Installing, Before, Swapping, TypeOK, Dirs,
       Triples, Nothing
  <2> QED
    BY <1>1, <2>1, PastGrows DEF BeginInstall, Inv, TypeOK
<1>5. Unharmed' => Installing'
  BY Zenon, <1>1, OrderFiles DEF Unharmed, BeginInstall, Inv, Installing, Before, Swapping,
     Restoring,
     Received, ToSwap, Saved, SwappedIn, TypeOK, Dirs, Triples
<1>6. Unharmed' => Recovering'
  BY Zenon, <1>1, OrderFiles DEF Unharmed, BeginInstall, Inv, Recovering, Before, Swapping, Restoring,
     RecoversTo, Settled, Removed, TypeOK, Dirs, Triples
<1> QED
  BY Zenon, <1>2, <1>3, <1>4, <1>5, <1>6 DEF Inv

\* The marker appears while every file is live and none has a backup.
LEMMA WriteMarkerStep == Inv /\ WriteMarker => Inv'
<1> SUFFICES ASSUME Inv, WriteMarker PROVE Inv'
  BY Zenon
<1>1. /\ dir' = [dir EXCEPT !.marker = original]
      /\ dir' \in Dirs /\ past' = past \cup {dir'}
  BY SMTT(60), OrderFiles DEF WriteMarker, Change, Inv, TypeOK, Dirs, Triples, Versions, Markers,
     Nothing
<1>2. TypeOK'
  BY Zenon, <1>1 DEF WriteMarker, Inv, TypeOK, Pcs, Before, Swapping, Restoring
<1>3. Counting'
  BY Zenon, <1>1 DEF WriteMarker, Inv, Counting, Looping, TypeOK, Pcs, Before, Swapping, Restoring
<1>4. AllOldOrAllNew'
  <2> SUFFICES ASSUME Unharmed PROVE AllOldOrAllNew'
    BY Zenon DEF AllOldOrAllNew, Unharmed, WriteMarker
  <2>1. \A g \in Files : RecoversTo(dir', g) = RecoversTo(dir, g)
    BY <1>1 DEF WriteMarker, RecoversTo, Inv, Installing, Before, Swapping, TypeOK, Dirs, Triples,
       Nothing
  <2> QED
    BY <1>1, <2>1, PastGrows DEF WriteMarker, Inv, TypeOK
<1>5. Unharmed' => Installing'
  BY Zenon, <1>1, OrderFiles DEF Unharmed, WriteMarker, Inv, Installing, Before, Swapping, Restoring,
     Received, ToSwap, Saved, SwappedIn, TypeOK, Dirs, Triples
<1>6. Unharmed' => Recovering'
  BY Zenon, <1>1, OrderFiles DEF Unharmed, WriteMarker, Inv, Recovering, Before, Swapping, Restoring,
     RecoversTo, Settled, Removed, TypeOK, Dirs, Triples
<1> QED
  BY Zenon, <1>2, <1>3, <1>4, <1>5, <1>6 DEF Inv

\* The marker is on disk for good.
LEMMA SyncMarkerStep == Inv /\ SyncMarker => Inv'
<1> SUFFICES ASSUME Inv, SyncMarker PROVE Inv'
  BY Zenon
<1>1. /\ dir' = dir /\ past' = {dir}
  BY Zenon DEF SyncMarker, SyncDir
<1>2. TypeOK'
  BY Zenon, <1>1 DEF SyncMarker, Inv, TypeOK, Pcs, Before, Swapping, Restoring
<1>3. Counting'
  BY Zenon, <1>1 DEF SyncMarker, Inv, Counting, Looping, TypeOK, Pcs, Before, Swapping, Restoring
<1>4. AllOldOrAllNew'
  <2> SUFFICES ASSUME Unharmed PROVE AllOldOrAllNew'
    BY Zenon DEF AllOldOrAllNew, Unharmed, SyncMarker
  <2> QED
    BY Zenon, <1>1, PastShrinks DEF SyncMarker, Inv, TypeOK
<1>5. Unharmed' => Installing'
  <2>1. i = 1 /\ \A g \in Files : Nothing[g] = None
    BY Zenon DEF SyncMarker, Inv, Counting, Looping, Nothing
  <2> QED
    BY <1>1, <2>1, OrderFiles DEF Unharmed, SyncMarker, Inv, Installing, Before, Swapping, Received,
       ToSwap, TypeOK
<1>6. Unharmed' => Recovering'
  BY Zenon, <1>1, OrderFiles DEF Unharmed, SyncMarker, Inv, Recovering, Before, Swapping, Restoring,
     RecoversTo, Settled, Removed, TypeOK, Dirs, Triples
<1> QED
  BY Zenon, <1>2, <1>3, <1>4, <1>5, <1>6 DEF Inv

\* The marker stays behind: a lapse.
LEMMA SyncMarkerFailsStep == Inv /\ SyncMarkerFails => Inv'
<1> SUFFICES ASSUME Inv, SyncMarkerFails PROVE Inv'
  BY Zenon
<1>1. /\ dir' = [dir EXCEPT !.incoming = Nothing]
      /\ dir' \in Dirs /\ past' = past \cup {dir'}
  BY Zenon, OrderFiles DEF SyncMarkerFails, Change, Inv, TypeOK, Dirs, Triples, Versions, Markers, Nothing
<1>2. TypeOK'
  BY <1>1 DEF SyncMarkerFails, Inv, TypeOK, Pcs, Before, Swapping, Restoring
<1>3. Counting'
  BY Zenon, <1>1 DEF SyncMarkerFails, Inv, Counting, Looping, TypeOK, Pcs, Before, Swapping, Restoring
<1>4. AllOldOrAllNew'
  BY Zenon DEF SyncMarkerFails, AllOldOrAllNew, Unharmed
<1>5. Unharmed' => Installing'
  BY Zenon DEF SyncMarkerFails, Unharmed
<1>6. Unharmed' => Recovering'
  BY Zenon DEF SyncMarkerFails, Unharmed
<1> QED
  BY Zenon, <1>2, <1>3, <1>4, <1>5, <1>6 DEF Inv

\* A live file becomes the backup that recovery puts back.
LEMMA SwapOutStep == Inv /\ SwapOut => Inv'
<1> SUFFICES ASSUME Inv, SwapOut PROVE Inv'
  BY Zenon
<1> PICK f \in Files : f = Order[i]
  BY Zenon, OrderFiles DEF Inv, TypeOK
<1>1. /\ dir' = IF original[f]
                THEN [dir EXCEPT !.backup = [dir.backup EXCEPT ![f] = dir.live[f]],
                                 !.live = [dir.live EXCEPT ![f] = None]]
                ELSE dir
      /\ dir' \in Dirs /\ past' = past \cup {dir'}
  BY Zenon, OrderFiles DEF SwapOut, Change, Inv, TypeOK, Dirs, Triples, Versions, Markers, Nothing
<1>2. TypeOK'
  BY Zenon, <1>1 DEF SwapOut, Inv, TypeOK, Pcs, Before, Swapping, Restoring
<1>3. Counting'
  BY Zenon, <1>1 DEF SwapOut, Inv, Counting, Looping, TypeOK, Pcs, Before, Swapping, Restoring
<1>4. AllOldOrAllNew'
  <2> SUFFICES ASSUME Unharmed PROVE AllOldOrAllNew'
    BY Zenon DEF AllOldOrAllNew, Unharmed, SwapOut
  <2>1. \A g \in Files : RecoversTo(dir', g) = RecoversTo(dir, g)
    <3>1. ToSwap(f) /\ dir.marker = original /\ original # NoMarker /\ (original[f] => mem[f] # None)
      BY Zenon, ConstantsAssumption DEF SwapOut, Inv, Installing, Swapping, TypeOK
    <3>2. CASE original[f]
      BY Zenon, <1>1, <3>1, <3>2 DEF RecoversTo, ToSwap, Inv, TypeOK, Dirs, Triples
    <3>3. CASE ~original[f]
      BY Zenon, <1>1, <3>1, <3>3 DEF RecoversTo
    <3> QED
      BY Zenon, <3>2, <3>3
  <2> QED
    BY <1>1, <2>1, PastGrows DEF SwapOut, Inv, TypeOK
<1>5. Unharmed' => Installing'
  BY <1>1, OrderFiles DEF Unharmed, SwapOut, Inv, Installing, Before, Swapping, Restoring, Received,
     ToSwap, Saved, SwappedIn, TypeOK, Dirs, Triples
<1>6. Unharmed' => Recovering'
  BY Zenon, <1>1, OrderFiles DEF Unharmed, SwapOut, Inv, Recovering, Before, Swapping, Restoring,
     RecoversTo,
     Settled, Removed, TypeOK, Dirs, Triples
<1> QED
  BY Zenon, <1>2, <1>3, <1>4, <1>5, <1>6 DEF Inv

\* The new file takes the place of one that is backed up or was not there.
LEMMA SwapInStep == Inv /\ SwapIn => Inv'
<1> SUFFICES ASSUME Inv, SwapIn PROVE Inv'
  BY Zenon
<1> PICK f \in Files : f = Order[i]
  BY Zenon, OrderFiles DEF Inv, TypeOK
<1>1. /\ dir' = [dir EXCEPT !.live = [dir.live EXCEPT ![f] = dir.incoming[f]],
                               !.incoming = [dir.incoming EXCEPT ![f] = None]]
      /\ dir' \in Dirs /\ past' = past \cup {dir'}
  BY Zenon, OrderFiles DEF SwapIn, Change, Inv, TypeOK, Dirs, Triples, Versions, Markers, Nothing
<1>2. TypeOK'
  BY <1>1 DEF SwapIn, Inv, TypeOK, Pcs, Before, Swapping, Restoring
<1>3. Counting'
  BY Zenon, <1>1 DEF SwapIn, Inv, Counting, Looping, TypeOK, Pcs, Before, Swapping, Restoring
<1>4. AllOldOrAllNew'
  <2> SUFFICES ASSUME Unharmed PROVE AllOldOrAllNew'
    BY Zenon DEF AllOldOrAllNew, Unharmed, SwapIn
  <2>1. \A g \in Files : RecoversTo(dir', g) = RecoversTo(dir, g)
    <3>1. Saved(f) /\ dir.marker = original /\ original # NoMarker /\ (original[f] => mem[f] # None)
      BY Zenon, ConstantsAssumption DEF SwapIn, Inv, Installing, Swapping, TypeOK
    <3> QED
      BY Zenon, <1>1, <3>1 DEF RecoversTo, Saved, Inv, TypeOK, Dirs, Triples
  <2> QED
    BY <1>1, <2>1, PastGrows DEF SwapIn, Inv, TypeOK
<1>5. Unharmed' => Installing'
  BY <1>1, OrderFiles DEF Unharmed, SwapIn, Inv, Installing, Before, Swapping, Restoring, Received,
     ToSwap, Saved, SwappedIn, TypeOK, Dirs, Triples
<1>6. Unharmed' => Recovering'
  BY Zenon, <1>1, OrderFiles DEF Unharmed, SwapIn, Inv, Recovering, Before, Swapping, Restoring,
     RecoversTo,
     Settled, Removed, TypeOK, Dirs, Triples
<1> QED
  BY Zenon, <1>2, <1>3, <1>4, <1>5, <1>6 DEF Inv

\* The swap is on disk for good.
LEMMA SyncSwapStep == Inv /\ SyncSwap => Inv'
<1> SUFFICES ASSUME Inv, SyncSwap PROVE Inv'
  BY Zenon
<1>1. /\ dir' = dir /\ past' = {dir}
  BY Zenon DEF SyncSwap, SyncDir
<1>2. TypeOK'
  BY Zenon, <1>1 DEF SyncSwap, Inv, TypeOK, Pcs, Before, Swapping, Restoring
<1>3. Counting'
  BY Zenon, <1>1 DEF SyncSwap, Inv, Counting, Looping, TypeOK, Pcs, Before, Swapping, Restoring
<1>4. AllOldOrAllNew'
  <2> SUFFICES ASSUME Unharmed PROVE AllOldOrAllNew'
    BY Zenon DEF AllOldOrAllNew, Unharmed, SyncSwap
  <2> QED
    BY Zenon, <1>1, PastShrinks DEF SyncSwap, Inv, TypeOK
<1>5. Unharmed' => Installing'
  BY Zenon, <1>1, OrderFiles DEF Unharmed, SyncSwap, Inv, Installing, Before, Swapping, Restoring,
     Received,
     ToSwap, Saved, SwappedIn, TypeOK, Dirs, Triples
<1>6. Unharmed' => Recovering'
  BY Zenon, <1>1, OrderFiles DEF Unharmed, SyncSwap, Inv, Recovering, Before, Swapping, Restoring,
     RecoversTo,
     Settled, Removed, TypeOK, Dirs, Triples
<1> QED
  BY Zenon, <1>2, <1>3, <1>4, <1>5, <1>6 DEF Inv

\* The commit point: three new files, where recovery would have put three old ones.
LEMMA RemoveMarkerStep == Inv /\ RemoveMarker => Inv'
<1> SUFFICES ASSUME Inv, RemoveMarker PROVE Inv'
  BY Zenon
<1>1. /\ dir' = [dir EXCEPT !.marker = NoMarker]
      /\ dir' \in Dirs /\ past' = past \cup {dir'}
  BY Zenon, OrderFiles DEF RemoveMarker, Change, Inv, TypeOK, Dirs, Triples, Versions, Markers, Nothing
<1>2. TypeOK'
  BY Zenon, <1>1 DEF RemoveMarker, Inv, TypeOK, Pcs, Before, Swapping, Restoring
<1>3. Counting'
  BY Zenon, <1>1 DEF RemoveMarker, Inv, Counting, Looping, TypeOK, Pcs, Before, Swapping, Restoring
<1>4. AllOldOrAllNew'
  <2> SUFFICES ASSUME Unharmed PROVE AllOldOrAllNew'
    BY Zenon DEF AllOldOrAllNew, Unharmed, RemoveMarker
  <2>1. \A d : Recovers(d)' = Recovers(d)
    BY Zenon DEF Recovers
  <2>2. \A v : Image(v)' = Image(v)
    BY Zenon DEF Image, RemoveMarker
  <2>3. Recovers(dir') = Image(ver)
    BY <1>1 DEF Recovers, Image, RemoveMarker, Inv, Counting, Installing, Swapping, SwappedIn,
       TypeOK, Dirs
  <2> QED
    BY <1>1, <2>1, <2>2, <2>3 DEF AllOldOrAllNew, RemoveMarker, Inv, TypeOK
<1>5. Unharmed' => Installing'
  BY Zenon, <1>1, OrderFiles DEF Unharmed, RemoveMarker, Inv, Installing, Before, Swapping, Restoring,
     Received, ToSwap, Saved, SwappedIn, TypeOK, Dirs, Triples
<1>6. Unharmed' => Recovering'
  BY Zenon, <1>1, OrderFiles DEF Unharmed, RemoveMarker, Inv, Recovering, Before, Swapping, Restoring,
     RecoversTo, Settled, Removed, TypeOK, Dirs, Triples
<1> QED
  BY Zenon, <1>2, <1>3, <1>4, <1>5, <1>6 DEF Inv

\* The rollback starts where the swap stopped; recovery would give what is served.
LEMMA SwapFailsStep == Inv /\ SwapFails => Inv'
<1> SUFFICES ASSUME Inv, SwapFails PROVE Inv'
  BY Zenon
<1>1. /\ dir' = dir /\ past' = past
  BY Zenon DEF SwapFails
<1>2. TypeOK'
  BY <1>1 DEF SwapFails, Error, Inv, TypeOK, Pcs, Before, Swapping, Restoring
<1>3. Counting'
  BY Zenon, <1>1 DEF SwapFails, Inv, Counting, Looping, TypeOK, Pcs, Before, Swapping, Restoring
<1>4. AllOldOrAllNew'
  <2> SUFFICES ASSUME Unharmed PROVE AllOldOrAllNew'
    BY Zenon DEF AllOldOrAllNew, Unharmed, SwapFails
  <2> QED
    BY Zenon, <1>1, PastShrinks DEF SwapFails, Inv, TypeOK
<1>5. Unharmed' => Installing'
  BY Zenon, <1>1 DEF Unharmed, SwapFails, Installing, Before, Swapping
<1>6. Unharmed' => Recovering'
  <2> SUFFICES ASSUME Unharmed PROVE Recovering'
    BY Zenon DEF Unharmed, SwapFails
  <2>1. \A g \in Files : RecoversTo(dir, g) = mem[g]
    <3>1. /\ dir.marker = original /\ original # NoMarker
          /\ \A g \in Files : (original[g] <=> mem[g] # None)
      BY Zenon, ConstantsAssumption DEF SwapFails, Inv, Installing, Swapping, TypeOK
    <3>2. \A g \in Files : (Saved(g) \/ ToSwap(g)) => RecoversTo(dir, g) = mem[g]
      BY Zenon, <3>1 DEF RecoversTo, Saved, ToSwap
    <3>3. \A j \in 1..3 : Saved(Order[j]) \/ ToSwap(Order[j])
      <4>1. CASE pc \in {"swapSync", "commit"}
        BY Zenon, <4>1, OrderFiles DEF Inv, Installing, SwappedIn
      <4>2. CASE pc \in {"swapOut", "swapIn"}
        BY <4>2 DEF Inv, Installing, SwappedIn, TypeOK
      <4> QED
        BY Zenon, <4>1, <4>2 DEF SwapFails
    <3> QED
      BY Zenon, <3>2, <3>3, OrderFiles
  <2> QED
    BY <1>1, <2>1, ConstantsAssumption DEF SwapFails, Recovering, Restoring, RecoversTo, Inv,
       Installing, Swapping, TypeOK
<1> QED
  BY Zenon, <1>2, <1>3, <1>4, <1>5, <1>6 DEF Inv

\* The new state is served, and acknowledged if the last sync succeeds.
LEMMA FinishStep == Inv /\ Finish => Inv'
<1> SUFFICES ASSUME Inv, Finish PROVE Inv'
  BY Zenon
<1>1. /\ dir' = dir \/ dir' = [dir EXCEPT !.backup = Nothing]
      /\ dir' \in Dirs /\ past' \subseteq past \cup {dir'} /\ dir' \in past'
  BY DEF Finish, Inv, TypeOK, Dirs, Triples, Versions, Nothing
<1>2. TypeOK'
  BY <1>1 DEF Finish, Dirs, Inv, TypeOK, Pcs, Before, Swapping, Restoring
<1>3. Counting'
  BY Zenon, <1>1 DEF Finish, Inv, Counting, Looping, TypeOK, Pcs, Before, Swapping, Restoring
<1>4. AllOldOrAllNew'
  <2> SUFFICES ASSUME Unharmed PROVE AllOldOrAllNew'
    BY Zenon DEF AllOldOrAllNew, Unharmed, Finish
  <2>1. \A d : Recovers(d)' = Recovers(d)
    BY Zenon DEF Recovers
  <2>2. \A v : Image(v)' = Image(v)
    BY Zenon DEF Image, Finish
  <2>3. Recovers(dir) = Image(ver)
    BY DEF Recovers, Image, Finish, Inv, Counting, Installing, TypeOK, Dirs
  <2>4. Recovers(dir') = Image(ver)
    BY Zenon, <1>1, <2>3 DEF Recovers, Finish, Inv, Installing, TypeOK, Dirs
  <2>5. CASE kept' = ver /\ past' = {dir, dir'}
    BY <2>1, <2>2, <2>3, <2>4, <2>5 DEF AllOldOrAllNew, Finish, Inv, TypeOK
  <2>6. CASE kept' = kept /\ past' = past
    BY Zenon, <2>1, <2>2, <2>6 DEF AllOldOrAllNew, Finish, Inv
  <2> QED
    BY Zenon, <2>5, <2>6 DEF Finish
<1>5. Unharmed' => Installing'
  BY <1>1, OrderFiles DEF Unharmed, Finish, Inv, Installing, Before, Swapping, Restoring, Received,
     ToSwap, Saved, SwappedIn, TypeOK, Dirs, Triples
<1>6. Unharmed' => Recovering'
  BY Zenon, <1>1, OrderFiles DEF Unharmed, Finish, Inv, Recovering, Before, Swapping, Restoring,
     RecoversTo,
     Settled, Removed, TypeOK, Dirs, Triples
<1> QED
  BY Zenon, <1>2, <1>3, <1>4, <1>5, <1>6 DEF Inv

\* The engine's own snapshot leaves three synced files of one version.
LEMMA LocalSnapshotStep == Inv /\ LocalSnapshot => Inv'
<1> SUFFICES ASSUME Inv, LocalSnapshot PROVE Inv'
  BY Zenon
<1>1. /\ dir' = [dir EXCEPT !.live = [f \in Files |-> ver']] /\ dir' \in Dirs /\ past' = {dir'}
  BY DEF LocalSnapshot, Inv, TypeOK, Dirs, Triples, Versions
<1>2. TypeOK'
  BY SMTT(60), <1>1 DEF LocalSnapshot, Triples, Versions, Dirs, Inv, TypeOK, Pcs, Before,
     Swapping, Restoring
<1>3. Counting'
  BY Zenon, <1>1 DEF LocalSnapshot, Inv, Counting, Looping, TypeOK, Pcs, Before, Swapping, Restoring
<1>4. AllOldOrAllNew'
  <2> SUFFICES ASSUME Unharmed PROVE AllOldOrAllNew'
    BY Zenon DEF AllOldOrAllNew, Unharmed, LocalSnapshot
  <2>1. \A d : Recovers(d)' = Recovers(d)
    BY Zenon DEF Recovers
  <2>2. \A v : Image(v)' = Image(v)
    BY Zenon DEF Image, LocalSnapshot
  <2>3. Recovers(dir') = Image(ver')
    BY <1>1 DEF Recovers, Image, LocalSnapshot, Inv, Installing, Before, TypeOK, Dirs
  <2> QED
    BY <1>1, <2>1, <2>2, <2>3 DEF AllOldOrAllNew, LocalSnapshot, Inv, TypeOK
<1>5. Unharmed' => Installing'
  BY Zenon, <1>1, OrderFiles DEF Unharmed, LocalSnapshot, Inv, Installing, Before, Swapping, Restoring,
     Received, ToSwap, Saved, SwappedIn, TypeOK, Dirs, Triples
<1>6. Unharmed' => Recovering'
  BY Zenon, <1>1, OrderFiles DEF Unharmed, LocalSnapshot, Inv, Recovering, Before, Swapping, Restoring,
     RecoversTo, Settled, Removed, TypeOK, Dirs, Triples
<1> QED
  BY Zenon, <1>2, <1>3, <1>4, <1>5, <1>6 DEF Inv

\* A kill leaves the directory as it is.
LEMMA KillStep == Inv /\ Kill => Inv'
<1> SUFFICES ASSUME Inv, Kill PROVE Inv'
  BY Zenon
<1>1. dir' = dir /\ past' = past
  BY Zenon DEF Kill
<1>2. TypeOK'
  BY Zenon, <1>1 DEF Kill, Inv, TypeOK, Pcs, Before, Swapping, Restoring
<1>3. Counting'
  BY Zenon, <1>1 DEF Kill, Inv, Counting, Looping, TypeOK, Pcs, Before, Swapping, Restoring
<1>4. AllOldOrAllNew'
  <2> SUFFICES ASSUME Unharmed PROVE AllOldOrAllNew'
    BY Zenon DEF AllOldOrAllNew, Unharmed, Kill
  <2> QED
    BY Zenon, <1>1, PastShrinks DEF Kill, Inv, TypeOK
<1>5. Unharmed' => Installing'
  BY Zenon, <1>1, OrderFiles DEF Unharmed, Kill, Inv, Installing, Before, Swapping, Restoring,
     Received,
     ToSwap, Saved, SwappedIn, TypeOK, Dirs, Triples
<1>6. Unharmed' => Recovering'
  BY Zenon, <1>1, OrderFiles DEF Unharmed, Kill, Inv, Recovering, Before, Swapping, Restoring,
     RecoversTo,
     Settled, Removed, TypeOK, Dirs, Triples
<1> QED
  BY Zenon, <1>2, <1>3, <1>4, <1>5, <1>6 DEF Inv

\* A power loss returns to one of the states that all recover.
LEMMA PowerLossStep == Inv /\ PowerLoss => Inv'
<1> SUFFICES ASSUME Inv, PowerLoss PROVE Inv'
  BY Zenon
<1>1. dir' \in past /\ past' = {dir'}
  BY Zenon DEF PowerLoss
<1>2. TypeOK'
  BY Zenon, <1>1 DEF PowerLoss, Inv, TypeOK, Pcs, Before, Swapping, Restoring
<1>3. Counting'
  BY Zenon, <1>1 DEF PowerLoss, Inv, Counting, Looping, TypeOK, Pcs, Before, Swapping, Restoring
<1>4. AllOldOrAllNew'
  <2> SUFFICES ASSUME Unharmed PROVE AllOldOrAllNew'
    BY Zenon DEF AllOldOrAllNew, Unharmed, PowerLoss
  <2> QED
    BY Zenon, <1>1, PastShrinks DEF PowerLoss, Inv, TypeOK
<1>5. Unharmed' => Installing'
  BY Zenon, <1>1, OrderFiles DEF Unharmed, PowerLoss, Inv, Installing, Before, Swapping,
     Restoring, Received,
     ToSwap, Saved, SwappedIn, TypeOK, Dirs, Triples
<1>6. Unharmed' => Recovering'
  BY Zenon, <1>1, OrderFiles DEF Unharmed, PowerLoss, Inv, Recovering, Before, Swapping, Restoring,
     RecoversTo, Settled, Removed, TypeOK, Dirs, Triples
<1> QED
  BY Zenon, <1>2, <1>3, <1>4, <1>5, <1>6 DEF Inv

\* Leftovers go where there is no marker.
LEMMA OpenCleanStep == Inv /\ OpenClean => Inv'
<1> SUFFICES ASSUME Inv, OpenClean PROVE Inv'
  BY Zenon
<1>1. /\ dir' = [dir EXCEPT !.backup = Nothing, !.incoming = Nothing]
      /\ dir' \in Dirs /\ past' = past \cup {dir'}
  BY Zenon, OrderFiles DEF OpenClean, Change, Inv, TypeOK, Dirs, Triples, Versions, Markers, Nothing
<1>2. TypeOK'
  <2>1. mem' \in Triples
    BY Zenon DEF OpenClean, Inv, TypeOK, Dirs
  <2> QED
    BY <1>1, <2>1 DEF OpenClean, Inv, TypeOK, Pcs, Before, Swapping, Restoring
<1>3. Counting'
  BY Zenon, <1>1 DEF OpenClean, Inv, Counting, Looping, TypeOK, Pcs, Before, Swapping, Restoring
<1>4. AllOldOrAllNew'
  <2> SUFFICES ASSUME Unharmed PROVE AllOldOrAllNew'
    BY Zenon DEF AllOldOrAllNew, Unharmed, OpenClean
  <2>1. \A g \in Files : RecoversTo(dir', g) = RecoversTo(dir, g)
    BY Zenon, <1>1 DEF OpenClean, RecoversTo, Inv, TypeOK, Dirs
  <2> QED
    BY <1>1, <2>1, PastGrows DEF OpenClean, Inv, TypeOK
<1>5. Unharmed' => Installing'
  BY Zenon, <1>1, OrderFiles DEF Unharmed, OpenClean, Inv, Installing, Before, Swapping, Restoring,
     Received,
     ToSwap, Saved, SwappedIn, TypeOK, Dirs, Triples
<1>6. Unharmed' => Recovering'
  BY Zenon, <1>1, OrderFiles DEF Unharmed, OpenClean, Inv, Recovering, Before, Swapping, Restoring,
     RecoversTo, Settled, Removed, TypeOK, Dirs, Triples
<1> QED
  BY Zenon, <1>2, <1>3, <1>4, <1>5, <1>6 DEF Inv

\* A recovery begins, whatever directory it finds.
LEMMA OpenRestoresStep == Inv /\ OpenRestores => Inv'
<1> SUFFICES ASSUME Inv, OpenRestores PROVE Inv'
  BY Zenon
<1>1. dir' = dir /\ past' = past
  BY Zenon DEF OpenRestores
<1>2. TypeOK'
  BY <1>1 DEF OpenRestores, Inv, TypeOK, Pcs, Before, Swapping, Restoring
<1>3. Counting'
  BY Zenon, <1>1 DEF OpenRestores, Inv, Counting, Looping, TypeOK, Pcs, Before, Swapping, Restoring
<1>4. AllOldOrAllNew'
  <2> SUFFICES ASSUME Unharmed PROVE AllOldOrAllNew'
    BY Zenon DEF AllOldOrAllNew, Unharmed, OpenRestores
  <2> QED
    BY Zenon, <1>1, PastShrinks DEF OpenRestores, Inv, TypeOK
<1>5. Unharmed' => Installing'
  BY Zenon, <1>1, OrderFiles DEF Unharmed, OpenRestores, Inv, Installing, Before, Swapping,
     Restoring,
     Received, ToSwap, Saved, SwappedIn, TypeOK, Dirs, Triples
<1>6. Unharmed' => Recovering'
  BY <1>1, OrderFiles DEF Unharmed, OpenRestores, Inv, Recovering, Before, Swapping, Restoring,
     RecoversTo, Settled, Removed, TypeOK, Dirs, Triples
<1> QED
  BY Zenon, <1>2, <1>3, <1>4, <1>5, <1>6 DEF Inv

\* An installed file goes; its backup, or the marker, says what is to be there.
LEMMA RestoreRemoveStep == Inv /\ RestoreRemove => Inv'
<1> SUFFICES ASSUME Inv, RestoreRemove PROVE Inv'
  BY Zenon
<1> PICK f \in Files : f = Order[i]
  BY Zenon, OrderFiles DEF Inv, TypeOK
<1>1. /\ dir' = IF dir.marker[f] /\ dir.backup[f] = None THEN dir ELSE [dir EXCEPT !.live = [dir.live EXCEPT ![f] = None]]
      /\ dir' \in Dirs /\ past' = past \cup {dir'}
  BY SMTT(60), OrderFiles DEF RestoreRemove, Change, Inv, TypeOK, Dirs, Triples, Versions,
     Markers, Nothing
<1>2. TypeOK'
  BY Zenon, <1>1 DEF RestoreRemove, Inv, TypeOK, Pcs, Before, Swapping, Restoring
<1>3. Counting'
  BY Zenon, <1>1 DEF RestoreRemove, Inv, Counting, Looping, TypeOK, Pcs, Before, Swapping, Restoring
<1>4. AllOldOrAllNew'
  <2> SUFFICES ASSUME Unharmed PROVE AllOldOrAllNew'
    BY Zenon DEF AllOldOrAllNew, Unharmed, RestoreRemove
  <2>1. \A g \in Files : RecoversTo(dir', g) = RecoversTo(dir, g)
    <3>1. CASE dir.marker[f] /\ dir.backup[f] = None
      BY Zenon, <1>1, <3>1
    <3>2. CASE ~(dir.marker[f] /\ dir.backup[f] = None)
      <4>1. /\ dir'.marker = dir.marker /\ dir'.backup = dir.backup
            /\ \A g \in Files : g # f => dir'.live[g] = dir.live[g]
        BY Zenon, <1>1, <3>2 DEF Inv, TypeOK, Dirs, Triples
      <4> QED
        BY Zenon, <3>2, <4>1 DEF RestoreRemove, RecoversTo, Inv, Recovering, Restoring
    <3> QED
      BY Zenon, <3>1, <3>2
  <2> QED
    BY <1>1, <2>1, PastGrows DEF RestoreRemove, Inv, TypeOK
<1>5. Unharmed' => Installing'
  BY Zenon DEF Unharmed, RestoreRemove, Installing, Before, Swapping
<1>6. Unharmed' => Recovering'
  BY <1>1, OrderFiles DEF Unharmed, RestoreRemove, Inv, Recovering, Before, Swapping, Restoring,
     RecoversTo, Settled, Removed, TypeOK, Dirs, Triples
<1> QED
  BY Zenon, <1>2, <1>3, <1>4, <1>5, <1>6 DEF Inv

\* A backup takes its place again.
LEMMA RestoreRenameStep == Inv /\ RestoreRename => Inv'
<1> SUFFICES ASSUME Inv, RestoreRename PROVE Inv'
  BY Zenon
<1> PICK f \in Files : f = Order[i]
  BY Zenon, OrderFiles DEF Inv, TypeOK
<1>1. /\ dir' = IF dir.marker[f] /\ dir.backup[f] # None
                 THEN [dir EXCEPT !.live = [dir.live EXCEPT ![f] = dir.backup[f]],
                                  !.backup = [dir.backup EXCEPT ![f] = None],
                                  !.incoming = [dir.incoming EXCEPT ![f] = None]]
                 ELSE [dir EXCEPT !.backup = [dir.backup EXCEPT ![f] = IF dir.marker[f] THEN dir.backup[f] ELSE None],
                                  !.incoming = [dir.incoming EXCEPT ![f] = None]]
      /\ dir' \in Dirs /\ past' = past \cup {dir'}
  BY Zenon, OrderFiles DEF RestoreRename, Change, Inv, TypeOK, Dirs, Triples, Versions, Markers,
     Nothing
<1>1a. /\ dir'.marker = dir.marker
       /\ \A g \in Files : g # f => dir'.live[g] = dir.live[g] /\ dir'.backup[g] = dir.backup[g]
       /\ dir.marker[f] /\ dir.backup[f] # None => dir'.live[f] = dir.backup[f] /\ dir'.backup[f] = None
       /\ dir.marker[f] /\ dir.backup[f] = None => dir'.live[f] = dir.live[f] /\ dir'.backup[f] = None
       /\ ~dir.marker[f] => dir'.live[f] = dir.live[f] /\ dir'.backup[f] = None
  BY Zenon, <1>1 DEF Inv, TypeOK, Dirs, Triples
<1>2. TypeOK'
  BY <1>1 DEF RestoreRename, Inv, TypeOK, Pcs, Before, Swapping, Restoring
<1>3. Counting'
  BY Zenon, <1>1 DEF RestoreRename, Inv, Counting, Looping, TypeOK, Pcs, Before, Swapping, Restoring
<1>4. AllOldOrAllNew'
  <2> SUFFICES ASSUME Unharmed PROVE AllOldOrAllNew'
    BY Zenon DEF AllOldOrAllNew, Unharmed, RestoreRename
  <2>1. \A g \in Files : RecoversTo(dir', g) = RecoversTo(dir, g)
    <3>1. dir.marker # NoMarker
      BY Zenon DEF RestoreRename, Inv, Recovering, Restoring
    <3> QED
      BY Zenon, <3>1, <1>1a DEF RecoversTo, Removed
  <2> QED
    BY <1>1, <2>1, PastGrows DEF RestoreRename, Inv, TypeOK
<1>5. Unharmed' => Installing'
  BY Zenon DEF Unharmed, RestoreRename, Installing, Before, Swapping
<1>6. Unharmed' => Recovering'
  <2> SUFFICES ASSUME Unharmed PROVE Recovering'
    BY Zenon DEF Unharmed, RestoreRename
  <2>1. dir.marker # NoMarker /\ Removed(f) /\ \A j \in 1..3 : j < i => Settled(Order[j])
    BY Zenon DEF RestoreRename, Inv, Recovering, Restoring
  <2>2. \A j \in 1..3 : j <= i => Settled(Order[j])'
    <3>1. Settled(f)'
      BY Zenon, <1>1a, <2>1 DEF Settled, Removed
    <3>2. \A g \in Files : g # f /\ Settled(g) => Settled(g)'
      BY Zenon, <1>1a DEF Settled
    <3> QED
      BY <2>1, <3>1, <3>2, OrderFiles DEF Inv, TypeOK
  <2>3. caller = "rollback" => \A g \in Files : RecoversTo(dir', g) = mem[g]
    <3>1. \A g \in Files : RecoversTo(dir', g) = RecoversTo(dir, g)
      BY Zenon, <1>1a, <2>1 DEF RecoversTo, Removed
    <3> QED
      BY Zenon, <3>1 DEF RestoreRename, Inv, Recovering, Restoring
  <2>4. CASE i < 3
    BY <1>1a, <2>1, <2>2, <2>3, <2>4 DEF RestoreRename, Recovering, Restoring, Inv, TypeOK,
       RecoversTo
  <2>5. CASE i = 3
    <3>1. \A g \in Files : Settled(g)'
      BY <2>2, <2>5, OrderFiles
    <3> QED
      BY <1>1a, <2>1, <2>3, <2>5, <3>1 DEF RestoreRename, Recovering, Restoring, RecoversTo
  <2> QED
    BY <2>4, <2>5 DEF Inv, TypeOK
<1> QED
  BY Zenon, <1>2, <1>3, <1>4, <1>5, <1>6 DEF Inv

\* The three old files are on disk for good.
LEMMA RestoreSyncStep == Inv /\ RestoreSync => Inv'
<1> SUFFICES ASSUME Inv, RestoreSync PROVE Inv'
  BY Zenon
<1>1. /\ dir' = dir /\ past' = {dir}
  BY Zenon DEF RestoreSync, SyncDir
<1>2. TypeOK'
  BY Zenon, <1>1 DEF RestoreSync, Inv, TypeOK, Pcs, Before, Swapping, Restoring
<1>3. Counting'
  BY Zenon, <1>1 DEF RestoreSync, Inv, Counting, Looping, TypeOK, Pcs, Before, Swapping, Restoring
<1>4. AllOldOrAllNew'
  <2> SUFFICES ASSUME Unharmed PROVE AllOldOrAllNew'
    BY Zenon DEF AllOldOrAllNew, Unharmed, RestoreSync
  <2> QED
    BY Zenon, <1>1, PastShrinks DEF RestoreSync, Inv, TypeOK
<1>5. Unharmed' => Installing'
  BY Zenon, <1>1, OrderFiles DEF Unharmed, RestoreSync, Inv, Installing, Before, Swapping,
     Restoring,
     Received, ToSwap, Saved, SwappedIn, TypeOK, Dirs, Triples
<1>6. Unharmed' => Recovering'
  BY Zenon, <1>1, OrderFiles DEF Unharmed, RestoreSync, Inv, Recovering, Before, Swapping,
     Restoring,
     RecoversTo, Settled, Removed, TypeOK, Dirs, Triples
<1> QED
  BY Zenon, <1>2, <1>3, <1>4, <1>5, <1>6 DEF Inv

\* The marker goes once every file is what recovery makes of it.
LEMMA RestoreCommitStep == Inv /\ RestoreCommit => Inv'
<1> SUFFICES ASSUME Inv, RestoreCommit PROVE Inv'
  BY Zenon
<1>1. /\ dir' = [dir EXCEPT !.marker = NoMarker]
      /\ dir' \in Dirs /\ past' = past \cup {dir'}
  BY Zenon, OrderFiles DEF RestoreCommit, Change, Inv, TypeOK, Dirs, Triples, Versions, Markers, Nothing
<1>2. TypeOK'
  BY Zenon, <1>1 DEF RestoreCommit, Inv, TypeOK, Pcs, Before, Swapping, Restoring
<1>3. Counting'
  BY Zenon, <1>1 DEF RestoreCommit, Inv, Counting, Looping, TypeOK, Pcs, Before, Swapping, Restoring
<1>4. AllOldOrAllNew'
  <2> SUFFICES ASSUME Unharmed PROVE AllOldOrAllNew'
    BY Zenon DEF AllOldOrAllNew, Unharmed, RestoreCommit
  <2>1. \A g \in Files : RecoversTo(dir', g) = RecoversTo(dir, g)
    BY Zenon, <1>1 DEF RestoreCommit, RecoversTo, Settled, Inv, Recovering, TypeOK, Dirs, Triples
  <2> QED
    BY <1>1, <2>1, PastGrows DEF RestoreCommit, Inv, TypeOK
<1>5. Unharmed' => Installing'
  BY Zenon, <1>1, OrderFiles DEF Unharmed, RestoreCommit, Inv, Installing, Before, Swapping, Restoring,
     Received, ToSwap, Saved, SwappedIn, TypeOK, Dirs, Triples
<1>6. Unharmed' => Recovering'
  BY <1>1, OrderFiles DEF Unharmed, RestoreCommit, Inv, Recovering, Before, Swapping, Restoring,
     RecoversTo, Settled, Removed, TypeOK, Dirs, Triples
<1> QED
  BY Zenon, <1>2, <1>3, <1>4, <1>5, <1>6 DEF Inv

\* Open loads the files; after a rollback they are what is served.
LEMMA RestoreDoneStep == Inv /\ RestoreDone => Inv'
<1> SUFFICES ASSUME Inv, RestoreDone PROVE Inv'
  BY Zenon
<1>1. /\ dir' = dir /\ past' = {dir}
  BY Zenon DEF RestoreDone, SyncDir
<1>2. TypeOK'
  BY Zenon, <1>1 DEF RestoreDone, Dirs, Inv, TypeOK, Pcs, Before, Swapping, Restoring
<1>3. Counting'
  BY Zenon, <1>1 DEF RestoreDone, Inv, Counting, Looping, TypeOK, Pcs, Before, Swapping, Restoring
<1>4. AllOldOrAllNew'
  <2> SUFFICES ASSUME Unharmed PROVE AllOldOrAllNew'
    BY Zenon DEF AllOldOrAllNew, Unharmed, RestoreDone
  <2> QED
    BY Zenon, <1>1, PastShrinks DEF RestoreDone, Inv, TypeOK
<1>5. Unharmed' => Installing'
  <2> SUFFICES ASSUME Unharmed PROVE Installing'
    BY Zenon DEF Unharmed, RestoreDone
  <2>1. dir.marker = NoMarker /\ dir.live \in Triples /\ mem \in Triples
    BY Zenon DEF RestoreDone, Inv, Recovering, TypeOK, Dirs
  <2>2. caller = "rollback" => dir.live = mem
    BY <2>1 DEF RestoreDone, Inv, Recovering, RecoversTo, Triples
  <2> QED
    BY Zenon, <1>1, <2>1, <2>2 DEF RestoreDone, Inv, TypeOK, Installing, Before, Swapping
<1>6. Unharmed' => Recovering'
  BY Zenon, <1>1, OrderFiles DEF Unharmed, RestoreDone, Inv, Recovering, Before, Swapping,
     Restoring,
     RecoversTo, Settled, Removed, TypeOK, Dirs, Triples
<1> QED
  BY Zenon, <1>2, <1>3, <1>4, <1>5, <1>6 DEF Inv

\* Open can be tried again; a failed rollback is a lapse.
LEMMA RestoreFailsStep == Inv /\ RestoreFails => Inv'
<1> SUFFICES ASSUME Inv, RestoreFails PROVE Inv'
  BY Zenon
<1>1. /\ dir' \in Dirs /\ dir' \in past' /\ past' \subseteq Dirs
      /\ caller = "open" => dir' = dir /\ past' = past
  BY DEF RestoreFails, Change, Inv, TypeOK, Dirs, Triples, Versions, Nothing
<1>2. TypeOK'
  BY <1>1 DEF RestoreFails, Error, Inv, TypeOK, Pcs, Before, Swapping, Restoring
<1>3. Counting'
  BY Zenon, <1>1 DEF RestoreFails, Inv, Counting, Looping, TypeOK, Pcs, Before, Swapping, Restoring
<1>4. AllOldOrAllNew'
  <2> SUFFICES ASSUME Unharmed' PROVE AllOldOrAllNew'
    BY Zenon DEF AllOldOrAllNew
  <2>1. caller = "open" /\ Unharmed
    BY Zenon DEF RestoreFails, Unharmed, Inv, TypeOK
  <2> QED
    BY Zenon, <1>1, <2>1, PastShrinks DEF RestoreFails
<1>5. Unharmed' => Installing'
  BY Zenon, <1>1 DEF Unharmed, RestoreFails, Inv, Installing, Before, Swapping, TypeOK
<1>6. Unharmed' => Recovering'
  BY Zenon, <1>1 DEF Unharmed, RestoreFails, Inv, Recovering, Restoring, TypeOK
<1> QED
  BY Zenon, <1>2, <1>3, <1>4, <1>5, <1>6 DEF Inv

-----------------------------------------------------------------------------
\* The engine starts with the files of version 0.
LEMMA InitInv == Init => Inv
<1> SUFFICES ASSUME Init PROVE Inv
  BY Zenon
<1>1. first \in Triples /\ dir \in Dirs /\ 0 \in Nat
  BY DEF Init, Triples, Versions, Dirs, Markers, Nothing
<1>2. TypeOK
  BY <1>1 DEF Init, TypeOK, Pcs, Before
<1>3. Recovers(dir) = Image(0)
  BY Zenon, <1>1 DEF Recovers, Image, Init, Triples
<1> QED
  BY <1>1, <1>2, <1>3 DEF Inv, Init, Counting, AllOldOrAllNew, Installing, Recovering, Before,
     Swapping, Restoring

\* Every step, of an install, a recovery or the environment, keeps it.
LEMMA StepInv == Inv /\ [Next]_vars => Inv'
<1> SUFFICES ASSUME Inv, [Next]_vars PROVE Inv'
  BY Zenon
<1>1. CASE UNCHANGED vars
  <2>1. TypeOK' /\ Counting'
    BY Zenon, <1>1 DEF vars, Inv, TypeOK, Counting
  <2>2. AllOldOrAllNew'
    BY Zenon, <1>1, PastShrinks DEF vars, Inv, AllOldOrAllNew, Unharmed
  <2>3. Unharmed' => Installing'
    BY Zenon, <1>1 DEF vars, Inv, Unharmed, Installing, Received, ToSwap, Saved, SwappedIn
  <2>4. Unharmed' => Recovering'
    BY Zenon, <1>1 DEF vars, Inv, Unharmed, Recovering, RecoversTo, Settled, Removed
  <2> QED
    BY Zenon, <2>1, <2>2, <2>3, <2>4 DEF Inv
<1>2. CASE Install
  BY Zenon, <1>2, ReceiveStep, ReceiveFailsStep, BeginInstallStep, WriteMarkerStep, SyncMarkerStep,
     SyncMarkerFailsStep,
     SwapOutStep, SwapInStep, SyncSwapStep, RemoveMarkerStep, SwapFailsStep, FinishStep DEF Install
<1>3. CASE Restore
  BY Zenon, <1>3, OpenCleanStep, OpenRestoresStep, RestoreRemoveStep, RestoreRenameStep, RestoreSyncStep,
     RestoreCommitStep,
     RestoreDoneStep, RestoreFailsStep DEF Restore
<1> QED
  BY Zenon, <1>1, <1>2, <1>3, LocalSnapshotStep, KillStep, PowerLossStep DEF Next

\* The invariant holds for any number of installs, snapshots, crashes and I/O
\* errors.
THEOREM Invariance == Safe => []Inv
BY InitInv, StepInv, PTL DEF Safe

\* LoadSnapshot and recoverSnapshotInstall: at every step, whatever a kill or a
\* power loss leaves recovers to three files of one version, not older than the
\* last one a caller was told of.
THEOREM OldOrNew == Spec => []AllOldOrAllNew
<1>1. Inv => AllOldOrAllNew
  BY Zenon DEF Inv
<1> QED
  BY <1>1, Invariance, PTL DEF Spec

\* LoadSnapshot and its rollback: between installs the engine serves the files
\* that are in place, and there is no marker.
THEOREM ServesTheFilesInPlace == Spec => []ServesItsFiles
<1>1. Inv => ServesItsFiles
  BY Zenon DEF Inv, ServesItsFiles, Installing, Before
<1> QED
  BY <1>1, Invariance, PTL DEF Spec
=============================================================================
