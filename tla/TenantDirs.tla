---------------------------- MODULE TenantDirs ----------------------------
(***************************************************************************)
(* The tenant directories under a store's root (internal/engine/store.go): *)
(* OpenStore with the migration of a single-tenant root, CreateTenant,     *)
(* DeleteTenant and SetQuota, one file system operation at a time.  Each   *)
(* may fail; the process may die before any of them, and the machine too.  *)
(*                                                                         *)
(* The calls hold s.mu, so there is one at a time; call.todo is what it    *)
(* has left to do.  TenantStore has the locks, Engine what a tenant's      *)
(* files hold.  The file system takes changes in order: a sync commits all *)
(* changes before it, and a power loss takes back the last few that no     *)
(* sync has followed.                                                      *)
(***************************************************************************)
EXTENDS Naturals, Sequences

CONSTANTS
  Names,        \* tenant ids
  Default,      \* DefaultTenant
  Hidden,       \* the ids that begin with ".deleted-"
  LegacyNames,  \* the ids that are the name of a legacy file
  Quotas, Unlimited,
  Specs, StoreSpec,
  Roots,        \* bound: the disks a store is first opened on
  MaxCalls, MaxFaults, MaxCrashes   \* bounds

None == "none"

ASSUME NamesAssumption ==
  /\ Default \in Names \ (Hidden \cup LegacyNames) /\ LegacyNames \subseteq Names
  /\ Unlimited \in Quotas /\ None \notin Quotas /\ StoreSpec \in Specs /\ None \notin Specs

Pieces == {"snapshot", "metadata", "wal"}
NoFiles == [p \in Pieces |-> {}]

\* A directory: index.json, quota.json, and per data file the incarnations of
\* the tenant that wrote to it.
NoDir == [there |-> FALSE, index |-> None, quota |-> None, files |-> NoFiles]
NewDir == [NoDir EXCEPT !.there = TRUE]

VARIABLES
  disk,      \* the directories, and the data files in the root itself
  past,      \* the disks a power loss may still bring back
  mode,      \* "down", "opening", "up" or "refused"
  tenants,   \* s.tenants: quota and spec per id
  call,
  promise,   \* history: per id what callers were told, see Durable
  born,      \* history: incarnations so far
  calls, faults, crashes

history == <<promise, born>>
counters == <<calls, faults, crashes>>
vars == <<disk, past, mode, tenants, call, history, counters>>

\* In a deletion, must is whether the tenant was promised when it began, and
\* was the directory that Rename has moved aside.
NoCall == [op |-> None, name |-> Default, quota |-> Unlimited, spec |-> StoreSpec,
           must |-> FALSE, was |-> NoDir, todo |-> <<>>]
NoTenants == [n \in {} |-> None]

\* isTenantDir
IsTenantDir(dir) == dir.quota # None \/ dir.files["wal"] # {}

\* loadQuota and loadIndex: a file that is missing stands for a default.
LoadQuota(dir) == IF dir.quota = None THEN Unlimited ELSE dir.quota
LoadIndex(dir) == IF dir.index = None THEN StoreSpec ELSE dir.index

Dirs == [there : BOOLEAN, index : Specs \cup {None}, quota : Quotas \cup {None},
         files : [Pieces -> SUBSET Nat]]
Trees == [dirs : [Names -> Dirs], legacy : SUBSET Pieces]

\* What a version from before there were tenants, or a store, leaves behind: the
\* directories of tenants, and a default tenant's that the migration may not
\* have finished.
ASSUME RootsAssumption ==
  \A d \in Roots :
    /\ d \in Trees
    /\ \A n \in Names :
         /\ d.dirs[n] = NoDir \/ (d.dirs[n].there /\ (n = Default \/ IsTenantDir(d.dirs[n])))
         /\ \A p \in Pieces : d.dirs[n].files[p] \subseteq {1}
    /\ \A p \in d.legacy : d.dirs[Default].quota = None /\ d.dirs[Default].files[p] = {}
    /\ d.dirs[Default].quota = None => LoadIndex(d.dirs[Default]) = StoreSpec

Unpromised == [must |-> FALSE, may |-> FALSE, undone |-> FALSE, quotas |-> {}, spec |-> None,
               pieces |-> {}, born |-> 0]

\* Everything a root holds at first was there before this store: incarnation 1.
Init ==
  /\ disk \in Roots /\ past = {}
  /\ mode = "down" /\ tenants = NoTenants /\ call = NoCall
  /\ born = 1
  /\ promise = [n \in Names |->
       IF n = Default \/ IsTenantDir(disk.dirs[n])
       THEN [must |-> TRUE, may |-> TRUE, undone |-> FALSE, quotas |-> {LoadQuota(disk.dirs[n])},
             spec |-> LoadIndex(disk.dirs[n]), born |-> 1,
             pieces |-> {p \in Pieces : disk.dirs[n].files[p] # {}} \cup
                        IF n = Default THEN disk.legacy ELSE {}]
       ELSE Unpromised]
  /\ calls = 0 /\ faults = 0 /\ crashes = 0

-----------------------------------------------------------------------------
(* Steps of a call. *)

Change(d) == disk' = d /\ past' = past \cup {disk}
Dir == disk.dirs[call.name]
ChangeDir(dir) == Change([disk EXCEPT !.dirs[call.name] = dir])

\* What was told stands for good once everything is synced.
Settled == [n \in Names |-> [promise[n] EXCEPT !.undone = FALSE]]

Do(step) == call.todo # <<>> /\ Head(call.todo) = step
Done == call' = [call EXCEPT !.todo = Tail(@)]
Return == call' = NoCall

\* os.MkdirAll
Mkdir ==
  /\ Do("mkdir") /\ Done
  /\ ChangeDir([Dir EXCEPT !.there = TRUE])
  /\ UNCHANGED <<mode, tenants, history, counters>>

\* writeFileAtomic of index.json and of quota.json, up to the rename; it takes
\* a directory.  The sync of the directory is a step of its own.
SaveIndex ==
  /\ Do("index") /\ Dir.there /\ Done
  /\ ChangeDir([Dir EXCEPT !.index = call.spec])
  /\ UNCHANGED <<mode, tenants, history, counters>>

SaveQuota ==
  /\ Do("quota") /\ Dir.there /\ Done
  /\ ChangeDir([Dir EXCEPT !.quota = call.quota])
  /\ promise' = [promise EXCEPT ![call.name].quotas = @ \cup {call.quota}]
  /\ UNCHANGED <<mode, tenants, born, counters>>

\* syncDir
SyncDir ==
  /\ Do("sync") /\ Done
  /\ past' = {} /\ promise' = Settled
  /\ UNCHANGED <<disk, mode, tenants, born, counters>>

\* The end of createTenantLocked.
Register ==
  /\ Do("register") /\ Return
  /\ tenants' = [n \in DOMAIN tenants \cup {call.name} |->
                   IF n = call.name THEN [quota |-> call.quota, spec |-> call.spec] ELSE tenants[n]]
  /\ mode' = "up"
  /\ promise' = [promise EXCEPT ![call.name].must = TRUE, ![call.name].quotas = {call.quota},
                                ![call.name].spec = call.spec]
  /\ UNCHANGED <<disk, past, born, counters>>

-----------------------------------------------------------------------------
(* OpenStore. *)

\* createTenantLocked
CreateTenantLocked == <<"mkdir", "index", "sync", "quota", "sync", "register">>

\* Mutant: the tenant is marked as finished before its files are moved.
MigrateMarkFirst ==
  <<"mkdir", "index", "sync", "quota", "sync", "snapshot", "metadata", "wal", "sync">>

\* What migrateLegacyDefault does once it has decided to.
Migrate == <<"mkdir", "snapshot", "metadata", "wal", "index", "sync", "quota", "sync", "sync">>

\* migrateLegacyDefault looks for its files by name, and finds a tenant's
\* directory of that name as well.
LegacyExists == disk.legacy # {} \/ \E n \in LegacyNames : disk.dirs[n].there
Finished == disk.dirs[Default].quota # None

OpenStore ==
  LET partial == ~Finished /\ IsTenantDir(disk.dirs[Default]) IN
  /\ mode = "down"
  /\ IF LegacyExists /\ Finished
     THEN mode' = "refused" /\ UNCHANGED call
     ELSE /\ mode' = "opening"
          /\ call' = [NoCall EXCEPT !.op = "open",
                        !.todo = (IF LegacyExists \/ partial THEN Migrate ELSE <<>>) \o <<"scan">>]
  /\ UNCHANGED <<disk, past, tenants, history, counters>>

\* One data file moves from the root into the default tenant's directory.
Move(p) ==
  /\ Do(p)
  /\ IF p \notin disk.legacy
     THEN Done /\ UNCHANGED <<disk, past, mode>>
     ELSE IF Dir.files[p] # {}
     THEN mode' = "refused" /\ Return /\ UNCHANGED <<disk, past>>
     ELSE /\ Done
          /\ Change([dirs |-> [disk.dirs EXCEPT ![Default].files[p] = {1}],
                     legacy |-> disk.legacy \ {p}])
          /\ UNCHANGED mode
  /\ UNCHANGED <<tenants, history, counters>>

\* The tenants are read off the disk; the default is created if there is none.
Scan ==
  LET found == {n \in Names \ Hidden : disk.dirs[n].there /\ IsTenantDir(disk.dirs[n])} IN
  /\ Do("scan")
  /\ tenants' = [n \in found |-> [quota |-> LoadQuota(disk.dirs[n]), spec |-> LoadIndex(disk.dirs[n])]]
  /\ IF Default \in found
     THEN mode' = "up" /\ Return
     ELSE call' = [call EXCEPT !.todo = CreateTenantLocked] /\ UNCHANGED mode
  /\ UNCHANGED <<disk, past, history, counters>>

-----------------------------------------------------------------------------
(* Calls of a running store. *)

Begin(c) ==
  /\ mode = "up" /\ call = NoCall
  /\ calls < MaxCalls /\ calls' = calls + 1
  /\ call' = c
  /\ UNCHANGED <<disk, past, mode, tenants, faults, crashes>>

CreateTenant(n, q, s) ==
  /\ n \notin DOMAIN tenants
  /\ Begin([NoCall EXCEPT !.op = "create", !.name = n, !.quota = q, !.spec = s,
                          !.todo = CreateTenantLocked])
  /\ born' = born + 1
  /\ promise' = [promise EXCEPT ![n] = [Unpromised EXCEPT !.may = TRUE, !.born = born + 1]]

\* Mutants: the directory is removed in place, or its rename is not synced.
DeleteInPlace == <<"forget", "remove">>
DeleteUnsynced == <<"rename", "forget", "remove">>

DeleteSteps == <<"rename", "sync", "forget", "remove">>

\* The engine is discarded first: no request is inside.  An error of that is,
\* to the disk, the failed rename of Fails.
DeleteTenant(n) ==
  /\ n \in DOMAIN tenants \ {Default}
  /\ Begin([NoCall EXCEPT !.op = "delete", !.name = n, !.must = promise[n].must, !.todo = DeleteSteps])
  /\ promise' = [promise EXCEPT ![n].must = FALSE]
  /\ UNCHANGED born

\* Mutants: requests are held to the new quota before it is on disk, or the file
\* is not synced.
SetQuotaUnsynced == <<"quota", "limits", "return">>
SetQuotaEarly == <<"limits", "quota", "sync", "return">>

SetQuotaSteps == <<"quota", "sync", "limits", "return">>

SetQuota(n, q) ==
  /\ n \in DOMAIN tenants
  /\ Begin([NoCall EXCEPT !.op = "setQuota", !.name = n, !.quota = q, !.todo = SetQuotaSteps])
  /\ UNCHANGED history

\* The directory gets a name that OpenStore passes over.
Rename ==
  /\ Do("rename") /\ Dir.there
  /\ call' = [call EXCEPT !.todo = Tail(@), !.was = Dir]
  /\ ChangeDir(NoDir)
  /\ UNCHANGED <<mode, tenants, history, counters>>

Forget ==
  /\ Do("forget") /\ Done
  /\ tenants' = [n \in DOMAIN tenants \ {call.name} |-> tenants[n]]
  /\ promise' = [promise EXCEPT ![call.name].may = FALSE]
  /\ UNCHANGED <<disk, past, mode, born, counters>>

\* os.RemoveAll of what was renamed; an error leaves some of it behind.
RemoveAll ==
  /\ Do("remove") /\ Return
  /\ UNCHANGED <<disk, past, mode, tenants, history, counters>>

\* t.limits.Store
StoreLimits ==
  /\ Do("limits") /\ Done
  /\ tenants' = [tenants EXCEPT ![call.name].quota = call.quota]
  /\ UNCHANGED <<disk, past, mode, history, counters>>

SetQuotaReturns ==
  /\ Do("return") /\ Return
  /\ promise' = [promise EXCEPT ![call.name].quotas = {call.quota}]
  /\ UNCHANGED <<disk, past, mode, tenants, born, counters>>

\* An acknowledged write.  acquire opens the engine, which makes the directory
\* if it is not there; the record is synced.  DeleteTenant waits for writes.
WriteVector(n) ==
  /\ mode = "up" /\ n \in DOMAIN tenants
  /\ call.op = None \/ (call.op # "delete" /\ call.name # n)
  /\ LET dir == disk.dirs[n] IN
     disk' = [disk EXCEPT !.dirs[n] = [dir EXCEPT !.there = TRUE, !.files["wal"] = @ \cup {promise[n].born}]]
  /\ past' = {}
  /\ promise' = [Settled EXCEPT ![n].pieces = @ \cup {"wal"}]
  /\ UNCHANGED <<mode, tenants, call, born, counters>>

-----------------------------------------------------------------------------
(* Failures. *)

\* A step fails and its call returns the error.  DeleteTenant renames the
\* directory back if it could not sync the root.
Fails ==
  LET step == Head(call.todo)
      missing == step \in {"index", "quota", "rename"} /\ ~Dir.there
      back == call.op = "delete" /\ step = "sync"
      stays(undone) == promise' = [promise EXCEPT ![call.name].must = call.must,
                                                  ![call.name].undone = undone] IN
  /\ call.todo # <<>>
  /\ step \notin {"register", "scan", "forget", "limits", "return"}
  /\ missing \/ faults < MaxFaults
  /\ Return
  /\ mode' = IF mode = "opening" THEN "down" ELSE mode
  /\ tenants' = IF mode = "opening" THEN NoTenants ELSE tenants
  /\ \/ /\ back /\ ChangeDir(call.was) /\ stays(TRUE)
        /\ faults' = faults + 1
     \/ \* The rename back fails too, which nobody looks at.
        /\ back /\ faults + 1 < MaxFaults
        /\ faults' = faults + 2
        /\ UNCHANGED <<disk, past, promise>>
     \/ /\ ~back
        /\ faults' = IF missing THEN faults ELSE faults + 1
        /\ IF step = "rename" THEN stays(promise[call.name].undone) ELSE UNCHANGED promise
        /\ UNCHANGED <<disk, past>>
  /\ UNCHANGED <<born, calls, crashes>>

Stops ==
  /\ mode \in {"opening", "up"} /\ crashes < MaxCrashes
  /\ crashes' = crashes + 1
  /\ mode' = "down" /\ tenants' = NoTenants /\ call' = NoCall
  /\ UNCHANGED <<born, calls, faults>>

\* The process dies, or ends.
Crash == Stops /\ UNCHANGED <<disk, past, promise>>

\* A rename back that was not synced may be lost, and the tenant with it.
PowerLoss ==
  /\ Stops
  /\ disk' \in past /\ past' = {}
  /\ promise' = [n \in Names |-> [promise[n] EXCEPT !.must = @ /\ ~promise[n].undone]]

Next ==
  \/ OpenStore \/ Scan \/ \E p \in Pieces : Move(p)
  \/ Mkdir \/ SaveIndex \/ SaveQuota \/ SyncDir \/ Register
  \/ \E n \in Names, q \in Quotas, s \in Specs : CreateTenant(n, q, s)
  \/ \E n \in Names : DeleteTenant(n)
  \/ \E n \in Names, q \in Quotas : SetQuota(n, q)
  \/ Rename \/ Forget \/ RemoveAll \/ StoreLimits \/ SetQuotaReturns
  \/ \E n \in Names : WriteVector(n)
  \/ Fails \/ Crash \/ PowerLoss

Spec == Init /\ [][Next]_vars

-----------------------------------------------------------------------------
\* What a restart makes of a disk: the tenants it finds, and the files it finds
\* for each.
Found(d, n) == n = Default \/ (n \notin Hidden /\ IsTenantDir(d.dirs[n]))
FilesOf(d, n) ==
  {p \in Pieces : promise[n].born \in d.dirs[n].files[p]} \cup
  IF n = Default THEN d.legacy ELSE {}

\* The disks a restart may have to find a tenant on.
Disks(n) == {disk} \cup (IF promise[n].undone THEN {} ELSE past)

Promised == {n \in Names \ Hidden : promise[n].must}

\* At every moment, on whatever disk a crash or a power loss would leave, a
\* restart finds each tenant whose creation was acknowledged and whose deletion
\* has not begun or was undone (the undoing is safe from a power loss only when
\* something has been synced since), with the dimension and metric it was created
\* with, its last acknowledged quota or one that a SetQuota has saved since, and all its
\* data files; the files of a single-tenant root included, wherever the
\* migration stopped.  Not so for an id that begins with ".deleted-".
Durable ==
  \A n \in Promised : \A d \in Disks(n) :
    /\ Found(d, n)
    /\ LoadQuota(d.dirs[n]) \in promise[n].quotas /\ LoadIndex(d.dirs[n]) = promise[n].spec
    /\ promise[n].pieces \subseteq FilesOf(d, n)

\* A tenant that DeleteTenant has taken off the map never comes back, whether
\* the call returned, failed to remove the files or died first.
DeletedStaysGone ==
  \A n \in Names :
    ~promise[n].may => n \notin DOMAIN tenants /\ \A d \in past \cup {disk} : ~Found(d, n)

\* A store that is up serves every promised tenant, with its dimension and
\* metric, and holds it to a quota that is on disk: the last one acknowledged,
\* or one whose SetQuota got as far as the file.
ServesWhatIsSaved ==
  mode = "up" =>
    \A n \in Promised :
      /\ n \in DOMAIN tenants
      /\ tenants[n].spec = promise[n].spec /\ tenants[n].quota \in promise[n].quotas

\* A tenant's files are its own: one that is created again finds nothing of
\* what was deleted, though both have the same directory.
OwnDataOnly ==
  mode = "up" =>
    \A n \in Promised, p \in Pieces : disk.dirs[n].files[p] \subseteq {promise[n].born}

\* OpenStore refuses no root that a store has left behind, at whatever step of
\* the migration or of a call; unless a tenant has the name of a legacy file.
AlwaysReopens == mode = "refused" => \E n \in LegacyNames : promise[n].may
=============================================================================
