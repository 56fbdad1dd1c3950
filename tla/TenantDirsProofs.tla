-------------------------- MODULE TenantDirsProofs --------------------------
(***************************************************************************)
(* Proofs about TenantDirs, for any names, quotas, specs, starting roots   *)
(* and bounds: wherever a call, the migration or the machine stops, the    *)
(* next start finds every promised tenant as it was promised, no deleted   *)
(* one, and a root it accepts.                                             *)
(***************************************************************************)
EXTENDS TenantDirs, TLAPS

Modes == {"down", "opening", "up", "refused"}
Ops == {None, "open", "create", "delete", "setQuota"}
Words == {"mkdir", "index", "sync", "quota", "register", "snapshot", "metadata", "wal", "scan",
          "rename", "forget", "remove", "limits", "return"}
Calls == [op : Ops, name : Names, quota : Quotas, spec : Specs, must : BOOLEAN, was : Dirs,
          todo : Seq(Words)]
Promises == [must : BOOLEAN, may : BOOLEAN, undone : BOOLEAN, quotas : SUBSET Quotas,
             spec : Specs \cup {None}, pieces : SUBSET Pieces, born : Nat]
Entries == [quota : Quotas, spec : Specs]

TypeOK ==
  /\ disk \in Trees /\ past \subseteq Trees
  /\ mode \in Modes /\ call \in Calls /\ promise \in [Names -> Promises] /\ born \in Nat
  /\ DOMAIN tenants \subseteq Names /\ tenants \in [DOMAIN tenants -> Entries]

-----------------------------------------------------------------------------
(* Where a call is. *)

OpenSteps == Migrate \o <<"scan">>

\* What is left of a list of steps.
Rest(todo, steps) ==
  /\ Len(todo) \in 1..Len(steps)
  /\ \A k \in 1..Len(todo) : todo[k] = steps[Len(steps) - Len(todo) + k]

Left == Len(call.todo)
Idle == call = NoCall
Opening == call.op = "open" /\ Rest(call.todo, OpenSteps)
MakingDefault == call.op = "open" /\ Rest(call.todo, CreateTenantLocked)
Creating == call.op = "create" /\ Rest(call.todo, CreateTenantLocked)
Deleting == call.op = "delete" /\ Rest(call.todo, DeleteSteps)
SettingQuota == call.op = "setQuota" /\ Rest(call.todo, SetQuotaSteps)

\* One call at a time: OpenStore's, or one of a running store.
OneCall ==
  /\ Idle \/ Opening \/ MakingDefault \/ Creating \/ Deleting \/ SettingQuota
  /\ mode = "opening" <=> call.op = "open"
  /\ call.op \in {"create", "delete", "setQuota"} => mode = "up"
  /\ call.op = "open" => call.name = Default /\ call.quota = Unlimited /\ call.spec = StoreSpec
  /\ mode = "down" => DOMAIN tenants = {}

\* How far the migration is: the default tenant's directory is there, data files
\* have moved, and quota.json comes last.
Migrating ==
  /\ Opening /\ Left \in 2..9 => Dir.there
  /\ Opening /\ Left >= 4 => Dir.quota = None
  /\ Opening /\ Left <= 8 => "snapshot" \notin disk.legacy
  /\ Opening /\ Left <= 7 => "metadata" \notin disk.legacy
  /\ Opening /\ Left <= 6 => "wal" \notin disk.legacy
  /\ mode = "up" \/ MakingDefault => disk.legacy = {}
  /\ MakingDefault /\ Left >= 3 => Dir.quota = None

\* How far createTenantLocked is.
Making ==
  /\ (MakingDefault \/ Creating) /\ Left <= 4 => Dir.index = call.spec
  /\ (MakingDefault \/ Creating) /\ Left <= 2 => Dir.quota = call.quota
  /\ (MakingDefault \/ Creating) /\ Left = 1 => past = {}
  /\ Creating =>
       /\ call.name # Default /\ call.name \notin DOMAIN tenants
       /\ promise[call.name].may /\ ~promise[call.name].must /\ promise[call.name].pieces = {}

\* A promise that a directory keeps; rest are the tenant's files outside of it.
Keeps(n, dir, rest) ==
  /\ n = Default \/ IsTenantDir(dir)
  /\ LoadQuota(dir) \in promise[n].quotas /\ LoadIndex(dir) = promise[n].spec
  /\ promise[n].pieces \subseteq {p \in Pieces : promise[n].born \in dir.files[p]} \cup rest
Own(n, dir) == \A p \in Pieces : dir.files[p] \subseteq {promise[n].born}

\* DeleteTenant may still be undone, and then has a promise to keep.
Pending(n) == Deleting /\ Left >= 3 /\ call.name = n /\ call.must

\* How far DeleteTenant is.
Leaving ==
  Deleting =>
    /\ call.name # Default /\ ~promise[call.name].must
    /\ Left >= 2 => promise[call.name].may
    /\ Left >= 3 => call.name \in DOMAIN tenants
    /\ Left = 3 => call.was.there /\ (~IsTenantDir(call.was) => call.was.files = NoFiles)
    /\ Left <= 3 /\ Left >= 2 => disk.dirs[call.name] = NoDir
    /\ Left = 2 => past = {}
    /\ Left = 3 /\ call.must /\ call.name \notin Hidden =>
         Keeps(call.name, call.was, {}) /\ Own(call.name, call.was)

\* How far SetQuota is.
Limiting ==
  SettingQuota =>
    /\ call.name \in DOMAIN tenants
    /\ Left <= 3 => Dir.quota = call.quota /\ call.quota \in promise[call.name].quotas
    /\ Left <= 2 => past = {}
    /\ Left = 1 => tenants[call.name].quota = call.quota

-----------------------------------------------------------------------------
(* What a disk may look like. *)

SoundDir(n, dir) ==
  /\ ~dir.there => dir = NoDir
  /\ n # Default /\ ~IsTenantDir(dir) => dir.files = NoFiles

Sound(d) ==
  /\ \A n \in Names : SoundDir(n, d.dirs[n])
  /\ \A p \in d.legacy : d.dirs[Default].quota = None /\ d.dirs[Default].files[p] = {}
  /\ d.dirs[Default].quota = None => LoadIndex(d.dirs[Default]) = StoreSpec

AllSound == \A d \in past \cup {disk} : Sound(d)

\* The default tenant is always promised, and nobody deletes it.
DefaultKept ==
  /\ promise[Default].must /\ promise[Default].may /\ ~promise[Default].undone
  /\ promise[Default].born = 1

\* A tenant that was deleted has no directory, and is not on the map.
GoneAt(n) ==
  ~promise[n].may => n \notin DOMAIN tenants /\ \A d \in past \cup {disk} : ~d.dirs[n].there
Gone == \A n \in Names : GoneAt(n)

\* Of the disks a tenant may be found on each keeps what it was promised, the
\* one before a deletion too.
Rests(d, n) == IF n = Default THEN d.legacy ELSE {}
KeptOn(n, d) == Keeps(n, d.dirs[n], Rests(d, n))
Owed(n) == promise[n].must \/ Pending(n)
InPlace(n) == promise[n].must \/ (Pending(n) /\ Left = 4)
LastingAt(n) ==
  /\ InPlace(n) => \A d \in Disks(n) : KeptOn(n, d)
  /\ Owed(n) => \A d \in past \cup {disk} : Own(n, d.dirs[n])
Lasting == \A n \in Names \ Hidden : LastingAt(n)

\* What is served is what was promised; a tenant that is not served has no files.
Serves(n) ==
  n \in DOMAIN tenants /\ tenants[n].spec = promise[n].spec /\ tenants[n].quota \in promise[n].quotas
ServingAt(n) ==
  /\ Owed(n) => Serves(n) \/ (MakingDefault /\ n = Default)
  /\ n \notin DOMAIN tenants /\ n # Default => disk.dirs[n].files = NoFiles
Serving ==
  /\ mode = "up" => Default \in DOMAIN tenants
  /\ mode = "up" \/ MakingDefault => \A n \in Names \ Hidden : ServingAt(n)

Inv ==
  /\ TypeOK /\ OneCall /\ Migrating /\ Making /\ Leaving /\ Limiting
  /\ AllSound /\ DefaultKept /\ Gone /\ Lasting /\ Serving /\ AlwaysReopens

-----------------------------------------------------------------------------
(* Steps of a call. *)

\* The step a call is at, and what is left after it.
LEMMA RestSteps ==
  ASSUME NEW todo \in Seq(Words), NEW steps \in Seq(Words), Rest(todo, steps)
  PROVE  /\ todo # <<>> /\ Head(todo) = steps[Len(steps) - Len(todo) + 1]
         /\ Tail(todo) \in Seq(Words) /\ Len(Tail(todo)) = Len(todo) - 1
         /\ Len(todo) > 1 => Rest(Tail(todo), steps)
<1>1. Len(todo) \in Nat /\ Len(steps) \in Nat /\ Len(todo) >= 1 /\ todo # <<>>
  BY DEF Rest
<1>2. Tail(todo) \in Seq(Words) /\ Len(Tail(todo)) = Len(todo) - 1
  BY <1>1
<1>3. \A k \in 1..Len(todo) - 1 : Tail(todo)[k] = todo[k + 1]
  BY <1>1
<1>4. Head(todo) = todo[1]
  BY <1>1
<1>5. ASSUME Len(todo) > 1
      PROVE  Rest(Tail(todo), steps)
  <2>1. Len(Tail(todo)) \in 1..Len(steps)
    BY <1>1, <1>2, <1>5 DEF Rest
  <2>2. ASSUME NEW k \in 1..Len(Tail(todo))
        PROVE  Tail(todo)[k] = steps[Len(steps) - Len(Tail(todo)) + k]
    <3>1. k + 1 \in 1..Len(todo) /\ k \in 1..Len(todo) - 1
      BY <1>1, <1>2
    <3>2. Len(steps) - Len(Tail(todo)) + k = Len(steps) - Len(todo) + (k + 1)
      BY <1>1, <1>2
    <3> QED
      BY Zenon, <1>3, <3>1, <3>2 DEF Rest
  <2> QED
    BY Zenon, <2>1, <2>2 DEF Rest
<1> QED
  BY SMTT(60), <1>1, <1>2, <1>4, <1>5 DEF Rest

\* Two lists in one.
LEMMA Joined ==
  ASSUME NEW S, NEW a \in Seq(S), NEW b \in Seq(S)
  PROVE  a \o b \in Seq(S) /\ Len(a \o b) = Len(a) + Len(b)
  OBVIOUS

\* The lists of steps.
LEMMA Lists ==
  /\ OpenSteps \in Seq(Words) /\ Len(OpenSteps) = 10
  /\ CreateTenantLocked \in Seq(Words) /\ Len(CreateTenantLocked) = 6
  /\ DeleteSteps \in Seq(Words) /\ Len(DeleteSteps) = 4
  /\ SetQuotaSteps \in Seq(Words) /\ Len(SetQuotaSteps) = 4
<1>1. Migrate \in Seq(Words) /\ Len(Migrate) = 9 /\ <<"scan">> \in Seq(Words) /\ Len(<<"scan">>) = 1
  BY DEF Migrate, Words
<1>2. OpenSteps \in Seq(Words) /\ Len(OpenSteps) = 10
  <2>1. OpenSteps \in Seq(Words) /\ Len(OpenSteps) = Len(Migrate) + Len(<<"scan">>)
    BY Zenon, Joined, <1>1 DEF OpenSteps
  <2> QED
    BY <1>1, <2>1
<1>3. CreateTenantLocked \in Seq(Words) /\ Len(CreateTenantLocked) = 6
  BY DEF CreateTenantLocked, Words
<1>4. DeleteSteps \in Seq(Words) /\ Len(DeleteSteps) = 4
  BY DEF DeleteSteps, Words
<1>5. SetQuotaSteps \in Seq(Words) /\ Len(SetQuotaSteps) = 4
  BY DEF SetQuotaSteps, Words
<1> QED
  BY Zenon, <1>2, <1>3, <1>4, <1>5

\* OpenStore's steps, counted from the end.
LEMMA OpenAt ==
  ASSUME NEW todo \in Seq(Words), Rest(todo, OpenSteps)
  PROVE  /\ Len(todo) \in 1..10
         /\ Head(todo) = "mkdir" <=> Len(todo) = 10
         /\ Head(todo) = "snapshot" <=> Len(todo) = 9
         /\ Head(todo) = "metadata" <=> Len(todo) = 8
         /\ Head(todo) = "wal" <=> Len(todo) = 7
         /\ Head(todo) = "index" <=> Len(todo) = 6
         /\ Head(todo) = "sync" <=> Len(todo) \in {5, 3, 2}
         /\ Head(todo) = "quota" <=> Len(todo) = 4
         /\ Head(todo) = "scan" <=> Len(todo) = 1
         /\ Head(todo) \notin {"register", "rename", "forget", "remove", "limits", "return"}
<1>1. Len(todo) \in 1..10
  BY Lists DEF Rest
<1>2. Head(todo) = OpenSteps[10 - Len(todo) + 1]
  BY Zenon, RestSteps, Lists
<1>3. PICK l \in 1..10 : l = Len(todo)
  BY Zenon, <1>1
<1>4. PICK h : h = Head(todo)
  OBVIOUS
<1>5. /\ OpenSteps[1] = "mkdir"
      /\ OpenSteps[2] = "snapshot"
      /\ OpenSteps[3] = "metadata"
      /\ OpenSteps[4] = "wal"
      /\ OpenSteps[5] = "index"
      /\ OpenSteps[6] = "sync"
      /\ OpenSteps[7] = "quota"
      /\ OpenSteps[8] = "sync"
      /\ OpenSteps[9] = "sync"
      /\ OpenSteps[10] = "scan"
  BY DEF OpenSteps, Migrate
<1>6. h = OpenSteps[10 - l + 1]
  BY Zenon, <1>2, <1>3, <1>4
<1>7. \/ l = 10 /\ h = "mkdir"
      \/ l = 9 /\ h = "snapshot"
      \/ l = 8 /\ h = "metadata"
      \/ l = 7 /\ h = "wal"
      \/ l = 6 /\ h = "index"
      \/ l = 5 /\ h = "sync"
      \/ l = 4 /\ h = "quota"
      \/ l = 3 /\ h = "sync"
      \/ l = 2 /\ h = "sync"
      \/ l = 1 /\ h = "scan"
  BY <1>5, <1>6
<1>8. /\ l \in 1..10
      /\ h = "mkdir" <=> l = 10
      /\ h = "snapshot" <=> l = 9
      /\ h = "metadata" <=> l = 8
      /\ h = "wal" <=> l = 7
      /\ h = "index" <=> l = 6
      /\ h = "sync" <=> l \in {5, 3, 2}
      /\ h = "quota" <=> l = 4
      /\ h = "scan" <=> l = 1
      /\ h \notin {"register", "rename", "forget", "remove", "limits", "return"}
  BY <1>7
<1> QED
  BY Zenon, <1>3, <1>4, <1>8

\* createTenantLocked's steps.
LEMMA CreateAt ==
  ASSUME NEW todo \in Seq(Words), Rest(todo, CreateTenantLocked)
  PROVE  /\ Len(todo) \in 1..6
         /\ Head(todo) = "mkdir" <=> Len(todo) = 6
         /\ Head(todo) = "index" <=> Len(todo) = 5
         /\ Head(todo) = "sync" <=> Len(todo) \in {4, 2}
         /\ Head(todo) = "quota" <=> Len(todo) = 3
         /\ Head(todo) = "register" <=> Len(todo) = 1
         /\ Head(todo) \notin {"snapshot", "metadata", "wal", "scan", "rename", "forget", "remove", "limits", "return"}
<1>1. Len(todo) \in 1..6
  BY Lists DEF Rest
<1>2. Head(todo) = CreateTenantLocked[6 - Len(todo) + 1]
  BY Zenon, RestSteps, Lists
<1>3. PICK l \in 1..6 : l = Len(todo)
  BY Zenon, <1>1
<1>4. PICK h : h = Head(todo)
  OBVIOUS
<1>5. /\ CreateTenantLocked[1] = "mkdir"
      /\ CreateTenantLocked[2] = "index"
      /\ CreateTenantLocked[3] = "sync"
      /\ CreateTenantLocked[4] = "quota"
      /\ CreateTenantLocked[5] = "sync"
      /\ CreateTenantLocked[6] = "register"
  BY DEF CreateTenantLocked
<1>6. h = CreateTenantLocked[6 - l + 1]
  BY Zenon, <1>2, <1>3, <1>4
<1>7. \/ l = 6 /\ h = "mkdir"
      \/ l = 5 /\ h = "index"
      \/ l = 4 /\ h = "sync"
      \/ l = 3 /\ h = "quota"
      \/ l = 2 /\ h = "sync"
      \/ l = 1 /\ h = "register"
  BY <1>5, <1>6
<1>8. /\ l \in 1..6
      /\ h = "mkdir" <=> l = 6
      /\ h = "index" <=> l = 5
      /\ h = "sync" <=> l \in {4, 2}
      /\ h = "quota" <=> l = 3
      /\ h = "register" <=> l = 1
      /\ h \notin {"snapshot", "metadata", "wal", "scan", "rename", "forget", "remove", "limits", "return"}
  BY <1>7
<1> QED
  BY Zenon, <1>3, <1>4, <1>8

\* DeleteTenant's steps.
LEMMA DeleteAt ==
  ASSUME NEW todo \in Seq(Words), Rest(todo, DeleteSteps)
  PROVE  /\ Len(todo) \in 1..4
         /\ Head(todo) = "rename" <=> Len(todo) = 4
         /\ Head(todo) = "sync" <=> Len(todo) = 3
         /\ Head(todo) = "forget" <=> Len(todo) = 2
         /\ Head(todo) = "remove" <=> Len(todo) = 1
         /\ Head(todo) \notin {"mkdir", "index", "quota", "register", "snapshot", "metadata", "wal", "scan", "limits", "return"}
<1>1. Len(todo) \in 1..4
  BY Lists DEF Rest
<1>2. Head(todo) = DeleteSteps[4 - Len(todo) + 1]
  BY Zenon, RestSteps, Lists
<1>3. PICK l \in 1..4 : l = Len(todo)
  BY Zenon, <1>1
<1>4. PICK h : h = Head(todo)
  OBVIOUS
<1>5. /\ DeleteSteps[1] = "rename"
      /\ DeleteSteps[2] = "sync"
      /\ DeleteSteps[3] = "forget"
      /\ DeleteSteps[4] = "remove"
  BY DEF DeleteSteps
<1>6. h = DeleteSteps[4 - l + 1]
  BY Zenon, <1>2, <1>3, <1>4
<1>7. \/ l = 4 /\ h = "rename"
      \/ l = 3 /\ h = "sync"
      \/ l = 2 /\ h = "forget"
      \/ l = 1 /\ h = "remove"
  BY <1>5, <1>6
<1>8. /\ l \in 1..4
      /\ h = "rename" <=> l = 4
      /\ h = "sync" <=> l = 3
      /\ h = "forget" <=> l = 2
      /\ h = "remove" <=> l = 1
      /\ h \notin {"mkdir", "index", "quota", "register", "snapshot", "metadata", "wal", "scan", "limits", "return"}
  BY <1>7
<1> QED
  BY Zenon, <1>3, <1>4, <1>8

\* SetQuota's steps.
LEMMA QuotaAt ==
  ASSUME NEW todo \in Seq(Words), Rest(todo, SetQuotaSteps)
  PROVE  /\ Len(todo) \in 1..4
         /\ Head(todo) = "quota" <=> Len(todo) = 4
         /\ Head(todo) = "sync" <=> Len(todo) = 3
         /\ Head(todo) = "limits" <=> Len(todo) = 2
         /\ Head(todo) = "return" <=> Len(todo) = 1
         /\ Head(todo) \notin {"mkdir", "index", "register", "snapshot", "metadata", "wal", "scan", "rename", "forget", "remove"}
<1>1. Len(todo) \in 1..4
  BY Lists DEF Rest
<1>2. Head(todo) = SetQuotaSteps[4 - Len(todo) + 1]
  BY Zenon, RestSteps, Lists
<1>3. PICK l \in 1..4 : l = Len(todo)
  BY Zenon, <1>1
<1>4. PICK h : h = Head(todo)
  OBVIOUS
<1>5. /\ SetQuotaSteps[1] = "quota"
      /\ SetQuotaSteps[2] = "sync"
      /\ SetQuotaSteps[3] = "limits"
      /\ SetQuotaSteps[4] = "return"
  BY DEF SetQuotaSteps
<1>6. h = SetQuotaSteps[4 - l + 1]
  BY Zenon, <1>2, <1>3, <1>4
<1>7. \/ l = 4 /\ h = "quota"
      \/ l = 3 /\ h = "sync"
      \/ l = 2 /\ h = "limits"
      \/ l = 1 /\ h = "return"
  BY <1>5, <1>6
<1>8. /\ l \in 1..4
      /\ h = "quota" <=> l = 4
      /\ h = "sync" <=> l = 3
      /\ h = "limits" <=> l = 2
      /\ h = "return" <=> l = 1
      /\ h \notin {"mkdir", "index", "register", "snapshot", "metadata", "wal", "scan", "rename", "forget", "remove"}
  BY <1>7
<1> QED
  BY Zenon, <1>3, <1>4, <1>8

-----------------------------------------------------------------------------
(* The call under way. *)

\* The fields of a call.
LEMMA CallFields ==
  ASSUME TypeOK
  PROVE  /\ call.op \in Ops /\ call.name \in Names /\ call.quota \in Quotas /\ call.spec \in Specs
         /\ call.must \in BOOLEAN /\ call.was \in Dirs /\ call.todo \in Seq(Words)
  BY DEF TypeOK, Calls

\* OpenStore reads the directories at the end of its list, so it is not also at
\* the end of createTenantLocked.
LEMMA Apart == TypeOK => ~(Opening /\ MakingDefault)
<1> SUFFICES ASSUME TypeOK, Opening, MakingDefault
             PROVE  FALSE
  OBVIOUS
<1>1. call.todo \in Seq(Words)
  BY Zenon, CallFields
<1>2. Left \in Nat /\ Left \in 1..Left
  <2>1. Left \in 1..10
    BY Zenon, <1>1, OpenAt DEF Opening, Left
  <2> QED
    BY <2>1
<1>3. OpenSteps[10 - Left + Left] = CreateTenantLocked[6 - Left + Left]
  BY Zenon, <1>2, Lists DEF Opening, MakingDefault, Rest, Left
<1>4. 10 - Left + Left = 10 /\ 6 - Left + Left = 6
  BY <1>2
<1>5. OpenSteps[10] = CreateTenantLocked[6]
  BY Zenon, <1>3, <1>4
<1> QED
  BY <1>5 DEF OpenSteps, Migrate, CreateTenantLocked

\* A call is in one list of steps.
LEMMA OnePhase ==
  TypeOK =>
    /\ Idle => ~Opening /\ ~MakingDefault /\ ~Creating /\ ~Deleting /\ ~SettingQuota
    /\ Opening => ~MakingDefault /\ ~Creating /\ ~Deleting /\ ~SettingQuota
    /\ MakingDefault => ~Opening /\ ~Creating /\ ~Deleting /\ ~SettingQuota
    /\ Creating => ~Opening /\ ~MakingDefault /\ ~Deleting /\ ~SettingQuota
    /\ Deleting => ~Opening /\ ~MakingDefault /\ ~Creating /\ ~SettingQuota
    /\ SettingQuota => ~Opening /\ ~MakingDefault /\ ~Creating /\ ~Deleting
<1>1. Idle => call.op = "none"
  BY DEF Idle, NoCall, None
<1> QED
  BY Zenon, <1>1, Apart DEF Opening, MakingDefault, Creating, Deleting, SettingQuota

\* Which step of which call it is.
LEMMA Where ==
  ASSUME TypeOK, OneCall
  PROVE  /\ Left \in Nat
         /\ Do("mkdir") => (Opening /\ Left = 10) \/ ((MakingDefault \/ Creating) /\ Left = 6)
         /\ Do("index") => (Opening /\ Left = 6) \/ ((MakingDefault \/ Creating) /\ Left = 5)
         /\ Do("quota") => \/ Opening /\ Left = 4
                           \/ (MakingDefault \/ Creating) /\ Left = 3
                           \/ SettingQuota /\ Left = 4
         /\ Do("sync") => \/ Opening /\ Left \in {5, 3, 2}
                          \/ (MakingDefault \/ Creating) /\ Left \in {4, 2}
                          \/ Deleting /\ Left = 3
                          \/ SettingQuota /\ Left = 3
         /\ Do("register") => (MakingDefault \/ Creating) /\ Left = 1
         /\ Do("snapshot") => Opening /\ Left = 9
         /\ Do("metadata") => Opening /\ Left = 8
         /\ Do("wal") => Opening /\ Left = 7
         /\ Do("scan") => Opening /\ Left = 1
         /\ Do("rename") => Deleting /\ Left = 4
         /\ Do("forget") => Deleting /\ Left = 2
         /\ Do("remove") => Deleting /\ Left = 1
         /\ Do("limits") => SettingQuota /\ Left = 2
         /\ Do("return") => SettingQuota /\ Left = 1
<1>1. call.todo \in Seq(Words)
  BY Zenon, CallFields
<1>2. Left \in Nat
  BY <1>1 DEF Left
<1>3. CASE Idle
  <2>1. \A step \in Words : ~Do(step)
    BY <1>3 DEF Do, Idle, NoCall
  <2> QED
    BY Zenon, <1>2, <2>1 DEF Words
<1>4. CASE Opening
  BY ZenonT(20), <1>1, <1>2, <1>4, OpenAt DEF Opening, Do, Left
<1>5. CASE MakingDefault
  BY ZenonT(20), <1>1, <1>2, <1>5, CreateAt DEF MakingDefault, Do, Left
<1>6. CASE Creating
  BY ZenonT(20), <1>1, <1>2, <1>6, CreateAt DEF Creating, Do, Left
<1>7. CASE Deleting
  BY ZenonT(20), <1>1, <1>2, <1>7, DeleteAt DEF Deleting, Do, Left
<1>8. CASE SettingQuota
  BY ZenonT(20), <1>1, <1>2, <1>8, QuotaAt DEF SettingQuota, Do, Left
<1> QED
  BY Zenon, <1>3, <1>4, <1>5, <1>6, <1>7, <1>8 DEF OneCall

\* A call that is not at its last step goes on with the next.
LEMMA GoesOn ==
  ASSUME TypeOK, OneCall, TypeOK', call'.todo = Tail(call.todo), call'.op = call.op, Left > 1
  PROVE  /\ Left' = Left - 1 /\ ~Idle'
         /\ Opening' <=> Opening
         /\ MakingDefault' <=> MakingDefault
         /\ Creating' <=> Creating
         /\ Deleting' <=> Deleting
         /\ SettingQuota' <=> SettingQuota
<1>1. call.todo \in Seq(Words)
  BY Zenon, CallFields
<1>2. ~Idle
  BY DEF Idle, NoCall, Left
<1>3. \A steps \in Seq(Words) : Rest(call.todo, steps) =>
        Left' = Left - 1 /\ Rest(call'.todo, steps)
  BY Zenon, <1>1, RestSteps DEF Left
<1>4. /\ Left' = Left - 1
      /\ Opening => Opening'
      /\ MakingDefault => MakingDefault'
      /\ Creating => Creating'
      /\ Deleting => Deleting'
      /\ SettingQuota => SettingQuota'
  BY Zenon, <1>2, <1>3, Lists DEF OneCall, Opening, MakingDefault, Creating, Deleting, SettingQuota
<1>5. /\ Idle' => ~Opening' /\ ~MakingDefault' /\ ~Creating' /\ ~Deleting' /\ ~SettingQuota'
      /\ Opening' => ~MakingDefault' /\ ~Creating' /\ ~Deleting' /\ ~SettingQuota'
      /\ MakingDefault' => ~Opening' /\ ~Creating' /\ ~Deleting' /\ ~SettingQuota'
      /\ Creating' => ~Opening' /\ ~MakingDefault' /\ ~Deleting' /\ ~SettingQuota'
      /\ Deleting' => ~Opening' /\ ~MakingDefault' /\ ~Creating' /\ ~SettingQuota'
      /\ SettingQuota' => ~Opening' /\ ~MakingDefault' /\ ~Creating' /\ ~Deleting'
  BY OnePhase, PTL
<1> QED
  BY Zenon, <1>2, <1>4, <1>5 DEF OneCall

\* A call that returns is none.
LEMMA Returns ==
  ASSUME call' = NoCall
  PROVE  /\ Idle' /\ ~Opening' /\ ~MakingDefault' /\ ~Creating' /\ ~Deleting' /\ ~SettingQuota'
         /\ call'.op = None /\ call'.name = Default /\ call'.todo = <<>>
<1>1. call'.op = "none" /\ call'.name = Default /\ call'.todo = <<>>
  BY DEF NoCall, None
<1> QED
  BY Zenon, <1>1 DEF Idle, Opening, MakingDefault, Creating, Deleting, SettingQuota, None

-----------------------------------------------------------------------------
(* Types. *)

\* The empty directory, and what a directory and a disk are made of.
LEMMA DirTypes ==
  /\ NoDir \in Dirs /\ ~NoDir.there /\ NoDir.index = None /\ NoDir.quota = None
  /\ NoDir.files = NoFiles /\ \A p \in Pieces : NoFiles[p] = {}
  /\ \A dir \in Dirs : /\ dir.there \in BOOLEAN /\ dir.index \in Specs \cup {None}
                       /\ dir.quota \in Quotas \cup {None} /\ dir.files \in [Pieces -> SUBSET Nat]
  /\ \A d \in Trees : /\ d.dirs \in [Names -> Dirs] /\ d.legacy \subseteq Pieces
                      /\ \A n \in Names : d.dirs[n] \in Dirs
<1>1. NoFiles \in [Pieces -> SUBSET Nat] /\ \A p \in Pieces : NoFiles[p] = {}
  BY DEF NoFiles
<1>2. NoDir \in Dirs /\ ~NoDir.there /\ NoDir.index = None /\ NoDir.quota = None /\ NoDir.files = NoFiles
  BY <1>1 DEF NoDir, Dirs
<1> QED
  BY <1>1, <1>2 DEF Dirs, Trees

\* A call that is none, and one that goes on, are calls.
LEMMA CallTypes ==
  ASSUME TypeOK
  PROVE  /\ NoCall \in Calls
         /\ call.todo # <<>> => [call EXCEPT !.todo = Tail(@)] \in Calls
<1>1. <<>> \in Seq(Words)
  OBVIOUS
<1>2. NoCall \in Calls
  BY <1>1, NamesAssumption, DirTypes DEF NoCall, Calls, Ops, None
<1>3. call.todo # <<>> => Tail(call.todo) \in Seq(Words)
  BY CallFields
<1>4. call.todo # <<>> => [call EXCEPT !.todo = Tail(@)] \in Calls
  BY Zenon, <1>3 DEF TypeOK, Calls
<1> QED
  BY <1>2, <1>4

\* A directory of one tenant changes.
LEMMA DirChanges ==
  ASSUME TypeOK, NEW dir \in Dirs, ChangeDir(dir)
  PROVE  /\ disk' \in Trees /\ disk'.legacy = disk.legacy /\ disk'.dirs[call.name] = dir
         /\ \A n \in Names : n # call.name => disk'.dirs[n] = disk.dirs[n]
         /\ past' = past \cup {disk} /\ past' \subseteq Trees
<1>1. call.name \in Names /\ disk \in Trees /\ past \subseteq Trees
  BY Zenon, CallFields DEF TypeOK
<1>2. disk' = [disk EXCEPT !.dirs[call.name] = dir] /\ past' = past \cup {disk}
  BY Zenon DEF ChangeDir, Change
<1> QED
  BY <1>1, <1>2 DEF Trees

\* Saving a directory's parts.
LEMMA DirEdits ==
  ASSUME NEW dir \in Dirs, NEW q \in Quotas, NEW s \in Specs
  PROVE  /\ [dir EXCEPT !.there = TRUE] \in Dirs
         /\ [dir EXCEPT !.there = TRUE].there /\ [dir EXCEPT !.there = TRUE].index = dir.index
         /\ [dir EXCEPT !.there = TRUE].quota = dir.quota /\ [dir EXCEPT !.there = TRUE].files = dir.files
         /\ [dir EXCEPT !.index = s] \in Dirs
         /\ [dir EXCEPT !.index = s].there = dir.there /\ [dir EXCEPT !.index = s].index = s
         /\ [dir EXCEPT !.index = s].quota = dir.quota /\ [dir EXCEPT !.index = s].files = dir.files
         /\ [dir EXCEPT !.quota = q] \in Dirs
         /\ [dir EXCEPT !.quota = q].there = dir.there /\ [dir EXCEPT !.quota = q].index = dir.index
         /\ [dir EXCEPT !.quota = q].quota = q /\ [dir EXCEPT !.quota = q].files = dir.files
  BY Zenon DEF Dirs

\* A synced promise.
LEMMA SettledTypes ==
  ASSUME TypeOK
  PROVE  /\ Settled \in [Names -> Promises]
         /\ \A n \in Names : /\ Settled[n].must = promise[n].must /\ Settled[n].may = promise[n].may
                             /\ Settled[n].quotas = promise[n].quotas /\ Settled[n].spec = promise[n].spec
                             /\ Settled[n].pieces = promise[n].pieces /\ Settled[n].born = promise[n].born
                             /\ ~Settled[n].undone
  BY ZenonT(60) DEF TypeOK, Settled, Promises

\* Nothing to begin with.
LEMMA NoTypes ==
  /\ Unpromised \in Promises /\ DOMAIN NoTenants = {} /\ NoTenants \in [{} -> Entries]
  BY DEF Unpromised, Promises, NoTenants

-----------------------------------------------------------------------------
(* How the parts of the invariant are kept. *)

\* No call.
LEMMA OneCallReturns ==
  ASSUME call' = NoCall, mode' # "opening", mode' = "down" => DOMAIN tenants' = {}
  PROVE  OneCall'
<1>1. Idle' /\ call'.op = "none"
  BY Zenon, Returns DEF None
<1> QED
  BY Zenon, <1>1 DEF OneCall

\* The next step of a call.
LEMMA OneCallGoesOn ==
  ASSUME TypeOK, OneCall, TypeOK', call'.todo = Tail(call.todo), call'.op = call.op, Left > 1,
         call'.name = call.name, call'.quota = call.quota, call'.spec = call.spec,
         mode' = mode, mode = "down" => DOMAIN tenants' = {}
  PROVE  OneCall'
<1>1. ~Idle
  BY DEF Idle, NoCall, Left
<1> QED
  BY Zenon, <1>1, GoesOn DEF OneCall

\* Between calls.
LEMMA StagesReturn ==
  ASSUME call' = NoCall, mode' = "up" => disk'.legacy = {}
  PROVE  Migrating' /\ Making' /\ Leaving' /\ Limiting'
  BY Zenon, Returns DEF Migrating, Making, Leaving, Limiting

\* No new disks.
LEMMA SoundOn ==
  ASSUME AllSound, past' \cup {disk'} \subseteq past \cup {disk}
  PROVE  AllSound'
  BY Zenon DEF AllSound, Sound, SoundDir, IsTenantDir, LoadIndex

\* A disk more.
LEMMA SoundMore ==
  ASSUME AllSound, past' \subseteq past \cup {disk}, Sound(disk')
  PROVE  AllSound'
  BY Zenon DEF AllSound, Sound, SoundDir, IsTenantDir, LoadIndex

\* A tenant's directory changes.
LEMMA SoundChange ==
  ASSUME TypeOK, AllSound, NEW dir \in Dirs, ChangeDir(dir), SoundDir(call.name, dir),
         call.name = Default =>
           /\ dir.quota = None => LoadIndex(dir) = StoreSpec
           /\ \A p \in disk.legacy : dir.quota = None /\ dir.files[p] = {}
  PROVE  AllSound'
<1>1. Default \in Names
  BY Zenon, NamesAssumption
<1>2. /\ disk'.legacy = disk.legacy /\ disk'.dirs[call.name] = dir
      /\ \A n \in Names : n # call.name => disk'.dirs[n] = disk.dirs[n]
      /\ past' = past \cup {disk}
  BY Zenon, DirChanges
<1>3. Sound(disk)
  BY Zenon DEF AllSound
<1>4. \A n \in Names : SoundDir(n, disk'.dirs[n])
  BY Zenon, <1>2, <1>3 DEF Sound
<1>5. \A p \in disk'.legacy : disk'.dirs[Default].quota = None /\ disk'.dirs[Default].files[p] = {}
  BY Zenon, <1>1, <1>2, <1>3 DEF Sound
<1>6. disk'.dirs[Default].quota = None => LoadIndex(disk'.dirs[Default]) = StoreSpec
  BY Zenon, <1>1, <1>2, <1>3 DEF Sound
<1>7. Sound(disk')
  BY Zenon, <1>4, <1>5, <1>6 DEF Sound
<1> QED
  BY Zenon, <1>2, <1>7, SoundMore

\* Directories in which the next start finds the same tenant.
Alike(n, a, b) ==
  /\ LoadQuota(a) = LoadQuota(b) /\ LoadIndex(a) = LoadIndex(b) /\ a.files = b.files
  /\ n = Default \/ (IsTenantDir(a) <=> IsTenantDir(b))

\* A deletion is remembered while nothing makes the directory again.
LEMMA GoneOn ==
  ASSUME NEW n \in Names, GoneAt(n), promise[n].may => promise'[n].may,
         n \in DOMAIN tenants' => n \in DOMAIN tenants,
         \A d \in past' \cup {disk'} : \E e \in past \cup {disk} : d.dirs[n] = e.dirs[n]
  PROVE  GoneAt(n)'
  BY Zenon DEF GoneAt

\* The disks of a tenant that holds the same.
LEMMA SameDisks ==
  ASSUME NEW n \in Names, promise'[n].undone = promise[n].undone, past' \subseteq past \cup {disk},
         Alike(n, disk'.dirs[n], disk.dirs[n]), Rests(disk', n) = Rests(disk, n)
  PROVE  /\ \A d \in Disks(n)' : \E e \in Disks(n) : Alike(n, d.dirs[n], e.dirs[n]) /\ Rests(d, n) = Rests(e, n)
         /\ \A d \in past' \cup {disk'} : \E e \in past \cup {disk} : Alike(n, d.dirs[n], e.dirs[n])
<1>1. disk \in Disks(n) /\ \A d \in Disks(n)' : d = disk' \/ d \in Disks(n)
  BY Zenon DEF Disks
<1>2. \A d : Alike(n, d.dirs[n], d.dirs[n])
  BY Zenon DEF Alike
<1>3. \A d \in Disks(n)' : \E e \in Disks(n) : Alike(n, d.dirs[n], e.dirs[n]) /\ Rests(d, n) = Rests(e, n)
  BY Zenon, <1>1, <1>2
<1> QED
  BY Zenon, <1>2, <1>3

\* A promise lasts while the directories hold the same and no more is promised.
LEMMA LastsOn ==
  ASSUME NEW n \in Names, LastingAt(n), promise[n].quotas \subseteq promise'[n].quotas,
         promise'[n].spec = promise[n].spec, promise'[n].pieces = promise[n].pieces,
         promise'[n].born = promise[n].born,
         InPlace(n)' => InPlace(n), Owed(n)' => Owed(n),
         \A d \in Disks(n)' : \E e \in Disks(n) : Alike(n, d.dirs[n], e.dirs[n]) /\ Rests(d, n) = Rests(e, n),
         \A d \in past' \cup {disk'} : \E e \in past \cup {disk} : Alike(n, d.dirs[n], e.dirs[n])
  PROVE  LastingAt(n)'
<1>1. ASSUME InPlace(n)', NEW d \in Disks(n)'
      PROVE  KeptOn(n, d)'
  <2>1. PICK e \in Disks(n) : Alike(n, d.dirs[n], e.dirs[n]) /\ Rests(d, n) = Rests(e, n)
    BY Zenon
  <2>2. Keeps(n, e.dirs[n], Rests(e, n))
    BY Zenon, <1>1 DEF LastingAt, KeptOn
  <2>3. /\ n = Default \/ IsTenantDir(d.dirs[n])
        /\ LoadQuota(d.dirs[n]) \in promise[n].quotas /\ LoadIndex(d.dirs[n]) = promise[n].spec
        /\ promise[n].pieces \subseteq {p \in Pieces : promise[n].born \in d.dirs[n].files[p]} \cup Rests(d, n)
    BY Zenon, <2>1, <2>2 DEF Keeps, Alike
  <2> QED
    BY <2>3 DEF Keeps, KeptOn, Rests, IsTenantDir, LoadQuota, LoadIndex
<1>2. ASSUME Owed(n)', NEW d \in past' \cup {disk'}
      PROVE  Own(n, d.dirs[n])'
  <2>1. PICK e \in past \cup {disk} : Alike(n, d.dirs[n], e.dirs[n])
    BY Zenon
  <2>2. Own(n, e.dirs[n])
    BY Zenon, <1>2 DEF LastingAt
  <2> QED
    BY Zenon, <2>1, <2>2 DEF Own, Alike
<1> QED
  BY Zenon, <1>1, <1>2 DEF LastingAt

\* A tenant is served as before.
LEMMA ServesOn ==
  ASSUME NEW n \in Names, ServingAt(n), promise[n].quotas \subseteq promise'[n].quotas,
         promise'[n].spec = promise[n].spec, Owed(n)' => Owed(n),
         n \in DOMAIN tenants' <=> n \in DOMAIN tenants, tenants'[n] = tenants[n],
         MakingDefault' <=> MakingDefault, disk'.dirs[n].files = disk.dirs[n].files
  PROVE  ServingAt(n)'
  BY Zenon DEF ServingAt, Serves

-----------------------------------------------------------------------------
(* The steps of createTenantLocked and of the migration. *)

\* A step that saves part of a directory, short of the tenant's data, and goes
\* on to the next.
Saves(dir) ==
  /\ dir \in Dirs /\ dir.there /\ dir.files = Dir.files /\ (dir.quota = None => Dir.quota = None)
  /\ call.todo # <<>> /\ Done /\ ChangeDir(dir) /\ mode' = mode /\ tenants' = tenants /\ born' = born

\* What such a step keeps, in a directory that is being made.
LEMMA SavesStep ==
  ASSUME Inv, Opening \/ MakingDefault \/ Creating, Left > 1, NEW dir, Saves(dir),
         promise' \in [Names -> Promises],
         \A n \in Names : /\ promise'[n].must = promise[n].must /\ promise'[n].may = promise[n].may
                          /\ promise'[n].undone = promise[n].undone /\ promise'[n].spec = promise[n].spec
                          /\ promise'[n].pieces = promise[n].pieces /\ promise'[n].born = promise[n].born
                          /\ promise[n].quotas \subseteq promise'[n].quotas,
         call.name = Default => Alike(Default, dir, Dir) /\ (disk.legacy # {} => dir.quota = None)
  PROVE  /\ TypeOK' /\ OneCall' /\ Leaving' /\ Limiting' /\ AllSound' /\ DefaultKept'
         /\ AlwaysReopens' /\ Gone' /\ Lasting' /\ Serving'
         /\ Left' = Left - 1 /\ (Opening' <=> Opening) /\ (MakingDefault' <=> MakingDefault)
         /\ (Creating' <=> Creating)
         /\ disk'.legacy = disk.legacy /\ Dir' = dir
         /\ call'.name = call.name /\ call'.quota = call.quota /\ call'.spec = call.spec
<1> DEFINE c == call.name
<1>1. TypeOK /\ OneCall /\ AllSound /\ Gone /\ Lasting /\ Serving /\ DefaultKept
  BY Zenon DEF Inv
<1>2. /\ dir \in Dirs /\ dir.there /\ dir.files = Dir.files /\ (dir.quota = None => Dir.quota = None)
      /\ call' = [call EXCEPT !.todo = Tail(@)] /\ call.todo # <<>> /\ ChangeDir(dir)
      /\ mode' = mode /\ tenants' = tenants /\ born' = born
  BY Zenon DEF Saves, Done
<1>3. c \in Names /\ Dir \in Dirs /\ Dir = disk.dirs[c]
  BY Zenon, <1>1, CallFields, DirTypes DEF TypeOK, Dir
<1>4. Default \in Names /\ Default \notin Hidden
  BY Zenon, NamesAssumption
<1>5. /\ disk' \in Trees /\ disk'.legacy = disk.legacy /\ disk'.dirs[c] = dir
      /\ \A n \in Names : n # c => disk'.dirs[n] = disk.dirs[n]
      /\ past' = past \cup {disk} /\ past' \subseteq Trees
  BY Zenon, <1>1, <1>2, DirChanges
<1>6. /\ TypeOK' /\ call'.op = call.op /\ call'.name = c /\ call'.quota = call.quota
      /\ call'.spec = call.spec /\ call'.must = call.must /\ call'.todo = Tail(call.todo)
  BY <1>1, <1>2, <1>5, CallTypes DEF TypeOK, Calls
<1>7. /\ Left' = Left - 1 /\ ~Idle'
      /\ Opening' <=> Opening
      /\ MakingDefault' <=> MakingDefault
      /\ Creating' <=> Creating
      /\ Deleting' <=> Deleting
      /\ SettingQuota' <=> SettingQuota
  BY Zenon, <1>1, <1>6, GoesOn
<1>8. Dir' = dir
  BY Zenon, <1>5, <1>6 DEF Dir
<1>9. OneCall'
  BY Zenon, <1>1, <1>2, <1>6, OneCallGoesOn DEF OneCall
<1>10. ~Deleting /\ ~SettingQuota
  BY Zenon, <1>1, OnePhase
<1>11. Leaving' /\ Limiting'
  BY Zenon, <1>7, <1>10 DEF Leaving, Limiting
<1>12. AllSound'
  <2>1. Sound(disk)
    BY Zenon, <1>1 DEF AllSound
  <2>2. SoundDir(c, dir)
    BY ZenonT(60), <1>2, <1>3, <2>1 DEF Sound, SoundDir, IsTenantDir
  <2>3. c = Default =>
          /\ dir.quota = None => LoadIndex(dir) = StoreSpec
          /\ \A p \in disk.legacy : dir.quota = None /\ dir.files[p] = {}
    <3>1. c = Default => (Dir.quota = None => LoadIndex(Dir) = StoreSpec) /\ LoadIndex(dir) = LoadIndex(Dir)
      BY Zenon, <1>3, <2>1 DEF Sound, Alike
    <3>2. c = Default => \A p \in disk.legacy : Dir.files[p] = {}
      BY Zenon, <1>3, <2>1 DEF Sound
    <3>3. \A p \in disk.legacy : disk.legacy # {}
      BY Zenon
    <3> QED
      BY Zenon, <1>2, <3>1, <3>2, <3>3
  <2> QED
    BY Zenon, <1>1, <1>2, <2>2, <2>3, SoundChange
<1>13. DefaultKept' /\ AlwaysReopens'
  <2>1. DefaultKept'
    BY Zenon, <1>1, <1>4 DEF DefaultKept
  <2>2. AlwaysReopens
    BY Zenon DEF Inv
  <2> QED
    BY Zenon, <1>2, <2>1, <2>2, NamesAssumption DEF AlwaysReopens
<1>14. Gone'
  <2>1. promise[c].may
    BY Zenon, <1>1 DEF Inv, Making, DefaultKept, OneCall, Opening, MakingDefault
  <2>2. ASSUME NEW n \in Names, n # c
        PROVE  GoneAt(n)'
    <3>1. \A d \in past' \cup {disk'} : \E e \in past \cup {disk} : d.dirs[n] = e.dirs[n]
      BY ZenonT(60), <1>5, <2>2
    <3>2. promise[n].may => promise'[n].may
      BY Zenon
    <3> QED
      BY Zenon, <1>1, <1>2, <3>1, <3>2, GoneOn DEF Gone
  <2> QED
    BY Zenon, <1>3, <2>1, <2>2 DEF Gone, GoneAt
<1>15. \A n \in Names : ~Pending(n) /\ ~Pending(n)'
  BY Zenon, <1>7, <1>10 DEF Pending
<1>16. \A n \in Names : (InPlace(n)' => InPlace(n)) /\ (Owed(n)' => Owed(n))
  BY Zenon, <1>15 DEF InPlace, Owed
<1>17. c # Default => Creating /\ ~InPlace(c) /\ ~Owed(c)
  BY Zenon, <1>1, <1>3, <1>15 DEF Inv, Making, OneCall, Opening, MakingDefault, InPlace, Owed
<1>18. ASSUME NEW n \in Names, n # c \/ c = Default
       PROVE  Alike(n, disk'.dirs[n], disk.dirs[n]) /\ Rests(disk', n) = Rests(disk, n)
  <2>1. Rests(disk', n) = Rests(disk, n)
    BY Zenon, <1>5 DEF Rests
  <2>2. CASE n = c
    BY Zenon, <1>3, <1>5, <1>18, <2>1, <2>2
  <2>3. CASE n # c
    BY Zenon, <1>5, <2>1, <2>3 DEF Alike
  <2> QED
    BY Zenon, <2>2, <2>3
<1>19. Lasting'
  <2>1. ASSUME NEW n \in Names \ Hidden, n # c \/ c = Default
        PROVE  LastingAt(n)'
    BY Zenon, <1>1, <1>5, <1>16, <1>18, <2>1, SameDisks, LastsOn DEF Lasting
  <2> QED
    BY Zenon, <1>3, <1>16, <1>17, <2>1 DEF Lasting, LastingAt
<1>20. Serving'
  <2>1. \A n \in Names : disk'.dirs[n].files = disk.dirs[n].files
    BY Zenon, <1>2, <1>3, <1>5
  <2>2. ASSUME NEW n \in Names \ Hidden, ServingAt(n)
        PROVE  ServingAt(n)'
    BY Zenon, <1>2, <1>7, <1>16, <2>1, <2>2, ServesOn
  <2> QED
    BY Zenon, <1>1, <1>2, <1>7, <2>2 DEF Serving
<1> QED
  BY Zenon, <1>5, <1>6, <1>7, <1>8, <1>9, <1>11, <1>12, <1>13, <1>14, <1>19, <1>20

\* os.MkdirAll.
LEMMA MkdirStep ==
  ASSUME Inv, Mkdir
  PROVE  Inv'
<1> DEFINE dir == [Dir EXCEPT !.there = TRUE]
<1>1. TypeOK /\ OneCall /\ Migrating /\ Making
  BY Zenon DEF Inv
<1>2. (Opening /\ Left = 10) \/ ((MakingDefault \/ Creating) /\ Left = 6)
  BY Zenon, <1>1, Where DEF Mkdir
<1>3. Left > 1
  BY <1>2
<1>4. /\ Done /\ call.todo # <<>> /\ ChangeDir(dir)
      /\ mode' = mode /\ tenants' = tenants /\ promise' = promise /\ born' = born
  BY Zenon DEF Mkdir, Do, history
<1>5. Dir \in Dirs /\ call.name \in Names /\ Dir = disk.dirs[call.name]
  BY Zenon, <1>1, CallFields, DirTypes DEF TypeOK, Dir
<1>6. /\ dir \in Dirs /\ dir.there /\ dir.index = Dir.index /\ dir.quota = Dir.quota
      /\ dir.files = Dir.files
  BY ZenonT(60), <1>5, DirEdits, NamesAssumption
<1>7. Saves(dir)
  BY Zenon, <1>4, <1>6 DEF Saves
<1>8. call.name = Default => Alike(Default, dir, Dir) /\ (disk.legacy # {} => dir.quota = None)
  <2>1. Sound(disk)
    BY Zenon DEF Inv, AllSound
  <2> QED
    BY Zenon, <1>5, <1>6, <2>1 DEF Alike, LoadQuota, LoadIndex, Sound
<1>9. /\ promise' \in [Names -> Promises]
      /\ \A n \in Names : /\ promise'[n].must = promise[n].must /\ promise'[n].may = promise[n].may
                          /\ promise'[n].undone = promise[n].undone /\ promise'[n].spec = promise[n].spec
                          /\ promise'[n].pieces = promise[n].pieces /\ promise'[n].born = promise[n].born
                          /\ promise[n].quotas \subseteq promise'[n].quotas
  BY Zenon, <1>1, <1>4 DEF TypeOK
<1>10. /\ TypeOK' /\ OneCall' /\ Leaving' /\ Limiting' /\ AllSound' /\ DefaultKept'
       /\ AlwaysReopens' /\ Gone' /\ Lasting' /\ Serving'
       /\ Left' = Left - 1 /\ (Opening' <=> Opening) /\ (MakingDefault' <=> MakingDefault)
       /\ (Creating' <=> Creating)
       /\ disk'.legacy = disk.legacy /\ Dir' = dir
       /\ call'.name = call.name /\ call'.quota = call.quota /\ call'.spec = call.spec
  BY Zenon, <1>2, <1>3, <1>7, <1>8, <1>9, SavesStep
<1>11. Migrating'
  BY <1>1, <1>2, <1>4, <1>6, <1>10 DEF Migrating
<1>12. Making'
  BY <1>1, <1>2, <1>4, <1>10 DEF Making
<1> QED
  BY Zenon, <1>10, <1>11, <1>12 DEF Inv

\* index.json.
LEMMA SaveIndexStep ==
  ASSUME Inv, SaveIndex
  PROVE  Inv'
<1> DEFINE dir == [Dir EXCEPT !.index = call.spec]
<1>1. TypeOK /\ OneCall /\ Migrating /\ Making
  BY Zenon DEF Inv
<1>2. (Opening /\ Left = 6) \/ ((MakingDefault \/ Creating) /\ Left = 5)
  BY Zenon, <1>1, Where DEF SaveIndex
<1>3. Left > 1
  BY <1>2
<1>4. /\ Dir.there /\ Done /\ call.todo # <<>> /\ ChangeDir(dir)
      /\ mode' = mode /\ tenants' = tenants /\ promise' = promise /\ born' = born
  BY Zenon DEF SaveIndex, Do, history
<1>5. call.spec \in Specs /\ Dir \in Dirs /\ call.name \in Names /\ Dir = disk.dirs[call.name]
  BY Zenon, <1>1, CallFields, DirTypes DEF TypeOK, Dir
<1>6. /\ dir \in Dirs /\ dir.there /\ dir.index = call.spec /\ dir.quota = Dir.quota
      /\ dir.files = Dir.files
  <2>1. Dir.there
    BY Zenon, <1>4
  <2> QED
    BY <1>5, <2>1 DEF Dirs
<1>7. Saves(dir)
  BY Zenon, <1>4, <1>6 DEF Saves
<1>8. call.name = Default => Alike(Default, dir, Dir) /\ (disk.legacy # {} => dir.quota = None)
  <2>1. Sound(disk)
    BY Zenon DEF Inv, AllSound
  <2> QED
    <3>1. ASSUME call.name = Default
          PROVE  Dir.quota = None /\ call.spec = StoreSpec
      BY <1>1, <1>2, <3>1 DEF Migrating, Making, OneCall, Opening, MakingDefault
    <3>2. ASSUME call.name = Default
          PROVE  LoadIndex(Dir) = StoreSpec /\ LoadIndex(dir) = StoreSpec
      BY Zenon, <1>5, <1>6, <2>1, <3>1, <3>2 DEF Sound, LoadIndex
    <3> QED
      BY Zenon, <1>6, <3>1, <3>2 DEF Alike, LoadQuota
<1>9. /\ promise' \in [Names -> Promises]
      /\ \A n \in Names : /\ promise'[n].must = promise[n].must /\ promise'[n].may = promise[n].may
                          /\ promise'[n].undone = promise[n].undone /\ promise'[n].spec = promise[n].spec
                          /\ promise'[n].pieces = promise[n].pieces /\ promise'[n].born = promise[n].born
                          /\ promise[n].quotas \subseteq promise'[n].quotas
  BY Zenon, <1>1, <1>4 DEF TypeOK
<1>10. /\ TypeOK' /\ OneCall' /\ Leaving' /\ Limiting' /\ AllSound' /\ DefaultKept'
       /\ AlwaysReopens' /\ Gone' /\ Lasting' /\ Serving'
       /\ Left' = Left - 1 /\ (Opening' <=> Opening) /\ (MakingDefault' <=> MakingDefault)
       /\ (Creating' <=> Creating)
       /\ disk'.legacy = disk.legacy /\ Dir' = dir
       /\ call'.name = call.name /\ call'.quota = call.quota /\ call'.spec = call.spec
  BY Zenon, <1>2, <1>3, <1>7, <1>8, <1>9, SavesStep
<1>11. Migrating'
  BY <1>1, <1>2, <1>4, <1>6, <1>10 DEF Migrating
<1>12. Making'
  BY <1>1, <1>2, <1>4, <1>10 DEF Making
<1> QED
  BY Zenon, <1>10, <1>11, <1>12 DEF Inv

\* quota.json, of a directory that is being made.
LEMMA SaveQuotaMaking ==
  ASSUME Inv, SaveQuota, ~SettingQuota
  PROVE  Inv'
<1> DEFINE dir == [Dir EXCEPT !.quota = call.quota]
<1>1. TypeOK /\ OneCall /\ Migrating /\ Making
  BY Zenon DEF Inv
<1>2. (Opening /\ Left = 4) \/ ((MakingDefault \/ Creating) /\ Left = 3)
  BY Zenon, <1>1, Where DEF SaveQuota
<1>3. Left > 1
  BY <1>2
<1>4. /\ Dir.there /\ Done /\ call.todo # <<>> /\ ChangeDir(dir)
      /\ mode' = mode /\ tenants' = tenants /\ born' = born
      /\ promise' = [promise EXCEPT ![call.name].quotas = @ \cup {call.quota}]
  BY Zenon DEF SaveQuota, Do, history
<1>5. call.quota \in Quotas /\ Dir \in Dirs /\ call.name \in Names /\ Dir = disk.dirs[call.name]
  BY Zenon, <1>1, CallFields, DirTypes DEF TypeOK, Dir
<1>6. /\ dir \in Dirs /\ dir.there /\ dir.index = Dir.index /\ dir.quota = call.quota
      /\ dir.files = Dir.files
  <2>1. Dir.there
    BY Zenon, <1>4
  <2> QED
    BY <1>5, <2>1 DEF Dirs
<1>7. Saves(dir)
  BY Zenon, <1>4, <1>5, <1>6, NamesAssumption DEF Saves
<1>8. call.name = Default => Alike(Default, dir, Dir) /\ (disk.legacy # {} => dir.quota = None)
  <2>1. ASSUME call.name = Default
        PROVE  Dir.quota = None /\ call.quota = Unlimited /\ disk.legacy = {}
    <3>1. disk.legacy \subseteq Pieces
      BY Zenon, <1>1, DirTypes DEF TypeOK
    <3> QED
      BY <1>1, <1>2, <2>1, <3>1 DEF Migrating, Making, OneCall, Opening, MakingDefault, Pieces
  <2>2. ASSUME call.name = Default
        PROVE  LoadQuota(Dir) = Unlimited /\ LoadQuota(dir) = Unlimited
    BY Zenon, <1>6, <2>1, <2>2 DEF LoadQuota
  <2> QED
    BY Zenon, <1>6, <2>1, <2>2 DEF Alike, LoadIndex
<1>9. /\ promise' \in [Names -> Promises]
      /\ \A n \in Names : /\ promise'[n].must = promise[n].must /\ promise'[n].may = promise[n].may
                          /\ promise'[n].undone = promise[n].undone /\ promise'[n].spec = promise[n].spec
                          /\ promise'[n].pieces = promise[n].pieces /\ promise'[n].born = promise[n].born
                          /\ promise[n].quotas \subseteq promise'[n].quotas
  <2>1. promise \in [Names -> Promises]
    BY Zenon, <1>1 DEF TypeOK
  <2>2. promise' \in [Names -> Promises]
    BY <1>4, <1>5, <2>1 DEF Promises
  <2> QED
    BY <1>4, <1>5, <2>1, <2>2 DEF Promises
<1>10. /\ TypeOK' /\ OneCall' /\ Leaving' /\ Limiting' /\ AllSound' /\ DefaultKept'
       /\ AlwaysReopens' /\ Gone' /\ Lasting' /\ Serving'
       /\ Left' = Left - 1 /\ (Opening' <=> Opening) /\ (MakingDefault' <=> MakingDefault)
       /\ (Creating' <=> Creating)
       /\ disk'.legacy = disk.legacy /\ Dir' = dir
       /\ call'.name = call.name /\ call'.quota = call.quota /\ call'.spec = call.spec
  BY Zenon, <1>2, <1>3, <1>7, <1>8, <1>9, SavesStep
<1>11. Migrating'
  <2>1. mode' = mode /\ dir.there /\ ~(Opening /\ MakingDefault)
    BY Zenon, <1>1, <1>4, <1>6, Apart
  <2> QED
    BY <1>1, <1>2, <1>10, <2>1 DEF Migrating
<1>12. Making'
  BY <1>1, <1>2, <1>4, <1>10 DEF Making
<1> QED
  BY Zenon, <1>10, <1>11, <1>12 DEF Inv

\* A promise lasts on one more disk.
LEMMA LastsMore ==
  ASSUME NEW n \in Names, LastingAt(n), promise[n].quotas \subseteq promise'[n].quotas,
         promise'[n].spec = promise[n].spec, promise'[n].pieces = promise[n].pieces,
         promise'[n].born = promise[n].born, promise'[n].undone = promise[n].undone,
         InPlace(n)' => InPlace(n) /\ KeptOn(n, disk)',
         Owed(n)' => Owed(n) /\ Own(n, disk.dirs[n])', past' \subseteq past \cup {disk}
  PROVE  LastingAt(n)'
<1>1. ASSUME InPlace(n)', NEW d \in Disks(n)'
      PROVE  KeptOn(n, d)'
  <2>1. d = disk' \/ d \in Disks(n)
    BY Zenon DEF Disks
  <2>2. CASE d = disk'
    BY Zenon, <1>1, <2>2 DEF KeptOn, Keeps, Rests, IsTenantDir, LoadQuota, LoadIndex
  <2>3. CASE d \in Disks(n)
    <3>1. Keeps(n, d.dirs[n], Rests(d, n))
      BY Zenon, <1>1, <2>3 DEF LastingAt, KeptOn
    <3> QED
      BY <3>1 DEF Keeps, KeptOn, Rests, IsTenantDir, LoadQuota, LoadIndex
  <2> QED
    BY Zenon, <2>1, <2>2, <2>3
<1>2. ASSUME Owed(n)', NEW d \in past' \cup {disk'}
      PROVE  Own(n, d.dirs[n])'
  <2>1. d = disk' \/ d \in past \cup {disk}
    BY Zenon
  <2> QED
    BY Zenon, <1>2, <2>1 DEF LastingAt, Own
<1> QED
  BY Zenon, <1>1, <1>2 DEF LastingAt

\* quota.json, in SetQuota.
LEMMA SaveQuotaSetting ==
  ASSUME Inv, SaveQuota, SettingQuota
  PROVE  Inv'
<1> DEFINE c == call.name
           dir == [Dir EXCEPT !.quota = call.quota]
<1>1. /\ TypeOK /\ OneCall /\ Migrating /\ Limiting /\ AllSound /\ Gone /\ Lasting /\ Serving
      /\ DefaultKept /\ AlwaysReopens
  BY Zenon DEF Inv
<1>2. /\ ~Opening /\ ~MakingDefault /\ ~Creating /\ ~Deleting
      /\ call.op = "setQuota" /\ mode = "up"
  BY Zenon, <1>1, OnePhase DEF OneCall, SettingQuota
<1>3. Left = 4
  BY Zenon, <1>1, <1>2, Where DEF SaveQuota
<1>4. Left > 1
  BY <1>3
<1>5. /\ Dir.there /\ call' = [call EXCEPT !.todo = Tail(@)] /\ call.todo # <<>> /\ ChangeDir(dir)
      /\ promise' = [promise EXCEPT ![c].quotas = @ \cup {call.quota}]
      /\ mode' = mode /\ tenants' = tenants /\ born' = born
  BY Zenon DEF SaveQuota, Do, Done
<1>6. /\ c \in Names /\ c \in DOMAIN tenants /\ disk.legacy = {} /\ call.quota \in Quotas
      /\ Dir \in Dirs /\ Dir = disk.dirs[c] /\ promise \in [Names -> Promises]
  BY Zenon, <1>1, <1>2, CallFields, DirTypes DEF TypeOK, Dir, Limiting, Migrating
<1>7. /\ dir \in Dirs /\ dir.there /\ dir.index = Dir.index /\ dir.quota = call.quota
      /\ dir.files = Dir.files /\ dir.quota # None
  <2>1. Dir.there /\ call.quota # None
    BY Zenon, <1>5, <1>6, NamesAssumption
  <2> QED
    BY <1>6, <2>1 DEF Dirs
<1>8. promise' \in [Names -> Promises]
  BY SMTT(60), <1>5, <1>6 DEF Promises
<1>9. /\ \A n \in Names :
           /\ promise'[n].must = promise[n].must /\ promise'[n].may = promise[n].may
           /\ promise'[n].undone = promise[n].undone /\ promise'[n].spec = promise[n].spec
           /\ promise'[n].pieces = promise[n].pieces /\ promise'[n].born = promise[n].born
           /\ promise[n].quotas \subseteq promise'[n].quotas
      /\ call.quota \in promise'[c].quotas
  BY <1>5, <1>6, <1>8 DEF Promises
<1>10. /\ disk' \in Trees /\ disk'.legacy = disk.legacy /\ disk'.dirs[c] = dir
       /\ \A n \in Names : n # c => disk'.dirs[n] = disk.dirs[n]
       /\ past' = past \cup {disk} /\ past' \subseteq Trees
  BY Zenon, <1>1, <1>5, <1>7, DirChanges
<1>11. /\ TypeOK' /\ call'.op = call.op /\ call'.name = c /\ call'.quota = call.quota
       /\ call'.spec = call.spec /\ call'.todo = Tail(call.todo)
  BY <1>1, <1>5, <1>8, <1>10, CallTypes DEF TypeOK, Calls
<1>12. /\ Left' = Left - 1 /\ ~Opening' /\ ~MakingDefault' /\ ~Creating' /\ ~Deleting' /\ SettingQuota'
  BY Zenon, <1>1, <1>2, <1>4, <1>11, GoesOn
<1>13. OneCall'
  BY Zenon, <1>1, <1>4, <1>5, <1>11, OneCallGoesOn DEF OneCall
<1>14. Migrating' /\ Making' /\ Leaving'
  BY Zenon, <1>6, <1>10, <1>12 DEF Migrating, Making, Leaving
<1>15. Limiting'
  <2>1. Dir' = dir /\ Left' = 3
    BY <1>3, <1>10, <1>11, <1>12 DEF Dir
  <2> QED
    BY <1>5, <1>6, <1>7, <1>9, <1>11, <2>1 DEF Limiting
<1>16. AllSound'
  <2>1. SoundDir(c, dir)
    BY Zenon, <1>7 DEF SoundDir, IsTenantDir
  <2> QED
    BY Zenon, <1>1, <1>5, <1>6, <1>7, <2>1, SoundChange
<1>17. DefaultKept' /\ AlwaysReopens'
  <2>1. DefaultKept'
    BY Zenon, <1>1, <1>9, NamesAssumption DEF DefaultKept
  <2> QED
    BY Zenon, <1>2, <1>5, <2>1 DEF AlwaysReopens
<1>18. Gone'
  <2>1. promise[c].may
    BY Zenon, <1>1, <1>6 DEF Gone, GoneAt
  <2>2. ASSUME NEW n \in Names, n # c
        PROVE  GoneAt(n)'
    <3>1. \A d \in past' \cup {disk'} : \E e \in past \cup {disk} : d.dirs[n] = e.dirs[n]
      BY Zenon, <1>10, <2>2
    <3>2. promise[n].may => promise'[n].may
      BY Zenon, <1>9
    <3> QED
      BY Zenon, <1>1, <1>5, <3>1, <3>2, GoneOn DEF Gone
  <2> QED
    BY Zenon, <1>6, <1>9, <2>1, <2>2 DEF Gone, GoneAt
<1>19. \A n \in Names : /\ ~Pending(n) /\ ~Pending(n)'
                        /\ InPlace(n)' <=> promise[n].must
                        /\ InPlace(n) <=> promise[n].must
                        /\ Owed(n)' <=> promise[n].must
                        /\ Owed(n) <=> promise[n].must
  BY Zenon, <1>2, <1>9, <1>12 DEF Pending, InPlace, Owed
<1>20. ASSUME NEW n \in Names \ Hidden, promise[n].must
       PROVE  KeptOn(n, disk)' /\ Own(n, disk.dirs[n])'
  <2>1. KeptOn(n, disk) /\ Own(n, disk.dirs[n])
    BY Zenon, <1>1, <1>19, <1>20 DEF Lasting, LastingAt, Disks
  <2>2. disk'.dirs[n].files = disk.dirs[n].files /\ LoadIndex(disk'.dirs[n]) = LoadIndex(disk.dirs[n])
    BY ZenonT(60), <1>6, <1>7, <1>10 DEF LoadIndex
  <2>3. Own(n, disk.dirs[n])'
    BY Zenon, <1>9, <2>1, <2>2 DEF Own
  <2>4. n = c => LoadQuota(disk'.dirs[n]) = call.quota /\ IsTenantDir(disk'.dirs[n])
    BY Zenon, <1>7, <1>10 DEF LoadQuota, IsTenantDir
  <2>5. n # c => LoadQuota(disk'.dirs[n]) \in promise[n].quotas /\ (n = Default \/ IsTenantDir(disk'.dirs[n]))
    BY Zenon, <1>10, <2>1 DEF KeptOn, Keeps
  <2>6. LoadQuota(disk'.dirs[n]) \in promise'[n].quotas /\ (n = Default \/ IsTenantDir(disk'.dirs[n]))
    BY Zenon, <1>9, <2>4, <2>5
  <2>7. /\ LoadIndex(disk'.dirs[n]) = promise'[n].spec
        /\ promise'[n].pieces \subseteq {p \in Pieces : promise'[n].born \in disk'.dirs[n].files[p]}
                                          \cup Rests(disk', n)
    BY Zenon, <1>9, <1>10, <2>1, <2>2 DEF KeptOn, Keeps, Rests
  <2> QED
    BY Zenon, <2>3, <2>6, <2>7 DEF KeptOn, Keeps, Rests, LoadQuota, LoadIndex, IsTenantDir
<1>21. Lasting'
  <2>1. ASSUME NEW n \in Names \ Hidden
        PROVE  LastingAt(n)'
    BY Zenon, <1>1, <1>9, <1>10, <1>19, <1>20, LastsMore DEF Lasting
  <2> QED
    BY Zenon, <2>1 DEF Lasting
<1>22. Serving'
  <2>1. \A n \in Names : disk'.dirs[n].files = disk.dirs[n].files
    BY Zenon, <1>6, <1>7, <1>10
  <2>2. ASSUME NEW n \in Names \ Hidden, ServingAt(n)
        PROVE  ServingAt(n)'
    BY Zenon, <1>2, <1>5, <1>9, <1>12, <1>19, <2>1, <2>2, ServesOn
  <2> QED
    BY Zenon, <1>1, <1>2, <1>5, <1>12, <2>2 DEF Serving
<1> QED
  BY Zenon, <1>11, <1>13, <1>14, <1>15, <1>16, <1>17, <1>18, <1>21, <1>22 DEF Inv

\* A promise lasts when no disk changes.
LEMMA LastsStill ==
  ASSUME NEW n \in Names, LastingAt(n), promise[n].quotas \subseteq promise'[n].quotas,
         promise'[n].spec = promise[n].spec, promise'[n].pieces = promise[n].pieces,
         promise'[n].born = promise[n].born, InPlace(n)' => InPlace(n), Owed(n)' => Owed(n),
         Disks(n)' \subseteq Disks(n), past' \cup {disk'} \subseteq past \cup {disk}
  PROVE  LastingAt(n)'
<1>1. \A d : Alike(n, d.dirs[n], d.dirs[n]) /\ Rests(d, n) = Rests(d, n)
  BY Zenon DEF Alike
<1> QED
  BY Zenon, <1>1, LastsOn

-----------------------------------------------------------------------------
(* Steps that change no directory. *)

\* syncDir.
LEMMA SyncDirStep ==
  ASSUME Inv, SyncDir
  PROVE  Inv'
<1>1. /\ TypeOK /\ OneCall /\ Migrating /\ Making /\ Leaving /\ Limiting /\ AllSound /\ Gone
      /\ Lasting /\ Serving /\ DefaultKept /\ AlwaysReopens
  BY Zenon DEF Inv
<1>2. \/ Opening /\ Left \in {5, 3, 2}
      \/ (MakingDefault \/ Creating) /\ Left \in {4, 2}
      \/ Deleting /\ Left = 3
      \/ SettingQuota /\ Left = 3
  BY Zenon, <1>1, Where DEF SyncDir
<1>3. Left > 1 /\ Left \in Nat
  BY <1>2
<1>4. /\ call' = [call EXCEPT !.todo = Tail(@)] /\ call.todo # <<>> /\ past' = {} /\ promise' = Settled
      /\ disk' = disk /\ mode' = mode /\ tenants' = tenants /\ born' = born
  BY Zenon DEF SyncDir, Do, Done
<1>5. /\ promise' \in [Names -> Promises]
      /\ \A n \in Names :
           /\ promise'[n].must = promise[n].must /\ promise'[n].may = promise[n].may
           /\ promise'[n].quotas = promise[n].quotas /\ promise'[n].spec = promise[n].spec
           /\ promise'[n].pieces = promise[n].pieces /\ promise'[n].born = promise[n].born
           /\ ~promise'[n].undone
  BY Zenon, <1>1, <1>4, SettledTypes
<1>6. /\ TypeOK' /\ call'.op = call.op /\ call'.name = call.name /\ call'.quota = call.quota
      /\ call'.spec = call.spec /\ call'.must = call.must /\ call'.was = call.was
      /\ call'.todo = Tail(call.todo)
  BY <1>1, <1>4, <1>5, CallTypes DEF TypeOK, Calls
<1>7. /\ Left' = Left - 1
      /\ Opening' <=> Opening
      /\ MakingDefault' <=> MakingDefault
      /\ Creating' <=> Creating
      /\ Deleting' <=> Deleting
      /\ SettingQuota' <=> SettingQuota
  BY Zenon, <1>1, <1>3, <1>6, GoesOn
<1>8. OneCall'
  BY Zenon, <1>1, <1>3, <1>4, <1>6, OneCallGoesOn DEF OneCall
<1>9. Dir' = Dir /\ call.name \in Names
  BY Zenon, <1>1, <1>4, <1>6, CallFields DEF Dir
<1>10. /\ Opening => ~MakingDefault /\ ~Creating /\ ~Deleting /\ ~SettingQuota
       /\ MakingDefault \/ Creating => ~Opening /\ ~Deleting /\ ~SettingQuota
       /\ Deleting => ~Opening /\ ~MakingDefault /\ ~Creating /\ ~SettingQuota
       /\ SettingQuota => ~Opening /\ ~MakingDefault /\ ~Creating /\ ~Deleting
  BY Zenon, <1>1, OnePhase
<1>11. Migrating'
  BY <1>1, <1>2, <1>4, <1>7, <1>9, <1>10 DEF Migrating
<1>12. Making'
  BY SMTT(60), <1>1, <1>2, <1>4, <1>5, <1>6, <1>7, <1>9, <1>10 DEF Making
<1>13. Leaving'
  BY <1>1, <1>2, <1>4, <1>5, <1>6, <1>7, <1>9, <1>10 DEF Leaving
<1>14. Limiting'
  BY <1>1, <1>2, <1>4, <1>5, <1>6, <1>7, <1>9, <1>10 DEF Limiting
<1>15. AllSound'
  BY Zenon, <1>1, <1>4, SoundOn
<1>16. DefaultKept' /\ AlwaysReopens'
  BY Zenon, <1>1, <1>4, <1>5, NamesAssumption DEF DefaultKept, AlwaysReopens
<1>17. Gone'
  BY Zenon, <1>1, <1>4, <1>5 DEF Gone, GoneAt
<1>18. \A n \in Names : ~Pending(n)'
  BY <1>2, <1>7, <1>10 DEF Pending
<1>19. ASSUME NEW n \in Names
       PROVE  /\ InPlace(n)' => InPlace(n)
              /\ Owed(n)' => Owed(n)
              /\ Disks(n)' \subseteq Disks(n)
  BY Zenon, <1>4, <1>5, <1>18 DEF InPlace, Owed, Disks
<1>20. Lasting'
  <2>1. ASSUME NEW n \in Names \ Hidden
        PROVE  LastingAt(n)'
    BY Zenon, <1>1, <1>4, <1>5, <1>19, LastsStill DEF Lasting
  <2> QED
    BY Zenon, <2>1 DEF Lasting
<1>21. Serving'
  <2>1. ASSUME NEW n \in Names \ Hidden, ServingAt(n)
        PROVE  ServingAt(n)'
    BY Zenon, <1>4, <1>5, <1>7, <1>19, <2>1, ServesOn
  <2> QED
    BY Zenon, <1>1, <1>4, <1>7, <2>1 DEF Serving
<1> QED
  BY Zenon, <1>6, <1>8, <1>11, <1>12, <1>13, <1>14, <1>15, <1>16, <1>17, <1>20, <1>21 DEF Inv

\* A call returns, or the process ends, and nothing else changes.
LEMMA Over ==
  ASSUME Inv, call' = NoCall, disk' = disk, past' = past, promise' = promise, born' = born,
         mode' \in Modes, mode' # "opening", mode' = "refused" => AlwaysReopens',
         \/ mode' = "up" /\ mode = "up" /\ tenants' = tenants
         \/ mode' # "up" /\ tenants' = NoTenants
         \/ mode' # "up" /\ tenants' = tenants /\ DOMAIN tenants = {}
  PROVE  Inv'
<1>1. /\ TypeOK /\ OneCall /\ Migrating /\ AllSound /\ Gone /\ Lasting /\ Serving /\ DefaultKept
  BY Zenon DEF Inv
<1>2. /\ DOMAIN tenants' \subseteq DOMAIN tenants /\ tenants' \in [DOMAIN tenants' -> Entries]
      /\ mode' = "down" => DOMAIN tenants' = {}
  BY Zenon, <1>1, NoTypes DEF TypeOK
<1>3. TypeOK'
  BY Zenon, <1>1, <1>2, CallTypes DEF TypeOK
<1>4. OneCall'
  BY Zenon, <1>2, OneCallReturns
<1>5. Migrating' /\ Making' /\ Leaving' /\ Limiting'
  <2>1. mode' = "up" => disk'.legacy = {}
    BY Zenon, <1>1 DEF Migrating
  <2> QED
    BY Zenon, <2>1, StagesReturn
<1>6. AllSound'
  BY Zenon, <1>1, SoundOn
<1>7. DefaultKept' /\ AlwaysReopens'
  BY Zenon, <1>1 DEF DefaultKept, AlwaysReopens
<1>8. Gone'
  BY Zenon, <1>1, <1>2 DEF Gone, GoneAt
<1>9. ~Opening' /\ ~MakingDefault' /\ ~Deleting'
  BY Zenon, Returns
<1>10. ASSUME NEW n \in Names
       PROVE  /\ InPlace(n)' => InPlace(n)
              /\ Owed(n)' => Owed(n)
              /\ Disks(n)' \subseteq Disks(n)
  BY Zenon, <1>9 DEF InPlace, Owed, Disks, Pending
<1>11. Lasting'
  <2>1. ASSUME NEW n \in Names \ Hidden
        PROVE  LastingAt(n)'
    BY Zenon, <1>1, <1>10, LastsStill DEF Lasting
  <2> QED
    BY Zenon, <2>1 DEF Lasting
<1>12. Serving'
  <2>1. CASE mode' # "up"
    BY Zenon, <1>9, <2>1 DEF Serving
  <2>2. CASE mode' = "up"
    <3>1. ~MakingDefault
      BY Zenon, <1>1, <2>2 DEF OneCall, MakingDefault
    <3>2. ASSUME NEW n \in Names \ Hidden, ServingAt(n)
          PROVE  ServingAt(n)'
      BY Zenon, <1>9, <1>10, <2>2, <3>1, <3>2, ServesOn
    <3> QED
      BY Zenon, <1>1, <2>2, <3>2 DEF Serving
  <2> QED
    BY Zenon, <2>1, <2>2
<1> QED
  BY Zenon, <1>3, <1>4, <1>5, <1>6, <1>7, <1>8, <1>11, <1>12 DEF Inv

\* os.RemoveAll is the last step of DeleteTenant.
LEMMA RemoveAllStep ==
  ASSUME Inv, RemoveAll
  PROVE  Inv'
<1>1. TypeOK /\ OneCall
  BY Zenon DEF Inv
<1>2. mode = "up"
  BY Zenon, <1>1, Where DEF RemoveAll, Deleting, OneCall
<1>3. mode' = "up"
  BY Zenon, <1>2 DEF RemoveAll
<1> QED
  BY Zenon, <1>2, <1>3, Over DEF RemoveAll, Return, history, Modes

\* The process dies.
LEMMA CrashStep ==
  ASSUME Inv, Crash
  PROVE  Inv'
<1>1. mode' = "down" /\ mode' \in Modes /\ mode' # "opening" /\ mode' # "refused" /\ mode' # "up"
  BY DEF Crash, Stops, Modes
<1> QED
  BY Zenon, <1>1, Over DEF Crash, Stops

\* t.limits.Store.
LEMMA StoreLimitsStep ==
  ASSUME Inv, StoreLimits
  PROVE  Inv'
<1> DEFINE c == call.name
<1>1. /\ TypeOK /\ OneCall /\ Migrating /\ Limiting /\ AllSound /\ Gone /\ Lasting /\ Serving
      /\ DefaultKept /\ AlwaysReopens
  BY Zenon DEF Inv
<1>2. SettingQuota /\ Left = 2
  BY Zenon, <1>1, Where DEF StoreLimits
<1>3. /\ ~Opening /\ ~MakingDefault /\ ~Creating /\ ~Deleting
      /\ call.op = "setQuota" /\ mode = "up" /\ Left > 1
  <2>1. Left > 1
    BY <1>2
  <2> QED
    BY Zenon, <1>1, <1>2, <2>1, OnePhase DEF OneCall, SettingQuota
<1>4. /\ call' = [call EXCEPT !.todo = Tail(@)] /\ call.todo # <<>>
      /\ tenants' = [tenants EXCEPT ![c].quota = call.quota]
      /\ disk' = disk /\ past' = past /\ mode' = mode /\ promise' = promise /\ born' = born
  BY Zenon DEF StoreLimits, Do, Done, history
<1>5. /\ c \in Names /\ c \in DOMAIN tenants /\ disk.legacy = {} /\ call.quota \in Quotas
      /\ Dir.quota = call.quota /\ call.quota \in promise[c].quotas /\ past = {}
  <2>1. Left <= 3 /\ Left <= 2
    BY <1>2
  <2> QED
    BY Zenon, <1>1, <1>2, <1>3, <2>1, CallFields DEF Limiting, Migrating
<1>6. /\ DOMAIN tenants' = DOMAIN tenants /\ tenants' \in [DOMAIN tenants' -> Entries]
      /\ tenants'[c].quota = call.quota /\ tenants'[c].spec = tenants[c].spec
      /\ \A n \in DOMAIN tenants : n # c => tenants'[n] = tenants[n]
  BY <1>1, <1>4, <1>5 DEF TypeOK, Entries
<1>7. /\ TypeOK' /\ call'.op = call.op /\ call'.name = c /\ call'.quota = call.quota
      /\ call'.spec = call.spec /\ call'.todo = Tail(call.todo)
  BY <1>1, <1>4, <1>6, CallTypes DEF TypeOK, Calls
<1>8. /\ Left' = Left - 1 /\ ~Opening' /\ ~MakingDefault' /\ ~Creating' /\ ~Deleting' /\ SettingQuota'
  BY Zenon, <1>1, <1>2, <1>3, <1>7, GoesOn
<1>9. OneCall'
  BY Zenon, <1>1, <1>3, <1>4, <1>6, <1>7, OneCallGoesOn DEF OneCall
<1>10. Migrating' /\ Making' /\ Leaving'
  BY Zenon, <1>4, <1>5, <1>8 DEF Migrating, Making, Leaving
<1>11. Limiting'
  BY Zenon, <1>4, <1>5, <1>6, <1>7 DEF Limiting, Dir
<1>12. AllSound' /\ DefaultKept' /\ AlwaysReopens'
  BY Zenon, <1>1, <1>4, SoundOn DEF DefaultKept, AlwaysReopens
<1>13. Gone'
  BY Zenon, <1>1, <1>4, <1>6 DEF Gone, GoneAt
<1>14. ASSUME NEW n \in Names
       PROVE  /\ InPlace(n)' => InPlace(n)
              /\ Owed(n)' => Owed(n)
              /\ Disks(n)' \subseteq Disks(n)
  BY Zenon, <1>4, <1>8 DEF InPlace, Owed, Disks, Pending
<1>15. Lasting'
  <2>1. ASSUME NEW n \in Names \ Hidden
        PROVE  LastingAt(n)'
    BY Zenon, <1>1, <1>4, <1>14, LastsStill DEF Lasting
  <2> QED
    BY Zenon, <2>1 DEF Lasting
<1>16. Serving'
  <2>1. ASSUME NEW n \in Names \ Hidden, ServingAt(n)
        PROVE  ServingAt(n)'
    BY Zenon, <1>3, <1>4, <1>5, <1>6, <1>14, <2>1 DEF ServingAt, Serves
  <2> QED
    BY Zenon, <1>1, <1>3, <1>4, <1>6, <2>1 DEF Serving
<1> QED
  BY Zenon, <1>7, <1>9, <1>10, <1>11, <1>12, <1>13, <1>15, <1>16 DEF Inv

\* SetQuota returns.
LEMMA SetQuotaReturnsStep ==
  ASSUME Inv, SetQuotaReturns
  PROVE  Inv'
<1> DEFINE c == call.name
<1>1. /\ TypeOK /\ OneCall /\ Migrating /\ Limiting /\ AllSound /\ Gone /\ Lasting /\ Serving
      /\ DefaultKept /\ AlwaysReopens
  BY Zenon DEF Inv
<1>2. SettingQuota /\ Left = 1
  BY Zenon, <1>1, Where DEF SetQuotaReturns
<1>3. ~MakingDefault /\ ~Deleting /\ mode = "up"
  BY Zenon, <1>1, <1>2, OnePhase DEF OneCall, SettingQuota
<1>4. /\ call' = NoCall /\ promise' = [promise EXCEPT ![c].quotas = {call.quota}]
      /\ disk' = disk /\ past' = past /\ mode' = mode /\ tenants' = tenants /\ born' = born
  BY Zenon DEF SetQuotaReturns, Return
<1>5. /\ c \in Names /\ c \in DOMAIN tenants /\ disk.legacy = {} /\ call.quota \in Quotas
      /\ disk.dirs[c].quota = call.quota /\ past = {} /\ tenants[c].quota = call.quota
      /\ promise \in [Names -> Promises]
  <2>1. Left <= 3 /\ Left <= 2
    BY <1>2
  <2> QED
    BY Zenon, <1>1, <1>2, <1>3, <2>1, CallFields DEF Limiting, Migrating, Dir, TypeOK
<1>6. promise' \in [Names -> Promises]
  BY <1>4, <1>5 DEF Promises
<1>7. /\ \A n \in Names :
           /\ promise'[n].must = promise[n].must /\ promise'[n].may = promise[n].may
           /\ promise'[n].undone = promise[n].undone /\ promise'[n].spec = promise[n].spec
           /\ promise'[n].pieces = promise[n].pieces /\ promise'[n].born = promise[n].born
           /\ n # c => promise'[n].quotas = promise[n].quotas
      /\ promise'[c].quotas = {call.quota}
  BY <1>4, <1>5, <1>6 DEF Promises
<1>8. TypeOK'
  BY Zenon, <1>1, <1>4, <1>6, CallTypes DEF TypeOK
<1>9. OneCall'
  BY Zenon, <1>3, <1>4, OneCallReturns
<1>10. Migrating' /\ Making' /\ Leaving' /\ Limiting'
  BY Zenon, <1>4, <1>5, StagesReturn
<1>11. AllSound' /\ DefaultKept' /\ AlwaysReopens'
  <2>1. DefaultKept'
    BY <1>1, <1>7, NamesAssumption DEF DefaultKept
  <2> QED
    BY Zenon, <1>1, <1>3, <1>4, <2>1, SoundOn DEF AlwaysReopens
<1>12. Gone'
  BY ZenonT(60), <1>1, <1>4, <1>7 DEF Gone, GoneAt
<1>13. ~MakingDefault' /\ ~Deleting'
  BY Zenon, <1>4, Returns
<1>14. ASSUME NEW n \in Names
       PROVE  /\ InPlace(n)' <=> promise[n].must
              /\ InPlace(n) <=> promise[n].must
              /\ Owed(n)' <=> promise[n].must
              /\ Owed(n) <=> promise[n].must
              /\ Disks(n)' \subseteq Disks(n)
  BY ZenonT(60), <1>3, <1>4, <1>7, <1>13 DEF InPlace, Owed, Disks, Pending
<1>15. Lasting'
  <2>1. ASSUME NEW n \in Names \ Hidden, n # c
        PROVE  LastingAt(n)'
    BY Zenon, <1>1, <1>4, <1>7, <1>14, <2>1, LastsStill DEF Lasting
  <2>2. ASSUME NEW n \in Names \ Hidden, n = c, promise[n].must
        PROVE  LastingAt(n)'
    <3>1. KeptOn(n, disk) /\ Own(n, disk.dirs[n])
      BY Zenon, <1>1, <1>5, <1>14, <2>2 DEF Lasting, LastingAt, Disks
    <3>2. \A d \in Disks(n)' \cup past' \cup {disk'} : d = disk
      BY Zenon, <1>4, <1>5 DEF Disks
    <3>3. LoadQuota(disk.dirs[n]) \in promise'[n].quotas
      BY ZenonT(60), <1>5, <1>7, <2>2, NamesAssumption DEF LoadQuota
    <3>4. /\ n = Default \/ IsTenantDir(disk.dirs[n])
          /\ LoadIndex(disk.dirs[n]) = promise'[n].spec
          /\ promise'[n].pieces \subseteq {p \in Pieces : promise'[n].born \in disk.dirs[n].files[p]}
                                            \cup Rests(disk, n)
      BY Zenon, <1>5, <1>7, <3>1 DEF KeptOn, Keeps
    <3>5. \A d \in Disks(n)' : KeptOn(n, d)'
      BY Zenon, <3>2, <3>3, <3>4 DEF KeptOn, Keeps, Rests, LoadQuota, LoadIndex, IsTenantDir
    <3>6. \A d \in past' \cup {disk'} : Own(n, d.dirs[n])'
      BY Zenon, <1>5, <1>7, <3>1, <3>2 DEF Own
    <3> QED
      BY Zenon, <3>5, <3>6 DEF LastingAt
  <2>3. ASSUME NEW n \in Names \ Hidden, n = c, ~promise[n].must
        PROVE  LastingAt(n)'
    BY Zenon, <1>5, <1>14, <2>3 DEF LastingAt
  <2> QED
    BY Zenon, <2>1, <2>2, <2>3 DEF Lasting
<1>16. Serving'
  <2>1. ASSUME NEW n \in Names \ Hidden, ServingAt(n)
        PROVE  ServingAt(n)'
    BY ZenonT(60), <1>3, <1>4, <1>5, <1>7, <1>14, <2>1 DEF ServingAt, Serves
  <2> QED
    BY Zenon, <1>1, <1>3, <1>4, <2>1 DEF Serving
<1> QED
  BY Zenon, <1>8, <1>9, <1>10, <1>11, <1>12, <1>15, <1>16 DEF Inv

\* DeleteTenant takes the tenant off the map.
LEMMA ForgetStep ==
  ASSUME Inv, Forget
  PROVE  Inv'
<1> DEFINE c == call.name
<1>1. /\ TypeOK /\ OneCall /\ Migrating /\ Leaving /\ AllSound /\ Gone /\ Lasting /\ Serving
      /\ DefaultKept /\ AlwaysReopens
  BY Zenon DEF Inv
<1>2. Deleting /\ Left = 2
  BY Zenon, <1>1, Where DEF Forget
<1>3. /\ ~Opening /\ ~MakingDefault /\ ~Creating /\ ~SettingQuota /\ mode = "up" /\ Left > 1
  <2>1. Left > 1
    BY <1>2
  <2> QED
    BY Zenon, <1>1, <1>2, <2>1, OnePhase DEF OneCall, Deleting
<1>4. /\ call' = [call EXCEPT !.todo = Tail(@)] /\ call.todo # <<>>
      /\ tenants' = [n \in DOMAIN tenants \ {c} |-> tenants[n]]
      /\ promise' = [promise EXCEPT ![c].may = FALSE]
      /\ disk' = disk /\ past' = past /\ mode' = mode /\ born' = born
  BY Zenon DEF Forget, Do, Done
<1>5. /\ c \in Names /\ c # Default /\ ~promise[c].must /\ disk.dirs[c] = NoDir /\ past = {}
      /\ disk.legacy = {} /\ promise \in [Names -> Promises]
  <2>1. Left <= 3 /\ Left >= 2
    BY <1>2
  <2> QED
    BY Zenon, <1>1, <1>2, <1>3, <2>1, CallFields DEF Leaving, Migrating, TypeOK
<1>6. promise' \in [Names -> Promises]
  BY ZenonT(60), <1>4, <1>5 DEF Promises
<1>7. \A n \in Names :
        /\ promise'[n].must = promise[n].must /\ promise'[n].quotas = promise[n].quotas
        /\ promise'[n].undone = promise[n].undone /\ promise'[n].spec = promise[n].spec
        /\ promise'[n].pieces = promise[n].pieces /\ promise'[n].born = promise[n].born
        /\ n # c => promise'[n].may = promise[n].may
  BY ZenonT(60), <1>4, <1>5, <1>6 DEF Promises
<1>8. /\ DOMAIN tenants' = DOMAIN tenants \ {c} /\ tenants' \in [DOMAIN tenants' -> Entries]
      /\ \A n \in DOMAIN tenants' : tenants'[n] = tenants[n]
  BY <1>1, <1>4 DEF TypeOK
<1>9. /\ TypeOK' /\ call'.op = call.op /\ call'.name = c /\ call'.quota = call.quota
      /\ call'.spec = call.spec /\ call'.todo = Tail(call.todo)
  BY <1>1, <1>4, <1>6, <1>8, CallTypes DEF TypeOK, Calls
<1>10. Left' = 1 /\ ~Opening' /\ ~MakingDefault' /\ ~Creating' /\ Deleting' /\ ~SettingQuota'
  <2>1. Left' = Left - 1 /\ ~Opening' /\ ~MakingDefault' /\ ~Creating' /\ Deleting' /\ ~SettingQuota'
    BY Zenon, <1>1, <1>2, <1>3, <1>9, GoesOn
  <2> QED
    BY <1>2, <2>1
<1>11. OneCall'
  BY Zenon, <1>1, <1>3, <1>4, <1>9, OneCallGoesOn
<1>12. Migrating' /\ Making' /\ Limiting'
  BY Zenon, <1>4, <1>5, <1>10 DEF Migrating, Making, Limiting
<1>13. Leaving'
  BY <1>5, <1>7, <1>9, <1>10 DEF Leaving
<1>14. AllSound' /\ DefaultKept' /\ AlwaysReopens'
  BY Zenon, <1>1, <1>3, <1>4, <1>5, <1>7, SoundOn, NamesAssumption DEF DefaultKept, AlwaysReopens
<1>15. Gone'
  <2>1. ASSUME NEW n \in Names, n = c
        PROVE  GoneAt(n)'
    BY Zenon, <1>4, <1>5, <1>8, <2>1, DirTypes DEF GoneAt
  <2>2. ASSUME NEW n \in Names, n # c
        PROVE  GoneAt(n)'
    BY ZenonT(60), <1>1, <1>4, <1>7, <1>8, <2>2, GoneOn DEF Gone
  <2> QED
    BY Zenon, <2>1, <2>2 DEF Gone
<1>16. \A n \in Names : ~Pending(n)'
  BY <1>10 DEF Pending
<1>17. ASSUME NEW n \in Names
       PROVE  /\ InPlace(n)' => InPlace(n)
              /\ Owed(n)' => Owed(n) /\ promise[n].must
              /\ Disks(n)' \subseteq Disks(n)
  BY Zenon, <1>4, <1>7, <1>16 DEF InPlace, Owed, Disks
<1>18. Lasting'
  <2>1. ASSUME NEW n \in Names \ Hidden
        PROVE  LastingAt(n)'
    BY Zenon, <1>1, <1>4, <1>7, <1>17, LastsStill DEF Lasting
  <2> QED
    BY Zenon, <2>1 DEF Lasting
<1>19. Serving'
  <2>1. ASSUME NEW n \in Names \ Hidden, ServingAt(n)
        PROVE  ServingAt(n)'
    BY Zenon, <1>3, <1>4, <1>5, <1>7, <1>8, <1>17, <2>1, DirTypes DEF ServingAt, Serves
  <2> QED
    BY Zenon, <1>1, <1>3, <1>4, <1>5, <1>8, <2>1 DEF Serving
<1> QED
  BY Zenon, <1>9, <1>11, <1>12, <1>13, <1>14, <1>15, <1>18, <1>19 DEF Inv

-----------------------------------------------------------------------------
(* DeleteTenant moves a directory aside, createTenantLocked ends. *)

\* The rename of DeleteTenant.
LEMMA RenameStep ==
  ASSUME Inv, Rename
  PROVE  Inv'
<1> DEFINE c == call.name
<1>1. /\ TypeOK /\ OneCall /\ Migrating /\ Leaving /\ AllSound /\ Gone /\ Lasting /\ Serving
      /\ DefaultKept /\ AlwaysReopens
  BY Zenon DEF Inv
<1>2. Deleting /\ Left = 4
  BY Zenon, <1>1, Where DEF Rename
<1>3. /\ ~Opening /\ ~MakingDefault /\ ~Creating /\ ~SettingQuota /\ mode = "up" /\ Left > 1
  <2>1. Left > 1
    BY <1>2
  <2> QED
    BY Zenon, <1>1, <1>2, <2>1, OnePhase DEF OneCall, Deleting
<1>4. /\ call' = [call EXCEPT !.todo = Tail(@), !.was = Dir] /\ call.todo # <<>> /\ Dir.there
      /\ ChangeDir(NoDir)
      /\ promise' = promise /\ tenants' = tenants /\ mode' = mode /\ born' = born
  BY Zenon DEF Rename, Do, history
<1>5. /\ c \in Names /\ c # Default /\ ~promise[c].must /\ promise[c].may /\ c \in DOMAIN tenants
      /\ disk.legacy = {} /\ Dir \in Dirs /\ Dir = disk.dirs[c]
  <2>1. Left >= 2 /\ Left >= 3
    BY <1>2
  <2> QED
    BY Zenon, <1>1, <1>2, <1>3, <2>1, CallFields, DirTypes DEF Leaving, Migrating, TypeOK, Dir
<1>6. /\ disk' \in Trees /\ disk'.legacy = disk.legacy /\ disk'.dirs[c] = NoDir
      /\ \A n \in Names : n # c => disk'.dirs[n] = disk.dirs[n]
      /\ past' = past \cup {disk} /\ past' \subseteq Trees
  BY Zenon, <1>1, <1>4, DirTypes, DirChanges
<1>7. /\ TypeOK' /\ call'.op = call.op /\ call'.name = c /\ call'.quota = call.quota
      /\ call'.spec = call.spec /\ call'.todo = Tail(call.todo) /\ call'.was = Dir
      /\ call'.must = call.must
  <2>1. Tail(call.todo) \in Seq(Words)
    BY <1>1, <1>4, CallFields
  <2> QED
    BY Zenon, <1>1, <1>4, <1>5, <1>6, <2>1 DEF TypeOK, Calls
<1>8. Left' = 3 /\ ~Opening' /\ ~MakingDefault' /\ ~Creating' /\ Deleting' /\ ~SettingQuota'
  <2>1. Left' = Left - 1 /\ ~Opening' /\ ~MakingDefault' /\ ~Creating' /\ Deleting' /\ ~SettingQuota'
    BY Zenon, <1>1, <1>2, <1>3, <1>7, GoesOn
  <2> QED
    BY <1>2, <2>1
<1>9. OneCall'
  BY Zenon, <1>1, <1>3, <1>4, <1>7, OneCallGoesOn DEF OneCall
<1>10. Migrating' /\ Making' /\ Limiting'
  BY Zenon, <1>5, <1>6, <1>8 DEF Migrating, Making, Limiting
<1>11. SoundDir(c, Dir)
  BY Zenon, <1>1, <1>5 DEF AllSound, Sound
<1>12. call.must => InPlace(c) /\ Owed(c)
  BY <1>2 DEF InPlace, Owed, Pending
<1>13. ASSUME call.must, c \notin Hidden
       PROVE  Keeps(c, Dir, {}) /\ Own(c, Dir)
  <2>1. KeptOn(c, disk) /\ Own(c, disk.dirs[c])
    BY Zenon, <1>1, <1>5, <1>12, <1>13 DEF Lasting, LastingAt, Disks
  <2>2. Rests(disk, c) = {}
    BY Zenon, <1>5 DEF Rests
  <2> QED
    BY Zenon, <1>5, <2>1, <2>2 DEF KeptOn
<1>14. Leaving'
  <2>1. ~IsTenantDir(Dir) => Dir.files = NoFiles
    BY Zenon, <1>5, <1>11 DEF SoundDir
  <2>2. call'.must /\ call'.name \notin Hidden =>
          Keeps(call.name, call.was, {})' /\ Own(call.name, call.was)'
    <3>1. ASSUME NEW n, call.must, n \notin Hidden, n = c
          PROVE  Keeps(n, call.was, {})' /\ Own(n, call.was)'
      BY Zenon, <1>4, <1>7, <1>13, <3>1 DEF Keeps, Own, IsTenantDir, LoadQuota, LoadIndex
    <3> QED
      BY Zenon, <1>7, <3>1
  <2>3. /\ call'.name # Default /\ ~promise'[call'.name].must /\ promise'[call'.name].may
        /\ call'.name \in DOMAIN tenants' /\ disk'.dirs[call'.name] = NoDir
        /\ call'.was.there /\ (~IsTenantDir(call'.was) => call'.was.files = NoFiles)
    BY Zenon, <1>4, <1>5, <1>6, <1>7, <2>1
  <2>4. ~(Left' = 2)
    BY <1>8
  <2> QED
    BY Zenon, <2>2, <2>3, <2>4 DEF Leaving, IsTenantDir
<1>15. AllSound'
  <2>1. SoundDir(c, NoDir)
    BY Zenon, DirTypes DEF SoundDir
  <2> QED
    BY Zenon, <1>1, <1>4, <1>5, <2>1, DirTypes, SoundChange
<1>16. DefaultKept' /\ AlwaysReopens'
  BY Zenon, <1>1, <1>4 DEF DefaultKept, AlwaysReopens
<1>17. Gone'
  <2>1. ASSUME NEW n \in Names, n # c
        PROVE  GoneAt(n)'
    <3>1. \A d \in past' \cup {disk'} : \E e \in past \cup {disk} : d.dirs[n] = e.dirs[n]
      BY Zenon, <1>6, <2>1
    <3> QED
      BY Zenon, <1>1, <1>4, <3>1, GoneOn DEF Gone
  <2> QED
    BY Zenon, <1>4, <1>5, <2>1 DEF Gone, GoneAt
<1>18. ASSUME NEW n \in Names
       PROVE  /\ InPlace(n)' => InPlace(n) /\ n # c
              /\ Owed(n)' => Owed(n)
  <2>1. ~(Left' = 4) /\ Left >= 3
    BY <1>2, <1>8
  <2> QED
    BY Zenon, <1>2, <1>4, <1>5, <1>7, <2>1 DEF InPlace, Owed, Pending
<1>19. Lasting'
  <2>1. ASSUME NEW n \in Names \ Hidden, n # c
        PROVE  LastingAt(n)'
    <3>1. disk'.dirs[n] = disk.dirs[n] /\ Rests(disk', n) = Rests(disk, n)
      BY Zenon, <1>6, <2>1 DEF Rests
    <3>2. Alike(n, disk'.dirs[n], disk.dirs[n])
      BY Zenon, <3>1 DEF Alike
    <3>3. /\ \A d \in Disks(n)' : \E e \in Disks(n) : Alike(n, d.dirs[n], e.dirs[n]) /\ Rests(d, n) = Rests(e, n)
          /\ \A d \in past' \cup {disk'} : \E e \in past \cup {disk} : Alike(n, d.dirs[n], e.dirs[n])
      BY Zenon, <1>4, <1>6, <3>1, <3>2, SameDisks
    <3> QED
      BY Zenon, <1>1, <1>4, <1>18, <3>3, LastsOn DEF Lasting
  <2>2. ASSUME NEW n \in Names \ Hidden, n = c
        PROVE  LastingAt(n)'
    <3>1. Own(n, disk.dirs[n])'
      BY Zenon, <1>6, <2>2, DirTypes DEF Own
    <3> QED
      BY Zenon, <1>1, <1>4, <1>6, <1>18, <2>2, <3>1, LastsMore DEF Lasting
  <2> QED
    BY Zenon, <2>1, <2>2 DEF Lasting
<1>20. Serving'
  <2>1. ASSUME NEW n \in Names \ Hidden, ServingAt(n)
        PROVE  ServingAt(n)'
    BY Zenon, <1>3, <1>4, <1>5, <1>6, <1>18, <2>1 DEF ServingAt, Serves
  <2> QED
    BY Zenon, <1>1, <1>3, <1>4, <2>1 DEF Serving
<1> QED
  BY Zenon, <1>7, <1>9, <1>10, <1>14, <1>15, <1>16, <1>17, <1>19, <1>20 DEF Inv

\* createTenantLocked puts the tenant on the map.
LEMMA RegisterStep ==
  ASSUME Inv, Register
  PROVE  Inv'
<1> DEFINE c == call.name
<1>1. /\ TypeOK /\ OneCall /\ Migrating /\ Making /\ AllSound /\ Gone /\ Lasting /\ Serving
      /\ DefaultKept /\ AlwaysReopens
  BY Zenon DEF Inv
<1>2. (MakingDefault \/ Creating) /\ Left = 1
  BY Zenon, <1>1, Where DEF Register
<1>3. /\ ~Deleting /\ ~Idle /\ (mode = "up" \/ MakingDefault)
      /\ MakingDefault => c = Default
      /\ ~MakingDefault => Creating /\ mode = "up"
  BY Zenon, <1>1, <1>2, OnePhase DEF OneCall, Creating, MakingDefault
<1>4. /\ call' = NoCall /\ mode' = "up"
      /\ tenants' = [n \in DOMAIN tenants \cup {c} |->
                       IF n = c THEN [quota |-> call.quota, spec |-> call.spec] ELSE tenants[n]]
      /\ promise' = [promise EXCEPT ![c].must = TRUE, ![c].quotas = {call.quota}, ![c].spec = call.spec]
      /\ disk' = disk /\ past' = past /\ born' = born
  BY Zenon DEF Register, Return
<1>5. /\ c \in Names /\ call.quota \in Quotas /\ call.spec \in Specs
      /\ disk.dirs[c].index = call.spec /\ disk.dirs[c].quota = call.quota /\ past = {}
      /\ disk.legacy = {} /\ promise \in [Names -> Promises]
      /\ call.quota # None /\ call.spec # None
  <2>1. Left <= 4 /\ Left <= 2
    BY <1>2
  <2> QED
    BY Zenon, <1>1, <1>2, <1>3, <2>1, CallFields, NamesAssumption DEF Making, Migrating, Dir, TypeOK
<1>6. promise' \in [Names -> Promises]
  <2>1. promise[c] \in Promises
    BY Zenon, <1>5
  <2>2. [promise[c] EXCEPT !.must = TRUE, !.quotas = {call.quota}, !.spec = call.spec] \in Promises
    BY Zenon, <1>5, <2>1 DEF Promises
  <2>3. promise' = [promise EXCEPT ![c] =
                      [promise[c] EXCEPT !.must = TRUE, !.quotas = {call.quota}, !.spec = call.spec]]
    BY Zenon, <1>4, <1>5
  <2> QED
    BY Zenon, <1>5, <2>2, <2>3
<1>7. /\ \A n \in Names :
           /\ promise'[n].may = promise[n].may /\ promise'[n].undone = promise[n].undone
           /\ promise'[n].pieces = promise[n].pieces /\ promise'[n].born = promise[n].born
           /\ n # c => /\ promise'[n].must = promise[n].must /\ promise'[n].spec = promise[n].spec
                       /\ promise'[n].quotas = promise[n].quotas
      /\ promise'[c].must /\ promise'[c].quotas = {call.quota} /\ promise'[c].spec = call.spec
  BY ZenonT(60), <1>4, <1>5, <1>6 DEF Promises
<1>8. /\ DOMAIN tenants' = DOMAIN tenants \cup {c} /\ tenants' \in [DOMAIN tenants' -> Entries]
      /\ tenants'[c].quota = call.quota /\ tenants'[c].spec = call.spec
      /\ \A n \in DOMAIN tenants : n # c => tenants'[n] = tenants[n]
  BY <1>1, <1>4, <1>5 DEF TypeOK, Entries
<1>9. TypeOK'
  BY Zenon, <1>1, <1>4, <1>5, <1>6, <1>8, CallTypes DEF TypeOK, Modes
<1>10. OneCall' /\ Migrating' /\ Making' /\ Leaving' /\ Limiting'
  BY Zenon, <1>4, <1>5, OneCallReturns, StagesReturn
<1>11. AllSound' /\ DefaultKept' /\ AlwaysReopens'
  <2>1. DefaultKept'
    BY <1>1, <1>7, NamesAssumption DEF DefaultKept
  <2> QED
    BY Zenon, <1>1, <1>4, <2>1, SoundOn DEF AlwaysReopens
<1>12. promise[c].may
  BY Zenon, <1>1, <1>3 DEF DefaultKept, Making
<1>13. Gone'
  <2>1. ASSUME NEW n \in Names, n # c
        PROVE  GoneAt(n)'
    <3>1. /\ promise[n].may => promise'[n].may
          /\ n \in DOMAIN tenants' => n \in DOMAIN tenants
      BY Zenon, <1>7, <1>8, <2>1
    <3>2. \A d \in past' \cup {disk'} : \E e \in past \cup {disk} : d.dirs[n] = e.dirs[n]
      BY Zenon, <1>4
    <3> QED
      BY Zenon, <1>1, <3>1, <3>2, GoneOn DEF Gone
  <2> QED
    BY Zenon, <1>5, <1>7, <1>12, <2>1 DEF Gone, GoneAt
<1>14. ~Deleting' /\ ~MakingDefault'
  BY Zenon, <1>4, Returns
<1>15. ASSUME NEW n \in Names, n # c
       PROVE  /\ InPlace(n)' <=> promise[n].must
              /\ InPlace(n) <=> promise[n].must
              /\ Owed(n)' <=> promise[n].must
              /\ Owed(n) <=> promise[n].must
              /\ Disks(n)' \subseteq Disks(n)
  BY ZenonT(60), <1>3, <1>4, <1>7, <1>14, <1>15 DEF InPlace, Owed, Disks, Pending
<1>16. ASSUME NEW n \in Names \ Hidden, n = c
       PROVE  /\ Own(n, disk.dirs[n])
              /\ promise[n].pieces \subseteq {p \in Pieces : promise[n].born \in disk.dirs[n].files[p]}
                                               \cup Rests(disk, n)
  <2>1. CASE MakingDefault
    <3>1. InPlace(n) /\ Owed(n) /\ disk \in Disks(n)
      BY Zenon, <1>1, <1>3, <1>16, <2>1 DEF DefaultKept, InPlace, Owed, Disks
    <3> QED
      BY Zenon, <1>1, <3>1 DEF Lasting, LastingAt, KeptOn, Keeps
  <2>2. CASE ~MakingDefault
    <3>1. n \notin DOMAIN tenants /\ n # Default /\ promise[n].pieces = {}
      BY Zenon, <1>1, <1>3, <1>16, <2>2 DEF Making
    <3>2. disk.dirs[n].files = NoFiles
      BY Zenon, <1>1, <1>3, <2>2, <3>1 DEF Serving, ServingAt
    <3> QED
      BY Zenon, <3>1, <3>2, DirTypes DEF Own
  <2> QED
    BY Zenon, <2>1, <2>2
<1>17. Lasting'
  <2>1. ASSUME NEW n \in Names \ Hidden, n # c
        PROVE  LastingAt(n)'
    BY Zenon, <1>1, <1>4, <1>7, <1>15, <2>1, LastsStill DEF Lasting
  <2>2. ASSUME NEW n \in Names \ Hidden, n = c
        PROVE  LastingAt(n)'
    <3>1. \A d \in Disks(n)' \cup past' \cup {disk'} : d = disk
      BY Zenon, <1>4, <1>5 DEF Disks
    <3>2. /\ IsTenantDir(disk.dirs[n]) /\ LoadQuota(disk.dirs[n]) \in promise'[n].quotas
          /\ LoadIndex(disk.dirs[n]) = promise'[n].spec
      BY Zenon, <1>5, <1>7, <2>2 DEF LoadQuota, LoadIndex, IsTenantDir
    <3>3. promise'[n].pieces \subseteq {p \in Pieces : promise'[n].born \in disk.dirs[n].files[p]}
                                         \cup Rests(disk, n)
      BY Zenon, <1>7, <1>16, <2>2
    <3>4. \A d \in Disks(n)' : KeptOn(n, d)'
      BY Zenon, <3>1, <3>2, <3>3 DEF KeptOn, Keeps, Rests, LoadQuota, LoadIndex, IsTenantDir
    <3>5. \A d \in past' \cup {disk'} : Own(n, d.dirs[n])'
      BY Zenon, <1>7, <1>16, <2>2, <3>1 DEF Own
    <3> QED
      BY Zenon, <3>4, <3>5 DEF LastingAt
  <2> QED
    BY Zenon, <2>1, <2>2 DEF Lasting
<1>18. Serving'
  <2>1. ASSUME NEW n \in Names \ Hidden, n # c
        PROVE  ServingAt(n)'
    <3>1. ServingAt(n)
      BY Zenon, <1>1, <1>3 DEF Serving
    <3> QED
      BY Zenon, <1>3, <1>4, <1>7, <1>8, <1>14, <1>15, <2>1, <3>1 DEF ServingAt, Serves
  <2>2. ASSUME NEW n \in Names \ Hidden, n = c
        PROVE  ServingAt(n)'
    BY Zenon, <1>7, <1>8, <2>2 DEF ServingAt, Serves
  <2>3. Default \in DOMAIN tenants'
    BY Zenon, <1>1, <1>3, <1>8 DEF Serving
  <2> QED
    BY Zenon, <2>1, <2>2, <2>3 DEF Serving
<1> QED
  BY Zenon, <1>9, <1>10, <1>11, <1>13, <1>17, <1>18 DEF Inv

-----------------------------------------------------------------------------
(* A call begins. *)

\* All of a list is left of it.
LEMMA WholeRest ==
  ASSUME NEW steps \in Seq(Words), Len(steps) >= 1
  PROVE  Rest(steps, steps)
  BY DEF Rest

\* A call of a running store begins.
LEMMA Begins ==
  ASSUME mode' = "up",
         \/ call'.op = "create" /\ call'.todo = CreateTenantLocked
         \/ call'.op = "delete" /\ call'.todo = DeleteSteps
         \/ call'.op = "setQuota" /\ call'.todo = SetQuotaSteps
  PROVE  /\ OneCall' /\ ~Opening' /\ ~MakingDefault'
         /\ Creating' <=> call'.op = "create"
         /\ Deleting' <=> call'.op = "delete"
         /\ SettingQuota' <=> call'.op = "setQuota"
         /\ call'.op = "create" => Left' = 6
         /\ call'.op # "create" => Left' = 4
<1>1. /\ Rest(CreateTenantLocked, CreateTenantLocked) /\ Rest(DeleteSteps, DeleteSteps)
      /\ Rest(SetQuotaSteps, SetQuotaSteps)
  <2>1. Len(CreateTenantLocked) >= 1 /\ Len(DeleteSteps) >= 1 /\ Len(SetQuotaSteps) >= 1
    BY Lists
  <2> QED
    BY Zenon, <2>1, Lists, WholeRest
<1>2. /\ ~Opening' /\ ~MakingDefault'
      /\ Creating' <=> call'.op = "create"
      /\ Deleting' <=> call'.op = "delete"
      /\ SettingQuota' <=> call'.op = "setQuota"
  BY Zenon, <1>1 DEF Opening, MakingDefault, Creating, Deleting, SettingQuota
<1>3. (call'.op = "create" => Left' = 6) /\ (call'.op # "create" => Left' = 4)
  BY Zenon, Lists DEF Left
<1> QED
  BY Zenon, <1>2, <1>3 DEF OneCall

\* A call of a running store begins, and has changed no file yet.
LEMMA BeginStep ==
  ASSUME Inv, NEW c \in Calls, Begin(c), born' \in Nat, promise' \in [Names -> Promises],
         \/ c.op = "create" /\ c.todo = CreateTenantLocked
         \/ c.op = "delete" /\ c.todo = DeleteSteps
         \/ c.op = "setQuota" /\ c.todo = SetQuotaSteps,
         DefaultKept', Gone', Lasting', \A n \in Names \ Hidden : ServingAt(n)',
         Making', Leaving', Limiting'
  PROVE  Inv'
<1>1. TypeOK /\ Migrating /\ AllSound /\ Serving
  BY Zenon DEF Inv
<1>2. /\ mode = "up" /\ mode' = mode /\ call' = c /\ disk' = disk /\ past' = past /\ tenants' = tenants
  BY Zenon DEF Begin
<1>3. TypeOK'
  BY Zenon, <1>1, <1>2 DEF TypeOK
<1>4. OneCall' /\ ~Opening' /\ ~MakingDefault'
  BY Zenon, <1>2, Begins
<1>5. Migrating'
  BY Zenon, <1>1, <1>2, <1>4 DEF Migrating
<1>6. AllSound' /\ Serving' /\ AlwaysReopens'
  BY Zenon, <1>1, <1>2, SoundOn DEF Serving, AlwaysReopens
<1> QED
  BY Zenon, <1>3, <1>4, <1>5, <1>6 DEF Inv

\* CreateTenant.
LEMMA CreateTenantStep ==
  ASSUME Inv, NEW t \in Names, NEW q \in Quotas, NEW s \in Specs, CreateTenant(t, q, s)
  PROVE  Inv'
<1> DEFINE c == [NoCall EXCEPT !.op = "create", !.name = t, !.quota = q, !.spec = s,
                               !.todo = CreateTenantLocked]
           new == [Unpromised EXCEPT !.may = TRUE, !.born = born + 1]
<1>1. /\ TypeOK /\ Gone /\ Lasting /\ Serving /\ DefaultKept
  BY Zenon DEF Inv
<1>2. /\ t \notin DOMAIN tenants /\ Begin(c) /\ born' = born + 1
      /\ promise' = [promise EXCEPT ![t] = new]
  BY Zenon DEF CreateTenant
<1>3. /\ mode = "up" /\ mode' = mode /\ call = NoCall /\ call' = c
      /\ disk' = disk /\ past' = past /\ tenants' = tenants
  BY Zenon, <1>2 DEF Begin
<1>4. t # Default /\ Default \in Names /\ promise \in [Names -> Promises] /\ born \in Nat
  BY Zenon, <1>1, <1>2, <1>3, NamesAssumption DEF Serving, TypeOK
<1>5. /\ c \in Calls /\ c.op = "create" /\ c.todo = CreateTenantLocked /\ c.name = t
  <2>1. NoCall \in Calls
    BY Zenon, <1>1, CallTypes
  <2> QED
    BY Zenon, <2>1, Lists DEF Calls, Ops
<1>6. new \in Promises /\ new.may /\ ~new.must /\ new.pieces = {} /\ born' \in Nat
  <2>1. born + 1 \in Nat
    BY <1>4
  <2>2. Unpromised \in Promises /\ ~Unpromised.must /\ Unpromised.pieces = {}
    BY NoTypes DEF Unpromised
  <2> QED
    BY Zenon, <1>2, <2>1, <2>2 DEF Promises
<1>7. /\ promise' \in [Names -> Promises] /\ promise'[t] = new
      /\ \A n \in Names : n # t => promise'[n] = promise[n]
  BY <1>2, <1>4, <1>6
<1>8. /\ ~Opening /\ ~MakingDefault /\ ~Creating /\ ~Deleting /\ ~SettingQuota
  BY Zenon, <1>1, <1>3, OnePhase DEF Idle
<1>9. ~MakingDefault' /\ Creating' /\ ~Deleting' /\ ~SettingQuota' /\ Left' = 6
  BY Zenon, <1>3, <1>5, Begins
<1>10. Making'
  <2>1. ~(Left' <= 4) /\ ~(Left' <= 2) /\ ~(Left' = 1)
    BY <1>9
  <2> QED
    BY Zenon, <1>2, <1>3, <1>4, <1>5, <1>6, <1>7, <2>1 DEF Making
<1>11. Leaving' /\ Limiting'
  BY Zenon, <1>9 DEF Leaving, Limiting
<1>12. DefaultKept'
  BY Zenon, <1>1, <1>4, <1>7 DEF DefaultKept
<1>13. Gone'
  BY Zenon, <1>1, <1>3, <1>6, <1>7 DEF Gone, GoneAt
<1>14. ASSUME NEW n \in Names, n # t
       PROVE  /\ InPlace(n)' => InPlace(n)
              /\ Owed(n)' => Owed(n)
              /\ Disks(n)' \subseteq Disks(n)
  BY Zenon, <1>3, <1>7, <1>9, <1>14 DEF InPlace, Owed, Disks, Pending
<1>15. ~Owed(t)' /\ ~InPlace(t)'
  BY Zenon, <1>6, <1>7, <1>9 DEF InPlace, Owed, Pending
<1>16. Lasting'
  <2>1. ASSUME NEW n \in Names \ Hidden, n # t
        PROVE  LastingAt(n)'
    BY Zenon, <1>1, <1>3, <1>7, <1>14, <2>1, LastsStill DEF Lasting
  <2>2. LastingAt(t)'
    BY Zenon, <1>15 DEF LastingAt
  <2> QED
    BY Zenon, <2>1, <2>2 DEF Lasting
<1>17. ASSUME NEW n \in Names \ Hidden
       PROVE  ServingAt(n)'
  <2>1. ServingAt(n)
    BY Zenon, <1>1, <1>3 DEF Serving
  <2>2. CASE n # t
    BY Zenon, <1>3, <1>7, <1>8, <1>14, <2>1, <2>2 DEF ServingAt, Serves
  <2>3. CASE n = t
    BY Zenon, <1>3, <1>15, <2>1, <2>3 DEF ServingAt
  <2> QED
    BY Zenon, <2>2, <2>3
<1> QED
  BY Zenon, <1>2, <1>5, <1>6, <1>7, <1>10, <1>11, <1>12, <1>13, <1>16, <1>17, BeginStep

\* DeleteTenant: what was promised is now a matter of how far it gets.
LEMMA DeleteTenantStep ==
  ASSUME Inv, NEW t \in Names, DeleteTenant(t)
  PROVE  Inv'
<1> DEFINE c == [NoCall EXCEPT !.op = "delete", !.name = t, !.must = promise[t].must,
                               !.todo = DeleteSteps]
<1>1. /\ TypeOK /\ Gone /\ Lasting /\ Serving /\ DefaultKept
  BY Zenon DEF Inv
<1>2. /\ t \in DOMAIN tenants /\ t # Default /\ Begin(c) /\ born' = born
      /\ promise' = [promise EXCEPT ![t].must = FALSE]
  BY Zenon DEF DeleteTenant
<1>3. /\ mode = "up" /\ mode' = mode /\ call = NoCall /\ call' = c
      /\ disk' = disk /\ past' = past /\ tenants' = tenants
  BY Zenon, <1>2 DEF Begin
<1>4. Default \in Names /\ promise \in [Names -> Promises] /\ born' \in Nat /\ promise[t].may
  BY Zenon, <1>1, <1>2, NamesAssumption DEF TypeOK, Gone, GoneAt
<1>5. /\ c \in Calls /\ c.op = "delete" /\ c.todo = DeleteSteps /\ c.name = t
      /\ c.must = promise[t].must
  <2>1. NoCall \in Calls /\ promise[t] \in Promises
    BY Zenon, <1>1, <1>4, CallTypes
  <2>2. promise[t].must \in BOOLEAN
    BY <2>1 DEF Promises
  <2> QED
    BY Zenon, <2>1, <2>2, Lists DEF Calls, Ops
<1>6. promise' \in [Names -> Promises]
  BY ZenonT(60), <1>2, <1>4 DEF Promises
<1>7. /\ \A n \in Names :
           /\ promise'[n].may = promise[n].may /\ promise'[n].quotas = promise[n].quotas
           /\ promise'[n].undone = promise[n].undone /\ promise'[n].spec = promise[n].spec
           /\ promise'[n].pieces = promise[n].pieces /\ promise'[n].born = promise[n].born
           /\ n # t => promise'[n].must = promise[n].must
      /\ ~promise'[t].must
  BY Zenon, <1>2, <1>4, <1>6 DEF Promises
<1>8. /\ ~Opening /\ ~MakingDefault /\ ~Creating /\ ~Deleting /\ ~SettingQuota
  BY Zenon, <1>1, <1>3, OnePhase DEF Idle
<1>9. ~MakingDefault' /\ ~Creating' /\ Deleting' /\ ~SettingQuota' /\ Left' = 4
  BY Zenon, <1>3, <1>5, Begins
<1>10. Making' /\ Limiting'
  BY Zenon, <1>9 DEF Making, Limiting
<1>11. Leaving'
  <2>1. ~(Left' <= 3) /\ ~(Left' = 3) /\ ~(Left' = 2)
    BY <1>9
  <2>2. call'.name = t
    BY Zenon, <1>3, <1>5
  <2> HIDE DEF c
  <2> QED
    BY ZenonT(60), <1>2, <1>3, <1>4, <1>7, <2>1, <2>2 DEF Leaving
<1>12. DefaultKept'
  BY <1>1, <1>2, <1>4, <1>7 DEF DefaultKept
<1>13. Gone'
  BY Zenon, <1>1, <1>3, <1>7 DEF Gone, GoneAt
<1>14. ASSUME NEW n \in Names
       PROVE  /\ InPlace(n)' => InPlace(n)
              /\ Owed(n)' => Owed(n)
              /\ Disks(n)' \subseteq Disks(n)
  BY Zenon, <1>3, <1>5, <1>7 DEF InPlace, Owed, Disks, Pending
<1>15. Lasting'
  <2>1. ASSUME NEW n \in Names \ Hidden
        PROVE  LastingAt(n)'
    BY Zenon, <1>1, <1>3, <1>7, <1>14, LastsStill DEF Lasting
  <2> QED
    BY Zenon, <2>1 DEF Lasting
<1>16. ASSUME NEW n \in Names \ Hidden
       PROVE  ServingAt(n)'
  <2>1. ServingAt(n)
    BY Zenon, <1>1, <1>3 DEF Serving
  <2> QED
    BY Zenon, <1>3, <1>7, <1>8, <1>14, <2>1 DEF ServingAt, Serves
<1> QED
  BY Zenon, <1>2, <1>4, <1>5, <1>6, <1>10, <1>11, <1>12, <1>13, <1>15, <1>16, BeginStep

\* SetQuota.
LEMMA SetQuotaStep ==
  ASSUME Inv, NEW t \in Names, NEW q \in Quotas, SetQuota(t, q)
  PROVE  Inv'
<1> DEFINE c == [NoCall EXCEPT !.op = "setQuota", !.name = t, !.quota = q, !.todo = SetQuotaSteps]
<1>1. /\ TypeOK /\ Gone /\ Lasting /\ Serving /\ DefaultKept
  BY Zenon DEF Inv
<1>2. /\ t \in DOMAIN tenants /\ Begin(c) /\ born' = born /\ promise' = promise
  BY Zenon DEF SetQuota, history
<1>3. /\ mode = "up" /\ mode' = mode /\ call = NoCall /\ call' = c
      /\ disk' = disk /\ past' = past /\ tenants' = tenants
  BY Zenon, <1>2 DEF Begin
<1>4. promise' \in [Names -> Promises] /\ born' \in Nat
  BY Zenon, <1>1, <1>2 DEF TypeOK
<1>5. /\ c \in Calls /\ c.op = "setQuota" /\ c.todo = SetQuotaSteps /\ c.name = t
  <2>1. NoCall \in Calls
    BY Zenon, <1>1, CallTypes
  <2> QED
    BY Zenon, <2>1, Lists DEF Calls, Ops
<1>6. /\ ~Opening /\ ~MakingDefault /\ ~Creating /\ ~Deleting /\ ~SettingQuota
  BY Zenon, <1>1, <1>3, OnePhase DEF Idle
<1>7. ~MakingDefault' /\ ~Creating' /\ ~Deleting' /\ SettingQuota' /\ Left' = 4
  BY Zenon, <1>3, <1>5, Begins
<1>8. Making' /\ Leaving'
  BY Zenon, <1>7 DEF Making, Leaving
<1>9. Limiting'
  <2>1. ~(Left' <= 3) /\ ~(Left' <= 2) /\ ~(Left' = 1)
    BY <1>7
  <2> QED
    BY Zenon, <1>2, <1>3, <1>5, <2>1 DEF Limiting
<1>10. DefaultKept' /\ Gone'
  BY Zenon, <1>1, <1>2, <1>3 DEF DefaultKept, Gone, GoneAt
<1>11. ASSUME NEW n \in Names
       PROVE  /\ InPlace(n)' => InPlace(n)
              /\ Owed(n)' => Owed(n)
              /\ Disks(n)' \subseteq Disks(n)
  BY Zenon, <1>2, <1>3, <1>7 DEF InPlace, Owed, Disks, Pending
<1>12. Lasting'
  <2>1. ASSUME NEW n \in Names \ Hidden
        PROVE  LastingAt(n)'
    BY Zenon, <1>1, <1>2, <1>3, <1>11, LastsStill DEF Lasting
  <2> QED
    BY Zenon, <2>1 DEF Lasting
<1>13. ASSUME NEW n \in Names \ Hidden
       PROVE  ServingAt(n)'
  <2>1. ServingAt(n)
    BY Zenon, <1>1, <1>3 DEF Serving
  <2> QED
    BY Zenon, <1>2, <1>3, <1>6, <1>11, <2>1 DEF ServingAt, Serves
<1> QED
  BY Zenon, <1>2, <1>4, <1>5, <1>8, <1>9, <1>10, <1>12, <1>13, BeginStep

-----------------------------------------------------------------------------
(* OpenStore. *)

\* OpenStore refuses the root, or starts on it.
LEMMA OpenStoreStep ==
  ASSUME Inv, OpenStore
  PROVE  Inv'
<1> DEFINE partial == ~Finished /\ IsTenantDir(disk.dirs[Default])
           todo == (IF LegacyExists \/ partial THEN Migrate ELSE <<>>) \o <<"scan">>
<1>1. /\ TypeOK /\ OneCall /\ AllSound /\ Gone /\ Lasting /\ DefaultKept
  BY Zenon DEF Inv
<1>2. /\ mode = "down" /\ disk' = disk /\ past' = past /\ tenants' = tenants
      /\ promise' = promise /\ born' = born
      /\ \/ LegacyExists /\ Finished /\ mode' = "refused" /\ call' = call
         \/ /\ ~(LegacyExists /\ Finished) /\ mode' = "opening"
            /\ call' = [NoCall EXCEPT !.op = "open", !.todo = todo]
  BY Zenon DEF OpenStore, history
<1>3. Idle /\ DOMAIN tenants = {}
  BY Zenon, <1>1, <1>2 DEF OneCall, Opening, MakingDefault, Creating, Deleting, SettingQuota
<1>4. CASE LegacyExists /\ Finished /\ mode' = "refused" /\ call' = call
  <2>1. disk.legacy = {}
    BY Zenon, <1>1, <1>4 DEF AllSound, Sound, Finished
  <2>2. PICK n \in LegacyNames : disk.dirs[n].there
    BY Zenon, <1>4, <2>1 DEF LegacyExists
  <2>3. promise'[n].may
    BY Zenon, <1>1, <1>2, <2>2, NamesAssumption DEF Gone, GoneAt
  <2>4. AlwaysReopens' /\ mode' \in Modes /\ mode' # "opening" /\ mode' # "up"
    BY Zenon, <1>4, <2>3 DEF AlwaysReopens, Modes
  <2> QED
    BY Zenon, <1>2, <1>3, <1>4, <2>4, Over DEF Idle
<1>5. CASE /\ ~(LegacyExists /\ Finished) /\ mode' = "opening"
           /\ call' = [NoCall EXCEPT !.op = "open", !.todo = todo]
  <2>1. \/ (LegacyExists \/ partial) /\ todo = OpenSteps /\ todo \in Seq(Words) /\ Len(todo) = 10
        \/ ~LegacyExists /\ todo = <<"scan">> /\ todo \in Seq(Words) /\ Len(todo) = 1
    <3>1. CASE LegacyExists \/ partial
      BY Zenon, <3>1, Lists DEF OpenSteps
    <3>2. CASE ~(LegacyExists \/ partial)
      <4>1. todo = <<>> \o <<"scan">>
        BY Zenon, <3>2
      <4>2. <<>> \o <<"scan">> = <<"scan">> /\ <<"scan">> \in Seq(Words) /\ Len(<<"scan">>) = 1
        BY DEF Words
      <4> QED
        BY Zenon, <3>2, <4>1, <4>2
    <3> QED
      BY Zenon, <3>1, <3>2
  <2>2. Rest(todo, OpenSteps)
    <3>1. Rest(OpenSteps, OpenSteps)
      BY SMTT(60), Lists, WholeRest
    <3>2. ASSUME NEW s \in Seq(Words), s = <<"scan">>
          PROVE  Rest(s, OpenSteps)
      <4>1. OpenSteps[10] = "scan" /\ s[1] = "scan" /\ Len(s) = 1
        BY <3>2 DEF OpenSteps, Migrate
      <4>2. Len(OpenSteps) = 10
        BY Zenon, Lists
      <4> QED
        BY <4>1, <4>2 DEF Rest
    <3> QED
      BY Zenon, <2>1, <3>1, <3>2
  <2>3. PICK steps \in Seq(Words) : steps = todo
    BY Zenon, <2>1
  <2>4. call' = [NoCall EXCEPT !.op = "open", !.todo = steps]
    BY Zenon, <1>5, <2>3
  <2>5. /\ call' \in Calls /\ call'.op = "open" /\ call'.name = Default /\ call'.quota = Unlimited
        /\ call'.spec = StoreSpec /\ call'.todo = steps
    <3>1. /\ NoCall \in Calls /\ NoCall.name = Default /\ NoCall.quota = Unlimited
          /\ NoCall.spec = StoreSpec
      BY <1>1, CallTypes DEF NoCall
    <3> QED
      BY Zenon, <2>4, <3>1 DEF Calls, Ops
  <2>6. TypeOK'
    BY Zenon, <1>1, <1>2, <1>5, <2>5 DEF TypeOK, Modes
  <2>7. Opening' /\ ~Creating' /\ ~Deleting' /\ ~SettingQuota'
    BY Zenon, <2>2, <2>3, <2>5 DEF Opening, Creating, Deleting, SettingQuota
  <2>8. ~MakingDefault'
    <3>1. TypeOK' => ~(Opening' /\ MakingDefault')
      BY Apart, PTL
    <3> QED
      BY Zenon, <2>6, <2>7, <3>1
  <2>9. OneCall'
    BY Zenon, <1>2, <1>3, <1>5, <2>5, <2>7 DEF OneCall
  <2>10. /\ Dir' = disk.dirs[Default]
         /\ \/ Left' = 10 /\ Dir'.quota = None
            \/ Left' = 1 /\ disk.legacy = {}
    <3>1. Dir' = disk.dirs[Default]
      BY Zenon, <1>2, <2>5 DEF Dir
    <3> QED
      BY Zenon, <1>5, <2>1, <2>3, <2>5, <3>1 DEF Left, Finished, LegacyExists
  <2>11. Migrating'
    BY <1>2, <1>5, <2>8, <2>10 DEF Migrating
  <2>12. Making' /\ Leaving' /\ Limiting'
    BY Zenon, <2>7, <2>8 DEF Making, Leaving, Limiting
  <2>13. AllSound' /\ DefaultKept' /\ AlwaysReopens' /\ Gone' /\ Serving'
    <3>1. mode' # "refused" /\ mode' # "up"
      BY Zenon, <1>5
    <3> QED
      BY Zenon, <1>1, <1>2, <2>8, <3>1, SoundOn DEF DefaultKept, AlwaysReopens, Gone, GoneAt, Serving
  <2>14. ASSUME NEW n \in Names
         PROVE  /\ InPlace(n)' => InPlace(n)
                /\ Owed(n)' => Owed(n)
                /\ Disks(n)' \subseteq Disks(n)
    BY Zenon, <1>2, <2>7 DEF InPlace, Owed, Disks, Pending
  <2>15. Lasting'
    <3>1. ASSUME NEW n \in Names \ Hidden
          PROVE  LastingAt(n)'
      BY Zenon, <1>1, <1>2, <2>14, LastsStill DEF Lasting
    <3> QED
      BY Zenon, <3>1 DEF Lasting
  <2> QED
    BY Zenon, <2>6, <2>9, <2>11, <2>12, <2>13, <2>15 DEF Inv
<1> QED
  BY Zenon, <1>2, <1>4, <1>5

\* A data file has moved, or was not there.
LEMMA Moves ==
  ASSUME Inv, NEW p \in Pieces, Move(p), Opening
  PROVE  /\ Done
         /\ disk' \in Trees /\ past' \subseteq past \cup {disk} /\ disk'.legacy = disk.legacy \ {p}
         /\ \A n \in Names :
              /\ n # Default => disk'.dirs[n] = disk.dirs[n]
              /\ disk'.dirs[n].there = disk.dirs[n].there /\ disk'.dirs[n].quota = disk.dirs[n].quota
              /\ disk'.dirs[n].index = disk.dirs[n].index
         /\ \A r \in Pieces : disk'.dirs[Default].files[r] =
                                IF r = p /\ p \in disk.legacy THEN {1} ELSE disk.dirs[Default].files[r]
         /\ mode' = mode /\ tenants' = tenants /\ promise' = promise /\ born' = born
<1> DEFINE moved == [dirs |-> [disk.dirs EXCEPT ![Default].files[p] = {1}],
                     legacy |-> disk.legacy \ {p}]
<1>1. TypeOK /\ OneCall /\ AllSound
  BY Zenon DEF Inv
<1>2. call.name = Default /\ Default \in Names /\ disk \in Trees /\ Dir = disk.dirs[Default]
  BY Zenon, <1>1, NamesAssumption DEF OneCall, Opening, TypeOK, Dir
<1>3. p \in disk.legacy => Dir.files[p] = {}
  BY Zenon, <1>1, <1>2 DEF AllSound, Sound
<1>4. /\ tenants' = tenants /\ promise' = promise /\ born' = born
      /\ \/ p \notin disk.legacy /\ Done /\ disk' = disk /\ past' = past /\ mode' = mode
         \/ p \in disk.legacy /\ Done /\ disk' = moved /\ past' = past \cup {disk} /\ mode' = mode
  BY Zenon, <1>3 DEF Move, Change, history
<1>5. CASE p \notin disk.legacy
  <2>1. disk.legacy = disk.legacy \ {p}
    BY Zenon, <1>5
  <2> QED
    BY Zenon, <1>2, <1>4, <1>5, <2>1
<1>6. CASE p \in disk.legacy
  <2>1. disk.dirs \in [Names -> Dirs] /\ disk.legacy \subseteq Pieces
    BY Zenon, <1>2, DirTypes
  <2>2. PICK dirs : dirs = [disk.dirs EXCEPT ![Default].files[p] = {1}]
    BY Zenon
  <2>3. /\ dirs \in [Names -> Dirs]
        /\ \A n \in Names :
              /\ n # Default => dirs[n] = disk.dirs[n]
              /\ dirs[n].there = disk.dirs[n].there /\ dirs[n].quota = disk.dirs[n].quota
              /\ dirs[n].index = disk.dirs[n].index
        /\ \A r \in Pieces : dirs[Default].files[r] =
                               IF r = p THEN {1} ELSE disk.dirs[Default].files[r]
    <3>1. PICK old \in Dirs : old = disk.dirs[Default]
      BY Zenon, <1>2, <2>1
    <3>2. PICK files : files = [old.files EXCEPT ![p] = {1}]
      BY Zenon
    <3>3. /\ files \in [Pieces -> SUBSET Nat]
          /\ \A r \in Pieces : files[r] = IF r = p THEN {1} ELSE old.files[r]
      BY <3>1, <3>2 DEF Dirs
    <3>4. PICK new : new = [old EXCEPT !.files = files]
      BY Zenon
    <3>5. /\ new \in Dirs /\ new.files = files /\ new.there = old.there /\ new.quota = old.quota
          /\ new.index = old.index
      BY <3>3, <3>4 DEF Dirs
    <3>6. dirs = [disk.dirs EXCEPT ![Default] = new]
      BY <2>2, <3>1, <3>2, <3>4
    <3> QED
      BY Zenon, <1>2, <2>1, <3>1, <3>3, <3>5, <3>6
  <2>4. disk' = [dirs |-> dirs, legacy |-> disk.legacy \ {p}]
    BY Zenon, <1>4, <1>6, <2>2
  <2>5. disk'.dirs = dirs /\ disk'.legacy = disk.legacy \ {p} /\ disk' \in Trees
    BY <2>1, <2>3, <2>4 DEF Trees
  <2> QED
    BY Zenon, <1>4, <1>6, <2>3, <2>5
<1> QED
  BY Zenon, <1>5, <1>6

\* The migration moves a data file.
LEMMA MoveStep ==
  ASSUME Inv, NEW p \in Pieces, Move(p)
  PROVE  Inv'
<1>1. /\ TypeOK /\ OneCall /\ Migrating /\ AllSound /\ Gone /\ Lasting /\ DefaultKept
      /\ Default \in Names
  BY Zenon, NamesAssumption DEF Inv
<1>2. /\ Opening
      /\ \/ p = "snapshot" /\ Left = 9
         \/ p = "metadata" /\ Left = 8
         \/ p = "wal" /\ Left = 7
  BY Zenon, <1>1, Where DEF Move, Pieces
<1>3. /\ ~MakingDefault /\ ~Creating /\ ~Deleting /\ ~SettingQuota /\ Left > 1
      /\ mode = "opening" /\ call.name = Default
  <2>1. Left > 1
    BY <1>2
  <2> QED
    BY Zenon, <1>1, <1>2, <2>1, OnePhase DEF OneCall, Opening
<1>4. /\ call.todo # <<>> /\ call' = [call EXCEPT !.todo = Tail(@)]
      /\ disk' \in Trees /\ past' \subseteq past \cup {disk} /\ disk'.legacy = disk.legacy \ {p}
      /\ \A n \in Names :
           /\ n # Default => disk'.dirs[n] = disk.dirs[n]
           /\ disk'.dirs[n].there = disk.dirs[n].there /\ disk'.dirs[n].quota = disk.dirs[n].quota
           /\ disk'.dirs[n].index = disk.dirs[n].index
      /\ \A r \in Pieces : disk'.dirs[Default].files[r] =
                             IF r = p /\ p \in disk.legacy THEN {1} ELSE disk.dirs[Default].files[r]
      /\ mode' = mode /\ tenants' = tenants /\ promise' = promise /\ born' = born
  <2>1. call.todo # <<>>
    BY Zenon DEF Move, Do
  <2> QED
    BY Zenon, <1>2, <2>1, Moves DEF Done
<1>5. /\ TypeOK' /\ call'.op = call.op /\ call'.name = call.name /\ call'.quota = call.quota
      /\ call'.spec = call.spec /\ call'.todo = Tail(call.todo)
  <2>1. past' \subseteq Trees
    BY Zenon, <1>1, <1>4 DEF TypeOK
  <2> QED
    BY <1>1, <1>4, <2>1, CallTypes DEF TypeOK, Calls
<1>6. Left' = Left - 1 /\ Opening' /\ ~MakingDefault' /\ ~Creating' /\ ~Deleting' /\ ~SettingQuota'
  BY Zenon, <1>1, <1>2, <1>3, <1>5, GoesOn
<1>7. OneCall'
  BY Zenon, <1>1, <1>3, <1>4, <1>5, OneCallGoesOn DEF OneCall
<1>8. disk.dirs[Default].there /\ disk.dirs[Default].quota = None
  <2>1. Left \in 2..9 /\ Left >= 4
    BY <1>2
  <2> QED
    BY Zenon, <1>1, <1>2, <1>3, <2>1 DEF Migrating, Dir
<1>9. Migrating'
  <2>1. Dir'.there /\ Dir'.quota = None
    BY ZenonT(60), <1>1, <1>3, <1>4, <1>5, <1>8 DEF Dir
  <2> QED
    BY <1>1, <1>2, <1>3, <1>4, <1>6, <2>1 DEF Migrating
<1>10. Making' /\ Leaving' /\ Limiting'
  BY Zenon, <1>6 DEF Making, Leaving, Limiting
<1>11. AllSound'
  <2>1. Sound(disk)
    BY Zenon, <1>1 DEF AllSound
  <2>2. ASSUME NEW n \in Names
        PROVE  SoundDir(n, disk'.dirs[n])
    <3>1. CASE n = Default
      BY Zenon, <1>4, <1>8, <3>1 DEF SoundDir
    <3>2. CASE n # Default
      <4>1. disk'.dirs[n] = disk.dirs[n]
        BY Zenon, <1>4, <3>2
      <4> QED
        BY Zenon, <2>1, <4>1 DEF Sound
    <3> QED
      BY Zenon, <3>1, <3>2
  <2>3. \A r \in disk'.legacy : disk'.dirs[Default].quota = None /\ disk'.dirs[Default].files[r] = {}
    <3>1. disk.legacy \subseteq Pieces
      BY Zenon, <1>1, DirTypes DEF TypeOK
    <3> QED
      BY Zenon, <1>1, <1>4, <1>8, <2>1, <3>1 DEF Sound
  <2>4. disk'.dirs[Default].quota = None => LoadIndex(disk'.dirs[Default]) = StoreSpec
    BY Zenon, <1>1, <1>4, <2>1 DEF Sound, LoadIndex
  <2>5. Sound(disk')
    BY Zenon, <2>2, <2>3, <2>4 DEF Sound
  <2> QED
    BY Zenon, <1>1, <1>4, <2>5, SoundMore
<1>12. DefaultKept' /\ AlwaysReopens' /\ Serving'
  <2>1. mode' # "refused" /\ mode' # "up"
    BY Zenon, <1>3, <1>4
  <2> QED
    BY Zenon, <1>1, <1>4, <1>6, <2>1 DEF DefaultKept, AlwaysReopens, Serving
<1>13. Gone'
  <2>1. ASSUME NEW n \in Names, n # Default
        PROVE  GoneAt(n)'
    <3>1. \A d \in past' \cup {disk'} : \E e \in past \cup {disk} : d.dirs[n] = e.dirs[n]
      BY ZenonT(60), <1>4, <2>1
    <3> QED
      BY Zenon, <1>1, <1>4, <3>1, GoneOn DEF Gone
  <2> QED
    BY Zenon, <1>1, <1>4, <2>1 DEF Gone, GoneAt, DefaultKept
<1>14. ASSUME NEW n \in Names
       PROVE  /\ InPlace(n)' => InPlace(n)
              /\ Owed(n)' => Owed(n)
  BY Zenon, <1>4, <1>6 DEF InPlace, Owed, Pending
<1>15. Lasting'
  <2>1. ASSUME NEW n \in Names \ Hidden, n # Default
        PROVE  LastingAt(n)'
    <3>1. disk'.dirs[n] = disk.dirs[n] /\ Rests(disk', n) = Rests(disk, n)
      BY Zenon, <1>4, <2>1 DEF Rests
    <3>2. Alike(n, disk'.dirs[n], disk.dirs[n])
      BY Zenon, <3>1 DEF Alike
    <3>3. /\ \A d \in Disks(n)' : \E e \in Disks(n) : Alike(n, d.dirs[n], e.dirs[n]) /\ Rests(d, n) = Rests(e, n)
          /\ \A d \in past' \cup {disk'} : \E e \in past \cup {disk} : Alike(n, d.dirs[n], e.dirs[n])
      BY Zenon, <1>4, <3>1, <3>2, SameDisks
    <3> QED
      BY Zenon, <1>1, <1>4, <1>14, <3>3, LastsOn DEF Lasting
  <2>2. ASSUME Default \notin Hidden
        PROVE  LastingAt(Default)'
    <3>1. InPlace(Default) /\ Owed(Default) /\ disk \in Disks(Default) /\ promise[Default].born = 1
      BY Zenon, <1>1 DEF InPlace, Owed, Disks, DefaultKept
    <3>2. KeptOn(Default, disk) /\ Own(Default, disk.dirs[Default])
      BY Zenon, <1>1, <2>2, <3>1 DEF Lasting, LastingAt
    <3>3. Own(Default, disk.dirs[Default])'
      BY Zenon, <1>4, <3>1, <3>2 DEF Own
    <3>4. /\ LoadQuota(disk'.dirs[Default]) \in promise'[Default].quotas
          /\ LoadIndex(disk'.dirs[Default]) = promise'[Default].spec
      BY Zenon, <1>1, <1>4, <3>2 DEF KeptOn, Keeps, LoadQuota, LoadIndex
    <3>5. promise[Default].pieces \subseteq
            {r \in Pieces : promise[Default].born \in disk'.dirs[Default].files[r]} \cup disk'.legacy
      <4>1. promise[Default].pieces \subseteq
              {r \in Pieces : promise[Default].born \in disk.dirs[Default].files[r]} \cup disk.legacy
        BY Zenon, <3>2 DEF KeptOn, Keeps, Rests
      <4> QED
        BY <1>4, <3>1, <4>1
    <3>6. KeptOn(Default, disk)'
      BY Zenon, <1>4, <3>4, <3>5 DEF KeptOn, Keeps, Rests, LoadQuota, LoadIndex, IsTenantDir
    <3> QED
      BY Zenon, <1>1, <1>4, <2>2, <3>1, <3>3, <3>6, LastsMore DEF Lasting
  <2> QED
    BY Zenon, <2>1, <2>2 DEF Lasting
<1> QED
  BY Zenon, <1>5, <1>7, <1>9, <1>10, <1>11, <1>12, <1>13, <1>15 DEF Inv

\* What a restart reads off a sound disk.
LEMMA Scans ==
  ASSUME TypeOK, AllSound, NEW n \in Names
  PROVE  /\ LoadQuota(disk.dirs[n]) \in Quotas /\ LoadIndex(disk.dirs[n]) \in Specs
         /\ IsTenantDir(disk.dirs[n]) => disk.dirs[n].there
         /\ ~IsTenantDir(disk.dirs[n]) => disk.dirs[n].quota = None
         /\ ~IsTenantDir(disk.dirs[n]) /\ n # Default => disk.dirs[n].files = NoFiles
<1>1. disk.dirs[n] \in Dirs
  BY Zenon, DirTypes DEF TypeOK
<1>2. /\ disk.dirs[n].index \in Specs \cup {None} /\ disk.dirs[n].quota \in Quotas \cup {None}
  BY Zenon, <1>1, DirTypes
<1>3. SoundDir(n, disk.dirs[n])
  BY Zenon DEF AllSound, Sound
<1>4. ~IsTenantDir(NoDir)
  BY Zenon, DirTypes DEF IsTenantDir, Pieces
<1> QED
  BY Zenon, <1>2, <1>3, <1>4, NamesAssumption DEF LoadQuota, LoadIndex, IsTenantDir, SoundDir

\* OpenStore reads the directories.
LEMMA ScanStep ==
  ASSUME Inv, Scan
  PROVE  Inv'
<1> DEFINE found == {n \in Names \ Hidden : disk.dirs[n].there /\ IsTenantDir(disk.dirs[n])}
<1>1. /\ TypeOK /\ OneCall /\ Migrating /\ AllSound /\ Gone /\ Lasting /\ DefaultKept
      /\ Default \in Names /\ Default \notin Hidden
  BY Zenon, NamesAssumption DEF Inv
<1>2. Opening /\ Left = 1
  BY Zenon, <1>1, Where DEF Scan
<1>3. /\ tenants' = [n \in found |-> [quota |-> LoadQuota(disk.dirs[n]), spec |-> LoadIndex(disk.dirs[n])]]
      /\ \/ Default \in found /\ mode' = "up" /\ call' = NoCall
         \/ Default \notin found /\ call' = [call EXCEPT !.todo = CreateTenantLocked] /\ mode' = mode
      /\ disk' = disk /\ past' = past /\ promise' = promise /\ born' = born
  BY Zenon DEF Scan, Return, history
<1>4. disk.legacy = {}
  <2>1. disk.legacy \subseteq Pieces
    BY Zenon, <1>1, DirTypes DEF TypeOK
  <2>2. Left <= 8 /\ Left <= 7 /\ Left <= 6
    BY <1>2
  <2>3. \A p \in Pieces : p \notin disk.legacy
    BY Zenon, <1>1, <1>2, <2>2 DEF Migrating, Pieces
  <2> QED
    BY Zenon, <2>1, <2>3
<1>5. mode = "opening" /\ call.op = "open" /\ call.name = Default /\ call.quota = Unlimited
      /\ call.spec = StoreSpec
  BY Zenon, <1>1, <1>2 DEF OneCall, Opening
<1>6. /\ DOMAIN tenants' = found /\ tenants' \in [found -> Entries] /\ found \subseteq Names
      /\ \A n \in found : /\ tenants'[n].quota = LoadQuota(disk.dirs[n])
                          /\ tenants'[n].spec = LoadIndex(disk.dirs[n])
  <2>1. \A n \in found : [quota |-> LoadQuota(disk.dirs[n]), spec |-> LoadIndex(disk.dirs[n])] \in Entries
    <3>1. \A n \in found : LoadQuota(disk.dirs[n]) \in Quotas /\ LoadIndex(disk.dirs[n]) \in Specs
      BY Zenon, <1>1, Scans
    <3> HIDE DEF found
    <3> QED
      BY <3>1 DEF Entries
  <2>2. found \subseteq Names
    BY Zenon
  <2> HIDE DEF found
  <2> QED
    BY <1>3, <2>1, <2>2
<1>7. \/ /\ Default \in found /\ mode' = "up" /\ call' = NoCall /\ call' \in Calls
         /\ ~MakingDefault' /\ OneCall' /\ Migrating' /\ Making' /\ Leaving' /\ Limiting'
      \/ /\ MakingDefault' /\ mode' = "opening" /\ call' \in Calls
         /\ OneCall' /\ Making' /\ Leaving' /\ Limiting'
  <2>1. CASE Default \in found /\ mode' = "up" /\ call' = NoCall
    <3>1. mode' # "opening" /\ mode' # "down" /\ disk'.legacy = {}
      BY Zenon, <1>3, <1>4, <2>1
    <3>2. call' \in Calls
      BY Zenon, <1>1, <2>1, CallTypes
    <3> HIDE DEF found
    <3> QED
      BY Zenon, <2>1, <3>1, <3>2, Returns, OneCallReturns, StagesReturn
  <2>2. CASE call' = [call EXCEPT !.todo = CreateTenantLocked] /\ mode' = mode
    <3>1. /\ call' \in Calls /\ call'.op = "open" /\ call'.name = Default /\ call'.quota = Unlimited
          /\ call'.spec = StoreSpec /\ call'.todo = CreateTenantLocked
      BY Zenon, <1>1, <1>5, <2>2, Lists DEF TypeOK, Calls
    <3>2. Rest(CreateTenantLocked, CreateTenantLocked)
      <4>1. Len(CreateTenantLocked) >= 1
        BY Lists
      <4> QED
        BY Zenon, <4>1, Lists, WholeRest
    <3>3. MakingDefault' /\ ~Creating' /\ ~Deleting' /\ ~SettingQuota'
      BY Zenon, <3>1, <3>2 DEF MakingDefault, Creating, Deleting, SettingQuota
    <3>4. Left' = 6
      BY Zenon, <3>1, Lists DEF Left
    <3>5. Making'
      BY <3>3, <3>4 DEF Making
    <3>6. Leaving' /\ Limiting'
      BY Zenon, <3>3 DEF Leaving, Limiting
    <3>7. OneCall'
      BY Zenon, <1>5, <2>2, <3>1, <3>3 DEF OneCall
    <3> QED
      BY Zenon, <1>5, <2>2, <3>1, <3>3, <3>5, <3>6, <3>7
  <2> QED
    BY Zenon, <1>3, <2>1, <2>2
<1>8. TypeOK'
  BY Zenon, <1>1, <1>3, <1>6, <1>7 DEF TypeOK, Modes
<1>9. Migrating'
  <2>1. CASE MakingDefault' /\ mode' = "opening"
    <3>1. TypeOK' => ~(Opening' /\ MakingDefault')
      BY Apart, PTL
    <3>2. ~Opening'
      BY Zenon, <1>8, <2>1, <3>1
    <3>3. ASSUME Default \notin found
          PROVE  disk.dirs[Default].quota = None
      BY Zenon, <1>1, <3>3, Scans
    <3>4. Default \notin found /\ call'.name = Default
      <4>1. Default \notin found /\ call' = [call EXCEPT !.todo = CreateTenantLocked]
        BY Zenon, <1>3, <2>1
      <4> HIDE DEF found
      <4> QED
        BY <1>1, <1>5, <4>1 DEF TypeOK, Calls
    <3>5. Dir'.quota = None /\ disk'.legacy = {}
      BY Zenon, <1>3, <1>4, <3>3, <3>4 DEF Dir
    <3> QED
      BY Zenon, <3>2, <3>5 DEF Migrating
  <2> QED
    BY Zenon, <1>7, <2>1
<1>10. ~Deleting'
  BY Zenon, <1>3, <1>5, <1>7, Returns DEF OneCall, Deleting, MakingDefault
<1>11. AllSound' /\ DefaultKept' /\ AlwaysReopens'
  <2>1. mode' # "refused"
    BY Zenon, <1>7
  <2> QED
    BY Zenon, <1>1, <1>3, <2>1, SoundOn DEF DefaultKept, AlwaysReopens
<1>12. Gone'
  <2>1. ASSUME NEW n \in Names
        PROVE  GoneAt(n)'
    BY Zenon, <1>1, <1>3, <1>6 DEF Gone, GoneAt
  <2> QED
    BY Zenon, <2>1 DEF Gone
<1>13. ASSUME NEW n \in Names
       PROVE  /\ InPlace(n)' => InPlace(n)
              /\ Owed(n)' <=> promise[n].must
              /\ Owed(n)' => Owed(n)
              /\ Disks(n)' \subseteq Disks(n)
  BY Zenon, <1>3, <1>10 DEF InPlace, Owed, Disks, Pending
<1>14. Lasting'
  <2>1. ASSUME NEW n \in Names \ Hidden
        PROVE  LastingAt(n)'
    BY Zenon, <1>1, <1>3, <1>13, LastsStill DEF Lasting
  <2> QED
    BY Zenon, <2>1 DEF Lasting
<1>15. Serving'
  <2>1. ASSUME NEW n \in Names \ Hidden
        PROVE  ServingAt(n)'
    <3>1. n \notin found /\ n # Default => disk.dirs[n].files = NoFiles
      BY Zenon, <1>1, Scans
    <3>2. ASSUME promise[n].must
          PROVE  /\ LoadQuota(disk.dirs[n]) \in promise[n].quotas /\ LoadIndex(disk.dirs[n]) = promise[n].spec
                 /\ n # Default => n \in found
      <4>1. KeptOn(n, disk)
        BY Zenon, <1>1, <3>2 DEF Lasting, LastingAt, InPlace, Disks
      <4>2. /\ LoadQuota(disk.dirs[n]) \in promise[n].quotas /\ LoadIndex(disk.dirs[n]) = promise[n].spec
            /\ n # Default => IsTenantDir(disk.dirs[n])
        BY Zenon, <4>1 DEF KeptOn, Keeps
      <4> QED
        BY Zenon, <1>1, <4>2, Scans
    <3>3. promise[n].must => Serves(n)' \/ (MakingDefault' /\ n = Default)
      <4> HIDE DEF found
      <4> QED
        BY Zenon, <1>3, <1>6, <1>7, <3>2 DEF Serves
    <3> HIDE DEF found
    <3> QED
      BY Zenon, <1>3, <1>6, <1>13, <3>1, <3>3 DEF ServingAt
  <2>2. mode' = "up" => Default \in DOMAIN tenants'
    <3> HIDE DEF found
    <3> QED
      BY Zenon, <1>6, <1>7
  <2> QED
    BY Zenon, <2>1, <2>2 DEF Serving
<1> QED
  BY Zenon, <1>7, <1>8, <1>9, <1>11, <1>12, <1>14, <1>15 DEF Inv

-----------------------------------------------------------------------------
(* A write, and failures. *)

\* An acknowledged write: its record is in the log, and everything is synced.
LEMMA WriteVectorStep ==
  ASSUME Inv, NEW t \in Names, WriteVector(t)
  PROVE  Inv'
<1> DEFINE dir == [disk.dirs[t] EXCEPT !.there = TRUE, !.files["wal"] = @ \cup {promise[t].born}]
<1>1. /\ TypeOK /\ OneCall /\ Migrating /\ Making /\ Limiting /\ AllSound /\ Gone /\ Lasting /\ Serving
      /\ DefaultKept /\ Default \in Names
  BY Zenon, NamesAssumption DEF Inv
<1>2. /\ mode = "up" /\ t \in DOMAIN tenants /\ past' = {}
      /\ call.op = None \/ (call.op # "delete" /\ call.name # t)
      /\ disk' = [disk EXCEPT !.dirs[t] = dir]
      /\ promise' = [Settled EXCEPT ![t].pieces = @ \cup {"wal"}]
      /\ mode' = mode /\ tenants' = tenants /\ call' = call /\ born' = born
  BY Zenon DEF WriteVector
<1>3. /\ disk \in Trees /\ disk.dirs[t] \in Dirs /\ promise[t] \in Promises /\ disk.legacy = {}
      /\ promise[t].may
  BY Zenon, <1>1, <1>2, DirTypes DEF TypeOK, Migrating, Gone, GoneAt
<1>4. /\ dir \in Dirs /\ dir.there /\ dir.quota = disk.dirs[t].quota /\ dir.index = disk.dirs[t].index
      /\ \A p \in Pieces :
           dir.files[p] = IF p = "wal" THEN disk.dirs[t].files[p] \cup {promise[t].born}
                          ELSE disk.dirs[t].files[p]
  <2>1. PICK old \in Dirs : old = disk.dirs[t]
    BY Zenon, <1>3
  <2>2. PICK b \in Nat : b = promise[t].born
    BY <1>3 DEF Promises
  <2>3. PICK files : files = [old.files EXCEPT !["wal"] = @ \cup {b}]
    BY Zenon
  <2>4. /\ files \in [Pieces -> SUBSET Nat]
        /\ \A p \in Pieces : files[p] = IF p = "wal" THEN old.files[p] \cup {b} ELSE old.files[p]
    BY ZenonT(60), <2>1, <2>2, <2>3 DEF Dirs
  <2>5. PICK new : new = [old EXCEPT !.there = TRUE, !.files = files]
    OBVIOUS
  <2>6. /\ new \in Dirs /\ new.files = files /\ new.there /\ new.quota = old.quota
        /\ new.index = old.index
    BY Zenon, <2>4, <2>5 DEF Dirs
  <2>7. dir = new
    BY <2>1, <2>2, <2>3, <2>5 DEF Dirs
  <2> QED
    BY Zenon, <2>1, <2>2, <2>4, <2>6, <2>7
<1> HIDE DEF dir
<1>5. /\ disk' \in Trees /\ disk'.legacy = {} /\ disk'.dirs[t] = dir
      /\ \A n \in Names : n # t => disk'.dirs[n] = disk.dirs[n]
  BY <1>2, <1>3, <1>4 DEF Trees
<1>6. /\ promise' \in [Names -> Promises]
      /\ \A n \in Names :
           /\ promise'[n].must = promise[n].must /\ promise'[n].may = promise[n].may
           /\ promise'[n].quotas = promise[n].quotas /\ promise'[n].spec = promise[n].spec
           /\ promise'[n].born = promise[n].born /\ ~promise'[n].undone
           /\ n # t => promise'[n].pieces = promise[n].pieces
      /\ promise'[t].pieces = promise[t].pieces \cup {"wal"}
  <2>1. PICK kept \in [Names -> Promises] : kept = Settled
    BY Zenon, <1>1, SettledTypes
  <2>2. "wal" \in Pieces
    BY DEF Pieces
  <2>3. promise' = [kept EXCEPT ![t].pieces = @ \cup {"wal"}]
    BY Zenon, <1>2, <2>1
  <2>4. promise' \in [Names -> Promises]
    BY <2>2, <2>3 DEF Promises
  <2>5. /\ \A n \in Names :
             /\ promise'[n].must = kept[n].must /\ promise'[n].may = kept[n].may
             /\ promise'[n].quotas = kept[n].quotas /\ promise'[n].spec = kept[n].spec
             /\ promise'[n].born = kept[n].born /\ promise'[n].undone = kept[n].undone
             /\ n # t => promise'[n].pieces = kept[n].pieces
        /\ promise'[t].pieces = kept[t].pieces \cup {"wal"}
    BY <2>3, <2>4 DEF Promises
  <2>6. \A n \in Names :
          /\ kept[n].must = promise[n].must /\ kept[n].may = promise[n].may
          /\ kept[n].quotas = promise[n].quotas /\ kept[n].spec = promise[n].spec
          /\ kept[n].born = promise[n].born /\ kept[n].pieces = promise[n].pieces
          /\ ~kept[n].undone
    BY Zenon, <1>1, <2>1, SettledTypes
  <2> QED
    BY <2>4, <2>5, <2>6
<1>7. TypeOK'
  BY Zenon, <1>1, <1>2, <1>5, <1>6 DEF TypeOK
<1>8. ~Opening /\ ~MakingDefault /\ ~Deleting
  BY Zenon, <1>1, <1>2 DEF OneCall, Opening, MakingDefault, Deleting, None
<1>9. /\ ~Opening' /\ ~MakingDefault' /\ ~Deleting' /\ (Creating' <=> Creating)
      /\ (SettingQuota' <=> SettingQuota) /\ Left' = Left
  BY Zenon, <1>2, <1>8 DEF Opening, MakingDefault, Creating, Deleting, SettingQuota, Left
<1>10. OneCall'
  BY Zenon, <1>1, <1>2, <1>8, <1>9 DEF OneCall, Idle
<1>11. Creating \/ SettingQuota => call.name # t /\ call.name \in Names /\ Dir' = Dir
  <2>1. Creating \/ SettingQuota => call.name # t /\ call.name \in Names
    BY Zenon, <1>1, <1>2, CallFields DEF Creating, SettingQuota, None
  <2> QED
    BY Zenon, <1>2, <1>5, <2>1 DEF Dir
<1>12. Migrating' /\ Leaving'
  BY Zenon, <1>5, <1>9 DEF Migrating, Leaving
<1>13. Making'
  BY Zenon, <1>1, <1>2, <1>6, <1>8, <1>9, <1>11 DEF Making
<1>14. Limiting'
  BY Zenon, <1>1, <1>2, <1>6, <1>9, <1>11 DEF Limiting
<1>15. IsTenantDir(dir) /\ LoadQuota(dir) = LoadQuota(disk.dirs[t])
       /\ LoadIndex(dir) = LoadIndex(disk.dirs[t])
  <2>1. promise[t].born \in dir.files["wal"]
    BY <1>4 DEF Pieces
  <2> QED
    BY Zenon, <1>4, <2>1 DEF IsTenantDir, LoadQuota, LoadIndex
<1>16. AllSound'
  <2>1. Sound(disk)
    BY Zenon, <1>1 DEF AllSound
  <2>2. SoundDir(t, dir)
    BY Zenon, <1>4, <1>15 DEF SoundDir
  <2>3. \A n \in Names : SoundDir(n, disk'.dirs[n])
    BY Zenon, <1>5, <2>1, <2>2 DEF Sound
  <2>4. disk'.dirs[Default].quota = None => LoadIndex(disk'.dirs[Default]) = StoreSpec
    BY Zenon, <1>1, <1>4, <1>5, <1>15, <2>1 DEF Sound
  <2>5. Sound(disk')
    BY Zenon, <1>5, <2>3, <2>4 DEF Sound
  <2> QED
    BY Zenon, <1>1, <1>2, <2>5, SoundMore
<1>17. DefaultKept' /\ AlwaysReopens'
  <2>1. DefaultKept'
    BY <1>1, <1>6 DEF DefaultKept
  <2> QED
    BY Zenon, <1>2, <2>1 DEF AlwaysReopens
<1>18. Gone'
  <2>1. ASSUME NEW n \in Names, n # t
        PROVE  GoneAt(n)'
    <3>1. \A d \in past' \cup {disk'} : \E e \in past \cup {disk} : d.dirs[n] = e.dirs[n]
      BY ZenonT(60), <1>2, <1>5, <2>1
    <3>2. promise[n].may => promise'[n].may
      BY Zenon, <1>6
    <3> QED
      BY Zenon, <1>1, <1>2, <3>1, <3>2, GoneOn DEF Gone
  <2> QED
    BY Zenon, <1>3, <1>6, <2>1 DEF Gone, GoneAt
<1>19. ASSUME NEW n \in Names
       PROVE  /\ InPlace(n)' <=> promise[n].must
              /\ InPlace(n) <=> promise[n].must
              /\ Owed(n)' <=> promise[n].must
              /\ Owed(n) <=> promise[n].must
              /\ \A d \in Disks(n)' \cup past' \cup {disk'} : d = disk'
              /\ disk \in Disks(n)
  BY ZenonT(60), <1>2, <1>6, <1>8, <1>9 DEF InPlace, Owed, Disks, Pending
<1>20. Lasting'
  <2>1. ASSUME NEW n \in Names \ Hidden, n # t
        PROVE  LastingAt(n)'
    <3>1. disk'.dirs[n] = disk.dirs[n] /\ Rests(disk', n) = Rests(disk, n)
      BY Zenon, <1>3, <1>5, <2>1 DEF Rests
    <3>2. Alike(n, disk'.dirs[n], disk.dirs[n])
      BY Zenon, <3>1 DEF Alike
    <3>3. /\ \A d \in Disks(n)' : \E e \in Disks(n) : Alike(n, d.dirs[n], e.dirs[n]) /\ Rests(d, n) = Rests(e, n)
          /\ \A d \in past' \cup {disk'} : \E e \in past \cup {disk} : Alike(n, d.dirs[n], e.dirs[n])
      BY Zenon, <1>19, <3>1, <3>2
    <3> QED
      BY Zenon, <1>1, <1>6, <1>19, <2>1, <3>3, LastsOn DEF Lasting
  <2>2. ASSUME t \notin Hidden, promise[t].must
        PROVE  LastingAt(t)'
    <3>1. KeptOn(t, disk) /\ Own(t, disk.dirs[t])
      BY Zenon, <1>1, <1>19, <2>2 DEF Lasting, LastingAt
    <3>2. Own(t, disk.dirs[t])'
      BY ZenonT(60), <1>4, <1>5, <1>6, <3>1 DEF Own
    <3>3. promise[t].pieces \cup {"wal"} \subseteq
            {p \in Pieces : promise[t].born \in dir.files[p]} \cup Rests(disk', t)
      <4>1. promise[t].pieces \subseteq
              {p \in Pieces : promise[t].born \in disk.dirs[t].files[p]} \cup Rests(disk, t)
        BY Zenon, <3>1 DEF KeptOn, Keeps
      <4>2. Rests(disk', t) = Rests(disk, t)
        BY Zenon, <1>3, <1>5 DEF Rests
      <4>3. "wal" \in Pieces
        BY DEF Pieces
      <4> QED
        BY Zenon, <1>4, <4>1, <4>2, <4>3
    <3>4. /\ IsTenantDir(disk'.dirs[t]) /\ LoadQuota(disk'.dirs[t]) \in promise'[t].quotas
          /\ LoadIndex(disk'.dirs[t]) = promise'[t].spec
      BY Zenon, <1>5, <1>6, <1>15, <3>1 DEF KeptOn, Keeps
    <3>5. promise'[t].pieces \subseteq
            {p \in Pieces : promise'[t].born \in disk'.dirs[t].files[p]} \cup Rests(disk', t)
      BY Zenon, <1>5, <1>6, <3>3
    <3>6. KeptOn(t, disk)'
      BY Zenon, <3>4, <3>5 DEF KeptOn, Keeps, Rests, LoadQuota, LoadIndex, IsTenantDir
    <3>7. \A d \in Disks(t)' : KeptOn(t, d)'
      BY Zenon, <1>19, <3>6 DEF KeptOn, Keeps, Rests, LoadQuota, LoadIndex, IsTenantDir
    <3>8. \A d \in past' \cup {disk'} : Own(t, d.dirs[t])'
      BY Zenon, <1>19, <3>2 DEF Own
    <3> QED
      BY Zenon, <3>7, <3>8 DEF LastingAt
  <2>3. ASSUME ~promise[t].must
        PROVE  LastingAt(t)'
    BY Zenon, <1>19, <2>3 DEF LastingAt
  <2> QED
    BY Zenon, <2>1, <2>2, <2>3 DEF Lasting
<1>21. Serving'
  <2>1. ASSUME NEW n \in Names \ Hidden, ServingAt(n)
        PROVE  ServingAt(n)'
    BY ZenonT(60), <1>2, <1>5, <1>6, <1>8, <1>19, <2>1 DEF ServingAt, Serves
  <2> QED
    BY Zenon, <1>1, <1>2, <2>1 DEF Serving
<1> QED
  BY Zenon, <1>7, <1>10, <1>12, <1>13, <1>14, <1>16, <1>17, <1>18, <1>20, <1>21 DEF Inv

\* The machine dies, and comes back with an earlier disk.
LEMMA PowerLossStep ==
  ASSUME Inv, PowerLoss
  PROVE  Inv'
<1>1. /\ TypeOK /\ AllSound /\ Gone /\ Lasting /\ DefaultKept /\ Default \in Names
  BY Zenon, NamesAssumption DEF Inv
<1>2. /\ mode' = "down" /\ tenants' = NoTenants /\ call' = NoCall /\ born' = born
      /\ disk' \in past /\ past' = {}
      /\ promise' = [n \in Names |-> [promise[n] EXCEPT !.must = @ /\ ~promise[n].undone]]
  BY Zenon DEF PowerLoss, Stops
<1>3. mode' # "up" /\ mode' # "refused" /\ mode' # "opening" /\ mode' \in Modes
  BY <1>2 DEF Modes
<1>4. promise \in [Names -> Promises]
  BY Zenon, <1>1 DEF TypeOK
<1>5. promise' \in [Names -> Promises]
  BY ZenonT(60), <1>2, <1>4 DEF Promises
<1>6. \A n \in Names :
        /\ promise'[n].may = promise[n].may /\ promise'[n].quotas = promise[n].quotas
        /\ promise'[n].undone = promise[n].undone /\ promise'[n].spec = promise[n].spec
        /\ promise'[n].pieces = promise[n].pieces /\ promise'[n].born = promise[n].born
        /\ promise'[n].must <=> promise[n].must /\ ~promise[n].undone
  BY SMTT(60), <1>2, <1>4, <1>5 DEF Promises
<1>7. TypeOK'
  BY Zenon, <1>1, <1>2, <1>3, <1>5, NoTypes, CallTypes DEF TypeOK
<1>8. OneCall' /\ Migrating' /\ Making' /\ Leaving' /\ Limiting'
  BY Zenon, <1>2, <1>3, NoTypes, OneCallReturns, StagesReturn
<1>9. ~MakingDefault' /\ ~Deleting'
  BY Zenon, <1>2, Returns
<1>10. AllSound' /\ AlwaysReopens' /\ Serving'
  BY Zenon, <1>1, <1>2, <1>3, <1>9, SoundOn DEF AlwaysReopens, Serving
<1>11. DefaultKept'
  BY <1>1, <1>6 DEF DefaultKept
<1>12. Gone'
  <2>1. ASSUME NEW n \in Names
        PROVE  GoneAt(n)'
    <3>1. \A d \in past' \cup {disk'} : \E e \in past \cup {disk} : d.dirs[n] = e.dirs[n]
      BY Zenon, <1>2
    <3>2. promise[n].may => promise'[n].may
      BY Zenon, <1>6
    <3>3. n \notin DOMAIN tenants'
      BY Zenon, <1>2, NoTypes
    <3> QED
      BY Zenon, <1>1, <3>1, <3>2, <3>3, GoneOn DEF Gone
  <2> QED
    BY Zenon, <2>1 DEF Gone
<1>13. ASSUME NEW n \in Names
       PROVE  /\ InPlace(n)' <=> promise[n].must /\ ~promise[n].undone
              /\ Owed(n)' <=> promise[n].must /\ ~promise[n].undone
              /\ promise[n].must => InPlace(n) /\ Owed(n)
              /\ ~promise[n].undone => Disks(n)' \subseteq Disks(n)
  BY Zenon, <1>2, <1>6, <1>9 DEF InPlace, Owed, Disks, Pending
<1>14. Lasting'
  <2>1. ASSUME NEW n \in Names \ Hidden, promise[n].must /\ ~promise[n].undone
        PROVE  LastingAt(n)'
    BY Zenon, <1>1, <1>2, <1>6, <1>13, <2>1, LastsStill DEF Lasting
  <2>2. ASSUME NEW n \in Names \ Hidden, ~(promise[n].must /\ ~promise[n].undone)
        PROVE  LastingAt(n)'
    BY Zenon, <1>13, <2>2 DEF LastingAt
  <2> QED
    BY Zenon, <2>1, <2>2 DEF Lasting
<1> QED
  BY Zenon, <1>7, <1>8, <1>10, <1>11, <1>12, <1>14 DEF Inv

\* The rename of DeleteTenant fails: the promise stands as it did.
LEMMA RenameFails ==
  ASSUME Inv, Deleting, Left = 4, call' = NoCall, mode' = "up", mode' = mode, tenants' = tenants,
         disk' = disk, past' = past, born' = born,
         promise' = [promise EXCEPT ![call.name].must = call.must,
                                    ![call.name].undone = promise[call.name].undone]
  PROVE  Inv'
<1> DEFINE c == call.name
<1>1. /\ TypeOK /\ Migrating /\ Leaving /\ AllSound /\ Gone /\ Lasting /\ Serving
      /\ DefaultKept /\ Default \in Names /\ c \in Names /\ call.must \in BOOLEAN
  BY Zenon, NamesAssumption, CallFields DEF Inv
<1>2. /\ c # Default /\ disk.legacy = {} /\ promise \in [Names -> Promises] /\ ~promise[c].must
  BY Zenon, <1>1 DEF Leaving, Migrating, TypeOK
<1>3. /\ promise' \in [Names -> Promises]
      /\ \A n \in Names :
           /\ promise'[n].may = promise[n].may /\ promise'[n].quotas = promise[n].quotas
           /\ promise'[n].undone = promise[n].undone /\ promise'[n].spec = promise[n].spec
           /\ promise'[n].pieces = promise[n].pieces /\ promise'[n].born = promise[n].born
           /\ n # c => promise'[n].must = promise[n].must
      /\ promise'[c].must = call.must
  <2>1. promise[c] \in Promises
    BY Zenon, <1>1, <1>2
  <2>2. PICK new : new = [promise[c] EXCEPT !.must = call.must, !.undone = promise[c].undone]
    OBVIOUS
  <2>3. /\ new \in Promises /\ new.must = call.must /\ new.may = promise[c].may
        /\ new.undone = promise[c].undone /\ new.quotas = promise[c].quotas
        /\ new.spec = promise[c].spec /\ new.pieces = promise[c].pieces /\ new.born = promise[c].born
    BY Zenon, <1>1, <2>1, <2>2 DEF Promises
  <2>4. promise' = [promise EXCEPT ![c] = new]
    BY Zenon, <1>1, <1>2, <2>2
  <2> QED
    BY ZenonT(60), <1>1, <1>2, <2>3, <2>4
<1>4. TypeOK'
  BY Zenon, <1>1, <1>3, CallTypes DEF TypeOK
<1>5. OneCall' /\ Migrating' /\ Making' /\ Leaving' /\ Limiting'
  BY Zenon, <1>2, OneCallReturns, StagesReturn
<1>6. ~MakingDefault' /\ ~Deleting' /\ ~MakingDefault
  BY Zenon, <1>1, Returns, OnePhase
<1>7. AllSound' /\ AlwaysReopens'
  BY Zenon, <1>1, SoundOn DEF AlwaysReopens
<1>8. DefaultKept'
  BY <1>1, <1>2, <1>3 DEF DefaultKept
<1>9. Gone'
  <2>1. \A n \in Names : promise[n].may => promise'[n].may
    BY <1>3
  <2>2. ASSUME NEW n \in Names
        PROVE  GoneAt(n)'
    BY Zenon, <1>1, <2>1, GoneOn DEF Gone
  <2> QED
    BY Zenon, <2>2 DEF Gone
<1>10. ASSUME NEW n \in Names
       PROVE  /\ InPlace(n)' => InPlace(n)
              /\ Owed(n)' => Owed(n)
              /\ Disks(n)' \subseteq Disks(n)
  <2>1. Left >= 3
    OBVIOUS
  <2> QED
    BY ZenonT(60), <1>3, <1>6, <2>1 DEF InPlace, Owed, Disks, Pending
<1>11. Lasting'
  <2>1. ASSUME NEW n \in Names \ Hidden
        PROVE  LastingAt(n)'
    BY Zenon, <1>1, <1>3, <1>10, LastsStill DEF Lasting
  <2> QED
    BY Zenon, <2>1 DEF Lasting
<1>12. Serving'
  <2>1. ASSUME NEW n \in Names \ Hidden, ServingAt(n)
        PROVE  ServingAt(n)'
    BY Zenon, <1>3, <1>6, <1>10, <2>1 DEF ServingAt, Serves
  <2> QED
    BY Zenon, <1>1, <2>1 DEF Serving
<1> QED
  BY Zenon, <1>4, <1>5, <1>7, <1>8, <1>9, <1>11, <1>12 DEF Inv

\* The sync of DeleteTenant fails, and the directory is renamed back: it holds
\* what was promised, as long as the machine does not die.
LEMMA SyncFails ==
  ASSUME Inv, Deleting, Left = 3, call' = NoCall, mode' = "up", mode' = mode, tenants' = tenants,
         ChangeDir(call.was), born' = born,
         promise' = [promise EXCEPT ![call.name].must = call.must, ![call.name].undone = TRUE]
  PROVE  Inv'
<1> DEFINE c == call.name
<1>1. /\ TypeOK /\ Migrating /\ Leaving /\ AllSound /\ Gone /\ Lasting /\ Serving
      /\ DefaultKept /\ Default \in Names /\ c \in Names /\ call.must \in BOOLEAN /\ call.was \in Dirs
  BY Zenon, NamesAssumption, CallFields DEF Inv
<1>2. /\ c # Default /\ disk.legacy = {} /\ promise \in [Names -> Promises] /\ promise[c].may
      /\ c \in DOMAIN tenants /\ ~promise[c].must
      /\ call.was.there /\ (~IsTenantDir(call.was) => call.was.files = NoFiles)
      /\ call.must /\ c \notin Hidden => Keeps(c, call.was, {}) /\ Own(c, call.was)
  <2>1. Left >= 2 /\ Left >= 3
    OBVIOUS
  <2> QED
    BY Zenon, <1>1, <2>1 DEF Leaving, Migrating, TypeOK
<1>3. /\ promise' \in [Names -> Promises]
      /\ \A n \in Names :
           /\ promise'[n].may = promise[n].may /\ promise'[n].quotas = promise[n].quotas
           /\ promise'[n].spec = promise[n].spec
           /\ promise'[n].pieces = promise[n].pieces /\ promise'[n].born = promise[n].born
           /\ n # c => promise'[n].must = promise[n].must /\ promise'[n].undone = promise[n].undone
      /\ promise'[c].must = call.must /\ promise'[c].undone
  <2>1. promise[c] \in Promises
    BY Zenon, <1>1, <1>2
  <2>2. PICK new : new = [promise[c] EXCEPT !.must = call.must, !.undone = TRUE]
    OBVIOUS
  <2>3. /\ new \in Promises /\ new.must = call.must /\ new.may = promise[c].may
        /\ new.undone /\ new.quotas = promise[c].quotas
        /\ new.spec = promise[c].spec /\ new.pieces = promise[c].pieces /\ new.born = promise[c].born
    BY Zenon, <1>1, <2>1, <2>2 DEF Promises
  <2>4. promise' = [promise EXCEPT ![c] = new]
    BY Zenon, <1>1, <1>2, <2>2
  <2> QED
    BY ZenonT(60), <1>1, <1>2, <2>3, <2>4
<1>4. /\ disk' \in Trees /\ disk'.legacy = disk.legacy /\ disk'.dirs[c] = call.was
      /\ \A n \in Names : n # c => disk'.dirs[n] = disk.dirs[n]
      /\ past' = past \cup {disk} /\ past' \subseteq Trees
  BY Zenon, <1>1, DirChanges
<1>5. TypeOK'
  BY ZenonT(60), <1>1, <1>3, <1>4, CallTypes DEF TypeOK
<1>6. OneCall' /\ Migrating' /\ Making' /\ Leaving' /\ Limiting'
  BY Zenon, <1>2, <1>4, OneCallReturns, StagesReturn
<1>7. ~MakingDefault' /\ ~Deleting' /\ ~MakingDefault
  BY Zenon, <1>1, Returns, OnePhase
<1>8. AllSound' /\ AlwaysReopens'
  <2>1. SoundDir(c, call.was)
    BY Zenon, <1>2 DEF SoundDir
  <2>2. AllSound'
    BY Zenon, <1>1, <1>2, <2>1, SoundChange
  <2> QED
    BY Zenon, <2>2 DEF AlwaysReopens
<1>9. DefaultKept'
  BY <1>1, <1>2, <1>3 DEF DefaultKept
<1>10. Gone'
  <2>1. ASSUME NEW n \in Names, n # c
        PROVE  GoneAt(n)'
    <3>1. \A d \in past' \cup {disk'} : \E e \in past \cup {disk} : d.dirs[n] = e.dirs[n]
      BY Zenon, <1>4, <2>1
    <3>2. promise[n].may => promise'[n].may
      BY <1>3
    <3> QED
      BY Zenon, <1>1, <3>1, <3>2, GoneOn DEF Gone
  <2>2. promise'[c].may
    BY <1>1, <1>2, <1>3
  <2>3. ASSUME NEW n \in Names, n = c
        PROVE  GoneAt(n)'
    BY Zenon, <2>2, <2>3 DEF GoneAt
  <2> QED
    BY Zenon, <2>1, <2>3 DEF Gone
<1>11. ASSUME NEW n \in Names
       PROVE  /\ InPlace(n)' <=> promise'[n].must
              /\ Owed(n)' <=> promise'[n].must
              /\ Owed(n)' => Owed(n)
              /\ promise[n].must => InPlace(n)
  <2>1. Left >= 3
    OBVIOUS
  <2> QED
    BY Zenon, <1>3, <1>7, <2>1 DEF InPlace, Owed, Pending
<1>12. Lasting'
  <2>1. ASSUME NEW n \in Names \ Hidden, n # c
        PROVE  LastingAt(n)'
    <3>1. disk'.dirs[n] = disk.dirs[n] /\ Rests(disk', n) = Rests(disk, n)
      BY Zenon, <1>4, <2>1 DEF Rests
    <3>2. Alike(n, disk'.dirs[n], disk.dirs[n])
      BY Zenon, <3>1 DEF Alike
    <3>3. /\ \A d \in Disks(n)' : \E e \in Disks(n) : Alike(n, d.dirs[n], e.dirs[n]) /\ Rests(d, n) = Rests(e, n)
          /\ \A d \in past' \cup {disk'} : \E e \in past \cup {disk} : Alike(n, d.dirs[n], e.dirs[n])
      BY Zenon, <1>3, <1>4, <2>1, <3>1, <3>2, SameDisks
    <3>4. InPlace(n)' => InPlace(n)
      BY Zenon, <1>3, <1>11, <2>1
    <3> QED
      BY Zenon, <1>1, <1>3, <1>11, <3>3, <3>4, LastsOn DEF Lasting
  <2>2. ASSUME NEW n \in Names \ Hidden, n = c, call.must
        PROVE  LastingAt(n)'
    <3>1. Keeps(n, call.was, {}) /\ Own(n, call.was) /\ disk'.dirs[n] = call.was
      BY Zenon, <1>2, <1>4, <2>2
    <3>2. \A d \in Disks(n)' : d = disk'
      BY Zenon, <1>3, <2>2 DEF Disks
    <3>3. KeptOn(n, disk)' /\ Own(n, disk.dirs[n])'
      BY ZenonT(60), <1>3, <3>1 DEF KeptOn, Keeps, Own, LoadQuota, LoadIndex, IsTenantDir
    <3>4. \A d \in Disks(n)' : KeptOn(n, d)'
      BY Zenon, <3>2, <3>3 DEF KeptOn, Keeps, Rests, LoadQuota, LoadIndex, IsTenantDir
    <3>5. Owed(n)
      BY Zenon, <1>3, <1>11, <2>2
    <3>6. \A d \in past \cup {disk} : Own(n, d.dirs[n])'
      BY Zenon, <1>1, <1>3, <3>5 DEF Lasting, LastingAt, Own
    <3>7. \A d \in past' \cup {disk'} : Own(n, d.dirs[n])'
      <4>1. \A d \in past' \cup {disk'} : d = disk' \/ d \in past \cup {disk}
        BY Zenon, <1>4
      <4> QED
        BY Zenon, <3>3, <3>6, <4>1 DEF Own
    <3> QED
      BY Zenon, <3>4, <3>7 DEF LastingAt
  <2>3. ASSUME NEW n \in Names \ Hidden, n = c, ~call.must
        PROVE  LastingAt(n)'
    BY Zenon, <1>3, <1>11, <2>3 DEF LastingAt
  <2> QED
    BY Zenon, <2>1, <2>2, <2>3 DEF Lasting
<1>13. Serving'
  <2>1. ASSUME NEW n \in Names \ Hidden, ServingAt(n)
        PROVE  ServingAt(n)'
    BY ZenonT(60), <1>2, <1>3, <1>4, <1>7, <1>11, <2>1 DEF ServingAt, Serves
  <2> QED
    BY Zenon, <1>1, <2>1 DEF Serving
<1> QED
  BY Zenon, <1>5, <1>6, <1>8, <1>9, <1>10, <1>12, <1>13 DEF Inv

\* A step of a call fails.
LEMMA FailsStep ==
  ASSUME Inv, Fails
  PROVE  Inv'
<1> DEFINE step == Head(call.todo)
           back == call.op = "delete" /\ step = "sync"
           stays(undone) == promise' = [promise EXCEPT ![call.name].must = call.must,
                                                       ![call.name].undone = undone]
<1>1. TypeOK /\ OneCall
  BY Zenon DEF Inv
<1>2. /\ call.todo # <<>> /\ call' = NoCall /\ born' = born
      /\ mode' = IF mode = "opening" THEN "down" ELSE mode
      /\ tenants' = IF mode = "opening" THEN NoTenants ELSE tenants
      /\ \/ back /\ ChangeDir(call.was) /\ stays(TRUE)
         \/ back /\ disk' = disk /\ past' = past /\ promise' = promise
         \/ step = "rename" /\ stays(promise[call.name].undone) /\ disk' = disk /\ past' = past
         \/ step # "rename" /\ disk' = disk /\ past' = past /\ promise' = promise
  BY Zenon DEF Fails, Return
<1>3. \/ mode = "opening" /\ mode' = "down" /\ tenants' = NoTenants
      \/ mode = "up" /\ mode' = "up" /\ tenants' = tenants
  <2>1. ~Idle
    BY <1>2 DEF Idle, NoCall
  <2>2. mode = "opening" \/ mode = "up"
    BY Zenon, <1>1, <2>1 DEF OneCall, Opening, MakingDefault, Creating, Deleting, SettingQuota
  <2> QED
    BY Zenon, <1>2, <2>2
<1>4. call.op = "delete" => mode = "up" /\ mode' = "up" /\ mode' = mode /\ tenants' = tenants
  BY Zenon, <1>1, <1>3 DEF OneCall
<1>5. CASE back /\ ChangeDir(call.was) /\ stays(TRUE)
  <2>1. Deleting /\ Left = 3
    BY Zenon, <1>1, <1>2, <1>5, Where DEF Do, Opening, MakingDefault, Creating, SettingQuota
  <2> QED
    BY Zenon, <1>2, <1>4, <1>5, <2>1, SyncFails
<1>6. CASE step = "rename" /\ stays(promise[call.name].undone) /\ disk' = disk /\ past' = past
  <2>1. Deleting /\ Left = 4
    BY Zenon, <1>1, <1>2, <1>6, Where DEF Do
  <2>2. call.op = "delete"
    BY Zenon, <2>1 DEF Deleting
  <2> QED
    BY Zenon, <1>2, <1>4, <1>6, <2>1, <2>2, RenameFails
<1>7. CASE disk' = disk /\ past' = past /\ promise' = promise
  <2>1. mode' \in Modes /\ mode' # "opening" /\ mode' # "refused"
    BY Zenon, <1>3 DEF Modes
  <2> QED
    BY Zenon, <1>2, <1>3, <1>7, <2>1, Over
<1> QED
  BY Zenon, <1>2, <1>5, <1>6, <1>7

-----------------------------------------------------------------------------
(* The invariant. *)

\* What is promised of a root that is opened for the first time.
LEMMA FirstPromises ==
  ASSUME Init
  PROVE  /\ promise \in [Names -> Promises]
         /\ \A n \in Names :
              n = Default \/ IsTenantDir(disk.dirs[n]) =>
                /\ promise[n].must /\ promise[n].may /\ ~promise[n].undone /\ promise[n].born = 1
                /\ promise[n].quotas = {LoadQuota(disk.dirs[n])}
                /\ promise[n].spec = LoadIndex(disk.dirs[n])
                /\ promise[n].pieces = {p \in Pieces : disk.dirs[n].files[p] # {}} \cup
                                         IF n = Default THEN disk.legacy ELSE {}
         /\ \A n \in Names :
              ~(n = Default \/ IsTenantDir(disk.dirs[n])) => ~promise[n].must
<1> DEFINE Pieced(n) == {p \in Pieces : disk.dirs[n].files[p] # {}} \cup
                          IF n = Default THEN disk.legacy ELSE {}
           First(n) == [must |-> TRUE, may |-> TRUE, undone |-> FALSE,
                        quotas |-> {LoadQuota(disk.dirs[n])}, spec |-> LoadIndex(disk.dirs[n]),
                        born |-> 1, pieces |-> Pieced(n)]
<1>1. promise = [n \in Names |-> IF n = Default \/ IsTenantDir(disk.dirs[n]) THEN First(n) ELSE Unpromised]
  BY Zenon DEF Init
<1>2. disk \in Trees
  BY Zenon, RootsAssumption DEF Init
<1>3. ASSUME NEW n \in Names
      PROVE  /\ First(n) \in Promises
             /\ First(n).must /\ First(n).may /\ ~First(n).undone /\ First(n).born = 1
             /\ First(n).quotas = {LoadQuota(disk.dirs[n])} /\ First(n).spec = LoadIndex(disk.dirs[n])
             /\ First(n).pieces = Pieced(n)
  <2>1. /\ disk.dirs[n].index \in Specs \cup {None} /\ disk.dirs[n].quota \in Quotas \cup {None}
    BY Zenon, <1>2, DirTypes
  <2>2. LoadQuota(disk.dirs[n]) \in Quotas /\ LoadIndex(disk.dirs[n]) \in Specs
    BY Zenon, <2>1, NamesAssumption DEF LoadQuota, LoadIndex
  <2>3. Pieced(n) \subseteq Pieces
    BY Zenon, <1>2, DirTypes
  <2> HIDE DEF Pieced
  <2> QED
    BY <2>2, <2>3 DEF Promises
<1>4. Unpromised \in Promises /\ ~Unpromised.must
  BY NoTypes DEF Unpromised
<1> HIDE DEF First
<1> QED
  BY Zenon, <1>1, <1>3, <1>4

\* A root that is opened for the first time.
LEMMA InitInv ==
  ASSUME Init
  PROVE  Inv
<1>1. /\ disk \in Roots /\ past = {} /\ mode = "down" /\ tenants = NoTenants /\ call = NoCall /\ born = 1
  BY Zenon DEF Init
<1>2. /\ disk \in Trees
      /\ \A n \in Names :
           /\ disk.dirs[n] = NoDir \/ (disk.dirs[n].there /\ (n = Default \/ IsTenantDir(disk.dirs[n])))
           /\ \A p \in Pieces : disk.dirs[n].files[p] \subseteq {1}
      /\ \A p \in disk.legacy : disk.dirs[Default].quota = None /\ disk.dirs[Default].files[p] = {}
      /\ disk.dirs[Default].quota = None => LoadIndex(disk.dirs[Default]) = StoreSpec
  BY Zenon, <1>1, RootsAssumption
<1>3. TypeOK
  <2>1. born \in Nat
    BY <1>1
  <2>2. NoCall \in Calls
    <3>1. <<>> \in Seq(Words)
      OBVIOUS
    <3> QED
      BY <3>1, NamesAssumption, DirTypes DEF NoCall, Calls, Ops, None
  <2> QED
    BY Zenon, <1>1, <1>2, <2>1, <2>2, NoTypes, FirstPromises DEF TypeOK, Modes
<1>4. /\ Idle /\ ~Opening /\ ~MakingDefault /\ ~Creating /\ ~Deleting /\ ~SettingQuota
  BY Zenon, <1>1, <1>3, OnePhase DEF Idle
<1>5. OneCall
  <2>1. call.op = "none"
    BY <1>1 DEF NoCall, None
  <2> QED
    BY Zenon, <1>1, <1>4, <2>1, NoTypes DEF OneCall
<1>6. Migrating /\ Making /\ Leaving /\ Limiting /\ Serving /\ AlwaysReopens
  BY Zenon, <1>1, <1>4 DEF Migrating, Making, Leaving, Limiting, Serving, AlwaysReopens
<1>7. AllSound
  <2>1. ASSUME NEW n \in Names
        PROVE  SoundDir(n, disk.dirs[n])
    BY Zenon, <1>2, DirTypes DEF SoundDir
  <2>2. Sound(disk)
    BY Zenon, <1>2, <2>1 DEF Sound
  <2> QED
    BY Zenon, <1>1, <2>2 DEF AllSound
<1>8. DefaultKept
  BY Zenon, FirstPromises, NamesAssumption DEF DefaultKept
<1>9. Gone
  <2>1. ASSUME NEW n \in Names, ~promise[n].may
        PROVE  ~disk.dirs[n].there
    <3>1. ~(n = Default \/ IsTenantDir(disk.dirs[n]))
      BY Zenon, <2>1, FirstPromises
    <3> QED
      BY Zenon, <1>2, <3>1, DirTypes
  <2>2. DOMAIN tenants = {}
    BY Zenon, <1>1, NoTypes
  <2> QED
    BY Zenon, <1>1, <2>1, <2>2 DEF Gone, GoneAt
<1>10. Lasting
  <2>1. ASSUME NEW n \in Names
        PROVE  /\ Owed(n) <=> promise[n].must
               /\ InPlace(n) <=> promise[n].must
               /\ promise[n].must => Own(n, disk.dirs[n])
    <3>1. ~Pending(n)
      BY Zenon, <1>4 DEF Pending
    <3>2. promise[n].must => promise[n].born = 1
      BY Zenon, FirstPromises
    <3>3. promise[n].must => Own(n, disk.dirs[n])
      BY Zenon, <1>2, <3>2 DEF Own
    <3> QED
      BY Zenon, <3>1, <3>3 DEF Owed, InPlace
  <2>2. ASSUME NEW n \in Names, promise[n].must
        PROVE  KeptOn(n, disk)
    <3>1. /\ n = Default \/ IsTenantDir(disk.dirs[n])
          /\ promise[n].born = 1 /\ LoadQuota(disk.dirs[n]) \in promise[n].quotas
          /\ promise[n].spec = LoadIndex(disk.dirs[n])
          /\ promise[n].pieces = {p \in Pieces : disk.dirs[n].files[p] # {}} \cup Rests(disk, n)
      BY Zenon, <2>2, FirstPromises DEF Rests
    <3>2. \A p \in Pieces : disk.dirs[n].files[p] # {} => 1 \in disk.dirs[n].files[p]
      BY Zenon, <1>2
    <3>3. promise[n].pieces \subseteq {p \in Pieces : promise[n].born \in disk.dirs[n].files[p]}
                                        \cup Rests(disk, n)
      BY Zenon, <3>1, <3>2
    <3> QED
      BY Zenon, <3>1, <3>3 DEF KeptOn, Keeps
  <2>3. \A n \in Names : \A d \in Disks(n) \cup past \cup {disk} : d = disk
    BY Zenon, <1>1 DEF Disks
  <2> QED
    BY Zenon, <2>1, <2>2, <2>3 DEF Lasting, LastingAt
<1> QED
  BY Zenon, <1>3, <1>5, <1>6, <1>7, <1>8, <1>9, <1>10 DEF Inv

\* A step that changes nothing.
LEMMA StutterInv ==
  ASSUME Inv, UNCHANGED vars
  PROVE  Inv'
<1>1. /\ disk' = disk /\ past' = past /\ mode' = mode /\ tenants' = tenants /\ call' = call
      /\ promise' = promise /\ born' = born
  BY DEF vars, history
<1>2. /\ TypeOK' /\ OneCall' /\ Migrating' /\ Making' /\ Leaving' /\ Limiting'
  <2>1. /\ (Idle' <=> Idle) /\ (Opening' <=> Opening) /\ (MakingDefault' <=> MakingDefault)
        /\ (Creating' <=> Creating) /\ (Deleting' <=> Deleting) /\ (SettingQuota' <=> SettingQuota)
        /\ Left' = Left /\ Dir' = Dir
    BY Zenon, <1>1 DEF Idle, Opening, MakingDefault, Creating, Deleting, SettingQuota, Left, Dir
  <2>2. TypeOK' /\ OneCall' /\ Migrating'
    BY ZenonT(60), <1>1, <2>1 DEF Inv, TypeOK, OneCall, Migrating
  <2>3. Making' /\ Limiting'
    BY Zenon, <1>1, <2>1 DEF Inv, Making, Limiting
  <2>4. Leaving'
    <3>1. /\ Keeps(call.name, call.was, {})' <=> Keeps(call.name, call.was, {})
          /\ Own(call.name, call.was)' <=> Own(call.name, call.was)
      BY Zenon, <1>1 DEF Keeps, Own, IsTenantDir, LoadQuota, LoadIndex
    <3> QED
      BY Zenon, <1>1, <2>1, <3>1 DEF Inv, Leaving, IsTenantDir
  <2> QED
    BY Zenon, <2>2, <2>3, <2>4
<1>3. AllSound' /\ DefaultKept' /\ Gone' /\ AlwaysReopens'
  BY Zenon, <1>1, SoundOn DEF Inv, DefaultKept, Gone, GoneAt, AlwaysReopens
<1>4. /\ (MakingDefault' <=> MakingDefault) /\ (Deleting' <=> Deleting) /\ Left' = Left
  BY Zenon, <1>1 DEF MakingDefault, Deleting, Left
<1>5. \A n \in Names : /\ InPlace(n)' <=> InPlace(n)
                       /\ Owed(n)' <=> Owed(n)
                       /\ Disks(n)' = Disks(n)
  BY Zenon, <1>1, <1>4 DEF InPlace, Owed, Pending, Disks
<1>6. Lasting'
  <2>1. ASSUME NEW n \in Names \ Hidden
        PROVE  LastingAt(n)'
    BY Zenon, <1>1, <1>5, LastsStill DEF Inv, Lasting
  <2> QED
    BY Zenon, <2>1 DEF Lasting
<1>7. Serving'
  <2>1. ASSUME NEW n \in Names \ Hidden, ServingAt(n)
        PROVE  ServingAt(n)'
    BY Zenon, <1>1, <1>4, <1>5, <2>1 DEF ServingAt, Serves
  <2> QED
    BY Zenon, <1>1, <1>4, <2>1 DEF Inv, Serving
<1> QED
  BY Zenon, <1>2, <1>3, <1>6, <1>7 DEF Inv

\* Every step keeps the invariant.
LEMMA NextInv ==
  ASSUME Inv, [Next]_vars
  PROVE  Inv'
<1>1. CASE UNCHANGED vars
  BY Zenon, <1>1, StutterInv
<1>2. CASE Next
  <2>1. SaveQuota => Inv'
    BY Zenon, SaveQuotaMaking, SaveQuotaSetting
  <2> QED
    BY Zenon, <1>2, <2>1, OpenStoreStep, ScanStep, MoveStep, MkdirStep, SaveIndexStep, SyncDirStep,
       RegisterStep, CreateTenantStep, DeleteTenantStep, SetQuotaStep, RenameStep, ForgetStep,
       RemoveAllStep, StoreLimitsStep, SetQuotaReturnsStep, WriteVectorStep, FailsStep, CrashStep,
       PowerLossStep DEF Next
<1> QED
  BY Zenon, <1>1, <1>2

\* The tenant directories hold the invariant throughout.
THEOREM TenantDirsInvariant == Spec => []Inv
<1>1. Init => Inv
  BY Zenon, InitInv
<1>2. Inv /\ [Next]_vars => Inv'
  BY Zenon, NextInv
<1> QED
  BY <1>1, <1>2, PTL DEF Spec

\* Wherever a call, the migration or the machine stops, a restart finds every
\* promised tenant with its quota, its dimension and metric, and its data files.
THEOREM TenantsAreDurable == Spec => []Durable
<1>1. ASSUME Inv
      PROVE  Durable
  <2>1. ASSUME NEW n \in Promised, NEW d \in Disks(n)
        PROVE  /\ Found(d, n)
               /\ LoadQuota(d.dirs[n]) \in promise[n].quotas /\ LoadIndex(d.dirs[n]) = promise[n].spec
               /\ promise[n].pieces \subseteq FilesOf(d, n)
    <3>1. n \in Names \ Hidden /\ InPlace(n)
      BY Zenon DEF Promised, InPlace
    <3>2. KeptOn(n, d)
      BY Zenon, <1>1, <3>1 DEF Inv, Lasting, LastingAt
    <3> QED
      BY Zenon, <3>1, <3>2 DEF KeptOn, Keeps, Rests, Found, FilesOf
  <2> QED
    BY Zenon, <2>1 DEF Durable
<1> QED
  BY <1>1, TenantDirsInvariant, PTL

\* A tenant that DeleteTenant has taken off the map never comes back.
THEOREM TheDeletedStayGone == Spec => []DeletedStaysGone
<1>1. ASSUME Inv
      PROVE  DeletedStaysGone
  <2>1. ASSUME NEW n \in Names, ~promise[n].may
        PROVE  n \notin DOMAIN tenants /\ \A d \in past \cup {disk} : ~Found(d, n)
    <3>1. /\ n \notin DOMAIN tenants /\ n # Default
          /\ \A d \in past \cup {disk} : ~d.dirs[n].there /\ SoundDir(n, d.dirs[n])
      BY Zenon, <1>1, <2>1 DEF Inv, Gone, GoneAt, DefaultKept, AllSound, Sound
    <3>2. ~IsTenantDir(NoDir)
      BY Zenon, DirTypes DEF IsTenantDir, Pieces
    <3> QED
      BY Zenon, <3>1, <3>2 DEF SoundDir, Found
  <2> QED
    BY Zenon, <2>1 DEF DeletedStaysGone
<1> QED
  BY <1>1, TenantDirsInvariant, PTL

\* A store that is up serves every promised tenant as it was promised.
THEOREM WhatIsSavedIsServed == Spec => []ServesWhatIsSaved
<1>1. ASSUME Inv
      PROVE  ServesWhatIsSaved
  <2>1. ASSUME mode = "up", NEW n \in Promised
        PROVE  /\ n \in DOMAIN tenants
               /\ tenants[n].spec = promise[n].spec /\ tenants[n].quota \in promise[n].quotas
    <3>1. n \in Names \ Hidden /\ Owed(n)
      BY Zenon DEF Promised, Owed
    <3>2. ~MakingDefault
      BY Zenon, <1>1, <2>1 DEF Inv, OneCall, MakingDefault
    <3> QED
      BY Zenon, <1>1, <2>1, <3>1, <3>2 DEF Inv, Serving, ServingAt, Serves
  <2> QED
    BY Zenon, <2>1 DEF ServesWhatIsSaved
<1> QED
  BY <1>1, TenantDirsInvariant, PTL

\* A tenant's files are its own, those of one that is created again too.
THEOREM FilesAreTheirOwn == Spec => []OwnDataOnly
<1>1. ASSUME Inv
      PROVE  OwnDataOnly
  <2>1. ASSUME NEW n \in Promised
        PROVE  Own(n, disk.dirs[n])
    BY Zenon, <1>1 DEF Inv, Lasting, LastingAt, Promised, Owed
  <2> QED
    BY Zenon, <2>1 DEF OwnDataOnly, Own
<1> QED
  BY <1>1, TenantDirsInvariant, PTL

\* OpenStore refuses no root that a store has left behind, unless a tenant has
\* the name of a legacy file.
THEOREM RootsReopen == Spec => []AlwaysReopens
<1>1. ASSUME Inv
      PROVE  AlwaysReopens
  BY Zenon, <1>1 DEF Inv
<1> QED
  BY <1>1, TenantDirsInvariant, PTL
=============================================================================
