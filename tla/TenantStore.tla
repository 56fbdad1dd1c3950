---------------------------- MODULE TenantStore ----------------------------
(***************************************************************************)
(* The tenants of one Store (internal/engine/store.go) and the two levels  *)
(* of read-write locks around them: s.mu over the tenant map, t.use over   *)
(* each tenant's engine.  Engines are opened on first use and closed by    *)
(* CloseIdle, DeleteTenant and Close, all while requests come and go.      *)
(*                                                                         *)
(* Each thread makes one call.  Every lock operation is a step of its own; *)
(* what a thread does under an exclusive lock between two of them is one   *)
(* step.  The daemon stops its background sweeps before it calls Close     *)
(* (cmd/nucladbd/main.go), requests may still be running.                  *)
(***************************************************************************)
EXTENDS Naturals, Sequences, FiniteSets

CONSTANTS
  Threads,
  Tenants,
  Default,   \* the tenant that cannot be deleted
  Requests,  \* the tenant lists a request may name, in order
  None

ASSUME DefaultAssumption == Default \in Tenants
\* There are finitely many tenants.
ASSUME TenantsAssumption == \A S \in SUBSET Tenants : Cardinality(S) \in Nat
ASSUME RequestsAssumption == Requests \subseteq Seq(Tenants) \ {<<>>}
ASSUME NoneAssumption == None \notin Threads

VARIABLES
  closed,    \* s.closed
  present,   \* the keys of s.tenants
  engine,    \* per tenant "nil" or "open"
  sMu, use,  \* s.mu and each t.use
  op, pc, todo, answer   \* per thread

shared == <<closed, present, engine>>
locks == <<sMu, use>>
vars == <<shared, locks, op, pc, todo, answer>>

-----------------------------------------------------------------------------
(* sync.RWMutex: a writer that waits keeps new readers out. *)

Unlocked == [readers |-> {}, writer |-> None, waiting |-> None]

Readable(l) == l.writer = None /\ l.waiting = None
Free(l) == Readable(l) /\ l.readers = {}
RLocked(l, th) == [l EXCEPT !.readers = @ \cup {th}]
RUnlocked(l, th) == [l EXCEPT !.readers = @ \ {th}]
Announced(l, th) == [l EXCEPT !.waiting = th]
Granted(l, th) == [l EXCEPT !.waiting = None, !.writer = th]
Released(l) == [l EXCEPT !.writer = None]

CanAnnounce(l) == Readable(l)
CanEnter(l, th) == l.waiting = th /\ l.readers = {}

-----------------------------------------------------------------------------
Ops == {"request", "create", "delete", "idle", "snapshot", "stats", "close"}
Background == {"idle", "snapshot", "stats"}

Init ==
  /\ closed = FALSE
  /\ present \in {{Default}, Tenants}
  /\ engine = [t \in Tenants |-> "nil"]
  /\ sMu = Unlocked /\ use = [t \in Tenants |-> Unlocked]
  /\ op = [th \in Threads |-> "none"]
  /\ pc = [th \in Threads |-> "start"]
  /\ todo = [th \in Threads |-> <<>>]
  /\ answer = [th \in Threads |-> "none"]

Goto(th, label) == pc' = [pc EXCEPT ![th] = label]
Running(th) == pc[th] \notin {"start", "done"}
First(th) == Head(todo[th])

\* Leave, with an answer, giving back every tenant still read-locked.
Return(th, a) ==
  /\ Goto(th, "done")
  /\ answer' = [answer EXCEPT ![th] = a]
  /\ use' = [t \in Tenants |-> RUnlocked(use[t], th)]

\* A call begins. main waits for the background sweeps before Close, and
\* starts none after it.
Start(th) ==
  /\ pc[th] = "start"
  /\ \E o \in Ops :
       /\ op' = [op EXCEPT ![th] = o]
       /\ o = "close" => \A d \in Threads : Running(d) => op[d] \notin Background
       /\ o \in Background => "close" \notin {op[d] : d \in Threads}
       /\ CASE o = "request" -> \E r \in Requests : todo' = [todo EXCEPT ![th] = r]
            [] o \in {"create", "delete"} ->
                 \E t \in Tenants \ {Default} : todo' = [todo EXCEPT ![th] = <<t>>]
            [] OTHER -> UNCHANGED todo
       /\ Goto(th, CASE o = "request" -> "check" [] OTHER -> o)
  /\ UNCHANGED <<shared, locks, answer>>

-----------------------------------------------------------------------------
(* acquire, for each tenant of a request in turn. *)

CheckClosed(th) ==
  /\ pc[th] = "check"
  /\ IF closed THEN Return(th, "closed")
     ELSE Goto(th, "lookup") /\ UNCHANGED <<use, answer>>
  /\ UNCHANGED <<shared, sMu, op, todo>>

Lookup(th) ==
  /\ pc[th] = "lookup" /\ Readable(sMu)
  /\ IF First(th) \in present
     THEN sMu' = RLocked(sMu, th) /\ Goto(th, "enter") /\ UNCHANGED <<use, answer>>
     ELSE Return(th, "not found") /\ UNCHANGED sMu
  /\ UNCHANGED <<shared, op, todo>>

\* The tenant is held: go on with the next one, or with the work.
Acquired(th) ==
  /\ todo' = [todo EXCEPT ![th] = Tail(@)]
  /\ Goto(th, IF Len(todo[th]) = 1 THEN "using" ELSE "check")

Enter(th) ==
  LET t == First(th) IN
  /\ pc[th] = "enter" /\ Readable(use[t])
  /\ sMu' = RUnlocked(sMu, th)
  /\ \/ closed /\ Return(th, "closed") /\ UNCHANGED todo
     \/ /\ ~closed /\ engine[t] = "open"
        /\ use' = [use EXCEPT ![t] = RLocked(@, th)]
        /\ Acquired(th)
        /\ UNCHANGED answer
     \/ /\ ~closed /\ engine[t] = "nil"
        /\ Goto(th, "want")
        /\ UNCHANGED <<use, todo, answer>>
  /\ UNCHANGED <<shared, op>>

\* s.mu.Lock, for every call that takes it.
Wanting == {"want", "create", "delete", "idle"}
Want(th) ==
  /\ pc[th] \in Wanting /\ CanAnnounce(sMu)
  \* CreateTenant and DeleteTenant look at closed before they lock as well.
  /\ IF closed /\ pc[th] \in {"create", "delete"}
     THEN Return(th, "closed") /\ UNCHANGED sMu
     ELSE /\ sMu' = Announced(sMu, th)
          /\ Goto(th, CASE pc[th] = "want" -> "open" [] pc[th] = "create" -> "creating"
                        [] pc[th] = "delete" -> "deleting" [] OTHER -> "sweep")
          /\ UNCHANGED <<use, answer>>
  /\ UNCHANGED <<shared, op, todo>>

\* Mutant: the slow path does not look at the map again.
OpenStale(th) ==
  /\ pc[th] = "open" /\ CanEnter(sMu, th)
  /\ \/ closed /\ Return(th, "closed") /\ sMu' = Unlocked /\ UNCHANGED engine
     \/ /\ ~closed
        /\ engine' = [engine EXCEPT ![First(th)] = "open"]
        /\ sMu' = Granted(sMu, th) /\ Goto(th, "reenter")
        /\ UNCHANGED <<use, answer>>
  /\ UNCHANGED <<closed, present, op, todo>>

\* Under s.mu: re-check, and open the engine, which can fail.
OpenEngine(th) ==
  LET t == First(th) IN
  /\ pc[th] = "open" /\ CanEnter(sMu, th)
  /\ \/ closed /\ Return(th, "closed") /\ sMu' = Unlocked /\ UNCHANGED engine
     \/ ~closed /\ t \notin present /\ Return(th, "not found") /\ sMu' = Unlocked /\ UNCHANGED engine
     \/ ~closed /\ t \in present /\ engine[t] = "nil" /\ Return(th, "error") /\ sMu' = Unlocked
        /\ UNCHANGED engine
     \/ /\ ~closed /\ t \in present
        /\ engine' = [engine EXCEPT ![t] = "open"]
        /\ sMu' = Granted(sMu, th) /\ Goto(th, "reenter")
        /\ UNCHANGED <<use, answer>>
  /\ UNCHANGED <<closed, present, op, todo>>

Reenter(th) ==
  LET t == First(th) IN
  /\ pc[th] = "reenter" /\ Readable(use[t])
  /\ use' = [use EXCEPT ![t] = RLocked(@, th)]
  /\ sMu' = Released(sMu)
  /\ Acquired(th)
  /\ UNCHANGED <<shared, op, answer>>

\* The engine call itself, and the deferred unlocks.
Use(th) ==
  /\ pc[th] = "using"
  /\ Return(th, "ok")
  /\ UNCHANGED <<shared, sMu, op, todo>>

-----------------------------------------------------------------------------
(* CreateTenant and DeleteTenant. *)

Create(th) ==
  /\ pc[th] = "creating" /\ CanEnter(sMu, th)
  /\ sMu' = Unlocked
  /\ \/ closed /\ Return(th, "closed") /\ UNCHANGED present
     \/ ~closed /\ First(th) \in present /\ Return(th, "exists") /\ UNCHANGED present
     \/ ~closed /\ First(th) \notin present /\ Return(th, "error") /\ UNCHANGED present
     \/ /\ ~closed /\ First(th) \notin present
        /\ present' = present \cup {First(th)}
        /\ Return(th, "ok")
  /\ UNCHANGED <<closed, engine, op, todo>>

DeleteLookup(th) ==
  /\ pc[th] = "deleting" /\ CanEnter(sMu, th)
  /\ \/ closed /\ Return(th, "closed") /\ sMu' = Unlocked
     \/ ~closed /\ First(th) \notin present /\ Return(th, "not found") /\ sMu' = Unlocked
     \/ /\ ~closed /\ First(th) \in present
        /\ sMu' = Granted(sMu, th) /\ Goto(th, "waitOut")
        /\ UNCHANGED <<use, answer>>
  /\ UNCHANGED <<shared, op, todo>>

\* t.use.Lock, to wait out the requests inside.
DeleteWaits(th) ==
  /\ pc[th] = "waitOut" /\ CanAnnounce(use[First(th)])
  /\ use' = [use EXCEPT ![First(th)] = Announced(@, th)]
  /\ Goto(th, "discard")
  /\ UNCHANGED <<shared, sMu, op, todo, answer>>

\* Mutant: the engine is discarded as soon as the lock is asked for.
DeleteHastily(th) ==
  LET t == First(th) IN
  /\ pc[th] = "discard" /\ use[t].waiting = th
  /\ engine' = [engine EXCEPT ![t] = "nil"]
  /\ present' = present \ {t}
  /\ sMu' = Unlocked
  /\ use' = [use EXCEPT ![t].waiting = None]
  /\ Goto(th, "done")
  /\ answer' = [answer EXCEPT ![th] = "ok"]
  /\ UNCHANGED <<closed, op, todo>>

\* The engine is discarded and the directory renamed away, then removed; if
\* the rename fails the tenant stays and the next request opens it again.
DeleteDiscards(th) ==
  LET t == First(th) IN
  /\ pc[th] = "discard" /\ CanEnter(use[t], th)
  /\ \/ engine' = [engine EXCEPT ![t] = "nil"] /\ present' = present \ {t}
        /\ \E a \in {"ok", "error"} : answer' = [answer EXCEPT ![th] = a]
     \/ engine' \in {engine, [engine EXCEPT ![t] = "nil"]} /\ UNCHANGED present
        /\ answer' = [answer EXCEPT ![th] = "error"]
  /\ sMu' = Unlocked
  /\ use' = [use EXCEPT ![t] = Unlocked]
  /\ Goto(th, "done")
  /\ UNCHANGED <<closed, op, todo>>

-----------------------------------------------------------------------------
(* The sweeps: CloseIdle under s.mu, Snapshot over read-locked tenants. *)

\* Any order of the map; every tenant counts as idle.
Orders == {s \in [1..Cardinality(present) -> present] : present = {s[k] : k \in DOMAIN s}}

Sweep(th) ==
  /\ pc[th] = "sweep" /\ CanEnter(sMu, th)
  /\ sMu' = Granted(sMu, th)
  /\ \E s \in Orders : todo' = [todo EXCEPT ![th] = s]
  /\ Goto(th, "closeIdle")
  /\ UNCHANGED <<shared, use, op, answer>>

\* TryLock skips a tenant in use; an engine that fails to close stays open.
CloseIdle(th) ==
  /\ pc[th] = "closeIdle"
  /\ IF todo[th] = <<>>
     THEN Return(th, "ok") /\ sMu' = Unlocked /\ UNCHANGED <<engine, todo>>
     ELSE /\ \/ /\ engine[First(th)] = "open" /\ Free(use[First(th)])
                /\ engine' = [engine EXCEPT ![First(th)] = "nil"]
             \/ UNCHANGED engine
          /\ todo' = [todo EXCEPT ![th] = Tail(@)]
          /\ UNCHANGED <<sMu, use, pc, answer>>
  /\ UNCHANGED <<closed, present, op>>

SnapshotBegins(th) ==
  /\ pc[th] \in {"snapshot", "stats"} /\ Readable(sMu)
  /\ sMu' = RLocked(sMu, th)
  /\ \E s \in Orders : todo' = [todo EXCEPT ![th] = s]
  /\ Goto(th, "collect")
  /\ UNCHANGED <<shared, use, op, answer>>

\* Mutant: a tenant without an engine stays read-locked.
CollectLeaks(th) ==
  /\ pc[th] = "collect"
  /\ IF todo[th] = <<>>
     THEN sMu' = RUnlocked(sMu, th) /\ Goto(th, "save") /\ UNCHANGED <<use, todo, answer>>
     ELSE LET t == First(th) IN
          /\ Readable(use[t])
          /\ use' = [use EXCEPT ![t] = RLocked(@, th)]
          /\ todo' = [todo EXCEPT ![th] = Tail(@)]
          /\ UNCHANGED <<sMu, pc, answer>>
  /\ UNCHANGED <<shared, op>>

\* openTenants read-locks the tenants that have an engine; AllStats gives
\* each of them back at once.
Collect(th) ==
  /\ pc[th] = "collect"
  /\ IF todo[th] = <<>>
     THEN sMu' = RUnlocked(sMu, th) /\ Goto(th, "save") /\ UNCHANGED <<use, todo, answer>>
     ELSE LET t == First(th) IN
          /\ Readable(use[t])
          /\ use' = IF engine[t] = "nil" \/ op[th] = "stats" THEN use ELSE [use EXCEPT ![t] = RLocked(@, th)]
          /\ todo' = [todo EXCEPT ![th] = Tail(@)]
          /\ UNCHANGED <<sMu, pc, answer>>
  /\ UNCHANGED <<shared, op>>

\* One tenant snapshotted and unlocked, in whatever order.
Save(th) ==
  /\ pc[th] = "save"
  /\ \/ \E t \in Tenants :
          /\ th \in use[t].readers /\ engine[t] = "open"
          /\ use' = [use EXCEPT ![t] = RUnlocked(@, th)]
          /\ UNCHANGED <<pc, answer>>
     \/ (\A t \in Tenants : th \notin use[t].readers) /\ Return(th, "ok")
  /\ UNCHANGED <<shared, sMu, op, todo>>

-----------------------------------------------------------------------------
(* Close. *)

CloseBegins(th) ==
  /\ pc[th] = "close"
  /\ IF closed THEN Return(th, "ok") ELSE Goto(th, "list") /\ UNCHANGED <<use, answer>>
  /\ closed' = TRUE
  /\ UNCHANGED <<present, engine, sMu, op, todo>>

CloseLists(th) ==
  /\ pc[th] = "list" /\ Readable(sMu)
  /\ \E s \in Orders : todo' = [todo EXCEPT ![th] = s]
  /\ Goto(th, "closing")
  /\ UNCHANGED <<shared, locks, op, answer>>

CloseWaits(th) ==
  /\ pc[th] = "closing"
  /\ IF todo[th] = <<>> THEN Return(th, "ok")
     ELSE /\ CanAnnounce(use[First(th)])
          /\ use' = [use EXCEPT ![First(th)] = Announced(@, th)]
          /\ Goto(th, "closeOne")
          /\ UNCHANGED answer
  /\ UNCHANGED <<shared, sMu, op, todo>>

CloseOne(th) ==
  LET t == First(th) IN
  /\ pc[th] = "closeOne" /\ CanEnter(use[t], th)
  /\ engine' = [engine EXCEPT ![t] = "nil"]
  /\ use' = [use EXCEPT ![t] = Unlocked]
  /\ todo' = [todo EXCEPT ![th] = Tail(@)]
  /\ Goto(th, "closing")
  /\ UNCHANGED <<closed, present, sMu, op, answer>>

-----------------------------------------------------------------------------
Step(th) ==
  \/ CheckClosed(th) \/ Lookup(th) \/ Enter(th) \/ Want(th) \/ OpenEngine(th) \/ Reenter(th)
  \/ Use(th) \/ Create(th) \/ DeleteLookup(th) \/ DeleteWaits(th) \/ DeleteDiscards(th)
  \/ Sweep(th) \/ CloseIdle(th) \/ SnapshotBegins(th) \/ Collect(th) \/ Save(th)
  \/ CloseBegins(th) \/ CloseLists(th) \/ CloseWaits(th) \/ CloseOne(th)

Next == \E th \in Threads : Start(th) \/ Step(th)

\* A goroutine that can go on is scheduled; RWMutex starves nobody.
Spec == Init /\ [][Next]_vars /\ \A th \in Threads : WF_vars(Step(th))

-----------------------------------------------------------------------------
\* A request at work finds every engine it acquired open: CloseIdle,
\* DeleteTenant and Close only close an engine nobody is using.
EngineOpenWhileUsed ==
  \A t \in Tenants : engine[t] = "nil" => use[t].readers = {}

Closers == {th \in Threads : op[th] = "close"}

Closed == Closers # {} /\ \A th \in Closers : pc[th] = "done"

\* A tenant that is not in the map has no engine, and once Close has returned
\* none has: DeleteTenant and Close leave none behind, and a request that was on
\* its way in when they began does not open one again.
GoneForGood == \A t \in Tenants : Closed \/ t \notin present => engine[t] = "nil"

\* Every call returns.
CallsReturn == \A th \in Threads : Running(th) ~> pc[th] = "done"

=============================================================================
