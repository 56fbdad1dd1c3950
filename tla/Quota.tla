------------------------------- MODULE Quota -------------------------------
(***************************************************************************)
(* The vector quota (Store.reserve, Insert and InsertBatches in            *)
(* internal/engine/store.go): every write reserves room for the ids that   *)
(* are new in each of its tenants, then writes, then releases.  The reads  *)
(* and the atomic counter that make up one reservation are separate steps, *)
(* interleaved with other writes, deletes and SetQuota.                    *)
(***************************************************************************)
EXTENDS Integers, Sequences, FiniteSets

CONSTANTS
  Calls, Tenants, Ids,
  Contents,    \* what a tenant may hold when the store is opened
  Limits,      \* the quotas a tenant may have; 0 is unlimited
  MaxDeletes,  \* bound: deletes
  MaxQuotas    \* bound: SetQuota calls

ASSUME ConstantsAssumption ==
  IsFiniteSet(Ids) /\ Contents \subseteq SUBSET Ids /\ Limits \subseteq Nat

VARIABLES
  stored, limit, reserved,          \* per tenant
  pc, request, pos, quota, new, size, held,   \* per call
  high,      \* history: the highest quota a tenant had, 0 once it had none
  lapses,    \* history: tenants where a write was overtaken, see Overtakes
  deletes, quotas

tenantVars == <<stored, limit, reserved, high>>
vars == <<tenantVars, pc, request, pos, quota, new, size, held, lapses, deletes, quotas>>

\* One tenant's share of a request.
Batches == [tenant : Tenants, ids : SUBSET Ids \ {{}}]
Requests ==
  {<<b>> : b \in Batches} \cup {r \in Batches \X Batches : r[1].tenant # r[2].tenant}

Init ==
  /\ stored \in [Tenants -> Contents]
  /\ limit \in [Tenants -> Limits] /\ high = limit
  /\ \A t \in Tenants : limit[t] > 0 => Cardinality(stored[t]) <= limit[t]
  /\ reserved = [t \in Tenants |-> 0]
  /\ pc = [c \in Calls |-> "idle"]
  /\ request = [c \in Calls |-> <<>>]
  /\ pos = [c \in Calls |-> 1]
  /\ quota = [c \in Calls |-> 0] /\ new = [c \in Calls |-> 0] /\ size = [c \in Calls |-> 0]
  /\ held = [c \in Calls |-> <<>>]
  /\ lapses = {} /\ deletes = 0 /\ quotas = 0

Batch(c) == request[c][pos[c]]

Start(c) ==
  /\ pc[c] = "idle"
  /\ \E r \in Requests : request' = [request EXCEPT ![c] = r]
  /\ pc' = [pc EXCEPT ![c] = "quota"]
  /\ UNCHANGED <<tenantVars, pos, quota, new, size, held, lapses, deletes, quotas>>

\* A vector of the wrong dimension or an empty rate bucket, in any of the
\* tenants, before the first reservation.
Refuse(c) ==
  /\ pc[c] = "quota" /\ pos[c] = 1
  /\ pc' = [pc EXCEPT ![c] = "release"]
  /\ UNCHANGED <<tenantVars, request, pos, quota, new, size, held, lapses, deletes, quotas>>

\* The next tenant's reservation, or the first tenant's write.
Advance(c) ==
  IF pos[c] < Len(request[c])
  THEN pos' = [pos EXCEPT ![c] = @ + 1] /\ pc' = [pc EXCEPT ![c] = "quota"]
  ELSE pos' = [pos EXCEPT ![c] = 1] /\ pc' = [pc EXCEPT ![c] = "write"]

\* reserve's own variables are gone when it returns.
Forget(c) ==
  /\ quota' = [quota EXCEPT ![c] = 0] /\ new' = [new EXCEPT ![c] = 0]
  /\ size' = [size EXCEPT ![c] = 0]

ReadQuota(c) ==
  /\ pc[c] = "quota"
  /\ \/ limit[Batch(c).tenant] = 0 /\ Advance(c) /\ UNCHANGED quota
     \/ /\ limit[Batch(c).tenant] > 0
        /\ quota' = [quota EXCEPT ![c] = limit[Batch(c).tenant]]
        /\ pc' = [pc EXCEPT ![c] = "count"] /\ UNCHANGED pos
  /\ UNCHANGED <<tenantVars, request, new, size, held, lapses, deletes, quotas>>

CountNew(c) ==
  /\ pc[c] = "count"
  /\ new' = [new EXCEPT ![c] = Cardinality(Batch(c).ids \ stored[Batch(c).tenant])]
  /\ pc' = [pc EXCEPT ![c] = "size"]
  /\ UNCHANGED <<tenantVars, request, pos, quota, size, held, lapses, deletes, quotas>>

\* The left operand of the check is evaluated first.
ReadLen(c) ==
  /\ pc[c] = "size"
  /\ size' = [size EXCEPT ![c] = Cardinality(stored[Batch(c).tenant])]
  /\ pc' = [pc EXCEPT ![c] = "reserve"]
  /\ UNCHANGED <<tenantVars, request, pos, quota, new, held, lapses, deletes, quotas>>

\* Mutant: a batch that just fills the quota, plus one, gets in.
ReserveOneMore(c) ==
  LET t == Batch(c).tenant IN
  /\ pc[c] = "reserve"
  /\ reserved' = [reserved EXCEPT ![t] = @ + new[c]]
  /\ \/ /\ size[c] + reserved'[t] > quota[c] + 1
        /\ pc' = [pc EXCEPT ![c] = "undo"]
        /\ UNCHANGED <<pos, quota, new, size, held>>
     \/ /\ size[c] + reserved'[t] <= quota[c] + 1
        /\ held' = [held EXCEPT ![c] = Append(@, [tenant |-> t, n |-> new[c]])]
        /\ Advance(c) /\ Forget(c)
  /\ UNCHANGED <<stored, limit, high, request, lapses, deletes, quotas>>

\* reserved.Add and the comparison with the quota.
Reserve(c) ==
  LET t == Batch(c).tenant IN
  /\ pc[c] = "reserve"
  /\ reserved' = [reserved EXCEPT ![t] = @ + new[c]]
  /\ \/ /\ size[c] + reserved'[t] > quota[c]
        /\ pc' = [pc EXCEPT ![c] = "undo"]
        /\ UNCHANGED <<pos, quota, new, size, held>>
     \/ /\ size[c] + reserved'[t] <= quota[c]
        /\ held' = [held EXCEPT ![c] = Append(@, [tenant |-> t, n |-> new[c]])]
        /\ Advance(c) /\ Forget(c)
  /\ UNCHANGED <<stored, limit, high, request, lapses, deletes, quotas>>

\* Mutant: a refused reservation is not taken back.
UndoForgotten(c) ==
  /\ pc[c] = "undo"
  /\ pc' = [pc EXCEPT ![c] = "release"] /\ Forget(c)
  /\ UNCHANGED <<tenantVars, request, pos, held, lapses, deletes, quotas>>

Undo(c) ==
  /\ pc[c] = "undo"
  /\ reserved' = [reserved EXCEPT ![Batch(c).tenant] = @ - new[c]]
  /\ pc' = [pc EXCEPT ![c] = "release"] /\ Forget(c)
  /\ UNCHANGED <<stored, limit, high, request, pos, held, lapses, deletes, quotas>>

\* Some other call has read what this change makes stale and will still act
\* on it: the size, when ids are added, or which ids are new, when one goes.
Overtakes(others, t, added, removed) ==
  \E d \in others :
    \/ pc[d] = "reserve" /\ Batch(d).tenant = t /\ added \ stored[t] # {}
    \/ /\ pc[d] \in {"quota", "count", "size", "reserve", "write"}
       /\ \E i \in 1..Len(request[d]) :
            /\ request[d][i].tenant = t /\ request[d][i].ids \cap removed # {}
            /\ IF pc[d] \in {"quota", "count"} THEN i < pos[d]
               ELSE IF pc[d] = "write" THEN i >= pos[d] ELSE i <= pos[d]

\* Engine.Insert or InsertBatch for one tenant.
Write(c) ==
  LET t == Batch(c).tenant IN
  /\ pc[c] = "write"
  /\ stored' = [stored EXCEPT ![t] = @ \cup Batch(c).ids]
  /\ lapses' = IF Overtakes(Calls \ {c}, t, Batch(c).ids, {}) THEN lapses \cup {t} ELSE lapses
  /\ IF pos[c] < Len(request[c])
     THEN pos' = [pos EXCEPT ![c] = @ + 1] /\ UNCHANGED pc
     ELSE /\ pc' = [pc EXCEPT ![c] = "release"]
          /\ UNCHANGED pos
  /\ UNCHANGED <<limit, reserved, high, request, quota, new, size, held, deletes, quotas>>

\* A disk error: the tenants already written stay written.
WriteFails(c) ==
  /\ pc[c] = "write"
  /\ pc' = [pc EXCEPT ![c] = "release"]
  /\ UNCHANGED <<tenantVars, request, pos, quota, new, size, held, lapses, deletes, quotas>>

\* The deferred releases, last one first.
Release(c) ==
  /\ pc[c] = "release"
  /\ \/ /\ held[c] # <<>>
        /\ LET h == held[c][Len(held[c])] IN
             reserved' = [reserved EXCEPT ![h.tenant] = @ - h.n]
        /\ held' = [held EXCEPT ![c] = SubSeq(@, 1, Len(@) - 1)]
        /\ UNCHANGED <<pc, request, pos>>
     \/ /\ held[c] = <<>> /\ pc' = [pc EXCEPT ![c] = "returned"]
        /\ request' = [request EXCEPT ![c] = <<>>] /\ pos' = [pos EXCEPT ![c] = 1]
        /\ UNCHANGED <<reserved, held>>
  /\ UNCHANGED <<stored, limit, high, quota, new, size, lapses, deletes, quotas>>

Delete ==
  /\ deletes < MaxDeletes
  /\ \E t \in Tenants : \E id \in stored[t] :
       /\ stored' = [stored EXCEPT ![t] = @ \ {id}]
       /\ lapses' = IF Overtakes(Calls, t, {}, {id}) THEN lapses \cup {t} ELSE lapses
  /\ deletes' = deletes + 1
  /\ UNCHANGED <<limit, reserved, high, pc, request, pos, quota, new, size, held, quotas>>

SetQuota ==
  /\ quotas < MaxQuotas
  /\ \E t \in Tenants, q \in Limits :
       /\ limit' = [limit EXCEPT ![t] = q]
       /\ high' = [high EXCEPT ![t] = IF @ = 0 \/ q = 0 THEN 0 ELSE IF q > @ THEN q ELSE @]
  /\ quotas' = quotas + 1
  /\ UNCHANGED <<stored, reserved, pc, request, pos, quota, new, size, held, lapses, deletes>>

Step(c) ==
  \/ Start(c) \/ Refuse(c) \/ ReadQuota(c) \/ CountNew(c) \/ ReadLen(c) \/ Reserve(c) \/ Undo(c)
  \/ Write(c) \/ WriteFails(c) \/ Release(c)

Next == Delete \/ SetQuota \/ \E c \in Calls : Step(c)

Spec == Init /\ [][Next]_vars

-----------------------------------------------------------------------------
\* How much of a tenant's quota a call's i-th reservation holds; the 0th is
\* the one it is about to take back.
Amount(c, i, t) ==
  IF i = 0 THEN (IF pc[c] = "undo" /\ Batch(c).tenant = t THEN new[c] ELSE 0)
  ELSE IF i \in 1..Len(held[c]) /\ held[c][i].tenant = t THEN held[c][i].n ELSE 0

\* n places, in a call's i-th reservation.
Places(c, i, n) == {<<c, i, k>> : k \in 1..n}

\* The places of a tenant that the calls have reserved and not given back.
Holds(c, t) == UNION {Places(c, i, Amount(c, i, t)) : i \in 0..Len(held[c])}
Reserved(t) == UNION {Holds(c, t) : c \in Calls}

\* The counter is exactly what the calls in flight hold, on every path: a
\* refusal, a disk error or a later tenant's refusal gives everything back,
\* so the quota never shrinks for good.
ReservationsAddUp == \A t \in Tenants : reserved[t] = Cardinality(Reserved(t))

\* A tenant stays within its quota unless a write slipped in between another
\* call's reads and the use it made of them.
WithinQuotaUnlessOvertaken ==
  \A t \in Tenants : t \notin lapses /\ high[t] > 0 => Cardinality(stored[t]) <= high[t]

=============================================================================
