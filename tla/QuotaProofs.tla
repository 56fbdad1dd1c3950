---------------------------- MODULE QuotaProofs ----------------------------
(***************************************************************************)
(* Proofs about Quota, for any number of calls, any tenants, any finite    *)
(* set of ids and any quotas: the reserved counter is what the calls hold, *)
(* and a tenant whose writes were not overtaken stays within its quota.    *)
(***************************************************************************)
EXTENDS Quota, TLAPS, FiniteSetTheorems

Pcs == {"idle", "quota", "count", "size", "reserve", "undo", "write", "release", "returned"}
Holdings == [tenant : Tenants, n : Nat]

TypeOK ==
  /\ stored \in [Tenants -> SUBSET Ids] /\ limit \in [Tenants -> Nat] /\ high \in [Tenants -> Nat]
  /\ reserved \in [Tenants -> Int] /\ lapses \in SUBSET Tenants
  /\ pc \in [Calls -> Pcs] /\ request \in [Calls -> Seq(Batches)] /\ pos \in [Calls -> Nat]
  /\ quota \in [Calls -> Nat] /\ new \in [Calls -> Nat] /\ size \in [Calls -> Nat]
  /\ held \in [Calls -> Seq(Holdings)]

\* Where a call is in its request.
AtBatch(c) ==
  /\ pc[c] = "idle" => pos[c] = 1
  /\ pc[c] \notin {"idle", "returned"} => request[c] \in Requests /\ pos[c] \in 1..Len(request[c])

\* The i-th batch of a call has its place and is still to be written.
Claimed(c, i) ==
  /\ i \in 1..Len(request[c])
  /\ \/ pc[c] \in {"quota", "count", "size", "reserve"} /\ i < pos[c]
     \/ pc[c] = "write" /\ pos[c] <= i

\* The ids a call is still to write in a tenant, with its place held.
Claims(c, t) ==
  {id \in Ids : \E i \in 1..Len(request[c]) :
     Claimed(c, i) /\ request[c][i].tenant = t /\ id \in request[c][i].ids}

\* A tenant's quota still counts: no write was overtaken, and it always had one.
Counts(t) == t \notin lapses /\ high[t] > 0

\* What a call holds in a tenant is room for what it will add.
Room(c) ==
  \A i \in 1..Len(request[c]) : Claimed(c, i) /\ Counts(request[c][i].tenant) =>
    \E j \in 1..Len(held[c]) :
      /\ held[c][j].tenant = request[c][i].tenant
      /\ Cardinality(request[c][i].ids \ stored[request[c][i].tenant]) <= held[c][j].n

\* What reserve has read is no less than what it would read now.
Reads(c) ==
  pc[c] \in {"count", "size", "reserve"} /\ Counts(Batch(c).tenant) =>
    /\ quota[c] <= high[Batch(c).tenant]
    /\ pc[c] # "count" => Cardinality(Batch(c).ids \ stored[Batch(c).tenant]) <= new[c]
    /\ pc[c] = "reserve" => Cardinality(stored[Batch(c).tenant]) <= size[c]

\* What a tenant stores, and what it will store once every claim is written.
Due(t) == stored[t] \cup {id \in Ids : \E c \in Calls : id \in Claims(c, t)}

Counter(t) == IsFiniteSet(Reserved(t)) /\ reserved[t] = Cardinality(Reserved(t))

\* What the counter bounds.
Placed == \A c \in Calls : AtBatch(c) /\ Room(c)
Bounded ==
  \A t \in Tenants : Counts(t) /\ Counter(t) =>
    Cardinality(Due(t)) <= Cardinality(stored[t]) + reserved[t]

Within(t) ==
  /\ high[t] > 0 => 0 < limit[t] /\ limit[t] <= high[t]
  /\ Counts(t) => Cardinality(Due(t)) <= high[t]

Inv ==
  /\ TypeOK
  /\ \A c \in Calls : AtBatch(c) /\ Room(c) /\ Reads(c)
  /\ \A t \in Tenants : Counter(t) /\ Within(t)

-----------------------------------------------------------------------------
(* Sets of ids and of places, and requests. *)

\* Bounds chain.
LEMMA LeqTrans == \A a, b, c \in Nat : a <= b /\ b <= c => a <= c
  OBVIOUS

\* Sets of ids are finite.
LEMMA IdSets ==
  ASSUME NEW S \in SUBSET Ids
  PROVE  /\ IsFiniteSet(S) /\ Cardinality(S) \in Nat
         /\ \A T \in SUBSET S : IsFiniteSet(T) /\ Cardinality(T) \in Nat /\ Cardinality(T) <= Cardinality(S)
<1>1. IsFiniteSet(S) /\ Cardinality(S) \in Nat
  BY Zenon, ConstantsAssumption, FS_Subset, FS_CardinalityType
<1>2. ASSUME NEW T \in SUBSET S
      PROVE  IsFiniteSet(T) /\ Cardinality(T) \in Nat /\ Cardinality(T) <= Cardinality(S)
  BY Zenon, <1>1, FS_Subset, FS_CardinalityType
<1> QED
  BY ZenonT(60), <1>1, <1>2

\* n places are n.
LEMMA CountPlaces ==
  ASSUME NEW c, NEW i, NEW n \in Nat
  PROVE  IsFiniteSet(Places(c, i, n)) /\ Cardinality(Places(c, i, n)) = n
<1>1. IsFiniteSet(1..n) /\ Cardinality(1..n) = n
  <2>1. IsFiniteSet(1..n) /\ Cardinality(1..n) = IF 1 > n THEN 0 ELSE n - 1 + 1
    BY FS_Interval
  <2> QED
    BY <2>1
<1>2. PICK f \in {[k \in 1..n |-> <<c, i, k>>]} : TRUE
  BY Zenon
<1>3. f \in Bijection(1..n, Places(c, i, n))
  BY SMTT(60), <1>2 DEF Places, Bijection, Injection, Surjection, IsInjective
<1>4. ExistsBijection(1..n, Places(c, i, n))
  BY Zenon, <1>3 DEF ExistsBijection
<1> QED
  BY Zenon, <1>1, <1>4, FS_Bijection

\* Counting places that come and places that go.
LEMMA CountAdded ==
  ASSUME NEW S, IsFiniteSet(S), NEW D, IsFiniteSet(D), S \cap D = {}
  PROVE  IsFiniteSet(S \cup D) /\ Cardinality(S \cup D) = Cardinality(S) + Cardinality(D)
<1>1. Cardinality(S) \in Nat /\ Cardinality(D) \in Nat
  BY Zenon, FS_CardinalityType
<1>2. Cardinality(S \cap D) = 0
  BY Zenon, FS_EmptySet
<1>3. IsFiniteSet(S \cup D) /\ Cardinality(S \cup D) = Cardinality(S) + Cardinality(D) - Cardinality(S \cap D)
  BY Zenon, FS_Union
<1> QED
  BY <1>1, <1>2, <1>3

\* Sizes of disjoint parts subtract.
LEMMA CountRemoved ==
  ASSUME NEW S, IsFiniteSet(S), NEW D, D \subseteq S
  PROVE  IsFiniteSet(S \ D) /\ Cardinality(S \ D) = Cardinality(S) - Cardinality(D)
<1>1. S \cap D = D
  BY Zenon
<1> QED
  BY ZenonT(60), <1>1, FS_Difference

\* A set is no larger than the places held for it, when each of those that
\* share the set has enough of its own.
LEMMA EnoughPlaces ==
  ASSUME NEW C, NEW T, NEW U, IsFiniteSet(U), NEW need \in [C -> SUBSET T],
         \A x \in T : \E c \in C : x \in need[c],
         \A c \in C : /\ IsFiniteSet(need[c])
                      /\ need[c] # {} => \E j : Places(c, j, Cardinality(need[c])) \subseteq U
  PROVE  IsFiniteSet(T) /\ Cardinality(T) <= Cardinality(U)
<1>1. PICK h \in {[c \in C |-> CHOOSE f : f \in Bijection(1..Cardinality(need[c]), need[c])]} : TRUE
  BY Zenon
<1>2. \A c \in C : h[c] \in Bijection(1..Cardinality(need[c]), need[c])
  <2> SUFFICES ASSUME NEW c \in C
               PROVE  \E f : f \in Bijection(1..Cardinality(need[c]), need[c])
    BY Zenon, <1>1
  <2>1. ExistsBijection(1..Cardinality(need[c]), need[c])
    BY Zenon, FS_CardinalityType
  <2> QED
    BY Zenon, <2>1 DEF ExistsBijection
<1>3. PICK q \in {[x \in T |-> CHOOSE c \in C : x \in need[c]]} : TRUE
  BY Zenon
<1>4. \A x \in T : q[x] \in C /\ x \in need[q[x]]
  BY Zenon, <1>3
<1>5. PICK g \in {[c \in C |-> CHOOSE j : Places(c, j, Cardinality(need[c])) \subseteq U]} : TRUE
  BY Zenon
<1>6. \A x \in T : Places(q[x], g[q[x]], Cardinality(need[q[x]])) \subseteq U
  BY Zenon, <1>4, <1>5
<1>7. PICK n \in {[x \in T |-> CHOOSE k \in 1..Cardinality(need[q[x]]) : h[q[x]][k] = x]} : TRUE
  BY Zenon
<1>8. ASSUME NEW x \in T
      PROVE  n[x] \in 1..Cardinality(need[q[x]]) /\ h[q[x]][n[x]] = x
  <2>1. \E k \in 1..Cardinality(need[q[x]]) : h[q[x]][k] = x
    BY Zenon, <1>2, <1>4 DEF Bijection, Surjection
  <2> QED
    BY ZenonT(60), <1>7, <2>1
<1>9. PICK f \in {[x \in T |-> <<q[x], g[q[x]], n[x]>>]} : TRUE
  BY Zenon
<1>10. \A x \in T : f[x] = <<q[x], g[q[x]], n[x]>> /\ f[x] \in U
  BY <1>6, <1>8, <1>9 DEF Places
<1>11. ASSUME NEW x \in T, NEW y \in T, f[x] = f[y]
       PROVE  x = y
  <2>1. q[x] = q[y] /\ n[x] = n[y]
    BY <1>10, <1>11
  <2> QED
    BY Zenon, <1>8, <2>1
<1>12. f \in Injection(T, U)
  BY Zenon, <1>9, <1>10, <1>11 DEF Injection, IsInjective
<1> QED
  BY Zenon, <1>12, FS_Injection

\* A request has one batch, or two of different tenants.
LEMMA RequestFacts ==
  ASSUME NEW r \in Requests
  PROVE  /\ r \in Seq(Batches) /\ Len(r) \in {1, 2}
         /\ \A i, j \in 1..Len(r) : r[i].tenant = r[j].tenant => i = j
<1>1. ASSUME NEW b \in Batches, r = <<b>>
      PROVE  /\ r \in Seq(Batches) /\ Len(r) = 1
             /\ \A i, j \in 1..Len(r) : r[i].tenant = r[j].tenant => i = j
  BY <1>1
<1>2. ASSUME NEW a \in Batches, NEW b \in Batches, r = <<a, b>>, a.tenant # b.tenant
      PROVE  /\ r \in Seq(Batches) /\ Len(r) = 2
             /\ \A i, j \in 1..Len(r) : r[i].tenant = r[j].tenant => i = j
  BY <1>2
<1> QED
  BY <1>1, <1>2 DEF Requests

\* What is in a batch and in a sequence of holdings.
LEMMA BatchTypes ==
  ASSUME NEW r \in Seq(Batches), NEW i \in 1..Len(r)
  PROVE  r[i] \in Batches /\ r[i].tenant \in Tenants /\ r[i].ids \in SUBSET Ids
<1>1. r[i] \in Batches
  OBVIOUS
<1> QED
  BY Zenon, <1>1 DEF Batches

\* A holding is pushed and popped at the end.
LEMMA HeldTypes ==
  ASSUME NEW s \in Seq(Holdings)
  PROVE  /\ Len(s) \in Nat /\ \A i \in 1..Len(s) : s[i] \in Holdings /\ s[i].tenant \in Tenants /\ s[i].n \in Nat
         /\ \A h \in Holdings : /\ Append(s, h) \in Seq(Holdings) /\ Len(Append(s, h)) = Len(s) + 1
                                /\ Append(s, h)[Len(s) + 1] = h
                                /\ \A i \in 1..Len(s) : Append(s, h)[i] = s[i]
         /\ s # <<>> => /\ Len(s) \in 1..Len(s) /\ SubSeq(s, 1, Len(s) - 1) \in Seq(Holdings)
                        /\ Len(SubSeq(s, 1, Len(s) - 1)) = Len(s) - 1
                        /\ \A i \in 1..Len(s) - 1 : SubSeq(s, 1, Len(s) - 1)[i] = s[i]
<1>1. Len(s) \in Nat /\ \A i \in 1..Len(s) : s[i] \in Holdings
  OBVIOUS
<1>2. \A h \in Holdings : h.tenant \in Tenants /\ h.n \in Nat
  BY Zenon DEF Holdings
<1>3. ASSUME NEW h \in Holdings
      PROVE  /\ Append(s, h) \in Seq(Holdings) /\ Len(Append(s, h)) = Len(s) + 1
             /\ Append(s, h)[Len(s) + 1] = h
             /\ \A i \in 1..Len(s) : Append(s, h)[i] = s[i]
  OBVIOUS
<1>4. ASSUME s # <<>>
      PROVE  /\ Len(s) \in 1..Len(s) /\ SubSeq(s, 1, Len(s) - 1) \in Seq(Holdings)
             /\ Len(SubSeq(s, 1, Len(s) - 1)) = Len(s) - 1
             /\ \A i \in 1..Len(s) - 1 : SubSeq(s, 1, Len(s) - 1)[i] = s[i]
  <2>1. Len(s) \in Nat \ {0}
    BY <1>1, <1>4
  <2>2. Len(s) - 1 \in 0..Len(s) /\ Len(s) \in 1..Len(s)
    BY <2>1
  <2>3. ASSUME NEW k \in 0..Len(s)
        PROVE  /\ SubSeq(s, 1, k) \in Seq(Holdings) /\ Len(SubSeq(s, 1, k)) = k
               /\ \A i \in 1..k : SubSeq(s, 1, k)[i] = s[i]
    OBVIOUS
  <2> QED
    BY Zenon, <2>2, <2>3
<1> QED
  BY Zenon, <1>1, <1>2, <1>3, <1>4

-----------------------------------------------------------------------------
(* Types. *)

\* The batch a call is at.
LEMMA AtTypes ==
  ASSUME TypeOK, NEW c \in Calls, AtBatch(c), pc[c] \notin {"idle", "returned"}
  PROVE  /\ request[c] \in Requests /\ pos[c] \in 1..Len(request[c]) /\ Len(request[c]) \in {1, 2}
         /\ Batch(c).tenant \in Tenants /\ Batch(c).ids \in SUBSET Ids
<1>1. request[c] \in Requests /\ pos[c] \in 1..Len(request[c]) /\ request[c] \in Seq(Batches)
  BY Zenon DEF AtBatch, TypeOK
<1> QED
  BY Zenon, <1>1, RequestFacts, BatchTypes DEF Batch

\* A call's steps keep the types, and it stays within its request.
LEMMA TypeAdvance ==
  ASSUME TypeOK, NEW c \in Calls, AtBatch(c), pc[c] \in {"quota", "reserve"}, Advance(c),
         request' = request
  PROVE  pc' \in [Calls -> Pcs] /\ pos' \in [Calls -> Nat] /\ AtBatch(c)'
<1>1. request[c] \in Requests /\ pos[c] \in 1..Len(request[c]) /\ Len(request[c]) \in {1, 2}
  BY Zenon, AtTypes
<1>2. CASE pos[c] < Len(request[c])
  <2>1. pos' = [pos EXCEPT ![c] = pos[c] + 1] /\ pc' = [pc EXCEPT ![c] = "quota"]
    BY Zenon, <1>2 DEF Advance
  <2>2. pos[c] + 1 \in 1..Len(request[c]) /\ pos[c] + 1 \in Nat /\ "quota" \in Pcs
    BY <1>1, <1>2 DEF Pcs
  <2>3. pc' \in [Calls -> Pcs] /\ pos' \in [Calls -> Nat] /\ pc'[c] = "quota" /\ pos'[c] = pos[c] + 1
    BY Zenon, <2>1, <2>2 DEF TypeOK
  <2> QED
    BY Zenon, <1>1, <2>2, <2>3 DEF AtBatch
<1>3. CASE ~(pos[c] < Len(request[c]))
  <2>1. pos' = [pos EXCEPT ![c] = 1] /\ pc' = [pc EXCEPT ![c] = "write"]
    BY Zenon, <1>3 DEF Advance
  <2>2. 1 \in 1..Len(request[c]) /\ "write" \in Pcs
    BY <1>1 DEF Pcs
  <2>3. pc' \in [Calls -> Pcs] /\ pos' \in [Calls -> Nat] /\ pc'[c] = "write" /\ pos'[c] = 1
    BY Zenon, <2>1, <2>2 DEF TypeOK
  <2> QED
    BY Zenon, <1>1, <2>2, <2>3 DEF AtBatch
<1> QED
  BY Zenon, <1>2, <1>3

\* What a call does to the other calls: nothing.
LEMMA Others ==
  ASSUME TypeOK, NEW c \in Calls, Step(c), NEW d \in Calls \ {c}
  PROVE  /\ pc'[d] = pc[d] /\ request'[d] = request[d] /\ pos'[d] = pos[d] /\ held'[d] = held[d]
         /\ quota'[d] = quota[d] /\ new'[d] = new[d] /\ size'[d] = size[d]
<1>0. /\ pc \in [Calls -> Pcs] /\ request \in [Calls -> Seq(Batches)] /\ pos \in [Calls -> Nat]
      /\ quota \in [Calls -> Nat] /\ new \in [Calls -> Nat] /\ size \in [Calls -> Nat]
      /\ held \in [Calls -> Seq(Holdings)]
  BY Zenon DEF TypeOK
<1>1. CASE Start(c) \/ Refuse(c) \/ CountNew(c) \/ ReadLen(c)
  BY Zenon, <1>0, <1>1 DEF Start, Refuse, CountNew, ReadLen
<1>2. CASE ReadQuota(c)
  BY ZenonT(60), <1>0, <1>2 DEF ReadQuota, Advance
<1>3. CASE Reserve(c)
  <2>1. UNCHANGED <<pos, quota, new, size, held>> \/ (Advance(c) /\ Forget(c))
    BY Zenon, <1>3 DEF Reserve
  <2>2. held'[d] = held[d] /\ request'[d] = request[d]
    BY Zenon, <1>0, <1>3 DEF Reserve
  <2>3. pc'[d] = pc[d] /\ pos'[d] = pos[d]
    BY ZenonT(60), <1>0, <1>3 DEF Reserve, Advance
  <2> QED
    BY Zenon, <1>0, <2>1, <2>2, <2>3 DEF Forget
<1>4. CASE Undo(c) \/ Write(c) \/ WriteFails(c)
  BY ZenonT(60), <1>0, <1>4 DEF Undo, Write, WriteFails, Forget
<1>5. CASE Release(c)
  BY Zenon, <1>0, <1>5 DEF Release
<1> QED
  BY Zenon, <1>1, <1>2, <1>3, <1>4, <1>5 DEF Step

\* The steps of a call.
LEMMA TypeStep ==
  ASSUME Inv, NEW c \in Calls, Step(c)
  PROVE  TypeOK' /\ AtBatch(c)'
<1>0. TypeOK /\ AtBatch(c)
  BY Zenon DEF Inv
<1>1. CASE Start(c)
  <2>1. PICK r \in Requests : request' = [request EXCEPT ![c] = r]
    BY Zenon, <1>1 DEF Start
  <2>2. /\ pc[c] = "idle" /\ pc' = [pc EXCEPT ![c] = "quota"] /\ "quota" \in Pcs
        /\ UNCHANGED <<stored, limit, reserved, high, pos, quota, new, size, held, lapses>>
    BY Zenon, <1>1 DEF Start, tenantVars, Pcs
  <2>3. r \in Seq(Batches) /\ Len(r) \in {1, 2}
    BY Zenon, RequestFacts
  <2>4. TypeOK'
    BY Zenon, <1>0, <2>1, <2>2, <2>3 DEF TypeOK
  <2>5. request'[c] = r /\ pos'[c] = 1 /\ pc'[c] = "quota"
    BY Zenon, <1>0, <2>1, <2>2 DEF TypeOK, AtBatch
  <2>6. 1 \in 1..Len(r)
    <3>1. PICK l \in {1, 2} : Len(r) = l
      BY Zenon, <2>3
    <3>2. 1 \in 1..l
      OBVIOUS
    <3> QED
      BY Zenon, <3>1, <3>2
  <2> QED
    BY Zenon, <2>1, <2>4, <2>5, <2>6 DEF AtBatch
<1>2. CASE Refuse(c) \/ WriteFails(c)
  <2>1. /\ pc[c] \in {"quota", "write"} /\ pc' = [pc EXCEPT ![c] = "release"] /\ "release" \in Pcs
        /\ UNCHANGED <<stored, limit, reserved, high, request, pos, quota, new, size, held, lapses>>
    BY Zenon, <1>2 DEF Refuse, WriteFails, tenantVars, Pcs
  <2>2. TypeOK'
    BY Zenon, <1>0, <2>1 DEF TypeOK
  <2>3. pc'[c] = "release"
    BY Zenon, <1>0, <2>1 DEF TypeOK
  <2> QED
    BY Zenon, <1>0, <2>1, <2>2, <2>3 DEF AtBatch
<1>3. CASE ReadQuota(c)
  <2>1. UNCHANGED <<stored, limit, reserved, high, request, new, size, held, lapses>> /\ pc[c] = "quota"
    BY Zenon, <1>3 DEF ReadQuota, tenantVars
  <2>2. CASE Advance(c) /\ UNCHANGED quota
    BY Zenon, <1>0, <2>1, <2>2, TypeAdvance DEF TypeOK
  <2>3. CASE quota' = [quota EXCEPT ![c] = limit[Batch(c).tenant]] /\ pc' = [pc EXCEPT ![c] = "count"]
             /\ UNCHANGED pos
    <3>1. limit[Batch(c).tenant] \in Nat /\ "count" \in Pcs
      BY Zenon, <1>0, <2>1, AtTypes DEF TypeOK, Pcs
    <3>2. TypeOK'
      BY Zenon, <1>0, <2>1, <2>3, <3>1 DEF TypeOK
    <3>3. pc'[c] = "count"
      BY Zenon, <1>0, <2>3 DEF TypeOK
    <3> QED
      BY Zenon, <1>0, <2>1, <2>3, <3>2, <3>3 DEF AtBatch
  <2> QED
    BY Zenon, <1>3, <2>2, <2>3 DEF ReadQuota
<1>4. CASE CountNew(c)
  <2>1. /\ pc[c] = "count" /\ pc' = [pc EXCEPT ![c] = "size"] /\ "size" \in Pcs
        /\ new' = [new EXCEPT ![c] = Cardinality(Batch(c).ids \ stored[Batch(c).tenant])]
        /\ UNCHANGED <<stored, limit, reserved, high, request, pos, quota, size, held, lapses>>
    BY Zenon, <1>4 DEF CountNew, tenantVars, Pcs
  <2>2. Batch(c).ids \ stored[Batch(c).tenant] \in SUBSET Ids
    BY Zenon, <1>0, <2>1, AtTypes
  <2>3. Cardinality(Batch(c).ids \ stored[Batch(c).tenant]) \in Nat
    BY Zenon, <2>2, IdSets
  <2>4. TypeOK'
    BY Zenon, <1>0, <2>1, <2>3 DEF TypeOK
  <2>5. pc'[c] = "size"
    BY Zenon, <1>0, <2>1 DEF TypeOK
  <2> QED
    BY Zenon, <1>0, <2>1, <2>4, <2>5 DEF AtBatch
<1>5. CASE ReadLen(c)
  <2>1. /\ pc[c] = "size" /\ pc' = [pc EXCEPT ![c] = "reserve"] /\ "reserve" \in Pcs
        /\ size' = [size EXCEPT ![c] = Cardinality(stored[Batch(c).tenant])]
        /\ UNCHANGED <<stored, limit, reserved, high, request, pos, quota, new, held, lapses>>
    BY Zenon, <1>5 DEF ReadLen, tenantVars, Pcs
  <2>2. stored[Batch(c).tenant] \in SUBSET Ids
    BY Zenon, <1>0, <2>1, AtTypes DEF TypeOK
  <2>3. Cardinality(stored[Batch(c).tenant]) \in Nat
    BY Zenon, <2>2, IdSets
  <2>4. TypeOK'
    BY Zenon, <1>0, <2>1, <2>3 DEF TypeOK
  <2>5. pc'[c] = "reserve"
    BY Zenon, <1>0, <2>1 DEF TypeOK
  <2> QED
    BY Zenon, <1>0, <2>1, <2>4, <2>5 DEF AtBatch
<1>6. CASE Reserve(c)
  <2>1. /\ pc[c] = "reserve" /\ reserved' = [reserved EXCEPT ![Batch(c).tenant] = reserved[Batch(c).tenant] + new[c]]
        /\ UNCHANGED <<stored, limit, high, request, lapses>>
    BY Zenon, <1>6 DEF Reserve
  <2>2. Batch(c).tenant \in Tenants
    BY Zenon, <1>0, <2>1, AtTypes
  <2>3. reserved' \in [Tenants -> Int]
    BY SMTT(60), <1>0, <2>1, <2>2 DEF TypeOK
  <2>4. CASE pc' = [pc EXCEPT ![c] = "undo"] /\ UNCHANGED <<pos, quota, new, size, held>>
    <3>1. "undo" \in Pcs
      BY Zenon DEF Pcs
    <3>2. TypeOK'
      BY Zenon, <1>0, <2>1, <2>3, <2>4, <3>1 DEF TypeOK
    <3>3. pc'[c] = "undo"
      BY Zenon, <1>0, <2>4 DEF TypeOK
    <3> QED
      BY Zenon, <1>0, <2>1, <2>4, <3>2, <3>3 DEF AtBatch
  <2>5. CASE /\ held' = [held EXCEPT ![c] = Append(held[c], [tenant |-> Batch(c).tenant, n |-> new[c]])]
             /\ Advance(c) /\ Forget(c)
    <3>1. [tenant |-> Batch(c).tenant, n |-> new[c]] \in Holdings
      BY Zenon, <1>0, <2>2 DEF TypeOK, Holdings
    <3>2. held' \in [Calls -> Seq(Holdings)]
      BY Zenon, <1>0, <2>5, <3>1, HeldTypes DEF TypeOK
    <3>3. quota' \in [Calls -> Nat] /\ new' \in [Calls -> Nat] /\ size' \in [Calls -> Nat]
      BY Zenon, <1>0, <2>5 DEF TypeOK, Forget
    <3>4. pc' \in [Calls -> Pcs] /\ pos' \in [Calls -> Nat] /\ AtBatch(c)'
      BY Zenon, <1>0, <2>1, <2>5, TypeAdvance
    <3> QED
      BY Zenon, <1>0, <2>1, <2>3, <3>2, <3>3, <3>4 DEF TypeOK
  <2> QED
    BY Zenon, <1>6, <2>4, <2>5 DEF Reserve
<1>7. CASE Undo(c)
  <2>1. /\ pc[c] = "undo" /\ reserved' = [reserved EXCEPT ![Batch(c).tenant] = reserved[Batch(c).tenant] - new[c]]
        /\ pc' = [pc EXCEPT ![c] = "release"] /\ "release" \in Pcs /\ Forget(c)
        /\ UNCHANGED <<stored, limit, high, request, pos, held, lapses>>
    BY Zenon, <1>7 DEF Undo, Pcs
  <2>2. Batch(c).tenant \in Tenants
    BY Zenon, <1>0, <2>1, AtTypes
  <2>3. reserved' \in [Tenants -> Int]
    BY SMTT(60), <1>0, <2>1, <2>2 DEF TypeOK
  <2>4. quota' \in [Calls -> Nat] /\ new' \in [Calls -> Nat] /\ size' \in [Calls -> Nat]
    BY Zenon, <1>0, <2>1 DEF TypeOK, Forget
  <2>5. TypeOK'
    BY Zenon, <1>0, <2>1, <2>3, <2>4 DEF TypeOK
  <2>6. pc'[c] = "release"
    BY Zenon, <1>0, <2>1 DEF TypeOK
  <2> QED
    BY Zenon, <1>0, <2>1, <2>5, <2>6 DEF AtBatch
<1>8. CASE Write(c)
  <2>1. /\ pc[c] = "write" /\ UNCHANGED <<limit, reserved, high, request, quota, new, size, held>>
        /\ stored' = [stored EXCEPT ![Batch(c).tenant] = stored[Batch(c).tenant] \cup Batch(c).ids]
        /\ lapses' = lapses \/ lapses' = lapses \cup {Batch(c).tenant}
    BY Zenon, <1>8 DEF Write
  <2>2. /\ Batch(c).tenant \in Tenants /\ Batch(c).ids \in SUBSET Ids /\ pos[c] \in 1..Len(request[c])
        /\ Len(request[c]) \in {1, 2} /\ request[c] \in Requests
    BY Zenon, <1>0, <2>1, AtTypes
  <2>3. stored' \in [Tenants -> SUBSET Ids] /\ lapses' \in SUBSET Tenants
    BY Zenon, <1>0, <2>1, <2>2 DEF TypeOK
  <2>4. CASE pos[c] < Len(request[c]) /\ pos' = [pos EXCEPT ![c] = pos[c] + 1] /\ UNCHANGED pc
    <3>1. pos[c] + 1 \in 1..Len(request[c]) /\ pos[c] + 1 \in Nat
      BY <2>2, <2>4
    <3>2. pos' \in [Calls -> Nat] /\ pos'[c] = pos[c] + 1
      BY Zenon, <1>0, <2>4, <3>1 DEF TypeOK
    <3>3. TypeOK'
      BY Zenon, <1>0, <2>1, <2>3, <2>4, <3>2 DEF TypeOK
    <3> QED
      BY Zenon, <2>1, <2>2, <2>4, <3>1, <3>2, <3>3 DEF AtBatch
  <2>5. CASE pc' = [pc EXCEPT ![c] = "release"] /\ UNCHANGED pos
    <3>1. "release" \in Pcs
      BY Zenon DEF Pcs
    <3>2. TypeOK'
      BY Zenon, <1>0, <2>1, <2>3, <2>5, <3>1 DEF TypeOK
    <3>3. pc'[c] = "release"
      BY Zenon, <1>0, <2>5 DEF TypeOK
    <3> QED
      BY Zenon, <1>0, <2>1, <2>5, <3>2, <3>3 DEF AtBatch
  <2> QED
    BY Zenon, <1>8, <2>4, <2>5 DEF Write
<1>9. CASE Release(c)
  <2>1. pc[c] = "release" /\ UNCHANGED <<stored, limit, high, quota, new, size, lapses>>
    BY Zenon, <1>9 DEF Release
  <2>2. CASE held[c] # <<>> /\ UNCHANGED <<pc, request, pos>>
    <3>1. /\ reserved' = [reserved EXCEPT ![held[c][Len(held[c])].tenant] =
                            reserved[held[c][Len(held[c])].tenant] - held[c][Len(held[c])].n]
          /\ held' = [held EXCEPT ![c] = SubSeq(held[c], 1, Len(held[c]) - 1)]
      BY Zenon, <1>9, <2>2 DEF Release
    <3>2. held[c] \in Seq(Holdings)
      BY Zenon, <1>0 DEF TypeOK
    <3>3. /\ held[c][Len(held[c])].tenant \in Tenants /\ held[c][Len(held[c])].n \in Nat
          /\ SubSeq(held[c], 1, Len(held[c]) - 1) \in Seq(Holdings)
      BY Zenon, <2>2, <3>2, HeldTypes
    <3>4. reserved' \in [Tenants -> Int] /\ held' \in [Calls -> Seq(Holdings)]
      <4>1. \A t \in Tenants : reserved[t] - held[c][Len(held[c])].n \in Int
        BY SMTT(60), <1>0, <3>3 DEF TypeOK
      <4> QED
        BY Zenon, <1>0, <3>1, <3>3, <4>1 DEF TypeOK
    <3>5. TypeOK'
      BY Zenon, <1>0, <2>1, <2>2, <3>4 DEF TypeOK
    <3> QED
      BY Zenon, <1>0, <2>2, <3>5 DEF AtBatch
  <2>3. CASE pc' = [pc EXCEPT ![c] = "returned"] /\ request' = [request EXCEPT ![c] = <<>>]
             /\ pos' = [pos EXCEPT ![c] = 1] /\ UNCHANGED <<reserved, held>>
    <3>1. "returned" \in Pcs /\ <<>> \in Seq(Batches)
      BY DEF Pcs
    <3>2. TypeOK'
      BY Zenon, <1>0, <2>1, <2>3, <3>1 DEF TypeOK
    <3>3. pc'[c] = "returned"
      BY Zenon, <1>0, <2>3 DEF TypeOK
    <3> QED
      BY Zenon, <3>2, <3>3 DEF AtBatch
  <2> QED
    BY Zenon, <1>9, <2>2, <2>3 DEF Release
<1> QED
  BY Zenon, <1>1, <1>2, <1>3, <1>4, <1>5, <1>6, <1>7, <1>8, <1>9 DEF Step

\* Deletes and SetQuota.
LEMMA TypeOther ==
  ASSUME Inv, Delete \/ SetQuota
  PROVE  TypeOK' /\ UNCHANGED <<reserved, pc, request, pos, quota, new, size, held>>
<1>0. TypeOK
  BY Zenon DEF Inv
<1>1. CASE Delete
  <2>1. UNCHANGED <<reserved, limit, high, pc, request, pos, quota, new, size, held>>
    BY Zenon, <1>1 DEF Delete
  <2>2. PICK t \in Tenants : \E id \in stored[t] :
          stored' = [stored EXCEPT ![t] = stored[t] \ {id}] /\ (lapses' = lapses \/ lapses' = lapses \cup {t})
    BY Zenon, <1>1 DEF Delete
  <2>3. stored' \in [Tenants -> SUBSET Ids] /\ lapses' \in SUBSET Tenants
    BY Zenon, <1>0, <2>2 DEF TypeOK
  <2> QED
    BY Zenon, <1>0, <2>1, <2>3 DEF TypeOK
<1>2. CASE SetQuota
  <2>1. UNCHANGED <<stored, lapses, reserved, pc, request, pos, quota, new, size, held>>
    BY Zenon, <1>2 DEF SetQuota
  <2>2. PICK t \in Tenants, q \in Limits :
          /\ limit' = [limit EXCEPT ![t] = q]
          /\ high' = [high EXCEPT ![t] = IF @ = 0 \/ q = 0 THEN 0 ELSE IF q > @ THEN q ELSE @]
    BY Zenon, <1>2 DEF SetQuota
  <2>3. limit' \in [Tenants -> Nat] /\ high' \in [Tenants -> Nat]
    BY Zenon, <1>0, <2>2, ConstantsAssumption DEF TypeOK
  <2> QED
    BY Zenon, <1>0, <2>1, <2>3 DEF TypeOK
<1> QED
  BY Zenon, <1>1, <1>2

-----------------------------------------------------------------------------
(* The counter. *)

\* Which places are reserved.
LEMMA ReservedMember ==
  ASSUME TypeOK, NEW t \in Tenants, NEW u
  PROVE  u \in Reserved(t) <=>
           \E d \in Calls, i \in Nat : \E k \in 1..Amount(d, i, t) : u = <<d, i, k>>
<1>1. ASSUME NEW d \in Calls, NEW i \in 0..Len(held[d]), u \in Places(d, i, Amount(d, i, t))
      PROVE  i \in Nat /\ \E k \in 1..Amount(d, i, t) : u = <<d, i, k>>
  BY <1>1 DEF Places
<1>2. ASSUME NEW d \in Calls, NEW i \in Nat, NEW k \in 1..Amount(d, i, t), u = <<d, i, k>>
      PROVE  i \in 0..Len(held[d]) /\ u \in Places(d, i, Amount(d, i, t))
  <2>1. Len(held[d]) \in Nat
    BY DEF TypeOK
  <2>2. i \in 0..Len(held[d])
    BY <2>1 DEF Amount
  <2> QED
    BY Zenon, <1>2, <2>2 DEF Places
<1>3. u \in Reserved(t) <=> \E d \in Calls : \E i \in 0..Len(held[d]) : u \in Places(d, i, Amount(d, i, t))
  <2>1. u \in Reserved(t) <=> \E d \in Calls : u \in Holds(d, t)
    BY Zenon DEF Reserved
  <2>2. ASSUME NEW d \in Calls
        PROVE  u \in Holds(d, t) <=> \E i \in 0..Len(held[d]) : u \in Places(d, i, Amount(d, i, t))
    BY Zenon DEF Holds
  <2> QED
    BY Zenon, <2>1, <2>2
<1> QED
  BY Zenon, <1>1, <1>2, <1>3

\* The same in the next state.
LEMMA ReservedNext ==
  ASSUME TypeOK', NEW t \in Tenants, NEW u
  PROVE  u \in Reserved(t)' <=>
           \E d \in Calls, i \in Nat : \E k \in 1..Amount(d, i, t)' : u = <<d, i, k>>
<1>1. ASSUME NEW d \in Calls, NEW i \in 0..Len(held'[d]), u \in Places(d, i, Amount(d, i, t)')
      PROVE  i \in Nat /\ \E k \in 1..Amount(d, i, t)' : u = <<d, i, k>>
  BY <1>1 DEF Places
<1>2. ASSUME NEW d \in Calls, NEW i \in Nat, NEW k \in 1..Amount(d, i, t)', u = <<d, i, k>>
      PROVE  i \in 0..Len(held'[d]) /\ u \in Places(d, i, Amount(d, i, t)')
  <2>1. Len(held'[d]) \in Nat
    BY DEF TypeOK
  <2>2. i \in 0..Len(held'[d])
    BY <2>1 DEF Amount
  <2> QED
    BY Zenon, <1>2, <2>2 DEF Places
<1>3. u \in Reserved(t)' <=> \E d \in Calls : \E i \in 0..Len(held'[d]) : u \in Places(d, i, Amount(d, i, t)')
  <2>1. u \in Reserved(t)' <=> \E d \in Calls : u \in Holds(d, t)'
    BY Zenon DEF Reserved
  <2>2. ASSUME NEW d \in Calls
        PROVE  u \in Holds(d, t)' <=> \E i \in 0..Len(held'[d]) : u \in Places(d, i, Amount(d, i, t)')
    BY Zenon DEF Holds
  <2> QED
    BY Zenon, <2>1, <2>2
<1> QED
  BY Zenon, <1>1, <1>2, <1>3

\* A step that changes one reservation in t, to or from nothing, and the
\* counter with it.
LEMMA CounterStep ==
  ASSUME TypeOK, TypeOK', NEW t \in Tenants, Counter(t), NEW c \in Calls, NEW j \in Nat,
         NEW m \in Nat, NEW n \in Nat, Amount(c, j, t) = m, Amount(c, j, t)' = n, m = 0 \/ n = 0,
         reserved'[t] = reserved[t] + n - m,
         \A d \in Calls, i \in Nat : (d = c /\ i = j) \/ Amount(d, i, t)' = Amount(d, i, t)
  PROVE  Counter(t)'
<1>0. /\ IsFiniteSet(Reserved(t)) /\ reserved[t] = Cardinality(Reserved(t)) /\ reserved[t] \in Int
      /\ IsFiniteSet(Places(c, j, n)) /\ Cardinality(Places(c, j, n)) = n
      /\ IsFiniteSet(Places(c, j, m)) /\ Cardinality(Places(c, j, m)) = m
  BY ZenonT(60), CountPlaces DEF Counter, TypeOK
<1>1. \A u : u \in Places(c, j, m) <=> \E k \in 1..m : u = <<c, j, k>>
  BY Zenon DEF Places
<1>2. \A u : u \in Places(c, j, n) <=> \E k \in 1..n : u = <<c, j, k>>
  BY Zenon DEF Places
<1>3. CASE m = 0
  <2>1. Reserved(t)' = Reserved(t) \cup Places(c, j, n)
    <3>1. ASSUME NEW u \in Reserved(t)'
          PROVE  u \in Reserved(t) \/ u \in Places(c, j, n)
      <4>1. PICK d \in Calls, i \in Nat : \E k \in 1..Amount(d, i, t)' : u = <<d, i, k>>
        BY <3>1, ReservedNext
      <4> QED
        BY ZenonT(60), <1>2, <4>1, ReservedMember
    <3>2. ASSUME NEW u \in Reserved(t)
          PROVE  u \in Reserved(t)'
      <4>1. PICK d \in Calls, i \in Nat : \E k \in 1..Amount(d, i, t) : u = <<d, i, k>>
        BY <3>2, ReservedMember
      <4>2. ~(d = c /\ i = j)
        BY <1>3, <4>1
      <4> QED
        BY Zenon, <4>1, <4>2, ReservedNext
    <3>3. ASSUME NEW u \in Places(c, j, n)
          PROVE  u \in Reserved(t)'
      BY ZenonT(60), <1>2, <3>3, ReservedNext
    <3> QED
      BY Zenon, <3>1, <3>2, <3>3
  <2>2. Reserved(t) \cap Places(c, j, n) = {}
    <3> SUFFICES ASSUME NEW u \in Reserved(t), u \in Places(c, j, n)
                 PROVE  FALSE
      BY Zenon
    <3>1. PICK d \in Calls, i \in Nat : \E k \in 1..Amount(d, i, t) : u = <<d, i, k>>
      BY ReservedMember
    <3>2. d = c /\ i = j
      BY <1>2, <3>1
    <3> QED
      BY <1>3, <3>1, <3>2
  <2>3. IsFiniteSet(Reserved(t)') /\ Cardinality(Reserved(t)') = Cardinality(Reserved(t)) + n
    BY SMTT(60), <1>0, <2>1, <2>2, CountAdded
  <2> QED
    BY <1>0, <1>3, <2>3 DEF Counter
<1>4. CASE n = 0
  <2>1. Reserved(t)' = Reserved(t) \ Places(c, j, m)
    <3>1. ASSUME NEW u \in Reserved(t)'
          PROVE  u \in Reserved(t) /\ u \notin Places(c, j, m)
      <4>1. PICK d \in Calls, i \in Nat : \E k \in 1..Amount(d, i, t)' : u = <<d, i, k>>
        BY <3>1, ReservedNext
      <4>2. ~(d = c /\ i = j)
        BY <1>4, <4>1
      <4>3. u \in Reserved(t)
        BY Zenon, <4>1, <4>2, ReservedMember
      <4>4. u \notin Places(c, j, m)
        BY <1>1, <4>1, <4>2
      <4> QED
        BY Zenon, <4>3, <4>4
    <3>2. ASSUME NEW u \in Reserved(t), u \notin Places(c, j, m)
          PROVE  u \in Reserved(t)'
      <4>1. PICK d \in Calls, i \in Nat : \E k \in 1..Amount(d, i, t) : u = <<d, i, k>>
        BY <3>2, ReservedMember
      <4>2. ~(d = c /\ i = j)
        BY Zenon, <1>1, <3>2, <4>1
      <4> QED
        BY Zenon, <4>1, <4>2, ReservedNext
    <3> QED
      BY Zenon, <3>1, <3>2
  <2>2. Places(c, j, m) \subseteq Reserved(t)
    BY ZenonT(60), <1>1, ReservedMember
  <2>3. IsFiniteSet(Reserved(t)') /\ Cardinality(Reserved(t)') = Cardinality(Reserved(t)) - m
    BY <1>0, <2>1, <2>2, CountRemoved
  <2> QED
    BY <1>0, <1>4, <2>3 DEF Counter
<1> QED
  BY Zenon, <1>3, <1>4

\* A step that changes none.
LEMMA CounterSame ==
  ASSUME TypeOK, TypeOK', NEW t \in Tenants, Counter(t), reserved'[t] = reserved[t],
         \A d \in Calls, i \in Nat : Amount(d, i, t)' = Amount(d, i, t)
  PROVE  Counter(t)'
<1>1. \A u : u \in Reserved(t)' <=> u \in Reserved(t)
  BY ReservedMember, ReservedNext
<1>2. Reserved(t)' = Reserved(t)
  BY Zenon, <1>1
<1> QED
  BY Zenon, <1>2 DEF Counter

\* What a call's reservations depend on.
LEMMA SameAmount ==
  ASSUME NEW d \in Calls, NEW t \in Tenants, held'[d] = held[d],
         \/ pc[d] # "undo" /\ pc'[d] # "undo"
         \/ /\ pc'[d] = pc[d] /\ request'[d] = request[d] /\ pos'[d] = pos[d] /\ new'[d] = new[d]
  PROVE  \A i \in Nat : Amount(d, i, t)' = Amount(d, i, t)
<1>1. CASE pc[d] # "undo" /\ pc'[d] # "undo"
  BY Zenon, <1>1 DEF Amount
<1>2. CASE pc'[d] = pc[d] /\ request'[d] = request[d] /\ pos'[d] = pos[d] /\ new'[d] = new[d]
  BY Zenon, <1>2 DEF Amount, Batch
<1> QED
  BY Zenon, <1>1, <1>2

\* The steps that do not touch the counter.
LEMMA CounterQuiet ==
  ASSUME Inv, TypeOK', NEW c \in Calls,
         \/ Start(c) \/ Refuse(c) \/ ReadQuota(c) \/ CountNew(c) \/ ReadLen(c) \/ Write(c) \/ WriteFails(c),
         NEW t \in Tenants
  PROVE  Counter(t)'
<1>0. TypeOK /\ Counter(t)
  BY Zenon DEF Inv
<1>1. UNCHANGED <<held, reserved>> /\ pc[c] # "undo"
  BY Zenon DEF Start, Refuse, ReadQuota, CountNew, ReadLen, Write, WriteFails, tenantVars
<1>2. pc'[c] # "undo"
  <2>0. pc \in [Calls -> Pcs]
    BY Zenon, <1>0 DEF TypeOK
  <2>1. CASE Start(c) \/ Refuse(c) \/ CountNew(c) \/ ReadLen(c) \/ WriteFails(c)
    BY Zenon, <2>0, <2>1 DEF Start, Refuse, CountNew, ReadLen, WriteFails
  <2>2. CASE ReadQuota(c)
    BY Zenon, <2>0, <2>2 DEF ReadQuota, Advance
  <2>3. CASE Write(c)
    BY Zenon, <2>0, <1>1, <2>3 DEF Write
  <2> QED
    BY Zenon, <2>1, <2>2, <2>3
<1>3. \A i \in Nat : Amount(c, i, t)' = Amount(c, i, t)
  BY Zenon, <1>1, <1>2, SameAmount
<1>4. ASSUME NEW d \in Calls \ {c}
      PROVE  \A i \in Nat : Amount(d, i, t)' = Amount(d, i, t)
  BY Zenon, <1>0, Others, SameAmount DEF Step
<1> QED
  BY Zenon, <1>0, <1>1, <1>3, <1>4, CounterSame

\* reserved.Add(n), whichever way the comparison goes.
LEMMA CounterReserve ==
  ASSUME Inv, TypeOK', NEW c \in Calls, Reserve(c), NEW t \in Tenants
  PROVE  Counter(t)'
<1>0. /\ TypeOK /\ Counter(t) /\ AtBatch(c) /\ pc[c] = "reserve" /\ held[c] \in Seq(Holdings)
      /\ Len(held[c]) \in Nat /\ new[c] \in Nat /\ reserved[t] \in Int
  <2>1. TypeOK /\ Counter(t) /\ AtBatch(c) /\ pc[c] = "reserve"
    BY Zenon DEF Inv, Reserve
  <2>2. held[c] \in Seq(Holdings) /\ new[c] \in Nat /\ reserved[t] \in Int
    BY Zenon, <2>1 DEF TypeOK
  <2> QED
    BY Zenon, <2>1, <2>2, HeldTypes
<1>1. Batch(c).tenant \in Tenants
  BY Zenon, <1>0, AtTypes
<1>2. reserved'[t] = IF t = Batch(c).tenant THEN reserved[t] + new[c] ELSE reserved[t]
  BY Zenon, <1>0, <1>1 DEF Reserve, TypeOK
<1>3. ASSUME NEW d \in Calls \ {c}
      PROVE  \A i \in Nat : Amount(d, i, t)' = Amount(d, i, t)
  BY Zenon, <1>0, Others, SameAmount DEF Step
<1>4. PICK n \in {IF t = Batch(c).tenant THEN new[c] ELSE 0} : TRUE
  BY Zenon
<1>5. n \in Nat /\ reserved'[t] = reserved[t] + n - 0
  BY <1>0, <1>2, <1>4
<1>6. CASE pc' = [pc EXCEPT ![c] = "undo"] /\ UNCHANGED <<pos, quota, new, size, held>>
  <2>1. pc'[c] = "undo" /\ Batch(c)' = Batch(c) /\ held'[c] = held[c] /\ new'[c] = new[c]
    BY Zenon, <1>0, <1>6 DEF TypeOK, Reserve, Batch
  <2>2. Amount(c, 0, t) = 0
    BY Zenon, <1>0 DEF Amount
  <2>3. Amount(c, 0, t)' = n
    BY Zenon, <1>4, <2>1 DEF Amount
  <2>4. \A i \in Nat : i = 0 \/ Amount(c, i, t)' = Amount(c, i, t)
    BY Zenon, <2>1 DEF Amount
  <2>5. \A d \in Calls, i \in Nat : (d = c /\ i = 0) \/ Amount(d, i, t)' = Amount(d, i, t)
    BY Zenon, <1>3, <2>4
  <2>6. 0 \in Nat
    BY Zenon
  <2> QED
    BY Zenon, <1>0, <1>5, <2>2, <2>3, <2>5, <2>6, CounterStep
<1>7. CASE /\ held' = [held EXCEPT ![c] = Append(held[c], [tenant |-> Batch(c).tenant, n |-> new[c]])]
           /\ Advance(c)
  <2>1. PICK h \in Holdings : h.tenant = Batch(c).tenant /\ h.n = new[c] /\ held'[c] = Append(held[c], h)
    <3>1. [tenant |-> Batch(c).tenant, n |-> new[c]] \in Holdings
      BY Zenon, <1>0, <1>1 DEF Holdings
    <3>2. held'[c] = Append(held[c], [tenant |-> Batch(c).tenant, n |-> new[c]])
      BY Zenon, <1>0, <1>7 DEF TypeOK
    <3> QED
      BY Zenon, <3>1, <3>2
  <2>2. PICK l \in Nat : l = Len(held[c])
    BY Zenon, <1>0
  <2>3. Len(held'[c]) = l + 1 /\ held'[c][l + 1] = h /\ \A i \in 1..l : held'[c][i] = held[c][i]
    BY <1>0, <2>1, <2>2, HeldTypes
  <2>4. pc'[c] # "undo"
    BY Zenon, <1>0, <1>7 DEF TypeOK, Advance
  <2>5. l + 1 \in 1..l + 1 /\ l + 1 \notin 1..l /\ l + 1 # 0 /\ l + 1 \in Nat
    OBVIOUS
  <2>6. Amount(c, l + 1, t) = 0
    BY Zenon, <2>2, <2>5 DEF Amount
  <2>7. Amount(c, l + 1, t)' = n
    BY Zenon, <1>4, <2>1, <2>3, <2>5 DEF Amount
  <2>8. ASSUME NEW i \in Nat, i # l + 1
        PROVE  Amount(c, i, t)' = Amount(c, i, t)
    <3>1. i \in 1..l + 1 <=> i \in 1..l
      BY <2>8
    <3> QED
      BY Zenon, <1>0, <2>2, <2>3, <2>4, <3>1 DEF Amount
  <2>9. \A d \in Calls, i \in Nat : (d = c /\ i = l + 1) \/ Amount(d, i, t)' = Amount(d, i, t)
    BY Zenon, <1>3, <2>8
  <2>10. 0 \in Nat
    BY Zenon
  <2> QED
    BY Zenon, <1>0, <1>5, <2>5, <2>6, <2>7, <2>9, <2>10, CounterStep
<1> QED
  BY Zenon, <1>6, <1>7 DEF Reserve

\* reserved.Add(-n) when the quota is exceeded.
LEMMA CounterUndo ==
  ASSUME Inv, TypeOK', NEW c \in Calls, Undo(c), NEW t \in Tenants
  PROVE  Counter(t)'
<1>0. /\ TypeOK /\ Counter(t) /\ AtBatch(c) /\ pc[c] = "undo" /\ held' = held /\ new[c] \in Nat
      /\ reserved[t] \in Int
  BY Zenon DEF Inv, Undo, TypeOK
<1>1. Batch(c).tenant \in Tenants
  BY Zenon, <1>0, AtTypes
<1>2. reserved'[t] = IF t = Batch(c).tenant THEN reserved[t] - new[c] ELSE reserved[t]
  BY Zenon, <1>0, <1>1 DEF Undo, TypeOK
<1>3. ASSUME NEW d \in Calls \ {c}
      PROVE  \A i \in Nat : Amount(d, i, t)' = Amount(d, i, t)
  BY Zenon, <1>0, Others, SameAmount DEF Step
<1>4. PICK m \in {IF t = Batch(c).tenant THEN new[c] ELSE 0} : TRUE
  BY Zenon
<1>5. m \in Nat /\ reserved'[t] = reserved[t] + 0 - m
  BY <1>0, <1>2, <1>4
<1>6. pc'[c] = "release"
  BY Zenon, <1>0 DEF Undo, TypeOK
<1>7. Amount(c, 0, t) = m
  BY Zenon, <1>0, <1>4 DEF Amount
<1>8. Amount(c, 0, t)' = 0
  BY Zenon, <1>6 DEF Amount
<1>9. \A i \in Nat : i = 0 \/ Amount(c, i, t)' = Amount(c, i, t)
  BY Zenon, <1>0 DEF Amount
<1> QED
  BY <1>0, <1>3, <1>5, <1>7, <1>8, <1>9, CounterStep

\* The deferred releases.
LEMMA CounterRelease ==
  ASSUME Inv, TypeOK', NEW c \in Calls, Release(c), NEW t \in Tenants
  PROVE  Counter(t)'
<1>0. TypeOK /\ Counter(t) /\ pc[c] = "release" /\ held[c] \in Seq(Holdings) /\ pc'[c] # "undo"
  BY Zenon DEF Inv, Release, TypeOK
<1>1. ASSUME NEW d \in Calls \ {c}
      PROVE  \A i \in Nat : Amount(d, i, t)' = Amount(d, i, t)
  BY Zenon, <1>0, Others, SameAmount DEF Step
<1>2. CASE UNCHANGED <<reserved, held>>
  <2>1. \A i \in Nat : Amount(c, i, t)' = Amount(c, i, t)
    BY Zenon, <1>0, <1>2, SameAmount
  <2> QED
    BY Zenon, <1>0, <1>1, <1>2, <2>1, CounterSame
<1>3. CASE held[c] # <<>>
           /\ reserved' = [reserved EXCEPT ![held[c][Len(held[c])].tenant] =
                             reserved[held[c][Len(held[c])].tenant] - held[c][Len(held[c])].n]
           /\ held' = [held EXCEPT ![c] = SubSeq(held[c], 1, Len(held[c]) - 1)]
  <2>1. PICK l \in Nat, h \in Holdings : l = Len(held[c]) /\ h = held[c][l]
    BY Zenon, <1>0, <1>3, HeldTypes
  <2>2. /\ l \in 1..l /\ held'[c] = SubSeq(held[c], 1, l - 1) /\ Len(held'[c]) = l - 1
        /\ \A i \in 1..l - 1 : held'[c][i] = held[c][i]
    <3>1. held'[c] = SubSeq(held[c], 1, l - 1)
      BY Zenon, <1>0, <1>3, <2>1 DEF TypeOK
    <3> QED
      BY <1>0, <1>3, <2>1, <3>1, HeldTypes
  <2>3. h.tenant \in Tenants /\ h.n \in Nat
    BY Zenon DEF Holdings
  <2>4. reserved'[t] = IF t = h.tenant THEN reserved[t] - h.n ELSE reserved[t]
    BY Zenon, <1>0, <1>3, <2>1, <2>3 DEF TypeOK
  <2>5. PICK m \in {IF t = h.tenant THEN h.n ELSE 0} : TRUE
    BY Zenon
  <2>6. m \in Nat /\ reserved'[t] = reserved[t] + 0 - m
    <3>1. reserved[t] \in Int
      BY Zenon, <1>0 DEF TypeOK
    <3> QED
      BY <2>3, <2>4, <2>5, <3>1
  <2>7. l \notin 1..l - 1 /\ l # 0
    BY <2>2
  <2>8. Amount(c, l, t) = m
    BY Zenon, <2>1, <2>2, <2>5, <2>7 DEF Amount
  <2>9. Amount(c, l, t)' = 0
    BY Zenon, <2>2, <2>7 DEF Amount
  <2>10. ASSUME NEW i \in Nat, i # l
         PROVE  Amount(c, i, t)' = Amount(c, i, t)
    <3>1. i \in 1..l - 1 <=> i \in 1..l
      BY <2>2, <2>10
    <3> QED
      BY Zenon, <1>0, <2>1, <2>2, <3>1 DEF Amount
  <2> QED
    BY SMTT(60), <1>0, <1>1, <2>6, <2>8, <2>9, <2>10, CounterStep
<1> QED
  BY Zenon, <1>2, <1>3 DEF Release

-----------------------------------------------------------------------------
(* Room for what is still to be written. *)

\* The ids a call claims in a tenant are those of one batch, and it holds
\* places for those that are new.
LEMMA ClaimsHavePlaces ==
  ASSUME TypeOK, NEW d \in Calls, AtBatch(d), Room(d), NEW t \in Tenants, Counts(t),
         Claims(d, t) # {}
  PROVE  \E j \in Nat : Cardinality(Claims(d, t) \ stored[t]) <= Amount(d, j, t)
<1>1. PICK i \in 1..Len(request[d]) : Claimed(d, i) /\ request[d][i].tenant = t
  BY Zenon DEF Claims
<1>2. request[d] \in Requests /\ request[d] \in Seq(Batches) /\ held[d] \in Seq(Holdings)
  BY Zenon, <1>1 DEF Claimed, AtBatch, TypeOK
<1>3. Claims(d, t) \subseteq request[d][i].ids
  <2> SUFFICES ASSUME NEW id \in Claims(d, t)
               PROVE  id \in request[d][i].ids
    BY Zenon
  <2>1. PICK l \in 1..Len(request[d]) : request[d][l].tenant = t /\ id \in request[d][l].ids
    BY Zenon DEF Claims
  <2>2. l = i
    BY Zenon, <1>1, <1>2, <2>1, RequestFacts
  <2> QED
    BY Zenon, <2>1, <2>2
<1>4. PICK j \in 1..Len(held[d]) :
        held[d][j].tenant = t /\ Cardinality(request[d][i].ids \ stored[t]) <= held[d][j].n
  BY Zenon, <1>1 DEF Room
<1>5. request[d][i].ids \ stored[t] \in SUBSET Ids
  BY Zenon, <1>2, BatchTypes
<1>6. Claims(d, t) \ stored[t] \in SUBSET (request[d][i].ids \ stored[t])
  BY Zenon, <1>3
<1>7. /\ Cardinality(Claims(d, t) \ stored[t]) \in Nat
      /\ Cardinality(Claims(d, t) \ stored[t]) <= Cardinality(request[d][i].ids \ stored[t])
      /\ Cardinality(request[d][i].ids \ stored[t]) \in Nat
  BY Zenon, <1>5, <1>6, IdSets
<1>8. held[d][j].n \in Nat /\ j \in Nat /\ j # 0
  BY <1>2, HeldTypes
<1>9. Amount(d, j, t) = held[d][j].n
  BY Zenon, <1>4, <1>8 DEF Amount
<1>10. Cardinality(Claims(d, t) \ stored[t]) <= Amount(d, j, t)
  BY Zenon, <1>4, <1>7, <1>8, <1>9, LeqTrans
<1> QED
  BY Zenon, <1>8, <1>10

\* So the counter bounds what a tenant will store beyond what it stores.
LEMMA DueBound == TypeOK /\ Placed => Bounded
<1> SUFFICES ASSUME NEW t \in Tenants, TypeOK, \A d \in Calls : AtBatch(d) /\ Room(d), Counts(t), Counter(t)
             PROVE  Cardinality(Due(t)) <= Cardinality(stored[t]) + reserved[t]
  BY Zenon DEF Placed, Bounded
<1>1. PICK T \in SUBSET Ids : T = {id \in Ids : \E d \in Calls : id \in Claims(d, t) \ stored[t]}
  BY Zenon
<1>2. PICK need \in [Calls -> SUBSET T] : \A d \in Calls : need[d] = Claims(d, t) \ stored[t]
  <2>1. \A d \in Calls : Claims(d, t) \ stored[t] \subseteq T
    BY Zenon, <1>1 DEF Claims
  <2>2. [d \in Calls |-> Claims(d, t) \ stored[t]] \in [Calls -> SUBSET T]
    BY Zenon, <2>1
  <2> QED
    BY Zenon, <2>2
<1>3. \A id \in T : \E d \in Calls : id \in need[d]
  BY Zenon, <1>1, <1>2
<1>4. ASSUME NEW d \in Calls
      PROVE  /\ IsFiniteSet(need[d])
             /\ need[d] # {} => \E j : Places(d, j, Cardinality(need[d])) \subseteq Reserved(t)
  <2>1. need[d] \in SUBSET Ids
    BY Zenon, <1>1, <1>2
  <2>2. IsFiniteSet(need[d]) /\ Cardinality(need[d]) \in Nat
    BY Zenon, <2>1, IdSets
  <2>3. ASSUME need[d] # {}
        PROVE  \E j : Places(d, j, Cardinality(need[d])) \subseteq Reserved(t)
    <3>1. Claims(d, t) # {}
      BY Zenon, <1>2, <2>3
    <3>2. PICK j \in Nat : Cardinality(need[d]) <= Amount(d, j, t)
      BY Zenon, <1>2, <3>1, ClaimsHavePlaces
    <3>3. Amount(d, j, t) \in Nat
      <4>1. held[d] \in Seq(Holdings) /\ new[d] \in Nat
        BY Zenon DEF TypeOK
      <4> QED
        BY Zenon, <4>1, HeldTypes DEF Amount
    <3>4. ASSUME NEW u \in Places(d, j, Cardinality(need[d]))
          PROVE  u \in Reserved(t)
      <4>1. PICK k \in 1..Cardinality(need[d]) : u = <<d, j, k>>
        BY Zenon, <3>4 DEF Places
      <4>2. k \in 1..Amount(d, j, t)
        BY <2>2, <3>2, <3>3
      <4> QED
        BY Zenon, <4>1, <4>2, ReservedMember
    <3> QED
      BY Zenon, <3>4
  <2> QED
    BY Zenon, <2>2, <2>3
<1>5. IsFiniteSet(Reserved(t)) /\ reserved[t] = Cardinality(Reserved(t))
  BY Zenon DEF Counter
<1>6. Cardinality(T) <= reserved[t]
  <2>1. \A d \in Calls :
          /\ IsFiniteSet(need[d])
          /\ need[d] # {} => \E j : Places(d, j, Cardinality(need[d])) \subseteq Reserved(t)
    BY Zenon, <1>4
  <2>2. need \in [Calls -> SUBSET T]
    BY Zenon, <1>2
  <2>3. Cardinality(T) <= Cardinality(Reserved(t))
    BY <1>3, <1>5, <2>1, <2>2, EnoughPlaces, Zenon
  <2> QED
    BY Zenon, <1>5, <2>3
<1>7. Due(t) = stored[t] \cup T /\ stored[t] \cap T = {} /\ stored[t] \in SUBSET Ids
  BY Zenon, <1>1 DEF Due, TypeOK
<1>8. /\ IsFiniteSet(stored[t]) /\ Cardinality(stored[t]) \in Nat
      /\ IsFiniteSet(T) /\ Cardinality(T) \in Nat
  BY Zenon, <1>7, IdSets
<1>9. Cardinality(Due(t)) = Cardinality(stored[t]) + Cardinality(T)
  BY Zenon, <1>7, <1>8, CountAdded
<1>10. reserved[t] \in Int
  BY Zenon DEF TypeOK
<1> QED
  BY <1>6, <1>8, <1>9, <1>10

-----------------------------------------------------------------------------
(* What a step leaves as it is. *)

\* A call that does not move, while stored changes in no way it depends on.
LEMMA CallKept ==
  ASSUME TypeOK, TypeOK', NEW d \in Calls, AtBatch(d), Room(d), Reads(d),
         pc'[d] = pc[d], request'[d] = request[d], pos'[d] = pos[d], held'[d] = held[d],
         quota'[d] = quota[d], new'[d] = new[d], size'[d] = size[d],
         \A t \in Tenants : Counts(t)' => Counts(t) /\ high[t] <= high'[t],
         \A t \in Tenants, i \in 1..Len(request[d]) :
           /\ Counts(t)' /\ request[d][i].tenant = t
           /\ Claimed(d, i) \/ (pc[d] \in {"size", "reserve"} /\ i = pos[d])
           => request[d][i].ids \ stored'[t] \subseteq request[d][i].ids \ stored[t],
         \A t \in Tenants : Counts(t)' /\ pc[d] = "reserve" /\ Batch(d).tenant = t =>
           stored'[t] \subseteq stored[t]
  PROVE  /\ AtBatch(d)' /\ Room(d)' /\ Reads(d)'
         /\ \A t \in Tenants : Claims(d, t)' = Claims(d, t)
<1>1. AtBatch(d)'
  BY Zenon DEF AtBatch
<1>2. \A i : Claimed(d, i)' <=> Claimed(d, i)
  BY Zenon DEF Claimed
<1>3. \A t \in Tenants : Claims(d, t)' = Claims(d, t)
  BY ZenonT(60), <1>2 DEF Claims
<1>4. request[d] \in Seq(Batches)
  BY Zenon DEF TypeOK
<1>5. Room(d)'
  <2> SUFFICES ASSUME NEW i \in 1..Len(request[d]), Claimed(d, i),
                      NEW t, t = request[d][i].tenant, Counts(t)'
               PROVE  \E j \in 1..Len(held[d]) :
                        /\ held[d][j].tenant = t
                        /\ Cardinality(request[d][i].ids \ stored'[t]) <= held[d][j].n
    BY SMTT(60), <1>2 DEF Room, Counts
  <2>1. t \in Tenants /\ \E ids \in SUBSET Ids : ids = request[d][i].ids
    BY Zenon, <1>4, BatchTypes
  <2> PICK ids \in SUBSET Ids : ids = request[d][i].ids
    BY Zenon, <2>1
  <2>2. PICK j \in 1..Len(held[d]) : held[d][j].tenant = t /\ Cardinality(ids \ stored[t]) <= held[d][j].n
    BY Zenon, <2>1 DEF Room
  <2>3. ids \ stored'[t] \subseteq ids \ stored[t]
    BY Zenon, <2>1
  <2>4. /\ Cardinality(ids \ stored'[t]) <= Cardinality(ids \ stored[t])
        /\ Cardinality(ids \ stored'[t]) \in Nat /\ Cardinality(ids \ stored[t]) \in Nat
    BY Zenon, <2>3, IdSets
  <2>5. held[d][j].n \in Nat
    BY Zenon, HeldTypes DEF TypeOK
  <2> QED
    BY Zenon, <2>1, <2>2, <2>4, <2>5, LeqTrans
<1>6. Reads(d)'
  <2>1. Batch(d)' = Batch(d)
    BY Zenon DEF Batch
  <2> SUFFICES ASSUME pc[d] \in {"count", "size", "reserve"}, NEW t, t = Batch(d).tenant, Counts(t)'
               PROVE  /\ quota[d] <= high'[t]
                      /\ pc[d] # "count" => Cardinality(Batch(d).ids \ stored'[t]) <= new[d]
                      /\ pc[d] = "reserve" => Cardinality(stored'[t]) <= size[d]
    BY Zenon, <2>1 DEF Reads, Counts
  <2>2. t \in Tenants /\ Batch(d).ids \in SUBSET Ids
    BY Zenon, AtTypes
  <2> PICK ids \in SUBSET Ids : ids = Batch(d).ids
    BY Zenon, <2>2
  <2>3. Counts(t) /\ high[t] <= high'[t]
    BY Zenon, <2>2
  <2>4. /\ quota[d] <= high[t]
        /\ pc[d] # "count" => Cardinality(ids \ stored[t]) <= new[d]
        /\ pc[d] = "reserve" => Cardinality(stored[t]) <= size[d]
    BY Zenon, <2>2, <2>3 DEF Reads
  <2>5. /\ quota[d] \in Nat /\ new[d] \in Nat /\ size[d] \in Nat /\ high[t] \in Nat /\ high'[t] \in Nat
        /\ stored[t] \in SUBSET Ids /\ stored'[t] \in SUBSET Ids
    BY Zenon, <2>2 DEF TypeOK
  <2>6. quota[d] <= high'[t]
    BY Zenon, <2>3, <2>4, <2>5, LeqTrans
  <2>7. ASSUME pc[d] # "count"
        PROVE  Cardinality(ids \ stored'[t]) <= new[d]
    <3>1. pos[d] \in 1..Len(request[d]) /\ Batch(d) = request[d][pos[d]]
      BY Zenon DEF AtBatch, Batch
    <3>2. ids \ stored'[t] \subseteq ids \ stored[t]
      BY <2>2, <2>7, <3>1
    <3>3. /\ Cardinality(ids \ stored'[t]) <= Cardinality(ids \ stored[t])
          /\ Cardinality(ids \ stored'[t]) \in Nat /\ Cardinality(ids \ stored[t]) \in Nat
      BY Zenon, <3>2, IdSets
    <3>4. Cardinality(ids \ stored[t]) <= new[d] /\ new[d] \in Nat
      BY Zenon, <2>4, <2>5, <2>7
    <3> QED
      BY ZenonT(30), <3>3, <3>4, LeqTrans
  <2>8. ASSUME pc[d] = "reserve"
        PROVE  Cardinality(stored'[t]) <= size[d]
    <3>1. stored'[t] \subseteq stored[t]
      BY Zenon, <2>2, <2>8
    <3>2. /\ Cardinality(stored'[t]) <= Cardinality(stored[t])
          /\ Cardinality(stored'[t]) \in Nat /\ Cardinality(stored[t]) \in Nat
      BY Zenon, <2>5, <3>1, IdSets
    <3>3. Cardinality(stored[t]) <= size[d] /\ size[d] \in Nat
      BY Zenon, <2>4, <2>5, <2>8
    <3> QED
      BY ZenonT(30), <3>2, <3>3, LeqTrans
  <2> QED
    BY Zenon, <2>2, <2>6, <2>7, <2>8
<1> QED
  BY Zenon, <1>1, <1>3, <1>5, <1>6

\* The other calls, when a call takes a step other than writing.
LEMMA OthersKept ==
  ASSUME Inv, TypeOK', NEW c \in Calls, Step(c), UNCHANGED <<stored, high, lapses>>,
         NEW d \in Calls \ {c}
  PROVE  /\ AtBatch(d)' /\ Room(d)' /\ Reads(d)'
         /\ \A t \in Tenants : Claims(d, t)' = Claims(d, t)
<1>1. TypeOK /\ AtBatch(d) /\ Room(d) /\ Reads(d)
  BY Zenon DEF Inv
<1>2. \A t \in Tenants : (Counts(t)' <=> Counts(t)) /\ high[t] \in Nat
  BY Zenon, <1>1 DEF Counts, TypeOK
<1>3. \A t \in Tenants : Counts(t)' => Counts(t) /\ high[t] <= high'[t]
  BY <1>2
<1> QED
  BY Zenon, <1>1, <1>3, Others, CallKept

\* A tenant's bound is kept when nothing more is claimed in it.
LEMMA WithinKept ==
  ASSUME TypeOK, TypeOK', NEW t \in Tenants, Within(t), limit'[t] = limit[t], high'[t] = high[t],
         Counts(t)' => Counts(t) /\ Due(t)' \subseteq Due(t)
  PROVE  Within(t)'
<1>1. high'[t] > 0 => 0 < limit'[t] /\ limit'[t] <= high'[t]
  BY Zenon DEF Within
<1>2. ASSUME Counts(t)'
      PROVE  Cardinality(Due(t)') <= high'[t]
  <2>1. Cardinality(Due(t)) <= high[t] /\ Due(t)' \subseteq Due(t) /\ high[t] \in Nat
    BY Zenon, <1>2 DEF Within, TypeOK
  <2>2. Due(t) \in SUBSET Ids
    BY Zenon DEF Due, TypeOK
  <2>3. /\ Cardinality(Due(t)') <= Cardinality(Due(t))
        /\ Cardinality(Due(t)') \in Nat /\ Cardinality(Due(t)) \in Nat
    BY Zenon, <2>1, <2>2, IdSets
  <2> QED
    BY Zenon, <2>1, <2>3, LeqTrans
<1> QED
  BY Zenon, <1>1, <1>2 DEF Within

\* The same, when only one call's claims change.
LEMMA WithinFewer ==
  ASSUME Inv, TypeOK', NEW c \in Calls, NEW t \in Tenants, UNCHANGED <<stored, high, lapses>>,
         limit'[t] = limit[t], \A d \in Calls \ {c} : Claims(d, t)' = Claims(d, t),
         Counts(t) => Claims(c, t)' \subseteq Claims(c, t)
  PROVE  Within(t)'
<1>1. TypeOK /\ Within(t)
  BY Zenon DEF Inv
<1>2. Counts(t)' <=> Counts(t)
  BY Zenon DEF Counts
<1>3. ASSUME Counts(t)
      PROVE  Due(t)' \subseteq Due(t)
  <2>1. \A d \in Calls : Claims(d, t)' \subseteq Claims(d, t)
    BY Zenon, <1>3
  <2> QED
    BY Zenon, <2>1 DEF Due
<1> QED
  BY Zenon, <1>1, <1>2, <1>3, WithinKept

-----------------------------------------------------------------------------
(* The steps of a call. *)

\* What a step that does not write owes: room for its own claims.
LEMMA OwnStep ==
  ASSUME Inv, TypeOK', NEW c \in Calls, Step(c), UNCHANGED <<stored, limit, high, lapses>>,
         AtBatch(c)', Room(c)', Reads(c)',
         \A t \in Tenants : Counts(t) => Claims(c, t)' \subseteq Claims(c, t)
  PROVE  /\ \A d \in Calls : AtBatch(d)' /\ Room(d)' /\ Reads(d)'
         /\ \A t \in Tenants : Within(t)'
<1>1. \A d \in Calls \ {c} : /\ AtBatch(d)' /\ Room(d)' /\ Reads(d)'
                             /\ \A t \in Tenants : Claims(d, t)' = Claims(d, t)
  BY Zenon, OthersKept
<1>2. \A t \in Tenants : Within(t)'
  BY Zenon, <1>1, WithinFewer
<1> QED
  BY Zenon, <1>1, <1>2

\* A call that has nothing to write, or nothing left to write.
LEMMA NothingClaimed ==
  ASSUME Inv, TypeOK', NEW c \in Calls, Step(c), UNCHANGED <<stored, limit, high, lapses>>,
         AtBatch(c)', pc'[c] \in {"undo", "release", "returned"} \/ (pc'[c] = "quota" /\ pos'[c] = 1)
  PROVE  /\ \A d \in Calls : AtBatch(d)' /\ Room(d)' /\ Reads(d)'
         /\ \A t \in Tenants : Within(t)'
<1>1. \A i : ~Claimed(c, i)'
  BY DEF Claimed
<1>2. Room(c)' /\ Reads(c)'
  BY Zenon, <1>1 DEF Room, Reads
<1>3. \A t \in Tenants : Claims(c, t)' = {}
  BY Zenon, <1>1 DEF Claims
<1> QED
  BY Zenon, <1>2, <1>3, OwnStep

\* The reads of a reservation: the quota, the new ids, the size.
LEMMA ReadStep ==
  ASSUME Inv, TypeOK', NEW c \in Calls, AtBatch(c)', Step(c),
         \/ ReadQuota(c) /\ limit[Batch(c).tenant] > 0
         \/ CountNew(c) \/ ReadLen(c)
  PROVE  /\ \A d \in Calls : AtBatch(d)' /\ Room(d)' /\ Reads(d)'
         /\ \A t \in Tenants : Within(t)'
<1>1. /\ TypeOK /\ AtBatch(c) /\ Room(c) /\ Reads(c) /\ \A t \in Tenants : Within(t)
      /\ UNCHANGED <<stored, limit, high, lapses, request, pos, held>>
      /\ pc[c] \in {"quota", "count", "size"}
  <2>1. TypeOK /\ AtBatch(c) /\ Room(c) /\ Reads(c) /\ \A t \in Tenants : Within(t)
    BY Zenon DEF Inv
  <2>2. CASE ReadQuota(c) /\ limit[Batch(c).tenant] > 0
    BY <2>1, <2>2 DEF ReadQuota, tenantVars
  <2>3. CASE CountNew(c) \/ ReadLen(c)
    BY Zenon, <2>1, <2>3 DEF CountNew, ReadLen, tenantVars
  <2> QED
    BY Zenon, <2>2, <2>3
<1>2. pc'[c] \in {"count", "size", "reserve"}
  BY <1>1 DEF ReadQuota, CountNew, ReadLen, TypeOK
<1>3. \A i : Claimed(c, i)' <=> Claimed(c, i)
  BY Zenon, <1>1, <1>2 DEF Claimed
<1>4. \A t \in Tenants : Claims(c, t)' = Claims(c, t)
  BY Zenon, <1>1, <1>3 DEF Claims
<1>5. \A t : Counts(t)' <=> Counts(t)
  BY Zenon, <1>1 DEF Counts
<1>6. Room(c)'
  BY Zenon, <1>1, <1>3 DEF Room, Counts
<1>7. PICK t \in Tenants : t = Batch(c).tenant
  BY Zenon, <1>1, AtTypes
<1>8. Batch(c)' = Batch(c)
  BY Zenon, <1>1 DEF Batch
<1>9. /\ stored[t] \in SUBSET Ids /\ Batch(c).ids \ stored[t] \in SUBSET Ids
      /\ Cardinality(stored[t]) \in Nat /\ Cardinality(Batch(c).ids \ stored[t]) \in Nat
  <2>1. Batch(c).ids \in SUBSET Ids /\ stored[t] \in SUBSET Ids
    BY Zenon, <1>1, AtTypes DEF TypeOK
  <2> QED
    BY Zenon, <2>1, IdSets
<1>10. Reads(c)'
  <2> SUFFICES ASSUME Counts(t)
               PROVE  /\ quota'[c] <= high[t]
                      /\ pc'[c] # "count" => Cardinality(Batch(c).ids \ stored[t]) <= new'[c]
                      /\ pc'[c] = "reserve" => Cardinality(stored[t]) <= size'[c]
    BY Zenon, <1>1, <1>7, <1>8 DEF Reads, Counts
  <2>1. CASE ReadQuota(c) /\ limit[Batch(c).tenant] > 0
    <3>1. quota'[c] = limit[t] /\ pc'[c] = "count"
      BY <1>1, <1>7, <2>1 DEF ReadQuota, TypeOK
    <3>2. limit[t] <= high[t]
      BY Zenon, <1>1 DEF Within, Counts
    <3> QED
      BY Zenon, <3>1, <3>2
  <2>2. CASE CountNew(c)
    <3>1. /\ quota'[c] = quota[c] /\ pc'[c] = "size" /\ pc[c] = "count"
          /\ new'[c] = Cardinality(Batch(c).ids \ stored[t])
      BY Zenon, <1>1, <1>7, <2>2 DEF CountNew, TypeOK
    <3>2. quota[c] <= high[t]
      BY Zenon, <1>1, <1>7, <3>1 DEF Reads
    <3> QED
      BY <1>9, <3>1, <3>2
  <2>3. CASE ReadLen(c)
    <3>1. /\ quota'[c] = quota[c] /\ new'[c] = new[c] /\ pc'[c] = "reserve" /\ pc[c] = "size"
          /\ size'[c] = Cardinality(stored[t])
      BY Zenon, <1>1, <1>7, <2>3 DEF ReadLen, TypeOK
    <3>2. quota[c] <= high[t] /\ Cardinality(Batch(c).ids \ stored[t]) <= new[c]
      BY Zenon, <1>1, <1>7, <3>1 DEF Reads
    <3> QED
      BY <1>9, <3>1, <3>2
  <2> QED
    BY Zenon, <2>1, <2>2, <2>3
<1> QED
  BY Zenon, <1>1, <1>4, <1>6, <1>10, OwnStep

\* Going on to the next tenant, or to the writes, adds this tenant's claim.
LEMMA AdvanceClaims ==
  ASSUME TypeOK, NEW c \in Calls, AtBatch(c), pc[c] \in {"quota", "reserve"}, Advance(c),
         request' = request
  PROVE  /\ pc'[c] \in {"quota", "write"}
         /\ \A i : Claimed(c, i)' => i = pos[c] \/ Claimed(c, i)
         /\ \A t : t # Batch(c).tenant => Claims(c, t)' \subseteq Claims(c, t)
<1>1. /\ request[c] \in Requests /\ pos[c] \in 1..Len(request[c]) /\ Len(request[c]) \in {1, 2}
      /\ pc \in [Calls -> Pcs] /\ pos \in [Calls -> Nat]
  BY Zenon, AtTypes DEF TypeOK
<1>2. pc'[c] \in {"quota", "write"}
  BY Zenon, <1>1 DEF Advance
<1>3. ASSUME NEW i, Claimed(c, i)'
      PROVE  i = pos[c] \/ Claimed(c, i)
  <2>1. i \in 1..Len(request[c])
    BY Zenon, <1>3 DEF Claimed
  <2>2. CASE pos[c] < Len(request[c])
    <3>1. pc'[c] = "quota" /\ pos'[c] = pos[c] + 1
      BY Zenon, <1>1, <2>2 DEF Advance
    <3>2. i < pos[c] + 1
      BY Zenon, <1>3, <3>1 DEF Claimed
    <3>3. i < pos[c] \/ i = pos[c]
      BY <1>1, <2>1, <3>2
    <3> QED
      BY Zenon, <2>1, <3>3 DEF Claimed
  <2>3. CASE ~(pos[c] < Len(request[c]))
    <3>1. i < pos[c] \/ i = pos[c]
      BY <1>1, <2>1, <2>3
    <3> QED
      BY Zenon, <2>1, <3>1 DEF Claimed
  <2> QED
    BY Zenon, <2>2, <2>3
<1>4. ASSUME NEW t, t # Batch(c).tenant
      PROVE  Claims(c, t)' \subseteq Claims(c, t)
  BY Zenon, <1>3, <1>4 DEF Claims, Batch
<1> QED
  BY Zenon, <1>2, <1>3, <1>4

\* A tenant without a quota is not counted: it had none when it was read.
LEMMA UnlimitedStep ==
  ASSUME Inv, TypeOK', NEW c \in Calls, AtBatch(c)', Step(c),
         ReadQuota(c), limit[Batch(c).tenant] = 0
  PROVE  /\ \A d \in Calls : AtBatch(d)' /\ Room(d)' /\ Reads(d)'
         /\ \A t \in Tenants : Within(t)'
<1>1. TypeOK /\ AtBatch(c) /\ Room(c) /\ \A t \in Tenants : Within(t)
  BY Zenon DEF Inv
<1>2. /\ UNCHANGED <<stored, limit, high, lapses, request, held>>
      /\ pc[c] = "quota" /\ Advance(c)
  BY DEF ReadQuota, tenantVars
<1>3. /\ pc'[c] \in {"quota", "write"}
      /\ \A i : Claimed(c, i)' => i = pos[c] \/ Claimed(c, i)
      /\ \A t : t # Batch(c).tenant => Claims(c, t)' \subseteq Claims(c, t)
  BY Zenon, <1>1, <1>2, AdvanceClaims
<1>4. ~Counts(Batch(c).tenant)
  <2>1. PICK t \in Tenants : t = Batch(c).tenant
    BY Zenon, <1>1, <1>2, AtTypes
  <2>2. high[t] > 0 => 0 < limit[t]
    BY Zenon, <1>1 DEF Within
  <2>3. limit[t] = 0
    BY Zenon, <2>1
  <2> QED
    BY <2>1, <2>2, <2>3 DEF Counts
<1>5. Reads(c)'
  BY Zenon, <1>3 DEF Reads
<1>6. Room(c)'
  <2> SUFFICES ASSUME NEW i \in 1..Len(request[c]), Claimed(c, i)', Counts(request[c][i].tenant)
               PROVE  Claimed(c, i)
    BY Zenon, <1>1, <1>2 DEF Room, Counts
  <2>1. i # pos[c]
    BY Zenon, <1>4 DEF Batch
  <2> QED
    BY Zenon, <1>3, <2>1
<1>7. \A t \in Tenants : Counts(t) => Claims(c, t)' \subseteq Claims(c, t)
  BY Zenon, <1>3, <1>4
<1> QED
  BY Zenon, <1>2, <1>5, <1>6, <1>7, OwnStep

\* A reservation that fits: what the tenant stores and all that is held in it
\* stay within the quota that was read.
LEMMA ReserveStep ==
  ASSUME Inv, TypeOK', NEW c \in Calls, AtBatch(c)', Step(c), Reserve(c),
         \A t \in Tenants : Counter(t)'
  PROVE  /\ \A d \in Calls : AtBatch(d)' /\ Room(d)' /\ Reads(d)'
         /\ \A t \in Tenants : Within(t)'
<1>1. TypeOK /\ AtBatch(c) /\ Room(c) /\ Reads(c) /\ \A t \in Tenants : Within(t)
  BY Zenon DEF Inv
<1>2. UNCHANGED <<stored, limit, high, lapses, request>> /\ pc[c] = "reserve"
  BY Zenon DEF Reserve
<1>3. PICK t \in Tenants, ids \in SUBSET Ids : t = Batch(c).tenant /\ ids = Batch(c).ids
  BY Zenon, <1>1, <1>2, AtTypes
<1>4. CASE size[c] + reserved'[t] > quota[c]
  <2>1. size[c] \in Nat /\ reserved'[t] \in Int /\ quota[c] \in Nat
    BY Zenon, <1>1 DEF TypeOK
  <2>2. pc' = [pc EXCEPT ![c] = "undo"]
    BY <1>3, <1>4, <2>1 DEF Reserve
  <2>3. pc'[c] = "undo"
    BY Zenon, <1>1, <2>2 DEF TypeOK
  <2> QED
    BY Zenon, <1>2, <2>3, NothingClaimed
<1>5. CASE size[c] + reserved'[t] <= quota[c]
  <2>1. size[c] \in Nat /\ reserved'[t] \in Int /\ quota[c] \in Nat /\ new[c] \in Nat
    BY Zenon, <1>1 DEF TypeOK
  <2>2. Advance(c) /\ held' = [held EXCEPT ![c] = Append(held[c], [tenant |-> t, n |-> new[c]])]
    BY <1>3, <1>5, <2>1 DEF Reserve
  <2>3. /\ held[c] \in Seq(Holdings) /\ [tenant |-> t, n |-> new[c]] \in Holdings
        /\ held'[c] = Append(held[c], [tenant |-> t, n |-> new[c]])
    BY Zenon, <1>1, <2>1, <2>2 DEF TypeOK, Holdings
  <2>4. /\ Len(held'[c]) = Len(held[c]) + 1 /\ Len(held[c]) \in Nat
        /\ held'[c][Len(held[c]) + 1] = [tenant |-> t, n |-> new[c]]
        /\ \A i \in 1..Len(held[c]) : held'[c][i] = held[c][i]
    BY <2>3, HeldTypes
  <2>5. /\ pc'[c] \in {"quota", "write"}
        /\ \A i : Claimed(c, i)' => i = pos[c] \/ Claimed(c, i)
        /\ \A u : u # Batch(c).tenant => Claims(c, u)' \subseteq Claims(c, u)
    BY Zenon, <1>1, <1>2, <2>2, AdvanceClaims
  <2>6. Reads(c)'
    BY Zenon, <2>5 DEF Reads
  <2>7. Room(c)'
    <3> SUFFICES ASSUME NEW i \in 1..Len(request[c]), Claimed(c, i)',
                        NEW u, u = request[c][i].tenant, Counts(u)
                 PROVE  \E j \in 1..Len(held'[c]) :
                          /\ held'[c][j].tenant = u
                          /\ Cardinality(request[c][i].ids \ stored[u]) <= held'[c][j].n
      BY Zenon, <1>2 DEF Room, Counts
    <3>1. CASE i = pos[c]
      <4>1. u = t /\ request[c][i].ids = ids
        BY Zenon, <1>3, <3>1 DEF Batch
      <4>2. Cardinality(ids \ stored[t]) <= new[c]
        BY Zenon, <1>1, <1>2, <1>3, <4>1 DEF Reads
      <4>3. Len(held[c]) + 1 \in 1..Len(held'[c])
        BY <2>4
      <4> QED
        BY SMTT(60), <2>4, <4>1, <4>2, <4>3
    <3>2. CASE Claimed(c, i)
      <4>1. PICK j \in 1..Len(held[c]) :
              held[c][j].tenant = u /\ Cardinality(request[c][i].ids \ stored[u]) <= held[c][j].n
        BY Zenon, <1>1, <3>2 DEF Room
      <4>2. j \in 1..Len(held'[c]) /\ held'[c][j] = held[c][j]
        BY <2>4
      <4> QED
        BY Zenon, <4>1, <4>2
    <3> QED
      BY Zenon, <2>5, <3>1, <3>2
  <2>8. \A d \in Calls \ {c} : /\ AtBatch(d)' /\ Room(d)' /\ Reads(d)'
                               /\ \A u \in Tenants : Claims(d, u)' = Claims(d, u)
    BY Zenon, <1>2, OthersKept
  <2>9. \A d \in Calls : AtBatch(d)' /\ Room(d)' /\ Reads(d)'
    BY Zenon, <2>6, <2>7, <2>8
  <2>10. ASSUME NEW u \in Tenants, u # t
         PROVE  Within(u)'
    BY Zenon, <1>2, <1>3, <2>5, <2>8, <2>10, WithinFewer
  <2>11. Within(t)'
    <3>1. high'[t] > 0 => 0 < limit'[t] /\ limit'[t] <= high'[t]
      BY Zenon, <1>1, <1>2 DEF Within
    <3>2. ASSUME Counts(t)'
          PROVE  Cardinality(Due(t)') <= high'[t]
      <4>1. Counts(t)
        BY Zenon, <1>2, <3>2 DEF Counts
      <4>2. quota[c] <= high[t] /\ Cardinality(stored[t]) <= size[c]
        BY Zenon, <1>1, <1>2, <1>3, <4>1 DEF Reads
      <4>3. TypeOK' /\ Placed' => Bounded'
        BY DueBound, PTL
      <4>4. Cardinality(Due(t)') <= Cardinality(stored[t]) + reserved'[t]
        BY Zenon, <1>2, <2>9, <3>2, <4>3 DEF Placed, Bounded
      <4>5. Cardinality(stored[t]) \in Nat /\ high[t] \in Nat /\ high'[t] = high[t]
        BY Zenon, <1>1, <1>2, IdSets DEF TypeOK
      <4>6. Due(t)' \in SUBSET Ids
        BY Zenon DEF Due, TypeOK
      <4>7. Cardinality(Due(t)') \in Nat
        BY Zenon, <4>6, IdSets
      <4> QED
        BY <1>5, <2>1, <4>2, <4>4, <4>5, <4>7
    <3> QED
      BY Zenon, <3>1, <3>2 DEF Within
  <2> QED
    BY Zenon, <2>9, <2>10, <2>11
<1>6. size[c] \in Nat /\ reserved'[t] \in Int /\ quota[c] \in Nat
  BY Zenon, <1>1 DEF TypeOK
<1> QED
  BY <1>4, <1>5, <1>6

\* What the writing call still claims is part of what it claimed.
LEMMA WriteClaims ==
  ASSUME TypeOK, NEW c \in Calls, AtBatch(c), Write(c)
  PROVE  /\ pc'[c] \in {"write", "release"}
         /\ \A i : Claimed(c, i)' => Claimed(c, i)
         /\ \A t : Claims(c, t)' \subseteq Claims(c, t)
         /\ Claimed(c, pos[c])
<1>1. pc[c] = "write" /\ request' = request
  BY Zenon DEF Write
<1>2. /\ request[c] \in Requests /\ pos[c] \in 1..Len(request[c]) /\ Len(request[c]) \in {1, 2}
      /\ pc \in [Calls -> Pcs] /\ pos \in [Calls -> Nat]
  BY Zenon, <1>1, AtTypes DEF TypeOK
<1>3. Claimed(c, pos[c])
  BY <1>1, <1>2 DEF Claimed
<1>4. CASE pos[c] < Len(request[c])
  <2>1. pos'[c] = pos[c] + 1 /\ pc'[c] = "write"
    BY Zenon, <1>1, <1>2, <1>4 DEF Write
  <2>2. ASSUME NEW i, Claimed(c, i)'
        PROVE  Claimed(c, i)
    <3>1. i \in 1..Len(request[c]) /\ pos[c] + 1 <= i
      BY Zenon, <1>1, <2>1, <2>2 DEF Claimed
    <3>2. pos[c] <= i
      BY <1>2, <3>1
    <3> QED
      BY Zenon, <1>1, <3>1, <3>2 DEF Claimed
  <2>3. \A t : Claims(c, t)' \subseteq Claims(c, t)
    BY Zenon, <1>1, <2>2 DEF Claims
  <2> QED
    BY Zenon, <1>3, <2>1, <2>2, <2>3
<1>5. CASE ~(pos[c] < Len(request[c]))
  <2>1. pc'[c] = "release"
    BY Zenon, <1>2, <1>5 DEF Write
  <2>2. \A i : ~Claimed(c, i)'
    BY Zenon, <2>1 DEF Claimed
  <2>3. \A t : Claims(c, t)' \subseteq Claims(c, t)
    BY Zenon, <2>2 DEF Claims
  <2> QED
    BY Zenon, <1>3, <2>1, <2>2, <2>3
<1> QED
  BY Zenon, <1>4, <1>5

\* A write stores what was claimed, and lapses where another call has read
\* the size and not yet reserved.
LEMMA WriteStep ==
  ASSUME Inv, TypeOK', NEW c \in Calls, AtBatch(c)', Step(c), Write(c)
  PROVE  /\ \A d \in Calls : AtBatch(d)' /\ Room(d)' /\ Reads(d)'
         /\ \A t \in Tenants : Within(t)'
<1>1. /\ TypeOK /\ AtBatch(c) /\ Room(c) /\ \A t \in Tenants : Within(t)
      /\ \A d \in Calls : AtBatch(d) /\ Room(d) /\ Reads(d)
  BY Zenon DEF Inv
<1>2. UNCHANGED <<limit, high, request, held>> /\ pc[c] = "write"
  BY Zenon DEF Write
<1>3. PICK t0 \in Tenants, ids0 \in SUBSET Ids : t0 = Batch(c).tenant /\ ids0 = Batch(c).ids
  BY Zenon, <1>1, <1>2, AtTypes
<1>4. stored' = [stored EXCEPT ![t0] = stored[t0] \cup ids0]
  BY Zenon, <1>3 DEF Write
<1>5. \A t \in Tenants : stored'[t] = IF t = t0 THEN stored[t] \cup ids0 ELSE stored[t]
  BY Zenon, <1>1, <1>4 DEF TypeOK
<1>6. lapses \subseteq lapses'
  BY Zenon DEF Write
<1>7. \A t \in Tenants : Counts(t)' => Counts(t) /\ high[t] <= high'[t]
  <2>1. \A t \in Tenants : high[t] \in Nat
    BY Zenon, <1>1 DEF TypeOK
  <2> QED
    BY <1>2, <1>6, <2>1 DEF Counts
<1>8. /\ pc'[c] \in {"write", "release"}
      /\ \A i : Claimed(c, i)' => Claimed(c, i)
      /\ \A t : Claims(c, t)' \subseteq Claims(c, t)
      /\ Claimed(c, pos[c])
  BY Zenon, <1>1, WriteClaims
<1>9. \A t \in Tenants : stored[t] \subseteq stored'[t]
  BY Zenon, <1>5
<1>10. ASSUME NEW d \in Calls \ {c}
       PROVE  /\ AtBatch(d)' /\ Room(d)' /\ Reads(d)'
              /\ \A t \in Tenants : Claims(d, t)' = Claims(d, t)
  <2>1. /\ pc'[d] = pc[d] /\ request'[d] = request[d] /\ pos'[d] = pos[d] /\ held'[d] = held[d]
        /\ quota'[d] = quota[d] /\ new'[d] = new[d] /\ size'[d] = size[d]
    BY Zenon, <1>1, Others
  <2>2. \A t \in Tenants, i \in 1..Len(request[d]) :
          request[d][i].ids \ stored'[t] \subseteq request[d][i].ids \ stored[t]
    BY Zenon, <1>9
  <2>3. ASSUME NEW t \in Tenants, Counts(t)', pc[d] = "reserve", Batch(d).tenant = t
        PROVE  stored'[t] \subseteq stored[t]
    <3>1. CASE t = t0
      <4>1. t0 \notin lapses'
        BY Zenon, <2>3, <3>1 DEF Counts
      <4>2. lapses' = IF Overtakes(Calls \ {c}, t0, ids0, {}) THEN lapses \cup {t0} ELSE lapses
        BY Zenon, <1>3 DEF Write
      <4>3. ~Overtakes(Calls \ {c}, t0, ids0, {})
        BY Zenon, <4>1, <4>2
      <4>4. ids0 \ stored[t0] = {}
        BY Zenon, <2>3, <3>1, <4>3 DEF Overtakes
      <4> QED
        BY Zenon, <1>5, <3>1, <4>4
    <3>2. CASE t # t0
      BY Zenon, <1>5, <3>2
    <3> QED
      BY Zenon, <3>1, <3>2
  <2> QED
    BY Zenon, <1>1, <1>7, <2>1, <2>2, <2>3, CallKept
<1>11. Reads(c)'
  BY Zenon, <1>8 DEF Reads
<1>12. Room(c)'
  <2> SUFFICES ASSUME NEW i \in 1..Len(request[c]), Claimed(c, i)',
                      NEW t, t = request[c][i].tenant, Counts(t)'
               PROVE  \E j \in 1..Len(held[c]) :
                        /\ held[c][j].tenant = t
                        /\ Cardinality(request[c][i].ids \ stored'[t]) <= held[c][j].n
    BY ZenonT(60), <1>2 DEF Room, Counts
  <2>1. t \in Tenants /\ \E ids \in SUBSET Ids : ids = request[c][i].ids
    BY Zenon, <1>1, BatchTypes DEF TypeOK
  <2> PICK ids \in SUBSET Ids : ids = request[c][i].ids
    BY Zenon, <2>1
  <2>2. PICK j \in 1..Len(held[c]) : held[c][j].tenant = t /\ Cardinality(ids \ stored[t]) <= held[c][j].n
    BY Zenon, <1>1, <1>7, <1>8, <2>1 DEF Room
  <2>3. ids \ stored'[t] \subseteq ids \ stored[t]
    BY Zenon, <1>9, <2>1
  <2>4. /\ Cardinality(ids \ stored'[t]) <= Cardinality(ids \ stored[t])
        /\ Cardinality(ids \ stored'[t]) \in Nat /\ Cardinality(ids \ stored[t]) \in Nat
    BY Zenon, <2>3, IdSets
  <2>5. held[c][j].n \in Nat
    BY Zenon, <1>1, HeldTypes DEF TypeOK
  <2> QED
    BY Zenon, <2>2, <2>4, <2>5, LeqTrans
<1>13. ASSUME NEW t \in Tenants
       PROVE  Due(t)' \subseteq Due(t)
  <2>1. \A d \in Calls : Claims(d, t)' \subseteq Claims(d, t)
    BY Zenon, <1>8, <1>10
  <2>2. stored'[t] \subseteq Due(t)
    <3>1. CASE t = t0
      <4>1. ids0 \subseteq Claims(c, t0)
        BY Zenon, <1>3, <1>8 DEF Claims, Batch, Claimed
      <4> QED
        BY Zenon, <1>5, <3>1, <4>1 DEF Due
    <3>2. CASE t # t0
      BY Zenon, <1>5, <3>2 DEF Due
    <3> QED
      BY Zenon, <3>1, <3>2
  <2> QED
    BY Zenon, <2>1, <2>2 DEF Due
<1>14. \A t \in Tenants : Within(t)'
  BY Zenon, <1>1, <1>2, <1>7, <1>13, WithinKept
<1> QED
  BY Zenon, <1>10, <1>11, <1>12, <1>14

\* Every step of a call keeps the invariant.
LEMMA InvStep ==
  ASSUME Inv, NEW c \in Calls, Step(c)
  PROVE  Inv'
<1>1. TypeOK' /\ AtBatch(c)'
  BY Zenon, TypeStep
<1>2. \A t \in Tenants : Counter(t)'
  BY Zenon, <1>1, CounterQuiet, CounterReserve, CounterUndo, CounterRelease DEF Step
<1>3. TypeOK /\ AtBatch(c)
  BY Zenon DEF Inv
<1> SUFFICES /\ \A d \in Calls : AtBatch(d)' /\ Room(d)' /\ Reads(d)'
             /\ \A t \in Tenants : Within(t)'
  BY Zenon, <1>1, <1>2 DEF Inv
<1>4. CASE Start(c)
  <2>1. UNCHANGED <<stored, limit, high, lapses>> /\ pc'[c] = "quota" /\ pos'[c] = 1
    BY Zenon, <1>3, <1>4 DEF Start, tenantVars, TypeOK, AtBatch
  <2> QED
    BY Zenon, <1>1, <2>1, NothingClaimed
<1>5. CASE Refuse(c) \/ WriteFails(c)
  <2>1. UNCHANGED <<stored, limit, high, lapses>> /\ pc'[c] = "release"
    BY Zenon, <1>3, <1>5 DEF Refuse, WriteFails, tenantVars, TypeOK
  <2> QED
    BY Zenon, <1>1, <2>1, NothingClaimed
<1>6. CASE Undo(c)
  <2>1. UNCHANGED <<stored, limit, high, lapses>> /\ pc'[c] = "release"
    BY Zenon, <1>3, <1>6 DEF Undo, TypeOK
  <2> QED
    BY Zenon, <1>1, <2>1, NothingClaimed
<1>7. CASE Release(c)
  <2>1. UNCHANGED <<stored, limit, high, lapses>> /\ pc'[c] \in {"release", "returned"}
    BY Zenon, <1>3, <1>7 DEF Release, TypeOK
  <2> QED
    BY Zenon, <1>1, <2>1, NothingClaimed
<1>8. CASE ReadQuota(c)
  BY Zenon, <1>1, <1>8, ReadStep, UnlimitedStep DEF ReadQuota
<1>9. CASE CountNew(c) \/ ReadLen(c)
  BY Zenon, <1>1, <1>9, ReadStep
<1>10. CASE Reserve(c)
  BY Zenon, <1>1, <1>2, <1>10, ReserveStep
<1>11. CASE Write(c)
  BY Zenon, <1>1, <1>11, WriteStep
<1> QED
  BY Zenon, <1>4, <1>5, <1>6, <1>7, <1>8, <1>9, <1>10, <1>11 DEF Step

-----------------------------------------------------------------------------
(* Deletes and SetQuota. *)

\* A delete lapses where a call has counted the id as stored.
LEMMA InvDelete ==
  ASSUME Inv, Delete
  PROVE  Inv'
<1>1. TypeOK' /\ UNCHANGED <<reserved, pc, request, pos, quota, new, size, held>>
  BY Zenon, TypeOther
<1>2. /\ TypeOK /\ \A t \in Tenants : Counter(t) /\ Within(t)
      /\ \A d \in Calls : AtBatch(d) /\ Room(d) /\ Reads(d)
  BY Zenon DEF Inv
<1>3. UNCHANGED <<limit, high>>
  BY Zenon DEF Delete
<1>4. PICK t0 \in Tenants : \E id \in stored[t0] :
        /\ stored' = [stored EXCEPT ![t0] = stored[t0] \ {id}]
        /\ lapses' = IF Overtakes(Calls, t0, {}, {id}) THEN lapses \cup {t0} ELSE lapses
  BY Zenon DEF Delete
<1>5. PICK id \in stored[t0] :
        /\ stored' = [stored EXCEPT ![t0] = stored[t0] \ {id}]
        /\ lapses' = IF Overtakes(Calls, t0, {}, {id}) THEN lapses \cup {t0} ELSE lapses
  BY Zenon, <1>4
<1>6. \A t \in Tenants : stored'[t] = IF t = t0 THEN stored[t] \ {id} ELSE stored[t]
  BY Zenon, <1>2, <1>5 DEF TypeOK
<1>7. \A t \in Tenants : Counts(t)' => Counts(t) /\ high[t] <= high'[t]
  <2>1. lapses \subseteq lapses' /\ \A t \in Tenants : high[t] \in Nat
    BY Zenon, <1>2, <1>5 DEF TypeOK
  <2> QED
    BY <1>3, <2>1 DEF Counts
<1>8. ASSUME NEW d \in Calls
      PROVE  /\ AtBatch(d)' /\ Room(d)' /\ Reads(d)'
             /\ \A t \in Tenants : Claims(d, t)' = Claims(d, t)
  <2>1. ASSUME NEW t \in Tenants, NEW i \in 1..Len(request[d]), Counts(t)', request[d][i].tenant = t,
               Claimed(d, i) \/ (pc[d] \in {"size", "reserve"} /\ i = pos[d])
        PROVE  request[d][i].ids \ stored'[t] \subseteq request[d][i].ids \ stored[t]
    <3>1. CASE t = t0
      <4>1. ~Overtakes(Calls, t0, {}, {id})
        BY Zenon, <1>5, <2>1, <3>1 DEF Counts
      <4>2. request[d][i].ids \cap {id} = {}
        <5>1. pos[d] \in Nat /\ i \in Nat
          BY <1>2 DEF TypeOK
        <5>2. /\ pc[d] \in {"quota", "count", "size", "reserve", "write"}
              /\ IF pc[d] \in {"quota", "count"} THEN i < pos[d]
                 ELSE IF pc[d] = "write" THEN i >= pos[d] ELSE i <= pos[d]
          BY <2>1, <5>1 DEF Claimed
        <5> QED
          BY Zenon, <2>1, <3>1, <4>1, <5>2 DEF Overtakes
      <4> QED
        BY Zenon, <1>6, <3>1, <4>2
    <3>2. CASE t # t0
      BY Zenon, <1>6, <3>2
    <3> QED
      BY Zenon, <3>1, <3>2
  <2>2. \A t \in Tenants : stored'[t] \subseteq stored[t]
    BY Zenon, <1>6
  <2> QED
    BY Zenon, <1>1, <1>2, <1>7, <2>1, <2>2, CallKept
<1>9. ASSUME NEW t \in Tenants
      PROVE  Counter(t)' /\ Within(t)'
  <2>1. \A d \in Calls, i \in Nat : Amount(d, i, t)' = Amount(d, i, t)
    BY Zenon, <1>1, SameAmount
  <2>2. Counter(t)'
    BY Zenon, <1>1, <1>2, <2>1, CounterSame
  <2>3. Due(t)' \subseteq Due(t)
    BY Zenon, <1>6, <1>8 DEF Due
  <2> QED
    BY Zenon, <1>1, <1>2, <1>3, <1>7, <2>2, <2>3, WithinKept
<1> QED
  BY Zenon, <1>1, <1>8, <1>9 DEF Inv

\* A quota raised allows more; a quota lifted is no longer counted.
LEMMA InvSetQuota ==
  ASSUME Inv, SetQuota
  PROVE  Inv'
<1>1. TypeOK' /\ UNCHANGED <<reserved, pc, request, pos, quota, new, size, held>>
  BY Zenon, TypeOther
<1>2. /\ TypeOK /\ \A t \in Tenants : Counter(t) /\ Within(t)
      /\ \A d \in Calls : AtBatch(d) /\ Room(d) /\ Reads(d)
  BY Zenon DEF Inv
<1>3. UNCHANGED <<stored, lapses>>
  BY Zenon DEF SetQuota
<1>4. PICK t0 \in Tenants, q \in Limits :
        /\ limit' = [limit EXCEPT ![t0] = q]
        /\ high' = [high EXCEPT ![t0] = IF high[t0] = 0 \/ q = 0 THEN 0
                                        ELSE IF q > high[t0] THEN q ELSE high[t0]]
  BY Zenon DEF SetQuota
<1>5. q \in Nat
  BY Zenon, ConstantsAssumption
<1>6. ASSUME NEW t \in Tenants
      PROVE  /\ high'[t] > 0 => 0 < limit'[t] /\ limit'[t] <= high'[t]
             /\ high'[t] > 0 => high[t] > 0 /\ high[t] <= high'[t]
             /\ high[t] \in Nat /\ high'[t] \in Nat
  <2>1. /\ limit[t] \in Nat /\ high[t] \in Nat
        /\ high[t] > 0 => 0 < limit[t] /\ limit[t] <= high[t]
    BY Zenon, <1>2 DEF TypeOK, Within
  <2>2. CASE t = t0
    <3>1. /\ limit'[t] = q
          /\ high'[t] = IF high[t] = 0 \/ q = 0 THEN 0 ELSE IF q > high[t] THEN q ELSE high[t]
      BY Zenon, <1>2, <1>4, <2>2 DEF TypeOK
    <3> QED
      BY <1>5, <2>1, <3>1
  <2>3. CASE t # t0
    <3>1. limit'[t] = limit[t] /\ high'[t] = high[t]
      BY Zenon, <1>2, <1>4, <2>3 DEF TypeOK
    <3> QED
      BY <2>1, <3>1
  <2> QED
    BY Zenon, <2>2, <2>3
<1>7. \A t \in Tenants : Counts(t)' => Counts(t) /\ high[t] <= high'[t]
  BY Zenon, <1>3, <1>6 DEF Counts
<1>8. ASSUME NEW d \in Calls
      PROVE  /\ AtBatch(d)' /\ Room(d)' /\ Reads(d)'
             /\ \A t \in Tenants : Claims(d, t)' = Claims(d, t)
  BY Zenon, <1>1, <1>2, <1>3, <1>7, CallKept
<1>9. ASSUME NEW t \in Tenants
      PROVE  Counter(t)' /\ Within(t)'
  <2>1. \A d \in Calls, i \in Nat : Amount(d, i, t)' = Amount(d, i, t)
    BY Zenon, <1>1, SameAmount
  <2>2. Counter(t)'
    BY Zenon, <1>1, <1>2, <2>1, CounterSame
  <2>3. Due(t)' = Due(t)
    BY Zenon, <1>3, <1>8 DEF Due
  <2>4. Due(t) \in SUBSET Ids
    BY Zenon, <1>2 DEF Due, TypeOK
  <2>5. Cardinality(Due(t)) \in Nat
    BY Zenon, <2>4, IdSets
  <2>6. Counts(t)' => Cardinality(Due(t)') <= high'[t]
    <3>1. Counts(t) => Cardinality(Due(t)) <= high[t]
      BY Zenon, <1>2 DEF Within
    <3> QED
      BY Zenon, <1>6, <1>7, <2>3, <2>5, <3>1, LeqTrans
  <2> QED
    BY Zenon, <1>6, <2>2, <2>6 DEF Within
<1> QED
  BY Zenon, <1>1, <1>8, <1>9 DEF Inv

-----------------------------------------------------------------------------
(* The invariant and what follows from it. *)

\* Nothing is reserved and nothing claimed at the start.
LEMMA InvInit ==
  ASSUME Init
  PROVE  Inv
<1>1. /\ stored \in [Tenants -> SUBSET Ids] /\ limit \in [Tenants -> Nat] /\ high = limit
      /\ lapses = {}
  BY Zenon, ConstantsAssumption DEF Init
<1>2. TypeOK
  BY <1>1 DEF Init, TypeOK, Pcs
<1>3. \A c \in Calls : pc[c] = "idle" /\ pos[c] = 1 /\ request[c] = <<>> /\ held[c] = <<>>
  BY Zenon DEF Init
<1>4. \A c \in Calls : \A i : ~Claimed(c, i)
  BY Zenon, <1>3 DEF Claimed
<1>5. \A c \in Calls : AtBatch(c) /\ Room(c) /\ Reads(c)
  BY Zenon, <1>3, <1>4 DEF AtBatch, Room, Reads
<1>6. ASSUME NEW t \in Tenants
      PROVE  Counter(t)
  <2>1. \A c \in Calls, i \in Nat : Amount(c, i, t) = 0
    BY <1>3 DEF Amount
  <2>2. Reserved(t) = {}
    <3> SUFFICES ASSUME NEW u \in Reserved(t)
                 PROVE  FALSE
      BY Zenon
    <3>1. PICK c \in Calls, i \in Nat : \E k \in 1..Amount(c, i, t) : u = <<c, i, k>>
      BY <1>2, ReservedMember
    <3> QED
      BY <2>1, <3>1
  <2>3. reserved[t] = 0
    BY Zenon DEF Init
  <2> QED
    BY Zenon, <2>2, <2>3, FS_EmptySet DEF Counter
<1>7. ASSUME NEW t \in Tenants
      PROVE  Within(t)
  <2>1. Due(t) = stored[t]
    BY Zenon, <1>4 DEF Due, Claims
  <2>2. limit[t] \in Nat /\ high[t] = limit[t]
    BY Zenon, <1>1
  <2>3. limit[t] > 0 => Cardinality(stored[t]) <= limit[t]
    BY Zenon DEF Init
  <2> QED
    BY <2>1, <2>2, <2>3 DEF Within, Counts
<1> QED
  BY Zenon, <1>2, <1>5, <1>6, <1>7 DEF Inv

\* A step that changes nothing changes nothing the invariant speaks of.
LEMMA InvStutter ==
  ASSUME Inv, UNCHANGED vars
  PROVE  Inv'
<1>1. UNCHANGED <<stored, limit, reserved, high, pc, request, pos, quota, new, size, held, lapses>>
  BY Zenon DEF vars, tenantVars
<1>2. TypeOK'
  BY Zenon, <1>1 DEF Inv, TypeOK
<1>3. \A c \in Calls : AtBatch(c)' /\ Room(c)' /\ Reads(c)'
  BY ZenonT(60), <1>1 DEF Inv, AtBatch, Room, Reads, Claimed, Counts, Batch
<1>4. \A t \in Tenants : Counter(t)'
  <2>1. \A t \in Tenants, d \in Calls, i \in Nat : Amount(d, i, t)' = Amount(d, i, t)
    BY ZenonT(60), <1>1 DEF Amount, Batch
  <2> QED
    BY Zenon, <1>1, <1>2, <2>1, CounterSame DEF Inv
<1>5. \A t \in Tenants : Within(t)'
  <2>1. \A t \in Tenants : Due(t)' = Due(t) /\ (Counts(t)' <=> Counts(t))
    <3>1. \A d, i : Claimed(d, i)' <=> Claimed(d, i)
      BY Zenon, <1>1 DEF Claimed
    <3>2. \A t, d : Claims(d, t)' = Claims(d, t)
      BY Zenon, <1>1, <3>1 DEF Claims
    <3> QED
      BY Zenon, <1>1, <3>2 DEF Due, Counts
  <2> QED
    BY Zenon, <1>1, <1>2, <2>1, WithinKept DEF Inv
<1> QED
  BY Zenon, <1>2, <1>3, <1>4, <1>5 DEF Inv

\* The invariant holds in every reachable state.
LEMMA Invariance == Spec => []Inv
<1>1. Init => Inv
  BY Zenon, InvInit
<1>2. Inv /\ [Next]_vars => Inv'
  BY Zenon, InvStep, InvDelete, InvSetQuota, InvStutter DEF Next
<1> QED
  BY <1>1, <1>2, PTL DEF Spec

\* The counter of a tenant is what the calls in flight hold in it: every path
\* out of Insert and InsertBatches gives back exactly what it took.
THEOREM CounterAddsUp == Spec => []ReservationsAddUp
<1>1. Inv => ReservationsAddUp
  BY Zenon DEF Inv, Counter, ReservationsAddUp
<1> QED
  BY <1>1, Invariance, PTL

\* However many calls, tenants, ids and quotas: a tenant that always had a
\* quota exceeds the highest only after a write or a delete came between what
\* reserve read and the use made of it.
THEOREM StaysWithinQuota == Spec => []WithinQuotaUnlessOvertaken
<1>1. ASSUME Inv
      PROVE  WithinQuotaUnlessOvertaken
  <2> SUFFICES ASSUME NEW t \in Tenants, Counts(t)
               PROVE  Cardinality(stored[t]) <= high[t]
    BY Zenon DEF WithinQuotaUnlessOvertaken, Counts
  <2>1. Cardinality(Due(t)) <= high[t] /\ high[t] \in Nat
    BY Zenon, <1>1 DEF Inv, Within, TypeOK
  <2>2. Due(t) \in SUBSET Ids /\ stored[t] \in SUBSET Due(t)
    BY Zenon, <1>1 DEF Inv, TypeOK, Due
  <2>3. /\ Cardinality(stored[t]) <= Cardinality(Due(t))
        /\ Cardinality(stored[t]) \in Nat /\ Cardinality(Due(t)) \in Nat
    BY Zenon, <2>2, IdSets
  <2> QED
    BY Zenon, <2>1, <2>3, LeqTrans
<1> QED
  BY <1>1, Invariance, PTL

=============================================================================
