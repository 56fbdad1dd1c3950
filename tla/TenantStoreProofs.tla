-------------------------- MODULE TenantStoreProofs --------------------------
(***************************************************************************)
(* Proofs about TenantStore, for any number of calls, tenants and lists of *)
(* tenants: an engine in use is open, and a tenant that was deleted, or    *)
(* whose store was closed, has none.                                       *)
(***************************************************************************)
EXTENDS TenantStore, TLAPS

Holding == {"reenter", "waitOut", "discard", "closeIdle"}   \* s.mu is locked
Closing == {"list", "closing", "closeOne"}
\* The call goes on to look at the first tenant of its list.
Listed == {"check", "lookup", "enter", "want", "open", "reenter", "create", "creating", "delete",
           "deleting", "waitOut", "discard", "closeOne"}
Pcs == Listed \cup Holding \cup Closing \cup
       {"start", "done", "using", "idle", "sweep", "snapshot", "stats", "collect", "save", "close"}

Locks == [readers : SUBSET Threads, writer : Threads \cup {None}, waiting : Threads \cup {None}]

TypeOK ==
  /\ closed \in BOOLEAN /\ present \subseteq Tenants /\ engine \in [Tenants -> {"nil", "open"}]
  /\ sMu \in Locks /\ use \in [Tenants -> Locks]
  /\ op \in [Threads -> Ops \cup {"none"}] /\ pc \in [Threads -> Pcs]
  /\ todo \in [Threads -> Seq(Tenants)]
  /\ \A th \in Threads : pc[th] \in Listed => todo[th] # <<>>

\* s.mu: nobody waits for a lock that is held, and one call holds it at a time.
Exclusive ==
  /\ sMu.writer # None => sMu.waiting = None
  /\ \A th \in Threads : pc[th] \in Holding => sMu.writer = th

\* The engine a call has just opened under s.mu is still open.
JustOpened == \A th \in Threads : pc[th] = "reenter" => engine[First(th)] = "open"

Left(th) == {todo[th][k] : k \in 1..Len(todo[th])}

\* Close: once the tenants are listed no engine is opened, and the open ones
\* are those still on the list; whoever closes the store sees it through.
Closes ==
  /\ \A th \in Threads : pc[th] \in Closing \cup {"close"} => op[th] = "close"
  /\ \A th \in Threads : op[th] = "close" => pc[th] \in Closing \cup {"close", "done"}
  /\ \A th \in Threads : op[th] = "close" /\ pc[th] # "close" => closed
  /\ \A th \in Threads : pc[th] \in {"closing", "closeOne"} =>
       /\ \A d \in Threads : pc[d] # "reenter"
       /\ \A t \in Tenants : engine[t] = "open" => t \in Left(th)
  /\ closed => \/ \E th \in Threads : pc[th] \in Closing
               \/ \A t \in Tenants : engine[t] = "nil"

Gone == \A t \in Tenants \ present : engine[t] = "nil"

Inv == TypeOK /\ Exclusive /\ Closes /\ JustOpened /\ EngineOpenWhileUsed /\ Gone

-----------------------------------------------------------------------------
(* Types. *)

\* The list of tenants that CloseIdle, Snapshot and Close work through.
LEMMA OrdersType ==
  ASSUME present \subseteq Tenants, NEW s \in Orders
  PROVE  s \in Seq(Tenants) /\ present = {s[k] : k \in 1..Len(s)}
<1>1. Cardinality(present) \in Nat
  BY Zenon, TenantsAssumption
<1>2. s \in Seq(Tenants) /\ DOMAIN s = 1..Len(s)
  BY <1>1 DEF Orders
<1> QED
  BY ZenonT(60), <1>2 DEF Orders

\* The lock operations keep a lock a lock.
LEMMA LockTypes ==
  ASSUME NEW l \in Locks, NEW th \in Threads
  PROVE  /\ RLocked(l, th) \in Locks /\ RUnlocked(l, th) \in Locks /\ Announced(l, th) \in Locks
         /\ Granted(l, th) \in Locks /\ Released(l) \in Locks /\ Unlocked \in Locks
BY Zenon DEF Locks, RLocked, RUnlocked, Announced, Granted, Released, Unlocked

\* A list is its first element and the rest of it.
LEMMA Lists ==
  ASSUME NEW S, NEW s \in Seq(S), s # <<>>
  PROVE  /\ Len(s) # 1 => Tail(s) # <<>>
         /\ \A k \in 1..Len(s) : s[k] = Head(s) \/ \E i \in 1..Len(Tail(s)) : s[k] = Tail(s)[i]
<1>1. Len(s) \in Nat /\ Len(s) # 0 /\ Len(Tail(s)) = Len(s) - 1 /\ Len(<<>>) = 0 /\ Head(s) = s[1]
  OBVIOUS
<1>2. \A i \in 1..Len(s) - 1 : Tail(s)[i] = s[i + 1]
  OBVIOUS
<1>3. ASSUME NEW k \in 1..Len(s), k # 1
      PROVE  \E i \in 1..Len(Tail(s)) : s[k] = Tail(s)[i]
  <2>1. k - 1 \in 1..Len(s) - 1 /\ (k - 1) + 1 = k
    BY <1>1, <1>3
  <2> QED
    BY Zenon, <1>1, <1>2, <2>1
<1>4. ASSUME Len(s) # 1
      PROVE  Tail(s) # <<>>
  <2>1. Len(Tail(s)) # 0
    BY <1>1, <1>4
  <2> QED
    BY Zenon, <1>1, <2>1
<1>5. \A k \in 1..Len(s) : s[k] = Head(s) \/ \E i \in 1..Len(Tail(s)) : s[k] = Tail(s)[i]
  BY Zenon, <1>1, <1>3
<1> QED
  BY Zenon, <1>4, <1>5

\* The places a call can be at.
LEMMA Labels ==
  /\ "check" \in Pcs /\ "lookup" \in Pcs /\ "enter" \in Pcs /\ "want" \in Pcs
  /\ "open" \in Pcs /\ "reenter" \in Pcs /\ "create" \in Pcs /\ "creating" \in Pcs
  /\ "delete" \in Pcs /\ "deleting" \in Pcs /\ "waitOut" \in Pcs /\ "discard" \in Pcs
  /\ "closeOne" \in Pcs /\ "closeIdle" \in Pcs /\ "list" \in Pcs /\ "closing" \in Pcs
  /\ "start" \in Pcs /\ "done" \in Pcs /\ "using" \in Pcs /\ "idle" \in Pcs
  /\ "sweep" \in Pcs /\ "snapshot" \in Pcs /\ "stats" \in Pcs /\ "collect" \in Pcs
  /\ "save" \in Pcs /\ "close" \in Pcs
BY Zenon DEF Pcs, Listed, Holding, Closing

\* What a call that returns leaves behind.
LEMMA Returns ==
  ASSUME TypeOK, NEW th \in Threads, NEW a, Return(th, a)
  PROVE  /\ pc' = [pc EXCEPT ![th] = "done"] /\ use' \in [Tenants -> Locks]
         /\ \A t \in Tenants : use'[t].readers \subseteq use[t].readers
<1>1. pc' = [pc EXCEPT ![th] = "done"] /\ use' = [t \in Tenants |-> RUnlocked(use[t], th)]
  BY Zenon DEF Return, Goto
<1>2. \A t \in Tenants : use[t] \in Locks
  BY Zenon DEF TypeOK
<1>3. \A t \in Tenants : RUnlocked(use[t], th).readers \subseteq use[t].readers
  BY Zenon, <1>2 DEF RUnlocked, Locks
<1> QED
  BY Zenon, <1>1, <1>2, <1>3, LockTypes

\* Every step of a call keeps the types.
LEMMA TypeStep ==
  ASSUME TypeOK, NEW th \in Threads, Start(th) \/ Step(th)
  PROVE  TypeOK'
<1>0. /\ todo[th] # <<>> => First(th) \in Tenants /\ Tail(todo[th]) \in Seq(Tenants)
      /\ pc[th] \in Listed => todo[th] # <<>>
  BY DEF First, TypeOK
<1>S. CASE Start(th)
  <2>1. PICK o \in Ops :
          /\ op' = [op EXCEPT ![th] = o]
          /\ CASE o = "request" -> \E r \in Requests : todo' = [todo EXCEPT ![th] = r]
               [] o \in {"create", "delete"} ->
                    \E t \in Tenants \ {Default} : todo' = [todo EXCEPT ![th] = <<t>>]
               [] OTHER -> UNCHANGED todo
          /\ Goto(th, CASE o = "request" -> "check" [] OTHER -> o)
    BY Zenon, <1>S DEF Start
  <2>2. UNCHANGED <<shared, locks>> /\ op' \in [Threads -> Ops \cup {"none"}]
    BY Zenon, <1>S, <2>1 DEF Start, TypeOK
  <2>3. CASE o = "request"
    <3>1. PICK r \in Requests : todo' = [todo EXCEPT ![th] = r]
      BY Zenon, <2>1, <2>3
    <3>2. r \in Seq(Tenants) /\ r # <<>>
      BY Zenon, RequestsAssumption
    <3>3. pc' = [pc EXCEPT ![th] = "check"]
      BY Zenon, <2>1, <2>3 DEF Goto
    <3> QED
      BY Zenon, <2>2, <3>1, <3>2, <3>3, Labels DEF TypeOK, shared, locks
  <2>4. CASE o \in {"create", "delete"}
    <3>1. PICK t \in Tenants : todo' = [todo EXCEPT ![th] = <<t>>]
      BY Zenon, <2>1, <2>4
    <3>2. <<t>> \in Seq(Tenants) /\ <<t>> # <<>>
      OBVIOUS
    <3>3. pc' = [pc EXCEPT ![th] = o]
      BY Zenon, <2>1, <2>4 DEF Goto
    <3> QED
      BY Zenon, <2>2, <2>4, <3>1, <3>2, <3>3, Labels DEF TypeOK, shared, locks
  <2>5. CASE o \in {"idle", "snapshot", "stats", "close"}
    <3>1. todo' = todo
      BY Zenon, <2>1, <2>5
    <3>2. pc' = [pc EXCEPT ![th] = o]
      BY Zenon, <2>1, <2>5 DEF Goto
    <3>3. o \in Pcs /\ o \notin Listed
      BY Zenon, <2>5, Labels DEF Listed
    <3> QED
      BY Zenon, <2>2, <3>1, <3>2, <3>3 DEF TypeOK, shared, locks
  <2> QED
    BY Zenon, <2>3, <2>4, <2>5 DEF Ops
<1>1. CASE CheckClosed(th)
  <2>1. /\ closed' \in BOOLEAN /\ present' \subseteq Tenants /\ engine' \in [Tenants -> {"nil", "open"}]
        /\ op' \in [Threads -> Ops \cup {"none"}]
    BY Zenon, <1>1, <1>0 DEF TypeOK, CheckClosed, shared, locks, Listed
  <2>2. sMu' \in Locks
    BY Zenon, <1>1, LockTypes DEF TypeOK, CheckClosed, shared, locks
  <2>3. use' \in [Tenants -> Locks]
    BY Zenon, <1>1, <1>0, LockTypes, Returns DEF TypeOK, CheckClosed, shared, locks, Listed
  <2>4. todo' \in [Threads -> Seq(Tenants)] /\ \A d \in Threads \ {th} : todo'[d] = todo[d]
    BY Zenon, <1>1, <1>0 DEF TypeOK, CheckClosed, shared, locks, Listed
  <2>5. Goto(th, "done") \/ Goto(th, "lookup")
    BY Zenon, <1>1, Returns DEF CheckClosed, shared, locks, Return
  <2>6. pc' \in [Threads -> Pcs] /\ \A d \in Threads \ {th} : pc'[d] = pc[d]
    BY Zenon, <2>5, Labels DEF TypeOK, Goto
  <2>7. pc'[th] = "done" \/ pc'[th] = "lookup"
    BY Zenon, <2>5 DEF TypeOK, Goto
  <2>8. pc'[th] \in Listed => todo'[th] # <<>>
    BY Zenon, <1>1, <1>0, <2>7 DEF TypeOK, CheckClosed, shared, locks, Listed
  <2> QED
    BY Zenon, <2>1, <2>2, <2>3, <2>4, <2>6, <2>8 DEF TypeOK
<1>2. CASE Lookup(th)
  <2>1. /\ closed' \in BOOLEAN /\ present' \subseteq Tenants /\ engine' \in [Tenants -> {"nil", "open"}]
        /\ op' \in [Threads -> Ops \cup {"none"}]
    BY Zenon, <1>2, <1>0 DEF TypeOK, Lookup, shared, locks, Listed
  <2>2. sMu' \in Locks
    BY Zenon, <1>2, LockTypes DEF TypeOK, Lookup, shared, locks
  <2>3. use' \in [Tenants -> Locks]
    BY Zenon, <1>2, <1>0, LockTypes, Returns DEF TypeOK, Lookup, shared, locks, Listed
  <2>4. todo' \in [Threads -> Seq(Tenants)] /\ \A d \in Threads \ {th} : todo'[d] = todo[d]
    BY Zenon, <1>2, <1>0 DEF TypeOK, Lookup, shared, locks, Listed
  <2>5. Goto(th, "done") \/ Goto(th, "enter")
    BY Zenon, <1>2, Returns DEF Lookup, shared, locks, Return
  <2>6. pc' \in [Threads -> Pcs] /\ \A d \in Threads \ {th} : pc'[d] = pc[d]
    BY ZenonT(60), <2>5, Labels DEF TypeOK, Goto
  <2>7. pc'[th] = "done" \/ pc'[th] = "enter"
    BY Zenon, <2>5 DEF TypeOK, Goto
  <2>8. pc'[th] \in Listed => todo'[th] # <<>>
    BY Zenon, <1>2, <1>0, <2>7 DEF TypeOK, Lookup, shared, locks, Listed
  <2> QED
    BY Zenon, <2>1, <2>2, <2>3, <2>4, <2>6, <2>8 DEF TypeOK
<1>3. CASE Enter(th)
  <2>1. /\ closed' \in BOOLEAN /\ present' \subseteq Tenants /\ engine' \in [Tenants -> {"nil", "open"}]
        /\ op' \in [Threads -> Ops \cup {"none"}]
    BY Zenon, <1>3, <1>0 DEF TypeOK, Enter, Acquired, shared, locks, Listed
  <2>2. sMu' \in Locks
    BY Zenon, <1>3, LockTypes DEF TypeOK, Enter, Acquired, shared, locks
  <2>3. use' \in [Tenants -> Locks]
    <3>1. CASE Return(th, "closed")
      BY Zenon, <3>1, Returns
    <3>2. CASE use' = use
      BY Zenon, <3>2 DEF TypeOK
    <3>3. CASE todo[th] # <<>> /\ use' = [use EXCEPT ![First(th)] = RLocked(use[First(th)], th)]
      BY Zenon, <3>3, <1>0, LockTypes DEF TypeOK
    <3> QED
      BY Zenon, <1>3, <1>0, <3>1, <3>2, <3>3 DEF Enter, Acquired, shared, locks, Listed
  <2>4. todo' \in [Threads -> Seq(Tenants)] /\ \A d \in Threads \ {th} : todo'[d] = todo[d]
    BY ZenonT(60), <1>3, <1>0 DEF TypeOK, Enter, Acquired, shared, locks, Listed
  <2>5. Goto(th, "done") \/ Goto(th, "using") \/ Goto(th, "check") \/ Goto(th, "want")
    BY Zenon, <1>3, Returns DEF Enter, Acquired, shared, locks, Return
  <2>6. pc' \in [Threads -> Pcs] /\ \A d \in Threads \ {th} : pc'[d] = pc[d]
    BY ZenonT(60), <2>5, Labels DEF TypeOK, Goto
  <2>7. pc'[th] = "done" \/ pc'[th] = "using" \/ pc'[th] = "check" \/ pc'[th] = "want"
    BY Zenon, <2>5 DEF TypeOK, Goto
  <2>8. pc'[th] \in Listed => todo'[th] # <<>>
    <3>0. pc[th] \in Listed /\ todo[th] \in Seq(Tenants)
      BY Zenon, <1>3 DEF Enter, Listed, TypeOK
    <3>1. CASE Acquired(th)
      <4>1. Len(todo[th]) # 1 => Tail(todo[th]) # <<>>
        BY Zenon, <3>0, <1>0, Lists
      <4>2. todo'[th] = Tail(todo[th]) /\ (Len(todo[th]) = 1 => pc'[th] = "using")
        BY Zenon, <3>1 DEF Acquired, Goto, TypeOK
      <4> QED
        BY Zenon, <4>1, <4>2 DEF Listed
    <3>2. CASE UNCHANGED todo
      BY Zenon, <1>3, <3>2, <1>0, <2>7 DEF Enter, Listed
    <3> QED
      BY Zenon, <1>3, <3>1, <3>2 DEF Enter
  <2> QED
    BY Zenon, <2>1, <2>2, <2>3, <2>4, <2>6, <2>8 DEF TypeOK
<1>4. CASE Want(th)
  <2>1. /\ closed' \in BOOLEAN /\ present' \subseteq Tenants /\ engine' \in [Tenants -> {"nil", "open"}]
        /\ op' \in [Threads -> Ops \cup {"none"}]
    BY Zenon, <1>4, <1>0 DEF TypeOK, Want, Wanting, shared, locks, Listed
  <2>2. sMu' \in Locks
    BY Zenon, <1>4, LockTypes DEF TypeOK, Want, Wanting, shared, locks
  <2>3. use' \in [Tenants -> Locks]
    BY Zenon, <1>4, <1>0, LockTypes, Returns DEF TypeOK, Want, Wanting, shared, locks, Listed
  <2>4. todo' \in [Threads -> Seq(Tenants)] /\ \A d \in Threads \ {th} : todo'[d] = todo[d]
    BY Zenon, <1>4, <1>0 DEF TypeOK, Want, Wanting, shared, locks, Listed
  <2>5. Goto(th, "done") \/ Goto(th, "open") \/ Goto(th, "creating") \/ Goto(th,
  "deleting") \/ Goto(th, "sweep")
    BY Zenon, <1>4, Returns DEF Want, Wanting, shared, locks, Return
  <2>6. pc' \in [Threads -> Pcs] /\ \A d \in Threads \ {th} : pc'[d] = pc[d]
    BY ZenonT(60), <2>5, Labels DEF TypeOK, Goto
  <2>7. pc'[th] = "done" \/ pc'[th] = "open" \/ pc'[th] = "creating" \/ pc'[th] = "deleting" \/ pc'[th] = "sweep"
    BY Zenon, <2>5 DEF TypeOK, Goto
  <2>8. pc'[th] \in Listed => todo'[th] # <<>>
    <3>1. CASE pc[th] = "idle"
      BY Zenon, <1>4, <3>1, <2>5, Returns DEF Want, Wanting, Goto, TypeOK, Listed
    <3>2. CASE pc[th] \in Listed
      BY Zenon, <1>4, <3>2, <1>0 DEF Want
    <3> QED
      BY Zenon, <1>4, <3>1, <3>2 DEF Want, Wanting, Listed
  <2> QED
    BY Zenon, <2>1, <2>2, <2>3, <2>4, <2>6, <2>8 DEF TypeOK
<1>5. CASE OpenEngine(th)
  <2>1. /\ closed' \in BOOLEAN /\ present' \subseteq Tenants /\ engine' \in [Tenants -> {"nil", "open"}]
        /\ op' \in [Threads -> Ops \cup {"none"}]
    BY Zenon, <1>5, <1>0 DEF TypeOK, OpenEngine, shared, locks, Listed
  <2>2. sMu' \in Locks
    BY ZenonT(60), <1>5, LockTypes DEF TypeOK, OpenEngine, shared, locks
  <2>3. use' \in [Tenants -> Locks]
    BY Zenon, <1>5, <1>0, LockTypes, Returns DEF TypeOK, OpenEngine, shared, locks, Listed
  <2>4. todo' \in [Threads -> Seq(Tenants)] /\ \A d \in Threads \ {th} : todo'[d] = todo[d]
    BY Zenon, <1>5, <1>0 DEF TypeOK, OpenEngine, shared, locks, Listed
  <2>5. Goto(th, "done") \/ Goto(th, "reenter")
    BY Zenon, <1>5, Returns DEF OpenEngine, shared, locks, Return
  <2>6. pc' \in [Threads -> Pcs] /\ \A d \in Threads \ {th} : pc'[d] = pc[d]
    BY Zenon, <2>5, Labels DEF TypeOK, Goto
  <2>7. pc'[th] = "done" \/ pc'[th] = "reenter"
    BY Zenon, <2>5 DEF TypeOK, Goto
  <2>8. pc'[th] \in Listed => todo'[th] # <<>>
    BY Zenon, <1>5, <1>0, <2>7 DEF TypeOK, OpenEngine, shared, locks, Listed
  <2> QED
    BY Zenon, <2>1, <2>2, <2>3, <2>4, <2>6, <2>8 DEF TypeOK
<1>6. CASE Reenter(th)
  <2>1. /\ closed' \in BOOLEAN /\ present' \subseteq Tenants /\ engine' \in [Tenants -> {"nil", "open"}]
        /\ op' \in [Threads -> Ops \cup {"none"}]
    BY Zenon, <1>6, <1>0 DEF TypeOK, Reenter, Acquired, shared, locks, Listed
  <2>2. sMu' \in Locks
    BY Zenon, <1>6, LockTypes DEF TypeOK, Reenter, Acquired, shared, locks
  <2>3. use' \in [Tenants -> Locks]
    BY Zenon, <1>6, <1>0, LockTypes DEF TypeOK, Reenter, Acquired, shared, locks, Listed
  <2>4. todo' \in [Threads -> Seq(Tenants)] /\ \A d \in Threads \ {th} : todo'[d] = todo[d]
    BY Zenon, <1>6, <1>0 DEF TypeOK, Reenter, Acquired, shared, locks, Listed
  <2>5. Goto(th, "using") \/ Goto(th, "check")
    BY Zenon, <1>6 DEF Reenter, Acquired, shared, locks
  <2>6. pc' \in [Threads -> Pcs] /\ \A d \in Threads \ {th} : pc'[d] = pc[d]
    BY Zenon, <2>5, Labels DEF TypeOK, Goto
  <2>7. pc'[th] = "using" \/ pc'[th] = "check"
    BY Zenon, <2>5 DEF TypeOK, Goto
  <2>8. pc'[th] \in Listed => todo'[th] # <<>>
    <3>0. pc[th] \in Listed /\ todo[th] \in Seq(Tenants)
      BY Zenon, <1>6 DEF Reenter, Listed, TypeOK
    <3>1. CASE Acquired(th)
      <4>1. Len(todo[th]) # 1 => Tail(todo[th]) # <<>>
        BY Zenon, <3>0, <1>0, Lists
      <4>2. todo'[th] = Tail(todo[th]) /\ (Len(todo[th]) = 1 => pc'[th] = "using")
        BY Zenon, <3>1 DEF Acquired, Goto, TypeOK
      <4> QED
        BY Zenon, <4>1, <4>2 DEF Listed
    <3>2. CASE UNCHANGED todo
      BY Zenon, <1>6, <3>2, <1>0, <2>7 DEF Reenter, Listed
    <3> QED
      BY Zenon, <1>6, <3>1, <3>2 DEF Reenter
  <2> QED
    BY Zenon, <2>1, <2>2, <2>3, <2>4, <2>6, <2>8 DEF TypeOK
<1>7. CASE Use(th)
  <2>1. /\ closed' \in BOOLEAN /\ present' \subseteq Tenants /\ engine' \in [Tenants -> {"nil", "open"}]
        /\ op' \in [Threads -> Ops \cup {"none"}]
    BY Zenon, <1>7, <1>0 DEF TypeOK, Use, shared, locks, Listed
  <2>2. sMu' \in Locks
    BY Zenon, <1>7, LockTypes DEF TypeOK, Use, shared, locks
  <2>3. use' \in [Tenants -> Locks]
    BY Zenon, <1>7, <1>0, LockTypes, Returns DEF TypeOK, Use, shared, locks, Listed
  <2>4. todo' \in [Threads -> Seq(Tenants)] /\ \A d \in Threads \ {th} : todo'[d] = todo[d]
    BY Zenon, <1>7, <1>0 DEF TypeOK, Use, shared, locks, Listed
  <2>5. Goto(th, "done")
    BY Zenon, <1>7, Returns DEF Use, shared, locks, Return
  <2>6. pc' \in [Threads -> Pcs] /\ \A d \in Threads \ {th} : pc'[d] = pc[d]
    BY Zenon, <2>5, Labels DEF TypeOK, Goto
  <2>7. pc'[th] = "done"
    BY Zenon, <2>5 DEF TypeOK, Goto
  <2>8. pc'[th] \in Listed => todo'[th] # <<>>
    BY Zenon, <1>7, <1>0, <2>7 DEF TypeOK, Use, shared, locks, Listed
  <2> QED
    BY Zenon, <2>1, <2>2, <2>3, <2>4, <2>6, <2>8 DEF TypeOK
<1>8. CASE Create(th)
  <2>1. /\ closed' \in BOOLEAN /\ present' \subseteq Tenants /\ engine' \in [Tenants -> {"nil", "open"}]
        /\ op' \in [Threads -> Ops \cup {"none"}]
    BY Zenon, <1>8, <1>0 DEF TypeOK, Create, shared, locks, Listed
  <2>2. sMu' \in Locks
    BY Zenon, <1>8, LockTypes DEF TypeOK, Create, shared, locks
  <2>3. use' \in [Tenants -> Locks]
    BY Zenon, <1>8, <1>0, LockTypes, Returns DEF TypeOK, Create, shared, locks, Listed
  <2>4. todo' \in [Threads -> Seq(Tenants)] /\ \A d \in Threads \ {th} : todo'[d] = todo[d]
    BY Zenon, <1>8, <1>0 DEF TypeOK, Create, shared, locks, Listed
  <2>5. Goto(th, "done")
    BY Zenon, <1>8, Returns DEF Create, shared, locks, Return
  <2>6. pc' \in [Threads -> Pcs] /\ \A d \in Threads \ {th} : pc'[d] = pc[d]
    BY Zenon, <2>5, Labels DEF TypeOK, Goto
  <2>7. pc'[th] = "done"
    BY Zenon, <2>5 DEF TypeOK, Goto
  <2>8. pc'[th] \in Listed => todo'[th] # <<>>
    BY Zenon, <1>8, <1>0, <2>7 DEF TypeOK, Create, shared, locks, Listed
  <2> QED
    BY Zenon, <2>1, <2>2, <2>3, <2>4, <2>6, <2>8 DEF TypeOK
<1>9. CASE DeleteLookup(th)
  <2>1. /\ closed' \in BOOLEAN /\ present' \subseteq Tenants /\ engine' \in [Tenants -> {"nil", "open"}]
        /\ op' \in [Threads -> Ops \cup {"none"}]
    BY Zenon, <1>9, <1>0 DEF TypeOK, DeleteLookup, shared, locks, Listed
  <2>2. sMu' \in Locks
    BY Zenon, <1>9, LockTypes DEF TypeOK, DeleteLookup, shared, locks
  <2>3. use' \in [Tenants -> Locks]
    BY Zenon, <1>9, <1>0, LockTypes, Returns DEF TypeOK, DeleteLookup, shared, locks, Listed
  <2>4. todo' \in [Threads -> Seq(Tenants)] /\ \A d \in Threads \ {th} : todo'[d] = todo[d]
    BY Zenon, <1>9, <1>0 DEF TypeOK, DeleteLookup, shared, locks, Listed
  <2>5. Goto(th, "done") \/ Goto(th, "waitOut")
    BY Zenon, <1>9, Returns DEF DeleteLookup, shared, locks, Return
  <2>6. pc' \in [Threads -> Pcs] /\ \A d \in Threads \ {th} : pc'[d] = pc[d]
    BY Zenon, <2>5, Labels DEF TypeOK, Goto
  <2>7. pc'[th] = "done" \/ pc'[th] = "waitOut"
    BY Zenon, <2>5 DEF TypeOK, Goto
  <2>8. pc'[th] \in Listed => todo'[th] # <<>>
    BY Zenon, <1>9, <1>0, <2>7 DEF TypeOK, DeleteLookup, shared, locks, Listed
  <2> QED
    BY Zenon, <2>1, <2>2, <2>3, <2>4, <2>6, <2>8 DEF TypeOK
<1>10. CASE DeleteWaits(th)
  <2>1. /\ closed' \in BOOLEAN /\ present' \subseteq Tenants /\ engine' \in [Tenants -> {"nil", "open"}]
        /\ op' \in [Threads -> Ops \cup {"none"}]
    BY Zenon, <1>10, <1>0 DEF TypeOK, DeleteWaits, shared, locks, Listed
  <2>2. sMu' \in Locks
    BY Zenon, <1>10, LockTypes DEF TypeOK, DeleteWaits, shared, locks
  <2>3. use' \in [Tenants -> Locks]
    BY Zenon, <1>10, <1>0, LockTypes DEF TypeOK, DeleteWaits, shared, locks, Listed
  <2>4. todo' \in [Threads -> Seq(Tenants)] /\ \A d \in Threads \ {th} : todo'[d] = todo[d]
    BY Zenon, <1>10, <1>0 DEF TypeOK, DeleteWaits, shared, locks, Listed
  <2>5. Goto(th, "discard")
    BY Zenon, <1>10 DEF DeleteWaits, shared, locks
  <2>6. pc' \in [Threads -> Pcs] /\ \A d \in Threads \ {th} : pc'[d] = pc[d]
    BY Zenon, <2>5, Labels DEF TypeOK, Goto
  <2>7. pc'[th] = "discard"
    BY Zenon, <2>5 DEF TypeOK, Goto
  <2>8. pc'[th] \in Listed => todo'[th] # <<>>
    BY Zenon, <1>10, <1>0, <2>7 DEF TypeOK, DeleteWaits, shared, locks, Listed
  <2> QED
    BY Zenon, <2>1, <2>2, <2>3, <2>4, <2>6, <2>8 DEF TypeOK
<1>11. CASE DeleteDiscards(th)
  <2>1. /\ closed' \in BOOLEAN /\ present' \subseteq Tenants /\ engine' \in [Tenants -> {"nil", "open"}]
        /\ op' \in [Threads -> Ops \cup {"none"}]
    BY SMTT(60), <1>11, <1>0 DEF TypeOK, DeleteDiscards, shared, locks, Listed
  <2>2. sMu' \in Locks
    BY Zenon, <1>11, LockTypes DEF TypeOK, DeleteDiscards, shared, locks
  <2>3. use' \in [Tenants -> Locks]
    BY Zenon, <1>11, <1>0, LockTypes DEF TypeOK, DeleteDiscards, shared, locks, Listed
  <2>4. todo' \in [Threads -> Seq(Tenants)] /\ \A d \in Threads \ {th} : todo'[d] = todo[d]
    BY Zenon, <1>11, <1>0 DEF TypeOK, DeleteDiscards, shared, locks, Listed
  <2>5. Goto(th, "done")
    BY Zenon, <1>11 DEF DeleteDiscards, shared, locks
  <2>6. pc' \in [Threads -> Pcs] /\ \A d \in Threads \ {th} : pc'[d] = pc[d]
    BY Zenon, <2>5, Labels DEF TypeOK, Goto
  <2>7. pc'[th] = "done"
    BY Zenon, <2>5 DEF TypeOK, Goto
  <2>8. pc'[th] \in Listed => todo'[th] # <<>>
    BY Zenon, <1>11, <1>0, <2>7 DEF TypeOK, DeleteDiscards, shared, locks, Listed
  <2> QED
    BY Zenon, <2>1, <2>2, <2>3, <2>4, <2>6, <2>8 DEF TypeOK
<1>12. CASE Sweep(th)
  <2>1. /\ closed' \in BOOLEAN /\ present' \subseteq Tenants /\ engine' \in [Tenants -> {"nil", "open"}]
        /\ op' \in [Threads -> Ops \cup {"none"}]
    BY Zenon, <1>12, <1>0 DEF TypeOK, Sweep, shared, locks, Listed
  <2>2. sMu' \in Locks
    BY Zenon, <1>12, LockTypes DEF TypeOK, Sweep, shared, locks
  <2>3. use' \in [Tenants -> Locks]
    BY Zenon, <1>12, <1>0, LockTypes DEF TypeOK, Sweep, shared, locks, Listed
  <2>4. todo' \in [Threads -> Seq(Tenants)] /\ \A d \in Threads \ {th} : todo'[d] = todo[d]
    BY Zenon, <1>12, <1>0, OrdersType DEF TypeOK, Sweep, shared, locks, Listed
  <2>5. Goto(th, "closeIdle")
    BY Zenon, <1>12 DEF Sweep, shared, locks
  <2>6. pc' \in [Threads -> Pcs] /\ \A d \in Threads \ {th} : pc'[d] = pc[d]
    BY Zenon, <2>5, Labels DEF TypeOK, Goto
  <2>7. pc'[th] = "closeIdle"
    BY Zenon, <2>5 DEF TypeOK, Goto
  <2>8. pc'[th] \in Listed => todo'[th] # <<>>
    BY Zenon, <1>12, <1>0, <2>7 DEF TypeOK, Sweep, shared, locks, Listed
  <2> QED
    BY Zenon, <2>1, <2>2, <2>3, <2>4, <2>6, <2>8 DEF TypeOK
<1>13. CASE CloseIdle(th)
  <2>1. /\ closed' \in BOOLEAN /\ present' \subseteq Tenants /\ engine' \in [Tenants -> {"nil", "open"}]
        /\ op' \in [Threads -> Ops \cup {"none"}]
    BY Zenon, <1>13, <1>0 DEF TypeOK, CloseIdle, shared, locks, Listed
  <2>2. sMu' \in Locks
    BY Zenon, <1>13, LockTypes DEF TypeOK, CloseIdle, shared, locks
  <2>3. use' \in [Tenants -> Locks]
    BY Zenon, <1>13, <1>0, LockTypes, Returns DEF TypeOK, CloseIdle, shared, locks, Listed
  <2>4. todo' \in [Threads -> Seq(Tenants)] /\ \A d \in Threads \ {th} : todo'[d] = todo[d]
    BY Zenon, <1>13, <1>0 DEF TypeOK, CloseIdle, shared, locks, Listed
  <2>5. Goto(th, "done") \/ pc' = pc
    BY Zenon, <1>13, Returns DEF CloseIdle, shared, locks, Return
  <2>6. pc' \in [Threads -> Pcs] /\ \A d \in Threads \ {th} : pc'[d] = pc[d]
    BY Zenon, <2>5, Labels DEF TypeOK, Goto
  <2>7. pc'[th] = "done" \/ pc'[th] = pc[th]
    BY Zenon, <2>5 DEF TypeOK, Goto
  <2>8. pc'[th] \in Listed => todo'[th] # <<>>
    BY Zenon, <1>13, <1>0, <2>7 DEF TypeOK, CloseIdle, shared, locks, Listed
  <2> QED
    BY Zenon, <2>1, <2>2, <2>3, <2>4, <2>6, <2>8 DEF TypeOK
<1>14. CASE SnapshotBegins(th)
  <2>1. /\ closed' \in BOOLEAN /\ present' \subseteq Tenants /\ engine' \in [Tenants -> {"nil", "open"}]
        /\ op' \in [Threads -> Ops \cup {"none"}]
    BY Zenon, <1>14, <1>0 DEF TypeOK, SnapshotBegins, shared, locks, Listed
  <2>2. sMu' \in Locks
    BY Zenon, <1>14, LockTypes DEF TypeOK, SnapshotBegins, shared, locks
  <2>3. use' \in [Tenants -> Locks]
    BY Zenon, <1>14, <1>0, LockTypes DEF TypeOK, SnapshotBegins, shared, locks, Listed
  <2>4. todo' \in [Threads -> Seq(Tenants)] /\ \A d \in Threads \ {th} : todo'[d] = todo[d]
    BY Zenon, <1>14, <1>0, OrdersType DEF TypeOK, SnapshotBegins, shared, locks, Listed
  <2>5. Goto(th, "collect")
    BY Zenon, <1>14 DEF SnapshotBegins, shared, locks
  <2>6. pc' \in [Threads -> Pcs] /\ \A d \in Threads \ {th} : pc'[d] = pc[d]
    BY Zenon, <2>5, Labels DEF TypeOK, Goto
  <2>7. pc'[th] = "collect"
    BY Zenon, <2>5 DEF TypeOK, Goto
  <2>8. pc'[th] \in Listed => todo'[th] # <<>>
    BY Zenon, <1>14, <1>0, <2>7 DEF TypeOK, SnapshotBegins, shared, locks, Listed
  <2> QED
    BY Zenon, <2>1, <2>2, <2>3, <2>4, <2>6, <2>8 DEF TypeOK
<1>15. CASE Collect(th)
  <2>1. /\ closed' \in BOOLEAN /\ present' \subseteq Tenants /\ engine' \in [Tenants -> {"nil", "open"}]
        /\ op' \in [Threads -> Ops \cup {"none"}]
    BY Zenon, <1>15, <1>0 DEF TypeOK, Collect, shared, locks, Listed
  <2>2. sMu' \in Locks
    BY Zenon, <1>15, LockTypes DEF TypeOK, Collect, shared, locks
  <2>3. use' \in [Tenants -> Locks]
    <3>1. CASE use' = use
      BY Zenon, <3>1 DEF TypeOK
    <3>2. CASE todo[th] # <<>> /\ use' = [use EXCEPT ![First(th)] = RLocked(use[First(th)], th)]
      BY Zenon, <3>2, <1>0, LockTypes DEF TypeOK
    <3> QED
      BY Zenon, <1>15, <1>0, <3>1, <3>2 DEF Collect, shared, locks, Listed
  <2>4. todo' \in [Threads -> Seq(Tenants)] /\ \A d \in Threads \ {th} : todo'[d] = todo[d]
    BY Zenon, <1>15, <1>0 DEF TypeOK, Collect, shared, locks, Listed
  <2>5. Goto(th, "save") \/ pc' = pc
    BY Zenon, <1>15 DEF Collect, shared, locks
  <2>6. pc' \in [Threads -> Pcs] /\ \A d \in Threads \ {th} : pc'[d] = pc[d]
    BY Zenon, <2>5, Labels DEF TypeOK, Goto
  <2>7. pc'[th] = "save" \/ pc'[th] = pc[th]
    BY Zenon, <2>5 DEF TypeOK, Goto
  <2>8. pc'[th] \in Listed => todo'[th] # <<>>
    BY Zenon, <1>15, <1>0, <2>7 DEF TypeOK, Collect, shared, locks, Listed
  <2> QED
    BY Zenon, <2>1, <2>2, <2>3, <2>4, <2>6, <2>8 DEF TypeOK
<1>16. CASE Save(th)
  <2>1. /\ closed' \in BOOLEAN /\ present' \subseteq Tenants /\ engine' \in [Tenants -> {"nil", "open"}]
        /\ op' \in [Threads -> Ops \cup {"none"}]
    BY Zenon, <1>16, <1>0 DEF TypeOK, Save, shared, locks, Listed
  <2>2. sMu' \in Locks
    BY Zenon, <1>16, LockTypes DEF TypeOK, Save, shared, locks
  <2>3. use' \in [Tenants -> Locks]
    <3>1. CASE Return(th, "ok")
      BY Zenon, <3>1, Returns
    <3>2. CASE \E t \in Tenants : use' = [use EXCEPT ![t] = RUnlocked(use[t], th)]
      <4>1. PICK t \in Tenants : use' = [use EXCEPT ![t] = RUnlocked(use[t], th)]
        BY Zenon, <3>2
      <4>2. use[t] \in Locks
        BY Zenon DEF TypeOK
      <4> QED
        BY Zenon, <4>1, <4>2, LockTypes DEF TypeOK
    <3> QED
      BY Zenon, <1>16, <1>0, <3>1, <3>2 DEF Save, shared, locks, Listed
  <2>4. todo' \in [Threads -> Seq(Tenants)] /\ \A d \in Threads \ {th} : todo'[d] = todo[d]
    BY Zenon, <1>16, <1>0 DEF TypeOK, Save, shared, locks, Listed
  <2>5. Goto(th, "done") \/ pc' = pc
    BY Zenon, <1>16, Returns DEF Save, shared, locks, Return
  <2>6. pc' \in [Threads -> Pcs] /\ \A d \in Threads \ {th} : pc'[d] = pc[d]
    BY Zenon, <2>5, Labels DEF TypeOK, Goto
  <2>7. pc'[th] = "done" \/ pc'[th] = pc[th]
    BY Zenon, <2>5 DEF TypeOK, Goto
  <2>8. pc'[th] \in Listed => todo'[th] # <<>>
    BY Zenon, <1>16, <1>0, <2>7 DEF TypeOK, Save, shared, locks, Listed
  <2> QED
    BY Zenon, <2>1, <2>2, <2>3, <2>4, <2>6, <2>8 DEF TypeOK
<1>17. CASE CloseBegins(th)
  <2>1. /\ closed' \in BOOLEAN /\ present' \subseteq Tenants /\ engine' \in [Tenants -> {"nil", "open"}]
        /\ op' \in [Threads -> Ops \cup {"none"}]
    BY Zenon, <1>17, <1>0 DEF TypeOK, CloseBegins, shared, locks, Listed
  <2>2. sMu' \in Locks
    BY Zenon, <1>17, LockTypes DEF TypeOK, CloseBegins, shared, locks
  <2>3. use' \in [Tenants -> Locks]
    BY Zenon, <1>17, <1>0, LockTypes, Returns DEF TypeOK, CloseBegins, shared, locks, Listed
  <2>4. todo' \in [Threads -> Seq(Tenants)] /\ \A d \in Threads \ {th} : todo'[d] = todo[d]
    BY Zenon, <1>17, <1>0 DEF TypeOK, CloseBegins, shared, locks, Listed
  <2>5. Goto(th, "done") \/ Goto(th, "list")
    BY Zenon, <1>17, Returns DEF CloseBegins, shared, locks, Return
  <2>6. pc' \in [Threads -> Pcs] /\ \A d \in Threads \ {th} : pc'[d] = pc[d]
    BY Zenon, <2>5, Labels DEF TypeOK, Goto
  <2>7. pc'[th] = "done" \/ pc'[th] = "list"
    BY Zenon, <2>5 DEF TypeOK, Goto
  <2>8. pc'[th] \in Listed => todo'[th] # <<>>
    BY Zenon, <1>17, <1>0, <2>7 DEF TypeOK, CloseBegins, shared, locks, Listed
  <2> QED
    BY Zenon, <2>1, <2>2, <2>3, <2>4, <2>6, <2>8 DEF TypeOK
<1>18. CASE CloseLists(th)
  <2>1. /\ closed' \in BOOLEAN /\ present' \subseteq Tenants /\ engine' \in [Tenants -> {"nil", "open"}]
        /\ op' \in [Threads -> Ops \cup {"none"}]
    BY Zenon, <1>18, <1>0 DEF TypeOK, CloseLists, shared, locks, Listed
  <2>2. sMu' \in Locks
    BY Zenon, <1>18, LockTypes DEF TypeOK, CloseLists, shared, locks
  <2>3. use' \in [Tenants -> Locks]
    BY Zenon, <1>18, <1>0, LockTypes DEF TypeOK, CloseLists, shared, locks, Listed
  <2>4. todo' \in [Threads -> Seq(Tenants)] /\ \A d \in Threads \ {th} : todo'[d] = todo[d]
    BY Zenon, <1>18, <1>0, OrdersType DEF TypeOK, CloseLists, shared, locks, Listed
  <2>5. Goto(th, "closing")
    BY Zenon, <1>18 DEF CloseLists, shared, locks
  <2>6. pc' \in [Threads -> Pcs] /\ \A d \in Threads \ {th} : pc'[d] = pc[d]
    BY Zenon, <2>5, Labels DEF TypeOK, Goto
  <2>7. pc'[th] = "closing"
    BY Zenon, <2>5 DEF TypeOK, Goto
  <2>8. pc'[th] \in Listed => todo'[th] # <<>>
    BY Zenon, <1>18, <1>0, <2>7 DEF TypeOK, CloseLists, shared, locks, Listed
  <2> QED
    BY Zenon, <2>1, <2>2, <2>3, <2>4, <2>6, <2>8 DEF TypeOK
<1>19. CASE CloseWaits(th)
  <2>1. /\ closed' \in BOOLEAN /\ present' \subseteq Tenants /\ engine' \in [Tenants -> {"nil", "open"}]
        /\ op' \in [Threads -> Ops \cup {"none"}]
    BY Zenon, <1>19, <1>0 DEF TypeOK, CloseWaits, shared, locks, Listed
  <2>2. sMu' \in Locks
    BY Zenon, <1>19, LockTypes DEF TypeOK, CloseWaits, shared, locks
  <2>3. use' \in [Tenants -> Locks]
    <3>1. CASE Return(th, "ok")
      BY Zenon, <3>1, Returns
    <3>2. CASE todo[th] # <<>> /\ use' = [use EXCEPT ![First(th)] = Announced(use[First(th)], th)]
      BY Zenon, <3>2, <1>0, LockTypes DEF TypeOK
    <3> QED
      BY Zenon, <1>19, <1>0, <3>1, <3>2 DEF CloseWaits, shared, locks, Listed
  <2>4. todo' \in [Threads -> Seq(Tenants)] /\ \A d \in Threads \ {th} : todo'[d] = todo[d]
    BY Zenon, <1>19, <1>0 DEF TypeOK, CloseWaits, shared, locks, Listed
  <2>5. Goto(th, "done") \/ Goto(th, "closeOne")
    BY Zenon, <1>19, Returns DEF CloseWaits, shared, locks, Return
  <2>6. pc' \in [Threads -> Pcs] /\ \A d \in Threads \ {th} : pc'[d] = pc[d]
    BY Zenon, <2>5, Labels DEF TypeOK, Goto
  <2>7. pc'[th] = "done" \/ pc'[th] = "closeOne"
    BY Zenon, <2>5 DEF TypeOK, Goto
  <2>8. pc'[th] \in Listed => todo'[th] # <<>>
    <3>1. CASE todo[th] = <<>>
      BY Zenon, <1>19, <3>1, Returns DEF CloseWaits, TypeOK, Listed
    <3>2. CASE todo[th] # <<>>
      BY Zenon, <1>19, <3>2 DEF CloseWaits
    <3> QED
      BY Zenon, <3>1, <3>2
  <2> QED
    BY Zenon, <2>1, <2>2, <2>3, <2>4, <2>6, <2>8 DEF TypeOK
<1>20. CASE CloseOne(th)
  <2>1. /\ closed' \in BOOLEAN /\ present' \subseteq Tenants /\ engine' \in [Tenants -> {"nil", "open"}]
        /\ op' \in [Threads -> Ops \cup {"none"}]
    BY Zenon, <1>20, <1>0 DEF TypeOK, CloseOne, shared, locks, Listed
  <2>2. sMu' \in Locks
    BY Zenon, <1>20, LockTypes DEF TypeOK, CloseOne, shared, locks
  <2>3. use' \in [Tenants -> Locks]
    BY Zenon, <1>20, <1>0, LockTypes DEF TypeOK, CloseOne, shared, locks, Listed
  <2>4. todo' \in [Threads -> Seq(Tenants)] /\ \A d \in Threads \ {th} : todo'[d] = todo[d]
    BY Zenon, <1>20, <1>0 DEF TypeOK, CloseOne, shared, locks, Listed
  <2>5. Goto(th, "closing")
    BY Zenon, <1>20 DEF CloseOne, shared, locks
  <2>6. pc' \in [Threads -> Pcs] /\ \A d \in Threads \ {th} : pc'[d] = pc[d]
    BY Zenon, <2>5, Labels DEF TypeOK, Goto
  <2>7. pc'[th] = "closing"
    BY Zenon, <2>5 DEF TypeOK, Goto
  <2>8. pc'[th] \in Listed => todo'[th] # <<>>
    BY Zenon, <1>20, <1>0, <2>7 DEF TypeOK, CloseOne, shared, locks, Listed
  <2> QED
    BY Zenon, <2>1, <2>2, <2>3, <2>4, <2>6, <2>8 DEF TypeOK
<1> QED
  BY Zenon, <1>S, <1>1, <1>2, <1>3, <1>4, <1>5, <1>6, <1>7, <1>8, <1>9, <1>10, <1>11, <1>12, <1>13,
     <1>14, <1>15, <1>16, <1>17, <1>18, <1>19, <1>20 DEF Step

\* A call's step changes its own place, kind and list, and no other call's.
LEMMA Alone ==
  ASSUME TypeOK, NEW th \in Threads, Start(th) \/ Step(th), NEW d \in Threads \ {th}
  PROVE  pc'[d] = pc[d] /\ op'[d] = op[d] /\ todo'[d] = todo[d]
<1>S. CASE Start(th)
  <2>1. PICK o \in Ops :
          /\ op' = [op EXCEPT ![th] = o]
          /\ CASE o = "request" -> \E r \in Requests : todo' = [todo EXCEPT ![th] = r]
               [] o \in {"create", "delete"} ->
                    \E t \in Tenants \ {Default} : todo' = [todo EXCEPT ![th] = <<t>>]
               [] OTHER -> UNCHANGED todo
          /\ Goto(th, CASE o = "request" -> "check" [] OTHER -> o)
    BY Zenon, <1>S DEF Start
  <2>2. pc'[d] = pc[d] /\ op'[d] = op[d]
    BY Zenon, <2>1 DEF Goto, TypeOK
  <2>3. CASE o = "request"
    BY Zenon, <2>1, <2>2, <2>3 DEF TypeOK
  <2>4. CASE o \in {"create", "delete"}
    BY Zenon, <2>1, <2>2, <2>4 DEF TypeOK
  <2>5. CASE o \notin {"request", "create", "delete"}
    BY Zenon, <2>1, <2>2, <2>5
  <2> QED
    BY Zenon, <2>3, <2>4, <2>5
<1>1. CASE CheckClosed(th)
  BY Zenon, <1>1 DEF TypeOK, CheckClosed, Return, Goto, shared, locks
<1>2. CASE Lookup(th)
  BY Zenon, <1>2 DEF TypeOK, Lookup, Return, Goto, shared, locks
<1>3. CASE Enter(th)
  BY Zenon, <1>3 DEF TypeOK, Enter, Return, Acquired, Goto, shared, locks
<1>4. CASE Want(th)
  BY Zenon, <1>4 DEF TypeOK, Want, Return, Goto, shared, locks
<1>5. CASE OpenEngine(th)
  BY Zenon, <1>5 DEF TypeOK, OpenEngine, Return, Goto, shared, locks
<1>6. CASE Reenter(th)
  BY Zenon, <1>6 DEF TypeOK, Reenter, Acquired, Goto, shared, locks
<1>7. CASE Use(th)
  BY Zenon, <1>7 DEF TypeOK, Use, Return, Goto, shared, locks
<1>8. CASE Create(th)
  BY Zenon, <1>8 DEF TypeOK, Create, Return, Goto, shared, locks
<1>9. CASE DeleteLookup(th)
  BY Zenon, <1>9 DEF TypeOK, DeleteLookup, Return, Goto, shared, locks
<1>10. CASE DeleteWaits(th)
  BY Zenon, <1>10 DEF TypeOK, DeleteWaits, Goto, shared, locks
<1>11. CASE DeleteDiscards(th)
  BY Zenon, <1>11 DEF TypeOK, DeleteDiscards, Goto, shared, locks
<1>12. CASE Sweep(th)
  BY Zenon, <1>12 DEF TypeOK, Sweep, Goto, shared, locks
<1>13. CASE CloseIdle(th)
  BY Zenon, <1>13 DEF TypeOK, CloseIdle, Return, Goto, shared, locks
<1>14. CASE SnapshotBegins(th)
  BY Zenon, <1>14 DEF TypeOK, SnapshotBegins, Goto, shared, locks
<1>15. CASE Collect(th)
  BY Zenon, <1>15 DEF TypeOK, Collect, Goto, shared, locks
<1>16. CASE Save(th)
  BY Zenon, <1>16 DEF TypeOK, Save, Return, Goto, shared, locks
<1>17. CASE CloseBegins(th)
  BY Zenon, <1>17 DEF TypeOK, CloseBegins, Return, Goto, shared, locks
<1>18. CASE CloseLists(th)
  BY Zenon, <1>18 DEF TypeOK, CloseLists, Goto, shared, locks
<1>19. CASE CloseWaits(th)
  BY Zenon, <1>19 DEF TypeOK, CloseWaits, Return, Goto, shared, locks
<1>20. CASE CloseOne(th)
  BY Zenon, <1>20 DEF TypeOK, CloseOne, Goto, shared, locks
<1> QED
  BY Zenon, <1>S, <1>1, <1>2, <1>3, <1>4, <1>5, <1>6, <1>7, <1>8, <1>9, <1>10, <1>11, <1>12,
     <1>13, <1>14, <1>15, <1>16, <1>17, <1>18, <1>19, <1>20 DEF Step

\* How a call begins.
LEMMA Starts ==
  ASSUME TypeOK, NEW th \in Threads, Start(th)
  PROVE  /\ pc[th] = "start" /\ UNCHANGED <<closed, present, engine, sMu, use>>
         /\ pc'[th] \in {"check", "create", "delete", "idle", "snapshot", "stats", "close"}
         /\ pc'[th] = "close" <=> op'[th] = "close"
<1>1. PICK o \in Ops :
        op' = [op EXCEPT ![th] = o] /\ Goto(th, CASE o = "request" -> "check" [] OTHER -> o)
  BY Zenon DEF Start
<1>2. CASE o = "request"
  BY Zenon, <1>1, <1>2 DEF Start, shared, locks, Goto, TypeOK
<1>3. CASE o # "request"
  BY Zenon, <1>1, <1>3 DEF Start, shared, locks, Goto, Ops, TypeOK
<1> QED
  BY Zenon, <1>2, <1>3

\* s.mu belongs to one call at a time.
LEMMA ExclusiveStep ==
  ASSUME TypeOK, Exclusive, NEW th \in Threads, Start(th) \/ Step(th)
  PROVE  Exclusive'
<1>0. /\ \A d \in Threads \ {th} : pc'[d] = pc[d]
      /\ \A d \in Threads : d # None
      /\ sMu.writer = None => \A d \in Threads : pc[d] \notin Holding
      /\ pc[th] \in Holding => \A d \in Threads \ {th} : pc[d] \notin Holding
  BY Zenon, Alone, NoneAssumption DEF Exclusive
<1> SUFFICES /\ sMu'.writer # None => sMu'.waiting = None
             /\ pc'[th] \in Holding => sMu'.writer = th
             /\ \/ sMu'.writer = sMu.writer
                \/ \A d \in Threads \ {th} : pc[d] \notin Holding
  BY Zenon, <1>0 DEF Exclusive
<1>S. CASE Start(th)
  BY Zenon, <1>S, Starts, <1>0 DEF Exclusive, Holding
<1>1. CASE CheckClosed(th)
  BY Zenon, <1>1, <1>0 DEF TypeOK, Exclusive, Holding, Locks, CheckClosed, Return, Goto, shared, locks,
     Readable, CanEnter, CanAnnounce
<1>2. CASE Lookup(th)
  BY ZenonT(60), <1>2, <1>0 DEF TypeOK, Exclusive, Holding, Locks, Lookup, Return, RLocked, Goto,
     shared, locks, Readable, CanEnter, CanAnnounce
<1>3. CASE Enter(th)
  BY Zenon, <1>3, <1>0 DEF TypeOK, Exclusive, Holding, Locks, Enter, Return, RLocked, RUnlocked,
     Acquired, Goto, shared, locks, Readable, CanEnter, CanAnnounce
<1>4. CASE Want(th)
  BY <1>4, <1>0 DEF TypeOK, Exclusive, Holding, Locks, Want, Return, Announced, Wanting, Goto,
     shared, locks, Readable, CanEnter, CanAnnounce
<1>5. CASE OpenEngine(th)
  <2>1. sMu.writer = None /\ sMu.readers = {} /\ sMu.waiting = th
    BY Zenon, <1>5, <1>0 DEF OpenEngine, CanEnter, Exclusive, Locks, TypeOK
  <2>2. \/ pc'[th] = "done" /\ sMu' = Unlocked
        \/ pc'[th] = "reenter" /\ sMu' = Granted(sMu, th)
    BY Zenon, <1>5, Returns DEF OpenEngine, Goto, TypeOK
  <2>3. Unlocked.writer = None /\ Granted(sMu, th).writer = th /\ Granted(sMu, th).waiting = None
    BY Zenon DEF Unlocked, Granted, TypeOK, Locks
  <2> QED
    BY Zenon, <2>1, <2>2, <2>3, <1>0 DEF Holding
<1>6. CASE Reenter(th)
  BY Zenon, <1>6, <1>0 DEF TypeOK, Exclusive, Holding, Locks, Reenter, RLocked, Released, Acquired, Goto,
     shared, locks, Readable, CanEnter, CanAnnounce
<1>7. CASE Use(th)
  BY Zenon, <1>7, <1>0 DEF TypeOK, Exclusive, Holding, Locks, Use, Return, Goto, shared, locks, Readable,
     CanEnter, CanAnnounce
<1>8. CASE Create(th)
  BY ZenonT(60), <1>8, <1>0 DEF TypeOK, Exclusive, Holding, Locks, Create, Return, Unlocked, Goto,
     shared, locks, Readable, CanEnter, CanAnnounce
<1>9. CASE DeleteLookup(th)
  <2>1. sMu.writer = None /\ sMu.readers = {} /\ sMu.waiting = th
    BY Zenon, <1>9, <1>0 DEF DeleteLookup, CanEnter, Exclusive, Locks, TypeOK
  <2>2. \/ pc'[th] = "done" /\ sMu' = Unlocked
        \/ pc'[th] = "waitOut" /\ sMu' = Granted(sMu, th)
    BY Zenon, <1>9, Returns DEF DeleteLookup, Goto, TypeOK
  <2>3. Unlocked.writer = None /\ Granted(sMu, th).writer = th /\ Granted(sMu, th).waiting = None
    BY Zenon DEF Unlocked, Granted, TypeOK, Locks
  <2> QED
    BY Zenon, <2>1, <2>2, <2>3, <1>0 DEF Holding
<1>10. CASE DeleteWaits(th)
  BY Zenon, <1>10, <1>0 DEF TypeOK, Exclusive, Holding, Locks, DeleteWaits, Announced, Goto, shared,
     locks, Readable, CanEnter, CanAnnounce
<1>11. CASE DeleteDiscards(th)
  BY Zenon, <1>11, <1>0 DEF TypeOK, Exclusive, Holding, Locks, DeleteDiscards, Unlocked, Goto,
     shared, locks, Readable, CanEnter, CanAnnounce
<1>12. CASE Sweep(th)
  BY Zenon, <1>12, <1>0 DEF TypeOK, Exclusive, Holding, Locks, Sweep, Granted, Goto, shared, locks,
     Readable, CanEnter, CanAnnounce
<1>13. CASE CloseIdle(th)
  BY <1>13, <1>0 DEF TypeOK, Exclusive, Holding, Locks, CloseIdle, Return, Unlocked, Goto, shared,
     locks, Readable, CanEnter, CanAnnounce
<1>14. CASE SnapshotBegins(th)
  BY Zenon, <1>14, <1>0 DEF TypeOK, Exclusive, Holding, Locks, SnapshotBegins, RLocked, Goto, shared,
     locks, Readable, CanEnter, CanAnnounce
<1>15. CASE Collect(th)
  BY Zenon, <1>15, <1>0 DEF TypeOK, Exclusive, Holding, Locks, Collect, RLocked, RUnlocked, Goto, shared,
     locks, Readable, CanEnter, CanAnnounce
<1>16. CASE Save(th)
  BY Zenon, <1>16, <1>0 DEF TypeOK, Exclusive, Holding, Locks, Save, Return, RUnlocked, Goto, shared,
     locks, Readable, CanEnter, CanAnnounce
<1>17. CASE CloseBegins(th)
  BY ZenonT(60), <1>17, <1>0 DEF TypeOK, Exclusive, Holding, Locks, CloseBegins, Return, Goto,
     shared, locks, Readable, CanEnter, CanAnnounce
<1>18. CASE CloseLists(th)
  BY Zenon, <1>18, <1>0 DEF TypeOK, Exclusive, Holding, Locks, CloseLists, Goto, shared, locks, Readable,
     CanEnter, CanAnnounce
<1>19. CASE CloseWaits(th)
  BY Zenon, <1>19, <1>0 DEF TypeOK, Exclusive, Holding, Locks, CloseWaits, Return, Announced, Goto,
     shared, locks, Readable, CanEnter, CanAnnounce
<1>20. CASE CloseOne(th)
  BY Zenon, <1>20, <1>0 DEF TypeOK, Exclusive, Holding, Locks, CloseOne, Unlocked, Goto, shared,
     locks, Readable, CanEnter, CanAnnounce
<1> QED
  BY Zenon, <1>S, <1>1, <1>2, <1>3, <1>4, <1>5, <1>6, <1>7, <1>8, <1>9, <1>10, <1>11, <1>12,
     <1>13, <1>14, <1>15, <1>16, <1>17, <1>18, <1>19, <1>20 DEF Step

\* A tenant outside the map has no engine: one is opened only for a tenant in the map, and
\* a tenant leaves the map with its engine.
LEMMA GoneStep ==
  ASSUME TypeOK, Gone, NEW th \in Threads, Start(th) \/ Step(th)
  PROVE  Gone'
<1>0. pc[th] \in Listed => First(th) \in Tenants
  BY DEF TypeOK, First
<1>S. CASE Start(th)
  BY Zenon, <1>S, Starts DEF Gone
<1>1. CASE CheckClosed(th)
  BY Zenon, <1>1, <1>0 DEF TypeOK, Gone, CheckClosed, shared, Listed
<1>2. CASE Lookup(th)
  BY Zenon, <1>2, <1>0 DEF TypeOK, Gone, Lookup, shared, Listed
<1>3. CASE Enter(th)
  BY Zenon, <1>3, <1>0 DEF TypeOK, Gone, Enter, shared, Listed
<1>4. CASE Want(th)
  BY Zenon, <1>4, <1>0 DEF TypeOK, Gone, Want, shared, Listed
<1>5. CASE OpenEngine(th)
  BY Zenon, <1>5, <1>0 DEF TypeOK, Gone, OpenEngine, shared, Listed
<1>6. CASE Reenter(th)
  BY Zenon, <1>6, <1>0 DEF TypeOK, Gone, Reenter, shared, Listed
<1>7. CASE Use(th)
  BY Zenon, <1>7, <1>0 DEF TypeOK, Gone, Use, shared, Listed
<1>8. CASE Create(th)
  BY Zenon, <1>8, <1>0 DEF TypeOK, Gone, Create, shared, Listed
<1>9. CASE DeleteLookup(th)
  BY Zenon, <1>9, <1>0 DEF TypeOK, Gone, DeleteLookup, shared, Listed
<1>10. CASE DeleteWaits(th)
  BY Zenon, <1>10, <1>0 DEF TypeOK, Gone, DeleteWaits, shared, Listed
<1>11. CASE DeleteDiscards(th)
  BY Zenon, <1>11, <1>0 DEF TypeOK, Gone, DeleteDiscards, shared, Listed
<1>12. CASE Sweep(th)
  BY Zenon, <1>12, <1>0 DEF TypeOK, Gone, Sweep, shared, Listed
<1>13. CASE CloseIdle(th)
  BY Zenon, <1>13, <1>0 DEF TypeOK, Gone, CloseIdle, shared, Listed
<1>14. CASE SnapshotBegins(th)
  BY Zenon, <1>14, <1>0 DEF TypeOK, Gone, SnapshotBegins, shared, Listed
<1>15. CASE Collect(th)
  BY Zenon, <1>15, <1>0 DEF TypeOK, Gone, Collect, shared, Listed
<1>16. CASE Save(th)
  BY Zenon, <1>16, <1>0 DEF TypeOK, Gone, Save, shared, Listed
<1>17. CASE CloseBegins(th)
  BY Zenon, <1>17, <1>0 DEF TypeOK, Gone, CloseBegins, shared, Listed
<1>18. CASE CloseLists(th)
  BY Zenon, <1>18, <1>0 DEF TypeOK, Gone, CloseLists, shared, Listed
<1>19. CASE CloseWaits(th)
  BY Zenon, <1>19, <1>0 DEF TypeOK, Gone, CloseWaits, shared, Listed
<1>20. CASE CloseOne(th)
  BY Zenon, <1>20, <1>0 DEF TypeOK, Gone, CloseOne, shared, Listed
<1> QED
  BY Zenon, <1>S, <1>1, <1>2, <1>3, <1>4, <1>5, <1>6, <1>7, <1>8, <1>9, <1>10, <1>11, <1>12, <1>13,
     <1>14, <1>15, <1>16, <1>17, <1>18, <1>19, <1>20 DEF Step

\* The engine a call opens stays open until the call has locked it: whoever closes one
\* holds s.mu, or comes after every call that opens one.
LEMMA JustOpenedStep ==
  ASSUME TypeOK, Exclusive, Closes, JustOpened, NEW th \in Threads, Start(th) \/ Step(th)
  PROVE  JustOpened'
<1>0. /\ \A d \in Threads \ {th} : pc'[d] = pc[d] /\ First(d)' = First(d)
      /\ pc[th] \in Listed => First(th) \in Tenants
  BY Alone DEF TypeOK, First
<1>1a. pc[th] \in Holding => \A d \in Threads \ {th} : pc[d] # "reenter"
  BY Zenon DEF Exclusive, Holding
<1> SUFFICES /\ pc'[th] = "reenter" => engine'[First(th)'] = "open"
             /\ \/ \A d \in Threads \ {th} : pc[d] # "reenter"
                \/ \A t \in Tenants : engine[t] = "open" => engine'[t] = "open"
  <2>1. \A d \in Threads : pc[d] = "reenter" => First(d) \in Tenants
    BY DEF TypeOK, First, Listed
  <2> QED
    BY Zenon, <1>0, <2>1 DEF JustOpened
<1>S. CASE Start(th)
  BY Zenon, <1>S, Starts DEF JustOpened
<1>1. CASE CheckClosed(th)
  BY Zenon, <1>1, <1>0, <1>1a DEF TypeOK, JustOpened, CheckClosed, Return, Goto, shared, Listed, Holding
<1>2. CASE Lookup(th)
  BY Zenon, <1>2, <1>0, <1>1a DEF TypeOK, JustOpened, Lookup, Return, Goto, shared, Listed, Holding
<1>3. CASE Enter(th)
  BY Zenon, <1>3, <1>0, <1>1a DEF TypeOK, JustOpened, Enter, Return, Acquired, Goto, shared,
     Listed, Holding
<1>4. CASE Want(th)
  BY Zenon, <1>4, <1>0, <1>1a DEF TypeOK, JustOpened, Want, Return, Wanting, Goto, shared, Listed, Holding
<1>5. CASE OpenEngine(th)
  <2>1. First(th)' = First(th) /\ First(th) \in Tenants
    BY Zenon, <1>5, <1>0 DEF OpenEngine, First, Listed
  <2>2. CASE pc'[th] = "done" /\ engine' = engine
    BY Zenon, <2>2
  <2>3. CASE engine' = [engine EXCEPT ![First(th)] = "open"]
    BY Zenon, <2>1, <2>3 DEF TypeOK
  <2> QED
    BY Zenon, <1>5, <2>2, <2>3, Returns DEF OpenEngine, TypeOK
<1>6. CASE Reenter(th)
  BY Zenon, <1>6, <1>0, <1>1a DEF TypeOK, JustOpened, Reenter, Acquired, Goto, shared, Listed, Holding
<1>7. CASE Use(th)
  BY Zenon, <1>7, <1>0, <1>1a DEF TypeOK, JustOpened, Use, Return, Goto, shared, Listed, Holding
<1>8. CASE Create(th)
  BY Zenon, <1>8, <1>0, <1>1a DEF TypeOK, JustOpened, Create, Return, Goto, shared, Listed, Holding
<1>9. CASE DeleteLookup(th)
  BY Zenon, <1>9, <1>0, <1>1a DEF TypeOK, JustOpened, DeleteLookup, Return, Goto, shared, Listed,
     Holding
<1>10. CASE DeleteWaits(th)
  BY Zenon, <1>10, <1>0, <1>1a DEF TypeOK, JustOpened, DeleteWaits, Goto, shared, Listed, Holding
<1>11. CASE DeleteDiscards(th)
  BY Zenon, <1>11, <1>0, <1>1a DEF TypeOK, JustOpened, DeleteDiscards, Goto, shared, Listed, Holding
<1>12. CASE Sweep(th)
  BY Zenon, <1>12, <1>0, <1>1a DEF TypeOK, JustOpened, Sweep, Goto, shared, Listed, Holding
<1>13. CASE CloseIdle(th)
  BY Zenon, <1>13, <1>0, <1>1a DEF TypeOK, JustOpened, CloseIdle, Return, Goto, shared, Listed,
     Holding
<1>14. CASE SnapshotBegins(th)
  BY Zenon, <1>14, <1>0, <1>1a DEF TypeOK, JustOpened, SnapshotBegins, Goto, shared, Listed, Holding
<1>15. CASE Collect(th)
  BY Zenon, <1>15, <1>0, <1>1a DEF TypeOK, JustOpened, Collect, Goto, shared, Listed, Holding
<1>16. CASE Save(th)
  BY Zenon, <1>16, <1>0, <1>1a DEF TypeOK, JustOpened, Save, Return, Goto, shared, Listed, Holding
<1>17. CASE CloseBegins(th)
  BY Zenon, <1>17, <1>0, <1>1a DEF TypeOK, JustOpened, CloseBegins, Return, Goto, shared, Listed, Holding
<1>18. CASE CloseLists(th)
  BY Zenon, <1>18, <1>0, <1>1a DEF TypeOK, JustOpened, CloseLists, Goto, shared, Listed, Holding
<1>19. CASE CloseWaits(th)
  BY Zenon, <1>19, <1>0, <1>1a DEF TypeOK, JustOpened, CloseWaits, Return, Goto, shared, Listed,
     Holding
<1>20. CASE CloseOne(th)
  BY Zenon, <1>20 DEF CloseOne, Closes, Goto, TypeOK
<1> QED
  BY Zenon, <1>S, <1>1, <1>2, <1>3, <1>4, <1>5, <1>6, <1>7, <1>8, <1>9, <1>10, <1>11, <1>12,
     <1>13, <1>14, <1>15, <1>16, <1>17, <1>18, <1>19, <1>20 DEF Step

\* An engine in use is open: a call enters only where one is open, and one is closed only
\* where nobody is inside.
LEMMA InUseStep ==
  ASSUME TypeOK, JustOpened, EngineOpenWhileUsed, NEW th \in Threads, Start(th) \/ Step(th)
  PROVE  EngineOpenWhileUsed'
<1>0. /\ pc[th] \in Listed => First(th) \in Tenants
      /\ todo[th] # <<>> => First(th) \in Tenants
      /\ Unlocked.readers = {}
  BY DEF TypeOK, First, Unlocked
<1>1a. \A t \in Tenants : use[t] \in Locks /\ engine[t] \in {"nil", "open"}
  BY Zenon DEF TypeOK
<1>2a. ASSUME engine' = engine, \A t \in Tenants : use'[t].readers \subseteq use[t].readers
       PROVE  EngineOpenWhileUsed'
  BY Zenon, <1>2a DEF EngineOpenWhileUsed
<1>3a. ASSUME NEW t \in Tenants, engine[t] = "open", engine' = engine,
              use' = [use EXCEPT ![t] = RLocked(use[t], th)]
       PROVE  EngineOpenWhileUsed'
  BY Zenon, <1>3a DEF EngineOpenWhileUsed, TypeOK
<1>4a. ASSUME NEW t \in Tenants, engine' \in {engine, [engine EXCEPT ![t] = "nil"]},
              use' = [use EXCEPT ![t] = Unlocked]
       PROVE  EngineOpenWhileUsed'
  BY Zenon, <1>0, <1>4a DEF EngineOpenWhileUsed, TypeOK
<1>S. CASE Start(th)
  BY Zenon, <1>S, Starts DEF EngineOpenWhileUsed
<1>1. CASE CheckClosed(th)
  BY Zenon, <1>1, <1>0, <1>1a, <1>2a, Returns DEF EngineOpenWhileUsed, CheckClosed, shared, Listed, locks
<1>2. CASE Lookup(th)
  BY Zenon, <1>2, <1>0, <1>1a, <1>2a, Returns DEF EngineOpenWhileUsed, Lookup, shared, Listed, locks
<1>3. CASE Enter(th)
  <2>1. First(th) \in Tenants /\ engine' = engine
    BY Zenon, <1>3, <1>0 DEF Enter, Listed, shared
  <2>2. CASE Return(th, "closed")
    BY Zenon, <2>1, <2>2, <1>2a, Returns
  <2>3. CASE engine[First(th)] = "open" /\ use' = [use EXCEPT ![First(th)] = RLocked(use[First(th)], th)]
    BY Zenon, <2>1, <2>3, <1>3a
  <2>4. CASE use' = use
    BY Zenon, <2>1, <2>4, <1>2a
  <2> QED
    BY Zenon, <1>3, <2>2, <2>3, <2>4 DEF Enter
<1>4. CASE Want(th)
  BY Zenon, <1>4, <1>0, <1>1a, <1>2a, Returns DEF EngineOpenWhileUsed, Want, shared, Listed, locks
<1>5. CASE OpenEngine(th)
  <2>1. First(th) \in Tenants
    BY Zenon, <1>5, <1>0 DEF OpenEngine, Listed
  <2>2. CASE engine' = engine
    BY Zenon, <1>5, <2>2, <1>2a, Returns DEF OpenEngine
  <2>3. CASE use' = use /\ engine' = [engine EXCEPT ![First(th)] = "open"]
    BY Zenon, <2>1, <2>3 DEF EngineOpenWhileUsed, TypeOK
  <2> QED
    BY Zenon, <1>5, <2>2, <2>3 DEF OpenEngine
<1>6. CASE Reenter(th)
  <2>1. First(th) \in Tenants /\ engine[First(th)] = "open"
    BY Zenon, <1>6, <1>0 DEF Reenter, Listed, JustOpened
  <2> QED
    BY Zenon, <1>6, <2>1, <1>3a DEF Reenter, shared
<1>7. CASE Use(th)
  BY Zenon, <1>7, <1>0, <1>1a, <1>2a, Returns DEF EngineOpenWhileUsed, Use, shared, Listed, locks
<1>8. CASE Create(th)
  BY Zenon, <1>8, <1>0, <1>1a, <1>2a, Returns DEF EngineOpenWhileUsed, Create, shared, Listed, locks
<1>9. CASE DeleteLookup(th)
  BY Zenon, <1>9, <1>0, <1>1a, <1>2a, Returns
     DEF EngineOpenWhileUsed, DeleteLookup, shared, Listed, locks
<1>10. CASE DeleteWaits(th)
  <2>1. First(th) \in Tenants /\ Announced(use[First(th)], th).readers = use[First(th)].readers
    BY Zenon, <1>10, <1>0, <1>1a DEF DeleteWaits, Listed, Announced, Locks
  <2> QED
    BY Zenon, <1>10, <2>1, <1>2a DEF DeleteWaits, shared, TypeOK
<1>11. CASE DeleteDiscards(th)
  <2>1. First(th) \in Tenants
    BY Zenon, <1>11, <1>0 DEF DeleteDiscards, Listed
  <2> QED
    BY Zenon, <1>11, <2>1, <1>4a DEF DeleteDiscards
<1>12. CASE Sweep(th)
  BY Zenon, <1>12, <1>0, <1>1a, <1>2a, Returns DEF EngineOpenWhileUsed, Sweep, shared, Listed, locks
<1>13. CASE CloseIdle(th)
  <2>1. CASE todo[th] = <<>>
    BY Zenon, <1>13, <2>1, <1>2a, Returns DEF CloseIdle
  <2>2. CASE todo[th] # <<>> /\ engine' = engine
    BY Zenon, <1>13, <2>2, <1>2a DEF CloseIdle
  <2>3. CASE todo[th] # <<>> /\ engine' = [engine EXCEPT ![First(th)] = "nil"] /\ Free(use[First(th)])
    BY Zenon, <1>13, <2>3, <1>0 DEF CloseIdle, Free, EngineOpenWhileUsed, TypeOK
  <2> QED
    BY Zenon, <1>13, <2>1, <2>2, <2>3 DEF CloseIdle
<1>14. CASE SnapshotBegins(th)
  BY Zenon, <1>14, <1>0, <1>1a, <1>2a, Returns
     DEF EngineOpenWhileUsed, SnapshotBegins, shared, Listed, locks
<1>15. CASE Collect(th)
  <2>1. CASE use' = use
    BY Zenon, <1>15, <2>1, <1>2a DEF Collect, shared
  <2>2. CASE todo[th] # <<>> /\ engine[First(th)] # "nil" /\ use' = [use EXCEPT ![First(th)] = RLocked(use[First(th)], th)]
    BY Zenon, <1>15, <2>2, <1>0, <1>1a, <1>3a DEF Collect, shared
  <2> QED
    BY Zenon, <1>15, <2>1, <2>2 DEF Collect
<1>16. CASE Save(th)
  <2>1. CASE Return(th, "ok")
    BY Zenon, <1>16, <2>1, <1>2a, Returns DEF Save, shared
  <2>2. ASSUME NEW t \in Tenants, use' = [use EXCEPT ![t] = RUnlocked(use[t], th)]
        PROVE  EngineOpenWhileUsed'
    <3>1. RUnlocked(use[t], th).readers \subseteq use[t].readers
      BY Zenon, <1>1a DEF RUnlocked, Locks
    <3>2. \A u \in Tenants : use'[u].readers \subseteq use[u].readers
      BY Zenon, <2>2, <3>1 DEF TypeOK
    <3> QED
      BY Zenon, <1>16, <3>2, <1>2a DEF Save, shared
  <2> QED
    BY Zenon, <1>16, <2>1, <2>2 DEF Save
<1>17. CASE CloseBegins(th)
  BY Zenon, <1>17, <1>0, <1>1a, <1>2a, Returns
     DEF EngineOpenWhileUsed, CloseBegins, shared, Listed, locks
<1>18. CASE CloseLists(th)
  BY Zenon, <1>18, <1>0, <1>1a, <1>2a, Returns
     DEF EngineOpenWhileUsed, CloseLists, shared, Listed, locks
<1>19. CASE CloseWaits(th)
  <2>1. CASE todo[th] = <<>>
    BY Zenon, <1>19, <2>1, <1>2a, Returns DEF CloseWaits, shared
  <2>2. CASE todo[th] # <<>>
    <3>1. First(th) \in Tenants /\ Announced(use[First(th)], th).readers = use[First(th)].readers
      BY Zenon, <2>2, <1>0, <1>1a DEF Announced, Locks
    <3> QED
      BY Zenon, <1>19, <2>2, <3>1, <1>2a DEF CloseWaits, shared, TypeOK
  <2> QED
    BY Zenon, <2>1, <2>2
<1>20. CASE CloseOne(th)
  <2>1. First(th) \in Tenants
    BY Zenon, <1>20, <1>0 DEF CloseOne, Listed
  <2> QED
    BY Zenon, <1>20, <2>1, <1>4a DEF CloseOne
<1> QED
  BY Zenon, <1>S, <1>1, <1>2, <1>3, <1>4, <1>5, <1>6, <1>7, <1>8, <1>9, <1>10, <1>11, <1>12,
     <1>13, <1>14, <1>15, <1>16, <1>17, <1>18, <1>19, <1>20 DEF Step

\* A call to Close goes from one place to the next, and nobody else is at those.
LEMMA CloserStep ==
  ASSUME TypeOK, Closes, NEW th \in Threads, Start(th) \/ Step(th)
  PROVE  /\ \A d \in Threads : pc'[d] \in Closing \cup {"close"} => op'[d] = "close"
         /\ \A d \in Threads : op'[d] = "close" => pc'[d] \in Closing \cup {"close", "done"}
         /\ \A d \in Threads : op'[d] = "close" /\ pc'[d] # "close" => closed'
<1>0. \A d \in Threads \ {th} : pc'[d] = pc[d] /\ op'[d] = op[d]
  BY Zenon, Alone
<1>1a. closed => closed'
  <2>1. CASE Start(th)
    BY Zenon, <2>1, Starts
  <2>2. CASE Step(th)
    BY Zenon, <2>2 DEF Step, CheckClosed, Lookup, Enter, Want, OpenEngine, Reenter, Use, Create,
       DeleteLookup, DeleteWaits, DeleteDiscards, Sweep, CloseIdle, SnapshotBegins, Collect, Save,
       CloseBegins, CloseLists, CloseWaits, CloseOne, shared
  <2> QED
    BY Zenon, <2>1, <2>2
<1> SUFFICES /\ pc'[th] \in Closing \cup {"close"} => op'[th] = "close"
             /\ op'[th] = "close" => pc'[th] \in Closing \cup {"close", "done"}
             /\ op'[th] = "close" /\ pc'[th] # "close" => closed'
  BY Zenon, <1>0, <1>1a DEF Closes
<1>S. CASE Start(th)
  BY Zenon, <1>S, Starts DEF Closing
<1>1. CASE CheckClosed(th)
  BY ZenonT(60), <1>1, <1>1a DEF TypeOK, Closes, Closing, CheckClosed, Return, Goto, shared
<1>2. CASE Lookup(th)
  BY ZenonT(60), <1>2, <1>1a DEF TypeOK, Closes, Closing, Lookup, Return, Goto, shared
<1>3. CASE Enter(th)
  BY ZenonT(60), <1>3, <1>1a DEF TypeOK, Closes, Closing, Enter, Return, Acquired, Goto, shared
<1>4. CASE Want(th)
  BY <1>4, <1>1a DEF TypeOK, Closes, Closing, Want, Return, Wanting, Goto, shared
<1>5. CASE OpenEngine(th)
  BY ZenonT(60), <1>5, <1>1a DEF TypeOK, Closes, Closing, OpenEngine, Return, Goto, shared
<1>6. CASE Reenter(th)
  BY Zenon, <1>6, <1>1a DEF TypeOK, Closes, Closing, Reenter, Acquired, Goto, shared
<1>7. CASE Use(th)
  BY Zenon, <1>7, <1>1a DEF TypeOK, Closes, Closing, Use, Return, Goto, shared
<1>8. CASE Create(th)
  BY ZenonT(60), <1>8, <1>1a DEF TypeOK, Closes, Closing, Create, Return, Goto, shared
<1>9. CASE DeleteLookup(th)
  BY ZenonT(60), <1>9, <1>1a DEF TypeOK, Closes, Closing, DeleteLookup, Return, Goto, shared
<1>10. CASE DeleteWaits(th)
  BY Zenon, <1>10, <1>1a DEF TypeOK, Closes, Closing, DeleteWaits, Goto, shared
<1>11. CASE DeleteDiscards(th)
  BY Zenon, <1>11, <1>1a DEF TypeOK, Closes, Closing, DeleteDiscards, Goto, shared
<1>12. CASE Sweep(th)
  BY Zenon, <1>12, <1>1a DEF TypeOK, Closes, Closing, Sweep, Goto, shared
<1>13. CASE CloseIdle(th)
  BY ZenonT(60), <1>13, <1>1a DEF TypeOK, Closes, Closing, CloseIdle, Return, Goto, shared
<1>14. CASE SnapshotBegins(th)
  BY Zenon, <1>14, <1>1a DEF TypeOK, Closes, Closing, SnapshotBegins, Goto, shared
<1>15. CASE Collect(th)
  BY ZenonT(60), <1>15, <1>1a DEF TypeOK, Closes, Closing, Collect, Goto, shared
<1>16. CASE Save(th)
  BY ZenonT(60), <1>16, <1>1a DEF TypeOK, Closes, Closing, Save, Return, Goto, shared
<1>17. CASE CloseBegins(th)
  BY ZenonT(60), <1>17, <1>1a DEF TypeOK, Closes, Closing, CloseBegins, Return, Goto, shared
<1>18. CASE CloseLists(th)
  BY Zenon, <1>18, <1>1a DEF TypeOK, Closes, Closing, CloseLists, Goto, shared
<1>19. CASE CloseWaits(th)
  BY Zenon, <1>19, <1>1a DEF TypeOK, Closes, Closing, CloseWaits, Return, Goto, shared
<1>20. CASE CloseOne(th)
  BY Zenon, <1>20, <1>1a DEF TypeOK, Closes, Closing, CloseOne, Goto, shared
<1> QED
  BY Zenon, <1>S, <1>1, <1>2, <1>3, <1>4, <1>5, <1>6, <1>7, <1>8, <1>9, <1>10, <1>11, <1>12,
     <1>13, <1>14, <1>15, <1>16, <1>17, <1>18, <1>19, <1>20 DEF Step

\* What a step can do once the store is closed, and how it gets closed: no engine is
\* opened, and only Close goes through the places of Close.
LEMMA ClosedStep ==
  ASSUME TypeOK, NEW th \in Threads, Start(th) \/ Step(th)
  PROVE  /\ closed => pc'[th] # "reenter" /\ \A t \in Tenants : engine'[t] = "open" => engine[t] = "open"
         /\ \/ CloseLists(th) \/ CloseWaits(th) \/ CloseOne(th)
            \/ pc[th] \notin Closing /\ pc'[th] \notin {"closing", "closeOne"}
         /\ closed' => closed \/ pc'[th] = "list"
<1>0. pc[th] \in Listed => First(th) \in Tenants
  BY DEF TypeOK, First
<1>S. CASE Start(th)
  BY Zenon, <1>S, Starts DEF Closing
<1>1. CASE CheckClosed(th)
  BY Zenon, <1>1, <1>0 DEF TypeOK, Closing, Listed, CheckClosed, Return, Goto, shared
<1>2. CASE Lookup(th)
  BY Zenon, <1>2, <1>0 DEF TypeOK, Closing, Listed, Lookup, Return, Goto, shared
<1>3. CASE Enter(th)
  BY Zenon, <1>3, <1>0 DEF TypeOK, Closing, Listed, Enter, Return, Acquired, Goto, shared
<1>4. CASE Want(th)
  BY Zenon, <1>4, <1>0 DEF TypeOK, Closing, Listed, Want, Return, Wanting, Goto, shared
<1>5. CASE OpenEngine(th)
  BY Zenon, <1>5, <1>0 DEF TypeOK, Closing, Listed, OpenEngine, Return, Goto, shared
<1>6. CASE Reenter(th)
  BY Zenon, <1>6, <1>0 DEF TypeOK, Closing, Listed, Reenter, Acquired, Goto, shared
<1>7. CASE Use(th)
  BY Zenon, <1>7, <1>0 DEF TypeOK, Closing, Listed, Use, Return, Goto, shared
<1>8. CASE Create(th)
  BY Zenon, <1>8, <1>0 DEF TypeOK, Closing, Listed, Create, Return, Goto, shared
<1>9. CASE DeleteLookup(th)
  BY Zenon, <1>9, <1>0 DEF TypeOK, Closing, Listed, DeleteLookup, Return, Goto, shared
<1>10. CASE DeleteWaits(th)
  BY Zenon, <1>10, <1>0 DEF TypeOK, Closing, Listed, DeleteWaits, Goto, shared
<1>11. CASE DeleteDiscards(th)
  BY Zenon, <1>11, <1>0 DEF TypeOK, Closing, Listed, DeleteDiscards, Goto, shared
<1>12. CASE Sweep(th)
  BY Zenon, <1>12, <1>0 DEF TypeOK, Closing, Listed, Sweep, Goto, shared
<1>13. CASE CloseIdle(th)
  BY Zenon, <1>13, <1>0 DEF TypeOK, Closing, Listed, CloseIdle, Return, Goto, shared
<1>14. CASE SnapshotBegins(th)
  BY Zenon, <1>14, <1>0 DEF TypeOK, Closing, Listed, SnapshotBegins, Goto, shared
<1>15. CASE Collect(th)
  BY Zenon, <1>15, <1>0 DEF TypeOK, Closing, Listed, Collect, Goto, shared
<1>16. CASE Save(th)
  BY Zenon, <1>16, <1>0 DEF TypeOK, Closing, Listed, Save, Return, Goto, shared
<1>17. CASE CloseBegins(th)
  BY Zenon, <1>17, <1>0 DEF TypeOK, Closing, Listed, CloseBegins, Return, Goto, shared
<1>18. CASE CloseLists(th)
  BY Zenon, <1>18, <1>0 DEF TypeOK, Closing, Listed, CloseLists, Goto, shared
<1>19. CASE CloseWaits(th)
  BY Zenon, <1>19, <1>0 DEF TypeOK, Closing, Listed, CloseWaits, Return, Goto, shared
<1>20. CASE CloseOne(th)
  BY Zenon, <1>20, <1>0 DEF TypeOK, Closing, Listed, CloseOne, Goto, shared
<1> QED
  BY Zenon, <1>S, <1>1, <1>2, <1>3, <1>4, <1>5, <1>6, <1>7, <1>8, <1>9, <1>10, <1>11, <1>12,
     <1>13, <1>14, <1>15, <1>16, <1>17, <1>18, <1>19, <1>20 DEF Step

\* The engines that are open once the tenants are listed are those on the list.
LEMMA ListStep ==
  ASSUME TypeOK, Exclusive, Closes, Gone, NEW th \in Threads, Start(th) \/ Step(th)
  PROVE  \A d \in Threads : pc'[d] \in {"closing", "closeOne"} =>
           /\ \A e \in Threads : pc'[e] # "reenter"
           /\ \A t \in Tenants : engine'[t] = "open" => t \in Left(d)'
<1>0. \A d \in Threads \ {th} : pc'[d] = pc[d] /\ Left(d)' = Left(d)
  BY ZenonT(60), Alone DEF Left
<1>1. ASSUME NEW d \in Threads, pc[d] \in {"closing", "closeOne"}
      PROVE  /\ \A e \in Threads : pc'[e] # "reenter"
             /\ \A t \in Tenants : engine'[t] = "open" => engine[t] = "open" /\ t \in Left(d)
  <2>1. closed
    BY Zenon, <1>1 DEF Closes, Closing
  <2>2. /\ \A e \in Threads : pc[e] # "reenter"
        /\ \A t \in Tenants : engine[t] = "open" => t \in Left(d)
    BY Zenon, <1>1 DEF Closes
  <2> QED
    BY Zenon, <2>1, <2>2, <1>0, ClosedStep
<1>2. ASSUME NEW d \in Threads \ {th}, pc'[d] \in {"closing", "closeOne"}
      PROVE  /\ \A e \in Threads : pc'[e] # "reenter"
             /\ \A t \in Tenants : engine'[t] = "open" => t \in Left(d)'
  BY Zenon, <1>0, <1>1, <1>2
<1>3. ASSUME pc'[th] \in {"closing", "closeOne"}
      PROVE  /\ \A e \in Threads : pc'[e] # "reenter"
             /\ \A t \in Tenants : engine'[t] = "open" => t \in Left(th)'
  <2>1. CASE CloseLists(th)
    <3>1. \A e \in Threads : pc[e] # "reenter"
      BY Zenon, <2>1, NoneAssumption DEF CloseLists, Readable, Exclusive, Holding
    <3>2. PICK s \in Orders : todo' = [todo EXCEPT ![th] = s]
      BY Zenon, <2>1 DEF CloseLists
    <3>3. Left(th)' = {s[k] : k \in 1..Len(s)}
      BY Zenon, <3>2 DEF Left, TypeOK
    <3>4. Left(th)' = present
      BY Zenon, <3>3, OrdersType DEF TypeOK
    <3>5. engine' = engine /\ \A t \in Tenants : engine[t] = "open" => t \in present
      BY Zenon, <2>1 DEF CloseLists, shared, Gone
    <3>6. pc'[th] # "reenter"
      BY Zenon, <1>3
    <3> QED
      BY Zenon, <3>1, <3>4, <3>5, <3>6, <1>0
  <2>2. CASE CloseWaits(th)
    <3>1. pc[th] = "closing" /\ Left(th)' = Left(th)
      BY Zenon, <2>2 DEF CloseWaits, Left
    <3> QED
      BY Zenon, <3>1, <1>1
  <2>3. CASE CloseOne(th)
    <3>1. pc[th] = "closeOne" /\ todo[th] \in Seq(Tenants) /\ todo[th] # <<>>
      BY Zenon, <2>3 DEF CloseOne, TypeOK, Listed
    <3>2. todo'[th] = Tail(todo[th]) /\ engine' = [engine EXCEPT ![Head(todo[th])] = "nil"]
      BY Zenon, <2>3 DEF CloseOne, First, TypeOK
    <3>3. ASSUME NEW t \in Tenants, engine'[t] = "open"
          PROVE  t \in Left(th)'
      <4>1. t # Head(todo[th]) /\ t \in Left(th)
        BY Zenon, <3>1, <3>2, <3>3, <1>1 DEF TypeOK
      <4>2. PICK k \in 1..Len(todo[th]) : t = todo[th][k]
        BY Zenon, <4>1 DEF Left
      <4>3. \E i \in 1..Len(Tail(todo[th])) : t = Tail(todo[th])[i]
        BY Zenon, <3>1, <4>1, <4>2, Lists
      <4> QED
        BY Zenon, <3>2, <4>3 DEF Left
    <3> QED
      BY Zenon, <3>1, <3>3, <1>1
  <2> QED
    BY Zenon, <1>3, <2>1, <2>2, <2>3, ClosedStep
<1> QED
  BY Zenon, <1>2, <1>3

\* While the store is closed a call is still closing it, or every engine is closed.
LEMMA SeenThrough ==
  ASSUME TypeOK, Closes, NEW th \in Threads, Start(th) \/ Step(th), closed'
  PROVE  \/ \E d \in Threads : pc'[d] \in Closing
         \/ \A t \in Tenants : engine'[t] = "nil"
<1>0. TypeOK' /\ \A d \in Threads \ {th} : pc'[d] = pc[d]
  BY Zenon, Alone, TypeStep
<1>1. CASE ~closed
  BY Zenon, <1>1, ClosedStep DEF Closing
<1>2. CASE closed /\ \A t \in Tenants : engine[t] = "nil"
  BY Zenon, <1>0, <1>2, ClosedStep DEF TypeOK
<1>3. ASSUME NEW d \in Threads \ {th}, pc[d] \in Closing
      PROVE  pc'[d] \in Closing
  BY Zenon, <1>0, <1>3
<1>4. CASE pc[th] \in Closing
  <2>1. CASE CloseLists(th)
    BY Zenon, <2>1 DEF CloseLists, Goto, Closing, TypeOK
  <2>2. CASE CloseWaits(th)
    <3>1. CASE todo[th] = <<>>
      <4>1. Left(th) = {}
        BY <3>1 DEF Left
      <4>2. \A t \in Tenants : engine[t] # "open"
        BY Zenon, <2>2, <4>1 DEF CloseWaits, Closes
      <4> QED
        BY Zenon, <2>2, <4>2 DEF CloseWaits, shared, TypeOK
    <3>2. CASE todo[th] # <<>>
      BY Zenon, <2>2, <3>2 DEF CloseWaits, Goto, Closing, TypeOK
    <3> QED
      BY Zenon, <3>1, <3>2
  <2>3. CASE CloseOne(th)
    BY Zenon, <2>3 DEF CloseOne, Goto, Closing, TypeOK
  <2> QED
    BY Zenon, <1>4, <2>1, <2>2, <2>3, ClosedStep
<1> QED
  BY Zenon, <1>1, <1>2, <1>3, <1>4 DEF Closes

-----------------------------------------------------------------------------
\* The inductive invariant holds at the start and after every step of every call.
LEMMA Invariance ==
  Init /\ [][Next]_vars => []Inv
<1>1. ASSUME Init
      PROVE  Inv
  <2>1. Unlocked \in Locks /\ Unlocked.writer = None /\ Unlocked.readers = {}
    BY Zenon DEF Unlocked, Locks
  <2>2. TypeOK
    <3>1. present \subseteq Tenants
      BY Zenon, <1>1, DefaultAssumption DEF Init
    <3>2. todo \in [Threads -> Seq(Tenants)] /\ pc \in [Threads -> Pcs]
      BY <1>1, Labels DEF Init
    <3>3. \A th \in Threads : pc[th] \notin Listed
      BY Zenon, <1>1 DEF Init, Listed
    <3> QED
      BY Zenon, <1>1, <2>1, <3>1, <3>2, <3>3 DEF Init, TypeOK
  <2> QED
    BY Zenon, <1>1, <2>1, <2>2 DEF Init, Inv, Exclusive, Holding, Closes, Closing, JustOpened,
       EngineOpenWhileUsed, Gone
<1>2. ASSUME Inv, NEW th \in Threads, Start(th) \/ Step(th)
      PROVE  Inv'
  <2>1. TypeOK' /\ Exclusive' /\ JustOpened' /\ EngineOpenWhileUsed' /\ Gone'
    BY Zenon, <1>2, TypeStep, ExclusiveStep, JustOpenedStep, InUseStep, GoneStep DEF Inv
  <2>2. Closes'
    BY Zenon, <1>2, CloserStep, ListStep, SeenThrough DEF Inv, Closes
  <2> QED
    BY Zenon, <2>1, <2>2 DEF Inv
<1>3. ASSUME Inv, UNCHANGED vars
      PROVE  Inv'
  <2>1. TypeOK'
    BY Zenon, <1>3 DEF Inv, vars, shared, locks, TypeOK
  <2>2. Exclusive' /\ EngineOpenWhileUsed' /\ Gone'
    BY Zenon, <1>3 DEF Inv, vars, shared, locks, Exclusive, EngineOpenWhileUsed, Gone
  <2>3. \A th \in Threads : First(th)' = First(th) /\ Left(th)' = Left(th)
    BY Zenon, <1>3 DEF vars, First, Left
  <2>4. JustOpened'
    BY Zenon, <1>3, <2>3 DEF Inv, vars, shared, JustOpened
  <2>5. Closes'
    BY Zenon, <1>3, <2>3 DEF Inv, vars, shared, Closes
  <2> QED
    BY Zenon, <2>1, <2>2, <2>4, <2>5 DEF Inv
<1>4. Inv /\ [Next]_vars => Inv'
  BY Zenon, <1>2, <1>3 DEF Next
<1> QED
  BY <1>1, <1>4, PTL

\* A call at work finds every engine it acquired open, whatever CloseIdle, DeleteTenant and
\* Close do meanwhile, for any number of calls and tenants.
THEOREM OpenWhileUsed == Spec => []EngineOpenWhileUsed
<1>1. Inv => EngineOpenWhileUsed
  BY Zenon DEF Inv
<1> QED
  BY <1>1, Invariance, PTL DEF Spec

\* A tenant that is not in the map has no engine, and once every Close has returned none has:
\* no call that was on its way in opens one again.
THEOREM StaysGone == Spec => []GoneForGood
<1>1. ASSUME Inv
      PROVE  GoneForGood
  <2>1. ASSUME Closed
        PROVE  \A t \in Tenants : engine[t] = "nil"
    <3>1. closed
      BY Zenon, <1>1, <2>1 DEF Inv, Closed, Closers, Closes
    <3>2. \A th \in Threads : pc[th] \notin Closing
      BY Zenon, <1>1, <2>1 DEF Inv, Closed, Closers, Closes, Closing
    <3> QED
      BY Zenon, <1>1, <3>1, <3>2 DEF Inv, Closes
  <2> QED
    BY Zenon, <1>1, <2>1 DEF Inv, Gone, GoneForGood
<1> QED
  BY <1>1, Invariance, PTL DEF Spec

=============================================================================
