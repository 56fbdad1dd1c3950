------------------------- MODULE GroupCommitProofs -------------------------
(***************************************************************************)
(* Group commit for any set of calls: one leader, one value per channel,   *)
(* and every step is one that OrderedWrites allows.                        *)
(***************************************************************************)
EXTENDS GroupCommit, TLAPS

\* c has the lead and has not taken the queue, or has it in its channel.
HasLead(c) == pc[c] = "lead" \/ done[c] = <<"lead">>

Leads(c) == HasLead(c) \/ pc[c] \in {"commit", "notify"}

\* c queued and nobody has answered it.
Unanswered(c) == pc[c] = "wait" /\ done[c] = <<>>

In(s, c) == \E i \in 1..Len(s) : s[i] = c
Distinct(s) == \A i, j \in 1..Len(s) : s[i] = s[j] => i = j

\* Exactly one leader while flushing is set.
LeadInv ==
  /\ \A a, b \in Calls : Leads(a) /\ Leads(b) => a = b
  /\ flushing => \E c \in Calls : Leads(c)
  /\ ~flushing => queue = <<>> /\ \A c \in Calls : ~Leads(c)

\* What has been sent to a call, by where it is.
SendInv ==
  \A c \in Calls :
    /\ done[c] # <<>> => pc[c] = "wait"
    /\ sends[c] <= 1
    /\ pc[c] = "idle" => sends[c] = 0
    /\ pc[c] = "wait" => (sends[c] = 0 <=> done[c] = <<>>)

\* The queue has the calls that nobody has taken, each once; only the first may
\* have the lead.
QueueInv ==
  /\ Distinct(queue)
  /\ \A q \in Calls : In(queue, q) => Unanswered(q) \/ HasLead(q)
  /\ \A c \in Calls : HasLead(c) => queue # <<>> /\ Head(queue) = c

\* A group has its leader and calls that wait for it, none of them queued.
GroupInv ==
  \A c \in Calls :
    /\ pc[c] \notin {"commit", "notify"} => group[c] = <<>>
    /\ pc[c] = "commit" => In(group[c], c)
    /\ pc[c] = "notify" => err[c] \in Results
    /\ Distinct(group[c])
    /\ \A q \in Calls : In(group[c], q) => ~In(queue, q) /\ (q = c \/ Unanswered(q))

\* A call without an answer is queued or in somebody's group.
WaitInv ==
  \A c \in Calls : Unanswered(c) => In(queue, c) \/ \E l \in Calls : In(group[l], c)

Inv == TypeOK /\ LeadInv /\ SendInv /\ QueueInv /\ GroupInv /\ WaitInv

\* A step leaves d where it was, as far as Inv can tell.
Same(d) ==
  (Unanswered(d)' <=> Unanswered(d)) /\ (HasLead(d)' <=> HasLead(d)) /\ (Leads(d)' <=> Leads(d))

-----------------------------------------------------------------------------
(* Sequences. *)

\* What a one-value channel holds.
LEMMA OneTuple == \A m, n : <<m>> # <<>> /\ Head(<<m>>) = m /\ (<<m>> = <<n>> => m = n)
  OBVIOUS

\* An empty sequence holds nobody.
LEMMA NobodyIn ==
  \A s \in Seq(Calls) : s = <<>> => Distinct(s) /\ \A q : ~In(s, q)
<1>1. ASSUME NEW s \in Seq(Calls), s = <<>> PROVE 1..Len(s) = {}
  BY <1>1
<1> QED
  BY Zenon, <1>1 DEF Distinct, In

\* Appending a call that is not there keeps a sequence distinct.
LEMMA AppendSeq ==
  ASSUME NEW s \in Seq(Calls), NEW c \in Calls
  PROVE  /\ Append(s, c) \in Seq(Calls) /\ Append(s, c) # <<>>
         /\ \A q : In(Append(s, c), q) <=> In(s, q) \/ q = c
         /\ Distinct(s) /\ ~In(s, c) => Distinct(Append(s, c))
         /\ Head(Append(s, c)) = IF s = <<>> THEN c ELSE Head(s)
<1>1. /\ Append(s, c) \in Seq(Calls) /\ Len(Append(s, c)) = Len(s) + 1
      /\ \A i \in 1..Len(s) : Append(s, c)[i] = s[i]
      /\ Append(s, c)[Len(s) + 1] = c
      /\ Len(s) \in Nat
  OBVIOUS
<1>2. ASSUME NEW q PROVE In(Append(s, c), q) <=> In(s, q) \/ q = c
  BY <1>1 DEF In
<1>3. Distinct(s) /\ ~In(s, c) => Distinct(Append(s, c))
  BY <1>1 DEF Distinct, In
<1>4. Append(s, c) # <<>>
  BY <1>1
<1>5. Head(Append(s, c)) = IF s = <<>> THEN c ELSE Head(s)
  <2>1. CASE s = <<>>
    BY <2>1
  <2>2. CASE s # <<>>
    <3>1. 1 \in 1..Len(s) /\ Head(s) = s[1]
      BY <2>2
    <3>2. Append(s, c)[1] = s[1]
      BY Zenon, <1>1, <3>1
    <3>3. Head(Append(s, c)) = Append(s, c)[1]
      BY <1>1, <1>4
    <3> QED
      BY Zenon, <2>2, <3>1, <3>2, <3>3
  <2> QED
    BY Zenon, <2>1, <2>2
<1> QED
  BY Zenon, <1>1, <1>2, <1>3, <1>4, <1>5

\* The tail of a distinct sequence holds all calls but the first.
LEMMA TailSeq ==
  ASSUME NEW s \in Seq(Calls), s # <<>>, Distinct(s)
  PROVE  /\ Tail(s) \in Seq(Calls) /\ Head(s) \in Calls /\ In(s, Head(s))
         /\ \A q : In(Tail(s), q) <=> In(s, q) /\ q # Head(s)
         /\ Distinct(Tail(s))
<1>1. /\ Tail(s) \in Seq(Calls) /\ Len(s) \in Nat /\ Len(s) > 0 /\ Len(Tail(s)) = Len(s) - 1
      /\ \A i \in 1..Len(s) - 1 : Tail(s)[i] = s[i + 1]
      /\ Head(s) = s[1] /\ s[1] \in Calls
  OBVIOUS
<1>2. ASSUME NEW q PROVE In(Tail(s), q) <=> In(s, q) /\ q # Head(s)
  <2>1. ASSUME In(Tail(s), q) PROVE In(s, q) /\ q # Head(s)
    BY <1>1, <2>1 DEF In, Distinct
  <2>2. ASSUME In(s, q), q # Head(s) PROVE In(Tail(s), q)
    <3>1. PICK i \in 1..Len(s) : s[i] = q
      BY Zenon, <2>2 DEF In
    <3>2. i - 1 \in 1..Len(s) - 1 /\ Tail(s)[i - 1] = q
      BY <1>1, <2>2, <3>1
    <3> QED
      BY Zenon, <1>1, <3>2 DEF In
  <2> QED
    BY Zenon, <2>1, <2>2
<1>3. Distinct(Tail(s))
  BY <1>1 DEF Distinct
<1>4. In(s, Head(s))
  BY <1>1 DEF In
<1> QED
  BY Zenon, <1>1, <1>2, <1>3, <1>4

-----------------------------------------------------------------------------
(* Every step preserves Inv. *)

\* The engine starts with Inv.
LEMMA InvInit == Init => Inv
<1> SUFFICES ASSUME Init PROVE Inv
  BY Zenon
<1>1. TypeOK
  <2>1. queue \in Seq(Calls) /\ log \in Seq(Calls) /\ group \in [Calls -> Seq(Calls)]
    BY DEF Init
  <2>2. flushing \in BOOLEAN /\ done \in [Calls -> {<<>>} \cup {<<m>> : m \in Messages}]
    BY Zenon DEF Init
  <2>3. /\ pc \in [Calls -> {"idle", "wait", "lead", "commit", "notify", "returned"}]
        /\ err \in [Calls -> {"none"} \cup Results] /\ sends \in [Calls -> Nat]
    BY Zenon DEF Init
  <2> QED
    BY Zenon, <2>1, <2>2, <2>3 DEF TypeOK
<1>2. \A c \in Calls : ~Leads(c) /\ ~HasLead(c) /\ ~Unanswered(c)
  BY Zenon, OneTuple DEF Init, Leads, HasLead, Unanswered
<1>3. LeadInv /\ WaitInv
  BY Zenon, <1>2 DEF Init, LeadInv, WaitInv
<1>4. SendInv
  <2>1. \A c \in Calls : pc[c] = "idle" /\ done[c] = <<>> /\ sends[c] = 0
    BY Zenon DEF Init
  <2>2. 0 <= 1
    BY SMT
  <2> QED
    BY Zenon, <2>1, <2>2 DEF SendInv
<1>5. QueueInv /\ GroupInv
  <2>1. /\ Distinct(queue) /\ \A q : ~In(queue, q)
        /\ \A c \in Calls : Distinct(group[c]) /\ \A q : ~In(group[c], q)
    BY Zenon, <1>1, NobodyIn DEF Init, TypeOK
  <2> QED
    BY Zenon, <1>2, <2>1 DEF Init, QueueInv, GroupInv
<1> QED
  BY Zenon, <1>1, <1>3, <1>4, <1>5 DEF Inv

\* A call that queues is new to the queue and to every group, and leads if nobody does.
LEMMA InvEnqueue ==
  ASSUME Inv, NEW c \in Calls, Enqueue(c)
  PROVE  Inv'
<1> USE DEF Inv
<1>1. /\ queue' = Append(queue, c) /\ flushing' = TRUE
      /\ pc' = [pc EXCEPT ![c] = IF flushing THEN "wait" ELSE "lead"]
      /\ done' = done /\ group' = group /\ err' = err /\ log' = log /\ sends' = sends
      /\ pc[c] = "idle"
  BY Zenon DEF Enqueue
<1>2. /\ pc'[c] = IF flushing THEN "wait" ELSE "lead"
      /\ \A d \in Calls : d # c => pc'[d] = pc[d]
  BY Zenon, <1>1 DEF TypeOK
<1>3. done[c] = <<>> /\ done[c] # <<"lead">>
  BY SMTT(60), <1>1, OneTuple DEF SendInv
<1>4. ~Unanswered(c) /\ ~HasLead(c) /\ ~Leads(c)
  BY Zenon, <1>1, <1>3 DEF Unanswered, HasLead, Leads
<1>5. ~In(queue, c) /\ \A l \in Calls : ~In(group[l], c)
  <2>1. \A q : ~In(group[c], q)
    BY Zenon, <1>1, NobodyIn DEF GroupInv, TypeOK
  <2> QED
    BY Zenon, <1>4, <2>1 DEF QueueInv, GroupInv
<1>6. /\ \A d \in Calls : d # c => Same(d)
      /\ (Unanswered(c)' <=> flushing) /\ (HasLead(c)' <=> ~flushing) /\ (Leads(c)' <=> ~flushing)
  BY Zenon, <1>1, <1>2, <1>3 DEF Same, Unanswered, HasLead, Leads, TypeOK
<1>7. /\ queue' \in Seq(Calls) /\ queue' # <<>> /\ Distinct(queue')
      /\ \A q \in Calls : In(queue', q) <=> In(queue, q) \/ q = c
      /\ Head(queue') = IF queue = <<>> THEN c ELSE Head(queue)
  <2>1. queue \in Seq(Calls) /\ Distinct(queue)
    BY Zenon DEF TypeOK, QueueInv
  <2> DEFINE s == Append(queue, c)
  <2>2. /\ s \in Seq(Calls) /\ s # <<>> /\ Distinct(s)
        /\ \A q : In(s, q) <=> In(queue, q) \/ q = c
        /\ Head(s) = IF queue = <<>> THEN c ELSE Head(queue)
    BY Zenon, <1>5, <2>1, AppendSeq
  <2>3. queue' = s
    BY Zenon, <1>1
  <2> QED
    BY Zenon, <2>2, <2>3
<1>8. TypeOK'
  BY Zenon, <1>1, <1>7 DEF TypeOK
<1>9. LeadInv'
  BY Zenon, <1>1, <1>4, <1>6 DEF LeadInv, Same
<1>10. SendInv'
  BY Zenon, <1>1, <1>2, <1>3 DEF SendInv
<1>11. QueueInv'
  BY Zenon, <1>6, <1>7 DEF QueueInv, LeadInv, Leads, Same
<1>12. GroupInv'
  <2> SUFFICES ASSUME NEW l \in Calls
               PROVE  /\ pc'[l] \notin {"commit", "notify"} => group'[l] = <<>>
                      /\ pc'[l] = "commit" => In(group'[l], l)
                      /\ pc'[l] = "notify" => err'[l] \in Results
                      /\ Distinct(group'[l])
                      /\ \A q \in Calls : In(group'[l], q) =>
                           ~In(queue', q) /\ (q = l \/ Unanswered(q)')
    BY Zenon DEF GroupInv
  <2> QED
    BY <1>1, <1>2, <1>5, <1>6, <1>7 DEF GroupInv, Same
<1>13. WaitInv'
  BY Zenon, <1>1, <1>6, <1>7 DEF WaitInv, Same
<1> QED
  BY Zenon, <1>8, <1>9, <1>10, <1>11, <1>12, <1>13

\* Receiving moves the lead or the answer from the channel to the call.
LEMMA InvReceive ==
  ASSUME Inv, NEW c \in Calls, Receive(c)
  PROVE  Inv'
<1> USE DEF Inv
<1>1. /\ queue' = queue /\ flushing' = flushing /\ group' = group /\ log' = log /\ sends' = sends
      /\ pc[c] = "wait" /\ done[c] # <<>> /\ done' = [done EXCEPT ![c] = <<>>]
  BY Zenon DEF Receive
<1>2. PICK m \in Messages : done[c] = <<m>>
  BY Zenon, <1>1 DEF TypeOK
<1>3. /\ \/ m = "lead" /\ pc' = [pc EXCEPT ![c] = "lead"] /\ err' = err
         \/ /\ m \in Results /\ pc' = [pc EXCEPT ![c] = "returned"]
            /\ err' = [err EXCEPT ![c] = m]
      /\ done[c] = <<"lead">> <=> m = "lead"
  BY Zenon, <1>2, OneTuple DEF Receive
<1>4. /\ \/ m = "lead" /\ pc'[c] = "lead"
         \/ m # "lead" /\ pc'[c] = "returned"
      /\ \A d \in Calls : d # c => pc'[d] = pc[d]
      /\ done'[c] = <<>>
      /\ \A d \in Calls : d # c => done'[d] = done[d]
  BY Zenon, <1>1, <1>3 DEF TypeOK, Results
<1>5. \A d \in Calls : Same(d)
  BY Zenon, <1>1, <1>3, <1>4, OneTuple DEF Same, Unanswered, HasLead, Leads
<1>6. TypeOK'
  <2>1. pc' \in [Calls -> {"idle", "wait", "lead", "commit", "notify", "returned"}]
    BY Zenon, <1>3 DEF TypeOK
  <2>2. err' \in [Calls -> {"none"} \cup Results]
    BY Zenon, <1>3 DEF TypeOK
  <2>3. done' \in [Calls -> {<<>>} \cup {<<n>> : n \in Messages}]
    BY <1>1, Zenon DEF TypeOK
  <2> QED
    BY Zenon, <1>1, <2>1, <2>2, <2>3 DEF TypeOK
<1>7. LeadInv'
  BY Zenon, <1>1, <1>5 DEF LeadInv, Same
<1>8. SendInv'
  BY Zenon, <1>1, <1>4 DEF SendInv
<1>9. QueueInv'
  BY Zenon, <1>1, <1>5 DEF QueueInv, Same
<1>10. GroupInv'
  <2>1. \A l \in Calls : err'[l] = err[l] \/ pc'[l] # "notify"
    BY Zenon, <1>3, <1>4 DEF TypeOK
  <2> QED
    BY Zenon, <1>1, <1>4, <1>5, <2>1 DEF GroupInv, Same
<1>11. WaitInv'
  BY Zenon, <1>1, <1>5 DEF WaitInv, Same
<1> QED
  BY Zenon, <1>6, <1>7, <1>8, <1>9, <1>10, <1>11

\* The leader's group is the queue, which becomes empty.
LEMMA InvTakeQueue ==
  ASSUME Inv, NEW c \in Calls, TakeQueue(c)
  PROVE  Inv'
<1> USE DEF Inv
<1>1. /\ pc[c] = "lead" /\ pc' = [pc EXCEPT ![c] = "commit"]
      /\ group' = [group EXCEPT ![c] = queue] /\ queue' = <<>>
      /\ flushing' = flushing /\ done' = done /\ err' = err /\ log' = log /\ sends' = sends
  BY Zenon DEF TakeQueue
<1>2. /\ pc'[c] = "commit" /\ group'[c] = queue
      /\ \A d \in Calls : d # c => pc'[d] = pc[d] /\ group'[d] = group[d]
  BY Zenon, <1>1 DEF TypeOK
<1>3. HasLead(c) /\ Leads(c) /\ done[c] = <<>>
  BY Zenon, <1>1 DEF HasLead, Leads, SendInv
<1>4. /\ \A d \in Calls : d # c => Same(d) /\ ~Leads(d) /\ ~HasLead(d) /\ group[d] = <<>>
      /\ ~HasLead(c)' /\ Leads(c)' /\ ~Unanswered(c) /\ ~Unanswered(c)'
  BY <1>1, <1>2, <1>3, OneTuple DEF Same, Unanswered, HasLead, Leads, LeadInv, GroupInv
<1>5. In(queue, c) /\ Distinct(queue)
  <2>1. queue \in Seq(Calls) /\ queue # <<>> /\ Distinct(queue) /\ Head(queue) = c
    BY Zenon, <1>3 DEF QueueInv, TypeOK
  <2> QED
    BY Zenon, <2>1, TailSeq
<1>6. Distinct(queue') /\ \A q : ~In(queue', q)
  <2>1. queue' \in Seq(Calls)
    BY <1>1
  <2> QED
    BY Zenon, <1>1, <2>1, NobodyIn
<1>7. \A d \in Calls : d # c => \A q : ~In(group[d], q)
  BY Zenon, <1>4, NobodyIn DEF TypeOK
<1>8. TypeOK'
  BY <1>1 DEF TypeOK
<1>9. LeadInv'
  BY Zenon, <1>1, <1>3, <1>4 DEF LeadInv, Same
<1>10. SendInv'
  BY Zenon, <1>1, <1>2, <1>3 DEF SendInv
<1>11. QueueInv'
  BY Zenon, <1>4, <1>6 DEF QueueInv, Same
<1>12. GroupInv'
  <2>1. ASSUME NEW q \in Calls, In(queue, q) PROVE q = c \/ Unanswered(q)'
    BY Zenon, <1>4, <2>1 DEF QueueInv, Same
  <2> QED
    BY <1>1, <1>2, <1>4, <1>5, <1>6, <1>7, <2>1 DEF GroupInv
<1>13. WaitInv'
  <2>1. \A q : ~In(group[c], q)
    BY Zenon, <1>1, NobodyIn DEF GroupInv, TypeOK
  <2>2. ASSUME NEW d \in Calls, Unanswered(d)' PROVE In(group'[c], d)
    BY Zenon, <1>2, <1>4, <1>7, <2>1, <2>2 DEF WaitInv, Same
  <2> QED
    BY Zenon, <2>2 DEF WaitInv
<1> QED
  BY Zenon, <1>8, <1>9, <1>10, <1>11, <1>12, <1>13

\* A commit decides the leader's result and moves no call.
LEMMA InvCommit ==
  ASSUME Inv, NEW c \in Calls, Commit(c)
  PROVE  Inv'
<1> USE DEF Inv
<1>1. PICK r \in Results :
        /\ err' = [err EXCEPT ![c] = r]
        /\ log' = IF r = "ok" THEN log \o group[c] ELSE log
  BY Zenon DEF Commit
<1>2. /\ pc[c] = "commit" /\ pc' = [pc EXCEPT ![c] = "notify"]
      /\ queue' = queue /\ flushing' = flushing /\ done' = done /\ group' = group /\ sends' = sends
  BY Zenon DEF Commit
<1>3. /\ pc'[c] = "notify" /\ err'[c] \in Results
      /\ \A d \in Calls : d # c => pc'[d] = pc[d] /\ err'[d] = err[d]
  BY Zenon, <1>1, <1>2 DEF TypeOK
<1>4. \A d \in Calls : Same(d)
  BY Zenon, <1>2, <1>3 DEF Same, Unanswered, HasLead, Leads
<1>5. TypeOK'
  <2>1. log' \in Seq(Calls)
    BY <1>1 DEF TypeOK
  <2> QED
    BY Zenon, <1>1, <1>2, <2>1 DEF TypeOK
<1>6. LeadInv'
  BY Zenon, <1>2, <1>4 DEF LeadInv, Same
<1>7. SendInv'
  BY Zenon, <1>2, <1>3 DEF SendInv
<1>8. QueueInv'
  BY Zenon, <1>2, <1>4 DEF QueueInv, Same
<1>9. GroupInv'
  BY Zenon, <1>2, <1>3, <1>4 DEF GroupInv, Same
<1>10. WaitInv'
  BY Zenon, <1>2, <1>4 DEF WaitInv, Same
<1> QED
  BY Zenon, <1>5, <1>6, <1>7, <1>8, <1>9, <1>10

\* The call a leader answers is unanswered, and leaves the group.
LEMMA InvNotify ==
  ASSUME Inv, NEW c \in Calls, Notify(c)
  PROVE  Inv'
<1> USE DEF Inv
<1>0. PICK h \in Calls : h = Head(group[c])
  <2>1. group[c] \in Seq(Calls) /\ group[c] # <<>> /\ Distinct(group[c])
    BY Zenon DEF TypeOK, GroupInv, Notify
  <2> QED
    BY Zenon, <2>1, TailSeq
<1>1. /\ pc[c] = "notify" /\ group[c] # <<>> /\ group' = [group EXCEPT ![c] = Tail(@)]
      /\ queue' = queue /\ flushing' = flushing /\ pc' = pc /\ err' = err /\ log' = log
      /\ h = c => done' = done /\ sends' = sends
      /\ h # c => Send(h, err[c])
  BY Zenon, <1>0 DEF Notify
<1>2. /\ Tail(group[c]) \in Seq(Calls) /\ In(group[c], h)
      /\ \A q : In(Tail(group[c]), q) <=> In(group[c], q) /\ q # h
      /\ Distinct(Tail(group[c]))
  <2>1. group[c] \in Seq(Calls) /\ Distinct(group[c])
    BY Zenon DEF TypeOK, GroupInv
  <2> QED
    BY Zenon, <1>0, <1>1, <2>1, TailSeq
<1>3. /\ group'[c] = Tail(group[c]) /\ err[c] \in Results
      /\ \A d \in Calls : d # c => group'[d] = group[d]
  BY Zenon, <1>1 DEF TypeOK, GroupInv
<1>4. h # c => /\ Unanswered(h) /\ ~In(queue, h)
               /\ done' = [done EXCEPT ![h] = <<err[c]>>] /\ sends' = [sends EXCEPT ![h] = @ + 1]
  BY Zenon, <1>1, <1>2 DEF GroupInv, Send
<1>5. /\ \A d \in Calls : d # h => done'[d] = done[d] /\ sends'[d] = sends[d]
      /\ h # c => done'[h] = <<err[c]>> /\ sends'[h] = 1
      /\ h = c => done'[h] = done[h] /\ sends'[h] = sends[h]
  <2>1. CASE h = c
    BY Zenon, <1>1, <2>1
  <2>2. CASE h # c
    <3>1. sends[h] = 0
      BY Zenon, <1>4, <2>2 DEF SendInv, Unanswered
    <3> QED
      BY <1>4, <2>2, <3>1 DEF TypeOK
  <2> QED
    BY Zenon, <2>1, <2>2
<1>6. /\ \A d \in Calls : d # h => Same(d)
      /\ h = c => Same(h)
      /\ h # c => (HasLead(h)' <=> HasLead(h)) /\ (Leads(h)' <=> Leads(h)) /\ ~Unanswered(h)'
      /\ Leads(c) /\ ~Unanswered(c)
  <2>1. Leads(c) /\ ~Unanswered(c)
    BY Zenon, <1>1 DEF Leads, Unanswered
  <2>2. ASSUME NEW d \in Calls, d # h \/ h = c PROVE Same(d)
    BY Zenon, <1>1, <1>5, <2>2 DEF Same, Unanswered, HasLead, Leads
  <2>3. ASSUME h # c
        PROVE  (HasLead(h)' <=> HasLead(h)) /\ (Leads(h)' <=> Leads(h)) /\ ~Unanswered(h)'
    <3>1. done'[h] # <<>> /\ done'[h] # <<"lead">> /\ done[h] # <<"lead">>
      BY Zenon, <1>3, <1>4, <1>5, <2>3, OneTuple DEF Results, Unanswered
    <3> QED
      BY Zenon, <1>1, <3>1 DEF Unanswered, HasLead, Leads
  <2> QED
    BY Zenon, <2>1, <2>2, <2>3
<1>7. \A d \in Calls : d # c => group[d] = <<>> /\ \A q : ~In(group[d], q)
  BY SMTT(60), <1>6, NobodyIn DEF LeadInv, GroupInv, Leads, TypeOK
<1>8. TypeOK'
  <2>1. done' \in [Calls -> {<<>>} \cup {<<m>> : m \in Messages}]
    <3>1. CASE h = c
      BY Zenon, <1>1, <3>1 DEF TypeOK
    <3>2. CASE h # c
      <4>1. <<err[c]>> \in {<<m>> : m \in Messages}
        BY Zenon, <1>3 DEF Messages
      <4>2. done' = [done EXCEPT ![h] = <<err[c]>>]
        BY Zenon, <1>4, <3>2
      <4> QED
        BY <4>1, <4>2, Zenon DEF TypeOK
    <3> QED
      BY Zenon, <3>1, <3>2
  <2>2. sends' \in [Calls -> Nat]
    <3>1. sends' = sends \/ sends' = [sends EXCEPT ![h] = @ + 1]
      BY Zenon, <1>1, <1>4
    <3>2. sends \in [Calls -> Nat]
      BY Zenon DEF TypeOK
    <3> QED
      BY <3>1, <3>2
  <2>3. group' \in [Calls -> Seq(Calls)]
    BY Zenon, <1>1, <1>2 DEF TypeOK
  <2> QED
    BY Zenon, <1>1, <2>1, <2>2, <2>3 DEF TypeOK
<1>9. LeadInv'
  BY Zenon, <1>1, <1>2, <1>6 DEF LeadInv, Same
<1>10. SendInv'
  <2>1. h # c => done'[h] # <<>> /\ pc[h] = "wait"
    BY Zenon, <1>4, <1>5, OneTuple DEF Unanswered
  <2> QED
    BY <1>1, <1>5, <2>1 DEF SendInv
<1>11. QueueInv'
  BY Zenon, <1>1, <1>2, <1>4, <1>6 DEF QueueInv, Same
<1>12. GroupInv'
  <2>1. ASSUME NEW q \in Calls, In(group'[c], q) PROVE ~In(queue', q) /\ (q = c \/ Unanswered(q)')
    BY Zenon, <1>1, <1>2, <1>3, <1>6, <2>1 DEF GroupInv, Same
  <2>2. \A l \in Calls : l # c => group'[l] = <<>> /\ \A q : ~In(group'[l], q)
    BY Zenon, <1>3, <1>7
  <2> QED
    BY Zenon, <1>1, <1>2, <1>3, <2>1, <2>2 DEF GroupInv
<1>13. WaitInv'
  <2>1. ASSUME NEW d \in Calls, Unanswered(d)' PROVE In(queue', d) \/ In(group'[c], d)
    <3>1. d # h /\ Unanswered(d)
      BY Zenon, <1>6, <2>1 DEF Same
    <3> QED
      BY Zenon, <1>1, <1>2, <1>3, <1>7, <3>1 DEF WaitInv
  <2> QED
    BY Zenon, <2>1 DEF WaitInv
<1> QED
  BY Zenon, <1>8, <1>9, <1>10, <1>11, <1>12, <1>13

\* The lead goes to the first of the queue, or flushing ends with the queue empty.
LEMMA InvHandOff ==
  ASSUME Inv, NEW c \in Calls, HandOff(c)
  PROVE  Inv'
<1> USE DEF Inv
<1>1. /\ pc[c] = "notify" /\ group[c] = <<>> /\ pc' = [pc EXCEPT ![c] = "returned"]
      /\ queue' = queue /\ group' = group /\ err' = err /\ log' = log
      /\ \/ queue = <<>> /\ flushing' = FALSE /\ done' = done /\ sends' = sends
         \/ queue # <<>> /\ Send(Head(queue), "lead") /\ flushing' = flushing
  BY Zenon DEF HandOff
<1>2. /\ pc'[c] = "returned" /\ \A d \in Calls : d # c => pc'[d] = pc[d]
      /\ done[c] = <<>> /\ Leads(c) /\ ~HasLead(c) /\ ~Unanswered(c) /\ flushing
  BY Zenon, <1>1, OneTuple DEF TypeOK, SendInv, LeadInv, Leads, HasLead, Unanswered
<1>3. \A d \in Calls : d # c => ~Leads(d) /\ ~HasLead(d)
  BY Zenon, <1>2 DEF LeadInv, Leads
<1>4. \A d \in Calls : group[d] = <<>> /\ \A q : ~In(group[d], q)
  BY Zenon, <1>1, <1>3, NobodyIn DEF GroupInv, Leads, TypeOK
<1>5. CASE queue = <<>>
  <2>1. flushing' = FALSE /\ done' = done /\ sends' = sends
    BY Zenon, <1>1, <1>5
  <2>2. \A d \in Calls : (Unanswered(d)' <=> Unanswered(d)) /\ ~HasLead(d)' /\ ~Leads(d)'
    BY SMTT(60), <1>2, <1>3, <2>1, OneTuple DEF Unanswered, HasLead, Leads
  <2>3. TypeOK'
    BY Zenon, <1>1, <2>1 DEF TypeOK
  <2>4. LeadInv' /\ WaitInv'
    BY Zenon, <1>1, <1>5, <2>1, <2>2 DEF LeadInv, WaitInv
  <2>5. SendInv'
    BY Zenon, <1>1, <1>2, <2>1 DEF SendInv
  <2>6. QueueInv'
    BY Zenon, <1>1, <1>2, <1>3, <2>2 DEF QueueInv
  <2>7. GroupInv'
    BY Zenon, <1>1, <1>2, <1>4, <2>2 DEF GroupInv
  <2> QED
    BY Zenon, <2>3, <2>4, <2>5, <2>6, <2>7
<1>6. CASE queue # <<>>
  <2>0. PICK h \in Calls : h = Head(queue) /\ In(queue, h)
    BY Zenon, <1>6, TailSeq DEF TypeOK, QueueInv
  <2>1. /\ flushing' = flushing /\ done[h] = <<>>
        /\ done' = [done EXCEPT ![h] = <<"lead">>] /\ sends' = [sends EXCEPT ![h] = @ + 1]
    BY Zenon, <1>1, <1>6, <2>0 DEF Send
  <2>3. Unanswered(h) /\ h # c
    BY Zenon, <1>2, <1>3, <2>0 DEF QueueInv
  <2>4. /\ done'[h] = <<"lead">> /\ sends'[h] = 1
        /\ \A d \in Calls : d # h => done'[d] = done[d] /\ sends'[d] = sends[d]
    BY SMTT(60), <2>1, <2>0, <2>3 DEF TypeOK, SendInv, Unanswered
  <2>5. /\ \A d \in Calls : d # h => (Unanswered(d)' <=> Unanswered(d)) /\ ~HasLead(d)' /\ ~Leads(d)'
        /\ ~Unanswered(h)' /\ HasLead(h)' /\ Leads(h)'
    BY Zenon, <1>2, <1>3, <2>3, <2>4, OneTuple DEF Unanswered, HasLead, Leads
  <2>6. TypeOK'
    <3>1. done' \in [Calls -> {<<>>} \cup {<<m>> : m \in Messages}]
      <4>1. <<"lead">> \in {<<m>> : m \in Messages}
        BY Zenon DEF Messages
      <4> QED
        BY <2>1, <4>1, Zenon DEF TypeOK
    <3>2. sends' \in [Calls -> Nat] /\ flushing' \in BOOLEAN
      BY <2>1 DEF TypeOK
    <3> QED
      BY Zenon, <1>1, <3>1, <3>2 DEF TypeOK
  <2>7. LeadInv'
    BY Zenon, <1>2, <2>1, <2>0, <2>5 DEF LeadInv
  <2>8. SendInv'
    <3>1. done'[h] # <<>> /\ pc'[h] = "wait"
      BY Zenon, <1>2, <2>3, <2>4, OneTuple DEF Unanswered
    <3>2. \A d \in Calls : d # h /\ d # c =>
            pc'[d] = pc[d] /\ done'[d] = done[d] /\ sends'[d] = sends[d]
      BY Zenon, <1>2, <2>4
    <3>3. pc'[c] = "returned" /\ done'[c] = <<>> /\ sends'[c] = sends[c]
      BY Zenon, <1>2, <2>3, <2>4
    <3> QED
      BY <2>4, <3>1, <3>2, <3>3 DEF SendInv
  <2>9. QueueInv'
    BY Zenon, <1>1, <1>3, <1>6, <2>0, <2>5 DEF QueueInv
  <2>10. GroupInv'
    BY Zenon, <1>1, <1>2, <1>4, <2>5 DEF GroupInv
  <2>11. WaitInv'
    BY Zenon, <1>1, <2>5 DEF WaitInv
  <2> QED
    BY Zenon, <2>6, <2>7, <2>8, <2>9, <2>10, <2>11
<1> QED
  BY Zenon, <1>5, <1>6

\* InsertBatch touches neither queue nor groups.
LEMMA InvBatch ==
  ASSUME Inv, NEW c \in Calls, Batch(c)
  PROVE  Inv'
<1> USE DEF Inv
<1>1. PICK r \in Results :
        /\ err' = [err EXCEPT ![c] = r]
        /\ log' = IF r = "ok" THEN Append(log, c) ELSE log
  BY Zenon DEF Batch
<1>2. /\ pc[c] = "idle" /\ pc' = [pc EXCEPT ![c] = "returned"]
      /\ queue' = queue /\ flushing' = flushing /\ done' = done /\ group' = group /\ sends' = sends
  BY Zenon DEF Batch
<1>3. /\ pc'[c] = "returned"
      /\ \A d \in Calls : d # c => pc'[d] = pc[d] /\ err'[d] = err[d]
  BY Zenon, <1>1, <1>2 DEF TypeOK
<1>4. \A d \in Calls : Same(d)
  BY Zenon, <1>2, <1>3 DEF Same, Unanswered, HasLead, Leads
<1>5. TypeOK'
  <2>1. log' \in Seq(Calls)
    BY <1>1 DEF TypeOK
  <2> QED
    BY Zenon, <1>1, <1>2, <2>1 DEF TypeOK
<1>6. LeadInv'
  BY Zenon, <1>2, <1>4 DEF LeadInv, Same
<1>7. SendInv'
  BY Zenon, <1>2, <1>3 DEF SendInv
<1>8. QueueInv'
  BY Zenon, <1>2, <1>4 DEF QueueInv, Same
<1>9. GroupInv'
  BY Zenon, <1>2, <1>3, <1>4 DEF GroupInv, Same
<1>10. WaitInv'
  BY Zenon, <1>2, <1>4 DEF WaitInv, Same
<1> QED
  BY Zenon, <1>5, <1>6, <1>7, <1>8, <1>9, <1>10

\* Inv depends on the variables only.
LEMMA InvStutter ==
  ASSUME Inv, UNCHANGED vars
  PROVE  Inv'
<1>1. /\ queue' = queue /\ flushing' = flushing /\ pc' = pc /\ done' = done
      /\ group' = group /\ err' = err /\ log' = log /\ sends' = sends
  BY Zenon DEF vars
<1>2. \A d \in Calls : Same(d)
  BY Zenon, <1>1 DEF Same, Unanswered, HasLead, Leads
<1> QED
  BY SMTT(60), <1>1, <1>2 DEF Inv, TypeOK, LeadInv, SendInv, QueueInv, GroupInv, WaitInv, Same

\* Inv, the inductive invariant of Engine.group, holds for any set of calls.
THEOREM Invariance == Safe => []Inv
<1>1. Init => Inv
  BY Zenon, InvInit
<1>2. Inv /\ [Next]_vars => Inv'
  BY Zenon, InvEnqueue, InvReceive, InvTakeQueue, InvCommit, InvNotify, InvHandOff, InvBatch, InvStutter
     DEF Next, Step
<1> QED
  BY <1>1, <1>2, PTL DEF Safe

\* For any set of calls: while flushing is set exactly one call leads, and
\* otherwise nobody does and no waiter is without its answer (Engine.group).
THEOREM OneLeaderAtATime == Spec => []OneLeader
<1>1. Inv => OneLeader
  <2> SUFFICES ASSUME Inv PROVE OneLeader
    BY Zenon
  <2>1. Leading = {c \in Calls : Leads(c)}
    BY Zenon DEF Leading, Leads, HasLead
  <2>2. CASE flushing
    <3>1. PICK c \in Calls : Leads(c) /\ \A d \in Calls : Leads(d) => d = c
      BY Zenon, <2>2 DEF Inv, LeadInv
    <3>2. Leading = {c}
      BY Zenon, <2>1, <3>1
    <3> QED
      BY Zenon, <2>2, <3>2 DEF OneLeader
  <2>3. CASE ~flushing
    <3>1. queue = <<>> /\ \A c \in Calls : ~Leads(c)
      BY Zenon, <2>3 DEF Inv, LeadInv
    <3>2. \A c \in Calls : ~In(queue, c) /\ \A l \in Calls : ~In(group[l], c)
      BY Zenon, <3>1, NobodyIn DEF Inv, GroupInv, Leads, TypeOK
    <3>3. \A c \in Calls : pc[c] = "wait" => done[c] # <<>>
      BY Zenon, <3>2 DEF Inv, WaitInv, Unanswered
    <3> QED
      BY Zenon, <2>1, <2>3, <3>1, <3>3 DEF OneLeader
  <2> QED
    BY Zenon, <2>2, <2>3
<1> QED
  BY <1>1, Invariance, PTL DEF Spec

\* For any set of calls: no done channel is sent a second value, and the call
\* a leader is about to answer is waiting with an empty channel, so that the
\* send never blocks (the loop in Engine.group that answers the group).
THEOREM OneValueEach == Spec => []OneValue
<1>1. Inv => OneValue
  <2> SUFFICES ASSUME Inv PROVE OneValue
    BY Zenon
  <2>1. \A c \in Calls : sends[c] <= 1
    BY Zenon DEF Inv, SendInv
  <2>2. ASSUME NEW c \in Calls, group[c] # <<>>
        PROVE  Head(group[c]) = c \/ (pc[Head(group[c])] = "wait" /\ sends[Head(group[c])] = 0)
    <3>1. Head(group[c]) \in Calls /\ In(group[c], Head(group[c]))
      BY Zenon, <2>2, TailSeq DEF Inv, TypeOK, GroupInv
    <3> QED
      BY Zenon, <3>1 DEF Inv, GroupInv, SendInv, Unanswered
  <2> QED
    BY Zenon, <2>1, <2>2 DEF OneValue
<1> QED
  BY <1>1, Invariance, PTL DEF Spec

-----------------------------------------------------------------------------
(* Group commit implements OrderedWrites, liveness aside. *)

\* l has committed the group d is in and has not answered d yet.
Decides(l, d) == pc[l] = "notify" /\ (l = d \/ In(group[l], d))

Pending(d) ==
  /\ pc[d] \notin {"idle", "returned"}
  /\ \A r \in Results : done[d] # <<r>>
  /\ \A l \in Calls : ~Decides(l, d)

\* The refinement mapping without its CASE and CHOOSE.
OutcomeOK ==
  /\ OutcomeBar = [d \in Calls |-> OutcomeBar[d]]
  /\ \A d \in Calls :
       /\ pc[d] = "idle" => OutcomeBar[d] = "idle"
       /\ pc[d] = "returned" => OutcomeBar[d] = err[d]
       /\ \A r \in Results : done[d] = <<r>> => OutcomeBar[d] = r
       /\ \A l \in Calls : Decides(l, d) => OutcomeBar[d] = err[l]
       /\ Pending(d) => OutcomeBar[d] = "waiting"

WaitingOK ==
  /\ (\A c \in Calls : pc[c] # "commit") => WaitingBar = queue
  /\ \A c \in Calls : pc[c] = "commit" => WaitingBar = group[c] \o queue

\* Where the mapping finds a call's outcome.
LEMMA OutcomeMapped == Inv => OutcomeOK
<1> SUFFICES ASSUME Inv PROVE OutcomeOK
  BY Zenon
<1>1. OutcomeBar = [d \in Calls |-> OutcomeBar[d]]
  BY DEF OutcomeBar
<1>2. ASSUME NEW d \in Calls
      PROVE  /\ pc[d] = "idle" => OutcomeBar[d] = "idle"
             /\ pc[d] = "returned" => OutcomeBar[d] = err[d]
             /\ \A r \in Results : done[d] = <<r>> => OutcomeBar[d] = r
             /\ \A l \in Calls : Decides(l, d) => OutcomeBar[d] = err[l]
             /\ Pending(d) => OutcomeBar[d] = "waiting"
  <2> DEFINE answered == done[d] \in {<<r>> : r \in Results}
  <2>1. OutcomeBar[d] =
          CASE pc[d] = "idle" -> "idle"
            [] pc[d] = "returned" -> err[d]
            [] answered -> Head(done[d])
            [] Decider(d) # {} -> err[CHOOSE l \in Decider(d) : TRUE]
            [] OTHER -> "waiting"
    BY Zenon DEF OutcomeBar
  <2>2. Decider(d) = {l \in Calls : Decides(l, d)}
    BY Zenon DEF Decider, Decides, In
  <2>3. answered <=> \E r \in Results : done[d] = <<r>>
    BY Zenon
  <2>4. answered => pc[d] = "wait"
    BY Zenon, <2>3, OneTuple DEF Inv, SendInv
  <2>5. ASSUME NEW l \in Calls, Decides(l, d)
        PROVE  pc[d] \in {"wait", "notify"} /\ ~answered /\ Decider(d) = {l}
    <3>1. Leads(l) /\ (l = d \/ Unanswered(d))
      BY Zenon, <2>5 DEF Decides, Leads, Inv, GroupInv
    <3>2. pc[d] \in {"wait", "notify"} /\ done[d] = <<>>
      BY Zenon, <2>5, <3>1 DEF Decides, Unanswered, Inv, SendInv
    <3>3. \A k \in Calls : Decides(k, d) => k = l
      BY Zenon, <3>1 DEF Decides, Leads, Inv, LeadInv
    <3> QED
      BY Zenon, <2>2, <2>3, <2>5, <3>2, <3>3, OneTuple
  <2> HIDE DEF answered
  <2>6. pc[d] = "idle" => OutcomeBar[d] = "idle"
    BY Zenon, <2>1, <2>2, <2>4, <2>5
  <2>7. pc[d] = "returned" => OutcomeBar[d] = err[d]
    BY Zenon, <2>1, <2>2, <2>4, <2>5
  <2>8. ASSUME NEW r \in Results, done[d] = <<r>> PROVE OutcomeBar[d] = r
    <3>1. answered /\ pc[d] = "wait" /\ Head(done[d]) = r
      BY Zenon, <2>3, <2>4, <2>8, OneTuple
    <3>2. Decider(d) = {}
      BY Zenon, <2>2, <2>5, <3>1
    <3> QED
      BY Zenon, <2>1, <3>1, <3>2
  <2>9. ASSUME NEW l \in Calls, Decides(l, d) PROVE OutcomeBar[d] = err[l]
    <3>1. pc[d] \in {"wait", "notify"} /\ ~answered /\ Decider(d) = {l}
      BY Zenon, <2>5, <2>9
    <3>2. (CHOOSE k \in Decider(d) : TRUE) = l
      BY Zenon, <3>1
    <3> QED
      BY Zenon, <2>1, <3>1, <3>2
  <2>10. Pending(d) => OutcomeBar[d] = "waiting"
    BY Zenon, <2>1, <2>2, <2>3 DEF Pending
  <2> QED
    BY Zenon, <2>6, <2>7, <2>8, <2>9, <2>10
<1> QED
  BY Zenon, <1>1, <1>2 DEF OutcomeOK

\* The undecided calls are the group being committed, then the queue.
LEMMA WaitingMapped == Inv => WaitingOK
<1> SUFFICES ASSUME Inv PROVE WaitingOK
  BY Zenon
<1>1. (\A c \in Calls : pc[c] # "commit") => WaitingBar = queue
  BY Zenon DEF WaitingBar, Undecided
<1>2. ASSUME NEW c \in Calls, pc[c] = "commit" PROVE WaitingBar = group[c] \o queue
  <2>1. Undecided = {c}
    BY Zenon, <1>2 DEF Undecided, Inv, LeadInv, Leads
  <2>2. (CHOOSE k \in Undecided : TRUE) = c /\ Undecided # {}
    BY Zenon, <2>1
  <2> QED
    BY Zenon, <2>2 DEF WaitingBar
<1> QED
  BY Zenon, <1>1, <1>2 DEF WaitingOK

\* The calls that decide d stay the same.
Decided(d) ==
  \A l \in Calls :
    /\ Decides(l, d)' <=> Decides(l, d)
    /\ Decides(l, d) => err'[l] = err[l]

\* d stays where the mapping finds its outcome.
Keeps(d) ==
  /\ pc'[d] = "idle" <=> pc[d] = "idle"
  /\ pc'[d] = "returned" <=> pc[d] = "returned"
  /\ pc[d] = "returned" => err'[d] = err[d]
  /\ \A r \in Results : done'[d] = <<r>> <=> done[d] = <<r>>
  /\ Decided(d)

\* A call that stays where it is keeps its outcome.
LEMMA OutcomeKept ==
  ASSUME OutcomeOK, OutcomeOK', NEW d \in Calls, Keeps(d)
  PROVE  OutcomeBar'[d] = OutcomeBar[d]
<1>1. CASE Pending(d)
  <2>1. Pending(d)'
    BY Zenon, <1>1 DEF Pending, Keeps, Decided
  <2> QED
    BY <1>1, <2>1 DEF OutcomeOK
<1>2. CASE ~Pending(d)
  BY <1>2 DEF Pending, OutcomeOK, Keeps, Decided
<1> QED
  BY Zenon, <1>1, <1>2

\* A group ahead of the queue, taken apart again.
LEMMA ConcatSeq ==
  ASSUME NEW s \in Seq(Calls), NEW t \in Seq(Calls)
  PROVE  /\ SubSeq(s \o t, 1, Len(s)) = s
         /\ SubSeq(s \o t, Len(s) + 1, Len(s \o t)) = t
         /\ \A d : (\E i \in 1..Len(s) : (s \o t)[i] = d) <=> In(s, d)
         /\ Len(s \o t) = Len(s) + Len(t)
         /\ t = <<>> => s \o t = s
<1>1. /\ s \o t \in Seq(Calls) /\ Len(s \o t) = Len(s) + Len(t)
      /\ Len(s) \in Nat /\ Len(t) \in Nat
      /\ \A i \in 1..Len(s) : (s \o t)[i] = s[i]
      /\ \A i \in 1..Len(t) : (s \o t)[Len(s) + i] = t[i]
  OBVIOUS
<1>2. SubSeq(s \o t, 1, Len(s)) = s
  BY <1>1
<1>3. SubSeq(s \o t, Len(s) + 1, Len(s \o t)) = t
  BY <1>1
<1>4. ASSUME NEW d PROVE (\E i \in 1..Len(s) : (s \o t)[i] = d) <=> In(s, d)
  BY Zenon, <1>1 DEF In
<1>5. t = <<>> => s \o t = s
  BY <1>1
<1> QED
  BY Zenon, <1>1, <1>2, <1>3, <1>4, <1>5

\* Queueing while a group is being committed appends to both.
LEMMA AppendConcat ==
  ASSUME NEW s \in Seq(Calls), NEW t \in Seq(Calls), NEW c \in Calls
  PROVE  Append(s \o t, c) = s \o Append(t, c)
<1>1. <<c>> \in Seq(Calls) /\ s \o t \in Seq(Calls)
  OBVIOUS
<1>2. Append(s \o t, c) = (s \o t) \o <<c>> /\ Append(t, c) = t \o <<c>>
  BY <1>1
<1>3. (s \o t) \o <<c>> = s \o (t \o <<c>>)
  BY SMTT(60), <1>1
<1> QED
  BY Zenon, <1>2, <1>3

\* Queueing is Invoke.
LEMMA MapEnqueue ==
  ASSUME Inv, OutcomeOK, WaitingOK, OutcomeOK', WaitingOK', NEW c \in Calls, Enqueue(c)
  PROVE  Promise!Invoke(c)
<1>1. /\ queue' = Append(queue, c) /\ pc[c] = "idle"
      /\ pc' = [pc EXCEPT ![c] = IF flushing THEN "wait" ELSE "lead"]
      /\ done' = done /\ group' = group /\ err' = err /\ log' = log
  BY Zenon DEF Enqueue
<1>2. /\ pc'[c] \in {"wait", "lead"}
      /\ \A d \in Calls : d # c => pc'[d] = pc[d]
  BY Zenon, <1>1 DEF Inv, TypeOK
<1>3. \A d \in Calls : Decided(d)
  BY Zenon, <1>1, <1>2 DEF Decides, Decided
<1>4. \A d \in Calls : d # c => OutcomeBar'[d] = OutcomeBar[d]
  <2>1. \A d \in Calls : d # c => Keeps(d)
    BY Zenon, <1>1, <1>2, <1>3 DEF Keeps
  <2> QED
    BY Zenon, <2>1, OutcomeKept
<1>5. OutcomeBar[c] = "idle" /\ OutcomeBar'[c] = "waiting"
  <2>1. done'[c] = <<>>
    BY Zenon, <1>1 DEF Inv, SendInv
  <2>2. \A l \in Calls : ~Decides(l, c)
    BY Zenon, <1>1 DEF Decides, Inv, GroupInv, Unanswered
  <2>3. Pending(c)'
    BY Zenon, <1>2, <1>3, <2>1, <2>2, OneTuple DEF Pending, Decided
  <2> QED
    BY Zenon, <1>1, <2>3 DEF OutcomeOK
<1>6. OutcomeBar' = [OutcomeBar EXCEPT ![c] = "waiting"]
  BY <1>4, <1>5 DEF OutcomeOK
<1>7. WaitingBar' = Append(WaitingBar, c)
  <2>1. CASE \A d \in Calls : pc[d] # "commit"
    BY Zenon, <1>1, <1>2, <2>1 DEF WaitingOK
  <2>2. ASSUME NEW l \in Calls, pc[l] = "commit" PROVE WaitingBar' = Append(WaitingBar, c)
    <3>1. WaitingBar = group[l] \o queue /\ WaitingBar' = group[l] \o Append(queue, c)
      BY Zenon, <1>1, <1>2, <2>2 DEF WaitingOK
    <3>2. group[l] \in Seq(Calls) /\ queue \in Seq(Calls)
      BY Zenon DEF Inv, TypeOK
    <3>3. Append(group[l] \o queue, c) = group[l] \o Append(queue, c)
      BY Zenon, <3>2, AppendConcat
    <3> QED
      BY Zenon, <3>1, <3>3
  <2> QED
    BY Zenon, <2>1, <2>2
<1>8. {d \in Calls : pc'[d] = "returned"} = {d \in Calls : pc[d] = "returned"}
  BY Zenon, <1>1, <1>2
<1> QED
  BY Zenon, <1>1, <1>5, <1>6, <1>7, <1>8 DEF Promise!Invoke

\* A step that moves no undecided call keeps the order of all of them.
LEMMA WaitingKept ==
  ASSUME WaitingOK, WaitingOK', queue' = queue,
         \A d \in Calls : (pc'[d] = "commit") <=> (pc[d] = "commit"),
         \A d \in Calls : pc[d] = "commit" => group'[d] = group[d]
  PROVE  WaitingBar' = WaitingBar
<1>1. CASE \A d \in Calls : pc[d] # "commit"
  BY Zenon, <1>1 DEF WaitingOK
<1>2. ASSUME NEW l \in Calls, pc[l] = "commit" PROVE WaitingBar' = WaitingBar
  <2>1. pc'[l] = "commit" /\ group'[l] = group[l]
    BY Zenon, <1>2
  <2>2. WaitingBar = group[l] \o queue
    BY Zenon, <1>2 DEF WaitingOK
  <2>3. WaitingBar' = group'[l] \o queue'
    BY Zenon, <2>1 DEF WaitingOK
  <2> QED
    BY Zenon, <2>1, <2>2, <2>3
<1> QED
  BY Zenon, <1>1, <1>2

\* Receiving an answer is Return; receiving the lead changes nothing a caller sees.
LEMMA MapReceive ==
  ASSUME Inv, OutcomeOK, WaitingOK, OutcomeOK', WaitingOK', NEW c \in Calls, Receive(c)
  PROVE  Promise!Return(c) \/ UNCHANGED Promise!vars
<1>1. /\ queue' = queue /\ group' = group /\ log' = log
      /\ pc[c] = "wait" /\ done[c] # <<>> /\ done' = [done EXCEPT ![c] = <<>>]
  BY Zenon DEF Receive
<1>2. PICK m \in Messages : done[c] = <<m>>
  BY Zenon, <1>1 DEF Inv, TypeOK
<1>3. \/ m = "lead" /\ pc' = [pc EXCEPT ![c] = "lead"] /\ err' = err
      \/ /\ m \in Results /\ pc' = [pc EXCEPT ![c] = "returned"]
         /\ err' = [err EXCEPT ![c] = m]
  BY Zenon, <1>2, OneTuple DEF Receive
<1>4. /\ pc'[c] \in {"lead", "returned"} /\ done'[c] = <<>>
      /\ \A d \in Calls : d # c => pc'[d] = pc[d] /\ done'[d] = done[d] /\ err'[d] = err[d]
  BY Zenon, <1>1, <1>3 DEF Inv, TypeOK
<1>5. \A d \in Calls : Decided(d)
  BY Zenon, <1>1, <1>4 DEF Decides, Decided
<1>6. \A d \in Calls : d # c => OutcomeBar'[d] = OutcomeBar[d]
  <2>1. \A d \in Calls : d # c => Keeps(d)
    BY Zenon, <1>4, <1>5 DEF Keeps
  <2> QED
    BY Zenon, <2>1, OutcomeKept
<1>7. WaitingBar' = WaitingBar
  BY Zenon, <1>1, <1>4, WaitingKept
<1>8. CASE m = "lead"
  <2>1. pc'[c] = "lead" /\ \A r \in Results : done[c] # <<r>> /\ done'[c] # <<r>>
    BY <1>1, <1>2, <1>3, <1>4, <1>8, OneTuple DEF Results, Inv, TypeOK
  <2>2. OutcomeBar'[c] = OutcomeBar[c]
    <3>1. Keeps(c)
      BY Zenon, <1>1, <1>5, <2>1 DEF Keeps
    <3> QED
      BY Zenon, <3>1, OutcomeKept
  <2>3. OutcomeBar' = OutcomeBar
    BY <1>6, <2>2 DEF OutcomeOK
  <2>4. {d \in Calls : pc'[d] = "returned"} = {d \in Calls : pc[d] = "returned"}
    BY Zenon, <1>1, <1>4, <2>1
  <2> QED
    BY Zenon, <1>1, <1>7, <2>3, <2>4 DEF Promise!vars
<1>9. CASE m \in Results
  <2>1. pc'[c] = "returned" /\ err'[c] = m
    BY Zenon, <1>3, <1>9 DEF Inv, TypeOK, Results
  <2>2. OutcomeBar[c] = m /\ OutcomeBar'[c] = m
    BY Zenon, <1>2, <1>9, <2>1 DEF OutcomeOK
  <2>3. OutcomeBar' = OutcomeBar
    BY <1>6, <2>2 DEF OutcomeOK
  <2>4. /\ {d \in Calls : pc'[d] = "returned"} = {d \in Calls : pc[d] = "returned"} \cup {c}
        /\ c \notin {d \in Calls : pc[d] = "returned"}
    BY Zenon, <1>1, <1>4, <2>1
  <2> QED
    BY Zenon, <1>1, <1>7, <1>9, <2>2, <2>3, <2>4 DEF Promise!Return, Promise!Outcomes, Results
<1> QED
  BY Zenon, <1>8, <1>9 DEF Messages

\* Taking the queue changes nothing a caller sees.
LEMMA MapTakeQueue ==
  ASSUME Inv, OutcomeOK, WaitingOK, OutcomeOK', WaitingOK', NEW c \in Calls, TakeQueue(c)
  PROVE  UNCHANGED Promise!vars
<1>1. /\ pc[c] = "lead" /\ pc' = [pc EXCEPT ![c] = "commit"]
      /\ group' = [group EXCEPT ![c] = queue] /\ queue' = <<>>
      /\ done' = done /\ err' = err /\ log' = log
  BY Zenon DEF TakeQueue
<1>2. /\ pc'[c] = "commit" /\ group'[c] = queue
      /\ \A d \in Calls : d # c => pc'[d] = pc[d] /\ group'[d] = group[d]
  BY Zenon, <1>1 DEF Inv, TypeOK
<1>3. \A d \in Calls : Decided(d)
  BY Zenon, <1>1, <1>2 DEF Decides, Decided
<1>4. OutcomeBar' = OutcomeBar
  <2>1. \A d \in Calls : Keeps(d)
    BY Zenon, <1>1, <1>2, <1>3 DEF Keeps
  <2>2. \A d \in Calls : OutcomeBar'[d] = OutcomeBar[d]
    BY Zenon, <2>1, OutcomeKept
  <2> QED
    BY Zenon, <2>2 DEF OutcomeOK
<1>5. WaitingBar' = WaitingBar
  <2>1. \A d \in Calls : pc[d] # "commit"
    BY Zenon, <1>1 DEF Inv, LeadInv, Leads, HasLead
  <2>2. queue \in Seq(Calls) /\ <<>> \in Seq(Calls)
    BY DEF Inv, TypeOK
  <2>3. WaitingBar = queue /\ WaitingBar' = queue \o <<>>
    BY Zenon, <1>1, <1>2, <2>1 DEF WaitingOK
  <2> QED
    BY <2>2, <2>3
<1>6. {d \in Calls : pc'[d] = "returned"} = {d \in Calls : pc[d] = "returned"}
  BY Zenon, <1>1, <1>2
<1> QED
  BY Zenon, <1>1, <1>4, <1>5, <1>6 DEF Promise!vars

\* A commit decides the oldest calls, those of the group, together.
LEMMA MapCommit ==
  ASSUME Inv, OutcomeOK, WaitingOK, OutcomeOK', WaitingOK', NEW c \in Calls, Commit(c)
  PROVE  Promise!DecideSome
<1>1. PICK r \in Results :
        /\ err' = [err EXCEPT ![c] = r]
        /\ log' = IF r = "ok" THEN log \o group[c] ELSE log
  BY Zenon DEF Commit
<1>2. /\ pc[c] = "commit" /\ pc' = [pc EXCEPT ![c] = "notify"]
      /\ queue' = queue /\ done' = done /\ group' = group
  BY Zenon DEF Commit
<1>3. /\ pc'[c] = "notify" /\ err'[c] = r
      /\ \A d \in Calls : d # c => pc'[d] = pc[d] /\ err'[d] = err[d]
  BY Zenon, <1>1, <1>2 DEF Inv, TypeOK
<1>4. PICK n : n = Len(group[c])
  BY Zenon
<1>5. group[c] \in Seq(Calls) /\ queue \in Seq(Calls) /\ In(group[c], c)
  BY Zenon, <1>2 DEF Inv, TypeOK, GroupInv
<1>6. WaitingBar = group[c] \o queue /\ WaitingBar' = queue
  <2>1. \A d \in Calls : pc'[d] # "commit"
    BY Zenon, <1>2, <1>3 DEF Inv, LeadInv, Leads
  <2> QED
    BY Zenon, <1>2, <2>1 DEF WaitingOK
<1>7. /\ SubSeq(WaitingBar, 1, n) = group[c]
      /\ SubSeq(WaitingBar, n + 1, Len(WaitingBar)) = queue
      /\ \A d : (\E i \in 1..n : WaitingBar[i] = d) <=> In(group[c], d)
      /\ n \in 1..Len(WaitingBar)
  <2>1. n \in Nat /\ Len(queue) \in Nat /\ n # 0
    BY <1>4, <1>5 DEF In
  <2>2. Len(group[c] \o queue) = n + Len(queue)
    BY Zenon, <1>4, <1>5, ConcatSeq
  <2>3. /\ SubSeq(group[c] \o queue, 1, Len(group[c])) = group[c]
        /\ SubSeq(group[c] \o queue, Len(group[c]) + 1, Len(group[c] \o queue)) = queue
        /\ \A d : (\E i \in 1..Len(group[c]) : (group[c] \o queue)[i] = d) <=> In(group[c], d)
    BY ZenonT(60), <1>5, ConcatSeq
  <2>4. SubSeq(WaitingBar, 1, n) = group[c]
    BY Zenon, <1>4, <1>6, <2>3
  <2>5. SubSeq(WaitingBar, n + 1, Len(WaitingBar)) = queue
    BY Zenon, <1>4, <1>6, <2>3
  <2>6. \A d : (\E i \in 1..n : WaitingBar[i] = d) <=> In(group[c], d)
    BY Zenon, <1>4, <1>6, <2>3
  <2>7. n \in 1..Len(WaitingBar)
    BY <1>6, <2>1, <2>2
  <2> QED
    BY Zenon, <2>4, <2>5, <2>6, <2>7
<1>8. ASSUME NEW d \in Calls, In(group[c], d) PROVE OutcomeBar'[d] = r
  <2>1. Decides(c, d)'
    BY Zenon, <1>2, <1>3, <1>8 DEF Decides
  <2> QED
    BY Zenon, <1>3, <2>1 DEF OutcomeOK
<1>9. ASSUME NEW d \in Calls, ~In(group[c], d) PROVE OutcomeBar'[d] = OutcomeBar[d]
  <2>1. d # c
    BY Zenon, <1>5, <1>9
  <2>2. Decided(d)
    BY Zenon, <1>2, <1>3, <1>9, <2>1 DEF Decides, Decided
  <2>3. Keeps(d)
    BY Zenon, <1>2, <1>3, <2>1, <2>2 DEF Keeps
  <2> QED
    BY Zenon, <2>3, OutcomeKept
<1>10. OutcomeBar' = [d \in Calls |-> IF \E i \in 1..n : WaitingBar[i] = d
                                     THEN r ELSE OutcomeBar[d]]
  <2>1. \A d \in Calls : OutcomeBar'[d] = IF \E i \in 1..n : WaitingBar[i] = d
                                         THEN r ELSE OutcomeBar[d]
    BY Zenon, <1>7, <1>8, <1>9
  <2> QED
    BY <2>1 DEF OutcomeOK
<1>11. {d \in Calls : pc'[d] = "returned"} = {d \in Calls : pc[d] = "returned"}
  BY Zenon, <1>2, <1>3
<1>12. Promise!Decide(n, r)
  BY Zenon, <1>1, <1>6, <1>7, <1>10, <1>11 DEF Promise!Decide
<1> QED
  BY Zenon, <1>7, <1>12 DEF Promise!DecideSome, Promise!Outcomes, Results

\* Answering a call passes on the outcome it already has.
LEMMA MapNotify ==
  ASSUME Inv, OutcomeOK, WaitingOK, OutcomeOK', WaitingOK', NEW c \in Calls, Notify(c)
  PROVE  UNCHANGED Promise!vars
<1>1. /\ pc[c] = "notify" /\ group[c] # <<>> /\ group' = [group EXCEPT ![c] = Tail(@)]
      /\ queue' = queue /\ pc' = pc /\ err' = err /\ log' = log
  BY Zenon DEF Notify
<1>2. PICK h \in Calls : /\ h = Head(group[c]) /\ In(group[c], h)
                        /\ \A q : In(Tail(group[c]), q) <=> In(group[c], q) /\ q # h
  <2>1. group[c] \in Seq(Calls) /\ Distinct(group[c])
    BY Zenon DEF Inv, TypeOK, GroupInv
  <2> QED
    BY Zenon, <1>1, <2>1, TailSeq
<1>3. /\ group'[c] = Tail(group[c])
      /\ \A d \in Calls : d # c => group'[d] = group[d]
  BY Zenon, <1>1 DEF Inv, TypeOK
<1>4. /\ h = c => done' = done
      /\ h # c => done' = [done EXCEPT ![h] = <<err[c]>>]
  BY Zenon, <1>2 DEF Notify, Send
<1>5. ASSUME NEW d \in Calls, d # h \/ h = c PROVE OutcomeBar'[d] = OutcomeBar[d]
  <2>1. \A l \in Calls : Decides(l, d)' <=> Decides(l, d)
    BY Zenon, <1>1, <1>2, <1>3, <1>5 DEF Decides
  <2>2. done'[d] = done[d]
    BY Zenon, <1>4, <1>5 DEF Inv, TypeOK
  <2>3. Keeps(d)
    BY Zenon, <1>1, <2>1, <2>2 DEF Keeps, Decided
  <2> QED
    BY Zenon, <2>3, OutcomeKept
<1>6. ASSUME h # c PROVE OutcomeBar'[h] = OutcomeBar[h]
  <2>1. Decides(c, h) /\ err[c] \in Results
    BY Zenon, <1>1, <1>2 DEF Decides, Inv, GroupInv
  <2>2. done'[h] = <<err[c]>>
    BY Zenon, <1>4, <1>6 DEF Inv, TypeOK
  <2> QED
    BY <2>1, <2>2 DEF OutcomeOK
<1>7. OutcomeBar' = OutcomeBar
  BY <1>5, <1>6 DEF OutcomeOK
<1>8. WaitingBar' = WaitingBar
  <2>1. \A d \in Calls : pc[d] = "commit" => group'[d] = group[d]
    BY Zenon, <1>1, <1>3
  <2> QED
    BY Zenon, <1>1, <2>1, WaitingKept
<1> QED
  BY Zenon, <1>1, <1>7, <1>8 DEF Promise!vars

\* The leader returns with its own outcome.
LEMMA MapHandOff ==
  ASSUME Inv, OutcomeOK, WaitingOK, OutcomeOK', WaitingOK', NEW c \in Calls, HandOff(c)
  PROVE  Promise!Return(c)
<1>1. /\ pc[c] = "notify" /\ group[c] = <<>> /\ pc' = [pc EXCEPT ![c] = "returned"]
      /\ queue' = queue /\ group' = group /\ err' = err /\ log' = log
  BY Zenon DEF HandOff
<1>2. pc'[c] = "returned" /\ \A d \in Calls : d # c => pc'[d] = pc[d]
  BY Zenon, <1>1 DEF Inv, TypeOK
<1>3. \A d \in Calls : \A r \in Results : done'[d] = <<r>> <=> done[d] = <<r>>
  <2>1. CASE done' = done
    BY Zenon, <2>1
  <2>2. CASE done[Head(queue)] = <<>> /\ done' = [done EXCEPT ![Head(queue)] = <<"lead">>]
    <3>1. \A d \in Calls : done'[d] = done[d] \/ (done[d] = <<>> /\ done'[d] = <<"lead">>)
      BY Zenon, <2>2 DEF Inv, TypeOK
    <3>2. \A r \in Results : <<"lead">> # <<r>> /\ <<>> # <<r>>
      BY Zenon, OneTuple DEF Results
    <3> QED
      BY Zenon, <3>1, <3>2
  <2> QED
    BY Zenon, <2>1, <2>2 DEF HandOff, Send
<1>4. ASSUME NEW d \in Calls, d # c PROVE OutcomeBar'[d] = OutcomeBar[d]
  <2>1. ~In(group[c], d)
    BY Zenon, <1>1, NobodyIn DEF Inv, TypeOK
  <2>2. Decided(d)
    BY Zenon, <1>1, <1>2, <1>4, <2>1 DEF Decides, Decided
  <2>3. Keeps(d)
    BY Zenon, <1>1, <1>2, <1>3, <1>4, <2>2 DEF Keeps
  <2> QED
    BY Zenon, <2>3, OutcomeKept
<1>5. OutcomeBar[c] = err[c] /\ OutcomeBar'[c] = err[c] /\ err[c] \in Results
  <2>1. Decides(c, c) /\ err[c] \in Results
    BY Zenon, <1>1 DEF Decides, Inv, GroupInv
  <2> QED
    BY Zenon, <1>1, <1>2, <2>1 DEF OutcomeOK
<1>6. OutcomeBar' = OutcomeBar
  BY <1>4, <1>5 DEF OutcomeOK
<1>7. WaitingBar' = WaitingBar
  <2>1. \A d \in Calls : (pc'[d] = "commit") <=> (pc[d] = "commit")
    BY Zenon, <1>1, <1>2
  <2> QED
    BY Zenon, <1>1, <2>1, WaitingKept
<1>8. /\ {d \in Calls : pc'[d] = "returned"} = {d \in Calls : pc[d] = "returned"} \cup {c}
      /\ c \notin {d \in Calls : pc[d] = "returned"}
  BY Zenon, <1>1, <1>2
<1> QED
  BY Zenon, <1>1, <1>5, <1>6, <1>7, <1>8 DEF Promise!Return, Promise!Outcomes, Results

\* InsertBatch is decided alone.
LEMMA MapBatch ==
  ASSUME Inv, OutcomeOK, WaitingOK, OutcomeOK', WaitingOK', NEW c \in Calls, Batch(c)
  PROVE  Promise!DecideAlone(c)
<1>1. PICK r \in Results :
        /\ err' = [err EXCEPT ![c] = r]
        /\ log' = IF r = "ok" THEN Append(log, c) ELSE log
  BY Zenon DEF Batch
<1>2. /\ pc[c] = "idle" /\ pc' = [pc EXCEPT ![c] = "returned"]
      /\ queue' = queue /\ done' = done /\ group' = group
  BY Zenon DEF Batch
<1>3. /\ pc'[c] = "returned" /\ err'[c] = r
      /\ \A d \in Calls : d # c => pc'[d] = pc[d] /\ err'[d] = err[d]
  BY Zenon, <1>1, <1>2 DEF Inv, TypeOK
<1>4. ASSUME NEW d \in Calls, d # c PROVE OutcomeBar'[d] = OutcomeBar[d]
  <2>1. Decided(d)
    BY Zenon, <1>2, <1>3, <1>4 DEF Decides, Decided
  <2>2. Keeps(d)
    BY Zenon, <1>2, <1>3, <1>4, <2>1 DEF Keeps
  <2> QED
    BY Zenon, <2>2, OutcomeKept
<1>5. OutcomeBar[c] = "idle" /\ OutcomeBar'[c] = r
  BY Zenon, <1>2, <1>3 DEF OutcomeOK
<1>6. OutcomeBar' = [OutcomeBar EXCEPT ![c] = r]
  BY Zenon, <1>4, <1>5 DEF OutcomeOK
<1>7. WaitingBar' = WaitingBar
  <2>1. \A d \in Calls : (pc'[d] = "commit") <=> (pc[d] = "commit")
    BY Zenon, <1>2, <1>3
  <2> QED
    BY Zenon, <1>2, <2>1, WaitingKept
<1>8. {d \in Calls : pc'[d] = "returned"} = {d \in Calls : pc[d] = "returned"} \cup {c}
  BY Zenon, <1>2, <1>3
<1>9. r \in Promise!Outcomes
  BY Zenon DEF Promise!Outcomes, Results
<1> QED
  BY Zenon, <1>1, <1>5, <1>6, <1>7, <1>8, <1>9 DEF Promise!DecideAlone

\* For any set of calls: every step of the group commit is a step of
\* OrderedWrites or none, so every call is decided once, in arrival order,
\* with the outcome of its group, before it returns (Engine.group, InsertBatch).
THEOREM KeepsOrder == Spec => Promise!Safe
<1>1. Init => Promise!Init
  <2> SUFFICES ASSUME Init PROVE Promise!Init
    BY Zenon
  <2>1. OutcomeOK /\ WaitingOK
    BY Zenon, InvInit, OutcomeMapped, WaitingMapped
  <2>2. WaitingBar = <<>> /\ OutcomeBar = [c \in Calls |-> "idle"]
    BY Zenon, <2>1 DEF Init, OutcomeOK, WaitingOK
  <2>3. {c \in Calls : pc[c] = "returned"} = {}
    BY Zenon DEF Init
  <2> QED
    BY Zenon, <2>2, <2>3 DEF Init, Promise!Init
<1>2. Inv /\ [Next]_vars => Inv'
  BY Zenon, InvEnqueue, InvReceive, InvTakeQueue, InvCommit, InvNotify, InvHandOff, InvBatch, InvStutter
     DEF Next, Step
<1>3. Inv' => (OutcomeOK /\ WaitingOK)'
  BY OutcomeMapped, WaitingMapped, PTL
<1>4. Inv /\ [Next]_vars => [Promise!Next]_(Promise!vars)
  <2> SUFFICES ASSUME Inv, [Next]_vars PROVE [Promise!Next]_(Promise!vars)
    BY Zenon
  <2>1. OutcomeOK /\ WaitingOK /\ OutcomeOK' /\ WaitingOK'
    BY Zenon, <1>2, <1>3, OutcomeMapped, WaitingMapped
  <2>2. ASSUME NEW c \in Calls, Enqueue(c) \/ Batch(c) \/ Step(c)
        PROVE  [Promise!Next]_(Promise!vars)
    BY Zenon, <2>1, <2>2, MapEnqueue, MapReceive, MapTakeQueue, MapCommit, MapNotify, MapHandOff, MapBatch
       DEF Step, Promise!Next
  <2>3. CASE UNCHANGED vars
    BY <2>3 DEF vars, Promise!vars, WaitingBar, OutcomeBar, Undecided, Decider
  <2> QED
    BY Zenon, <2>2, <2>3 DEF Next
<1> QED
  BY <1>1, <1>4, Invariance, PTL DEF Spec, Safe, Promise!Safe
=============================================================================
