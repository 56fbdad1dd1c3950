---------------------------- MODULE OrderedWrites ----------------------------
(***************************************************************************)
(* What Engine.Insert, Delete, UpdateMetadata and InsertBatch promise      *)
(* their concurrent callers: queued calls are decided in arrival order,    *)
(* several at a time with one outcome, each exactly once and before it     *)
(* returns; the log holds the calls that succeeded, and every call that    *)
(* was made returns.                                                       *)
(***************************************************************************)
EXTENDS Naturals, Sequences

CONSTANT Calls

VARIABLES
  waiting,   \* queued calls not decided yet, oldest first
  outcome,   \* "idle", "waiting", "ok" or "error" per call
  returned,  \* calls whose caller has its answer
  log        \* decided "ok", in log order

vars == <<waiting, outcome, returned, log>>

Outcomes == {"ok", "error"}

Init ==
  /\ waiting = <<>> /\ log = <<>> /\ returned = {}
  /\ outcome = [c \in Calls |-> "idle"]

Invoke(c) ==
  /\ outcome[c] = "idle"
  /\ waiting' = Append(waiting, c)
  /\ outcome' = [outcome EXCEPT ![c] = "waiting"]
  /\ UNCHANGED <<returned, log>>

\* The oldest n calls get one outcome together.
Decide(n, r) ==
  /\ waiting' = SubSeq(waiting, n + 1, Len(waiting))
  /\ outcome' = [c \in Calls |-> IF \E i \in 1..n : waiting[i] = c THEN r ELSE outcome[c]]
  /\ log' = IF r = "ok" THEN log \o SubSeq(waiting, 1, n) ELSE log
  /\ UNCHANGED returned

DecideSome == \E n \in 1..Len(waiting), r \in Outcomes : Decide(n, r)

\* A batch call does not queue.
DecideAlone(c) ==
  /\ outcome[c] = "idle"
  /\ \E r \in Outcomes :
       /\ outcome' = [outcome EXCEPT ![c] = r]
       /\ log' = IF r = "ok" THEN Append(log, c) ELSE log
  /\ returned' = returned \cup {c}
  /\ UNCHANGED waiting

Return(c) ==
  /\ outcome[c] \in Outcomes /\ c \notin returned
  /\ returned' = returned \cup {c}
  /\ UNCHANGED <<waiting, outcome, log>>

Next ==
  \/ DecideSome
  \/ \E c \in Calls : Invoke(c) \/ DecideAlone(c) \/ Return(c)

Safe == Init /\ [][Next]_vars

Live == WF_vars(DecideSome) /\ \A c \in Calls : WF_vars(Return(c))

Spec == Safe /\ Live
=============================================================================
