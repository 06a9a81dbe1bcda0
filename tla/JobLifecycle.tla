---------------------------- MODULE JobLifecycle ----------------------------
(***************************************************************************)
(* What the job service promises, without queues, lists or Redis: a job    *)
(* is submitted once, handed out at most once, and its outcome is final.   *)
(*                                                                         *)
(*   state[j]  "absent", "pending" (waiting to be handed out), "claimed"   *)
(*             (handed out, not begun), "running", "complete" or "failed"  *)
(*   owner[w]  the job worker w has in hand, NoJob when none               *)
(***************************************************************************)
CONSTANTS Jobs, Workers, NoJob

VARIABLES state, owner

vars == <<state, owner>>

Init ==
  /\ state = [j \in Jobs |-> "absent"]
  /\ owner = [w \in Workers |-> NoJob]

Submit(S) ==
  /\ \A j \in S : state[j] = "absent"
  /\ state' = [j \in Jobs |-> IF j \in S THEN "pending" ELSE state[j]]
  /\ UNCHANGED owner

Claim(w, j) ==
  /\ owner[w] = NoJob
  /\ state[j] = "pending"
  /\ state' = [state EXCEPT ![j] = "claimed"]
  /\ owner' = [owner EXCEPT ![w] = j]

\* A job is handed out but reaches nobody; it is never handed out again.
Lose(j) ==
  /\ state[j] = "pending"
  /\ state' = [state EXCEPT ![j] = "claimed"]
  /\ UNCHANGED owner

\* A worker may be gone once it has spoken: its write is applied, it never hears so.
StaysOrDies(w) == owner' \in {owner, [owner EXCEPT ![w] = NoJob]}

Start(w) ==
  /\ owner[w] # NoJob
  /\ state[owner[w]] = "claimed"
  /\ state' = [state EXCEPT ![owner[w]] = "running"]
  /\ StaysOrDies(w)

Finish(w) ==
  /\ owner[w] # NoJob
  /\ state[owner[w]] = "running"
  /\ \E outcome \in {"complete", "failed"} :
       state' = [state EXCEPT ![owner[w]] = outcome]
  /\ StaysOrDies(w)

\* The worker is done with its job, or dies with it.
Release(w) ==
  /\ owner[w] # NoJob
  /\ owner' = [owner EXCEPT ![w] = NoJob]
  /\ UNCHANGED state

Next ==
  \/ \E S \in SUBSET Jobs : Submit(S)
  \/ \E j \in Jobs : Lose(j)
  \/ \E w \in Workers, j \in Jobs : Claim(w, j)
  \/ \E w \in Workers : Start(w) \/ Finish(w) \/ Release(w)

Spec == Init /\ [][Next]_vars
=============================================================================
