----------------------------- MODULE WorkerLoop -----------------------------
(***************************************************************************)
(* worker_loop() of worker.py, one process per worker container: connect,  *)
(* ping, pop a job, mark it running, call Shortz.main_generate(), mark it  *)
(* complete or failed, remove it from the processing list.                 *)
(*                                                                         *)
(*   wpc[w]    where worker w is in the loop; "down" is a dead process     *)
(*   held[w]   its local variable job_id, NoJob outside the body           *)
(*   crashes   deaths of worker processes not caused by a Redis error      *)
(***************************************************************************)
EXTENDS RedisStore

CONSTANTS
  Workers,
  MaxCrashes   \* bound on the worker deaths

ASSUME WorkersAssumption == IsFiniteSet(Workers)
ASSUME MaxCrashesAssumption == MaxCrashes \in Nat

VARIABLES wpc, held, crashes

workerVars == <<wpc, held, crashes>>

BodyPcs == {"claimed", "generating", "generated", "failing", "cleanup"}
WorkerPcs == {"down", "starting", "ping", "pop"} \union BodyPcs

WorkerInit ==
  /\ wpc = [w \in Workers |-> "starting"]
  /\ held = [w \in Workers |-> NoJob]
  /\ crashes = 0

WorkerAt(w, p) == wpc[w] = p
Goto(w, p) == wpc' = [wpc EXCEPT ![w] = p]

\* A slip: the state of the dead process is taken over by the next one.
Die_KeepsJob(w) == Goto(w, "down") /\ UNCHANGED held
Die(w) == Goto(w, "down") /\ held' = [held EXCEPT ![w] = NoJob]

-----------------------------------------------------------------------------
(* Outside the body of the loop.                                           *)

\* _get_healthy_redis(120) succeeds, or gives up and the process exits.
Connect(w) ==
  /\ WorkerAt(w, "starting")
  /\ Goto(w, "ping")
  /\ UNCHANGED <<held, crashes, storeVars>>

ConnectGivesUp(w) ==
  /\ WorkerAt(w, "starting")
  /\ Unreachable
  /\ Die(w)
  /\ UNCHANGED crashes

\* r.ping() succeeds; when it fails the worker waits and tries again.
Ping(w) ==
  /\ WorkerAt(w, "ping")
  /\ Goto(w, "pop")
  /\ UNCHANGED <<held, crashes, storeVars>>

PingFails(w) ==
  /\ WorkerAt(w, "ping")
  /\ Unreachable
  /\ UNCHANGED workerVars

Pop(w) ==
  /\ WorkerAt(w, "pop")
  /\ MoveToProcessing
  /\ held' = [held EXCEPT ![w] = NewestQueued]
  /\ Goto(w, "claimed")
  /\ UNCHANGED <<status, created, faults, crashes>>

\* dequeue_job swallows the error and returns None.
PopUnreachable(w) ==
  /\ WorkerAt(w, "pop")
  /\ Unreachable
  /\ Goto(w, "ping")
  /\ UNCHANGED <<held, crashes>>

\* The move happened but no worker knows the job: the client pops again, or
\* fails again and dequeue_job returns None.
PopReplyLost(w) ==
  /\ WorkerAt(w, "pop")
  /\ ReplyLost("pop")
  /\ MoveToProcessing
  /\ Goto(w, "pop") \/ Goto(w, "ping")
  /\ UNCHANGED <<status, created, held, crashes>>

-----------------------------------------------------------------------------
(* The body: set_job_status(running) stands before the try statement.      *)

SetRunning(w) ==
  /\ WorkerAt(w, "claimed")
  /\ SetStatus(held[w], "running")
  /\ Goto(w, "generating")
  /\ UNCHANGED <<queue, processing, created, faults, held, crashes>>

\* An error of a status write outside the try (of "running", and of "failed" in
\* the handler) leaves worker_loop: the process ends, its job stays listed.
MarkUnreachable(w) ==
  /\ WorkerAt(w, "claimed") \/ WorkerAt(w, "failing")
  /\ Unreachable
  /\ Die(w)
  /\ UNCHANGED crashes

MarkReplyLost(w) ==
  /\ \/ WorkerAt(w, "claimed") /\ SetStatus(held[w], "running")
     \/ WorkerAt(w, "failing") /\ SetStatus(held[w], "failed")
  /\ ReplyLost("mark")
  /\ Die(w)
  /\ UNCHANGED <<queue, processing, created, crashes>>

\* main_generate() catches what goes wrong per script, so it mostly returns;
\* some errors still escape it.
GenerateReturns(w) ==
  /\ WorkerAt(w, "generating")
  /\ Goto(w, "generated")
  /\ UNCHANGED <<held, crashes, storeVars>>

\* A slip: the except clause goes on with the next job at once.
GenerateRaises_Unmarked(w) ==
  /\ WorkerAt(w, "generating")
  /\ Goto(w, "ping")
  /\ held' = [held EXCEPT ![w] = NoJob]
  /\ UNCHANGED <<crashes, storeVars>>

GenerateRaises(w) ==
  /\ WorkerAt(w, "generating")
  /\ Goto(w, "failing")
  /\ UNCHANGED <<held, crashes, storeVars>>

SetComplete(w) ==
  /\ WorkerAt(w, "generated")
  /\ SetStatus(held[w], "complete")
  /\ Goto(w, "cleanup")
  /\ UNCHANGED <<queue, processing, created, faults, held, crashes>>

\* Inside the try: an error of this write is handled as a failed job.
SetCompleteUnreachable(w) ==
  /\ WorkerAt(w, "generated")
  /\ Unreachable
  /\ Goto(w, "failing")
  /\ UNCHANGED <<held, crashes>>

SetCompleteReplyLost(w) ==
  /\ WorkerAt(w, "generated")
  /\ ReplyLost("complete")
  /\ SetStatus(held[w], "complete")
  /\ Goto(w, "failing")
  /\ UNCHANGED <<queue, processing, created, held, crashes>>

SetFailed(w) ==
  /\ WorkerAt(w, "failing")
  /\ SetStatus(held[w], "failed")
  /\ Goto(w, "cleanup")
  /\ UNCHANGED <<queue, processing, created, faults, held, crashes>>

EndBody(w) == Goto(w, "ping") /\ held' = [held EXCEPT ![w] = NoJob]

CompleteJob(w) ==
  /\ WorkerAt(w, "cleanup")
  /\ RemoveFromProcessing(held[w])
  /\ EndBody(w)
  /\ UNCHANGED <<queue, status, created, faults, crashes>>

\* complete_job swallows the error: the entry may stay for good.
CompleteJobUnreachable(w) ==
  /\ WorkerAt(w, "cleanup")
  /\ Unreachable
  /\ EndBody(w)
  /\ UNCHANGED crashes

-----------------------------------------------------------------------------
\* The process dies anywhere (killed, out of memory); nothing gives its job
\* back.  The supervisor or the container runtime starts it again.
Crash(w) ==
  /\ ~WorkerAt(w, "down")
  /\ crashes < MaxCrashes
  /\ crashes' = crashes + 1
  /\ Die(w)
  /\ UNCHANGED <<storeVars>>

Restart(w) ==
  /\ WorkerAt(w, "down")
  /\ Goto(w, "starting")
  /\ UNCHANGED <<held, crashes, storeVars>>

\* What a worker does when Redis answers and it is not killed.
WorkerStep(w) ==
  \/ Connect(w) \/ Ping(w) \/ Pop(w) \/ SetRunning(w)
  \/ GenerateReturns(w) \/ GenerateRaises(w)
  \/ SetComplete(w) \/ SetFailed(w) \/ CompleteJob(w)
  \/ Restart(w)

WorkerFault(w) ==
  \/ ConnectGivesUp(w) \/ PingFails(w) \/ PopUnreachable(w) \/ PopReplyLost(w)
  \/ MarkUnreachable(w) \/ MarkReplyLost(w)
  \/ SetCompleteUnreachable(w) \/ SetCompleteReplyLost(w)
  \/ CompleteJobUnreachable(w)
  \/ Crash(w)

WorkerNext == \E w \in Workers : WorkerStep(w) \/ WorkerFault(w)

WorkerTypeOK ==
  /\ wpc \in [Workers -> WorkerPcs]
  /\ held \in [Workers -> Jobs \union {NoJob}]
  /\ \A w \in Workers : held[w] # NoJob <=> wpc[w] \in BodyPcs
  /\ crashes \in 0 .. MaxCrashes
=============================================================================
