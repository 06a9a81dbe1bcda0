----------------------------- MODULE RedisStore -----------------------------
(***************************************************************************)
(* The Redis state shared by the API server and the workers, and the       *)
(* commands of redis_queue.py that change it.                              *)
(*                                                                         *)
(*   queue       the list shortz_jobs: new jobs are RPUSHed on its right   *)
(*   processing  the list shortz_processing, as the number of times each   *)
(*               job occurs in it (its order is only ever used to pick     *)
(*               which of several active jobs is looked at first)          *)
(*   status      the "status" field of the hash job:{id}; "absent" is a    *)
(*               hash that does not exist                                  *)
(*   created     how many jobs exist; uuid4() is modelled by the next      *)
(*               number, so that job ids also record the submission order  *)
(*   faults      Redis errors met so far, bounded by MaxFaults             *)
(*                                                                         *)
(* The client retries a command once after a connection error              *)
(* (retry_on_error of the pools), so an error that reaches the callers is  *)
(* one of two kinds: the server stayed unreachable and nothing happened,   *)
(* or a command was applied and its reply lost.  The second kind happens   *)
(* only to the command families listed in Lossy.                           *)
(***************************************************************************)
EXTENDS Integers, Sequences, FiniteSets, Functions

CONSTANTS
  MaxJobs,    \* bound on the jobs ever created
  MaxFaults,  \* bound on the Redis errors
  Lossy       \* commands that may be applied although their reply is lost

ASSUME MaxJobsAssumption == MaxJobs \in Nat \ {0}
ASSUME MaxFaultsAssumption == MaxFaults \in Nat
ASSUME LossyAssumption == Lossy \subseteq {"enqueue", "pop", "mark", "complete"}

VARIABLES queue, processing, status, created, faults

storeVars == <<queue, processing, status, created, faults>>

Jobs == 1 .. MaxJobs
NoJob == 0

ActiveStatuses == {"queued", "running"}
Terminal == {"complete", "failed"}
Statuses == {"absent"} \union ActiveStatuses \union Terminal

InProcessing == {j \in Jobs : processing[j] > 0}
Listed == Range(queue) \union InProcessing
ActiveJobs == {j \in Jobs : status[j] \in ActiveStatuses}

StoreInit ==
  /\ queue = << >>
  /\ processing = [j \in Jobs |-> 0]
  /\ status = [j \in Jobs |-> "absent"]
  /\ created = 0
  /\ faults = 0

-----------------------------------------------------------------------------
(* Commands.  Each says what it does to the keys it touches and nothing of *)
(* the others.                                                             *)

\* The n ids following base, in the order enqueue_batch pushes them.
FreshIds(base, n) == [i \in 1 .. n |-> base + i]

\* MULTI / HSET ... RPUSH ... / EXEC: hashes and list entries of a batch
\* appear together.
EnqueueBatch(ids) ==
  /\ status' = [j \in Jobs |-> IF j \in Range(ids) THEN "queued" ELSE status[j]]
  /\ queue' = queue \o ids

\* BLMOVE shortz_jobs shortz_processing RIGHT LEFT: the right end is the
\* end the jobs are pushed on.  It blocks while the list is empty.
NewestQueued == queue[Len(queue)]

\* Slips of the move: the job is copied (LINDEX, LPUSH), it is popped
\* without a trace (BRPOP), the last one is never taken.
MoveToProcessing_Copies ==
  /\ queue # << >>
  /\ queue' = queue
  /\ processing' = [processing EXCEPT ![NewestQueued] = @ + 1]
MoveToProcessing_Untracked ==
  /\ queue # << >>
  /\ queue' = SubSeq(queue, 1, Len(queue) - 1)
  /\ processing' = processing
MoveToProcessing_LeavesOne ==
  /\ Len(queue) > 1
  /\ queue' = SubSeq(queue, 1, Len(queue) - 1)
  /\ processing' = [processing EXCEPT ![NewestQueued] = @ + 1]

MoveToProcessing ==
  /\ queue # << >>
  /\ queue' = SubSeq(queue, 1, Len(queue) - 1)
  /\ processing' = [processing EXCEPT ![NewestQueued] = @ + 1]

SetStatus(j, s) == status' = [status EXCEPT ![j] = s]

\* LREM shortz_processing 0 j: every occurrence goes.
RemoveFromProcessing(j) == processing' = [processing EXCEPT ![j] = 0]

\* A Redis error; the guard bounds how many a behaviour has.
Fault ==
  /\ faults < MaxFaults
  /\ faults' = faults + 1

\* The server answers no attempt of a command: nothing is applied.
Unreachable ==
  /\ Fault
  /\ UNCHANGED <<queue, processing, status, created>>

\* A command of family c is applied and the caller still sees an error.
ReplyLost(c) == c \in Lossy /\ Fault

-----------------------------------------------------------------------------
StoreTypeOK ==
  /\ queue \in Seq(Jobs)
  /\ processing \in [Jobs -> Nat]
  /\ status \in [Jobs -> Statuses]
  /\ created \in 0 .. MaxJobs
  /\ faults \in 0 .. MaxFaults
=============================================================================
