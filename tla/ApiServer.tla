------------------------------ MODULE ApiServer ------------------------------
(***************************************************************************)
(* The request handlers of api_server.py.  Every blocking Redis call is    *)
(* awaited in a thread (asyncio.to_thread), so handlers of concurrent      *)
(* requests interleave between any two Redis commands; one action below    *)
(* is one command and the code around it.                                  *)
(*                                                                         *)
(* req[h] is the request handler h works on:                               *)
(*   pc      the Redis command the handler issues next                     *)
(*   op      the endpoint: "generate", "active_job" or "status"            *)
(*   count   body.count of POST /generate                                  *)
(*   base    the jobs of an enqueue being retried are base+1 .. base+count *)
(*   job     the id of GET /status/{job_id}                                *)
(*   todo    ids of the last LRANGE whose hash is still to be read         *)
(*   seen    ids find_all_active_jobs already looked at                    *)
(*   answer  the jobs of the response                                      *)
(*   code    how the request ended ("none" while it is served)             *)
(*   before  the jobs active when the request began (history, read by      *)
(*           properties only)                                              *)
(***************************************************************************)
EXTENDS RedisStore

CONSTANTS
  Handlers,        \* concurrent requests
  Ops,             \* endpoints the clients of this instance use
  MaxBatch,        \* MAX_BATCH_SIZE
  MaxApiRestarts   \* bound on restarts of the API process

ASSUME HandlersAssumption == IsFiniteSet(Handlers)
ASSUME OpsAssumption == Ops \subseteq {"generate", "active_job", "status"}
ASSUME MaxBatchAssumption == MaxBatch \in Nat \ {0}
ASSUME MaxApiRestartsAssumption == MaxApiRestarts \in Nat

VARIABLES
  req,
  reserved,     \* jobs created or promised to a POST in flight: keeps the
                \* requests within MaxJobs, nothing of the program
  apiRestarts,
  twice         \* jobs queued by an EXEC that was applied twice (history, read
                \* by properties only)

apiVars == <<req, reserved, apiRestarts, twice>>

NoRequest ==
  [pc |-> "idle", op |-> "none", count |-> 0, base |-> 0, job |-> NoJob,
   todo |-> {}, seen |-> {}, answer |-> {}, code |-> "none", before |-> {}]

ApiInit ==
  /\ req = [h \in Handlers |-> NoRequest]
  /\ reserved = 0
  /\ apiRestarts = 0
  /\ twice = {}

At(h, p) == req[h].pc = p

\* The response leaves the handler; what it served is forgotten.
Respond(h, code, answer) ==
  req' = [req EXCEPT ![h] =
    [pc |-> "idle", op |-> req[h].op, count |-> req[h].count, base |-> 0,
     job |-> req[h].job, todo |-> {}, seen |-> {}, answer |-> answer,
     code |-> code, before |-> req[h].before]]

Begin(h, op, count, job, pc) ==
  /\ At(h, "idle")
  /\ op \in Ops
  /\ req' = [req EXCEPT ![h] =
       [pc |-> pc, op |-> op, count |-> count, base |-> 0, job |-> job,
        todo |-> {}, seen |-> {}, answer |-> {}, code |-> "none",
        before |-> ActiveJobs]]
  /\ UNCHANGED <<apiRestarts, twice, storeVars>>

-----------------------------------------------------------------------------
(* POST /generate: pydantic lets 1 .. MAX_BATCH_SIZE through; only a       *)
(* single job goes through the duplicate check.                            *)
BeginGenerate(h) == \E n \in 1 .. MaxBatch :
  /\ reserved + n <= MaxJobs
  /\ reserved' = reserved + n
  /\ Begin(h, "generate", n, NoJob, IF n = 1 THEN "lrangeProcessing" ELSE "enqueue")

BeginActiveJob(h) ==
  /\ Begin(h, "active_job", 0, NoJob, "lrangeProcessing")
  /\ UNCHANGED reserved

BeginStatus(h) == \E j \in Jobs :
  /\ Begin(h, "status", 0, j, "hgetall")
  /\ UNCHANGED reserved

-----------------------------------------------------------------------------
(* find_active_job and find_all_active_jobs walk the processing list and   *)
(* then the pending one: LRANGE, then one HGETALL per id of that snapshot. *)
(* The first stops at an active job, the second collects all of them.      *)

ListProcessing(h) ==
  /\ At(h, "lrangeProcessing")
  /\ req' = [req EXCEPT ![h].pc = "checkProcessing", ![h].todo = InProcessing]
  /\ UNCHANGED <<reserved, apiRestarts, twice, storeVars>>

\* A slip: the same list is read twice.
ListQueue_ReadsProcessing(h) ==
  /\ At(h, "checkProcessing") /\ req[h].todo = {}
  /\ req' = [req EXCEPT ![h].pc = "checkQueue",
                        ![h].todo = InProcessing \ req[h].seen]
  /\ UNCHANGED <<reserved, apiRestarts, twice, storeVars>>

ListQueue(h) ==
  /\ At(h, "checkProcessing") /\ req[h].todo = {}
  /\ req' = [req EXCEPT ![h].pc = "checkQueue",
                        ![h].todo = Range(queue) \ req[h].seen]
  /\ UNCHANGED <<reserved, apiRestarts, twice, storeVars>>

\* A listed job is taken for active when its status is, or when its hash
\* could not be read: a Redis error in get_job_status looks like a missing
\* hash and yields the "queued" placeholder.
UseJob(h, j) ==
  IF req[h].op = "generate"
    THEN /\ Respond(h, "reused", {j})
         /\ reserved' = reserved - req[h].count
    ELSE /\ req' = [req EXCEPT ![h].todo = @ \ {j}, ![h].seen = @ \union {j},
                               ![h].answer = @ \union {j}]
         /\ UNCHANGED reserved

SkipJob(h, j) ==
  /\ req' = [req EXCEPT ![h].todo = @ \ {j},
               ![h].seen = IF req[h].op = "active_job" THEN @ \union {j} ELSE @]
  /\ UNCHANGED reserved

CheckJob(h) == \E j \in req[h].todo :
  /\ At(h, "checkProcessing") \/ At(h, "checkQueue")
  /\ IF status[j] \in ActiveStatuses \union {"absent"} THEN UseJob(h, j)
                                                       ELSE SkipJob(h, j)
  /\ UNCHANGED <<apiRestarts, twice, storeVars>>

CheckJobUnreadable(h) == \E j \in req[h].todo :
  /\ At(h, "checkProcessing") \/ At(h, "checkQueue")
  /\ Unreachable
  /\ UseJob(h, j)
  /\ UNCHANGED <<apiRestarts, twice>>

\* The scan is over (or was cut short): with nothing found a single POST goes on to
\* create its job, GET /active_job answers what it has.
AfterScan(h) ==
  IF req[h].op = "generate"
    THEN req' = [req EXCEPT ![h].pc = "enqueue", ![h].todo = {}]
    ELSE Respond(h, "listed", req[h].answer)

EndScan(h) ==
  /\ At(h, "checkQueue") /\ req[h].todo = {}
  /\ AfterScan(h)
  /\ UNCHANGED <<reserved, apiRestarts, twice, storeVars>>

\* An LRANGE fails: both functions swallow the error.
ScanFails(h) ==
  /\ At(h, "lrangeProcessing") \/ (At(h, "checkProcessing") /\ req[h].todo = {})
  /\ Unreachable
  /\ AfterScan(h)
  /\ UNCHANGED <<reserved, apiRestarts, twice>>

-----------------------------------------------------------------------------
(* enqueue_job / enqueue_batch and the answer of POST /generate.           *)

\* The bound never stops a request: BeginGenerate reserved its jobs.
Enqueue(h) == LET n == req[h].count IN
  /\ At(h, "enqueue")
  /\ created + n <= MaxJobs
  /\ EnqueueBatch(FreshIds(created, n))
  /\ created' = created + n
  /\ Respond(h, "created", created + 1 .. created + n)
  /\ UNCHANGED <<processing, faults, reserved, apiRestarts, twice>>

EnqueueUnreachable(h) ==
  /\ At(h, "enqueue")
  /\ Unreachable
  /\ Respond(h, "unavailable", {})
  /\ reserved' = reserved - req[h].count
  /\ UNCHANGED <<apiRestarts, twice>>

\* The EXEC is applied but its reply is lost: the client sends it again.
EnqueueReplyLost(h) == LET n == req[h].count IN
  /\ At(h, "enqueue")
  /\ created + n <= MaxJobs
  /\ ReplyLost("enqueue")
  /\ EnqueueBatch(FreshIds(created, n))
  /\ created' = created + n
  /\ req' = [req EXCEPT ![h].pc = "retryEnqueue", ![h].base = created]
  /\ UNCHANGED <<processing, reserved, apiRestarts, twice>>

RetryEnqueue(h) == LET n == req[h].count IN
  /\ At(h, "retryEnqueue")
  /\ EnqueueBatch(FreshIds(req[h].base, n))
  /\ Respond(h, "created", req[h].base + 1 .. req[h].base + n)
  /\ twice' = twice \union (req[h].base + 1 .. req[h].base + n)
  /\ UNCHANGED <<processing, created, faults, reserved, apiRestarts>>

\* The retry fails as well: 503, although the jobs exist.
RetryUnreachable(h) ==
  /\ At(h, "retryEnqueue")
  /\ Unreachable
  /\ Respond(h, "unavailable", {})
  /\ UNCHANGED <<reserved, apiRestarts, twice>>

-----------------------------------------------------------------------------
(* GET /status/{job_id}: the hash, and if there is none the two lists.     *)

ReadStatus(h) == LET s == status[req[h].job] IN
  /\ At(h, "hgetall")
  /\ IF s # "absent" THEN Respond(h, s, {req[h].job})
                     ELSE req' = [req EXCEPT ![h].pc = "lposQueue"]
  /\ UNCHANGED <<reserved, apiRestarts, twice, storeVars>>

\* A slip: the processing list is not looked at.
FindInQueue_ThenGivesUp(h) ==
  /\ At(h, "lposQueue")
  /\ IF req[h].job \in Range(queue) THEN Respond(h, "queued", {req[h].job})
                                    ELSE Respond(h, "notFound", {})
  /\ UNCHANGED <<reserved, apiRestarts, twice, storeVars>>

FindInQueue(h) ==
  /\ At(h, "lposQueue")
  /\ IF req[h].job \in Range(queue)
       THEN Respond(h, "queued", {req[h].job})
       ELSE req' = [req EXCEPT ![h].pc = "lposProcessing"]
  /\ UNCHANGED <<reserved, apiRestarts, twice, storeVars>>

FindInProcessing(h) ==
  /\ At(h, "lposProcessing")
  /\ IF req[h].job \in InProcessing THEN Respond(h, "queued", {req[h].job})
                                    ELSE Respond(h, "notFound", {})
  /\ UNCHANGED <<reserved, apiRestarts, twice, storeVars>>

\* get_job_status and is_job_in_queue turn an error into "not there", and
\* the handler's own except clause falls through to the 404.
StatusUnreachable(h) ==
  /\ Unreachable
  /\ \/ At(h, "hgetall") /\ req' = [req EXCEPT ![h].pc = "lposQueue"]
     \/ At(h, "lposQueue") /\ req' = [req EXCEPT ![h].pc = "lposProcessing"]
     \/ At(h, "lposProcessing") /\ Respond(h, "notFound", {})
  /\ UNCHANGED <<reserved, apiRestarts, twice>>

-----------------------------------------------------------------------------
\* The API process dies and is started again: its requests are gone, what
\* they wrote to Redis stays.
ApiRestart ==
  /\ apiRestarts < MaxApiRestarts
  /\ apiRestarts' = apiRestarts + 1
  /\ req' = [h \in Handlers |-> NoRequest]
  /\ reserved' = created
  /\ UNCHANGED <<twice, storeVars>>

\* What a handler does when Redis answers.
Serve(h) ==
  \/ ListProcessing(h) \/ ListQueue(h) \/ CheckJob(h) \/ EndScan(h)
  \/ Enqueue(h) \/ RetryEnqueue(h)
  \/ ReadStatus(h) \/ FindInQueue(h) \/ FindInProcessing(h)

Arrive(h) == BeginGenerate(h) \/ BeginActiveJob(h) \/ BeginStatus(h)

HandlerFault(h) ==
  \/ CheckJobUnreadable(h) \/ ScanFails(h)
  \/ EnqueueUnreachable(h) \/ EnqueueReplyLost(h) \/ RetryUnreachable(h)
  \/ StatusUnreachable(h)

ApiNext == ApiRestart \/ \E h \in Handlers : Arrive(h) \/ Serve(h) \/ HandlerFault(h)

ServingPcs == {"lrangeProcessing", "checkProcessing", "checkQueue", "enqueue",
               "retryEnqueue", "hgetall", "lposQueue", "lposProcessing"}
Codes == Statuses \union {"none", "reused", "created", "unavailable", "listed", "notFound"}

Requests ==
  [pc : ServingPcs \union {"idle"}, op : {"none", "generate", "active_job", "status"},
   count : 0 .. MaxBatch, base : 0 .. MaxJobs, job : Jobs \union {NoJob},
   todo : SUBSET Jobs, seen : SUBSET Jobs, answer : SUBSET Jobs,
   code : Codes, before : SUBSET Jobs]

ApiTypeOK ==
  /\ req \in [Handlers -> Requests]
  /\ \A h \in Handlers : At(h, "retryEnqueue") => req[h].base + req[h].count <= MaxJobs
  /\ \A h \in Handlers : req[h].pc \in {"hgetall", "lposQueue", "lposProcessing"}
                           => req[h].job \in Jobs
  /\ reserved \in Int
  /\ apiRestarts \in 0 .. MaxApiRestarts
  /\ twice \subseteq Jobs
=============================================================================
