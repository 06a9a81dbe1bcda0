------------------------------ MODULE JobSystem ------------------------------
(***************************************************************************)
(* The API server and the workers around one Redis: the job system that    *)
(* docker-compose.yml and the supervisor start.  The two sides share       *)
(* nothing but the store.                                                  *)
(***************************************************************************)
EXTENDS ApiServer, WorkerLoop

vars == <<storeVars, apiVars, workerVars>>

Init == StoreInit /\ ApiInit /\ WorkerInit

Next ==
  \/ ApiNext /\ UNCHANGED workerVars
  \/ WorkerNext /\ UNCHANGED apiVars

Spec == Init /\ [][Next]_vars

\* A live worker keeps going round its loop (BLMOVE with timeout 0 returns
\* once there is a job, main_generate() ends) and a dead one is started again; a
\* handler is scheduled until it has answered.  Requests need not arrive and
\* nothing need fail.
Fairness ==
  /\ \A w \in Workers : WF_vars(WorkerStep(w) /\ UNCHANGED apiVars)
  /\ \A h \in Handlers : WF_vars(Serve(h) /\ UNCHANGED workerVars)

FairSpec == Spec /\ Fairness

-----------------------------------------------------------------------------
TypeOK == StoreTypeOK /\ ApiTypeOK /\ WorkerTypeOK

\* What an EXEC writes becomes visible at once: an id never stands in a list
\* without its hash, so /status and the scans never meet a missing hash.
ListedHasHash == \A j \in Listed : status[j] # "absent"

\* RPUSH and BLMOVE keep each job in at most one place: once in the pending
\* list, or once in the processing list, never in both (unless the EXEC that
\* queued it was applied twice).
AtMostOnce(q, j) == \A m, n \in DOMAIN q : q[m] = j /\ q[n] = j => m = n
ListedOnce ==
  \A j \in Jobs \ twice :
    /\ AtMostOnce(queue, j)
    /\ processing[j] <= 1
    /\ j \notin Range(queue) \intersect InProcessing

\* No two workers ever run the same job, whatever crashes, restarts and lost
\* replies there are, unless the EXEC that queued it was applied twice.
ExclusiveClaim ==
  \A v, w \in Workers :
    held[v] = held[w] /\ held[v] # NoJob => v = w \/ held[v] \in twice

\* A job that is still to be done can be found in one of the two lists:
\* complete_job removes an entry only after the final status is written.  Of
\* a job that was queued twice the first worker to finish removes every entry.
ActiveIsListed == ActiveJobs \ twice \subseteq Listed

\* What makes these inductive: nothing is known of ids not handed out yet, a
\* retry is of jobs that exist, a worker's job is in the processing list,
\* pending jobs are untouched, and a job is removed only after its last status.
FreshIsUnknown ==
  \A j \in Jobs : j > created => status[j] = "absent" /\ j \notin Listed /\ j \notin twice
RetriedIsKnown ==
  \A h \in Handlers : At(h, "retryEnqueue") => req[h].base + req[h].count <= created
HeldIsProcessing ==
  \A w \in Workers : held[w] # NoJob => held[w] \in InProcessing \union twice
PendingIsQueued == \A j \in Range(queue) \ twice : status[j] = "queued"
CleanupIsTerminal ==
  \A w \in Workers :
    WorkerAt(w, "cleanup") => status[held[w]] \in Terminal \/ held[w] \in twice

\* The bookkeeping of the two lists and the hashes, as one inductive invariant.
Accounting ==
  /\ FreshIsUnknown
  /\ RetriedIsKnown
  /\ ListedOnce
  /\ ListedHasHash
  /\ PendingIsQueued
  /\ ActiveIsListed
  /\ HeldIsProcessing
  /\ ExclusiveClaim
  /\ CleanupIsTerminal

\* Where a worker stands tells the status of its job: the worker's program and the
\* hash never disagree, as long as no EXEC is applied twice and no worker misses
\* the answer to its "complete" (it then goes on to write "failed").
PhaseMatchesStatus ==
  \A w \in Workers :
    /\ WorkerAt(w, "claimed") => status[held[w]] = "queued"
    /\ wpc[w] \in {"generating", "generated", "failing"} => status[held[w]] = "running"
    /\ WorkerAt(w, "cleanup") => status[held[w]] \in Terminal

\* Nobody gives back the job of a worker that died, or of a pop whose reply
\* was lost; such a job stays "queued" or "running" for good.  Every failure
\* strands at most one.
Stranded == {j \in ActiveJobs : j \notin Range(queue) /\ \A w \in Workers : held[w] # j}
StrandedBound == Cardinality(Stranded) <= crashes + faults

\* One failure, even a lost EXEC reply that queues a job twice and lets two
\* workers run it, never makes an unfinished job vanish: it is listed or some
\* worker still holds it.
SingleFailureSafe ==
  crashes + faults <= 1 =>
    \A j \in ActiveJobs : j \in Listed \/ \E w \in Workers : held[w] = j

\* A scan that met no error never overlooks a job that was pending when the request
\* came in and still is: POST /generate does not create a job beside it, and
\* GET /active_job lists it.
ScanSeesPending ==
  \A h \in Handlers :
    LET r == req[h]
        waiting == r.before \intersect Range(queue) IN
    faults = 0 =>
      /\ r.code = "created" /\ r.count = 1 => waiting = {}
      /\ r.code = "listed" => waiting \subseteq r.answer

\* With the hash unreadable, /status looks into the pending and then into the
\* processing list, the way jobs move: as long as this is the only failure,
\* a job that was active when the request came in and is active when it is
\* answered is not reported as unknown.
ActiveIsFound ==
  \A h \in Handlers :
    LET r == req[h] IN
    r.code = "notFound" /\ faults <= 1 => r.job \notin r.before \intersect ActiveJobs

\* A worker's last word on a job is final: no later write of any worker or of
\* the API changes a complete or failed status, as long as no EXEC is applied
\* twice and no worker misses the answer to its "complete".
TerminalIsFinal ==
  [][\A j \in Jobs : status[j] \in Terminal => status'[j] = status[j]]_vars

\* An active job is finished or stranded, with crashes and Redis errors in between,
\* unless yet another job is submitted before that.  The code promises no more: the
\* workers pop the end that POST /generate pushes on, so every later submission
\* may be served first, and under a steady stream the oldest job never is.
SettlesUnlessMoreCome ==
  \A j \in Jobs : \A n \in 0 .. MaxJobs :
    (status[j] \in ActiveStatuses /\ created = n)
      ~> (status[j] \in Terminal \/ j \in Stranded \/ created > n)

-----------------------------------------------------------------------------
(* The job service the system implements.                                  *)

lifecycle ==
  [j \in Jobs |-> IF status[j] = "queued"
                   THEN IF j \in Range(queue) THEN "pending" ELSE "claimed"
                   ELSE status[j]]

Service == INSTANCE JobLifecycle WITH state <- lifecycle, owner <- held

\* The queue, the processing list and the hashes together behave like the
\* service: every job is handed out at most once and its outcome is final, as
\* long as no EXEC is applied twice and no worker misses the answer to its
\* "complete".
ImplementsLifecycle == Service!Spec
=============================================================================
