--------------------------- MODULE JobSafetyProofs ---------------------------
(***************************************************************************)
(* What the job system keeps true for every number of jobs, handlers and   *)
(* workers, whichever commands lose their replies.  The bookkeeping of the *)
(* lists, the hashes and the holders is right with any crashes, restarts   *)
(* and Redis errors, save for the jobs of an EXEC that was applied twice;  *)
(* every failure strands at most one job, one failure loses none, and the  *)
(* scans and lookups of the API overlook none that stays pending.          *)
(***************************************************************************)
EXTENDS JobSystemProofs, FiniteSetTheorems

USE DEF Goto, WorkerAt, At, NoJob

LEMMA InitAccounting == Init => Accounting
<1> SUFFICES ASSUME Init PROVE Accounting
  OBVIOUS
<1>1. /\ queue = << >> /\ Range(queue) = {} /\ InProcessing = {} /\ Listed = {}
      /\ ActiveJobs = {} /\ twice = {}
  BY DEF Init, StoreInit, ApiInit, Range, InProcessing, Listed, ActiveJobs, ActiveStatuses
<1>2. RetriedIsKnown
  BY DEF Init, ApiInit, NoRequest, RetriedIsKnown
<1>3. FreshIsUnknown /\ ListedHasHash /\ PendingIsQueued /\ ActiveIsListed
  BY <1>1 DEF Init, StoreInit, FreshIsUnknown, ListedHasHash, PendingIsQueued, ActiveIsListed
<1>4. ListedOnce
  BY <1>1 DEF Init, StoreInit, ListedOnce, AtMostOnce
<1>5. HeldIsProcessing /\ ExclusiveClaim /\ CleanupIsTerminal
  BY DEF Init, WorkerInit, HeldIsProcessing, ExclusiveClaim, CleanupIsTerminal
<1> QED BY <1>2, <1>3, <1>4, <1>5 DEF Accounting

-----------------------------------------------------------------------------
(* The six ways a step can change what the invariant speaks of.            *)

\* The lists, the hashes and the holders as they are; a worker may drop its
\* job or move to a place that is not the removal.
LEMMA QuietStep ==
  ASSUME Accounting, RetriedIsKnown',
         UNCHANGED <<queue, processing, status, created, twice>>,
         \A w \in Workers : held'[w] \in {held[w], NoJob},
         \A w \in Workers : WorkerAt(w, "cleanup")' =>
            WorkerAt(w, "cleanup") /\ held'[w] = held[w]
  PROVE  Accounting'
<1>1. FreshIsUnknown' /\ ListedOnce' /\ ListedHasHash' /\ PendingIsQueued' /\ ActiveIsListed'
  BY DEF Accounting, FreshIsUnknown, ListedOnce, AtMostOnce, ListedHasHash, PendingIsQueued,
         ActiveIsListed, ActiveJobs, Listed, InProcessing
<1>2. HeldIsProcessing'
  BY DEF Accounting, HeldIsProcessing, InProcessing
<1>3. ExclusiveClaim'
  BY DEF Accounting, ExclusiveClaim
<1>4. CleanupIsTerminal'
  BY DEF Accounting, CleanupIsTerminal
<1> QED BY <1>1, <1>2, <1>3, <1>4 DEF Accounting

\* A batch is enqueued, whether or not its client hears of it.
LEMMA EnqueueStep ==
  ASSUME TypeOK, Accounting, RetriedIsKnown', NEW n \in Nat, created + n <= MaxJobs,
         EnqueueBatch(FreshIds(created, n)), created' = created + n,
         UNCHANGED <<processing, twice, workerVars>>
  PROVE  Accounting'
<1> DEFINE ids == FreshIds(created, n)
<1>0. /\ created \in Nat /\ queue \in Seq(Jobs) /\ processing \in [Jobs -> Nat]
      /\ status \in [Jobs -> Statuses] /\ Range(queue) \subseteq Jobs /\ twice \subseteq Jobs
  BY RangeOfSeq DEF TypeOK, StoreTypeOK, ApiTypeOK
<1>1. /\ ids \in Seq(Jobs) /\ Range(ids) = created + 1 .. created + n
      /\ \A j : AtMostOnce(ids, j)
  BY <1>0, FreshIdsFacts
<1>2. \A j \in Range(ids) : j \in Jobs /\ j > created /\ j <= created + n
  BY <1>0, <1>1, RangeOfSeq
<1>3. \A j \in Jobs : j \in Range(ids) => j \notin Listed /\ j \notin twice /\ status[j] = "absent"
  BY <1>2 DEF Accounting, FreshIsUnknown
<1>4. Range(queue') = Range(queue) \union Range(ids) /\ InProcessing' = InProcessing
  BY <1>0, <1>1, PushFacts DEF EnqueueBatch, InProcessing
<1>5. /\ \A j \in Jobs : status'[j] = IF j \in Range(ids) THEN "queued" ELSE status[j]
      /\ Listed' = Listed \union Range(ids)
  BY <1>4 DEF EnqueueBatch, Listed
<1>6. FreshIsUnknown'
  <2> SUFFICES ASSUME NEW j \in Jobs, j > created'
               PROVE  status'[j] = "absent" /\ j \notin Listed' /\ j \notin twice
    BY DEF FreshIsUnknown
  <2>1. j > created /\ j \notin Range(ids)
    <3>1. j \in Int
      BY DEF Jobs
    <3> QED BY <1>0, <1>2, <3>1
  <2> QED BY <1>5, <2>1 DEF Accounting, FreshIsUnknown
<1>7. ListedOnce'
  <2> SUFFICES ASSUME NEW j \in Jobs \ twice
               PROVE  /\ AtMostOnce(queue', j) /\ processing'[j] <= 1
                      /\ j \notin Range(queue') \intersect InProcessing'
    BY DEF ListedOnce, AtMostOnce
  <2>1. AtMostOnce(queue, j) /\ j \notin Range(queue) \intersect Range(ids)
    BY <1>3 DEF Accounting, ListedOnce, Listed
  <2>2. AtMostOnce(queue', j)
    BY <1>0, <1>1, <2>1, PushKeepsAtMostOnce DEF EnqueueBatch
  <2>3. j \notin Range(queue') \intersect InProcessing'
    BY <1>2, <1>3, <1>4 DEF Accounting, ListedOnce, Listed
  <2> QED BY <2>2, <2>3 DEF Accounting, ListedOnce
<1>8. Listed \subseteq Jobs
  BY <1>0 DEF Listed, InProcessing
<1>9. ListedHasHash'
  BY <1>2, <1>5, <1>8 DEF Accounting, ListedHasHash
<1>10. PendingIsQueued'
  BY <1>0, <1>2, <1>4, <1>5 DEF Accounting, PendingIsQueued
<1>11. ActiveIsListed'
  BY <1>5 DEF Accounting, ActiveIsListed, ActiveJobs
<1>12. HeldIsProcessing' /\ ExclusiveClaim'
  BY <1>4 DEF Accounting, HeldIsProcessing, ExclusiveClaim, workerVars
<1>13. CleanupIsTerminal'
  <2> SUFFICES ASSUME NEW w \in Workers, WorkerAt(w, "cleanup"), held[w] \notin twice
               PROVE  status'[held[w]] \in Terminal
    BY DEF CleanupIsTerminal, workerVars
  <2>1. held[w] \in Jobs /\ held[w] \in Listed
    BY DEF TypeOK, WorkerTypeOK, BodyPcs, Accounting, HeldIsProcessing, Listed
  <2> QED BY <1>3, <1>5, <2>1 DEF Accounting, CleanupIsTerminal
<1> QED BY <1>6, <1>7, <1>9, <1>10, <1>11, <1>12, <1>13 DEF Accounting

\* A batch that exists is enqueued again: its jobs leave what the invariant speaks of.
LEMMA ResendStep ==
  ASSUME TypeOK, Accounting, RetriedIsKnown', NEW base \in Nat, NEW n \in Nat,
         base + n <= created, EnqueueBatch(FreshIds(base, n)),
         twice' = twice \union (base + 1 .. base + n),
         UNCHANGED <<processing, created, workerVars>>
  PROVE  Accounting'
<1> DEFINE ids == FreshIds(base, n)
<1>0. /\ created \in Nat /\ created <= MaxJobs /\ queue \in Seq(Jobs)
      /\ processing \in [Jobs -> Nat] /\ status \in [Jobs -> Statuses]
      /\ Range(queue) \subseteq Jobs /\ twice \subseteq Jobs
  BY RangeOfSeq, MaxJobsAssumption DEF TypeOK, StoreTypeOK, ApiTypeOK
<1>1. base + n <= MaxJobs
  BY <1>0, MaxJobsAssumption
<1>2. /\ ids \in Seq(Jobs) /\ Range(ids) = base + 1 .. base + n
      /\ \A j : AtMostOnce(ids, j)
  BY <1>1, FreshIdsFacts
<1>3. \A j \in Range(ids) : j \in Jobs /\ j <= created /\ ~(j > created)
  BY <1>0, <1>2, RangeOfSeq
<1>4. twice' = twice \union Range(ids)
  BY <1>2
<1>5. Range(queue') = Range(queue) \union Range(ids) /\ InProcessing' = InProcessing
  BY <1>0, <1>2, PushFacts DEF EnqueueBatch, InProcessing
<1>6. /\ \A j \in Jobs : status'[j] = IF j \in Range(ids) THEN "queued" ELSE status[j]
      /\ Listed' = Listed \union Range(ids)
  BY <1>5 DEF EnqueueBatch, Listed
<1>7. FreshIsUnknown'
  BY <1>3, <1>4, <1>6 DEF Accounting, FreshIsUnknown
<1>8. ListedOnce'
  <2> SUFFICES ASSUME NEW j \in Jobs \ twice'
               PROVE  /\ AtMostOnce(queue', j) /\ processing'[j] <= 1
                      /\ j \notin Range(queue') \intersect InProcessing'
    BY DEF ListedOnce, AtMostOnce
  <2>1. j \notin twice /\ j \notin Range(ids)
    BY <1>4
  <2>2. AtMostOnce(queue', j)
    BY <1>0, <1>2, <2>1, PushKeepsAtMostOnce DEF EnqueueBatch, Accounting, ListedOnce
  <2> QED BY <1>5, <2>1, <2>2 DEF Accounting, ListedOnce
<1>9. ListedHasHash'
  <2>1. Listed \subseteq Jobs
    BY <1>0 DEF Listed, InProcessing
  <2> QED BY <1>3, <1>6, <2>1 DEF Accounting, ListedHasHash
<1>10. PendingIsQueued'
  BY <1>0, <1>4, <1>5, <1>6 DEF Accounting, PendingIsQueued
<1>11. ActiveIsListed'
  BY <1>4, <1>6 DEF Accounting, ActiveIsListed, ActiveJobs
<1>12. HeldIsProcessing' /\ ExclusiveClaim'
  BY <1>4, <1>5 DEF Accounting, HeldIsProcessing, ExclusiveClaim, workerVars
<1>13. CleanupIsTerminal'
  <2> SUFFICES ASSUME NEW w \in Workers, WorkerAt(w, "cleanup"), held[w] \notin twice'
               PROVE  status'[held[w]] \in Terminal
    BY DEF CleanupIsTerminal, workerVars
  <2>1. held[w] \in Jobs
    BY DEF TypeOK, WorkerTypeOK, BodyPcs
  <2> QED BY <1>4, <1>6, <2>1 DEF Accounting, CleanupIsTerminal
<1> QED BY <1>7, <1>8, <1>9, <1>10, <1>11, <1>12, <1>13 DEF Accounting

\* The newest job moves to the processing list, into the hands of a worker or
\* of nobody.
LEMMA MoveStep ==
  ASSUME TypeOK, Accounting, RetriedIsKnown', MoveToProcessing, NEW w \in Workers,
         held[w] = NoJob, UNCHANGED <<status, created, twice>>,
         held' = held \/ held' = [held EXCEPT ![w] = NewestQueued],
         \E p \in {"pop", "ping", "claimed"} : wpc' = [wpc EXCEPT ![w] = p]
  PROVE  Accounting'
<1> DEFINE j == NewestQueued
<1>0. /\ queue \in Seq(Jobs) /\ processing \in [Jobs -> Nat] /\ queue # << >>
      /\ wpc \in [Workers -> WorkerPcs] /\ held \in [Workers -> Jobs \union {NoJob}]
  BY DEF TypeOK, StoreTypeOK, WorkerTypeOK, MoveToProcessing
<1>1. /\ j \in Jobs
      /\ Range(queue) = Range(queue') \union {j}
      /\ \A k : AtMostOnce(queue, k) =>
           AtMostOnce(queue', k) /\ (k = j => k \notin Range(queue'))
  BY <1>0, PopFacts DEF MoveToProcessing, NewestQueued
<1>2. j \notin twice => j \notin InProcessing /\ processing[j] = 0 /\ j \notin Range(queue')
  BY <1>0, <1>1 DEF Accounting, ListedOnce, InProcessing
<1>3. /\ processing' = [processing EXCEPT ![j] = @ + 1]
      /\ InProcessing' = InProcessing \union {j}
  BY <1>0, <1>1 DEF MoveToProcessing, InProcessing
<1>4. Listed' = Listed
  BY <1>1, <1>3 DEF Listed
<1>5. FreshIsUnknown' /\ ListedHasHash' /\ PendingIsQueued' /\ ActiveIsListed'
  BY <1>1, <1>4 DEF Accounting, FreshIsUnknown, ListedHasHash, PendingIsQueued,
                    ActiveIsListed, ActiveJobs
<1>6. ListedOnce'
  <2> SUFFICES ASSUME NEW k \in Jobs \ twice
               PROVE  /\ AtMostOnce(queue', k) /\ processing'[k] <= 1
                      /\ k \notin Range(queue') \intersect InProcessing'
    BY DEF ListedOnce, AtMostOnce
  <2> QED BY <1>0, <1>1, <1>2, <1>3 DEF Accounting, ListedOnce
<1>7. HeldIsProcessing' /\ ExclusiveClaim'
  BY <1>0, <1>2, <1>3 DEF Accounting, HeldIsProcessing, ExclusiveClaim
<1>8. CleanupIsTerminal'
  BY <1>0 DEF Accounting, CleanupIsTerminal
<1> QED BY <1>5, <1>6, <1>7, <1>8 DEF Accounting

\* A worker writes a status of its job.
LEMMA StatusStep ==
  ASSUME TypeOK, Accounting, RetriedIsKnown', NEW w \in Workers, wpc[w] \in BodyPcs,
         NEW s \in ActiveStatuses \union Terminal, SetStatus(held[w], s),
         UNCHANGED <<queue, processing, created, twice>>,
         held' = held \/ held' = [held EXCEPT ![w] = NoJob],
         \E p \in WorkerPcs : /\ wpc' = [wpc EXCEPT ![w] = p]
                              /\ p = "cleanup" => s \in Terminal /\ held' = held
  PROVE  Accounting'
<1> DEFINE j == held[w]
<1>0. /\ queue \in Seq(Jobs) /\ processing \in [Jobs -> Nat] /\ status \in [Jobs -> Statuses]
      /\ wpc \in [Workers -> WorkerPcs] /\ held \in [Workers -> Jobs \union {NoJob}]
      /\ j \in Jobs /\ j # NoJob
      /\ \A v \in Workers : wpc[v] = "cleanup" => held[v] \in Jobs /\ held[v] # NoJob
  BY DEF TypeOK, StoreTypeOK, WorkerTypeOK, BodyPcs, Jobs
<1>1. /\ j \in twice \/ (j \in InProcessing /\ j \in Listed /\ j \notin Range(queue))
      /\ ~(j > created)
  <2>1. j \in twice \/ (j \in InProcessing /\ j \in Listed /\ j \notin Range(queue))
    BY <1>0 DEF Accounting, HeldIsProcessing, ListedOnce, Listed
  <2> QED BY <1>0, <2>1 DEF Accounting, FreshIsUnknown
<1>2. /\ status'[j] = s /\ s # "absent"
      /\ \A k \in Jobs : k # j => status'[k] = status[k]
  BY <1>0, StatusFacts DEF SetStatus
<1>3. Listed' = Listed /\ InProcessing' = InProcessing /\ Listed \subseteq Jobs
      /\ Range(queue) \subseteq Jobs
  BY <1>0, RangeOfSeq DEF Listed, InProcessing
<1>4. FreshIsUnknown' /\ ListedHasHash' /\ PendingIsQueued'
  BY <1>1, <1>2, <1>3 DEF Accounting, FreshIsUnknown, ListedHasHash, PendingIsQueued
<1>5. ActiveIsListed'
  BY <1>1, <1>2, <1>3 DEF Accounting, ActiveIsListed, ActiveJobs
<1>6. ListedOnce'
  BY <1>3 DEF Accounting, ListedOnce, AtMostOnce
<1>7. HeldIsProcessing' /\ ExclusiveClaim'
  BY <1>0, <1>3 DEF Accounting, HeldIsProcessing, ExclusiveClaim
<1>8. CleanupIsTerminal'
  <2> SUFFICES ASSUME NEW v \in Workers, wpc'[v] = "cleanup", held'[v] \notin twice
               PROVE  status'[held'[v]] \in Terminal
    BY DEF CleanupIsTerminal
  <2>1. CASE v = w
    BY <2>1, <1>0, <1>2
  <2>2. CASE v # w
    <3>1. wpc[v] = "cleanup" /\ held'[v] = held[v]
      BY <2>2, <1>0
    <3>2. held[v] # j /\ held[v] \in Jobs
      BY <2>2, <3>1, <1>0 DEF Accounting, ExclusiveClaim
    <3> QED BY <3>1, <3>2, <1>2 DEF Accounting, CleanupIsTerminal
  <2> QED BY <2>1, <2>2
<1> QED BY <1>4, <1>5, <1>6, <1>7, <1>8 DEF Accounting

\* A worker removes its job, whose status is final, and forgets it.
LEMMA RemoveStep ==
  ASSUME TypeOK, Accounting, RetriedIsKnown', NEW w \in Workers, CompleteJob(w),
         UNCHANGED twice
  PROVE  Accounting'
<1> DEFINE j == held[w]
<1>0. /\ queue \in Seq(Jobs) /\ processing \in [Jobs -> Nat] /\ status \in [Jobs -> Statuses]
      /\ wpc \in [Workers -> WorkerPcs] /\ held \in [Workers -> Jobs \union {NoJob}]
      /\ j \in Jobs /\ j # NoJob
  BY DEF TypeOK, StoreTypeOK, WorkerTypeOK, BodyPcs, CompleteJob, Jobs
<1>1. /\ UNCHANGED <<queue, status, created>>
      /\ processing' = [processing EXCEPT ![j] = 0]
      /\ held' = [held EXCEPT ![w] = NoJob]
      /\ wpc' = [wpc EXCEPT ![w] = "ping"]
      /\ status[j] \in Terminal \/ j \in twice
  BY DEF CompleteJob, RemoveFromProcessing, EndBody, Accounting, CleanupIsTerminal
<1>2. InProcessing' = InProcessing \ {j} /\ Listed' \subseteq Listed /\ Listed \ {j} \subseteq Listed'
  BY <1>0, <1>1 DEF InProcessing, Listed
<1>3. FreshIsUnknown' /\ ListedHasHash' /\ PendingIsQueued'
  BY <1>1, <1>2 DEF Accounting, FreshIsUnknown, ListedHasHash, PendingIsQueued
<1>4. ActiveIsListed'
  BY <1>1, <1>2, StatusFacts DEF Accounting, ActiveIsListed, ActiveJobs
<1>5. ListedOnce'
  BY <1>0, <1>1, <1>2 DEF Accounting, ListedOnce, AtMostOnce
<1>6. HeldIsProcessing' /\ ExclusiveClaim'
  BY <1>0, <1>1, <1>2 DEF Accounting, HeldIsProcessing, ExclusiveClaim
<1>7. CleanupIsTerminal'
  BY <1>0, <1>1 DEF Accounting, CleanupIsTerminal
<1> QED BY <1>3, <1>4, <1>5, <1>6, <1>7 DEF Accounting

-----------------------------------------------------------------------------
(* Every step is one of them.                                              *)

\* A handler stands before a retry because it stood there, or has lost the reply.
LEMMA RetrySource ==
  ASSUME TypeOK, [Next]_vars, NEW k \in Handlers, req'[k].pc = "retryEnqueue"
  PROVE  \/ /\ req[k].pc = "retryEnqueue"
            /\ req'[k].base = req[k].base /\ req'[k].count = req[k].count
         \/ EnqueueReplyLost(k)
<1>0. req \in [Handlers -> Requests]
  BY DEF TypeOK, ApiTypeOK
<1>1. CASE req'[k] = req[k]
  BY <1>1
<1>2. ASSUME NEW h \in Handlers, NEW code, NEW answer, Respond(h, code, answer), req'[k] # req[k]
      PROVE  FALSE
  BY <1>0, <1>2 DEF Respond
<1>3. ASSUME NEW h \in Handlers, NEW j, UseJob(h, j) \/ SkipJob(h, j) \/ AfterScan(h),
             req'[k] # req[k]
      PROVE  /\ req[k].pc = "retryEnqueue"
             /\ req'[k].base = req[k].base /\ req'[k].count = req[k].count
  BY <1>0, <1>2, <1>3 DEF UseJob, SkipJob, AfterScan, Requests
<1>4. ASSUME NEW h \in Handlers, Arrive(h), req'[k] # req[k]
      PROVE  FALSE
  BY <1>0, <1>4 DEF Arrive, BeginGenerate, BeginActiveJob, BeginStatus, Begin
<1>5. ASSUME NEW h \in Handlers, Serve(h), req'[k] # req[k]
      PROVE  /\ req[k].pc = "retryEnqueue"
             /\ req'[k].base = req[k].base /\ req'[k].count = req[k].count
  <2>1. CASE ListProcessing(h) \/ ListQueue(h)
    BY <1>0, <1>5, <2>1 DEF ListProcessing, ListQueue, Requests
  <2>2. CASE CheckJob(h) \/ EndScan(h)
    BY <1>3, <1>5, <2>2 DEF CheckJob, EndScan
  <2>3. CASE Enqueue(h) \/ RetryEnqueue(h)
    BY <1>2, <1>5, <2>3 DEF Enqueue, RetryEnqueue
  <2>4. CASE ReadStatus(h) \/ FindInQueue(h) \/ FindInProcessing(h)
    BY <1>0, <1>2, <1>5, <2>4 DEF ReadStatus, FindInQueue, FindInProcessing, Requests
  <2> QED BY <1>5, <2>1, <2>2, <2>3, <2>4 DEF Serve
<1>6. ASSUME NEW h \in Handlers, HandlerFault(h), req'[k] # req[k], ~EnqueueReplyLost(k)
      PROVE  /\ req[k].pc = "retryEnqueue"
             /\ req'[k].base = req[k].base /\ req'[k].count = req[k].count
  <2>1. CASE CheckJobUnreadable(h) \/ ScanFails(h)
    BY <1>3, <1>6, <2>1 DEF CheckJobUnreadable, ScanFails
  <2>2. CASE EnqueueUnreachable(h) \/ RetryUnreachable(h)
    BY <1>2, <1>6, <2>2 DEF EnqueueUnreachable, RetryUnreachable
  <2>3. CASE EnqueueReplyLost(h)
    BY <1>0, <1>6, <2>3 DEF EnqueueReplyLost
  <2>4. CASE StatusUnreachable(h)
    BY <1>0, <1>2, <1>6, <2>4 DEF StatusUnreachable, Requests
  <2> QED BY <1>6, <2>1, <2>2, <2>3, <2>4 DEF HandlerFault
<1>7. ~ApiRestart
  BY DEF ApiRestart, NoRequest
<1>8. CASE WorkerNext /\ UNCHANGED apiVars
  BY <1>1, <1>8 DEF apiVars
<1>9. CASE UNCHANGED vars
  BY <1>1, <1>9 DEF vars, apiVars
<1> QED BY <1>1, <1>4, <1>5, <1>6, <1>7, <1>8, <1>9 DEF Next, ApiNext

\* The count of the jobs never falls.
LEMMA CreatedGrows ==
  ASSUME TypeOK, [Next]_vars
  PROVE  created \in Nat /\ created' \in Nat /\ created' >= created
<1>0. /\ created \in Nat
      /\ \A h \in Handlers : req[h].count \in Nat
  BY DEF TypeOK, StoreTypeOK, ApiTypeOK, Requests
<1>1. ASSUME NEW h \in Handlers, Arrive(h) \/ Serve(h) \/ HandlerFault(h)
      PROVE  created' = created \/ created' = created + req[h].count
  BY <1>1 DEF Arrive, BeginGenerate, BeginActiveJob, BeginStatus, Begin, Serve, ListProcessing,
       ListQueue, CheckJob, EndScan, Enqueue, RetryEnqueue, ReadStatus, FindInQueue,
       FindInProcessing, HandlerFault, CheckJobUnreadable, ScanFails, EnqueueUnreachable,
       EnqueueReplyLost, RetryUnreachable, StatusUnreachable, Unreachable, storeVars
<1>2. ASSUME NEW w \in Workers, WorkerStep(w) \/ WorkerFault(w)
      PROVE  created' = created
  BY <1>2 DEF WorkerStep, Connect, Ping, Pop, SetRunning, GenerateReturns, GenerateRaises,
       SetComplete, SetFailed, CompleteJob, Restart, WorkerFault, ConnectGivesUp, PingFails,
       PopUnreachable, PopReplyLost, MarkUnreachable, MarkReplyLost, SetCompleteUnreachable,
       SetCompleteReplyLost, CompleteJobUnreachable, Crash, Unreachable, storeVars
<1>3. CASE ApiNext
  BY <1>0, <1>1, <1>3 DEF ApiNext, ApiRestart, storeVars
<1>4. CASE WorkerNext
  BY <1>0, <1>2, <1>4 DEF WorkerNext
<1>5. CASE UNCHANGED vars
  BY <1>0, <1>5 DEF vars, storeVars
<1> QED BY <1>3, <1>4, <1>5 DEF Next

LEMMA RetriedStep ==
  ASSUME TypeOK, RetriedIsKnown, [Next]_vars
  PROVE  RetriedIsKnown'
<1> SUFFICES ASSUME NEW k \in Handlers, req'[k].pc = "retryEnqueue"
             PROVE  req'[k].base + req'[k].count <= created'
  BY DEF RetriedIsKnown
<1>0. /\ req \in [Handlers -> Requests]
      /\ req[k].base \in Nat /\ req[k].count \in Nat
  BY DEF TypeOK, ApiTypeOK, Requests
<1>1. CASE EnqueueReplyLost(k)
  BY <1>0, <1>1, CreatedGrows DEF EnqueueReplyLost, Requests
<1>2. CASE /\ req[k].pc = "retryEnqueue"
           /\ req'[k].base = req[k].base /\ req'[k].count = req[k].count
  BY <1>0, <1>2, CreatedGrows DEF RetriedIsKnown
<1> QED BY <1>1, <1>2, RetrySource

LEMMA HandlerAccounting ==
  ASSUME TypeOK, Accounting, RetriedIsKnown',
         NEW h \in Handlers, Arrive(h) \/ Serve(h) \/ HandlerFault(h), UNCHANGED workerVars
  PROVE  Accounting'
<1>0. req[h].count \in Nat /\ req[h].base \in Nat
  BY DEF TypeOK, ApiTypeOK, Requests
<1>1. CASE UNCHANGED <<queue, processing, status, created, twice>>
  BY <1>1, QuietStep DEF workerVars
<1>2. CASE Enqueue(h) \/ EnqueueReplyLost(h)
  BY <1>0, <1>2, EnqueueStep DEF Enqueue, EnqueueReplyLost
<1>3. CASE RetryEnqueue(h)
  <2>1. req[h].base + req[h].count <= created
    BY <1>3 DEF RetryEnqueue, Accounting, RetriedIsKnown
  <2> QED BY <1>0, <1>3, <2>1, ResendStep DEF RetryEnqueue
<1>4. ASSUME Arrive(h) PROVE UNCHANGED <<queue, processing, status, created, twice>>
  BY <1>4 DEF Arrive, BeginGenerate, BeginActiveJob, BeginStatus, Begin, storeVars
<1>5. ASSUME Serve(h), ~Enqueue(h), ~RetryEnqueue(h)
      PROVE  UNCHANGED <<queue, processing, status, created, twice>>
  BY <1>5 DEF Serve, ListProcessing, ListQueue, CheckJob, EndScan, ReadStatus,
              FindInQueue, FindInProcessing, storeVars
<1>6. ASSUME HandlerFault(h), ~EnqueueReplyLost(h)
      PROVE  UNCHANGED <<queue, processing, status, created, twice>>
  BY <1>6 DEF HandlerFault, CheckJobUnreadable, ScanFails, EnqueueUnreachable,
              RetryUnreachable, StatusUnreachable, Unreachable
<1> QED BY <1>1, <1>2, <1>3, <1>4, <1>5, <1>6

LEMMA WorkerAccounting ==
  ASSUME TypeOK, Accounting, RetriedIsKnown', NEW w \in Workers,
         WorkerStep(w) \/ WorkerFault(w), UNCHANGED twice
  PROVE  Accounting'
<1>0. /\ wpc \in [Workers -> WorkerPcs] /\ held \in [Workers -> Jobs \union {NoJob}]
      /\ \A v \in Workers : held[v] # NoJob <=> wpc[v] \in BodyPcs
  BY DEF TypeOK, WorkerTypeOK
<1>1. BodyPcs = {"claimed", "generating", "generated", "failing", "cleanup"}
  BY DEF BodyPcs
<1>2. ASSUME UNCHANGED <<queue, processing, status, created>>,
             held' = held \/ held' = [held EXCEPT ![w] = NoJob],
             \E p \in WorkerPcs \ {"cleanup"} : wpc' = [wpc EXCEPT ![w] = p]
      PROVE  Accounting'
  <2>1. \A v \in Workers : held'[v] \in {held[v], NoJob}
    BY <1>0, <1>2
  <2>2. \A v \in Workers : wpc'[v] = "cleanup" => wpc[v] = "cleanup" /\ held'[v] = held[v]
    BY <1>0, <1>2
  <2> QED BY <1>2, <2>1, <2>2, QuietStep
<1>3. CASE Connect(w) \/ ConnectGivesUp(w) \/ Ping(w) \/ PopUnreachable(w)
           \/ MarkUnreachable(w) \/ GenerateReturns(w) \/ GenerateRaises(w)
           \/ SetCompleteUnreachable(w) \/ CompleteJobUnreachable(w)
           \/ Crash(w) \/ Restart(w)
  BY <1>2, <1>3 DEF Connect, ConnectGivesUp, Ping, PopUnreachable, MarkUnreachable,
       GenerateReturns, GenerateRaises, SetCompleteUnreachable, CompleteJobUnreachable,
       Crash, Restart, Unreachable, storeVars, Die, EndBody, WorkerPcs, BodyPcs
<1>4. CASE PingFails(w)
  BY <1>4, QuietStep DEF PingFails, Unreachable, workerVars
<1>5. CASE Pop(w) \/ PopReplyLost(w)
  <2>1. held[w] = NoJob
    BY <1>0, <1>1, <1>5 DEF Pop, PopReplyLost
  <2> QED BY <1>5, <2>1, MoveStep DEF Pop, PopReplyLost
<1>6. CASE SetRunning(w) \/ SetComplete(w) \/ SetFailed(w)
           \/ MarkReplyLost(w) \/ SetCompleteReplyLost(w)
  <2>1. wpc[w] \in BodyPcs
    BY <1>1, <1>6 DEF SetRunning, SetComplete, SetFailed, MarkReplyLost, SetCompleteReplyLost
  <2>2. {"generating", "cleanup", "failing", "down"} \subseteq WorkerPcs
    BY DEF WorkerPcs, BodyPcs
  <2> QED BY <1>6, <2>1, <2>2, StatusFacts, StatusStep
        DEF SetRunning, SetComplete, SetFailed, MarkReplyLost, SetCompleteReplyLost, Die
<1>7. CASE CompleteJob(w)
  BY <1>7, RemoveStep
<1> QED
  BY <1>3, <1>4, <1>5, <1>6, <1>7 DEF WorkerStep, WorkerFault

LEMMA NextAccounting ==
  ASSUME TypeOK, Accounting, [Next]_vars
  PROVE  Accounting'
<1>0. RetriedIsKnown'
  BY RetriedStep DEF Accounting
<1>1. CASE ApiNext /\ UNCHANGED workerVars
  <2>1. CASE ApiRestart
    BY <1>0, <1>1, <2>1, QuietStep DEF ApiRestart, storeVars, workerVars
  <2> QED BY <1>0, <1>1, <2>1, HandlerAccounting DEF ApiNext
<1>2. CASE WorkerNext /\ UNCHANGED apiVars
  BY <1>0, <1>2, WorkerAccounting DEF WorkerNext, apiVars
<1>3. CASE UNCHANGED vars
  BY <1>0, <1>3, QuietStep DEF vars, storeVars, workerVars, apiVars
<1> QED BY <1>1, <1>2, <1>3 DEF Next

\* Whichever commands lose their replies, the lists and the hashes stay consistent: no
\* job twice, none without a hash, every unfinished job listed, a worker's job in the
\* processing list and its alone, save for the jobs of an EXEC that was applied twice.
THEOREM AccountingHolds == Spec => []Accounting
BY InitAccounting, NextAccounting, TypeCorrect, PTL DEF Spec

\* Two workers hold the same job only if the EXEC that queued it was applied twice:
\* BLMOVE hands any other job to one worker, whatever crashes, restarts, lost replies
\* of any command and failed writes there are.
THEOREM ExclusiveClaimHolds == Spec => []ExclusiveClaim
<1>1. Accounting => ExclusiveClaim
  BY DEF Accounting
<1> QED BY <1>1, AccountingHolds, PTL

-----------------------------------------------------------------------------
(* Failures.  The bookkeeping above leaves out the jobs that an EXEC       *)
(* queued twice; what follows speaks of all of them.                       *)

\* No EXEC has been applied twice, and none is about to be.
NothingRetried == \A h \in Handlers : ~At(h, "retryEnqueue")
Clean == Accounting /\ NothingRetried /\ twice = {}

\* The step is not the one from which an EXEC is sent twice.
NoExecLost == \A h \in Handlers : ~EnqueueReplyLost(h)

LEMMA InitClean == Init => Clean
BY InitAccounting DEF Init, ApiInit, NoRequest, NothingRetried, Clean

LEMMA NextClean ==
  ASSUME TypeOK, Clean, NoExecLost, [Next]_vars
  PROVE  Clean'
<1>1. NothingRetried'
  BY RetrySource DEF Clean, NothingRetried, NoExecLost
<1>2. ASSUME NEW h \in Handlers, Arrive(h) \/ Serve(h) \/ HandlerFault(h)
      PROVE  UNCHANGED twice
  <2>1. ~RetryEnqueue(h)
    BY DEF RetryEnqueue, Clean, NothingRetried
  <2> QED BY <1>2, <2>1 DEF Arrive, BeginGenerate, BeginActiveJob, BeginStatus, Begin,
       Serve, ListProcessing, ListQueue, CheckJob, EndScan, Enqueue, ReadStatus,
       FindInQueue, FindInProcessing, HandlerFault, CheckJobUnreadable, ScanFails,
       EnqueueUnreachable, EnqueueReplyLost, RetryUnreachable, StatusUnreachable
<1>3. UNCHANGED twice
  BY <1>2 DEF Next, ApiNext, ApiRestart, vars, apiVars
<1> QED BY <1>1, <1>3, NextAccounting DEF Clean

\* No error, no retry.
CleanAccounting == faults = 0 => Clean

\* An error is counted, and the count never falls.
LEMMA FailuresCounted ==
  ASSUME TypeOK, [Next]_vars
  PROVE  /\ faults \in Nat /\ faults' \in Nat /\ crashes \in Nat /\ crashes' \in Nat
         /\ faults' >= faults /\ crashes' >= crashes
         /\ (\E h \in Handlers : EnqueueReplyLost(h)) =>
              faults' = faults + 1 /\ UNCHANGED workerVars
<1>0. faults \in Nat /\ crashes \in Nat
  BY DEF TypeOK, StoreTypeOK, WorkerTypeOK
<1>1. ASSUME NEW h \in Handlers, Arrive(h) \/ Serve(h) \/ HandlerFault(h)
      PROVE  faults' = faults \/ faults' = faults + 1
  BY <1>1 DEF Arrive, BeginGenerate, BeginActiveJob, BeginStatus, Begin, Serve, ListProcessing,
       ListQueue, CheckJob, EndScan, Enqueue, RetryEnqueue, ReadStatus, FindInQueue,
       FindInProcessing, HandlerFault, CheckJobUnreadable, ScanFails, EnqueueUnreachable,
       EnqueueReplyLost, RetryUnreachable, StatusUnreachable, Unreachable, ReplyLost, Fault,
       storeVars
<1>2. ASSUME NEW w \in Workers, WorkerStep(w)
      PROVE  faults' = faults /\ crashes' = crashes
  BY <1>2 DEF WorkerStep, Connect, Ping, Pop, SetRunning, GenerateReturns, GenerateRaises,
       SetComplete, SetFailed, CompleteJob, Restart, storeVars
<1>3. ASSUME NEW w \in Workers, WorkerFault(w)
      PROVE  \/ faults' = faults + 1 /\ crashes' = crashes
             \/ faults' = faults /\ crashes' = crashes + 1
  BY <1>3 DEF WorkerFault, ConnectGivesUp, PingFails, PopUnreachable, PopReplyLost,
       MarkUnreachable, MarkReplyLost, SetCompleteUnreachable, SetCompleteReplyLost,
       CompleteJobUnreachable, Crash, Unreachable, ReplyLost, Fault, storeVars, workerVars
<1>4. CASE ApiNext /\ UNCHANGED workerVars
  <2>1. crashes' = crashes
    BY <1>4 DEF workerVars
  <2>2. faults' = faults \/ faults' = faults + 1
    BY <1>1, <1>4 DEF ApiNext, ApiRestart, storeVars
  <2>3. ASSUME NEW h \in Handlers, EnqueueReplyLost(h) PROVE faults' = faults + 1
    BY <2>3 DEF EnqueueReplyLost, ReplyLost, Fault
  <2> QED BY <1>0, <1>4, <2>1, <2>2, <2>3
<1>5. CASE WorkerNext /\ UNCHANGED apiVars
  <2>1. \A h \in Handlers : ~EnqueueReplyLost(h)
    BY <1>5 DEF EnqueueReplyLost, apiVars, TypeOK, ApiTypeOK, Requests
  <2> QED BY <1>0, <1>2, <1>3, <1>5, <2>1 DEF WorkerNext
<1>6. CASE UNCHANGED vars
  <2>1. \A h \in Handlers : ~EnqueueReplyLost(h)
    BY <1>0, <1>6 DEF EnqueueReplyLost, ReplyLost, Fault, vars, storeVars
  <2> QED BY <1>0, <1>6, <2>1 DEF vars, storeVars, workerVars
<1> QED BY <1>4, <1>5, <1>6 DEF Next

LEMMA CleanAccountingHolds == Spec => []CleanAccounting
<1>1. Init => CleanAccounting
  BY InitClean DEF CleanAccounting
<1>2. ASSUME TypeOK, CleanAccounting, [Next]_vars, faults' = 0
      PROVE  Clean'
  <2>1. faults = 0
    BY <1>2, FailuresCounted
  <2>2. NoExecLost
    BY <1>2, <2>1, FailuresCounted DEF NoExecLost
  <2> QED BY <1>2, <2>1, <2>2, NextClean DEF CleanAccounting
<1>3. TypeOK /\ CleanAccounting /\ [Next]_vars => CleanAccounting'
  BY <1>2 DEF CleanAccounting
<1> QED BY <1>1, <1>3, TypeCorrect, PTL DEF Spec

\* A job that somebody is still going to finish: it is pending, or a worker holds it
\* and has not yet written its last word on it.
InHand(j) == \E w \in Workers : held[w] = j /\ ~WorkerAt(w, "cleanup")
Uncovered == {j \in ActiveJobs : j \notin Range(queue) /\ ~InHand(j)}

\* What NextUncovers says of one step: it uncovers nothing, or one job at the price of
\* a failure.
UncoversNothing == Uncovered' \subseteq Uncovered
UncoversOne ==
  \E j : /\ Uncovered' \subseteq Uncovered \union {j}
         /\ crashes' + faults' = crashes + faults + 1

\* A step of worker w uncovers at most the job x it takes, drops or writes on.
LEMMA WorkerUncovers ==
  ASSUME TypeOK, NEW w \in Workers, NEW x,
         \A v \in Workers : v # w => held'[v] = held[v] /\ wpc'[v] = wpc[v],
         \A j \in Jobs : j # x => status'[j] = status[j],
         \A j \in Range(queue) : j # x => j \in Range(queue'),
         \/ held[w] \in {x, NoJob} \/ WorkerAt(w, "cleanup")
         \/ held'[w] = held[w] /\ ~WorkerAt(w, "cleanup")'
  PROVE  Uncovered' \subseteq Uncovered \union {x}
<1> SUFFICES ASSUME NEW j \in Jobs, j # x, status'[j] \in ActiveStatuses,
                    j \notin Range(queue'), ~InHand(j)'
             PROVE  j \in Uncovered
  BY DEF Uncovered, ActiveJobs
<1>1. j \in ActiveJobs /\ j \notin Range(queue)
  BY DEF ActiveJobs
<1>2. j # NoJob
  BY DEF Jobs
<1>3. ~InHand(j)
  <2> SUFFICES ASSUME NEW v \in Workers, held[v] = j, ~WorkerAt(v, "cleanup")
               PROVE  FALSE
    BY DEF InHand
  <2>1. CASE v # w
    BY <2>1 DEF InHand
  <2>2. CASE v = w
    BY <1>2, <2>2 DEF InHand
  <2> QED BY <2>1, <2>2
<1> QED BY <1>1, <1>3 DEF Uncovered

LEMMA QuietUncovers ==
  ASSUME TypeOK, NEW w \in Workers, UNCHANGED <<queue, status>>,
         \A v \in Workers : v # w => held'[v] = held[v] /\ wpc'[v] = wpc[v],
         \/ held[w] = NoJob \/ WorkerAt(w, "cleanup")
         \/ held'[w] = held[w] /\ ~WorkerAt(w, "cleanup")'
  PROVE  UncoversNothing
<1>1. Uncovered' \subseteq Uncovered \union {NoJob}
  BY WorkerUncovers
<1>2. NoJob \notin Uncovered'
  BY DEF Uncovered, ActiveJobs, Jobs
<1> QED BY <1>1, <1>2 DEF UncoversNothing

LEMMA ApiUncovers ==
  ASSUME TypeOK, ApiNext, UNCHANGED workerVars
  PROVE  UncoversNothing
<1>0. queue \in Seq(Jobs) /\ created \in Nat
  BY DEF TypeOK, StoreTypeOK
<1>1. CASE UNCHANGED <<queue, status>>
  BY <1>1 DEF UncoversNothing, Uncovered, ActiveJobs, InHand, workerVars
<1>2. ASSUME NEW base \in Nat, NEW n \in Nat, base + n <= MaxJobs,
             EnqueueBatch(FreshIds(base, n))
      PROVE  UncoversNothing
  <2>1. FreshIds(base, n) \in Seq(Jobs)
    BY <1>2, FreshIdsFacts
  <2>2. Range(queue') = Range(queue) \union Range(FreshIds(base, n))
    BY <1>0, <1>2, <2>1, PushFacts DEF EnqueueBatch
  <2>3. \A j \in Jobs : j \notin Range(FreshIds(base, n)) => status'[j] = status[j]
    BY <1>2 DEF EnqueueBatch
  <2> QED BY <2>2, <2>3 DEF UncoversNothing, Uncovered, ActiveJobs, InHand, workerVars
<1>3. ASSUME NEW h \in Handlers
      PROVE  /\ req[h].count \in Nat /\ req[h].base \in Nat
             /\ At(h, "retryEnqueue") => req[h].base + req[h].count <= MaxJobs
  BY DEF TypeOK, ApiTypeOK, Requests
<1>4. ASSUME NEW h \in Handlers, Enqueue(h) \/ EnqueueReplyLost(h)
      PROVE  UncoversNothing
  <2>1. created + req[h].count <= MaxJobs /\ EnqueueBatch(FreshIds(created, req[h].count))
    BY <1>4 DEF Enqueue, EnqueueReplyLost
  <2> QED BY <1>0, <1>2, <1>3, <2>1
<1>5. ASSUME NEW h \in Handlers, RetryEnqueue(h)
      PROVE  UncoversNothing
  <2>1. At(h, "retryEnqueue") /\ EnqueueBatch(FreshIds(req[h].base, req[h].count))
    BY <1>5 DEF RetryEnqueue
  <2> QED BY <1>2, <1>3, <2>1
<1>6. ASSUME NEW h \in Handlers, Arrive(h) \/ Serve(h) \/ HandlerFault(h),
             ~Enqueue(h), ~EnqueueReplyLost(h), ~RetryEnqueue(h)
      PROVE  UNCHANGED <<queue, status>>
  BY <1>6 DEF Arrive, BeginGenerate, BeginActiveJob, BeginStatus, Begin, Serve,
       ListProcessing, ListQueue, CheckJob, EndScan, ReadStatus, FindInQueue,
       FindInProcessing, HandlerFault, CheckJobUnreadable, ScanFails, EnqueueUnreachable,
       RetryUnreachable, StatusUnreachable, Unreachable, storeVars
<1>7. CASE ApiRestart
  BY <1>1, <1>7 DEF ApiRestart, storeVars
<1> QED BY <1>1, <1>4, <1>5, <1>6, <1>7 DEF ApiNext

LEMMA WorkerStepUncovers ==
  ASSUME TypeOK, NEW w \in Workers, WorkerStep(w)
  PROVE  UncoversNothing
<1>0. /\ wpc \in [Workers -> WorkerPcs] /\ held \in [Workers -> Jobs \union {NoJob}]
      /\ \A v \in Workers : held[v] # NoJob <=> wpc[v] \in BodyPcs
      /\ status \in [Jobs -> Statuses] /\ queue \in Seq(Jobs)
      /\ BodyPcs = {"claimed", "generating", "generated", "failing", "cleanup"}
  BY DEF TypeOK, WorkerTypeOK, StoreTypeOK, BodyPcs
<1>1. CASE Connect(w) \/ Ping(w) \/ GenerateReturns(w) \/ GenerateRaises(w)
           \/ CompleteJob(w) \/ Restart(w)
  <2>1. UNCHANGED <<queue, status>>
    BY <1>1 DEF Connect, Ping, GenerateReturns, GenerateRaises, CompleteJob, Restart, storeVars
  <2>2. \A v \in Workers : v # w => held'[v] = held[v] /\ wpc'[v] = wpc[v]
    BY <1>0, <1>1 DEF Connect, Ping, GenerateReturns, GenerateRaises, CompleteJob, EndBody, Restart
  <2>3. \/ held[w] = NoJob \/ WorkerAt(w, "cleanup")
        \/ held'[w] = held[w] /\ ~WorkerAt(w, "cleanup")'
    BY <1>0, <1>1 DEF Connect, Ping, GenerateReturns, GenerateRaises, CompleteJob, Restart
  <2> QED BY <2>1, <2>2, <2>3, QuietUncovers
<1>2. CASE Pop(w)
  <2>1. Range(queue) = Range(queue') \union {NewestQueued}
    BY <1>0, <1>2, PopFacts DEF Pop, MoveToProcessing, NewestQueued
  <2>2. Uncovered' \subseteq Uncovered \union {NewestQueued}
    BY <1>0, <1>2, <2>1, WorkerUncovers DEF Pop
  <2>3. NewestQueued \notin Uncovered'
    <3>1. held'[w] = NewestQueued /\ wpc'[w] # "cleanup"
      BY <1>0, <1>2 DEF Pop
    <3> QED BY <3>1 DEF InHand, Uncovered
  <2> QED BY <2>2, <2>3 DEF UncoversNothing
<1>3. CASE SetRunning(w) \/ SetComplete(w) \/ SetFailed(w)
  <2>1. Uncovered' \subseteq Uncovered \union {held[w]}
    BY <1>0, <1>3, WorkerUncovers DEF SetRunning, SetComplete, SetFailed, SetStatus
  <2>2. held[w] \notin Uncovered'
    <3>1. held[w] \in Jobs
      BY <1>0, <1>3 DEF SetRunning, SetComplete, SetFailed
    <3>2. CASE SetRunning(w)
      BY <1>0, <3>2 DEF SetRunning, Uncovered, InHand
    <3>3. CASE SetComplete(w) \/ SetFailed(w)
      BY <1>0, <3>1, <3>3, StatusFacts DEF SetComplete, SetFailed, SetStatus, Uncovered, ActiveJobs
    <3> QED BY <1>3, <3>2, <3>3
  <2> QED BY <2>1, <2>2 DEF UncoversNothing
<1> QED BY <1>1, <1>2, <1>3 DEF WorkerStep

LEMMA WorkerFaultUncovers ==
  ASSUME TypeOK, NEW w \in Workers, WorkerFault(w)
  PROVE  UncoversNothing \/ UncoversOne
<1>0. /\ wpc \in [Workers -> WorkerPcs] /\ held \in [Workers -> Jobs \union {NoJob}]
      /\ \A v \in Workers : held[v] # NoJob <=> wpc[v] \in BodyPcs
      /\ status \in [Jobs -> Statuses] /\ queue \in Seq(Jobs)
      /\ faults \in Nat /\ crashes \in Nat
      /\ BodyPcs = {"claimed", "generating", "generated", "failing", "cleanup"}
  BY DEF TypeOK, WorkerTypeOK, StoreTypeOK, BodyPcs
<1>1. CASE ConnectGivesUp(w) \/ PingFails(w) \/ PopUnreachable(w)
           \/ SetCompleteUnreachable(w) \/ CompleteJobUnreachable(w)
  <2>1. UNCHANGED <<queue, status>>
    BY <1>1 DEF ConnectGivesUp, PingFails, PopUnreachable, SetCompleteUnreachable,
                CompleteJobUnreachable, Unreachable
  <2>2. \A v \in Workers : v # w => held'[v] = held[v] /\ wpc'[v] = wpc[v]
    BY <1>0, <1>1 DEF ConnectGivesUp, PingFails, PopUnreachable, SetCompleteUnreachable,
                      CompleteJobUnreachable, Die, EndBody, workerVars
  <2>3. \/ held[w] = NoJob \/ WorkerAt(w, "cleanup")
        \/ held'[w] = held[w] /\ ~WorkerAt(w, "cleanup")'
    BY <1>0, <1>1 DEF ConnectGivesUp, PingFails, PopUnreachable, SetCompleteUnreachable,
                      CompleteJobUnreachable
  <2> QED BY <2>1, <2>2, <2>3, QuietUncovers
<1>2. CASE PopReplyLost(w)
  <2>1. Range(queue) = Range(queue') \union {NewestQueued}
    BY <1>0, <1>2, PopFacts DEF PopReplyLost, MoveToProcessing, NewestQueued
  <2>2. Uncovered' \subseteq Uncovered \union {NewestQueued}
    BY <1>0, <1>2, <2>1, WorkerUncovers DEF PopReplyLost
  <2>3. crashes' + faults' = crashes + faults + 1
    BY <1>0, <1>2 DEF PopReplyLost, ReplyLost, Fault
  <2> QED BY <2>2, <2>3 DEF UncoversOne
<1>3. CASE MarkUnreachable(w) \/ MarkReplyLost(w)
  <2>1. Uncovered' \subseteq Uncovered \union {held[w]}
    BY <1>0, <1>3, WorkerUncovers DEF MarkUnreachable, MarkReplyLost, SetStatus, Unreachable, Die
  <2>2. crashes' + faults' = crashes + faults + 1
    BY <1>0, <1>3 DEF MarkUnreachable, MarkReplyLost, Unreachable, ReplyLost, Fault
  <2> QED BY <2>1, <2>2 DEF UncoversOne
<1>4. CASE SetCompleteReplyLost(w)
  <2>1. Uncovered' \subseteq Uncovered \union {held[w]}
    BY <1>0, <1>4, WorkerUncovers DEF SetCompleteReplyLost, SetStatus
  <2>2. held[w] \notin Uncovered'
    <3>1. held[w] \in Jobs
      BY <1>0, <1>4 DEF SetCompleteReplyLost
    <3> QED BY <1>0, <1>4, <3>1, StatusFacts
            DEF SetCompleteReplyLost, SetStatus, Uncovered, ActiveJobs
  <2> QED BY <2>1, <2>2 DEF UncoversNothing
<1>5. CASE Crash(w)
  <2>1. Uncovered' \subseteq Uncovered \union {held[w]}
    BY <1>0, <1>5, WorkerUncovers DEF Crash, storeVars, Die
  <2>2. crashes' + faults' = crashes + faults + 1
    BY <1>0, <1>5 DEF Crash, storeVars
  <2> QED BY <2>1, <2>2 DEF UncoversOne
<1> QED BY <1>1, <1>2, <1>3, <1>4, <1>5 DEF WorkerFault

LEMMA NextUncovers ==
  ASSUME TypeOK, [Next]_vars
  PROVE  UncoversNothing \/ UncoversOne
<1>1. CASE UNCHANGED vars
  BY <1>1 DEF vars, storeVars, workerVars, UncoversNothing, Uncovered, ActiveJobs, InHand
<1> QED BY <1>1, ApiUncovers, WorkerStepUncovers, WorkerFaultUncovers DEF Next, WorkerNext

\* Every failure uncovers at most one job, and nothing else does.
UncoveredBound == Cardinality(Uncovered) <= crashes + faults

LEMMA UncoveredFinite == IsFiniteSet(Uncovered) /\ Cardinality(Uncovered) \in Nat
<1>1. IsFiniteSet(Jobs)
  BY MaxJobsAssumption, FS_Interval DEF Jobs
<1>2. Uncovered \in SUBSET Jobs
  BY DEF Uncovered, ActiveJobs
<1> QED BY <1>1, <1>2, FS_Subset, FS_CardinalityType

LEMMA UncoveredBoundHolds == Spec => []UncoveredBound
<1>1. Init => UncoveredBound
  <2> SUFFICES ASSUME Init PROVE UncoveredBound
    OBVIOUS
  <2>1. Uncovered = {}
    BY StatusFacts DEF Init, StoreInit, Uncovered, ActiveJobs
  <2> QED BY <2>1, FS_EmptySet DEF Init, StoreInit, WorkerInit, UncoveredBound
<1>2. ASSUME TypeOK, UncoveredBound, [Next]_vars
      PROVE  Cardinality(Uncovered') <= crashes' + faults'
  <2>0. /\ faults \in Nat /\ faults' \in Nat /\ crashes \in Nat /\ crashes' \in Nat
        /\ faults' >= faults /\ crashes' >= crashes
    BY <1>2, FailuresCounted
  <2>1. IsFiniteSet(Uncovered) /\ Cardinality(Uncovered) \in Nat
    BY UncoveredFinite
  <2>2. CASE UncoversNothing
    <3>1. Cardinality(Uncovered') <= Cardinality(Uncovered) /\ IsFiniteSet(Uncovered')
      BY <2>1, <2>2, FS_Subset DEF UncoversNothing
    <3>2. Cardinality(Uncovered') \in Nat
      BY <3>1, FS_CardinalityType
    <3> QED BY <1>2, <2>0, <2>1, <3>1, <3>2 DEF UncoveredBound
  <2>3. CASE UncoversOne
    <3>1. PICK j : /\ Uncovered' \subseteq Uncovered \union {j}
                   /\ crashes' + faults' = crashes + faults + 1
      BY <2>3 DEF UncoversOne
    <3>2. /\ IsFiniteSet(Uncovered \union {j})
          /\ Cardinality(Uncovered \union {j}) <= Cardinality(Uncovered) + 1
          /\ Cardinality(Uncovered \union {j}) \in Nat
      BY <2>1, FS_AddElement
    <3>3. /\ Cardinality(Uncovered') <= Cardinality(Uncovered \union {j})
          /\ IsFiniteSet(Uncovered')
      BY <3>1, <3>2, FS_Subset
    <3>4. Cardinality(Uncovered') \in Nat
      BY <3>3, FS_CardinalityType
    <3>5. \A a, b, c, m, n \in Nat : a <= b /\ b <= c + 1 /\ c <= m /\ n = m + 1 => a <= n
      OBVIOUS
    <3>6. crashes + faults \in Nat /\ crashes' + faults' \in Nat
      <4>1. \A m, n \in Nat : m + n \in Nat
        OBVIOUS
      <4> QED BY <2>0, <4>1
    <3> QED BY <1>2, <2>1, <3>1, <3>2, <3>3, <3>4, <3>5, <3>6 DEF UncoveredBound
  <2> QED BY <1>2, <2>2, <2>3, NextUncovers
<1>3. TypeOK /\ UncoveredBound /\ [Next]_vars => UncoveredBound'
  BY <1>2 DEF UncoveredBound
<1> QED BY <1>1, <1>3, TypeCorrect, PTL DEF Spec

\* No more jobs are stranded than there were failures, whichever commands lose their
\* replies: a crash, a failed mark or a lost pop costs one job and no failure two.
THEOREM StrandedBoundHolds == Spec => []StrandedBound
<1>1. ASSUME TypeOK, UncoveredBound PROVE StrandedBound
  <2>1. Stranded \in SUBSET Uncovered
    BY DEF Stranded, Uncovered, InHand
  <2>2. Cardinality(Stranded) <= Cardinality(Uncovered) /\ Cardinality(Stranded) \in Nat
    BY <2>1, UncoveredFinite, FS_Subset, FS_CardinalityType
  <2>3. crashes \in Nat /\ faults \in Nat
    BY <1>1 DEF TypeOK, StoreTypeOK, WorkerTypeOK
  <2> QED BY <1>1, <2>2, <2>3, UncoveredFinite DEF StrandedBound, UncoveredBound
<1> QED BY <1>1, UncoveredBoundHolds, TypeCorrect, PTL

\* One failure at most: the bookkeeping is right, or the failure was a lost EXEC reply
\* and every unfinished job is still pending or in hand.
SingleFailureInv == crashes + faults <= 1 => Clean \/ Uncovered = {}

\* With a single failure no unfinished job vanishes, not even when it was an EXEC sent
\* twice, which queues jobs twice and lets two workers run the same one.
THEOREM SingleFailureSafeHolds == Spec => []SingleFailureSafe
<1>1. Init => SingleFailureInv
  BY InitClean DEF SingleFailureInv
<1>2. ASSUME TypeOK, CleanAccounting, UncoveredBound, SingleFailureInv, [Next]_vars,
             crashes' + faults' <= 1
      PROVE  Clean' \/ Uncovered' = {}
  <2>0. /\ faults \in Nat /\ faults' \in Nat /\ crashes \in Nat /\ crashes' \in Nat
        /\ faults' >= faults /\ crashes' >= crashes
        /\ crashes + faults <= 1
    BY <1>2, FailuresCounted
  <2>1. crashes + faults = 0 => Clean /\ Uncovered = {}
    <3>1. crashes + faults = 0 => Cardinality(Uncovered) = 0
      BY <1>2, <2>0, UncoveredFinite DEF UncoveredBound
    <3> QED BY <1>2, <2>0, <3>1, UncoveredFinite, FS_EmptySet DEF CleanAccounting
  <2>2. CASE ~NoExecLost
    <3>1. faults' = faults + 1 /\ UNCHANGED workerVars
      BY <1>2, <2>2, FailuresCounted DEF NoExecLost
    <3>2. crashes + faults = 0
      <4>1. crashes' + (faults + 1) <= 1 /\ crashes' = crashes
        BY <1>2, <3>1 DEF workerVars
      <4> QED BY <2>0, <4>1
    <3>3. UncoversNothing
      <4>1. PICK h \in Handlers : EnqueueReplyLost(h)
        BY <2>2 DEF NoExecLost
      <4>2. ApiNext
        BY <4>1 DEF ApiNext, HandlerFault
      <4> QED BY <1>2, <3>1, <4>2, ApiUncovers
    <3> QED BY <2>1, <3>2, <3>3 DEF UncoversNothing
  <2>3. CASE NoExecLost /\ Clean
    BY <1>2, <2>3, NextClean
  <2>4. CASE ~Clean
    <3>1. crashes + faults = 1 /\ Uncovered = {}
      BY <1>2, <2>0, <2>1, <2>4 DEF SingleFailureInv
    <3>2. UncoversNothing
      <4>1. ~(crashes' + faults' = crashes + faults + 1)
        BY <1>2, <3>1
      <4> QED BY <1>2, <4>1, NextUncovers DEF UncoversOne
    <3> QED BY <3>1, <3>2 DEF UncoversNothing
  <2> QED BY <2>2, <2>3, <2>4
<1>3. TypeOK /\ CleanAccounting /\ UncoveredBound /\ SingleFailureInv /\ [Next]_vars => SingleFailureInv'
  BY <1>2 DEF SingleFailureInv
<1>4. SingleFailureInv => SingleFailureSafe
  BY DEF SingleFailureInv, SingleFailureSafe, Clean, Accounting, ActiveIsListed, Uncovered, InHand, Listed
<1> QED BY <1>1, <1>3, <1>4, CleanAccountingHolds, UncoveredBoundHolds, TypeCorrect, PTL DEF Spec
-----------------------------------------------------------------------------
(* What the handlers make of the store.                                    *)

\* A worker that has claimed a job and not marked it yet finds it "queued".
ClaimedIsQueued == \A w \in Workers : WorkerAt(w, "claimed") => status[held[w]] = "queued"
Tidy == Clean /\ ClaimedIsQueued
CleanTidy == faults = 0 => Tidy

\* The jobs a request can overlook: active when it came in and still pending.
Waiting(h) == req[h].before \intersect Range(queue)

\* How far the scan of handler h is, and that what it passed over is in its answer.
Scanned(h) ==
  LET r == req[h] IN
  /\ \A j \in r.before : j <= created
  /\ r.pc # "idle" /\ r.op = "generate" => r.seen = {} /\ r.answer = {}
  /\ r.pc = "lrangeProcessing" => r.seen = {}
  /\ r.pc = "checkProcessing" => Waiting(h) \intersect r.seen \subseteq r.answer
  /\ r.pc = "checkQueue" => Waiting(h) \subseteq r.todo \union r.answer
  /\ r.pc = "enqueue" /\ r.count = 1 => Waiting(h) = {}
  /\ r.code = "created" /\ r.count = 1 => Waiting(h) = {}
  /\ r.code = "listed" => Waiting(h) \subseteq r.answer
ScanInv == faults = 0 => \A h \in Handlers : Scanned(h)

\* A request whose job was active when it came in knows the job has a hash; when it goes
\* on to the lists the one error has been spent, and the job is where the order of the
\* lookups needs it.
KnownBefore == \A h \in Handlers : \A j \in req[h].before : status[j] # "absent"
Searching(h) == req[h].pc \in {"lposQueue", "lposProcessing"} \/ req[h].code = "notFound"
Sought(h) ==
  LET r == req[h] IN
  r.job \in r.before /\ Searching(h) /\ faults <= 1 =>
    /\ faults = 1 /\ Tidy
    /\ r.pc = "lposProcessing" => r.job \notin Range(queue)
    /\ r.code = "notFound" => r.job \notin ActiveJobs
SearchInv == KnownBefore /\ \A h \in Handlers : Sought(h)

\* A hash, once written, is never deleted.
LEMMA HashStays ==
  ASSUME TypeOK, [Next]_vars
  PROVE  \A j \in Jobs : status[j] # "absent" => status'[j] # "absent"
<1>0. status \in [Jobs -> Statuses]
  BY DEF TypeOK, StoreTypeOK
<1>1. ASSUME NEW h \in Handlers, Arrive(h) \/ Serve(h) \/ HandlerFault(h)
      PROVE  status' = status \/ \E ids : EnqueueBatch(ids)
  BY <1>1 DEF Arrive, BeginGenerate, BeginActiveJob, BeginStatus, Begin, Serve,
     ListProcessing, ListQueue, CheckJob, EndScan, Enqueue, RetryEnqueue, ReadStatus,
     FindInQueue, FindInProcessing, HandlerFault, CheckJobUnreadable, ScanFails,
     EnqueueUnreachable, EnqueueReplyLost, RetryUnreachable, StatusUnreachable,
     Unreachable, storeVars
<1>2. ASSUME NEW w \in Workers, WorkerStep(w) \/ WorkerFault(w)
      PROVE  status' = status \/ \E s \in {"running", "complete", "failed"} : SetStatus(held[w], s)
  BY <1>2 DEF WorkerStep, Connect, Ping, Pop, SetRunning, GenerateReturns, GenerateRaises,
     SetComplete, SetFailed, CompleteJob, Restart, WorkerFault, ConnectGivesUp, PingFails,
     PopUnreachable, PopReplyLost, MarkUnreachable, MarkReplyLost, SetCompleteUnreachable,
     SetCompleteReplyLost, CompleteJobUnreachable, Crash, Unreachable, storeVars
<1>3. CASE ApiNext /\ UNCHANGED workerVars
  BY <1>0, <1>1, <1>3 DEF ApiNext, ApiRestart, EnqueueBatch, storeVars
<1>4. CASE WorkerNext /\ UNCHANGED apiVars
  BY <1>0, <1>2, <1>4 DEF WorkerNext, SetStatus
<1>5. CASE UNCHANGED vars
  BY <1>5 DEF vars, storeVars
<1> QED BY <1>3, <1>4, <1>5 DEF Next

\* What is pending is new or was pending before.
LEMMA OldJobs ==
  ASSUME TypeOK, Clean, NoExecLost, [Next]_vars
  PROVE  /\ created' >= created
         /\ \A j \in Range(queue') : j <= created => j \in Range(queue)
<1>0. /\ queue \in Seq(Jobs) /\ created \in Nat /\ status \in [Jobs -> Statuses]
      /\ held \in [Workers -> Jobs \union {NoJob}]
  BY DEF TypeOK, StoreTypeOK, WorkerTypeOK
<1>1. CASE UNCHANGED <<queue, status, created>>
  BY <1>0, <1>1
<1>2. ASSUME NEW h \in Handlers, Enqueue(h) PROVE
         /\ created' >= created
         /\ \A j \in Range(queue') : j <= created => j \in Range(queue)
  <2>1. PICK n \in Nat : /\ created + n <= MaxJobs /\ created' = created + n
                         /\ EnqueueBatch(FreshIds(created, n))
    BY <1>2 DEF TypeOK, ApiTypeOK, Requests, Enqueue
  <2>2. /\ FreshIds(created, n) \in Seq(Jobs)
        /\ Range(FreshIds(created, n)) = created + 1 .. created + n
    BY <1>0, <2>1, FreshIdsFacts
  <2>3. Range(queue') = Range(queue) \union (created + 1 .. created + n)
    BY <1>0, <2>1, <2>2, PushFacts DEF EnqueueBatch
  <2>4. \A j \in Range(queue') : j <= created => j \in Range(queue)
    <3>1. \A j \in created + 1 .. created + n : ~(j <= created)
      BY <1>0
    <3> QED BY <2>3, <3>1
  <2> QED BY <1>0, <2>1, <2>4
<1>3. ASSUME NEW h \in Handlers, Arrive(h) \/ Serve(h) \/ HandlerFault(h), ~Enqueue(h)
      PROVE  UNCHANGED <<queue, status, created>>
  <2>1. ~EnqueueReplyLost(h) /\ ~RetryEnqueue(h)
    BY DEF NoExecLost, RetryEnqueue, Clean, NothingRetried
  <2> QED
    BY <1>3, <2>1 DEF Arrive, BeginGenerate, BeginActiveJob, BeginStatus, Begin, Serve,
       ListProcessing, ListQueue, CheckJob, EndScan, ReadStatus, FindInQueue,
       FindInProcessing, HandlerFault, CheckJobUnreadable, ScanFails, EnqueueUnreachable,
       RetryUnreachable, StatusUnreachable, Unreachable, storeVars
<1>4. CASE ApiRestart
  BY <1>1, <1>4 DEF ApiRestart, storeVars
<1>5. ASSUME NEW w \in Workers, WorkerStep(w) \/ WorkerFault(w)
      PROVE  created' = created
  BY <1>5 DEF WorkerStep, Connect, Ping, Pop, SetRunning, GenerateReturns, GenerateRaises,
       SetComplete, SetFailed, CompleteJob, Restart, WorkerFault, ConnectGivesUp, PingFails,
       PopUnreachable, PopReplyLost, MarkUnreachable, MarkReplyLost, SetCompleteUnreachable,
       SetCompleteReplyLost, CompleteJobUnreachable, Crash, Unreachable, storeVars
<1>6. ASSUME NEW w \in Workers, WorkerStep(w) \/ WorkerFault(w)
      PROVE  Range(queue') \subseteq Range(queue)
  <2>1. ASSUME MoveToProcessing PROVE Range(queue') \subseteq Range(queue)
    BY <1>0, <2>1, PopFacts DEF MoveToProcessing, NewestQueued
  <2>2. CASE ~Pop(w) /\ ~PopReplyLost(w)
    BY <1>6, <2>2 DEF WorkerStep, Connect, Ping, SetRunning, GenerateReturns, GenerateRaises,
       SetComplete, SetFailed, CompleteJob, Restart, WorkerFault, ConnectGivesUp, PingFails,
       PopUnreachable, MarkUnreachable, MarkReplyLost, SetCompleteUnreachable,
       SetCompleteReplyLost, CompleteJobUnreachable, Crash, Unreachable, storeVars
  <2> QED BY <2>1, <2>2 DEF Pop, PopReplyLost
<1>7. CASE ApiNext /\ UNCHANGED workerVars
  BY <1>1, <1>2, <1>3, <1>4, <1>7 DEF ApiNext
<1>8. CASE WorkerNext /\ UNCHANGED apiVars
  BY <1>0, <1>5, <1>6, <1>8 DEF WorkerNext
<1>9. CASE UNCHANGED vars
  BY <1>1, <1>9 DEF vars, storeVars
<1> QED BY <1>7, <1>8, <1>9 DEF Next

\* Without a lost EXEC reply the bookkeeping stays right, and what is finished (or was
\* never started) is not started again.
LEMMA TidyStep ==
  ASSUME TypeOK, Tidy, NoExecLost, [Next]_vars
  PROVE  /\ Tidy'
         /\ \A j \in Jobs : status[j] # "absent" /\ j \notin ActiveJobs => j \notin ActiveJobs'
<1>0. /\ queue \in Seq(Jobs) /\ status \in [Jobs -> Statuses] /\ created \in Nat
      /\ wpc \in [Workers -> WorkerPcs] /\ held \in [Workers -> Jobs \union {NoJob}]
      /\ \A v \in Workers : wpc[v] \in BodyPcs => held[v] \in Jobs /\ held[v] # NoJob
      /\ BodyPcs = {"claimed", "generating", "generated", "failing", "cleanup"}
      /\ Clean /\ Accounting /\ twice = {} /\ ClaimedIsQueued
  BY DEF TypeOK, StoreTypeOK, WorkerTypeOK, BodyPcs, Jobs, Tidy, Clean
<1> DEFINE Final == \A j \in Jobs : status[j] # "absent" /\ j \notin ActiveJobs => j \notin ActiveJobs'
<1>1. ASSUME UNCHANGED <<status, wpc, held>>
      PROVE  ClaimedIsQueued' /\ Final
  BY <1>0, <1>1 DEF ClaimedIsQueued, ActiveJobs
<1>2. ASSUME ApiNext, UNCHANGED workerVars, ~UNCHANGED status
      PROVE  ClaimedIsQueued' /\ Final
  <2>1. PICK h \in Handlers : Enqueue(h)
    <3>1. ASSUME NEW h \in Handlers, Arrive(h) \/ Serve(h) \/ HandlerFault(h), ~Enqueue(h)
          PROVE  UNCHANGED status
      <4>1. ~EnqueueReplyLost(h) /\ ~RetryEnqueue(h)
        BY <1>0 DEF NoExecLost, RetryEnqueue, Clean, NothingRetried
      <4> QED
        BY <3>1, <4>1 DEF Arrive, BeginGenerate, BeginActiveJob, BeginStatus, Begin, Serve,
           ListProcessing, ListQueue, CheckJob, EndScan, ReadStatus, FindInQueue,
           FindInProcessing, HandlerFault, CheckJobUnreadable, ScanFails, EnqueueUnreachable,
           RetryUnreachable, StatusUnreachable, Unreachable, storeVars
    <3> QED BY <1>2, <3>1 DEF ApiNext, ApiRestart, storeVars
  <2>2. PICK n \in Nat : created + n <= MaxJobs /\ EnqueueBatch(FreshIds(created, n))
    BY <2>1 DEF TypeOK, ApiTypeOK, Requests, Enqueue
  <2>3. \A j \in Range(FreshIds(created, n)) : j > created
    <3>1. Range(FreshIds(created, n)) = created + 1 .. created + n
      BY <1>0, <2>2, FreshIdsFacts
    <3> QED BY <1>0, <3>1
  <2>4. \A j \in Jobs : status[j] # "absent" => status'[j] = status[j]
    BY <1>0, <2>2, <2>3 DEF EnqueueBatch, Accounting, FreshIsUnknown
  <2>5. ClaimedIsQueued'
    BY <1>0, <1>2, <2>4 DEF ClaimedIsQueued, workerVars
  <2> QED BY <2>4, <2>5 DEF ActiveJobs
<1>3. ASSUME NEW w \in Workers, WorkerStep(w) \/ WorkerFault(w)
      PROVE  ClaimedIsQueued' /\ Final
  <2>1. \/ status' = status
        \/ WorkerAt(w, "claimed") /\ SetStatus(held[w], "running")
        \/ wpc[w] \in BodyPcs /\ \E t \in {"complete", "failed"} : SetStatus(held[w], t)
    BY <1>0, <1>3 DEF WorkerStep, Connect, Ping, Pop, SetRunning, GenerateReturns, GenerateRaises,
       SetComplete, SetFailed, CompleteJob, Restart, WorkerFault, ConnectGivesUp, PingFails,
       PopUnreachable, PopReplyLost, MarkUnreachable, MarkReplyLost, SetCompleteUnreachable,
       SetCompleteReplyLost, CompleteJobUnreachable, Crash, Unreachable, storeVars
  <2>2. Final
    BY <1>0, <2>1, StatusFacts DEF SetStatus, ActiveJobs, ClaimedIsQueued
  <2>3. \A v \in Workers : v # w => wpc'[v] = wpc[v] /\ held'[v] = held[v]
    BY <1>0, <1>3 DEF WorkerStep, Connect, Ping, Pop, SetRunning, GenerateReturns, GenerateRaises,
       SetComplete, SetFailed, CompleteJob, Restart, WorkerFault, ConnectGivesUp, PingFails,
       PopUnreachable, PopReplyLost, MarkUnreachable, MarkReplyLost, SetCompleteUnreachable,
       SetCompleteReplyLost, CompleteJobUnreachable, Crash, Die, EndBody, workerVars
  <2>4. \A v \in Workers : v # w /\ wpc'[v] = "claimed" => status'[held'[v]] = "queued"
    <3> SUFFICES ASSUME NEW v \in Workers, v # w, wpc'[v] = "claimed"
                 PROVE  status'[held[v]] = "queued"
      BY <2>3
    <3>1. wpc[v] = "claimed" /\ held[v] \in Jobs /\ held[v] # NoJob /\ status[held[v]] = "queued"
      BY <1>0, <2>3 DEF ClaimedIsQueued
    <3>2. wpc[w] \in BodyPcs => held[v] # held[w]
      BY <1>0, <3>1 DEF Accounting, ExclusiveClaim
    <3> QED BY <1>0, <2>1, <3>1, <3>2 DEF SetStatus
  <2>5. wpc'[w] = "claimed" => Pop(w)
    BY <1>0, <1>3 DEF WorkerStep, Connect, Ping, SetRunning, GenerateReturns, GenerateRaises,
       SetComplete, SetFailed, CompleteJob, Restart, WorkerFault, ConnectGivesUp, PingFails,
       PopUnreachable, PopReplyLost, MarkUnreachable, MarkReplyLost, SetCompleteUnreachable,
       SetCompleteReplyLost, CompleteJobUnreachable, Crash, Die, EndBody, workerVars
  <2>6. Pop(w) => status'[held'[w]] = "queued"
    <3> SUFFICES ASSUME Pop(w) PROVE status[NewestQueued] = "queued"
      BY <1>0 DEF Pop
    <3> QED BY <1>0, PopFacts DEF Pop, MoveToProcessing, NewestQueued, Accounting, PendingIsQueued
  <2> QED BY <2>2, <2>4, <2>5, <2>6 DEF ClaimedIsQueued
<1>4. ASSUME ApiNext, UNCHANGED workerVars
      PROVE  ClaimedIsQueued' /\ Final
  BY <1>1, <1>2, <1>4 DEF workerVars
<1>5. ClaimedIsQueued' /\ Final
  BY <1>1, <1>3, <1>4 DEF Next, WorkerNext, vars, storeVars, workerVars
<1>6. Clean'
  BY <1>0, NextClean
<1> QED BY <1>5, <1>6 DEF Tidy

LEMMA CleanTidyHolds == Spec => []CleanTidy
<1>1. Init => CleanTidy
  BY InitClean DEF CleanTidy, Tidy, ClaimedIsQueued, Init, WorkerInit
<1>2. ASSUME TypeOK, CleanTidy, [Next]_vars, faults' = 0
      PROVE  Tidy'
  <2>1. faults = 0 /\ NoExecLost
    BY <1>2, FailuresCounted DEF NoExecLost
  <2> QED BY <1>2, <2>1, TidyStep DEF CleanTidy
<1>3. TypeOK /\ CleanTidy /\ [Next]_vars => CleanTidy'
  BY <1>2 DEF CleanTidy
<1> QED BY <1>1, <1>3, TypeCorrect, PTL DEF Spec

\* A request is changed by its own handler or forgotten with the API process.
LEMMA RequestSteps ==
  ASSUME TypeOK, [Next]_vars, NEW k \in Handlers
  PROVE  \/ req'[k] = req[k] \/ req'[k] = NoRequest
         \/ Arrive(k) \/ Serve(k) \/ HandlerFault(k)
<1>0. req \in [Handlers -> Requests]
  BY DEF TypeOK, ApiTypeOK
<1>1. ASSUME NEW h \in Handlers, h # k, Arrive(h) \/ Serve(h) \/ HandlerFault(h)
      PROVE  req'[k] = req[k]
  BY <1>0, <1>1 DEF Arrive, BeginGenerate, BeginActiveJob, BeginStatus, Begin, Serve,
     ListProcessing, ListQueue, CheckJob, EndScan, Enqueue, RetryEnqueue, ReadStatus,
     FindInQueue, FindInProcessing, HandlerFault, CheckJobUnreadable, ScanFails,
     EnqueueUnreachable, EnqueueReplyLost, RetryUnreachable, StatusUnreachable,
     UseJob, SkipJob, AfterScan, Respond
<1>2. CASE ApiNext
  BY <1>1, <1>2 DEF ApiNext, ApiRestart
<1>3. CASE UNCHANGED apiVars
  BY <1>3 DEF apiVars
<1> QED BY <1>2, <1>3 DEF Next, vars, apiVars

LEMMA ResponseFacts ==
  ASSUME TypeOK, NEW k \in Handlers, NEW code, NEW answer, Respond(k, code, answer)
  PROVE  /\ req'[k].pc = "idle" /\ req'[k].code = code /\ req'[k].answer = answer
         /\ req'[k].before = req[k].before /\ req'[k].count = req[k].count
         /\ req'[k].job = req[k].job /\ req'[k].op = req[k].op
BY DEF TypeOK, ApiTypeOK, Respond

\* Scanned is kept by every step up to the first error.
LEMMA ScanStep ==
  ASSUME TypeOK, Tidy, NoExecLost, [Next]_vars, UNCHANGED faults,
         NEW k \in Handlers, Scanned(k)
  PROVE  Scanned(k)'
<1> DEFINE r == req[k]
           SameRequest == r'.before = r.before /\ r'.count = r.count /\ r'.op = r.op
<1>0. /\ r \in Requests /\ req \in [Handlers -> Requests]
      /\ status \in [Jobs -> Statuses] /\ created \in Nat /\ created' \in Nat
      /\ queue \in Seq(Jobs) /\ faults \in Nat
  <2>1. created \in Nat /\ created' \in Nat
    BY OldJobs, NextTypeOK DEF TypeOK, StoreTypeOK, Tidy
  <2> QED BY <2>1 DEF TypeOK, ApiTypeOK, StoreTypeOK
<1>1. /\ created' >= created
      /\ \A j \in Range(queue') : j <= created => j \in Range(queue)
  BY OldJobs DEF Tidy
<1>2. \A j \in r.before : j \in Jobs /\ j \in Nat /\ j <= created
  BY <1>0 DEF Scanned, Requests, Jobs
<1>3. r'.before = r.before => Waiting(k)' \subseteq Waiting(k) /\ \A j \in r'.before : j <= created'
  <2>1. ASSUME NEW j \in Nat, j <= created PROVE j <= created'
    BY <1>0, <1>1, <2>1
  <2> QED BY <1>1, <1>2, <2>1 DEF Waiting
<1>4. CASE req'[k] = req[k]
  BY <1>3, <1>4 DEF Scanned
<1>5. CASE req'[k] = NoRequest
  BY <1>5 DEF Scanned, NoRequest, Waiting
<1>6. CASE Arrive(k)
  <2>1. \A j \in ActiveJobs : j <= created
    BY <1>0, StatusFacts DEF ActiveJobs, Jobs, Tidy, Clean, Accounting, FreshIsUnknown
  <2>2. /\ r'.before = ActiveJobs /\ r'.code = "none" /\ r'.seen = {} /\ r'.answer = {}
        /\ r'.pc \in {"lrangeProcessing", "hgetall", "enqueue"}
        /\ r'.pc = "enqueue" => r'.count # 1
        /\ created' = created
    BY <1>0, <1>6 DEF Arrive, BeginGenerate, BeginActiveJob, BeginStatus, Begin, storeVars
  <2> QED BY <2>1, <2>2 DEF Scanned
<1>7. CASE ListProcessing(k)
  <2>1. /\ SameRequest /\ r'.seen = r.seen /\ r'.answer = r.answer /\ r'.code = r.code
        /\ r'.pc = "checkProcessing" /\ r.pc = "lrangeProcessing"
    BY <1>0, <1>7 DEF ListProcessing, Requests
  <2> QED BY <1>3, <2>1 DEF Scanned
<1>8. CASE ListQueue(k)
  <2>1. /\ SameRequest /\ r'.seen = r.seen /\ r'.answer = r.answer /\ r'.code = r.code
        /\ r'.pc = "checkQueue" /\ r.pc = "checkProcessing" /\ r'.todo = Range(queue) \ r.seen
    BY <1>0, <1>8 DEF ListQueue, Requests
  <2> QED BY <1>3, <2>1 DEF Scanned, Waiting
<1>9. CASE CheckJob(k)
  <2>1. PICK j \in r.todo :
          /\ At(k, "checkProcessing") \/ At(k, "checkQueue")
          /\ IF status[j] \in ActiveStatuses \union {"absent"} THEN UseJob(k, j) ELSE SkipJob(k, j)
    BY <1>9 DEF CheckJob
  <2>2. CASE UseJob(k, j) /\ r.op = "generate"
    <3>1. Respond(k, "reused", {j})
      BY <2>2 DEF UseJob
    <3> QED BY <1>3, <3>1, ResponseFacts DEF Scanned
  <2>3. CASE UseJob(k, j) /\ r.op # "generate"
    <3>1. /\ SameRequest /\ r'.code = r.code /\ r'.pc = r.pc /\ r'.todo = r.todo \ {j}
          /\ r'.seen = r.seen \union {j} /\ r'.answer = r.answer \union {j}
      BY <1>0, <2>3 DEF UseJob, Requests
    <3> QED BY <1>3, <2>1, <2>3, <3>1 DEF Scanned
  <2>4. CASE SkipJob(k, j) /\ status[j] \notin ActiveStatuses \union {"absent"}
    <3>1. /\ SameRequest /\ r'.code = r.code /\ r'.pc = r.pc /\ r'.todo = r.todo \ {j}
          /\ r'.answer = r.answer
          /\ r'.seen = IF r.op = "active_job" THEN r.seen \union {j} ELSE r.seen
      BY <1>0, <2>4 DEF SkipJob, Requests
    <3>2. j \notin Range(queue)
      BY <2>4, StatusFacts DEF Tidy, Clean, Accounting, PendingIsQueued
    <3>3. r.op = "active_job" => r.op # "generate"
      OBVIOUS
    <3> QED BY <1>3, <2>1, <3>1, <3>2, <3>3 DEF Scanned, Waiting
  <2> QED BY <2>1, <2>2, <2>3, <2>4
<1>10. CASE EndScan(k)
  <2>1. CASE r.op = "generate"
    <3>1. /\ SameRequest /\ r'.code = r.code /\ r'.pc = "enqueue" /\ r.pc = "checkQueue"
          /\ r'.answer = r.answer /\ r'.seen = r.seen /\ r.todo = {}
      BY <1>0, <1>10, <2>1 DEF EndScan, AfterScan, Requests
    <3> QED BY <1>3, <2>1, <3>1 DEF Scanned
  <2>2. CASE r.op # "generate"
    <3>1. Respond(k, "listed", r.answer) /\ r.pc = "checkQueue" /\ r.todo = {}
      BY <1>10, <2>2 DEF EndScan, AfterScan
    <3> QED BY <1>3, <3>1, ResponseFacts DEF Scanned
  <2> QED BY <2>1, <2>2
<1>11. CASE Enqueue(k) \/ RetryEnqueue(k)
  <2>1. Enqueue(k)
    BY <1>11 DEF RetryEnqueue, Tidy, Clean, NothingRetried
  <2>2. Respond(k, "created", created + 1 .. created + r.count) /\ r.pc = "enqueue"
    BY <2>1 DEF Enqueue
  <2> QED BY <1>3, <2>2, ResponseFacts DEF Scanned
<1>12. CASE ReadStatus(k) \/ FindInQueue(k) \/ FindInProcessing(k)
  <2>1. ASSUME NEW code \in Statuses \union {"notFound"}, NEW answer, Respond(k, code, answer)
        PROVE  Scanned(k)'
    BY <1>3, <2>1, StatusFacts, ResponseFacts DEF Scanned
  <2>2. ASSUME NEW p \in {"lposQueue", "lposProcessing"}, r.pc # "idle",
               req' = [req EXCEPT ![k].pc = p]
        PROVE  Scanned(k)'
    <3>1. /\ SameRequest /\ r'.code = r.code /\ r'.pc = p
          /\ r'.answer = r.answer /\ r'.seen = r.seen
      BY <1>0, <2>2 DEF Requests
    <3> QED BY <1>3, <2>2, <3>1 DEF Scanned
  <2>3. r.pc = "hgetall" => r.job \in Jobs
    BY DEF TypeOK, ApiTypeOK
  <2>4. "queued" \in Statuses
    BY StatusFacts
  <2> QED BY <1>0, <1>12, <2>1, <2>2, <2>3, <2>4 DEF ReadStatus, FindInQueue, FindInProcessing
<1>13. CASE HandlerFault(k)
  BY <1>0, <1>13 DEF HandlerFault, CheckJobUnreadable, ScanFails, EnqueueUnreachable,
     EnqueueReplyLost, RetryUnreachable, StatusUnreachable, Unreachable, ReplyLost, Fault
<1> QED BY <1>4, <1>5, <1>6, <1>7, <1>8, <1>9, <1>10, <1>11, <1>12, <1>13, RequestSteps DEF Serve

\* Whatever interleaves with its LRANGEs and HGETALLs, a scan that meets no error finds
\* every job that was pending all along: it can move behind the scan only by being
\* claimed, and then it is no longer pending.
THEOREM ScanSeesPendingHolds == Spec => []ScanSeesPending
<1>1. Init => ScanInv
  BY DEF Init, ApiInit, NoRequest, ScanInv, Scanned, Waiting
<1>2. ASSUME TypeOK, CleanTidy, ScanInv, [Next]_vars, faults' = 0
      PROVE  \A k \in Handlers : Scanned(k)'
  <2>1. faults = 0 /\ NoExecLost
    BY <1>2, FailuresCounted DEF NoExecLost
  <2> QED BY <1>2, <2>1, ScanStep DEF CleanTidy, ScanInv
<1>3. TypeOK /\ CleanTidy /\ ScanInv /\ [Next]_vars => ScanInv'
  BY <1>2 DEF ScanInv
<1>4. ScanInv => ScanSeesPending
  BY DEF ScanInv, Scanned, Waiting, ScanSeesPending
<1> QED BY <1>1, <1>3, <1>4, CleanTidyHolds, TypeCorrect, PTL DEF Spec

\* Handler k is on its way through the lookups of GET /status, or has said 404, in two
\* states in a row: nothing it knows has changed.
SearchGoesOn(k) ==
  /\ Searching(k)
  /\ req'[k].job = req[k].job /\ req'[k].before = req[k].before
  /\ req'[k].pc = "lposProcessing" => req[k].pc = "lposProcessing"
  /\ req'[k].code = "notFound" => req[k].code = "notFound"

LEMMA SearchSteps ==
  ASSUME TypeOK, NEW k \in Handlers, Searching(k)',
         Arrive(k) \/ Serve(k) \/ HandlerFault(k)
  PROVE  \/ SearchGoesOn(k) \/ ReadStatus(k) \/ FindInQueue(k) \/ FindInProcessing(k)
         \/ StatusUnreachable(k)
<1> DEFINE r == req[k]
<1>0. r \in Requests /\ req \in [Handlers -> Requests]
  BY DEF TypeOK, ApiTypeOK
<1>1. ~Arrive(k)
  BY <1>0 DEF Searching, Arrive, BeginGenerate, BeginActiveJob, BeginStatus, Begin
<1>2. ASSUME NEW code \in {"reused", "listed", "created", "unavailable"}, NEW answer
      PROVE  ~Respond(k, code, answer)
  BY <1>2, ResponseFacts DEF Searching
<1>3. ASSUME r'.job = r.job, r'.before = r.before, r'.code = r.code,
             r'.pc \notin {"lposQueue", "lposProcessing"}
      PROVE  SearchGoesOn(k)
  BY <1>3 DEF Searching, SearchGoesOn
<1>4. CASE ListProcessing(k) \/ ListQueue(k)
  BY <1>0, <1>3, <1>4 DEF ListProcessing, ListQueue, Requests
<1>5. ASSUME NEW j, At(k, "checkProcessing") \/ At(k, "checkQueue"), UseJob(k, j) \/ SkipJob(k, j)
      PROVE  SearchGoesOn(k)
  BY <1>0, <1>2, <1>3, <1>5 DEF UseJob, SkipJob, Requests
<1>6. ASSUME AfterScan(k)
      PROVE  SearchGoesOn(k)
  BY <1>0, <1>2, <1>3, <1>6 DEF AfterScan, Requests
<1>7. CASE CheckJob(k) \/ EndScan(k)
  BY <1>5, <1>6, <1>7 DEF CheckJob, EndScan
<1>8. CASE CheckJobUnreadable(k) \/ ScanFails(k)
  BY <1>5, <1>6, <1>8 DEF CheckJobUnreadable, ScanFails
<1>9. CASE EnqueueReplyLost(k)
  BY <1>0, <1>3, <1>9 DEF EnqueueReplyLost, Requests
<1>10. ~Enqueue(k) /\ ~RetryEnqueue(k) /\ ~EnqueueUnreachable(k) /\ ~RetryUnreachable(k)
  BY <1>2 DEF Enqueue, RetryEnqueue, EnqueueUnreachable, RetryUnreachable
<1> QED BY <1>1, <1>4, <1>7, <1>8, <1>9, <1>10 DEF Serve, HandlerFault

LEMMA SearchStep ==
  ASSUME TypeOK, CleanTidy, KnownBefore, [Next]_vars, NEW k \in Handlers, Sought(k)
  PROVE  Sought(k)'
<1> DEFINE r == req[k]
           Gone == /\ r'.pc = "lposProcessing" => r'.job \notin Range(queue')
                   /\ r'.code = "notFound" => r'.job \notin ActiveJobs'
<1> SUFFICES ASSUME r'.job \in r'.before, Searching(k)', faults' <= 1
             PROVE  faults' = 1 /\ Tidy' /\ Gone
  BY DEF Sought
<1>0. /\ r \in Requests /\ req \in [Handlers -> Requests] /\ created \in Nat
      /\ faults \in Nat /\ faults' \in Nat /\ faults' >= faults
  BY FailuresCounted DEF TypeOK, ApiTypeOK, StoreTypeOK
<1>1. ASSUME r.job \in r.before, Searching(k)
      PROVE  /\ faults = 1 /\ faults' = 1 /\ NoExecLost /\ Tidy /\ Tidy'
             /\ r.job \notin Range(queue) => r.job \notin Range(queue')
             /\ r.job \notin ActiveJobs => r.job \notin ActiveJobs'
  <2>1. faults = 1 /\ Tidy
    BY <1>0, <1>1 DEF Sought
  <2>2. faults' = 1 /\ NoExecLost
    BY <1>0, <2>1, FailuresCounted DEF NoExecLost
  <2>3. r.job \in Jobs /\ status[r.job] # "absent"
    BY <1>0, <1>1 DEF KnownBefore, Requests
  <2>4. r.job <= created
    BY <1>0, <2>1, <2>3 DEF Tidy, Clean, Accounting, FreshIsUnknown, Jobs
  <2>5. r.job \notin Range(queue) => r.job \notin Range(queue')
    BY <2>1, <2>2, <2>4, OldJobs DEF Tidy
  <2> QED BY <2>1, <2>2, <2>3, <2>5, TidyStep
<1>2. CASE SearchGoesOn(k)
  BY <1>1, <1>2 DEF SearchGoesOn, Sought
<1>3. CASE req'[k] = req[k]
  BY <1>2, <1>3 DEF SearchGoesOn, Searching
<1>4. CASE req'[k] = NoRequest
  BY <1>4 DEF NoRequest
<1>5. CASE ReadStatus(k)
  <2>1. r.job \in Jobs
    BY <1>0, <1>5 DEF ReadStatus, TypeOK, ApiTypeOK
  <2>2. status[r.job] # "notFound"
    BY <2>1, StatusFacts DEF TypeOK, StoreTypeOK
  <2>3. ~Respond(k, status[r.job], {r.job})
    BY <2>2, ResponseFacts DEF Searching
  <2>4. req' = [req EXCEPT ![k].pc = "lposQueue"] /\ status[r.job] = "absent"
    BY <1>5, <2>3 DEF ReadStatus
  <2>5. r.job \in r.before
    BY <1>0, <2>4 DEF Requests
  <2> QED BY <2>4, <2>5 DEF KnownBefore
<1>6. CASE FindInQueue(k)
  <2>1. ~Respond(k, "queued", {r.job})
    BY ResponseFacts DEF Searching
  <2>2. /\ r.job \notin Range(queue) /\ r.pc = "lposQueue" /\ r'.pc = "lposProcessing"
        /\ r'.job = r.job /\ r'.before = r.before /\ r'.code = r.code
    BY <1>0, <1>6, <2>1 DEF FindInQueue, Requests
  <2> QED BY <1>1, <2>2 DEF Searching, Sought
<1>7. CASE FindInProcessing(k)
  <2>1. ~Respond(k, "queued", {r.job})
    BY ResponseFacts DEF Searching
  <2>2. /\ r.job \notin InProcessing /\ r.pc = "lposProcessing" /\ r'.pc = "idle"
        /\ r'.job = r.job /\ r'.before = r.before
    BY <1>0, <1>7, <2>1, ResponseFacts DEF FindInProcessing
  <2>3. Searching(k) /\ r.job \notin Range(queue) /\ Tidy
    BY <1>1, <2>2 DEF Searching, Sought
  <2>4. r.job \notin ActiveJobs
    BY <2>2, <2>3 DEF Tidy, Clean, Accounting, ActiveIsListed, Listed
  <2> QED BY <1>1, <2>2, <2>3, <2>4
<1>8. CASE StatusUnreachable(k)
  <2>1. faults = 0 /\ faults' = 1 /\ UNCHANGED <<queue, status>>
    BY <1>0, <1>8 DEF StatusUnreachable, Unreachable, Fault
  <2>2. r'.job = r.job /\ r'.before = r.before
    BY <1>0, <1>8, ResponseFacts DEF StatusUnreachable, Requests
  <2>3. ~Searching(k)
    BY <1>1, <2>1, <2>2
  <2>4. req' = [req EXCEPT ![k].pc = "lposQueue"] /\ r.pc = "hgetall" /\ r.code # "notFound"
    BY <1>8, <2>3 DEF StatusUnreachable, Searching
  <2>5. r'.pc = "lposQueue" /\ r'.code # "notFound"
    BY <1>0, <2>4 DEF Requests
  <2>6. NoExecLost
    <3> SUFFICES ASSUME NEW h \in Handlers, EnqueueReplyLost(h) PROVE FALSE
      BY DEF NoExecLost
    <3>1. req[h].pc = "enqueue" /\ req'[h].pc = "retryEnqueue"
      BY <1>0 DEF EnqueueReplyLost, Requests
    <3>2. h # k
      BY <2>4, <3>1
    <3> QED BY <1>0, <2>4, <3>1, <3>2
  <2>7. Tidy'
    BY <2>1, <2>6, TidyStep DEF CleanTidy
  <2> QED BY <2>1, <2>5, <2>7
<1> QED BY <1>2, <1>3, <1>4, <1>5, <1>6, <1>7, <1>8, RequestSteps, SearchSteps

LEMMA KnownBeforeStep ==
  ASSUME TypeOK, KnownBefore, [Next]_vars
  PROVE  KnownBefore'
<1> SUFFICES ASSUME NEW k \in Handlers, NEW j \in req'[k].before
             PROVE  status'[j] # "absent"
  BY DEF KnownBefore
<1>0. req[k] \in Requests /\ req \in [Handlers -> Requests] /\ status \in [Jobs -> Statuses]
  BY DEF TypeOK, ApiTypeOK, StoreTypeOK
<1>1. CASE req'[k].before = req[k].before
  BY <1>0, <1>1, HashStays DEF KnownBefore, Requests
<1>2. CASE req'[k] = NoRequest
  BY <1>2 DEF NoRequest
<1>3. CASE Arrive(k)
  <2>1. req'[k].before = ActiveJobs /\ status' = status
    BY <1>0, <1>3 DEF Arrive, BeginGenerate, BeginActiveJob, BeginStatus, Begin, storeVars
  <2> QED BY <2>1, StatusFacts DEF ActiveJobs
<1>4. CASE Serve(k) \/ HandlerFault(k)
  <2>1. ASSUME NEW x, UseJob(k, x) \/ SkipJob(k, x) \/ AfterScan(k)
        PROVE  req'[k].before = req[k].before
    BY <1>0, <2>1, ResponseFacts DEF UseJob, SkipJob, AfterScan, Requests
  <2>2. CASE Serve(k)
    BY <1>0, <1>1, <2>1, <2>2, ResponseFacts DEF Serve, ListProcessing, ListQueue, CheckJob,
       EndScan, Enqueue, RetryEnqueue, ReadStatus, FindInQueue, FindInProcessing, Requests
  <2>3. CASE HandlerFault(k)
    BY <1>0, <1>1, <2>1, <2>3, ResponseFacts DEF HandlerFault, CheckJobUnreadable, ScanFails,
       EnqueueUnreachable, EnqueueReplyLost, RetryUnreachable, StatusUnreachable, Requests
  <2> QED BY <1>4, <2>2, <2>3
<1> QED BY <1>1, <1>2, <1>3, <1>4, RequestSteps

\* GET /status looks for a job it cannot read in the pending and then in the processing
\* list, the order in which jobs move: with one error at most it never says 404 of a job
\* that was active all along, wherever a worker takes it in the meantime.
THEOREM ActiveIsFoundHolds == Spec => []ActiveIsFound
<1>1. Init => SearchInv
  BY DEF Init, ApiInit, NoRequest, SearchInv, KnownBefore, Sought
<1>2. TypeOK /\ CleanTidy /\ SearchInv /\ [Next]_vars => SearchInv'
  BY SearchStep, KnownBeforeStep DEF SearchInv
<1>3. SearchInv => ActiveIsFound
  BY DEF SearchInv, Sought, Searching, ActiveIsFound
<1> QED BY <1>1, <1>2, <1>3, CleanTidyHolds, TypeCorrect, PTL DEF Spec
=============================================================================
