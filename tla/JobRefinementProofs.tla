------------------------- MODULE JobRefinementProofs -------------------------
(***************************************************************************)
(* The job system implements JobLifecycle: every job is handed out at most *)
(* once, moves through its statuses in order, and its outcome is final.    *)
(* Two things the client's retries can do break that, and the theorems are *)
(* about the behaviours without them: an EXEC applied twice queues its     *)
(* jobs twice, and a worker that does not hear that "complete" was written *)
(* writes "failed" over it.                                                *)
(***************************************************************************)
EXTENDS JobSafetyProofs

USE DEF Goto, WorkerAt, At, NoJob

\* What a step does to the pending list, the hashes and the holders.
Quiet == UNCHANGED <<queue, status, held>>
Submits == \E n \in Nat : /\ created + n <= MaxJobs
                          /\ EnqueueBatch(FreshIds(created, n))
                          /\ UNCHANGED workerVars
Releases(w) == /\ held' = [held EXCEPT ![w] = NoJob]
               /\ UNCHANGED <<queue, status>>
Marks(w) == SetRunning(w) \/ SetComplete(w) \/ SetFailed(w) \/ MarkReplyLost(w)

\* In this step no worker misses the answer to its "complete", which would make it
\* write "failed" next.
CompletionHeard == \A w \in Workers : ~SetCompleteReplyLost(w)

\* No EXEC has been applied twice, before the step and after it.
QueuedOnce == twice = {} /\ twice' = {}

LEMMA StepKinds ==
  ASSUME TypeOK, Accounting, QueuedOnce, CompletionHeard, [Next]_vars
  PROVE  \/ Quiet
         \/ Submits
         \/ \E w \in Workers : Pop(w) \/ PopReplyLost(w) \/ Marks(w) \/ Releases(w)
<1>1. ASSUME NEW h \in Handlers, Arrive(h) \/ Serve(h) \/ HandlerFault(h),
             UNCHANGED workerVars
      PROVE  Quiet \/ Submits
  <2>0. /\ req[h].count \in Nat /\ req[h].base \in Nat /\ created \in Nat
        /\ created <= MaxJobs
    BY MaxJobsAssumption DEF TypeOK, StoreTypeOK, ApiTypeOK, Requests
  <2>1. CASE Enqueue(h) \/ EnqueueReplyLost(h)
    BY <1>1, <2>0, <2>1 DEF Enqueue, EnqueueReplyLost, Submits
  <2>2. CASE RetryEnqueue(h)
    <3>1. req[h].count = 0
      <4> SUFFICES ASSUME req[h].count > 0 PROVE FALSE
        BY <2>0
      <4>1. req[h].base + 1 \in req[h].base + 1 .. req[h].base + req[h].count
        BY <2>0
      <4>2. twice' = twice \union (req[h].base + 1 .. req[h].base + req[h].count)
        BY <2>2 DEF RetryEnqueue
      <4> QED BY <4>1, <4>2 DEF QueuedOnce
    <3>2. FreshIds(req[h].base, 0) = FreshIds(created, 0)
      BY <2>0 DEF FreshIds
    <3>3. EnqueueBatch(FreshIds(created, 0)) /\ created + 0 <= MaxJobs
      BY <2>0, <2>2, <3>1, <3>2 DEF RetryEnqueue
    <3> QED BY <1>1, <3>3 DEF Submits
  <2>3. CASE Arrive(h)
    BY <1>1, <2>3 DEF Arrive, BeginGenerate, BeginActiveJob, BeginStatus, Begin, storeVars,
                      workerVars, Quiet
  <2>4. CASE Serve(h) /\ ~Enqueue(h) /\ ~RetryEnqueue(h)
    BY <1>1, <2>4 DEF Serve, ListProcessing, ListQueue, CheckJob, EndScan, ReadStatus,
                      FindInQueue, FindInProcessing, storeVars, workerVars, Quiet
  <2>5. CASE HandlerFault(h) /\ ~EnqueueReplyLost(h)
    BY <1>1, <2>5 DEF HandlerFault, CheckJobUnreadable, ScanFails, EnqueueUnreachable,
                      RetryUnreachable, StatusUnreachable, Unreachable, workerVars, Quiet
  <2> QED BY <1>1, <2>1, <2>2, <2>3, <2>4, <2>5
<1>2. ASSUME NEW w \in Workers, WorkerStep(w) \/ WorkerFault(w)
      PROVE  Quiet \/ Pop(w) \/ PopReplyLost(w) \/ Marks(w) \/ Releases(w)
  <2>1. CASE WorkerStep(w)
    BY <2>1 DEF WorkerStep, Connect, Ping, GenerateReturns, GenerateRaises, CompleteJob,
                EndBody, Restart, storeVars, Quiet, Marks, Releases
  <2>2. ~SetCompleteReplyLost(w)
    BY DEF CompletionHeard
  <2>3. CASE WorkerFault(w)
    BY <2>2, <2>3 DEF WorkerFault, ConnectGivesUp, PingFails, PopUnreachable,
                MarkUnreachable, SetCompleteUnreachable, CompleteJobUnreachable, Crash,
                Unreachable, Die, EndBody, workerVars, storeVars, Quiet, Releases, Marks
  <2> QED BY <1>2, <2>1, <2>3
<1>3. CASE ApiNext /\ UNCHANGED workerVars
  <2>1. CASE ApiRestart
    BY <1>3, <2>1 DEF ApiRestart, storeVars, workerVars, Quiet
  <2> QED BY <1>1, <1>3, <2>1 DEF ApiNext
<1>4. CASE WorkerNext /\ UNCHANGED apiVars
  BY <1>2, <1>4 DEF WorkerNext
<1>5. CASE UNCHANGED vars
  BY <1>5 DEF vars, storeVars, workerVars, Quiet
<1> QED BY <1>3, <1>4, <1>5 DEF Next

-----------------------------------------------------------------------------
(* The worker's place in its loop and the status of its job agree.         *)

\* Worker w writes s to the hash of its job and goes on from there, or dies.
Writes(w, s) ==
  /\ SetStatus(held[w], s)
  /\ wpc[w] \in BodyPcs
  /\ \/ s = "running" /\ wpc' = [wpc EXCEPT ![w] = "generating"] /\ held' = held
     \/ s \in Terminal /\ wpc' = [wpc EXCEPT ![w] = "cleanup"] /\ held' = held
     \/ wpc' = [wpc EXCEPT ![w] = "down"] /\ held' = [held EXCEPT ![w] = NoJob]

LEMMA PhaseStep ==
  ASSUME TypeOK, Accounting, PhaseMatchesStatus, QueuedOnce, CompletionHeard, [Next]_vars
  PROVE  PhaseMatchesStatus'
<1>0. /\ wpc \in [Workers -> WorkerPcs] /\ held \in [Workers -> Jobs \union {NoJob}]
      /\ status \in [Jobs -> Statuses] /\ queue \in Seq(Jobs)
      /\ \A v \in Workers : wpc[v] \in BodyPcs => held[v] \in Jobs /\ held[v] # NoJob
      /\ BodyPcs = {"claimed", "generating", "generated", "failing", "cleanup"}
  BY DEF TypeOK, WorkerTypeOK, StoreTypeOK, BodyPcs, Jobs
<1>1. CASE Submits
  <2> SUFFICES ASSUME NEW w \in Workers, wpc[w] \in BodyPcs
               PROVE  status'[held[w]] = status[held[w]]
    BY <1>0, <1>1 DEF PhaseMatchesStatus, Submits, workerVars
  <2>1. PICK n \in Nat : created + n <= MaxJobs /\ EnqueueBatch(FreshIds(created, n))
    BY <1>1 DEF Submits
  <2>2. held[w] \in Jobs /\ held[w] \in Listed
    BY <1>0 DEF Accounting, HeldIsProcessing, Listed, QueuedOnce
  <2>3. created \in Nat
    BY DEF TypeOK, StoreTypeOK
  <2>4. Range(FreshIds(created, n)) = created + 1 .. created + n
    BY <2>1, <2>3, FreshIdsFacts
  <2>5. held[w] \notin Range(FreshIds(created, n))
    BY <2>2, <2>3, <2>4 DEF Accounting, FreshIsUnknown
  <2> QED BY <2>1, <2>2, <2>5 DEF EnqueueBatch
<1>2. ASSUME NEW w \in Workers, UNCHANGED status, NEW p \in WorkerPcs,
             wpc' = [wpc EXCEPT ![w] = p],
             held' = held \/ held' = [held EXCEPT ![w] = NoJob],
             p \in BodyPcs => held' = held,
             \/ p \notin BodyPcs
             \/ wpc[w] = "generating" /\ p \in {"generated", "failing"}
             \/ wpc[w] = "generated" /\ p = "failing"
      PROVE  PhaseMatchesStatus'
  BY <1>0, <1>2 DEF PhaseMatchesStatus
<1>3. ASSUME NEW w \in Workers, Pop(w) PROVE PhaseMatchesStatus'
  <2>1. NewestQueued \in Jobs /\ NewestQueued \in Range(queue)
    BY <1>0, <1>3, PopFacts DEF Pop, MoveToProcessing, NewestQueued
  <2>2. status[NewestQueued] = "queued"
    BY <2>1 DEF Accounting, PendingIsQueued, QueuedOnce
  <2>3. /\ wpc' = [wpc EXCEPT ![w] = "claimed"] /\ status' = status
        /\ held' = [held EXCEPT ![w] = NewestQueued]
    BY <1>3 DEF Pop
  <2> QED BY <1>0, <2>2, <2>3 DEF PhaseMatchesStatus
<1>4. ASSUME NEW w \in Workers, NEW s \in Statuses, Writes(w, s)
      PROVE  PhaseMatchesStatus'
  <2>1. status'[held[w]] = s
    BY <1>0, <1>4 DEF Writes, SetStatus
  <2>2. \A v \in Workers : v # w /\ wpc[v] \in BodyPcs =>
          status'[held[v]] = status[held[v]]
    BY <1>0, <1>4 DEF Writes, SetStatus, Accounting, ExclusiveClaim, QueuedOnce
  <2> QED BY <1>0, <1>4, <2>1, <2>2 DEF Writes, PhaseMatchesStatus
<1>5. ASSUME NEW w \in Workers, WorkerStep(w) PROVE PhaseMatchesStatus'
  <2>1. CASE SetRunning(w) \/ SetComplete(w) \/ SetFailed(w)
    <3>1. CASE SetRunning(w)
      <4>1. Writes(w, "running")
        BY <3>1 DEF SetRunning, Writes, BodyPcs
      <4> QED BY <1>4, <4>1, StatusFacts
    <3>2. CASE SetComplete(w)
      <4>1. Writes(w, "complete")
        BY <3>2, StatusFacts DEF SetComplete, Writes, BodyPcs
      <4> QED BY <1>4, <4>1, StatusFacts
    <3>3. CASE SetFailed(w)
      <4>1. Writes(w, "failed")
        BY <3>3, StatusFacts DEF SetFailed, Writes, BodyPcs
      <4> QED BY <1>4, <4>1, StatusFacts
    <3> QED BY <2>1, <3>1, <3>2, <3>3
  <2>2. CASE Connect(w) \/ Ping(w) \/ GenerateReturns(w) \/ GenerateRaises(w)
             \/ CompleteJob(w) \/ Restart(w)
    BY <1>0, <1>2, <2>2 DEF Connect, Ping, GenerateReturns, GenerateRaises, CompleteJob,
         EndBody, Restart, storeVars, WorkerPcs
  <2> QED BY <1>3, <1>5, <2>1, <2>2 DEF WorkerStep
<1>6. ASSUME NEW w \in Workers, WorkerFault(w) PROVE PhaseMatchesStatus'
  <2>1. ~SetCompleteReplyLost(w)
    BY DEF CompletionHeard
  <2>2. CASE PingFails(w)
    BY <2>2 DEF PingFails, Unreachable, workerVars, PhaseMatchesStatus
  <2>3. CASE ConnectGivesUp(w) \/ PopUnreachable(w) \/ PopReplyLost(w) \/ MarkUnreachable(w)
             \/ SetCompleteUnreachable(w) \/ CompleteJobUnreachable(w) \/ Crash(w)
    BY <1>0, <1>2, <2>3 DEF ConnectGivesUp, PopUnreachable, PopReplyLost, MarkUnreachable,
         SetCompleteUnreachable, CompleteJobUnreachable, Crash, Unreachable, Die, EndBody,
         storeVars, WorkerPcs
  <2>4. CASE MarkReplyLost(w)
    <3>1. Writes(w, "running") \/ Writes(w, "failed")
      BY <2>4 DEF MarkReplyLost, Die, Writes, BodyPcs
    <3> QED BY <1>4, <3>1, StatusFacts
  <2> QED BY <1>6, <2>1, <2>2, <2>3, <2>4 DEF WorkerFault
<1>7. CASE WorkerNext
  BY <1>5, <1>6, <1>7 DEF WorkerNext
<1>8. CASE UNCHANGED workerVars
  <2>1. Quiet \/ Submits \/ \E w \in Workers : Pop(w) \/ PopReplyLost(w) \/ Marks(w) \/ Releases(w)
    BY StepKinds
  <2>2. CASE UNCHANGED status
    BY <1>8, <2>2 DEF PhaseMatchesStatus, workerVars
  <2>3. CASE \E w \in Workers : Marks(w)
    BY <1>0, <1>8, <2>3 DEF Marks, SetRunning, SetComplete, SetFailed, MarkReplyLost, Die, workerVars
  <2> QED BY <1>1, <2>1, <2>2, <2>3 DEF Quiet, Pop, PopReplyLost, Releases
<1> QED BY <1>7, <1>8 DEF Next, vars

\* A worker's place in its loop and the status of its job never disagree, as long as
\* no EXEC is applied twice and no worker misses the answer to its "complete".
THEOREM PhaseMatchesStatusHolds ==
  Spec /\ [](twice = {}) /\ [][CompletionHeard]_vars => []PhaseMatchesStatus
<1>1. Init => PhaseMatchesStatus
  BY DEF Init, WorkerInit, PhaseMatchesStatus
<1>2. /\ TypeOK /\ Accounting /\ PhaseMatchesStatus /\ [Next]_vars
      /\ twice = {} /\ (twice = {})' /\ [CompletionHeard]_vars
      => PhaseMatchesStatus'
  <2>1. ASSUME PhaseMatchesStatus, UNCHANGED vars PROVE PhaseMatchesStatus'
    BY <2>1 DEF PhaseMatchesStatus, vars, storeVars, workerVars
  <2> QED BY <2>1, PhaseStep DEF QueuedOnce
<1>3. Spec => []Accounting
  BY AccountingHolds
<1> QED BY <1>1, <1>2, <1>3, TypeCorrect, PTL DEF Spec

-----------------------------------------------------------------------------
(* Outcomes are final, and the steps are those of the service.             *)

\* A batch consists of ids of which nothing is known yet.
LEMMA SubmittedAreFresh ==
  ASSUME TypeOK, Accounting, NEW n \in Nat, created + n <= MaxJobs
  PROVE  /\ FreshIds(created, n) \in Seq(Jobs)
         /\ \A j \in Range(FreshIds(created, n)) :
               j \in Jobs /\ status[j] = "absent" /\ j \notin Range(queue)
<1>1. created \in Nat
  BY DEF TypeOK, StoreTypeOK
<1>2. /\ FreshIds(created, n) \in Seq(Jobs)
      /\ Range(FreshIds(created, n)) = created + 1 .. created + n
  BY <1>1, FreshIdsFacts
<1>3. Range(FreshIds(created, n)) \subseteq Jobs
  BY <1>2, RangeOfSeq
<1>4. \A j \in Range(FreshIds(created, n)) : j > created
  BY <1>1, <1>2
<1> QED BY <1>2, <1>3, <1>4 DEF Accounting, FreshIsUnknown, Listed

\* The job a worker marks is in its hands, unfinished, and not pending.
LEMMA MarkedIsInHand ==
  ASSUME TypeOK, Accounting, PhaseMatchesStatus, QueuedOnce, NEW w \in Workers, Marks(w)
  PROVE  /\ held[w] \in Jobs /\ held[w] # NoJob /\ held[w] \notin Range(queue)
         /\ UNCHANGED queue
         /\ held' = held \/ held' = [held EXCEPT ![w] = NoJob]
         /\ \/ status[held[w]] = "queued" /\ SetStatus(held[w], "running")
            \/ status[held[w]] = "running" /\ SetStatus(held[w], "complete")
            \/ status[held[w]] = "running" /\ SetStatus(held[w], "failed")
<1>1. wpc[w] \in BodyPcs
  BY DEF Marks, SetRunning, SetComplete, SetFailed, MarkReplyLost, BodyPcs
<1>2. held[w] \in Jobs /\ held[w] # NoJob
  BY <1>1 DEF TypeOK, WorkerTypeOK, Jobs
<1>3. held[w] \notin Range(queue)
  BY <1>2 DEF Accounting, HeldIsProcessing, ListedOnce, QueuedOnce
<1> QED BY <1>2, <1>3 DEF Marks, SetRunning, SetComplete, SetFailed, MarkReplyLost, Die,
                              PhaseMatchesStatus

\* The status of a finished job never changes again, whoever writes, as long as no EXEC
\* is applied twice and no worker misses the answer to its "complete".
THEOREM TerminalIsFinalHolds ==
  Spec /\ [](twice = {}) /\ [][CompletionHeard]_vars => TerminalIsFinal
<1> DEFINE Final == \A j \in Jobs : status[j] \in Terminal => status'[j] = status[j]
<1>1. ASSUME TypeOK, Accounting, PhaseMatchesStatus, QueuedOnce, CompletionHeard, [Next]_vars
      PROVE  Final
  <2>1. CASE UNCHANGED status
    BY <2>1
  <2>2. CASE Submits
    <3>1. PICK n \in Nat : created + n <= MaxJobs /\ EnqueueBatch(FreshIds(created, n))
      BY <2>2 DEF Submits
    <3> QED BY <1>1, <3>1, SubmittedAreFresh, StatusFacts DEF EnqueueBatch
  <2>3. ASSUME NEW w \in Workers, Marks(w) PROVE Final
    BY <1>1, <2>3, MarkedIsInHand, StatusFacts DEF SetStatus, TypeOK, StoreTypeOK
  <2> QED BY <1>1, <2>1, <2>2, <2>3, StepKinds DEF Quiet, Pop, PopReplyLost, Releases
<1>2. /\ TypeOK /\ Accounting /\ PhaseMatchesStatus /\ [Next]_vars
      /\ twice = {} /\ (twice = {})' /\ [CompletionHeard]_vars
      => [Final]_vars
  BY <1>1 DEF QueuedOnce
<1>3. Spec => []Accounting
  BY AccountingHolds
<1>4. Spec /\ [](twice = {}) /\ [][CompletionHeard]_vars => []PhaseMatchesStatus
  BY PhaseMatchesStatusHolds
<1> QED BY <1>2, <1>3, <1>4, TypeCorrect, PTL DEF Spec, TerminalIsFinal

LEMMA InitRefines == Init => Service!Init
BY DEF Init, StoreInit, WorkerInit, Service!Init, lifecycle

LEMMA StepRefines ==
  ASSUME TypeOK, Accounting, PhaseMatchesStatus, QueuedOnce, CompletionHeard, [Next]_vars
  PROVE  Service!Next \/ UNCHANGED <<lifecycle, held>>
<1>0. /\ queue \in Seq(Jobs) /\ status \in [Jobs -> Statuses]
      /\ held \in [Workers -> Jobs \union {NoJob}]
  BY DEF TypeOK, StoreTypeOK, WorkerTypeOK
<1>1. CASE Quiet
  BY <1>1 DEF Quiet, lifecycle
<1>2. CASE Submits
  <2>1. PICK n \in Nat : created + n <= MaxJobs /\ EnqueueBatch(FreshIds(created, n))
    BY <1>2 DEF Submits
  <2> DEFINE S == Range(FreshIds(created, n))
  <2>2. /\ FreshIds(created, n) \in Seq(Jobs)
        /\ S \subseteq Jobs /\ \A j \in S : status[j] = "absent"
    BY <2>1, SubmittedAreFresh
  <2>3. Range(queue') = Range(queue) \union S
    BY <1>0, <2>1, <2>2, PushFacts DEF EnqueueBatch
  <2>4. \A j \in Jobs : status'[j] = IF j \in S THEN "queued" ELSE status[j]
    BY <2>1 DEF EnqueueBatch
  <2>5. \A j \in S : lifecycle[j] = "absent"
    BY <2>2 DEF lifecycle
  <2>6. lifecycle' = [j \in Jobs |-> IF j \in S THEN "pending" ELSE lifecycle[j]]
    BY <2>3, <2>4 DEF lifecycle
  <2>7. held' = held
    BY <1>2 DEF Submits, workerVars
  <2>8. Service!Submit(S)
    BY <2>5, <2>6, <2>7 DEF Service!Submit
  <2> QED BY <2>2, <2>8 DEF Service!Next
<1>3. ASSUME NEW w \in Workers, Pop(w) \/ PopReplyLost(w)
      PROVE  Service!Next
  <2> DEFINE j == NewestQueued
  <2>1. /\ j \in Jobs /\ Range(queue) = Range(queue') \union {j} /\ j \notin Range(queue')
    BY <1>0, <1>3, PopFacts
       DEF Pop, PopReplyLost, MoveToProcessing, NewestQueued, Accounting, ListedOnce,
           QueuedOnce
  <2>2. status' = status /\ status[j] = "queued"
    BY <1>3, <2>1 DEF Pop, PopReplyLost, Accounting, PendingIsQueued, QueuedOnce
  <2>3. lifecycle[j] = "pending" /\ lifecycle' = [lifecycle EXCEPT ![j] = "claimed"]
    BY <2>1, <2>2 DEF lifecycle
  <2>4. CASE Pop(w)
    <3>1. held[w] = NoJob
      BY <2>4 DEF Pop, TypeOK, WorkerTypeOK, BodyPcs
    <3>2. Service!Claim(w, j)
      BY <2>3, <2>4, <3>1 DEF Pop, Service!Claim
    <3> QED BY <2>1, <3>2 DEF Service!Next
  <2>5. CASE PopReplyLost(w)
    <3>1. Service!Lose(j)
      BY <2>3, <2>5 DEF PopReplyLost, Service!Lose
    <3> QED BY <2>1, <3>1 DEF Service!Next
  <2> QED BY <1>3, <2>4, <2>5
<1>4. ASSUME NEW w \in Workers, Marks(w)
      PROVE  Service!Next
  <2> DEFINE j == held[w]
  <2>1. /\ j \in Jobs /\ j # NoJob /\ j \notin Range(queue)
        /\ UNCHANGED queue
        /\ Service!StaysOrDies(w)
        /\ \/ status[j] = "queued" /\ SetStatus(j, "running")
           \/ status[j] = "running" /\ SetStatus(j, "complete")
           \/ status[j] = "running" /\ SetStatus(j, "failed")
    BY <1>4, MarkedIsInHand DEF Service!StaysOrDies
  <2>2. ASSUME NEW s \in {"running", "complete", "failed"}, SetStatus(j, s)
        PROVE  lifecycle' = [lifecycle EXCEPT ![j] = s]
    BY <1>0, <2>1, <2>2 DEF SetStatus, lifecycle
  <2>3. CASE status[j] = "queued" /\ SetStatus(j, "running")
    <3>1. lifecycle[j] = "claimed"
      BY <2>1, <2>3 DEF lifecycle
    <3>2. Service!Start(w)
      BY <2>1, <2>2, <2>3, <3>1 DEF Service!Start
    <3> QED BY <3>2 DEF Service!Next
  <2>4. CASE status[j] = "running" /\ (SetStatus(j, "complete") \/ SetStatus(j, "failed"))
    <3>1. lifecycle[j] = "running"
      BY <2>1, <2>4 DEF lifecycle
    <3>2. Service!Finish(w)
      BY <2>1, <2>2, <2>4, <3>1 DEF Service!Finish
    <3> QED BY <3>2 DEF Service!Next
  <2> QED BY <2>1, <2>3, <2>4
<1>5. ASSUME NEW w \in Workers, Releases(w)
      PROVE  Service!Next \/ UNCHANGED <<lifecycle, held>>
  <2>1. lifecycle' = lifecycle
    BY <1>5 DEF Releases, lifecycle
  <2>2. CASE held[w] = NoJob
    BY <1>0, <1>5, <2>1, <2>2 DEF Releases
  <2>3. CASE held[w] # NoJob
    BY <1>5, <2>1, <2>3 DEF Releases, Service!Release, Service!Next
  <2> QED BY <2>2, <2>3
<1> QED BY <1>1, <1>2, <1>3, <1>4, <1>5, StepKinds

\* The queue, the processing list, the hashes and the workers together implement the job
\* service, handed out at most once, statuses in order, outcomes final, in every
\* behaviour in which no EXEC is applied twice and no worker misses the answer to its
\* "complete"; pops and the other writes may lose their replies.
THEOREM RefinesLifecycle ==
  Spec /\ [](twice = {}) /\ [][CompletionHeard]_vars => ImplementsLifecycle
<1>1. /\ TypeOK /\ Accounting /\ PhaseMatchesStatus /\ [Next]_vars
      /\ twice = {} /\ (twice = {})' /\ [CompletionHeard]_vars
      => [Service!Next]_<<lifecycle, held>>
  <2>1. ASSUME UNCHANGED vars PROVE UNCHANGED <<lifecycle, held>>
    BY <2>1 DEF vars, storeVars, workerVars, lifecycle
  <2> QED BY <2>1, StepRefines DEF QueuedOnce
<1>2. Spec => []Accounting
  BY AccountingHolds
<1>3. Spec /\ [](twice = {}) /\ [][CompletionHeard]_vars => []PhaseMatchesStatus
  BY PhaseMatchesStatusHolds
<1> QED
  BY <1>1, <1>2, <1>3, InitRefines, TypeCorrect, PTL
     DEF Spec, ImplementsLifecycle, Service!Spec, Service!vars
=============================================================================
