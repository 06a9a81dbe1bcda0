--------------------------- MODULE JobSystemProofs ---------------------------
(***************************************************************************)
(* Type correctness of the job system, for every number of jobs, handlers  *)
(* and workers and every budget of failures.                               *)
(***************************************************************************)
EXTENDS JobSystem, SequenceTheorems, TLAPS

-----------------------------------------------------------------------------
(* The pending list: what pushing a batch and popping the newest job do to *)
(* the set of listed jobs and to the number of times each occurs.          *)

\* The ids of a batch are the n numbers after base, all different.
LEMMA FreshIdsFacts ==
  ASSUME NEW base \in Nat, NEW n \in Nat, base + n <= MaxJobs
  PROVE  /\ FreshIds(base, n) \in Seq(Jobs)
         /\ Len(FreshIds(base, n)) = n
         /\ Range(FreshIds(base, n)) = base + 1 .. base + n
         /\ \A j : AtMostOnce(FreshIds(base, n), j)
<1> DEFINE ids == FreshIds(base, n)
<1>1. \A i \in 1 .. n : base + i \in Jobs
  BY MaxJobsAssumption DEF Jobs
<1>2. ids \in [1 .. n -> Jobs]
  BY <1>1 DEF FreshIds
<1>3. ids \in Seq(Jobs) /\ Len(ids) = n
  BY <1>2
<1>4. Range(ids) = base + 1 .. base + n
  <2>1. \A k \in base + 1 .. base + n : k - base \in 1 .. n /\ ids[k - base] = k
    BY DEF FreshIds
  <2>2. \A i \in DOMAIN ids : ids[i] \in base + 1 .. base + n
    BY DEF FreshIds
  <2> QED BY <2>1, <2>2 DEF Range, FreshIds
<1>5. \A j : AtMostOnce(ids, j)
  BY DEF AtMostOnce, FreshIds
<1> QED BY <1>3, <1>4, <1>5

\* RPUSH of a batch: the listed jobs grow by the batch.
LEMMA PushFacts ==
  ASSUME NEW q \in Seq(Jobs), NEW ids \in Seq(Jobs)
  PROVE  /\ q \o ids \in Seq(Jobs)
         /\ Range(q \o ids) = Range(q) \union Range(ids)
BY ConcatProperties, RangeConcatenation

\* A job that only one of the two parts has, and once, is once in the whole.
LEMMA PushKeepsAtMostOnce ==
  ASSUME NEW q \in Seq(Jobs), NEW ids \in Seq(Jobs), NEW j,
         AtMostOnce(q, j), AtMostOnce(ids, j), j \notin Range(q) \intersect Range(ids)
  PROVE  AtMostOnce(q \o ids, j)
<1> DEFINE s == q \o ids
<1>1. /\ s \in Seq(Jobs) /\ Len(s) = Len(q) + Len(ids)
      /\ \A i \in 1 .. Len(q) + Len(ids) :
           s[i] = IF i <= Len(q) THEN q[i] ELSE ids[i - Len(q)]
  BY ConcatProperties
<1>2. DOMAIN s = 1 .. Len(s) /\ DOMAIN q = 1 .. Len(q) /\ DOMAIN ids = 1 .. Len(ids)
  BY <1>1, LenProperties
<1>3. Len(q) \in Nat /\ Len(ids) \in Nat
  BY LenProperties
<1>4. \A a \in 1 .. Len(q), b \in 1 .. Len(ids) : ~(q[a] = j /\ ids[b] = j)
  BY <1>2 DEF Range
<1> SUFFICES ASSUME NEW a \in DOMAIN s, NEW b \in DOMAIN s, s[a] = j, s[b] = j
             PROVE  a = b
  BY DEF AtMostOnce
<1>5. CASE a <= Len(q) /\ b <= Len(q)
  BY <1>1, <1>2, <1>3, <1>5 DEF AtMostOnce
<1>6. CASE a > Len(q) /\ b > Len(q)
  <2>1. a - Len(q) \in DOMAIN ids /\ b - Len(q) \in DOMAIN ids
    BY <1>1, <1>2, <1>3, <1>6
  <2>2. ids[a - Len(q)] = j /\ ids[b - Len(q)] = j
    BY <1>1, <1>2, <1>3, <1>6
  <2>3. a - Len(q) = b - Len(q)
    BY <2>1, <2>2 DEF AtMostOnce
  <2> QED BY <2>3, <1>1, <1>2, <1>3
<1>7. CASE a <= Len(q) /\ b > Len(q)
  BY <1>1, <1>2, <1>3, <1>4, <1>7
<1>8. CASE a > Len(q) /\ b <= Len(q)
  BY <1>1, <1>2, <1>3, <1>4, <1>8
<1> QED BY <1>1, <1>2, <1>3, <1>5, <1>6, <1>7, <1>8

\* Popping the right end: the popped job is one of the listed jobs and the
\* others stay.
LEMMA PopFacts ==
  ASSUME NEW q \in Seq(Jobs), q # << >>
  PROVE  /\ q[Len(q)] \in Jobs
         /\ SubSeq(q, 1, Len(q) - 1) \in Seq(Jobs)
         /\ Range(q) = Range(SubSeq(q, 1, Len(q) - 1)) \union {q[Len(q)]}
         /\ \A j : AtMostOnce(q, j) =>
              /\ AtMostOnce(SubSeq(q, 1, Len(q) - 1), j)
              /\ j = q[Len(q)] => j \notin Range(SubSeq(q, 1, Len(q) - 1))
<1> DEFINE n == Len(q)
           t == SubSeq(q, 1, n - 1)
<1>1. n \in Nat /\ n > 0 /\ DOMAIN q = 1 .. n
  BY EmptySeq, LenProperties
<1>2. \A i \in 1 .. n : q[i] \in Jobs
  BY ElementOfSeq
<1>3. /\ t \in Seq(Jobs) /\ Len(t) = n - 1
      /\ \A i \in 1 .. n - 1 : t[i] = q[i]
  <2>1. \A i \in 1 .. n - 1 : q[i] \in Jobs
    BY <1>1, <1>2
  <2>2. /\ t \in Seq(Jobs)
        /\ Len(t) = IF 1 <= n - 1 THEN n - 1 - 1 + 1 ELSE 0
        /\ \A i \in 1 .. n - 1 - 1 + 1 : t[i] = q[1 + i - 1]
    BY <1>1, <2>1, SubSeqProperties
  <2> QED BY <1>1, <2>2
<1>4. DOMAIN t = 1 .. n - 1
  BY <1>3, LenProperties
<1>5. Range(q) = Range(t) \union {q[n]}
  <2>1. Range(q) = {q[i] : i \in 1 .. n} /\ Range(t) = {t[i] : i \in 1 .. n - 1}
    BY <1>1, <1>4 DEF Range
  <2>2. 1 .. n = (1 .. n - 1) \union {n}
    <3>1. \A m \in Nat : m > 0 => 1 .. m = (1 .. m - 1) \union {m}
      OBVIOUS
    <3> QED BY <1>1, <3>1
  <2> QED BY <2>1, <2>2, <1>3
<1>6. ASSUME NEW j, AtMostOnce(q, j)
      PROVE  AtMostOnce(t, j) /\ (j = q[n] => j \notin Range(t))
  BY <1>1, <1>3, <1>4, <1>6 DEF AtMostOnce, Range
<1> QED BY <1>1, <1>2, <1>3, <1>5, <1>6

-----------------------------------------------------------------------------
(* The types.                                                              *)

USE DEF Goto, WorkerAt, At, NoJob

LEMMA StatusFacts ==
  /\ ActiveStatuses = {"queued", "running"}
  /\ Terminal = {"complete", "failed"}
  /\ Statuses = {"absent", "queued", "running", "complete", "failed"}
BY DEF ActiveStatuses, Terminal, Statuses

LEMMA InitTypeOK == Init => TypeOK
<1> SUFFICES ASSUME Init PROVE TypeOK
  OBVIOUS
<1>1. StoreTypeOK
  BY MaxJobsAssumption, MaxFaultsAssumption, EmptySeq
     DEF Init, StoreInit, StoreTypeOK, Jobs, Statuses
<1>2. NoRequest \in Requests
  BY MaxJobsAssumption, MaxBatchAssumption DEF NoRequest, Requests, Codes, Statuses, Jobs
<1>3. ApiTypeOK
  BY <1>2, MaxApiRestartsAssumption DEF Init, ApiInit, ApiTypeOK, NoRequest
<1>4. WorkerTypeOK
  BY MaxCrashesAssumption DEF Init, WorkerInit, WorkerTypeOK, WorkerPcs, BodyPcs
<1> QED BY <1>1, <1>3, <1>4 DEF TypeOK

-----------------------------------------------------------------------------
(* The store, whoever issues the command.                                  *)

LEMMA EnqueueBatchType ==
  ASSUME StoreTypeOK, NEW base \in Nat, NEW n \in Nat, base + n <= MaxJobs,
         EnqueueBatch(FreshIds(base, n))
  PROVE  queue' \in Seq(Jobs) /\ status' \in [Jobs -> Statuses]
<1>1. FreshIds(base, n) \in Seq(Jobs)
  BY FreshIdsFacts
<1>2. queue' \in Seq(Jobs)
  BY <1>1, PushFacts DEF EnqueueBatch, StoreTypeOK
<1>3. status' \in [Jobs -> Statuses]
  BY DEF EnqueueBatch, StoreTypeOK, Statuses, ActiveStatuses
<1> QED BY <1>2, <1>3

LEMMA MoveType ==
  ASSUME StoreTypeOK, MoveToProcessing
  PROVE  /\ queue' \in Seq(Jobs)
         /\ processing' \in [Jobs -> Nat]
         /\ NewestQueued \in Jobs
BY PopFacts DEF StoreTypeOK, MoveToProcessing, NewestQueued

LEMMA FaultType ==
  ASSUME StoreTypeOK, Fault
  PROVE  faults' \in 0 .. MaxFaults
BY MaxFaultsAssumption DEF StoreTypeOK, Fault

LEMMA UnreachableType ==
  ASSUME StoreTypeOK, Unreachable
  PROVE  StoreTypeOK'
BY FaultType DEF StoreTypeOK, Unreachable

LEMMA StoreUnchangedType ==
  ASSUME StoreTypeOK, UNCHANGED storeVars
  PROVE  StoreTypeOK'
BY DEF StoreTypeOK, storeVars

-----------------------------------------------------------------------------
(* The handlers.                                                           *)

\* A response has the type of a request record, and is idle.
LEMMA RespondType ==
  ASSUME ApiTypeOK, NEW h \in Handlers,
         NEW code \in Codes, NEW answer \in SUBSET Jobs,
         Respond(h, code, answer), UNCHANGED apiRestarts, twice' \in SUBSET Jobs, reserved' \in Int
  PROVE  ApiTypeOK'
<1> DEFINE r == [pc |-> "idle", op |-> req[h].op, count |-> req[h].count,
                 base |-> 0, job |-> req[h].job, todo |-> {}, seen |-> {},
                 answer |-> answer, code |-> code, before |-> req[h].before]
<1>1. req[h] \in Requests
  BY DEF ApiTypeOK
<1>2. r \in Requests /\ r.pc = "idle"
  BY <1>1, MaxJobsAssumption DEF Requests
<1>3. req' = [req EXCEPT ![h] = r]
  BY DEF Respond
<1>4. /\ req' \in [Handlers -> Requests]
      /\ \A k \in Handlers : k # h => req'[k] = req[k]
      /\ req'[h].pc = "idle"
  BY <1>2, <1>3 DEF ApiTypeOK
<1> QED BY <1>4 DEF ApiTypeOK

\* So has a request that is still served, if its command has its argument.
LEMMA UpdateType ==
  ASSUME ApiTypeOK, NEW h \in Handlers, NEW r \in Requests,
         req' = [req EXCEPT ![h] = r], UNCHANGED apiRestarts, twice' \in SUBSET Jobs, reserved' \in Int,
         r.pc = "retryEnqueue" => r.base + r.count <= MaxJobs,
         r.pc \in {"hgetall", "lposQueue", "lposProcessing"} => r.job \in Jobs
  PROVE  ApiTypeOK'
<1>1. /\ req' \in [Handlers -> Requests]
      /\ \A k \in Handlers : k # h => req'[k] = req[k]
      /\ req'[h] = r
  BY DEF ApiTypeOK
<1> QED BY <1>1 DEF ApiTypeOK

\* One step of a handler.
LEMMA HandlerType ==
  ASSUME TypeOK, NEW h \in Handlers, Arrive(h) \/ Serve(h) \/ HandlerFault(h)
  PROVE  StoreTypeOK' /\ ApiTypeOK'
<1> USE MaxJobsAssumption, MaxBatchAssumption
<1> DEFINE r == req[h]
<1>0. /\ StoreTypeOK /\ ApiTypeOK
      /\ r \in Requests
      /\ r.count \in Nat /\ r.base \in Nat /\ reserved \in Int /\ created \in Nat
      /\ r.todo \subseteq Jobs /\ r.seen \subseteq Jobs /\ r.answer \subseteq Jobs
      /\ twice \in SUBSET Jobs
  BY DEF TypeOK, ApiTypeOK, Requests, StoreTypeOK
<1>1. /\ InProcessing \subseteq Jobs /\ ActiveJobs \subseteq Jobs
      /\ Range(queue) \subseteq Jobs
  BY <1>0, RangeOfSeq DEF InProcessing, ActiveJobs, StoreTypeOK
<1>2. \A c \in {"reused", "created", "unavailable", "listed", "notFound"} \union Statuses :
        c \in Codes
  BY DEF Codes
<1>3. ASSUME NEW op, NEW n \in 0 .. MaxBatch, NEW j \in Jobs \union {NoJob}, NEW p,
             Begin(h, op, n, j, p), reserved' \in Int,
             \/ p \in {"lrangeProcessing", "enqueue"}
             \/ p = "hgetall" /\ j \in Jobs
      PROVE  StoreTypeOK' /\ ApiTypeOK'
  <2> DEFINE q == [pc |-> p, op |-> op, count |-> n, base |-> 0, job |-> j,
                   todo |-> {}, seen |-> {}, answer |-> {}, code |-> "none",
                   before |-> ActiveJobs]
  <2>1. op \in {"generate", "active_job", "status"}
    BY <1>3, OpsAssumption DEF Begin
  <2>2. q \in Requests
    BY <2>1, <1>1, <1>3 DEF Requests, ServingPcs, Codes
  <2>3. req' = [req EXCEPT ![h] = q] /\ UNCHANGED apiRestarts /\ twice' \in SUBSET Jobs /\ UNCHANGED storeVars
    BY <1>0, <1>3 DEF Begin
  <2>4. ApiTypeOK'
    BY <1>0, <1>3, <2>2, <2>3, UpdateType
  <2> QED BY <1>0, <2>3, <2>4, StoreUnchangedType
<1>4. ASSUME Arrive(h) PROVE StoreTypeOK' /\ ApiTypeOK'
  <2>1. CASE BeginGenerate(h)
    <3>1. PICK n \in 1 .. MaxBatch :
            /\ reserved' = reserved + n
            /\ Begin(h, "generate", n, NoJob, IF n = 1 THEN "lrangeProcessing" ELSE "enqueue")
      BY <2>1 DEF BeginGenerate
    <3> QED BY <3>1, <1>0, <1>3
  <2>2. CASE BeginActiveJob(h)
    BY <2>2, <1>0, <1>3 DEF BeginActiveJob
  <2>3. CASE BeginStatus(h)
    BY <2>3, <1>0, <1>3 DEF BeginStatus
  <2> QED BY <1>4, <2>1, <2>2, <2>3 DEF Arrive
<1>5. ASSUME NEW code \in Codes, NEW answer \in SUBSET Jobs, Respond(h, code, answer),
             UNCHANGED apiRestarts, twice' \in SUBSET Jobs, reserved' \in Int
      PROVE  ApiTypeOK'
  BY <1>0, <1>5, RespondType
<1>6. ASSUME NEW q \in Requests, req' = [req EXCEPT ![h] = q], UNCHANGED apiRestarts, twice' \in SUBSET Jobs,
             reserved' \in Int, q.pc = "retryEnqueue" => q.base + q.count <= MaxJobs,
             q.pc \in {"hgetall", "lposQueue", "lposProcessing"} => q.job \in Jobs
      PROVE  ApiTypeOK'
  BY <1>0, <1>6, UpdateType
<1>7. ASSUME ListProcessing(h) PROVE StoreTypeOK' /\ ApiTypeOK'
  <2> DEFINE q == [r EXCEPT !.pc = "checkProcessing", !.todo = InProcessing]
  <2>1. q \in Requests /\ q.pc = "checkProcessing"
    BY <1>0, <1>1 DEF Requests, ServingPcs
  <2>2. /\ req' = [req EXCEPT ![h] = q]
        /\ UNCHANGED apiRestarts /\ twice' \in SUBSET Jobs /\ reserved' = reserved /\ UNCHANGED storeVars
    BY <1>0, <1>7 DEF ListProcessing
  <2>3. ApiTypeOK'
    <3> HIDE DEF q
    <3> QED BY <2>1, <2>2, <1>0, <1>6
  <2> QED BY <2>2, <2>3, <1>0, StoreUnchangedType
<1>8. ASSUME ListQueue(h) PROVE StoreTypeOK' /\ ApiTypeOK'
  <2> DEFINE q == [r EXCEPT !.pc = "checkQueue", !.todo = Range(queue) \ r.seen]
  <2>1. q \in Requests /\ q.pc = "checkQueue"
    BY <1>0, <1>1 DEF Requests, ServingPcs
  <2>2. /\ req' = [req EXCEPT ![h] = q]
        /\ UNCHANGED apiRestarts /\ twice' \in SUBSET Jobs /\ reserved' = reserved /\ UNCHANGED storeVars
    BY <1>0, <1>8 DEF ListQueue
  <2>3. ApiTypeOK'
    <3> HIDE DEF q
    <3> QED BY <2>1, <2>2, <1>0, <1>6
  <2> QED BY <2>2, <2>3, <1>0, StoreUnchangedType
<1>9. ASSUME NEW j \in r.todo, UseJob(h, j), UNCHANGED apiRestarts, twice' \in SUBSET Jobs,
             At(h, "checkProcessing") \/ At(h, "checkQueue")
      PROVE  ApiTypeOK'
  <2>1. CASE r.op = "generate"
    BY <2>1, <1>0, <1>2, <1>5, <1>9 DEF UseJob
  <2>2. CASE r.op # "generate"
    <3> DEFINE q == [r EXCEPT !.todo = @ \ {j}, !.seen = @ \union {j},
                              !.answer = @ \union {j}]
    <3>1. q \in Requests /\ q.pc = r.pc
      BY <1>0 DEF Requests
    <3>2. req' = [req EXCEPT ![h] = q] /\ reserved' = reserved
      BY <2>2, <1>9 DEF UseJob
    <3> HIDE DEF q
    <3> QED BY <3>1, <3>2, <1>0, <1>6, <1>9
  <2> QED BY <2>1, <2>2
<1>10. ASSUME NEW j \in r.todo, SkipJob(h, j), UNCHANGED apiRestarts, twice' \in SUBSET Jobs,
              At(h, "checkProcessing") \/ At(h, "checkQueue")
       PROVE  ApiTypeOK'
  <2> DEFINE q == [r EXCEPT !.todo = @ \ {j},
                     !.seen = IF r.op = "active_job" THEN @ \union {j} ELSE @]
  <2>1. q \in Requests /\ q.pc = r.pc
    BY <1>0 DEF Requests
  <2>2. req' = [req EXCEPT ![h] = q] /\ reserved' = reserved
    BY <1>10 DEF SkipJob
  <2> HIDE DEF q
  <2> QED BY <2>1, <2>2, <1>0, <1>6, <1>10
<1>11. ASSUME CheckJob(h) PROVE StoreTypeOK' /\ ApiTypeOK'
  BY <1>0, <1>9, <1>10, <1>11, StoreUnchangedType DEF CheckJob
<1>12. ASSUME CheckJobUnreadable(h) PROVE StoreTypeOK' /\ ApiTypeOK'
  BY <1>0, <1>9, <1>12, UnreachableType DEF CheckJobUnreadable
<1>13. ASSUME AfterScan(h), UNCHANGED <<reserved, apiRestarts, twice>> PROVE ApiTypeOK'
  <2>1. CASE r.op = "generate"
    <3> DEFINE q == [r EXCEPT !.pc = "enqueue", !.todo = {}]
    <3>1. q \in Requests /\ q.pc = "enqueue"
      BY <1>0 DEF Requests, ServingPcs
    <3>2. req' = [req EXCEPT ![h] = q]
      BY <2>1, <1>13 DEF AfterScan
    <3> HIDE DEF q
    <3> QED BY <3>1, <3>2, <1>0, <1>6, <1>13
  <2>2. CASE r.op # "generate"
    BY <2>2, <1>0, <1>2, <1>5, <1>13 DEF AfterScan
  <2> QED BY <2>1, <2>2
<1>14. ASSUME EndScan(h) PROVE StoreTypeOK' /\ ApiTypeOK'
  BY <1>0, <1>13, <1>14, StoreUnchangedType DEF EndScan
<1>15. ASSUME ScanFails(h) PROVE StoreTypeOK' /\ ApiTypeOK'
  BY <1>0, <1>13, <1>15, UnreachableType DEF ScanFails
<1>16. ASSUME NEW base \in Nat, base + r.count <= MaxJobs
       PROVE  base + 1 .. base + r.count \subseteq Jobs
  BY <1>0, <1>16 DEF Jobs
<1>17. ASSUME Enqueue(h) PROVE StoreTypeOK' /\ ApiTypeOK'
  <2>1. queue' \in Seq(Jobs) /\ status' \in [Jobs -> Statuses]
    BY <1>0, <1>17, EnqueueBatchType DEF Enqueue
  <2>2. StoreTypeOK'
    BY <1>0, <1>17, <2>1 DEF Enqueue, StoreTypeOK
  <2>3. ApiTypeOK'
    BY <1>0, <1>2, <1>5, <1>16, <1>17 DEF Enqueue
  <2> QED BY <2>2, <2>3
<1>18. ASSUME EnqueueUnreachable(h) PROVE StoreTypeOK' /\ ApiTypeOK'
  BY <1>0, <1>2, <1>5, <1>18, UnreachableType DEF EnqueueUnreachable
<1>19. ASSUME EnqueueReplyLost(h) PROVE StoreTypeOK' /\ ApiTypeOK'
  <2>1. queue' \in Seq(Jobs) /\ status' \in [Jobs -> Statuses]
    BY <1>0, <1>19, EnqueueBatchType DEF EnqueueReplyLost
  <2>2. faults' \in 0 .. MaxFaults
    BY <1>0, <1>19, FaultType DEF EnqueueReplyLost, ReplyLost
  <2>3. StoreTypeOK'
    BY <1>0, <1>19, <2>1, <2>2 DEF EnqueueReplyLost, StoreTypeOK
  <2> DEFINE q == [r EXCEPT !.pc = "retryEnqueue", !.base = created]
  <2>4. q \in Requests /\ q.pc = "retryEnqueue" /\ q.base + q.count <= MaxJobs
    BY <1>0, <1>19 DEF EnqueueReplyLost, Requests, ServingPcs, StoreTypeOK
  <2>5. /\ req' = [req EXCEPT ![h] = q]
        /\ UNCHANGED apiRestarts /\ twice' \in SUBSET Jobs /\ reserved' = reserved
    BY <1>0, <1>19 DEF EnqueueReplyLost
  <2>6. ApiTypeOK'
    <3> HIDE DEF q
    <3> QED BY <2>4, <2>5, <1>0, <1>6
  <2> QED BY <2>3, <2>6
<1>20. ASSUME RetryEnqueue(h) PROVE StoreTypeOK' /\ ApiTypeOK'
  <2>1. r.base + r.count <= MaxJobs
    BY <1>0, <1>20 DEF RetryEnqueue, ApiTypeOK
  <2>2. queue' \in Seq(Jobs) /\ status' \in [Jobs -> Statuses]
    BY <1>0, <1>20, <2>1, EnqueueBatchType DEF RetryEnqueue
  <2>3. StoreTypeOK'
    BY <1>0, <1>20, <2>2 DEF RetryEnqueue, StoreTypeOK
  <2>4. ApiTypeOK'
    BY <1>0, <1>2, <1>5, <1>16, <1>20, <2>1 DEF RetryEnqueue
  <2> QED BY <2>3, <2>4
<1>21. ASSUME RetryUnreachable(h) PROVE StoreTypeOK' /\ ApiTypeOK'
  BY <1>0, <1>2, <1>5, <1>21, UnreachableType DEF RetryUnreachable
<1>22. ASSUME r.job \in Jobs, NEW p \in {"lposQueue", "lposProcessing"},
              req' = [req EXCEPT ![h].pc = p], UNCHANGED <<reserved, apiRestarts, twice>>
       PROVE  ApiTypeOK'
  <2> DEFINE q == [r EXCEPT !.pc = p]
  <2>1. q \in Requests /\ q.pc = p /\ q.job = r.job
    BY <1>0, <1>22 DEF Requests, ServingPcs
  <2>2. req' = [req EXCEPT ![h] = q]
    BY <1>22
  <2> HIDE DEF q
  <2> QED BY <2>1, <2>2, <1>0, <1>6, <1>22
<1>23. r.pc \in {"hgetall", "lposQueue", "lposProcessing"} =>
         r.job \in Jobs /\ {r.job} \in SUBSET Jobs /\ status[r.job] \in Statuses
  BY <1>0 DEF ApiTypeOK, StoreTypeOK
<1>24. ASSUME ReadStatus(h) PROVE StoreTypeOK' /\ ApiTypeOK'
  BY <1>0, <1>2, <1>5, <1>22, <1>23, <1>24, StoreUnchangedType DEF ReadStatus
<1>25. ASSUME FindInQueue(h) PROVE StoreTypeOK' /\ ApiTypeOK'
  BY <1>0, <1>2, <1>5, <1>22, <1>23, <1>25, StoreUnchangedType, StatusFacts DEF FindInQueue
<1>26. ASSUME FindInProcessing(h) PROVE StoreTypeOK' /\ ApiTypeOK'
  BY <1>0, <1>2, <1>5, <1>23, <1>26, StoreUnchangedType, StatusFacts DEF FindInProcessing
<1>27. ASSUME StatusUnreachable(h) PROVE StoreTypeOK' /\ ApiTypeOK'
  BY <1>0, <1>2, <1>5, <1>22, <1>23, <1>27, UnreachableType DEF StatusUnreachable
<1> QED
  BY <1>4, <1>7, <1>8, <1>11, <1>12, <1>14, <1>15, <1>17, <1>18, <1>19, <1>20,
     <1>21, <1>24, <1>25, <1>26, <1>27 DEF Serve, HandlerFault

-----------------------------------------------------------------------------
(* The workers.                                                            *)

\* A worker moves from one place outside the body of its loop to another.
LEMMA OutsideBodyType ==
  ASSUME WorkerTypeOK, NEW w \in Workers, NEW p \in {"down", "starting", "ping", "pop"},
         Goto(w, p), wpc[w] \notin BodyPcs \/ held' = [held EXCEPT ![w] = NoJob],
         wpc[w] \notin BodyPcs => held' \in {held, [held EXCEPT ![w] = NoJob]},
         crashes' \in 0 .. MaxCrashes
  PROVE  WorkerTypeOK'
BY DEF WorkerTypeOK, WorkerPcs, BodyPcs, Jobs

\* A worker moves inside the body with the job it holds.
LEMMA InsideBodyType ==
  ASSUME WorkerTypeOK, NEW w \in Workers, NEW p \in BodyPcs, Goto(w, p),
         \/ wpc[w] \in BodyPcs /\ UNCHANGED held
         \/ \E j \in Jobs : held' = [held EXCEPT ![w] = j],
         UNCHANGED crashes
  PROVE  WorkerTypeOK'
BY DEF WorkerTypeOK, WorkerPcs, BodyPcs, Jobs

\* One step of a worker.
LEMMA WorkerType ==
  ASSUME TypeOK, NEW w \in Workers, WorkerStep(w) \/ WorkerFault(w)
  PROVE  StoreTypeOK' /\ WorkerTypeOK'
<1>0. /\ StoreTypeOK /\ WorkerTypeOK /\ crashes \in 0 .. MaxCrashes
      /\ wpc[w] \in BodyPcs => held[w] \in Jobs
  BY DEF TypeOK, WorkerTypeOK
<1>1. BodyPcs = {"claimed", "generating", "generated", "failing", "cleanup"}
  BY DEF BodyPcs
<1>2. ASSUME NEW j \in Jobs, NEW s \in Statuses, SetStatus(j, s),
             UNCHANGED <<queue, processing, created>>, faults' \in 0 .. MaxFaults
      PROVE  StoreTypeOK'
  BY <1>0, <1>2 DEF SetStatus, StoreTypeOK
<1>3. faults \in 0 .. MaxFaults
  BY <1>0 DEF StoreTypeOK
<1>4. CASE Connect(w) \/ ConnectGivesUp(w) \/ Ping(w) \/ PopUnreachable(w) \/ Restart(w)
  <2>1. StoreTypeOK'
    BY <1>0, <1>4, StoreUnchangedType, UnreachableType
       DEF Connect, ConnectGivesUp, Ping, PopUnreachable, Restart
  <2>2. WorkerTypeOK'
    BY <1>0, <1>1, <1>4, OutsideBodyType
       DEF Connect, ConnectGivesUp, Ping, PopUnreachable, Restart, Die
  <2> QED BY <2>1, <2>2
<1>5. CASE PingFails(w)
  BY <1>0, <1>5, UnreachableType DEF PingFails, workerVars, WorkerTypeOK
<1>6. CASE Pop(w)
  <2>1. StoreTypeOK'
    BY <1>0, <1>6, MoveType DEF Pop, StoreTypeOK
  <2>2. WorkerTypeOK'
    BY <1>0, <1>1, <1>6, MoveType, InsideBodyType DEF Pop
  <2> QED BY <2>1, <2>2
<1>7. CASE PopReplyLost(w)
  <2>1. faults' \in 0 .. MaxFaults
    BY <1>0, <1>7, FaultType DEF PopReplyLost, ReplyLost
  <2>2. StoreTypeOK'
    BY <1>0, <1>7, <2>1, MoveType DEF PopReplyLost, StoreTypeOK
  <2>3. WorkerTypeOK'
    BY <1>0, <1>1, <1>7, OutsideBodyType DEF PopReplyLost
  <2> QED BY <2>2, <2>3
<1>8. CASE SetRunning(w) \/ SetComplete(w) \/ SetFailed(w)
  <2>1. StoreTypeOK'
    BY <1>0, <1>1, <1>2, <1>3, <1>8, StatusFacts DEF SetRunning, SetComplete, SetFailed
  <2>2. WorkerTypeOK'
    BY <1>0, <1>1, <1>8, InsideBodyType DEF SetRunning, SetComplete, SetFailed
  <2> QED BY <2>1, <2>2
<1>9. CASE GenerateReturns(w) \/ GenerateRaises(w) \/ SetCompleteUnreachable(w)
  <2>1. StoreTypeOK'
    BY <1>0, <1>9, StoreUnchangedType, UnreachableType
       DEF GenerateReturns, GenerateRaises, SetCompleteUnreachable
  <2>2. WorkerTypeOK'
    BY <1>0, <1>1, <1>9, InsideBodyType
       DEF GenerateReturns, GenerateRaises, SetCompleteUnreachable
  <2> QED BY <2>1, <2>2
<1>10. CASE MarkUnreachable(w)
  BY <1>0, <1>1, <1>10, UnreachableType, OutsideBodyType DEF MarkUnreachable, Die
<1>11. CASE MarkReplyLost(w)
  <2>1. faults' \in 0 .. MaxFaults
    BY <1>0, <1>11, FaultType DEF MarkReplyLost, ReplyLost
  <2>2. StoreTypeOK'
    BY <1>0, <1>1, <1>2, <1>11, <2>1, StatusFacts DEF MarkReplyLost
  <2>3. WorkerTypeOK'
    BY <1>0, <1>1, <1>11, OutsideBodyType DEF MarkReplyLost, Die
  <2> QED BY <2>2, <2>3
<1>12. CASE SetCompleteReplyLost(w)
  <2>1. faults' \in 0 .. MaxFaults
    BY <1>0, <1>12, FaultType DEF SetCompleteReplyLost, ReplyLost
  <2>2. StoreTypeOK'
    BY <1>0, <1>1, <1>2, <1>12, <2>1, StatusFacts DEF SetCompleteReplyLost
  <2>3. WorkerTypeOK'
    BY <1>0, <1>1, <1>12, InsideBodyType DEF SetCompleteReplyLost
  <2> QED BY <2>2, <2>3
<1>13. CASE CompleteJob(w)
  <2>1. StoreTypeOK'
    BY <1>0, <1>1, <1>13 DEF CompleteJob, RemoveFromProcessing, StoreTypeOK
  <2>2. WorkerTypeOK'
    BY <1>0, <1>1, <1>13, OutsideBodyType DEF CompleteJob, EndBody
  <2> QED BY <2>1, <2>2
<1>14. CASE CompleteJobUnreachable(w)
  BY <1>0, <1>1, <1>14, UnreachableType, OutsideBodyType DEF CompleteJobUnreachable, EndBody
<1>15. CASE Crash(w)
  <2>1. crashes' \in 0 .. MaxCrashes
    BY <1>0, <1>15, MaxCrashesAssumption DEF Crash
  <2> QED BY <1>0, <1>15, <2>1, StoreUnchangedType, OutsideBodyType DEF Crash, Die
<1> QED
  BY <1>4, <1>5, <1>6, <1>7, <1>8, <1>9, <1>10, <1>11, <1>12, <1>13, <1>14, <1>15
     DEF WorkerStep, WorkerFault

LEMMA NextTypeOK == TypeOK /\ [Next]_vars => TypeOK'
<1> SUFFICES ASSUME TypeOK, [Next]_vars PROVE TypeOK'
  OBVIOUS
<1>1. CASE ApiNext /\ UNCHANGED workerVars
  <2>1. WorkerTypeOK'
    BY <1>1 DEF TypeOK, WorkerTypeOK, workerVars
  <2>2. CASE ApiRestart
    <3>1. StoreTypeOK'
      BY <2>2, StoreUnchangedType DEF ApiRestart, TypeOK
    <3>2. NoRequest \in Requests
      BY MaxJobsAssumption, MaxBatchAssumption DEF NoRequest, Requests, Codes, Statuses
    <3>3. apiRestarts' \in 0 .. MaxApiRestarts /\ reserved' \in Int /\ twice' \subseteq Jobs
      BY <2>2, MaxApiRestartsAssumption DEF ApiRestart, TypeOK, ApiTypeOK, StoreTypeOK
    <3>4. \A h \in Handlers : req'[h].pc = "idle"
      BY <2>2 DEF ApiRestart, NoRequest
    <3>5. req' \in [Handlers -> Requests]
      BY <2>2, <3>2 DEF ApiRestart
    <3>6. ApiTypeOK'
      BY <3>3, <3>4, <3>5 DEF ApiTypeOK
    <3> QED BY <2>1, <3>1, <3>6 DEF TypeOK
  <2>3. CASE \E h \in Handlers : Arrive(h) \/ Serve(h) \/ HandlerFault(h)
    BY <2>1, <2>3, HandlerType DEF TypeOK
  <2> QED BY <1>1, <2>2, <2>3 DEF ApiNext
<1>2. CASE WorkerNext /\ UNCHANGED apiVars
  <2>1. ApiTypeOK'
    BY <1>2 DEF TypeOK, ApiTypeOK, apiVars
  <2> QED BY <1>2, <2>1, WorkerType DEF WorkerNext, TypeOK
<1>3. CASE UNCHANGED vars
  BY <1>3 DEF vars, storeVars, apiVars, workerVars, TypeOK, StoreTypeOK, ApiTypeOK,
              WorkerTypeOK
<1> QED BY <1>1, <1>2, <1>3 DEF Next

\* Every reachable state is well typed: list entries and held jobs are jobs,
\* counters stay in their bounds, a worker has a job in hand exactly in the body
\* of its loop, and a retried EXEC repeats ids that exist.
THEOREM TypeCorrect == Spec => []TypeOK
BY InitTypeOK, NextTypeOK, PTL DEF Spec
=============================================================================
