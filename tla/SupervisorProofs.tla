--------------------------- MODULE SupervisorProofs ---------------------------
(***************************************************************************)
(* The supervisors, for every interval, timeout, backoff and limit: their  *)
(* types, the one worker, what a run leaves behind, how soon children are  *)
(* restarted, and how long a dead API waits for that.                      *)
(***************************************************************************)
EXTENDS Supervisor, TLAPS

USE SupervisorAssumption

LEMMA BackoffBound ==
  ASSUME NEW n \in Int
  PROVE  Backoff(n) \in Int /\ Backoff(n) <= BackoffMax
<1>1. BackoffBase * 2 ^ (n - 1) \in Int
  BY Z3
<1> QED BY <1>1 DEF Backoff, Lesser

-----------------------------------------------------------------------------
(* Types *)

\* While a run is under way the API is within its limit, a worker beyond it is given
\* up, nothing is counted before the loop, the loop has a GUI, and what is about to be
\* restarted is dead.
Limits ==
  /\ pc # "off" => crashes["api"] <= MaxAttempts
  /\ crashes["worker"] > MaxAttempts => child["worker"] = "none"
  /\ pc # "off" /\ ~InLoop => crashes["api"] = 0 /\ crashes["worker"] = 0
  /\ pc \in Loop \cup {"auto_trigger", "start_monitoring"} => child["gui"] # "none"
  /\ pc = "restart_api" => Dead("api")
  /\ pc = "restart_worker" => Dead("worker")

TypeInv == TypeOK /\ Limits

USE DEF Components, Counted, Startup, Loop, Ends

LEMMA InitTypes == Init => TypeInv
<1> SUFFICES ASSUME Init PROVE TypeInv
  OBVIOUS
<1>1. crashes \in [Counted -> 0 .. MaxAttempts + 1]
  BY DEF Init
<1>2. age \in [Counted -> 0 .. BackoffMax] /\ since \in [Counted -> 0 .. BackoffMax]
  BY DEF Init
<1>3. child \in [Components -> {"none", "up", "ended", "crashed"}]
  BY DEF Init
<1>4. crashes["api"] = 0 /\ crashes["worker"] = 0
  BY DEF Init
<1>5. Limits
  BY <1>4 DEF Init, Limits, InLoop
<1>6. /\ version \in {"v1", "v2"} /\ how \in Ends
      /\ pc \in {"off", "detect_xtts"} \cup Startup \cup Loop
      /\ pc = "off" <=> how # "running"
      /\ wait \in Nat /\ left \in Int /\ down \in Nat
      /\ restarted \subseteq Components
      /\ strays \in Nat /\ blind \in 0 .. MaxBlind
  BY DEF Init
<1>8. strayApi \in BOOLEAN
  BY DEF Init
<1>7. TypeOK
  BY <1>1, <1>2, <1>3, <1>6, <1>8 DEF TypeOK
<1> QED BY <1>5, <1>7 DEF TypeInv

LEMMA StartupTypes ==
  ASSUME TypeInv, Launch \/ Main
  PROVE  TypeInv'
<1> USE DEF TypeInv, TypeOK, Limits, InLoop, At, Goto, SleepTo, Spawn, Spawned, Dead, End, outside, clocks
<1>1. CASE Launch
  BY <1>1 DEF Launch
<1>2a. CASE VerifyWsl
  BY <1>2a DEF VerifyWsl
<1>2b. CASE EnsureRedis
  BY <1>2b DEF EnsureRedis
<1>2c. CASE RedisRetry
  BY <1>2c DEF RedisRetry
<1>3. CASE StartWorker
  BY <1>3 DEF StartWorker
<1>4. CASE DetectXtts
  BY <1>4 DEF DetectXtts
<1>5a. CASE StartApi
  BY <1>5a DEF StartApi
<1>5b. CASE WaitForApi
  BY <1>5b DEF WaitForApi
<1>5c. CASE StartGui
  BY <1>5c DEF StartGui
<1>6a. CASE AutoTrigger
  BY <1>6a DEF AutoTrigger
<1>6b. CASE StartMonitoring
  BY <1>6b DEF StartMonitoring
<1> QED
  BY <1>1, <1>2a, <1>2b, <1>2c, <1>3, <1>4, <1>5a, <1>5b, <1>5c, <1>6a, <1>6b DEF Main

LEMMA BackoffLeftType ==
  ASSUME TypeOK, NEW c \in Counted, crashes' \in [Counted -> Int]
  PROVE  /\ BackoffLeft(c) \in Nat
         /\ BackoffLeft(c) + age[c] >= Backoff(crashes'[c])
         /\ BackoffLeft(c) + age[c] <= Greater(BackoffMax, age[c])
<1>1. crashes'[c] \in Int /\ age[c] \in Nat
  BY DEF TypeOK
<1>2. Backoff(crashes'[c]) \in Int /\ Backoff(crashes'[c]) <= BackoffMax
  BY <1>1, BackoffBound
<1> QED BY <1>1, <1>2 DEF BackoffLeft, Greater

LEMMA LoopTypes ==
  ASSUME TypeInv, MonitorLoop
  PROVE  TypeInv'
<1> USE DEF TypeInv, TypeOK, Limits, InLoop, At, Goto, SleepTo, Respawn, Spawn, Spawned, Dead, End,
            Shutdown, Terminated, CountCrash, RestartedNow, RespawnIfDead, outside, clocks
<1>1. CASE CheckGui
  BY <1>1 DEF CheckGui
<1>2. CASE RestartGui
  BY <1>2 DEF RestartGui
<1>3. CASE CheckApi
  <2>1. CASE ~Dead("api")
    BY <1>3, <2>1 DEF CheckApi
  <2>2. CASE Dead("api")
    <3>1. crashes' = [crashes EXCEPT !["api"] = @ + 1] /\ crashes' \in [Counted -> Int]
      BY <1>3, <2>2 DEF CheckApi
    <3>2. BackoffLeft("api") \in Nat
      BY <3>1, BackoffLeftType
    <3>0. pc = "check_api"
      BY <1>3 DEF CheckApi
    <3>3. crashes' \in [Counted -> 0 .. MaxAttempts + 1]
      BY <3>0, <3>1
    <3>4. crashes'["worker"] = crashes["worker"]
      BY <3>1
    <3>5. CASE crashes'["api"] > MaxAttempts
      <4>1. Shutdown("gave_up")
        BY <1>3, <2>2, <3>5 DEF CheckApi
      <4>2. UNCHANGED strayApi
        BY <4>1
      <4> QED BY <4>1, <4>2, <3>3, <3>4
    <3>6. CASE ~(crashes'["api"] > MaxAttempts)
      <4>1. /\ SleepTo("restart_api", BackoffLeft("api"))
            /\ UNCHANGED <<version, how, left, child, restarted, clocks, outside>>
        BY <1>3, <2>2, <3>6 DEF CheckApi
      <4> QED BY <2>2, <3>0, <3>2, <3>3, <3>4, <3>6, <4>1
    <3> QED BY <3>5, <3>6
  <2> QED BY <2>1, <2>2
<1>4. CASE RestartApi
  BY <1>4 DEF RestartApi
<1>5. CASE CheckWorker
  <2>1. CASE ~Dead("worker")
    BY <1>5, <2>1 DEF CheckWorker
  <2>2. CASE Dead("worker")
    <3>1. crashes' = [crashes EXCEPT !["worker"] = @ + 1] /\ crashes' \in [Counted -> Int]
      BY <1>5, <2>2 DEF CheckWorker
    <3>2. BackoffLeft("worker") \in Nat
      BY <3>1, BackoffLeftType
    <3> QED BY <1>5, <2>2, <3>1, <3>2 DEF CheckWorker
  <2> QED BY <2>1, <2>2
<1>6. CASE RestartWorker
  BY <1>6 DEF RestartWorker
<1>7. CASE CheckWorkerV2
  <2>1. CASE Dead("worker")
    BY <1>7, <2>1 DEF CheckWorkerV2
  <2>2. CASE ~Dead("worker")
    BY <1>7, <2>2 DEF CheckWorkerV2
  <2> QED BY <2>1, <2>2
<1>8. CASE CheckApiV2
  BY <1>8 DEF CheckApiV2
<1>9. CASE CheckMonitor
  BY <1>9 DEF CheckMonitor
<1> QED BY <1>1, <1>2, <1>3, <1>4, <1>5, <1>6, <1>7, <1>8, <1>9 DEF MonitorLoop

LEMMA OtherTypes ==
  ASSUME TypeInv,
         Tick \/ KeyboardInterrupt \/ Abandoned \/ ProcessExits \/ StrayExits \/ UNCHANGED vars
  PROVE  TypeInv'
<1> USE DEF TypeInv, TypeOK, Limits, InLoop, Dead, End, Terminated, outside, clocks
<1>1. CASE Tick
  BY <1>1 DEF Tick, Older, Lesser
<1>2. CASE KeyboardInterrupt
  BY <1>2 DEF KeyboardInterrupt
<1>3. CASE Abandoned
  BY <1>3 DEF Abandoned
<1>4. CASE ProcessExits
  BY <1>4 DEF ProcessExits
<1>5. CASE StrayExits
  <2>1. strayApi' \in BOOLEAN
    BY <1>5 DEF StrayExits
  <2> QED BY <1>5, <2>1 DEF StrayExits
<1>6. CASE UNCHANGED vars
  BY <1>6 DEF vars
<1> QED BY <1>1, <1>2, <1>3, <1>4, <1>5, <1>6

LEMMA TypesInductive == TypeInv /\ [Next]_vars => TypeInv'
BY StartupTypes, LoopTypes, OtherTypes DEF Next, Supervise

LEMMA TypeInvHolds == Spec => []TypeInv
<1> QED BY InitTypes, TypesInductive, PTL DEF Spec

\* Types, and the counters within one of their limit.
THEOREM SupervisorTypeCorrect == Spec => []TypeOK
<1>1. TypeInv => TypeOK
  BY DEF TypeInv
<1> QED BY <1>1, TypeInvHolds, PTL

-----------------------------------------------------------------------------
(* One worker *)

\* Before start_worker() has run, nothing was spawned.
NothingYet ==
  pc \in {"verify_wsl", "ensure_redis", "redis_retry", "start_worker"} =>
    \A c \in Components : child[c] = "none"

\* A worker is started beside strays only when the check for them failed.
OwnWorker == pc # "off" /\ child["worker"] # "none" => strays <= blind

WorkerInv == SoleWorker /\ NothingYet /\ OwnWorker

LEMMA InitWorker == Init => WorkerInv
BY DEF Init, WorkerInv, SoleWorker, Workers, NothingYet, OwnWorker

LEMMA WorkerInductive ==
  ASSUME TypeInv, WorkerInv, [Next]_vars
  PROVE  WorkerInv'
<1> USE DEF TypeInv, TypeOK, Limits, WorkerInv, SoleWorker, Workers, NothingYet, OwnWorker, At, Goto, SleepTo,
            Respawn, Spawn, Spawned, Dead, End, Shutdown, Terminated, RespawnIfDead, outside
<1>1. CASE Launch
  BY <1>1 DEF Launch
<1>2. CASE VerifyWsl
  BY <1>2 DEF VerifyWsl
<1>3. CASE EnsureRedis
  BY <1>3 DEF EnsureRedis
<1>4. CASE RedisRetry
  BY <1>4 DEF RedisRetry
<1>5. CASE StartWorker
  BY <1>5 DEF StartWorker
<1>6. CASE DetectXtts \/ WaitForApi \/ AutoTrigger
  BY <1>6 DEF DetectXtts, WaitForApi, AutoTrigger
<1>7. CASE StartApi
  BY <1>7 DEF StartApi
<1>8. CASE StartGui
  BY <1>8 DEF StartGui
<1>9. CASE StartMonitoring
  BY <1>9 DEF StartMonitoring
<1>10. CASE CheckGui
  BY <1>10 DEF CheckGui
<1>11. CASE RestartGui
  BY <1>11 DEF RestartGui
<1>12. CASE CheckApi
  BY <1>12 DEF CheckApi
<1>13. CASE RestartApi
  BY <1>13 DEF RestartApi
<1>14. CASE CheckWorker
  BY <1>14 DEF CheckWorker
<1>15. CASE RestartWorker
  BY <1>15 DEF RestartWorker
<1>16. CASE CheckWorkerV2
  BY <1>16 DEF CheckWorkerV2
<1>17. CASE CheckApiV2
  BY <1>17 DEF CheckApiV2
<1>18. CASE CheckMonitor
  BY <1>18 DEF CheckMonitor
<1>19. CASE Tick
  BY <1>19 DEF Tick
<1>20. CASE KeyboardInterrupt \/ Abandoned
  BY <1>20 DEF KeyboardInterrupt, Abandoned
<1>21. CASE ProcessExits
  BY <1>21 DEF ProcessExits
<1>22. CASE StrayExits
  BY <1>22 DEF StrayExits
<1>23. CASE UNCHANGED vars
  BY <1>23 DEF vars
<1> QED
  BY <1>1, <1>2, <1>3, <1>4, <1>5, <1>6, <1>7, <1>8, <1>9, <1>10, <1>11, <1>12, <1>13, <1>14,
     <1>15, <1>16, <1>17, <1>18, <1>19, <1>20, <1>21, <1>22, <1>23
  DEF Next, Supervise, Main, MonitorLoop

\* At most one worker is alive besides one per process check that failed, over any
\* number of supervisor runs.
THEOREM SoleWorkerHolds == Spec => []SoleWorker
<1>1. WorkerInv => SoleWorker
  BY DEF WorkerInv
<1> QED BY <1>1, TypeInvHolds, InitWorker, WorkerInductive, PTL DEF Spec

-----------------------------------------------------------------------------
(* The end of a run *)

LEMMA LeftBehindInductive ==
  ASSUME TypeInv, NothingYet, LeftBehind, [Next]_vars
  PROVE  LeftBehind'
<1> USE DEF TypeInv, TypeOK, NothingYet, LeftBehind, At, Goto, SleepTo, End, outside, clocks
<1>1. CASE pc = "off" /\ (ProcessExits \/ StrayExits \/ UNCHANGED vars)
  BY <1>1 DEF ProcessExits, StrayExits, vars
<1>2. CASE Shutdown("closed") \/ Shutdown("gave_up") \/ KeyboardInterrupt \/ Abandoned
  BY <1>2 DEF Shutdown, KeyboardInterrupt, Abandoned, Terminated
<1>3. CASE VerifyWsl \/ RedisRetry
  BY <1>3 DEF VerifyWsl, RedisRetry
<1>4. CASE pc' # "off"
  BY <1>4
<1>5. ASSUME pc' = "off", pc # "off"
      PROVE  \/ Shutdown("closed") \/ Shutdown("gave_up") \/ KeyboardInterrupt \/ Abandoned
             \/ VerifyWsl \/ RedisRetry
  BY <1>5
  DEF Next, Supervise, Main, MonitorLoop, Launch, EnsureRedis, StartWorker, DetectXtts, StartApi,
      WaitForApi, StartGui, AutoTrigger, StartMonitoring, CheckGui, RestartGui, CheckApi, RestartApi,
      CheckWorker, RestartWorker, CheckWorkerV2, CheckApiV2, CheckMonitor, Tick, ProcessExits,
      StrayExits, vars
<1>6. ASSUME pc' = "off", pc = "off"
      PROVE  ProcessExits \/ StrayExits \/ UNCHANGED vars
  BY <1>6
  DEF Next, Supervise, Main, MonitorLoop, Launch, VerifyWsl, EnsureRedis, RedisRetry, StartWorker,
      DetectXtts, StartApi, WaitForApi, StartGui, AutoTrigger, StartMonitoring, CheckGui, RestartGui,
      CheckApi, RestartApi, CheckWorker, RestartWorker, CheckWorkerV2, CheckApiV2, CheckMonitor, Tick,
      KeyboardInterrupt, InLoop, Abandoned
<1> QED BY <1>1, <1>2, <1>3, <1>4, <1>5, <1>6

\* A run leaves nothing alive when its loop ended, only restarted processes after
\* Ctrl+C, and everything only when it was abandoned.
THEOREM LeftBehindHolds == Spec => []LeftBehind
<1>1. Init => LeftBehind
  BY DEF Init, LeftBehind
<1>2. WorkerInv => NothingYet
  BY DEF WorkerInv
<1> QED
  BY <1>1, <1>2, TypeInvHolds, InitWorker, WorkerInductive, LeftBehindInductive, PTL DEF Spec

-----------------------------------------------------------------------------
(* Restarts in time *)


\* The longest backoff a worker can still be in for when the loop looks at it, an
\* interval after its last restart.
WorkerWait == Greater(BackoffMax - MonitorInterval, 0)

\* How long the loop may look at nothing but the worker.
Quiet == WorkerWait + XttsDetectTimeout + (Pause - 1)

Rested == age["worker"] >= Lesser(MonitorInterval, BackoffMax)

\* How long the API may have been dead at each place of the loop, and how old the
\* last restarts are.
Clocks ==
  /\ age = since
  /\ ~(InLoop /\ Dead("api")) => down = 0
  /\ age["api"] >= Lesser(down, BackoffMax)
  /\ pc = "check_gui" =>
       /\ wait <= MonitorInterval /\ down + wait <= Quiet + MonitorInterval
       /\ age["worker"] >= Lesser(MonitorInterval - wait, BackoffMax)
  /\ pc = "restart_gui" => down + wait <= Pause
  /\ pc = "check_api" => wait = 0 /\ down <= Quiet + MonitorInterval /\ Rested
  /\ pc = "restart_api" =>
       /\ down + wait <= Quiet + MonitorInterval /\ Rested
       /\ age["api"] + wait >= Backoff(crashes["api"])
  /\ pc = "check_worker" =>
       /\ wait = 0 /\ down <= Quiet + MonitorInterval /\ Rested
       /\ version = "v1" => down = 0
  /\ pc = "restart_worker" =>
       /\ down + wait <= WorkerWait
       /\ age["worker"] + wait >= Backoff(crashes["worker"])
  /\ pc = "detect_xtts" /\ InLoop =>
       left >= 1 - Pause /\ down + wait + left <= WorkerWait + XttsDetectTimeout
  /\ pc = "check_monitor" => wait = 0 /\ down = 0

LEMMA BoundsFacts ==
  /\ WorkerWait \in Nat /\ Quiet \in Nat
  /\ Pause <= Quiet /\ BackoffMax <= Quiet + MonitorInterval
  /\ BackoffMax - Lesser(MonitorInterval, BackoffMax) = WorkerWait
  /\ Quiet = WorkerWait + XttsDetectTimeout + Pause - 1
  /\ WorstDelay = Quiet + MonitorInterval
BY DEF WorkerWait, Quiet, Greater, Lesser, WorstDelay

LEMMA InitClocks == Init => Clocks
BY DEF Init, Clocks, InLoop, Lesser

LEMMA MainClocks ==
  ASSUME TypeInv, Clocks, Launch \/ Main
  PROVE  Clocks'
<1> USE BoundsFacts
    DEF TypeInv, TypeOK, Limits, Clocks, Rested, InLoop, Dead, At, Goto, SleepTo, End, Lesser,
        outside, clocks
<1>1. CASE Launch
  BY <1>1 DEF Launch
<1>2. CASE VerifyWsl
  BY <1>2 DEF VerifyWsl
<1>3. CASE EnsureRedis
  BY <1>3 DEF EnsureRedis
<1>4. CASE RedisRetry
  BY <1>4 DEF RedisRetry
<1>5. CASE StartWorker
  BY <1>5 DEF StartWorker, Spawn, Spawned
<1>6. CASE DetectXtts
  BY <1>6 DEF DetectXtts
<1>7. CASE StartApi
  BY <1>7 DEF StartApi, Spawn, Spawned
<1>8. CASE WaitForApi
  BY <1>8 DEF WaitForApi
<1>9. CASE StartGui
  BY <1>9 DEF StartGui, Spawn, Spawned
<1>10. CASE AutoTrigger
  BY <1>10 DEF AutoTrigger
<1>11. CASE StartMonitoring
  BY <1>11 DEF StartMonitoring, Spawn, Spawned
<1> QED BY <1>1, <1>2, <1>3, <1>4, <1>5, <1>6, <1>7, <1>8, <1>9, <1>10, <1>11 DEF Main

LEMMA LoopClocks ==
  ASSUME TypeInv, Clocks, MonitorLoop
  PROVE  Clocks'
<1> USE BoundsFacts
    DEF TypeInv, TypeOK, Limits, Clocks, Rested, InLoop, Dead, At, Goto, SleepTo, End, Lesser,
        Respawn, Spawn, Spawned, Shutdown, Terminated, RestartedNow, RespawnIfDead, outside, clocks
<1>1. CASE CheckGui
  BY <1>1 DEF CheckGui
<1>2. CASE RestartGui
  BY <1>2 DEF RestartGui
<1>3. CASE CheckApi
  <2>1. CASE ~Dead("api")
    BY <1>3, <2>1 DEF CheckApi
  <2>2. CASE Dead("api") /\ crashes'["api"] > MaxAttempts
    BY <1>3, <2>2 DEF CheckApi
  <2>3. CASE Dead("api") /\ ~(crashes'["api"] > MaxAttempts)
    <3>1. crashes' \in [Counted -> Int]
      BY <1>3, <2>3 DEF CheckApi, CountCrash
    <3>2. /\ BackoffLeft("api") \in Nat
          /\ BackoffLeft("api") + age["api"] >= Backoff(crashes'["api"])
          /\ BackoffLeft("api") + age["api"] <= Greater(BackoffMax, age["api"])
      BY <3>1, BackoffLeftType
    <3> QED BY <1>3, <2>3, <3>2 DEF CheckApi, Greater
  <2> QED BY <2>1, <2>2, <2>3
<1>4. CASE RestartApi
  BY <1>4 DEF RestartApi
<1>5. CASE CheckWorker
  <2>1. CASE ~Dead("worker")
    BY <1>5, <2>1 DEF CheckWorker
  <2>2. CASE Dead("worker") /\ crashes'["worker"] > MaxAttempts
    BY <1>5, <2>2 DEF CheckWorker
  <2>3. CASE Dead("worker") /\ ~(crashes'["worker"] > MaxAttempts)
    <3>1. crashes' \in [Counted -> Int]
      BY <1>5, <2>3 DEF CheckWorker, CountCrash
    <3>2. /\ BackoffLeft("worker") \in Nat
          /\ BackoffLeft("worker") + age["worker"] >= Backoff(crashes'["worker"])
          /\ BackoffLeft("worker") + age["worker"] <= Greater(BackoffMax, age["worker"])
      BY <3>1, BackoffLeftType
    <3> QED BY <1>5, <2>3, <3>2 DEF CheckWorker, Greater
  <2> QED BY <2>1, <2>2, <2>3
<1>6. CASE RestartWorker
  BY <1>6 DEF RestartWorker
<1>7. CASE CheckWorkerV2
  BY <1>7 DEF CheckWorkerV2
<1>8. CASE CheckApiV2
  BY <1>8 DEF CheckApiV2
<1>9. CASE CheckMonitor
  BY <1>9 DEF CheckMonitor
<1> QED BY <1>1, <1>2, <1>3, <1>4, <1>5, <1>6, <1>7, <1>8, <1>9 DEF MonitorLoop

LEMMA OtherClocks ==
  ASSUME TypeInv, Clocks,
         Tick \/ KeyboardInterrupt \/ Abandoned \/ ProcessExits \/ StrayExits \/ UNCHANGED vars
  PROVE  Clocks'
<1> USE BoundsFacts
    DEF TypeInv, TypeOK, Limits, Clocks, Rested, InLoop, Dead, End, Lesser, outside, clocks
<1>1. CASE Tick
  <2>1. /\ Backoff(crashes["api"]) \in Int /\ Backoff(crashes["api"]) <= BackoffMax
        /\ Backoff(crashes["worker"]) \in Int /\ Backoff(crashes["worker"]) <= BackoffMax
    BY BackoffBound
  <2> QED BY <1>1, <2>1 DEF Tick, Older
<1>2. CASE KeyboardInterrupt
  BY <1>2 DEF KeyboardInterrupt
<1>3. CASE Abandoned
  BY <1>3 DEF Abandoned
<1>4. CASE ProcessExits
  BY <1>4 DEF ProcessExits
<1>5. CASE StrayExits
  BY <1>5 DEF StrayExits
<1>6. CASE UNCHANGED vars
  BY <1>6 DEF vars
<1> QED BY <1>1, <1>2, <1>3, <1>4, <1>5, <1>6

LEMMA ClocksHold == Spec => []Clocks
<1>1. TypeInv /\ Clocks /\ [Next]_vars => Clocks'
  BY MainClocks, LoopClocks, OtherClocks DEF Next, Supervise
<1> QED BY <1>1, InitClocks, TypeInvHolds, PTL DEF Spec

\* A dead API is respawned, or the run is over, within WorstDelay seconds of its
\* death or of the last crash of the GUI.
THEOREM ApiBackInTimeHolds == Spec => []ApiBackInTime
<1>1. TypeInv /\ Clocks => ApiBackInTime
  BY BoundsFacts
  DEF TypeInv, TypeOK, Clocks, InLoop, ApiBackInTime
<1> QED BY <1>1, TypeInvHolds, ClocksHold, PTL

\* v1: the n-th restart comes at least the n-th backoff after the one before.
THEOREM RestartsSpacedHolds == Spec => RestartsSpaced
<1> DEFINE Spaced == \A c \in Counted :
      (version = "v1" /\ InLoop /\ Dead(c) /\ child'[c] = "up" /\ crashes[c] > 1)
         => since[c] >= Backoff(crashes[c])
<1>1. TypeInv /\ Clocks /\ [Next]_vars => Spaced
  <2> SUFFICES ASSUME TypeInv, Clocks, [Next]_vars, NEW c \in Counted,
                      version = "v1", InLoop, Dead(c), child'[c] = "up"
               PROVE  since[c] >= Backoff(crashes[c])
    OBVIOUS
  <2>1. (c = "api" /\ RestartApi) \/ (c = "worker" /\ RestartWorker)
    BY DEF Next, Supervise, Main, MonitorLoop, Launch, VerifyWsl, EnsureRedis, RedisRetry,
      StartWorker, DetectXtts, StartApi, WaitForApi, StartGui, AutoTrigger, StartMonitoring,
      CheckGui, RestartGui, CheckApi, RestartApi, CheckWorker, RestartWorker, CheckWorkerV2,
      CheckApiV2, CheckMonitor, RespawnIfDead, Respawn, Spawn, Tick, KeyboardInterrupt, Abandoned,
      ProcessExits, StrayExits, vars, Goto, SleepTo, At, Shutdown, Terminated, InLoop, Dead,
      TypeInv, TypeOK, outside, clocks
  <2>2. age[c] + wait >= Backoff(crashes[c]) /\ wait = 0 /\ age = since
    BY <2>1 DEF Clocks, RestartApi, RestartWorker, At
  <2>3. Backoff(crashes[c]) \in Int /\ age[c] \in Int
    BY BackoffBound DEF TypeInv, TypeOK
  <2> QED BY <2>2, <2>3
<1> QED BY <1>1, TypeInvHolds, ClocksHold, PTL DEF Spec, RestartsSpaced
=============================================================================
