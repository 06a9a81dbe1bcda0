------------------------------ MODULE Supervisor ------------------------------
(***************************************************************************)
(* The process supervisors shortz_supervisor.py ("v1") and                 *)
(* system/shortz_supervisor_v2.py ("v2"): what they start, what they watch *)
(* and what they leave behind.  One supervisor runs at a time, and another *)
(* may be launched once it is gone; processes that outlive the run that    *)
(* spawned them (they have a process group of their own) stay alive beside *)
(* the next one as strays.  v1 and v2 take the same steps where the code   *)
(* is the same.                                                            *)
(*                                                                         *)
(*   version     the supervisor that runs, or ran last                     *)
(*   pc          where it is; "off" when none runs                         *)
(*   how         how the last run ended                                    *)
(*   wait        seconds left of the time.sleep() it is in                 *)
(*   left        attempts or seconds left of a start-up loop               *)
(*   child[c]    the process the handle of component c refers to           *)
(*   restarted   components whose handle monitor_loop() has replaced: the  *)
(*               handles of main() still name the first process            *)
(*   crashes[c]  api_crashes, worker_crashes                               *)
(*   age[c]      seconds since api_last_restart, worker_last_restart       *)
(*   since[c]    seconds since the last restart of c: no variable of the   *)
(*               code, a clock to hold age against                         *)
(*   down        seconds the API has been dead in the monitor loop since   *)
(*               the loop last found the GUI crashed: a clock as well      *)
(*   strays      live workers of earlier runs                              *)
(*   strayApi    an API server of an earlier run holds the port            *)
(*   blind       process checks that failed, bounded by MaxBlind           *)
(*                                                                         *)
(* Time passes only while the supervisor sleeps, and only in the monitor   *)
(* loop and detect_xtts() does it matter; ages are capped at BackoffMax.   *)
(***************************************************************************)
EXTENDS Integers

CONSTANTS
  MonitorInterval,    \* MONITOR_INTERVAL
  Pause,              \* the literal sleeps of two seconds
  RedisMaxRetries,    \* REDIS_MAX_RETRIES
  XttsDetectTimeout,  \* XTTS_DETECT_TIMEOUT
  ApiHealthTimeout,   \* API_HEALTH_TIMEOUT
  TriggerAttempts,    \* the five attempts of auto_trigger()
  BackoffBase,        \* RESTART_BACKOFF_BASE
  BackoffMax,         \* RESTART_BACKOFF_MAX
  MaxAttempts,        \* RESTART_MAX_ATTEMPTS
  MaxBlind            \* bound on process checks that fail

ASSUME SupervisorAssumption ==
  /\ MonitorInterval \in Nat \ {0} /\ Pause \in Nat \ {0}
  /\ RedisMaxRetries \in Nat /\ ApiHealthTimeout \in Nat /\ TriggerAttempts \in Nat
  /\ XttsDetectTimeout \in Nat \ {0}
  /\ BackoffBase \in Nat /\ BackoffMax \in Nat
  /\ MaxAttempts \in Nat /\ MaxBlind \in Nat

VARIABLES version, pc, how, wait, left, child, restarted, crashes, age, since,
          down, strays, strayApi, blind

clocks == <<age, since, down>>
outside == <<strays, strayApi, blind>>
vars == <<version, pc, how, wait, left, child, restarted, crashes, clocks, outside>>

Components == {"worker", "api", "gui", "monitor"}

\* The components v1 counts the crashes of.
Counted == {"worker", "api"}

Startup == {"verify_wsl", "ensure_redis", "redis_retry", "start_worker",
            "start_api", "wait_for_api", "start_gui", "auto_trigger", "start_monitoring"}

Loop == {"check_gui", "restart_gui", "check_api", "restart_api",
         "check_worker", "restart_worker", "check_monitor"}

\* "ended": exit code 0, or terminated by the supervisor.
Dead(c) == child[c] \in {"ended", "crashed"}

\* detect_xtts() is called by start_worker() and by monitor_loop(); the GUI is
\* spawned in between.
InLoop == pc \in Loop \/ (pc = "detect_xtts" /\ child["gui"] # "none")

Lesser(a, b) == IF a < b THEN a ELSE b
Greater(a, b) == IF a < b THEN b ELSE a

Backoff(n) == Lesser(BackoffBase * 2 ^ (n - 1), BackoffMax)

Init ==
  /\ version = "v1" /\ pc = "off" /\ how = "never"
  /\ wait = 0 /\ left = 0
  /\ child = [c \in Components |-> "none"]
  /\ restarted = {}
  /\ crashes = [c \in Counted |-> 0]
  /\ age = [c \in Counted |-> BackoffMax]
  /\ since = [c \in Counted |-> BackoffMax]
  /\ down = 0
  /\ strays = 0 /\ strayApi = FALSE /\ blind = 0

-----------------------------------------------------------------------------
(* Processes *)

\* A second server on the port of a stray one cannot bind it and exits.
Spawned(c) == IF c = "api" /\ strayApi THEN "crashed" ELSE "up"

\* A live process whose handle is overwritten runs on.
Spawn(c) ==
  /\ child' = [child EXCEPT ![c] = Spawned(c)]
  /\ strays' = IF c = "worker" /\ child[c] = "up" THEN strays + 1 ELSE strays

Respawn(c) ==
  /\ Spawn(c)
  /\ restarted' = restarted \cup {c}

Terminated(handles) ==
  [c \in Components |-> IF c \in handles /\ child[c] = "up" THEN "ended" ELSE child[c]]

\* Only the GUI's exit code is looked at.
ProcessExits ==
  /\ \E c \in Components :
       /\ child[c] = "up"
       /\ \E code \in {"ended", "crashed"} :
            /\ code = "ended" => c = "gui"
            /\ child' = [child EXCEPT ![c] = code]
  /\ UNCHANGED <<version, pc, how, wait, left, restarted, crashes, clocks, outside>>

StrayExits ==
  /\ \/ strays > 0 /\ strays' = strays - 1 /\ UNCHANGED strayApi
     \/ strayApi /\ strayApi' = FALSE /\ UNCHANGED strays
  /\ UNCHANGED <<version, pc, how, wait, left, child, restarted, crashes, clocks, blind>>

-----------------------------------------------------------------------------
(* The end of a run *)

End(reason) ==
  /\ pc' = "off" /\ how' = reason
  /\ wait' = 0 /\ left' = 0 /\ down' = 0

\* Slip: the handles of main() instead of those of the loop.
Shutdown_FirstHandles(reason) ==
  /\ End(reason)
  /\ child' = Terminated(Components \ restarted)
  /\ UNCHANGED <<version, restarted, age, since, outside>>

\* The end of monitor_loop(): its own handles.
Shutdown(reason) ==
  /\ End(reason)
  /\ child' = Terminated(Components)
  /\ UNCHANGED <<version, restarted, age, since, outside>>

\* Ctrl+C in monitor_loop(): main() terminates the processes it started.
KeyboardInterrupt ==
  /\ InLoop
  /\ End("interrupt")
  /\ child' = Terminated(Components \ restarted)
  /\ UNCHANGED <<version, restarted, crashes, age, since, outside>>

\* Ctrl+C before monitor_loop(), a spawn that raises, or the end of the
\* supervisor's process: nothing is terminated.
Abandoned ==
  /\ pc # "off"
  /\ End("abandoned")
  /\ UNCHANGED <<version, child, restarted, crashes, age, since, outside>>

-----------------------------------------------------------------------------
(* Start-up *)

At(place) == pc = place /\ wait = 0
Goto(place) == pc' = place /\ wait' = 0
SleepTo(place, seconds) == pc' = place /\ wait' = seconds

Launch ==
  /\ pc = "off"
  /\ version' \in {"v1", "v2"}
  /\ pc' = "verify_wsl" /\ how' = "running" /\ wait' = 0 /\ left' = 0
  /\ strays' = IF child["worker"] = "up" THEN strays + 1 ELSE strays
  /\ strayApi' = (strayApi \/ child["api"] = "up")
  /\ child' = [c \in Components |-> "none"]
  /\ restarted' = {}
  /\ crashes' = [c \in Counted |-> 0]
  /\ age' = [c \in Counted |-> BackoffMax]
  /\ since' = [c \in Counted |-> BackoffMax]
  /\ down' = 0
  /\ UNCHANGED blind

VerifyWsl ==
  /\ At("verify_wsl")
  /\ \/ Goto("ensure_redis") /\ UNCHANGED <<how, left, down>>
     \/ End("failed")
  /\ UNCHANGED <<version, child, restarted, crashes, age, since, outside>>

\* A ping, and redis-server when it is not answered.
EnsureRedis ==
  /\ At("ensure_redis")
  /\ \/ Goto("start_worker") /\ UNCHANGED left
     \/ Goto("redis_retry") /\ left' = RedisMaxRetries
  /\ UNCHANGED <<version, how, child, restarted, crashes, clocks, outside>>

RedisRetry ==
  /\ At("redis_retry")
  /\ \/ left > 0 /\ Goto("start_worker") /\ left' = 0 /\ UNCHANGED <<how, down>>
     \/ left > 0 /\ Goto("redis_retry") /\ left' = left - 1 /\ UNCHANGED <<how, down>>
     \/ left = 0 /\ End("failed")
  /\ UNCHANGED <<version, child, restarted, crashes, age, since, outside>>

\* Slip: no check for a running worker.
StartWorker_Unchecked ==
  /\ At("start_worker")
  /\ Spawn("worker")
  /\ Goto("detect_xtts") /\ left' = XttsDetectTimeout
  /\ UNCHANGED <<version, how, restarted, crashes, clocks, strayApi, blind>>

\* A worker that is found running is never watched.  The search is for "worker.py"
\* in the command lines of all Python processes: it may find what is no worker of
\* this system, and a check that fails finds none.
StartWorker ==
  /\ At("start_worker")
  /\ \/ /\ Goto("start_api")
        /\ UNCHANGED <<left, child, strays, blind>>
     \/ /\ \/ strays = 0 /\ UNCHANGED blind
           \/ strays > 0 /\ blind < MaxBlind /\ blind' = blind + 1
        /\ Spawn("worker")
        /\ Goto("detect_xtts") /\ left' = XttsDetectTimeout
  /\ UNCHANGED <<version, how, restarted, crashes, clocks, strayApi>>

\* The line looked for may be of any process that ever wrote the log, which is
\* appended to: it may be there at any poll.
DetectXtts ==
  /\ At("detect_xtts")
  /\ \/ /\ \/ left <= 0
           \/ Dead("worker")
           \/ child["worker"] = "up"
        /\ left' = 0
        /\ IF InLoop THEN SleepTo("check_gui", MonitorInterval) ELSE Goto("start_api")
     \/ /\ left > 0 /\ ~Dead("worker")
        /\ SleepTo("detect_xtts", Pause) /\ left' = left - Pause
  /\ UNCHANGED <<version, how, child, restarted, crashes, clocks, outside>>

StartApi ==
  /\ At("start_api")
  /\ Spawn("api")
  /\ IF version = "v1"
       THEN Goto("wait_for_api") /\ left' = ApiHealthTimeout
       ELSE Goto("start_gui") /\ UNCHANGED left
  /\ UNCHANGED <<version, how, restarted, crashes, clocks, strayApi, blind>>

ApiAnswers == child["api"] = "up" \/ strayApi

\* An attempt takes up to three seconds and is followed by one of sleep.
WaitForApi ==
  /\ At("wait_for_api")
  /\ \/ left <= 0 /\ Goto("start_gui") /\ left' = 0
     \/ left > 0 /\ ApiAnswers /\ Goto("start_gui") /\ left' = 0
     \/ left > 0 /\ Goto("wait_for_api") /\ \E d \in 1 .. 4 : left' = left - d
  /\ UNCHANGED <<version, how, child, restarted, crashes, clocks, outside>>

StartGui ==
  /\ At("start_gui")
  /\ Spawn("gui")
  /\ IF version = "v1"
       THEN SleepTo("check_gui", MonitorInterval) /\ UNCHANGED left
       ELSE Goto("auto_trigger") /\ left' = TriggerAttempts
  /\ UNCHANGED <<version, how, restarted, crashes, clocks, strayApi, blind>>

AutoTrigger ==
  /\ At("auto_trigger")
  /\ \/ /\ left = 0 \/ ApiAnswers
        /\ Goto("start_monitoring") /\ left' = 0
     \/ left > 0 /\ Goto("auto_trigger") /\ left' = left - 1
  /\ UNCHANGED <<version, how, child, restarted, crashes, clocks, outside>>

StartMonitoring ==
  /\ At("start_monitoring")
  /\ \/ Spawn("monitor")
     \/ UNCHANGED <<child, strays>>
  /\ SleepTo("check_gui", MonitorInterval)
  /\ UNCHANGED <<version, how, left, restarted, crashes, clocks, strayApi, blind>>

-----------------------------------------------------------------------------
(* monitor_loop() *)

CheckGui ==
  /\ At("check_gui")
  /\ CASE ~Dead("gui") ->
            /\ Goto(IF version = "v1" THEN "check_api" ELSE "check_worker")
            /\ UNCHANGED <<version, how, left, child, restarted, clocks, outside>>
       [] child["gui"] = "ended" \/ (Dead("gui") /\ version = "v2") ->
            Shutdown("closed")
       [] OTHER ->
            /\ SleepTo("restart_gui", Pause)
            /\ down' = 0
            /\ UNCHANGED <<version, how, left, child, restarted, age, since, outside>>
  /\ UNCHANGED crashes

\* "continue": this round looks at neither API nor worker.
RestartGui ==
  /\ At("restart_gui")
  /\ Respawn("gui")
  /\ SleepTo("check_gui", MonitorInterval)
  /\ UNCHANGED <<version, how, left, crashes, clocks, strayApi, blind>>

\* Slip: the time since the last restart is not taken off.
BackoffLeft_Full(c) == Backoff(crashes'[c])

\* Without a restart yet, the last one counts as long ago.
BackoffLeft(c) == Greater(Backoff(crashes'[c]) - age[c], 0)

CountCrash(c) == crashes' = [crashes EXCEPT ![c] = @ + 1]

\* Slip: api_last_restart keeps its old value.
RestartedNow_Forgets(c) ==
  /\ UNCHANGED age
  /\ since' = [since EXCEPT ![c] = 0]

RestartedNow(c) ==
  /\ age' = [age EXCEPT ![c] = 0]
  /\ since' = [since EXCEPT ![c] = 0]

CheckApi ==
  /\ At("check_api") /\ version = "v1"
  /\ IF ~Dead("api")
       THEN /\ Goto("check_worker")
            /\ UNCHANGED <<version, how, left, child, restarted, crashes, clocks, outside>>
       ELSE /\ CountCrash("api")
            /\ IF crashes'["api"] > MaxAttempts
                 THEN Shutdown("gave_up")
                 ELSE /\ SleepTo("restart_api", BackoffLeft("api"))
                      /\ UNCHANGED <<version, how, left, child, restarted, clocks, outside>>

RestartApi ==
  /\ At("restart_api")
  /\ Respawn("api")
  /\ RestartedNow("api") /\ down' = 0
  /\ Goto("check_worker")
  /\ UNCHANGED <<version, how, left, crashes, strayApi, blind>>

\* Slip: a worker that is given up is still looked at.
CheckWorker_Kept ==
  /\ At("check_worker") /\ version = "v1"
  /\ IF ~Dead("worker")
       THEN /\ SleepTo("check_gui", MonitorInterval)
            /\ UNCHANGED crashes
       ELSE /\ CountCrash("worker")
            /\ IF crashes'["worker"] > MaxAttempts
                 THEN SleepTo("check_gui", MonitorInterval)
                 ELSE SleepTo("restart_worker", BackoffLeft("worker"))
  /\ UNCHANGED <<version, how, left, child, restarted, clocks, outside>>

CheckWorker ==
  /\ At("check_worker") /\ version = "v1"
  /\ IF ~Dead("worker")
       THEN /\ SleepTo("check_gui", MonitorInterval)
            /\ UNCHANGED <<child, crashes>>
       ELSE /\ CountCrash("worker")
            /\ IF crashes'["worker"] > MaxAttempts
                 THEN /\ child' = [child EXCEPT !["worker"] = "none"]
                      /\ SleepTo("check_gui", MonitorInterval)
                 ELSE /\ SleepTo("restart_worker", BackoffLeft("worker"))
                      /\ UNCHANGED child
  /\ UNCHANGED <<version, how, left, restarted, clocks, outside>>

RestartWorker ==
  /\ At("restart_worker")
  /\ Respawn("worker")
  /\ RestartedNow("worker") /\ UNCHANGED down
  /\ Goto("detect_xtts") /\ left' = XttsDetectTimeout
  /\ UNCHANGED <<version, how, crashes, strayApi, blind>>

\* v2 neither counts nor waits.
RespawnIfDead(c) ==
  IF Dead(c) THEN Respawn(c) ELSE UNCHANGED <<child, restarted, strays>>

CheckWorkerV2 ==
  /\ At("check_worker") /\ version = "v2"
  /\ RespawnIfDead("worker")
  /\ Goto("check_api")
  /\ UNCHANGED <<version, how, left, crashes, clocks, strayApi, blind>>

CheckApiV2 ==
  /\ At("check_api") /\ version = "v2"
  /\ RespawnIfDead("api") /\ down' = 0
  /\ Goto("check_monitor")
  /\ UNCHANGED <<version, how, left, crashes, age, since, strayApi, blind>>

\* Slip: the monitoring API is not looked at.
CheckMonitor_Never ==
  /\ At("check_monitor")
  /\ SleepTo("check_gui", MonitorInterval)
  /\ UNCHANGED <<version, how, left, child, restarted, crashes, clocks, outside>>

CheckMonitor ==
  /\ At("check_monitor")
  /\ RespawnIfDead("monitor")
  /\ SleepTo("check_gui", MonitorInterval)
  /\ UNCHANGED <<version, how, left, crashes, clocks, strayApi, blind>>

\* One second of a time.sleep().
Older(clock) == [c \in Counted |-> Lesser(clock[c] + 1, BackoffMax)]

Tick ==
  /\ pc # "off" /\ wait > 0
  /\ wait' = wait - 1
  /\ age' = Older(age) /\ since' = Older(since)
  /\ down' = IF InLoop /\ Dead("api") THEN down + 1 ELSE 0
  /\ UNCHANGED <<version, pc, how, left, child, restarted, crashes, outside>>

-----------------------------------------------------------------------------
Main ==
  \/ VerifyWsl \/ EnsureRedis \/ RedisRetry \/ StartWorker \/ DetectXtts
  \/ StartApi \/ WaitForApi \/ StartGui \/ AutoTrigger \/ StartMonitoring

MonitorLoop ==
  \/ CheckGui \/ RestartGui \/ CheckApi \/ RestartApi \/ CheckWorker \/ RestartWorker
  \/ CheckWorkerV2 \/ CheckApiV2 \/ CheckMonitor

Supervise == Main \/ MonitorLoop \/ Tick

Next ==
  \/ Launch \/ Supervise
  \/ KeyboardInterrupt \/ Abandoned
  \/ ProcessExits \/ StrayExits

Spec == Init /\ [][Next]_vars

\* The supervisor is an ordinary process whose sleeps end and whose commands
\* return; nothing is assumed of its children.
FairSpec == Spec /\ WF_vars(Supervise)

-----------------------------------------------------------------------------
(* Properties *)

Ends == {"never", "running", "failed", "closed", "gave_up", "interrupt", "abandoned"}

\* Types; the crash counters stay within one of their limit and a run is under
\* way exactly between launch and end.
TypeOK ==
  /\ version \in {"v1", "v2"}
  /\ pc \in {"off", "detect_xtts"} \cup Startup \cup Loop
  /\ how \in Ends
  /\ pc = "off" <=> how # "running"
  /\ wait \in Nat /\ left \in Int
  /\ child \in [Components -> {"none", "up", "ended", "crashed"}]
  /\ restarted \subseteq Components
  /\ crashes \in [Counted -> 0 .. MaxAttempts + 1]
  /\ age \in [Counted -> 0 .. BackoffMax]
  /\ since \in [Counted -> 0 .. BackoffMax]
  /\ down \in Nat
  /\ strays \in Nat /\ strayApi \in BOOLEAN
  /\ blind \in 0 .. MaxBlind

Workers == strays + (IF child["worker"] = "up" THEN 1 ELSE 0)

\* At most one worker is alive, over any number of supervisor runs, kills and
\* restarts, but for one more per process check that failed (is_worker_running()
\* answers False on any exception).
SoleWorker == Workers <= 1 + blind

\* What a run leaves alive: nothing when its loop ended; after Ctrl+C in the loop
\* only processes that were restarted; all of it only when it was abandoned or
\* before anything was spawned.
LeftBehind ==
  pc = "off" =>
    \A c \in Components :
      child[c] = "up" => how = "abandoned" \/ (how = "interrupt" /\ c \in restarted)

\* A dead API is respawned, or the run is over, within this many seconds of its
\* death or of the last crash of the GUI the loop has handled: the loop may be
\* about to back off for the worker, whose last restart is an interval ago, and to
\* wait for its voice model, and sleeps once more; the API's own backoff has run out
\* by then.
WorstDelay == Greater(BackoffMax, MonitorInterval) + XttsDetectTimeout + (Pause - 1)

ApiBackInTime == down <= WorstDelay

\* v1: the n-th restart of a component comes at least the n-th backoff after the
\* one before it, by the clock and not by what the code remembers of it.
RestartsSpaced ==
  [][\A c \in Counted :
       (version = "v1" /\ InLoop /\ Dead(c) /\ child'[c] = "up" /\ crashes[c] > 1)
         => since[c] >= Backoff(crashes[c])]_vars

\* Unless the GUI keeps crashing (v1 then never looks at anything else), a dead
\* child is replaced or given up; only v2 behind a stray API server, which its own
\* can never replace, goes on respawning in vain.
DeadIsHandled ==
  <>[](child["gui"] # "crashed") =>
    \A c \in {"worker", "api", "monitor"} :
      (InLoop /\ Dead(c)) ~> (pc = "off" \/ ~Dead(c) \/ (c = "api" /\ strayApi))
=============================================================================
