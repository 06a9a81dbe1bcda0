------------------------------ MODULE GuiConsole ------------------------------
(***************************************************************************)
(* The operator console gui.py: the main thread with its event loop, and   *)
(* the QThreads that talk HTTP to the API: status pollers, submitters and  *)
(* the detector of an active job at start-up.  Every signal of a thread is *)
(* queued to the main thread (QueuedConnection); signals whose slot only   *)
(* writes a log line are left out, and so is the health thread, which only *)
(* drives the labels of the header.                                        *)
(*                                                                         *)
(*   main        "loop": in the event loop; "startPoller": in              *)
(*               _start_poller(), before it takes the mutex; "closed"      *)
(*   locked      _state_mutex, which only the main thread ever takes       *)
(*   job         job_id, NoJob for None                                    *)
(*   poller      _poller_thread, NoPoller for None                         *)
(*   button      start_btn is enabled                                      *)
(*   batch       _batch_count: how many jobs a click asks for              *)
(*   pollers[p]  a StatusPollerThread: its job, its _running flag, where   *)
(*               it is in run() and the status of its last reply           *)
(*   submits[i]  a JobSubmitterThread: where it is, what it asked and got  *)
(*   detector    the ActiveJobDetectorThread and the job of its reply      *)
(*   events      signals posted to the main thread                         *)
(*   server      the statuses behind the API                               *)
(*   errors      failed HTTP requests, bounded by MaxErrors                *)
(***************************************************************************)
EXTENDS Integers, Sequences, FiniteSets

CONSTANTS
  MaxJobs,     \* bound on the jobs the API ever creates
  MaxPollers,  \* bound on the poller threads alive at a time
  MaxSubmits,  \* bound on the submitter threads alive at a time
  MaxBatch,    \* the largest entry of the batch selector
  MaxBacklog,  \* bound on the results of a live poller waiting in the queue
  MaxErrors    \* bound on the failed requests

ASSUME ConsoleAssumption ==
  /\ MaxJobs \in Nat /\ MaxPollers \in Nat /\ MaxSubmits \in Nat
  /\ MaxBatch \in Nat \ {0} /\ MaxBacklog \in Nat /\ MaxErrors \in Nat

VARIABLES main, locked, job, poller, button, batch,
          pollers, submits, detector, events, server, errors

window == <<main, locked, job, poller, button, batch>>
vars == <<window, pollers, submits, detector, events, server, errors>>

Jobs == 1 .. MaxJobs
NoJob == 0
Pollers == 1 .. MaxPollers
NoPoller == 0
Submits == 1 .. MaxSubmits

\* The window treats queued and running alike, and complete and failed: the
\* difference is one of labels.
Statuses == {"absent", "active", "ended"}

ActiveJobs == {j \in Jobs : server[j] = "active"}
Unused == {j \in Jobs : server[j] = "absent"}

Idle == [pc |-> "finished", job |-> NoJob, running |-> FALSE, got |-> "absent"]
Detected == [pc |-> "finished", job |-> NoJob]
NoSubmit == [pc |-> "finished", count |-> 0, first |-> NoJob]

Init ==
  /\ main = "loop" /\ locked = FALSE
  /\ job = NoJob /\ poller = NoPoller
  /\ button = TRUE /\ batch = 1
  /\ pollers = [p \in Pollers |-> Idle]
  /\ submits = [i \in Submits |-> NoSubmit]
  /\ detector = [pc |-> "unborn", job |-> NoJob]
  /\ events = << >>
  /\ server = [j \in Jobs |-> "absent"]
  /\ errors = 0

\* A signal of a thread: the job and the status it carries.
Signal(kind, j, s) == [kind |-> kind, job |-> j, status |-> s]
Emit(e) == events' = Append(events, e)

\* The lowest slot of a thread that is over takes the next thread.
FreeSlot(threads, t) ==
  threads[t].pc = "finished" /\ \A u \in DOMAIN threads : threads[u].pc = "finished" => t <= u

Fail == errors < MaxErrors /\ errors' = errors + 1

-----------------------------------------------------------------------------
(* _stop_poller and _start_poller.  A stopped poller between two requests  *)
(* ends within the 500 ms the main thread waits for it; one that waits for *)
(* a reply outlives the wait and is forgotten.                             *)

Stopped(p) ==
  IF pollers[p].pc = "check" THEN Idle ELSE [pollers[p] EXCEPT !.running = FALSE]

\* A slip: the poller is forgotten but not told to stop.
StopPoller_Forgets == poller' = NoPoller /\ UNCHANGED pollers

StopPoller ==
  /\ poller' = NoPoller
  /\ pollers' = IF poller = NoPoller THEN pollers
                ELSE [pollers EXCEPT ![poller] = Stopped(poller)]

\* The first half of _start_poller: up to the QMutexLocker.
CallStartPoller == StopPoller /\ main' = "startPoller"

\* The second half: the mutex is not recursive.
StartPoller ==
  /\ main = "startPoller" /\ ~locked
  /\ IF job = NoJob THEN UNCHANGED <<poller, pollers>>
     ELSE \E p \in Pollers :
       /\ FreeSlot(pollers, p)
       /\ pollers' = [pollers EXCEPT ![p] =
            [pc |-> "check", job |-> job, running |-> TRUE, got |-> "absent"]]
       /\ poller' = p
  /\ main' = "loop"
  /\ UNCHANGED <<locked, job, button, batch, submits, detector, events, server, errors>>

-----------------------------------------------------------------------------
(* Slots of the main thread.                                               *)

\* start_automation: with a job attached it calls _start_poller inside the
\* QMutexLocker block, otherwise it starts a submitter.
StartAutomation ==
  /\ ~locked
  /\ IF job # NoJob
       THEN /\ locked' = TRUE
            /\ CallStartPoller
            /\ UNCHANGED <<job, button, batch, submits>>
       ELSE /\ button' = FALSE
            /\ \E i \in Submits :
                 /\ FreeSlot(submits, i)
                 /\ submits' = [submits EXCEPT ![i] =
                      [pc |-> "post", count |-> batch, first |-> NoJob]]
            /\ UNCHANGED <<main, locked, job, poller, batch, pollers>>

Click ==
  /\ main = "loop" /\ button
  /\ StartAutomation
  /\ UNCHANGED <<detector, events, server, errors>>

ChangeBatch == \E n \in 1 .. MaxBatch :
  /\ main = "loop" /\ n # batch
  /\ batch' = n
  /\ UNCHANGED <<main, locked, job, poller, button,
                 pollers, submits, detector, events, server, errors>>

\* The timer of MainWindow.__init__ fires once.
AutoLaunch ==
  /\ main = "loop" /\ detector.pc = "unborn"
  /\ detector' = [pc |-> "ask", job |-> NoJob]
  /\ UNCHANGED <<window, pollers, submits, events, server, errors>>

\* _on_jobs_created and _on_job_detected attach the window to a job.
Attach(j) ==
  /\ ~locked
  /\ job' = j
  /\ CallStartPoller
  /\ UNCHANGED <<locked, batch, submits>>

OnJobsCreated(e) == e.kind = "created" /\ button' = TRUE /\ Attach(e.job)

OnJobDetected(e) == e.kind = "found" /\ UNCHANGED button /\ Attach(e.job)

OnNoJobFound(e) == e.kind = "none" /\ StartAutomation

OnSubmissionFailed(e) ==
  /\ e.kind = "submitFailed"
  /\ button' = TRUE
  /\ UNCHANGED <<main, locked, job, poller, batch, pollers, submits>>

EndMonitoring ==
  /\ ~locked
  /\ StopPoller
  /\ job' = NoJob
  /\ button' = TRUE
  /\ UNCHANGED <<main, locked, batch, submits>>

\* A slip: any result ends the monitoring.
OnStatusUpdate_EndsAlways(e) == e.kind = "status" /\ EndMonitoring

\* _on_status_update: whatever job the result is about, a final status ends
\* the monitoring of the attached one.
OnStatusUpdate(e) ==
  /\ e.kind = "status"
  /\ IF e.status = "ended" THEN EndMonitoring ELSE UNCHANGED <<window, pollers, submits>>

HandleEvent ==
  /\ main = "loop" /\ events # << >>
  /\ events' = Tail(events)
  /\ LET e == Head(events) IN
       \/ OnJobsCreated(e) \/ OnJobDetected(e) \/ OnNoJobFound(e)
       \/ OnSubmissionFailed(e) \/ OnStatusUpdate(e)
  /\ UNCHANGED <<detector, server, errors>>

\* closeEvent waits half a second or a second for each thread and accepts
\* the event whether or not they ended; the process ends with its window.
Close ==
  /\ main = "loop"
  /\ main' = "closed"
  /\ poller' = NoPoller
  /\ button' = FALSE /\ batch' = 1
  /\ pollers' = [p \in Pollers |-> Idle]
  /\ submits' = [i \in Submits |-> NoSubmit]
  /\ detector' = Detected
  /\ events' = << >>
  /\ UNCHANGED <<locked, job, server, errors>>

-----------------------------------------------------------------------------
(* StatusPollerThread.run                                                  *)

\* GET /status/{job_id} is answered with what the server knows by then.
PollerAsks(p) ==
  /\ pollers[p].pc = "request"
  /\ pollers' = [pollers EXCEPT ![p].pc = "reply", ![p].got = server[pollers[p].job]]
  /\ UNCHANGED <<window, submits, detector, events, server, errors>>

\* The results about a job that wait in the queue of the main thread.
Backlog(j) == {n \in DOMAIN events : events[n].kind = "status" /\ events[n].job = j}

\* The result is posted whether or not stop() was called meanwhile.
PollerReports(p) ==
  /\ pollers[p].pc = "reply"
  /\ pollers[p].running => Cardinality(Backlog(pollers[p].job)) < MaxBacklog
  /\ Emit(Signal("status", pollers[p].job, pollers[p].got))
  /\ pollers' = [pollers EXCEPT ![p].pc = "check", ![p].got = "absent"]
  /\ UNCHANGED <<window, submits, detector, server, errors>>

\* A slip: the thread ends with its first error.
PollerFails_Ends(p) ==
  /\ pollers[p].pc = "request"
  /\ Fail
  /\ pollers' = [pollers EXCEPT ![p].pc = "finished"]
  /\ UNCHANGED <<window, submits, detector, events, server>>

\* No reply, a 404 or a 5xx: logged, and tried again after the back-off.
PollerFails(p) ==
  /\ pollers[p].pc = "request"
  /\ Fail
  /\ pollers' = [pollers EXCEPT ![p].pc = "check"]
  /\ UNCHANGED <<window, submits, detector, events, server>>

PollerWakes(p) ==
  /\ pollers[p].pc = "check"
  /\ pollers' = [pollers EXCEPT ![p] =
       IF @.running THEN [@ EXCEPT !.pc = "request"] ELSE Idle]
  /\ UNCHANGED <<window, submits, detector, events, server, errors>>

-----------------------------------------------------------------------------
(* JobSubmitterThread.run                                                  *)

\* The API answers a single request with an active job if there is one, and
\* creates the jobs otherwise, numbered in the order of their creation; the
\* thread reports the first id.
SubmitCreates(i) ==
  /\ submits[i].pc = "post"
  /\ \/ /\ submits[i].count = 1
        /\ \E j \in ActiveJobs : submits' = [submits EXCEPT ![i].pc = "answer", ![i].first = j]
        /\ UNCHANGED server
     \/ /\ submits[i].count > 1 \/ ActiveJobs = {}
        /\ \E new \in SUBSET Unused :
             /\ Cardinality(new) = submits[i].count
             /\ \A j \in new, k \in Unused \ new : j < k
             /\ server' = [j \in Jobs |-> IF j \in new THEN "active" ELSE server[j]]
             /\ \E j \in new :
                  /\ \A k \in new : j <= k
                  /\ submits' = [submits EXCEPT ![i].pc = "answer", ![i].first = j]
  /\ UNCHANGED <<window, pollers, detector, events, errors>>

SubmitReports(i) ==
  /\ submits[i].pc = "answer"
  /\ Emit(Signal("created", submits[i].first, "active"))
  /\ submits' = [submits EXCEPT ![i] = NoSubmit]
  /\ UNCHANGED <<window, pollers, detector, server, errors>>

\* A slip: an error of the request is not reported to the window.
SubmitFails_Silently(i) ==
  /\ submits[i].pc \in {"post", "answer"}
  /\ Fail
  /\ submits' = [submits EXCEPT ![i] = NoSubmit]
  /\ UNCHANGED <<window, pollers, detector, events, server>>

\* The request fails before or after the API has acted on it.
SubmitFails(i) ==
  /\ submits[i].pc \in {"post", "answer"}
  /\ Fail
  /\ Emit(Signal("submitFailed", NoJob, "absent"))
  /\ submits' = [submits EXCEPT ![i] = NoSubmit]
  /\ UNCHANGED <<window, pollers, detector, server>>

\* With the job ids of this instance used up the API refuses.
Refusable(i) ==
  /\ submits[i].pc = "post"
  /\ submits[i].count > 1 \/ ActiveJobs = {}
  /\ Cardinality(Unused) < submits[i].count

\* A slip: an answer without ids is taken for a success.
SubmitRefused_Succeeds(i) ==
  /\ Refusable(i)
  /\ Emit(Signal("created", NoJob, "absent"))
  /\ submits' = [submits EXCEPT ![i] = NoSubmit]
  /\ UNCHANGED <<window, pollers, detector, server, errors>>

SubmitRefused(i) ==
  /\ Refusable(i)
  /\ Emit(Signal("submitFailed", NoJob, "absent"))
  /\ submits' = [submits EXCEPT ![i] = NoSubmit]
  /\ UNCHANGED <<window, pollers, detector, server, errors>>

-----------------------------------------------------------------------------
(* ActiveJobDetectorThread.run: it waits until the API is healthy, then    *)
(* asks for an active job.                                                 *)

\* GET /active_job is answered with an active job, or none.
DetectorAsks ==
  /\ detector.pc = "ask"
  /\ \E j \in IF ActiveJobs = {} THEN {NoJob} ELSE ActiveJobs :
       detector' = [pc |-> "reply", job |-> j]
  /\ UNCHANGED <<window, pollers, submits, events, server, errors>>

\* What is reported may be out of date.
DetectorReports ==
  /\ detector.pc = "reply"
  /\ detector' = Detected
  /\ IF detector.job = NoJob
       THEN Emit(Signal("none", NoJob, "absent"))
       ELSE Emit(Signal("found", detector.job, "active"))
  /\ UNCHANGED <<window, pollers, submits, server, errors>>

DetectorFails ==
  /\ detector.pc = "ask"
  /\ Fail
  /\ detector' = Detected
  /\ UNCHANGED <<window, pollers, submits, events, server>>

-----------------------------------------------------------------------------
\* A worker finishes a job behind the API, or marks it failed.
ServerEnds(j) ==
  /\ server[j] = "active"
  /\ server' = [server EXCEPT ![j] = "ended"]
  /\ UNCHANGED <<window, pollers, submits, detector, events, errors>>

MainStep == HandleEvent \/ StartPoller
PollerStep(p) == PollerAsks(p) \/ PollerReports(p) \/ PollerWakes(p)
SubmitStep(i) == SubmitCreates(i) \/ SubmitReports(i) \/ SubmitRefused(i)
DetectorStep == DetectorAsks \/ DetectorReports
Next ==
  \/ main # "closed" /\
       \/ MainStep \/ Click \/ ChangeBatch \/ AutoLaunch \/ Close
       \/ \E p \in Pollers : PollerStep(p) \/ PollerFails(p)
       \/ \E i \in Submits : SubmitStep(i) \/ SubmitFails(i)
       \/ DetectorStep \/ DetectorFails
  \/ \E j \in Jobs : ServerEnds(j)

Spec == Init /\ [][Next]_vars

\* The event loop and every thread go on; requests end by their timeouts.
Fairness ==
  /\ WF_vars(main # "closed" /\ MainStep)
  /\ \A p \in Pollers : WF_vars(main # "closed" /\ PollerStep(p))
  /\ \A i \in Submits : WF_vars(main # "closed" /\ SubmitStep(i))
  /\ WF_vars(main # "closed" /\ DetectorStep)

FairSpec == Spec /\ Fairness

-----------------------------------------------------------------------------
EventTypes ==
  [kind : {"created", "found", "status"}, job : Jobs, status : Statuses]
    \union [kind : {"none", "submitFailed"}, job : {NoJob}, status : {"absent"}]

PollerTypes ==
  [pc : {"check", "request", "reply"}, job : Jobs, running : BOOLEAN, got : Statuses]
    \union [pc : {"finished"}, job : Jobs \union {NoJob}, running : BOOLEAN, got : Statuses]

SubmitTypes ==
  {NoSubmit} \union [pc : {"post"}, count : 1 .. MaxBatch, first : {NoJob}]
             \union [pc : {"answer"}, count : 1 .. MaxBatch, first : Jobs]

DetectorTypes ==
  [pc : {"unborn", "ask", "finished"}, job : {NoJob}]
    \union [pc : {"reply"}, job : Jobs \union {NoJob}]

WindowTypeOK ==
  /\ main \in {"loop", "startPoller", "closed"} /\ locked \in BOOLEAN
  /\ job \in Jobs \union {NoJob} /\ poller \in Pollers \union {NoPoller}
  /\ button \in BOOLEAN /\ batch \in 1 .. MaxBatch

\* Types: the window, its threads and the posted signals; a signal that
\* attaches the window or reports a status always names a job.
TypeOK ==
  /\ WindowTypeOK
  /\ pollers \in [Pollers -> PollerTypes]
  /\ submits \in [Submits -> SubmitTypes]
  /\ detector \in DetectorTypes
  /\ events \in Seq(EventTypes)
  /\ server \in [Jobs -> Statuses]
  /\ errors \in 0 .. MaxErrors

\* However often the window is attached to another job, while replies are
\* late and old threads linger, at most one poller has not been told to stop,
\* and it is the one _stop_poller() will reach.
OneLivePoller == \A p \in Pollers : pollers[p].running => p = poller

\* The poller the window knows goes on asking, for the job the window shows,
\* and a window back in its event loop with a job has one.
PollerFollowsJob ==
  /\ poller # NoPoller => /\ pollers[poller].running
                          /\ pollers[poller].pc # "finished"
                          /\ pollers[poller].job = job
  /\ main = "loop" /\ job # NoJob => poller # NoPoller

\* The window gives up a job only when that job has ended, or on a result
\* that is about another job.
DroppedWhenDone ==
  [][job # NoJob /\ job' = NoJob
       => server[job] = "ended" \/ Head(events).job # job]_vars

\* start_automation() in the call of _start_poller(): the main thread waits
\* for a mutex it holds itself.
Hung == main = "startPoller" /\ locked

\* A button greyed out by a submission is enabled again, whatever becomes of
\* the request, unless the window hangs or is closed.
ButtonComesBack == ~button ~> (button \/ Hung \/ main = "closed")

\* Once the job on display has ended, the window notices, in spite of failed
\* polls and of other jobs' late results: it shows no job or a live one.
ShowsEnded == job \in {j \in Jobs : server[j] = "ended"}

EndIsShown == ShowsEnded ~> (~ShowsEnded \/ Hung \/ main = "closed")

-----------------------------------------------------------------------------
(* What the code says of itself and does not keep.                         *)

\* "QMutex guards job_id / is_running" (gui.py:20) and "Job already active -
\* attaching poller" (gui.py:1159): the guarded call gets its mutex.
MutexIsFree == main = "startPoller" => ~locked
=============================================================================
