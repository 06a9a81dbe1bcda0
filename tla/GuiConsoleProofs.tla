--------------------------- MODULE GuiConsoleProofs ---------------------------
(***************************************************************************)
(* The operator console, for every number of jobs, threads and failed      *)
(* requests: its types, and that at most one poller is alive, which is the *)
(* one the window knows and follows the job on display.                    *)
(***************************************************************************)
EXTENDS GuiConsole, TLAPS

USE DEF NoJob, NoPoller

\* _start_poller() reaches its mutex after _stop_poller().
StartingHasNoPoller == main = "startPoller" => poller = NoPoller

Inv == TypeOK /\ OneLivePoller /\ PollerFollowsJob /\ StartingHasNoPoller

Untouched == UNCHANGED <<main, job, poller, pollers>>

LEMMA NumbersFacts ==
  /\ 0 \notin Jobs /\ 0 \notin Pollers
  /\ Jobs \subseteq Nat /\ Pollers \subseteq Nat
BY ConsoleAssumption DEF Jobs, Pollers

LEMMA IdleType == Idle \in PollerTypes /\ Idle.pc = "finished" /\ ~Idle.running
BY DEF Idle, PollerTypes, Statuses

LEMMA EmitType ==
  ASSUME events \in Seq(EventTypes), NEW e \in EventTypes, Emit(e)
  PROVE  events' \in Seq(EventTypes)
BY DEF Emit

LEMMA FailType ==
  ASSUME errors \in 0 .. MaxErrors, Fail
  PROVE  errors' \in 0 .. MaxErrors
BY ConsoleAssumption DEF Fail

\* _stop_poller(): afterwards no poller is alive.
LEMMA StopPollerFacts ==
  ASSUME TypeOK, OneLivePoller, StopPoller
  PROVE  /\ poller' = NoPoller
         /\ pollers' \in [Pollers -> PollerTypes]
         /\ \A p \in Pollers : ~pollers'[p].running
<1>1. CASE poller = NoPoller
  <2>1. pollers' = pollers
    BY <1>1 DEF StopPoller
  <2>2. \A p \in Pollers : ~pollers[p].running
    BY <1>1, NumbersFacts DEF OneLivePoller
  <2> QED BY <2>1, <2>2 DEF TypeOK, StopPoller
<1>2. CASE poller # NoPoller
  <2>1. poller \in Pollers /\ pollers' = [pollers EXCEPT ![poller] = Stopped(poller)]
    BY <1>2 DEF StopPoller, TypeOK, WindowTypeOK
  <2>2. Stopped(poller) \in PollerTypes /\ ~Stopped(poller).running
    BY <2>1, IdleType DEF Stopped, TypeOK, PollerTypes
  <2>3. \A p \in Pollers : ~pollers'[p].running
    BY <2>1, <2>2 DEF OneLivePoller, TypeOK
  <2> QED BY <2>1, <2>2, <2>3 DEF TypeOK, StopPoller
<1> QED BY <1>1, <1>2

\* With no poller known and none alive the invariants hold, unless the
\* window is back in its loop with a job.
LEMMA NoPollerIsFine ==
  ASSUME poller' = NoPoller, \A p \in Pollers : ~pollers'[p].running,
         main' = "loop" => job' = NoJob
  PROVE  OneLivePoller' /\ PollerFollowsJob' /\ StartingHasNoPoller'
BY DEF OneLivePoller, PollerFollowsJob, StartingHasNoPoller

LEMMA UntouchedIsFine ==
  ASSUME Inv, Untouched
  PROVE  OneLivePoller' /\ PollerFollowsJob' /\ StartingHasNoPoller'
BY DEF Inv, Untouched, OneLivePoller, PollerFollowsJob, StartingHasNoPoller

-----------------------------------------------------------------------------
(* The main thread.                                                        *)

LEMMA InitInv == Init => Inv
<1> SUFFICES ASSUME Init PROVE Inv
  OBVIOUS
<1>1. TypeOK
  <2>1. NoSubmit \in SubmitTypes
    BY DEF SubmitTypes
  <2>2. 1 \in 1 .. MaxBatch /\ 0 \in 0 .. MaxErrors
    BY ConsoleAssumption
  <2>3. WindowTypeOK
    BY <2>2 DEF Init, WindowTypeOK
  <2>4. pollers \in [Pollers -> PollerTypes] /\ submits \in [Submits -> SubmitTypes]
    BY <2>1, IdleType DEF Init
  <2>5. server \in [Jobs -> Statuses] /\ events \in Seq(EventTypes)
    BY DEF Init, Statuses
  <2>6. detector \in DetectorTypes
    BY DEF Init, DetectorTypes
  <2> QED BY <2>2, <2>3, <2>4, <2>5, <2>6 DEF Init, TypeOK
<1>2. OneLivePoller /\ PollerFollowsJob /\ StartingHasNoPoller
  BY IdleType DEF Init, OneLivePoller, PollerFollowsJob, StartingHasNoPoller
<1> QED BY <1>1, <1>2 DEF Inv

LEMMA StartPollerInv ==
  ASSUME Inv, StartPoller
  PROVE  Inv'
<1>1. poller = NoPoller /\ \A p \in Pollers : ~pollers[p].running
  BY NumbersFacts DEF Inv, StartPoller, StartingHasNoPoller, OneLivePoller
<1>2. CASE job = NoJob
  <2>1. UNCHANGED <<poller, pollers, job>> /\ main' = "loop"
    BY <1>2 DEF StartPoller
  <2>2. TypeOK'
    BY <2>1 DEF Inv, TypeOK, WindowTypeOK, StartPoller
  <2> QED BY <1>1, <1>2, <2>1, <2>2, NoPollerIsFine DEF Inv
<1>3. CASE job # NoJob
  <2> DEFINE new == [pc |-> "check", job |-> job, running |-> TRUE, got |-> "absent"]
  <2>1. PICK p \in Pollers : pollers' = [pollers EXCEPT ![p] = new] /\ poller' = p
    BY <1>3 DEF StartPoller
  <2>2. new \in PollerTypes
    BY <1>3 DEF Inv, TypeOK, WindowTypeOK, PollerTypes, Statuses
  <2>3. TypeOK'
    BY <2>1, <2>2 DEF Inv, TypeOK, WindowTypeOK, StartPoller
  <2>4. pollers'[p] = new /\ \A q \in Pollers : q # p => pollers'[q] = pollers[q]
    BY <2>1 DEF Inv, TypeOK
  <2>5. OneLivePoller'
    BY <1>1, <2>1, <2>4 DEF OneLivePoller
  <2>6. PollerFollowsJob' /\ StartingHasNoPoller'
    BY <2>1, <2>4, NumbersFacts DEF PollerFollowsJob, StartingHasNoPoller, StartPoller
  <2> QED BY <2>3, <2>5, <2>6 DEF Inv
<1> QED BY <1>2, <1>3

\* What a click and a no_job_found do.
LEMMA StartAutomationInv ==
  ASSUME Inv, StartAutomation
  PROVE  /\ WindowTypeOK'
         /\ pollers' \in [Pollers -> PollerTypes]
         /\ submits' \in [Submits -> SubmitTypes]
         /\ OneLivePoller' /\ PollerFollowsJob' /\ StartingHasNoPoller'
<1>1. CASE job # NoJob
  <2>1. StopPoller /\ main' = "startPoller" /\ locked' = TRUE
        /\ UNCHANGED <<job, button, batch, submits>>
    BY <1>1 DEF StartAutomation, CallStartPoller
  <2>2. poller' = NoPoller /\ pollers' \in [Pollers -> PollerTypes]
        /\ \A p \in Pollers : ~pollers'[p].running
    BY <2>1, StopPollerFacts DEF Inv
  <2> QED BY <2>1, <2>2, NoPollerIsFine DEF Inv, TypeOK, WindowTypeOK
<1>2. CASE job = NoJob
  <2>1. button' = FALSE /\ UNCHANGED <<main, locked, job, poller, batch, pollers>>
    BY <1>2 DEF StartAutomation
  <2>2. \E i \in Submits : submits' = [submits EXCEPT ![i] =
          [pc |-> "post", count |-> batch, first |-> NoJob]]
    BY <1>2 DEF StartAutomation
  <2>3. submits' \in [Submits -> SubmitTypes]
    BY <2>2, ConsoleAssumption DEF Inv, TypeOK, WindowTypeOK, SubmitTypes
  <2>4. OneLivePoller' /\ PollerFollowsJob' /\ StartingHasNoPoller'
    BY <2>1, UntouchedIsFine DEF Untouched
  <2> QED BY <2>1, <2>3, <2>4 DEF Inv, TypeOK, WindowTypeOK
<1> QED BY <1>1, <1>2

\* What attaching the window to a job does.
LEMMA AttachInv ==
  ASSUME Inv, NEW j \in Jobs, Attach(j), button' \in BOOLEAN
  PROVE  /\ WindowTypeOK'
         /\ pollers' \in [Pollers -> PollerTypes]
         /\ submits' \in [Submits -> SubmitTypes]
         /\ OneLivePoller' /\ PollerFollowsJob' /\ StartingHasNoPoller'
<1>1. StopPoller /\ main' = "startPoller" /\ job' = j /\ UNCHANGED <<locked, batch, submits>>
  BY DEF Attach, CallStartPoller
<1>2. poller' = NoPoller /\ pollers' \in [Pollers -> PollerTypes]
      /\ \A p \in Pollers : ~pollers'[p].running
  BY <1>1, StopPollerFacts DEF Inv
<1> QED BY <1>1, <1>2, NoPollerIsFine DEF Inv, TypeOK, WindowTypeOK

\* What a result does to the window.
LEMMA OnStatusUpdateInv ==
  ASSUME Inv, main = "loop", NEW e, OnStatusUpdate(e)
  PROVE  /\ WindowTypeOK'
         /\ pollers' \in [Pollers -> PollerTypes]
         /\ submits' \in [Submits -> SubmitTypes]
         /\ OneLivePoller' /\ PollerFollowsJob' /\ StartingHasNoPoller'
<1>1. CASE EndMonitoring
  <2>1. StopPoller /\ job' = NoJob /\ button' = TRUE /\ UNCHANGED <<main, locked, batch, submits>>
    BY <1>1 DEF EndMonitoring
  <2>2. poller' = NoPoller /\ pollers' \in [Pollers -> PollerTypes]
        /\ \A p \in Pollers : ~pollers'[p].running
    BY <2>1, StopPollerFacts DEF Inv
  <2> QED BY <2>1, <2>2, NoPollerIsFine DEF Inv, TypeOK, WindowTypeOK
<1>2. CASE UNCHANGED <<window, pollers, submits>>
  BY <1>2, UntouchedIsFine DEF Untouched, Inv, TypeOK, WindowTypeOK, window
<1> QED BY <1>1, <1>2 DEF OnStatusUpdate

\* A posted signal taken from the queue.
LEMMA HeadFacts ==
  ASSUME events \in Seq(EventTypes), events # << >>
  PROVE  Head(events) \in EventTypes /\ Tail(events) \in Seq(EventTypes)
OBVIOUS

LEMMA HandleEventInv ==
  ASSUME Inv, HandleEvent
  PROVE  Inv'
<1> DEFINE e == Head(events)
<1>1. /\ main = "loop" /\ e \in EventTypes /\ events' \in Seq(EventTypes)
      /\ UNCHANGED <<detector, server, errors>>
  BY HeadFacts DEF Inv, TypeOK, HandleEvent
<1>2. e.kind \in {"created", "found"} => e.job \in Jobs
  BY <1>1 DEF EventTypes
<1> DEFINE Kept == /\ WindowTypeOK'
                   /\ pollers' \in [Pollers -> PollerTypes]
                   /\ submits' \in [Submits -> SubmitTypes]
                   /\ OneLivePoller' /\ PollerFollowsJob' /\ StartingHasNoPoller'
<1>3. ASSUME OnJobsCreated(e) PROVE Kept
  BY <1>2, <1>3, AttachInv DEF OnJobsCreated
<1>4. ASSUME OnJobDetected(e) PROVE Kept
  <2>1. button' \in BOOLEAN
    BY <1>4 DEF OnJobDetected, Inv, TypeOK, WindowTypeOK
  <2> QED BY <1>2, <1>4, <2>1, AttachInv DEF OnJobDetected
<1>5. ASSUME OnNoJobFound(e) PROVE Kept
  BY <1>5, StartAutomationInv DEF OnNoJobFound
<1>6. ASSUME OnSubmissionFailed(e) PROVE Kept
  BY <1>6, UntouchedIsFine DEF OnSubmissionFailed, Untouched, Inv, TypeOK, WindowTypeOK
<1>7. ASSUME OnStatusUpdate(e) PROVE Kept
  BY <1>1, <1>7, OnStatusUpdateInv
<1>8. Kept
  BY <1>3, <1>4, <1>5, <1>6, <1>7 DEF HandleEvent
<1> QED BY <1>1, <1>8 DEF Inv, TypeOK

\* The remaining steps of the main thread leave job and poller together.
LEMMA WindowInv ==
  ASSUME Inv, Click \/ ChangeBatch \/ AutoLaunch \/ Close
  PROVE  Inv'
<1>1. CASE Click
  BY <1>1, StartAutomationInv DEF Click, Inv, TypeOK
<1>2. CASE ChangeBatch
  BY <1>2, UntouchedIsFine DEF ChangeBatch, Untouched, Inv, TypeOK, WindowTypeOK
<1>3. CASE AutoLaunch
  <2>1. detector' \in DetectorTypes
    BY <1>3 DEF AutoLaunch, DetectorTypes
  <2> QED BY <1>3, <2>1, UntouchedIsFine
          DEF AutoLaunch, Untouched, Inv, TypeOK, WindowTypeOK, window
<1>4. CASE Close
  <2>1. poller' = NoPoller /\ pollers' \in [Pollers -> PollerTypes]
        /\ \A p \in Pollers : ~pollers'[p].running
    BY <1>4, IdleType DEF Close
  <2>2. /\ submits' \in [Submits -> SubmitTypes] /\ events' \in Seq(EventTypes)
        /\ detector' \in DetectorTypes
    BY <1>4 DEF Close, SubmitTypes, Detected, DetectorTypes
  <2>3. OneLivePoller' /\ PollerFollowsJob' /\ StartingHasNoPoller'
    BY <1>4, <2>1, NoPollerIsFine DEF Close
  <2>4. WindowTypeOK'
    <3>1. 1 \in 1 .. MaxBatch
      BY ConsoleAssumption
    <3> QED BY <1>4, <2>1, <3>1 DEF Close, Inv, TypeOK, WindowTypeOK
  <2> QED BY <1>4, <2>1, <2>2, <2>3, <2>4 DEF Close, Inv, TypeOK
<1> QED BY <1>1, <1>2, <1>3, <1>4

-----------------------------------------------------------------------------
(* The other threads.                                                      *)

\* A poller that keeps its job, and its flag, and does not end.
LEMMA PollerChangeInv ==
  ASSUME Inv, NEW p \in Pollers, NEW r \in PollerTypes,
         pollers' = [pollers EXCEPT ![p] = r],
         UNCHANGED <<main, job, poller>>,
         pollers[p].running => r.running /\ r.pc # "finished" /\ r.job = pollers[p].job,
         r.running => pollers[p].running
  PROVE  OneLivePoller' /\ PollerFollowsJob' /\ StartingHasNoPoller'
<1>1. pollers'[p] = r /\ \A q \in Pollers : q # p => pollers'[q] = pollers[q]
  BY DEF Inv, TypeOK
<1>2. OneLivePoller'
  BY <1>1 DEF Inv, OneLivePoller
<1>3. PollerFollowsJob'
  BY <1>1 DEF Inv, PollerFollowsJob, TypeOK, WindowTypeOK
<1> QED BY <1>2, <1>3 DEF Inv, StartingHasNoPoller

LEMMA PollerInv ==
  ASSUME Inv, NEW p \in Pollers, PollerStep(p) \/ PollerFails(p)
  PROVE  Inv'
<1>1. pollers[p] \in PollerTypes
  BY DEF Inv, TypeOK
<1>2. CASE PollerAsks(p)
  <2> DEFINE r == [pollers[p] EXCEPT !.pc = "reply", !.got = server[pollers[p].job]]
  <2>1. pollers' = [pollers EXCEPT ![p] = r] /\ pollers[p].pc = "request"
    BY <1>2 DEF PollerAsks
  <2>2. r \in PollerTypes
    BY <1>1, <2>1 DEF PollerTypes, Inv, TypeOK
  <2>3. OneLivePoller' /\ PollerFollowsJob' /\ StartingHasNoPoller'
    BY <1>1, <1>2, <2>1, <2>2, PollerChangeInv DEF PollerAsks, window, PollerTypes
  <2> QED BY <1>2, <2>1, <2>2, <2>3 DEF PollerAsks, Inv, TypeOK, WindowTypeOK, window
<1>3. CASE PollerReports(p)
  <2> DEFINE r == [pollers[p] EXCEPT !.pc = "check", !.got = "absent"]
  <2>1. pollers' = [pollers EXCEPT ![p] = r] /\ pollers[p].pc = "reply"
    BY <1>3 DEF PollerReports
  <2>2. r \in PollerTypes /\ Signal("status", pollers[p].job, pollers[p].got) \in EventTypes
    BY <1>1, <2>1 DEF PollerTypes, EventTypes, Signal, Statuses
  <2>3. OneLivePoller' /\ PollerFollowsJob' /\ StartingHasNoPoller'
    BY <1>1, <1>3, <2>1, <2>2, PollerChangeInv DEF PollerReports, window, PollerTypes
  <2>4. events' \in Seq(EventTypes)
    BY <1>3, <2>2, EmitType DEF PollerReports, Inv, TypeOK
  <2> QED BY <1>3, <2>1, <2>2, <2>3, <2>4 DEF PollerReports, Inv, TypeOK, WindowTypeOK, window
<1>4. CASE PollerWakes(p)
  <2> DEFINE r == IF pollers[p].running THEN [pollers[p] EXCEPT !.pc = "request"] ELSE Idle
  <2>1. pollers' = [pollers EXCEPT ![p] = r] /\ pollers[p].pc = "check"
    BY <1>4 DEF PollerWakes
  <2>2. r \in PollerTypes
    BY <1>1, <2>1, IdleType DEF PollerTypes
  <2>3. OneLivePoller' /\ PollerFollowsJob' /\ StartingHasNoPoller'
    BY <1>1, <1>4, <2>1, <2>2, IdleType, PollerChangeInv DEF PollerWakes, window, PollerTypes
  <2> QED BY <1>4, <2>1, <2>2, <2>3 DEF PollerWakes, Inv, TypeOK, WindowTypeOK, window
<1>5. CASE PollerFails(p)
  <2> DEFINE r == [pollers[p] EXCEPT !.pc = "check"]
  <2>1. pollers' = [pollers EXCEPT ![p] = r] /\ pollers[p].pc = "request"
    BY <1>5 DEF PollerFails
  <2>2. r \in PollerTypes
    BY <1>1, <2>1 DEF PollerTypes
  <2>3. OneLivePoller' /\ PollerFollowsJob' /\ StartingHasNoPoller'
    BY <1>1, <1>5, <2>1, <2>2, PollerChangeInv DEF PollerFails, window, PollerTypes
  <2> QED BY <1>5, <2>1, <2>2, <2>3, FailType DEF PollerFails, Inv, TypeOK, WindowTypeOK, window
<1> QED BY <1>2, <1>3, <1>4, <1>5 DEF PollerStep

LEMMA SubmitInv ==
  ASSUME Inv, NEW i \in Submits, SubmitStep(i) \/ SubmitFails(i)
  PROVE  Inv'
<1>1. submits[i] \in SubmitTypes /\ NoSubmit \in SubmitTypes
  BY DEF Inv, TypeOK, SubmitTypes
<1>2. Signal("submitFailed", NoJob, "absent") \in EventTypes
  BY DEF Signal, EventTypes
<1>3. UNCHANGED <<window, pollers, detector>>
  BY DEF SubmitStep, SubmitCreates, SubmitReports, SubmitRefused, SubmitFails
<1>4. /\ submits' \in [Submits -> SubmitTypes] /\ events' \in Seq(EventTypes)
      /\ server' \in [Jobs -> Statuses] /\ errors' \in 0 .. MaxErrors
  <2>1. CASE SubmitCreates(i)
    <3>1. submits[i] \in [pc : {"post"}, count : 1 .. MaxBatch, first : {NoJob}]
      BY <1>1, <2>1 DEF SubmitCreates, SubmitTypes, NoSubmit
    <3>2. PICK j \in Jobs : submits' = [submits EXCEPT ![i].pc = "answer", ![i].first = j]
      BY <2>1 DEF SubmitCreates, ActiveJobs, Unused
    <3>3. submits' \in [Submits -> SubmitTypes]
      BY <3>1, <3>2 DEF Inv, TypeOK, SubmitTypes
    <3>4. server' \in [Jobs -> Statuses]
      BY <2>1 DEF SubmitCreates, Inv, TypeOK, Statuses
    <3> QED BY <2>1, <3>3, <3>4 DEF SubmitCreates, Inv, TypeOK
  <2>2. CASE SubmitReports(i)
    <3>0. submits[i] \in [pc : {"answer"}, count : 1 .. MaxBatch, first : Jobs]
      BY <1>1, <2>2 DEF SubmitReports, SubmitTypes, NoSubmit
    <3>1. Signal("created", submits[i].first, "active") \in EventTypes
      BY <3>0 DEF Signal, EventTypes, Statuses
    <3> QED BY <1>1, <2>2, <3>1, EmitType DEF SubmitReports, Inv, TypeOK
  <2>3. CASE SubmitRefused(i)
    BY <1>1, <1>2, <2>3, EmitType DEF SubmitRefused, Inv, TypeOK
  <2>4. CASE SubmitFails(i)
    BY <1>1, <1>2, <2>4, EmitType, FailType DEF SubmitFails, Inv, TypeOK
  <2> QED BY <2>1, <2>2, <2>3, <2>4 DEF SubmitStep
<1>5. OneLivePoller' /\ PollerFollowsJob' /\ StartingHasNoPoller'
  BY <1>3, UntouchedIsFine DEF Untouched, window
<1> QED BY <1>3, <1>4, <1>5 DEF Inv, TypeOK, WindowTypeOK, window

LEMMA DetectorInv ==
  ASSUME Inv, DetectorStep \/ DetectorFails
  PROVE  Inv'
<1>1. UNCHANGED <<window, pollers, submits, server>>
  BY DEF DetectorStep, DetectorAsks, DetectorReports, DetectorFails
<1>2. /\ detector' \in DetectorTypes
      /\ events' \in Seq(EventTypes) /\ errors' \in 0 .. MaxErrors
  <2>1. CASE DetectorAsks
    BY <2>1 DEF DetectorAsks, DetectorTypes, ActiveJobs, Inv, TypeOK
  <2>2. CASE DetectorReports
    <3>1. Signal("none", NoJob, "absent") \in EventTypes
      BY DEF Signal, EventTypes
    <3>2. detector.job # NoJob => Signal("found", detector.job, "active") \in EventTypes
      BY <2>2 DEF DetectorReports, DetectorTypes, Signal, EventTypes, Statuses, Inv, TypeOK
    <3>3. events' \in Seq(EventTypes)
      BY <2>2, <3>1, <3>2, EmitType DEF DetectorReports, Inv, TypeOK
    <3> QED BY <2>2, <3>3 DEF DetectorReports, Detected, DetectorTypes, Inv, TypeOK
  <2>3. CASE DetectorFails
    BY <2>3, FailType DEF DetectorFails, Detected, DetectorTypes, Inv, TypeOK
  <2> QED BY <2>1, <2>2, <2>3 DEF DetectorStep
<1>3. OneLivePoller' /\ PollerFollowsJob' /\ StartingHasNoPoller'
  BY <1>1, UntouchedIsFine DEF Untouched, window
<1> QED BY <1>1, <1>2, <1>3 DEF Inv, TypeOK, WindowTypeOK, window

LEMMA ServerEndsInv ==
  ASSUME Inv, NEW j \in Jobs, ServerEnds(j)
  PROVE  Inv'
<1>1. OneLivePoller' /\ PollerFollowsJob' /\ StartingHasNoPoller'
  BY UntouchedIsFine DEF Untouched, ServerEnds, window
<1> QED BY <1>1 DEF ServerEnds, Inv, TypeOK, WindowTypeOK, window, Statuses

-----------------------------------------------------------------------------
LEMMA NextInv == Inv /\ [Next]_vars => Inv'
<1> SUFFICES ASSUME Inv, [Next]_vars PROVE Inv'
  OBVIOUS
<1>1. CASE UNCHANGED vars
  BY <1>1, UntouchedIsFine DEF vars, window, Untouched, Inv, TypeOK, WindowTypeOK
<1>2. CASE MainStep
  BY <1>2, HandleEventInv, StartPollerInv DEF MainStep
<1>3. CASE Click \/ ChangeBatch \/ AutoLaunch \/ Close
  BY <1>3, WindowInv
<1>4. CASE \E p \in Pollers : PollerStep(p) \/ PollerFails(p)
  BY <1>4, PollerInv
<1>5. CASE \E i \in Submits : SubmitStep(i) \/ SubmitFails(i)
  BY <1>5, SubmitInv
<1>6. CASE DetectorStep \/ DetectorFails
  BY <1>6, DetectorInv
<1>7. CASE \E j \in Jobs : ServerEnds(j)
  BY <1>7, ServerEndsInv
<1> QED BY <1>1, <1>2, <1>3, <1>4, <1>5, <1>6, <1>7 DEF Next

\* Everything below follows from it.
LEMMA InvHolds == Spec => []Inv
BY InitInv, NextInv, PTL DEF Spec

\* The variables of the console keep their types, and a signal that attaches
\* the window to a job or reports a status names a job.
THEOREM ConsoleTypeCorrect == Spec => []TypeOK
BY InvHolds, PTL DEF Inv

\* However many jobs, threads, late replies and errors there are, at most one
\* poller has not been told to stop: the one in _poller_thread.
THEOREM OneLivePollerHolds == Spec => []OneLivePoller
BY InvHolds, PTL DEF Inv

\* The poller in _poller_thread asks for the job on display and does not end,
\* and the event loop never runs with a job and without a poller.
THEOREM PollerFollowsJobHolds == Spec => []PollerFollowsJob
BY InvHolds, PTL DEF Inv

-----------------------------------------------------------------------------
\* The window drops a job only while it handles a final result.
LEMMA DropIsHandling ==
  ASSUME Inv, Next, job # NoJob, job' = NoJob
  PROVE  /\ events # << >>
         /\ Head(events).kind = "status" /\ Head(events).status = "ended"
<1>1. HandleEvent
  BY NumbersFacts
     DEF Next, MainStep, StartPoller, Click, StartAutomation, ChangeBatch, AutoLaunch, Close,
         PollerStep, PollerAsks, PollerReports, PollerFails, PollerWakes,
         SubmitStep, SubmitCreates, SubmitReports, SubmitFails, SubmitRefused,
         DetectorStep, DetectorAsks, DetectorReports, DetectorFails, ServerEnds, window
<1> DEFINE e == Head(events)
<1>2. events # << >> /\ e \in EventTypes
  BY <1>1, HeadFacts DEF HandleEvent, Inv, TypeOK
<1>3. OnStatusUpdate(e)
  BY <1>1, <1>2, NumbersFacts
     DEF HandleEvent, OnJobsCreated, OnJobDetected, OnNoJobFound, OnSubmissionFailed,
         StartAutomation, Attach, EventTypes
<1> QED BY <1>2, <1>3 DEF OnStatusUpdate, window

\* A final result, on its way or in the queue, is about a job that has ended.
EndsAreReal ==
  /\ \A p \in Pollers : pollers[p].pc = "reply" /\ pollers[p].got = "ended"
                        => server[pollers[p].job] = "ended"
  /\ \A n \in DOMAIN events : events[n].kind = "status" /\ events[n].status = "ended"
                        => server[events[n].job] = "ended"

LEMMA AppendFacts ==
  ASSUME events \in Seq(EventTypes), NEW e, Emit(e)
  PROVE  \A n \in DOMAIN events' : (n \in DOMAIN events /\ events'[n] = events[n]) \/ events'[n] = e
BY DEF Emit

LEMMA TailFacts ==
  ASSUME events \in Seq(EventTypes), events # << >>, events' = Tail(events)
  PROVE  \A n \in DOMAIN events' : n + 1 \in DOMAIN events /\ events'[n] = events[n + 1]
OBVIOUS

\* An ended job stays ended, whatever step is taken.
LEMMA EndedStaysEnded ==
  ASSUME Inv, Next, NEW j \in Jobs, server[j] = "ended"
  PROVE  server'[j] = "ended"
<1>1. CASE \E i \in Submits : SubmitCreates(i)
  BY <1>1 DEF SubmitCreates, Unused
<1>2. CASE \E k \in Jobs : ServerEnds(k)
  BY <1>2 DEF ServerEnds, Inv, TypeOK
<1>3. CASE UNCHANGED server
  BY <1>3
<1> QED
  BY <1>1, <1>2, <1>3
     DEF Next, MainStep, HandleEvent, StartPoller, Click, ChangeBatch, AutoLaunch, Close,
         PollerStep, PollerAsks, PollerReports, PollerFails, PollerWakes,
         SubmitStep, SubmitReports, SubmitFails, SubmitRefused,
         DetectorStep, DetectorAsks, DetectorReports, DetectorFails

\* Only the poller whose request is answered comes to hold a reply.
LEMMA RepliesKept ==
  ASSUME Inv, Next, NEW p \in Pollers, pollers'[p].pc = "reply"
  PROVE  \/ pollers[p].pc = "reply" /\ pollers'[p].got = pollers[p].got
                                   /\ pollers'[p].job = pollers[p].job
         \/ PollerAsks(p)
<1>1. ASSUME StopPoller
      PROVE  pollers[p].pc = "reply" /\ pollers'[p].got = pollers[p].got
                                     /\ pollers'[p].job = pollers[p].job
  BY <1>1, IdleType DEF StopPoller, Stopped, Inv, TypeOK, WindowTypeOK, PollerTypes
<1>2. CASE \E q \in Pollers : PollerStep(q) \/ PollerFails(q)
  <2>1. PICK q \in Pollers : PollerStep(q) \/ PollerFails(q)
    BY <1>2
  <2>2. pollers[q] \in PollerTypes
    BY DEF Inv, TypeOK
  <2>3. CASE q # p
    BY <2>1, <2>3 DEF PollerStep, PollerAsks, PollerReports, PollerFails, PollerWakes, Inv, TypeOK
  <2>4. CASE q = p
    BY <2>1, <2>2, <2>4, IdleType
       DEF PollerStep, PollerReports, PollerFails, PollerWakes, Inv, TypeOK, PollerTypes
  <2> QED BY <2>3, <2>4
<1>3. CASE StartPoller
  BY <1>3 DEF StartPoller, Inv, TypeOK
<1>4. CASE StopPoller \/ UNCHANGED pollers
  BY <1>1, <1>4
<1>5. CASE Close
  BY <1>5, IdleType DEF Close
<1> QED
  BY <1>2, <1>3, <1>4, <1>5
     DEF Next, MainStep, HandleEvent, OnJobsCreated, OnJobDetected, OnNoJobFound,
         OnSubmissionFailed, OnStatusUpdate, EndMonitoring, Attach, StartAutomation,
         CallStartPoller, Click, ChangeBatch, AutoLaunch, window,
         SubmitStep, SubmitCreates, SubmitReports, SubmitFails, SubmitRefused,
         DetectorStep, DetectorAsks, DetectorReports, DetectorFails, ServerEnds

\* Only a poller with a reply posts a status.
LEMMA ResultsKept ==
  ASSUME Inv, Next, NEW n \in DOMAIN events', events'[n].kind = "status"
  PROVE  \/ \E k \in DOMAIN events : events'[n] = events[k]
         \/ \E p \in Pollers : /\ pollers[p].pc = "reply"
                               /\ events'[n] = Signal("status", pollers[p].job, pollers[p].got)
<1> DEFINE Old == \E k \in DOMAIN events : events'[n] = events[k]
<1>1. ASSUME NEW kind, NEW j, NEW s, kind # "status", Emit(Signal(kind, j, s)) PROVE Old
  BY <1>1, AppendFacts DEF Signal, Inv, TypeOK
<1>2. CASE HandleEvent
  BY <1>2, TailFacts DEF HandleEvent, Inv, TypeOK
<1>3. CASE \E p \in Pollers : PollerReports(p)
  BY <1>3, AppendFacts DEF PollerReports, Inv, TypeOK
<1>4. CASE \E i \in Submits : SubmitReports(i) \/ SubmitFails(i) \/ SubmitRefused(i)
  BY <1>4, <1>1 DEF SubmitReports, SubmitFails, SubmitRefused
<1>5. CASE DetectorReports
  BY <1>5, <1>1 DEF DetectorReports
<1>6. CASE UNCHANGED events
  BY <1>6
<1>7. CASE Close
  BY <1>7 DEF Close
<1> QED
  BY <1>2, <1>3, <1>4, <1>5, <1>6, <1>7
     DEF Next, MainStep, StartPoller, Click, ChangeBatch, AutoLaunch,
         PollerStep, PollerAsks, PollerFails, PollerWakes, SubmitStep, SubmitCreates,
         DetectorStep, DetectorAsks, DetectorFails, ServerEnds

LEMMA EndsAreRealStep ==
  ASSUME Inv, EndsAreReal, [Next]_vars
  PROVE  EndsAreReal'
<1>1. CASE UNCHANGED vars
  BY <1>1 DEF vars, EndsAreReal
<1>2. CASE Next
  <2>1. \A p \in Pollers : pollers[p].pc = "reply" => pollers[p].job \in Jobs
    BY DEF Inv, TypeOK, PollerTypes
  <2>2. ASSUME NEW p \in Pollers, pollers'[p].pc = "reply", pollers'[p].got = "ended"
        PROVE  server'[pollers'[p].job] = "ended"
    <3>1. CASE PollerAsks(p)
      BY <2>2, <3>1 DEF PollerAsks, Inv, TypeOK, PollerTypes
    <3>2. CASE pollers[p].pc = "reply" /\ pollers'[p].got = pollers[p].got
                                       /\ pollers'[p].job = pollers[p].job
      BY <1>2, <2>1, <2>2, <3>2, EndedStaysEnded DEF EndsAreReal
    <3> QED BY <1>2, <2>2, <3>1, <3>2, RepliesKept
  <2>3. ASSUME NEW n \in DOMAIN events', events'[n].kind = "status", events'[n].status = "ended"
        PROVE  server'[events'[n].job] = "ended"
    <3>1. CASE \E k \in DOMAIN events : events'[n] = events[k]
      <4>1. PICK k \in DOMAIN events : events'[n] = events[k]
        BY <3>1
      <4>2. events[k] \in EventTypes
        BY DEF Inv, TypeOK
      <4>3. events[k].job \in Jobs
        BY <2>3, <4>1, <4>2 DEF EventTypes
      <4> QED BY <1>2, <2>3, <4>1, <4>3, EndedStaysEnded DEF EndsAreReal
    <3>2. CASE \E p \in Pollers : /\ pollers[p].pc = "reply"
                                 /\ events'[n] = Signal("status", pollers[p].job, pollers[p].got)
      BY <1>2, <2>1, <2>3, <3>2, EndedStaysEnded DEF EndsAreReal, Signal
    <3> QED BY <1>2, <2>3, <3>1, <3>2, ResultsKept
  <2> QED BY <2>2, <2>3 DEF EndsAreReal
<1> QED BY <1>1, <1>2

\* The window gives up a job only when that job has ended, or on a final
\* result about another job.
THEOREM DroppedWhenDoneHolds == Spec => DroppedWhenDone
<1>1. Init => EndsAreReal
  BY IdleType DEF Init, EndsAreReal
<1>2. Inv /\ EndsAreReal /\ [Next]_vars
        => [job # NoJob /\ job' = NoJob
              => server[job] = "ended" \/ Head(events).job # job]_vars
  <2> SUFFICES ASSUME Inv, EndsAreReal, Next, job # NoJob, job' = NoJob, Head(events).job = job
               PROVE  server[job] = "ended"
    OBVIOUS
  <2>1. events # << >> /\ Head(events).kind = "status" /\ Head(events).status = "ended"
    BY DropIsHandling
  <2>2. 1 \in DOMAIN events /\ Head(events) = events[1]
    BY <2>1 DEF Inv, TypeOK
  <2> QED BY <2>1, <2>2 DEF EndsAreReal
<1> QED BY <1>1, <1>2, InvHolds, EndsAreRealStep, PTL DEF Spec, DroppedWhenDone
=============================================================================
