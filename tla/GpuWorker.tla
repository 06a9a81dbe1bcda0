------------------------------- MODULE GpuWorker -------------------------------
(***************************************************************************)
(* One worker process seen from its GPU: which models are resident, how a  *)
(* job goes through the five stages, and what its Redis hash says of them. *)
(* "classic" is worker.py with main_generate() of Shortz.py; "staged" is   *)
(* worker/worker.py with its ResourceManager and run_pipeline().  Both     *)
(* import Shortz, which loads XTTS; the staged worker loads it once more.  *)
(*                                                                         *)
(*   kind      the worker that runs in this process                        *)
(*   pc        where it is; "off" when there is no process                 *)
(*   imported  Shortz.tts_model is loaded: the model that speaks           *)
(*   managed   ResourceManager._tts_model is loaded                        *)
(*   whisper   Shortz._whisper_model, ResourceManager._whisper_model       *)
(*   ran       how many stages of the job are through                      *)
(*   job       its hash: status, stage and progress                        *)
(*   lost      a status callback of this job failed (the error is logged)  *)
(*   leaked    transcribe() has raised since an alignment last succeeded:  *)
(*             no variable of the code                                     *)
(*                                                                         *)
(* A Redis write that raises may have been applied.  Nothing is bounded:   *)
(* there may be any number of jobs, failures and restarts.                 *)
(***************************************************************************)
EXTENDS Integers, Sequences

VARIABLES kind, pc, imported, managed, whisper, ran, job, lost, leaked

models == <<imported, managed, whisper, leaked>>
jobVars == <<ran, job, lost>>
vars == <<kind, pc, models, jobVars>>

Stages == <<"text", "voice", "alignment", "subtitles", "render">>
progress_map == <<5, 40, 65, 80, 95>>

PCs == {"off", "load_tts", "connect", "idle", "claim", "callback", "stage",
        "transcribe", "save", "complete", "fail"}

\* What enqueue_job() writes.
Queued == [status |-> "queued", stage |-> "waiting", progress |-> 0]

Init ==
  /\ kind = "classic" /\ pc = "off"
  /\ imported = FALSE /\ managed = FALSE /\ whisper = FALSE
  /\ ran = 0 /\ job = Queued
  /\ lost = FALSE /\ leaked = FALSE

Goto(place) == pc' = place

\* set_job_status() with the fields that are given to it.
Write(hash) == job' = hash
WriteRaises(hash) == job' \in {job, hash}

-----------------------------------------------------------------------------
(* The process *)

\* Importing Shortz leaves tts_model at None when XTTS does not load.
Start ==
  /\ pc = "off"
  /\ kind' \in {"classic", "staged"}
  /\ imported' \in BOOLEAN
  /\ Goto(IF kind' = "staged" THEN "load_tts" ELSE "connect")
  /\ ran' = 0 /\ job' = Queued /\ lost' = FALSE
  /\ UNCHANGED <<managed, whisper, leaked>>

\* The process ends and the GPU is free again.
Exit ==
  /\ Goto("off")
  /\ imported' = FALSE /\ managed' = FALSE /\ whisper' = FALSE /\ leaked' = FALSE

Crash == pc # "off" /\ Exit /\ UNCHANGED <<kind, jobVars>>

LoadTts ==
  /\ pc = "load_tts"
  /\ \/ managed' = TRUE /\ Goto("connect") /\ UNCHANGED <<imported, whisper, leaked>>
     \/ Exit
  /\ UNCHANGED <<kind, jobVars>>

\* _get_healthy_redis(): a ping within 120 seconds, or the worker returns.
Connect ==
  /\ pc = "connect"
  /\ \/ Goto("idle") /\ UNCHANGED models
     \/ Exit
  /\ UNCHANGED <<kind, jobVars>>

\* An iteration that gets a job. One that meets an error or an empty queue changes
\* nothing here.
Dequeue ==
  /\ pc = "idle"
  /\ Goto("claim")
  /\ ran' = 0 /\ job' = Queued /\ lost' = FALSE
  /\ UNCHANGED <<kind, models>>

Claimed == [status |-> "running", stage |-> "text", progress |-> 0]

\* Outside the try block: an error ends the worker.
Claim ==
  /\ pc = "claim"
  /\ \/ Write(Claimed) /\ Goto(IF kind = "staged" THEN "callback" ELSE "stage") /\ UNCHANGED models
     \/ WriteRaises(Claimed) /\ Exit
  /\ UNCHANGED <<kind, ran, lost>>

-----------------------------------------------------------------------------
(* A job *)

\* Slip: even steps in place of progress_map.
Running_Evenly == [status |-> "running", stage |-> Stages[ran + 1], progress |-> 20 * (ran + 1)]

Running == [status |-> "running", stage |-> Stages[ran + 1], progress |-> progress_map[ran + 1]]

\* Slip: the callback comes after the stage.
StatusCallback_Late ==
  /\ pc = "callback"
  /\ IF ran = 0 THEN Write(job)
     ELSE Write([status |-> "running", stage |-> Stages[ran], progress |-> progress_map[ran]])
  /\ Goto("stage") /\ UNCHANGED <<kind, models, ran, lost>>

\* Before each stage; _status_cb() swallows the error.
StatusCallback ==
  /\ pc = "callback"
  /\ \/ Write(Running) /\ UNCHANGED lost
     \/ WriteRaises(Running) /\ lost' = TRUE
  /\ Goto("stage")
  /\ UNCHANGED <<kind, models, ran>>

\* run_pipeline() lets an exception through, main_generate() returns after it.
Raise == Goto(IF kind = "staged" THEN "fail" ELSE "complete")

StageDone ==
  /\ ran' = ran + 1
  /\ Goto(IF ran + 1 = Len(Stages) THEN "save"
          ELSE IF kind = "staged" THEN "callback" ELSE "stage")

AtStage(name) == pc = "stage" /\ Stages[ran + 1] = name

\* main_generate() looks for XTTS before anything else.
Text ==
  /\ AtStage("text")
  /\ \/ (kind = "staged" \/ imported) /\ StageDone
     \/ Raise /\ UNCHANGED ran
  /\ UNCHANGED <<kind, models, job, lost>>

\* tts_stage asks for the manager's model and then synthesizes with that of Shortz.
Voice ==
  /\ AtStage("voice")
  /\ \/ imported /\ (kind = "staged" => managed) /\ StageDone
     \/ Raise /\ UNCHANGED ran
  /\ UNCHANGED <<kind, models, job, lost>>

\* load_whisper(): a model that is still there is used again.
LoadWhisper ==
  /\ AtStage("alignment")
  /\ \/ whisper' = TRUE /\ Goto("transcribe")
     \/ ~whisper /\ Raise /\ UNCHANGED whisper
  /\ UNCHANGED <<kind, imported, managed, leaked, jobVars>>

\* Slip: the model is kept for the next job, as in main_generate().
Transcribe_Keeps ==
  /\ pc = "transcribe"
  /\ \/ StageDone /\ leaked' = FALSE /\ UNCHANGED whisper
     \/ Raise /\ leaked' = TRUE /\ UNCHANGED <<ran, whisper>>
  /\ UNCHANGED <<kind, imported, managed, job, lost>>

\* align_stage unloads Whisper at its end, which an exception does not reach;
\* main_generate() never does.
Transcribe ==
  /\ pc = "transcribe"
  /\ \/ StageDone /\ whisper' = (kind = "classic") /\ leaked' = FALSE
     \/ Raise /\ leaked' = TRUE /\ UNCHANGED <<ran, whisper>>
  /\ UNCHANGED <<kind, imported, managed, job, lost>>

SubtitlesOrRender ==
  /\ AtStage("subtitles") \/ AtStage("render")
  /\ \/ StageDone
     \/ Raise /\ UNCHANGED ran
  /\ UNCHANGED <<kind, models, job, lost>>

\* The history of the videos.
Save ==
  /\ pc = "save"
  /\ \/ Goto("complete")
     \/ Raise
  /\ UNCHANGED <<kind, models, jobVars>>

-----------------------------------------------------------------------------
(* The end of a job *)

Done == [status |-> "complete", stage |-> "done", progress |-> 100]

\* Inside the try block: an error leads to the except clause.
Complete ==
  /\ pc = "complete"
  /\ \/ Write(Done) /\ Goto("idle")
     \/ WriteRaises(Done) /\ Goto("fail")
  /\ UNCHANGED <<kind, models, ran, lost>>

\* Slip: the failure is written with a progress of its own.
Fail_Resets ==
  /\ pc = "fail"
  /\ Write([job EXCEPT !.status = "failed", !.progress = 0]) /\ Goto("idle")
  /\ UNCHANGED <<kind, models, ran, lost>>

\* Stage and progress stay as they are.
Fail ==
  /\ pc = "fail"
  /\ LET Failed == [job EXCEPT !.status = "failed"] IN
       \/ Write(Failed) /\ Goto("idle") /\ UNCHANGED models
       \/ WriteRaises(Failed) /\ Exit
  /\ UNCHANGED <<kind, ran, lost>>

Pipeline == Text \/ Voice \/ LoadWhisper \/ Transcribe \/ SubtitlesOrRender \/ Save

Next ==
  \/ Start \/ Crash \/ LoadTts \/ Connect \/ Dequeue \/ Claim
  \/ StatusCallback \/ Pipeline \/ Complete \/ Fail

Spec == Init /\ [][Next]_vars

-----------------------------------------------------------------------------
(* Properties *)

\* Types.
TypeOK ==
  /\ kind \in {"classic", "staged"} /\ pc \in PCs
  /\ {imported, managed, whisper, lost, leaked} \subseteq BOOLEAN
  /\ ran \in 0 .. Len(Stages)
  /\ job \in [status : {"queued", "running", "complete", "failed"},
              stage : {"waiting", "done"} \cup {Stages[i] : i \in 1 .. Len(Stages)},
              progress : {0, 100} \cup {progress_map[i] : i \in 1 .. Len(Stages)}]

\* The staged worker holds Whisper outside an alignment only after one that raised,
\* and until the next one that succeeds.
WhisperFreed == kind = "staged" /\ whisper => pc = "transcribe" \/ leaked

\* The stages the hash of a job can name, in order.
StageNumber(name) == CHOOSE i \in 1 .. Len(Stages) : Stages[i] = name

\* The hash of a staged job that failed in a stage names that stage, or an earlier one
\* when a callback was lost.
FailureIsLocated ==
  kind = "staged" /\ job.status = "failed" /\ ran < Len(Stages) =>
    /\ StageNumber(job.stage) <= ran + 1
    /\ ~lost => StageNumber(job.stage) = ran + 1

\* Progress never goes back within a job, whatever writes fail or are applied in spite
\* of an error.
ProgressNeverFalls ==
  [][pc \notin {"off", "idle"} => job'.progress >= job.progress]_vars
=============================================================================
