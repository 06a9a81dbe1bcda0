--------------------------- MODULE GpuWorkerProofs ---------------------------
(***************************************************************************)
(* The GPU worker, for any number of jobs, failures and restarts of either *)
(* worker: its types, that Whisper is freed, that a failure can be located *)
(* from the hash, and that progress never goes back.                       *)
(***************************************************************************)
EXTENDS GpuWorker, TLAPS

USE DEF Goto

Places == 1 .. Len(Stages)

LEMMA StagesFacts ==
  /\ Len(Stages) = 5 /\ Places = {1, 2, 3, 4, 5}
  /\ Stages[1] = "text" /\ Stages[2] = "voice" /\ Stages[3] = "alignment"
  /\ Stages[4] = "subtitles" /\ Stages[5] = "render"
  /\ progress_map[1] = 5 /\ progress_map[2] = 40 /\ progress_map[3] = 65
  /\ progress_map[4] = 80 /\ progress_map[5] = 95
BY DEF Stages, progress_map, Places

\* No two stages have the same name, so a name tells its number.
LEMMA NumberOfStage ==
  ASSUME NEW i \in Places
  PROVE  StageNumber(Stages[i]) = i
<1>1. \A k \in Places : Stages[k] = Stages[i] => k = i
  BY StagesFacts
<1> QED BY <1>1 DEF StageNumber, Places

\* The stages the hash can name when the next, or the present, stage is n, and the
\* progress it can show.
Located(n) ==
  \E i \in Places : /\ job.stage = Stages[i] /\ i <= n
                    /\ ~lost => i = n
                    /\ job.progress <= progress_map[i]

Named(n) == \E i \in Places : /\ job.stage = Stages[i] /\ i <= n
                              /\ job.progress <= progress_map[i]

InJob == {"claim", "callback", "stage", "transcribe", "save", "complete", "fail"}

\* How far a job has come in each place of the program.
Position ==
  /\ pc \in {"callback", "stage", "transcribe"} => ran < Len(Stages)
  /\ pc = "callback" => kind = "staged"
  /\ kind = "staged" /\ pc \in {"save", "complete"} => ran = Len(Stages)

\* What the hash says there.
HashFollows ==
  /\ pc = "claim" => job = Queued /\ ran = 0
  /\ pc \in InJob => job.status # "failed"
  /\ pc = "callback" => Named(ran + 1)
  /\ kind = "staged" /\ pc \in {"stage", "transcribe"} => Located(ran + 1)
  /\ kind = "staged" /\ pc = "fail" /\ ran < Len(Stages) => Located(ran + 1)
  /\ kind = "staged" /\ job.status = "failed" /\ ran < Len(Stages) => Located(ran + 1)

\* No process holds no model.
OffIsFree == pc = "off" => ~whisper

Inv == TypeOK /\ Position /\ HashFollows /\ OffIsFree /\ WhisperFreed

-----------------------------------------------------------------------------
(* Types.                                                                  *)

Hashes == [status : {"queued", "running", "complete", "failed"},
           stage : {"waiting", "done"} \cup {Stages[i] : i \in Places},
           progress : {0, 100} \cup {progress_map[i] : i \in Places}]

Booleans ==
  /\ imported \in BOOLEAN /\ managed \in BOOLEAN /\ whisper \in BOOLEAN
  /\ lost \in BOOLEAN /\ leaked \in BOOLEAN

LEMMA TypeFacts ==
  TypeOK <=> /\ kind \in {"classic", "staged"} /\ pc \in PCs
             /\ Booleans /\ ran \in 0 .. 5 /\ job \in Hashes
BY StagesFacts DEF TypeOK, Booleans, Hashes, Places

\* Every hash the worker writes has the type of a hash.
LEMMA WrittenHashes ==
  /\ Queued \in Hashes /\ Claimed \in Hashes /\ Done \in Hashes
  /\ ran \in 0 .. 4 => Running \in Hashes
  /\ job \in Hashes => [job EXCEPT !.status = "failed"] \in Hashes
<1>1. Queued \in Hashes /\ Done \in Hashes
  BY DEF Queued, Done, Hashes
<1>2. Claimed \in Hashes
  BY StagesFacts DEF Claimed, Hashes
<1>3. ASSUME ran \in 0 .. 4 PROVE Running \in Hashes
  <2>1. ran + 1 \in Places
    BY <1>3, StagesFacts
  <2> QED BY <2>1 DEF Running, Hashes
<1>4. job \in Hashes => [job EXCEPT !.status = "failed"] \in Hashes
  BY DEF Hashes
<1> QED BY <1>1, <1>2, <1>3, <1>4

LEMMA InitInv == Init => Inv
<1> SUFFICES ASSUME Init PROVE Inv
  OBVIOUS
<1>1. TypeOK
  <2>1. Booleans
    BY Zenon DEF Init, Booleans
  <2>2. /\ kind \in {"classic", "staged"} /\ pc \in PCs /\ ran \in 0 .. 5 /\ job \in Hashes
    BY WrittenHashes DEF Init, PCs
  <2> QED BY <2>1, <2>2, TypeFacts
<1>2. Position /\ HashFollows /\ OffIsFree /\ WhisperFreed
  BY DEF Init, Queued, Position, HashFollows, OffIsFree, WhisperFreed, InJob
<1> QED BY <1>1, <1>2 DEF Inv

LEMMA NextTypeOK == Inv /\ [Next]_vars => TypeOK'
<1> SUFFICES ASSUME Inv, [Next]_vars PROVE TypeOK'
  OBVIOUS
<1>0. /\ kind \in {"classic", "staged"} /\ pc \in PCs
      /\ Booleans /\ ran \in 0 .. 5 /\ job \in Hashes
      /\ pc \in {"callback", "stage", "transcribe"} => ran \in 0 .. 4
  BY TypeFacts, StagesFacts DEF Inv, Position
<1>1. SUFFICES /\ kind' \in {"classic", "staged"} /\ pc' \in PCs
               /\ Booleans' /\ ran' \in 0 .. 5 /\ job' \in Hashes
  <2>1. (TypeOK <=> /\ kind \in {"classic", "staged"} /\ pc \in PCs
                    /\ Booleans /\ ran \in 0 .. 5 /\ job \in Hashes)'
    BY TypeFacts, PTL
  <2> QED BY <2>1
<1> USE DEF PCs, Booleans
<1>2. CASE Start
  <2>1. Booleans'
    BY <1>0, <1>2, Zenon DEF Start
  <2>2. /\ kind' \in {"classic", "staged"} /\ pc' \in PCs
        /\ ran' = 0 /\ job' \in Hashes
    BY <1>2, WrittenHashes DEF Start
  <2> QED BY <2>1, <2>2
<1>9. CASE Crash \/ LoadTts \/ Connect
  <2>1. UNCHANGED <<kind, ran, job, lost>>
    BY <1>9 DEF Crash, LoadTts, Connect, jobVars
  <2>2. pc' \in PCs
    BY <1>9 DEF Crash, LoadTts, Connect, Exit
  <2>3. Booleans'
    BY <1>0, <1>9, Zenon DEF Crash, LoadTts, Connect, Exit, models, jobVars
  <2> QED BY <1>0, <2>1, <2>2, <2>3
<1>10. CASE Dequeue
  <2>1. Booleans'
    BY <1>0, <1>10, Zenon DEF Dequeue, models
  <2>2. UNCHANGED kind /\ pc' \in PCs /\ ran' = 0 /\ job' \in Hashes
    BY <1>10, WrittenHashes DEF Dequeue
  <2> QED BY <1>0, <2>1, <2>2
<1>3. CASE Claim
  BY <1>0, <1>3, WrittenHashes DEF Claim, Write, WriteRaises, Exit, models
<1>4. CASE StatusCallback
  BY <1>0, <1>4, WrittenHashes DEF StatusCallback, Write, WriteRaises, models
<1>5. CASE Pipeline
  <2>1. ASSUME StageDone, pc = "stage" \/ pc = "transcribe"
        PROVE  ran' \in 0 .. 5 /\ pc' \in PCs
    BY <1>0, <2>1, StagesFacts DEF StageDone
  <2>2. ASSUME Raise PROVE pc' \in PCs
    BY <2>2 DEF Raise
  <2>3. CASE Text \/ Voice \/ SubtitlesOrRender
    BY <1>0, <2>1, <2>2, <2>3 DEF Text, Voice, SubtitlesOrRender, AtStage, models
  <2>4. CASE LoadWhisper \/ Transcribe \/ Save
    BY <1>0, <2>1, <2>2, <2>4 DEF LoadWhisper, Transcribe, Save, AtStage, models, jobVars
  <2> QED BY <1>5, <2>3, <2>4 DEF Pipeline
<1>6. CASE Complete
  BY <1>0, <1>6, WrittenHashes DEF Complete, Write, WriteRaises, models
<1>7. CASE Fail
  BY <1>0, <1>7, WrittenHashes DEF Fail, Write, WriteRaises, Exit, models
<1>8. CASE UNCHANGED vars
  BY <1>0, <1>8 DEF vars, models, jobVars
<1> QED BY <1>2, <1>3, <1>4, <1>5, <1>6, <1>7, <1>8, <1>9, <1>10 DEF Next

-----------------------------------------------------------------------------
(* Whisper and the hash.                                                   *)

\* A model is on the GPU only as the worker means it to be.
LEMMA NextWhisperFreed == Inv /\ [Next]_vars => OffIsFree' /\ WhisperFreed'
<1> SUFFICES ASSUME Inv, [Next]_vars PROVE OffIsFree' /\ WhisperFreed'
  OBVIOUS
<1> USE DEF OffIsFree, WhisperFreed
<1>0. OffIsFree /\ WhisperFreed
  BY DEF Inv
<1>1. ASSUME Exit PROVE OffIsFree' /\ WhisperFreed'
  BY <1>1 DEF Exit
<1>2. ASSUME UNCHANGED <<kind, whisper, leaked>>, pc # "off", pc # "transcribe", pc' # "off"
      PROVE  OffIsFree' /\ WhisperFreed'
  BY <1>0, <1>2
<1>3. CASE Start
  BY <1>0, <1>3 DEF Start
<1>4. CASE Crash \/ LoadTts \/ Connect \/ Dequeue \/ Claim \/ StatusCallback \/ Complete \/ Fail
  BY <1>1, <1>2, <1>4 DEF Crash, LoadTts, Connect, Dequeue, Claim, StatusCallback, Complete,
                          Fail, models
<1>5. CASE LoadWhisper
  BY <1>0, <1>5 DEF LoadWhisper, AtStage, Raise
<1>6. CASE Transcribe
  BY <1>0, <1>6 DEF Transcribe, StageDone, Raise
<1>7. CASE Text \/ Voice \/ SubtitlesOrRender \/ Save
  BY <1>2, <1>7 DEF Text, Voice, SubtitlesOrRender, Save, AtStage, StageDone, Raise, models
<1>8. CASE UNCHANGED vars
  BY <1>0, <1>8 DEF vars, models, jobVars
<1> QED BY <1>3, <1>4, <1>5, <1>6, <1>7, <1>8 DEF Next, Pipeline

\* The next place after a stage.
LEMMA AfterStage ==
  ASSUME Inv, StageDone, pc \in {"stage", "transcribe"}
  PROVE  /\ ran' = ran + 1 /\ ran \in 0 .. 4
         /\ pc' = "save" => ran' = Len(Stages)
         /\ pc' = "callback" => kind = "staged" /\ ran' < Len(Stages)
         /\ pc' = "stage" => kind # "staged" /\ ran' < Len(Stages)
         /\ pc' \in {"save", "callback", "stage"}
<1>1. ran \in 0 .. 4 /\ ran' = ran + 1 /\ Len(Stages) = 5 /\ kind \in {"classic", "staged"}
  BY TypeFacts, StagesFacts DEF Inv, StageDone, Position
<1>2. CASE ran + 1 = 5
  BY <1>1, <1>2 DEF StageDone
<1>3. CASE ran + 1 # 5 /\ kind = "staged"
  BY <1>1, <1>3 DEF StageDone
<1>4. CASE ran + 1 # 5 /\ kind # "staged"
  BY <1>1, <1>4 DEF StageDone
<1> QED BY <1>1, <1>2, <1>3, <1>4

LEMMA NextPosition == Inv /\ [Next]_vars => Position'
<1> SUFFICES ASSUME Inv, [Next]_vars PROVE Position'
  OBVIOUS
<1>0. /\ kind \in {"classic", "staged"} /\ ran \in 0 .. 5 /\ Position /\ Len(Stages) = 5
  BY TypeFacts, StagesFacts DEF Inv
<1> USE DEF Position
<1>1. CASE Start \/ Crash \/ LoadTts \/ Connect \/ Dequeue \/ Complete \/ Fail
  BY <1>0, <1>1 DEF Start, Crash, LoadTts, Connect, Dequeue, Complete, Fail, Exit
<1>2. CASE Claim
  BY <1>0, <1>2 DEF Claim, Exit, Inv, HashFollows
<1>3. CASE StatusCallback
  BY <1>0, <1>3 DEF StatusCallback
<1>4. CASE Text \/ Voice \/ SubtitlesOrRender
  BY <1>0, <1>4, AfterStage DEF Text, Voice, SubtitlesOrRender, AtStage, Raise
<1>5. CASE LoadWhisper
  BY <1>0, <1>5 DEF LoadWhisper, AtStage, Raise, jobVars
<1>6. CASE Transcribe
  BY <1>0, <1>6, AfterStage DEF Transcribe, Raise
<1>7. CASE Save
  BY <1>0, <1>7 DEF Save, Raise, jobVars
<1>8. CASE UNCHANGED vars
  BY <1>0, <1>8 DEF vars, jobVars
<1> QED BY <1>1, <1>2, <1>3, <1>4, <1>5, <1>6, <1>7, <1>8 DEF Next, Pipeline

\* A write that does not change the fields of a place keeps what they say.
LEMMA SamePlace ==
  ASSUME NEW n, job'.stage = job.stage, job'.progress = job.progress, lost' = lost, Located(n)
  PROVE  Located(n)'
BY DEF Located

\* A callback before stage ran + 1: the hash names this stage, or one before it if the
\* write was lost.
LEMMA CallbackLocates ==
  ASSUME Inv, StatusCallback
  PROVE  Located(ran + 1)' /\ ran' = ran /\ job'.status # "failed"
<1>0. /\ ran \in 0 .. 4 /\ Named(ran + 1) /\ job.status # "failed"
  BY TypeFacts, StagesFacts DEF Inv, StatusCallback, HashFollows, Position, InJob
<1>1. ran + 1 \in Places
  BY <1>0, StagesFacts
<1>2. ASSUME job' = Running PROVE Located(ran + 1)' /\ job'.status # "failed"
  <2>1. /\ job'.stage = Stages[ran + 1] /\ job'.progress = progress_map[ran + 1]
        /\ job'.status = "running"
    BY <1>2 DEF Running
  <2>2. ran' = ran
    BY DEF StatusCallback
  <2>3. progress_map[ran + 1] <= progress_map[ran + 1]
    BY <1>1, StagesFacts
  <2> QED BY <1>0, <1>1, <2>1, <2>2, <2>3 DEF Located
<1>3. ASSUME job' = job, lost' = TRUE PROVE Located(ran + 1)'
  <2>1. ran' = ran
    BY DEF StatusCallback
  <2> QED BY <1>0, <1>3, <2>1 DEF Named, Located
<1> QED BY <1>0, <1>2, <1>3 DEF StatusCallback, Write, WriteRaises

LEMMA NextHashFollows == Inv /\ [Next]_vars => HashFollows'
<1> SUFFICES ASSUME Inv, [Next]_vars PROVE HashFollows'
  OBVIOUS
<1>0. /\ kind \in {"classic", "staged"} /\ ran \in 0 .. 5 /\ Position /\ HashFollows
      /\ Len(Stages) = 5
  BY TypeFacts, StagesFacts DEF Inv
<1> USE DEF HashFollows, InJob
<1>1. CASE Start \/ Dequeue
  BY <1>0, <1>1 DEF Start, Dequeue, Queued
<1>2. ASSUME UNCHANGED <<kind, jobVars>>, pc' \notin InJob
      PROVE  HashFollows'
  BY <1>0, <1>2, SamePlace DEF jobVars
<1>3. CASE Crash \/ LoadTts \/ Connect
  BY <1>2, <1>3 DEF Crash, LoadTts, Connect, Exit
<1>4. CASE Claim
  <2>1. /\ ran' = 0 /\ ran + 1 = 1 /\ job' \in {Queued, Claimed} /\ UNCHANGED kind
    BY <1>0, <1>4 DEF Claim, Write, WriteRaises
  <2>2. job'.status # "failed"
    BY <2>1 DEF Queued, Claimed
  <2>3. CASE pc' = "callback"
    <3>1. job' = Claimed
      BY <1>4, <2>3 DEF Claim, Write, Exit
    <3>2. Named(ran + 1)'
      BY <2>1, <3>1, StagesFacts DEF Named, Claimed
    <3> QED BY <2>2, <2>3, <3>2
  <2>4. CASE pc' # "callback"
    BY <1>4, <2>1, <2>2, <2>4 DEF Claim, Exit
  <2> QED BY <2>3, <2>4
<1>5. CASE StatusCallback
  BY <1>0, <1>5, CallbackLocates DEF StatusCallback
<1>6. ASSUME StageDone, UNCHANGED <<kind, job, lost>>, pc \in {"stage", "transcribe"}
      PROVE  HashFollows'
  <2>1. /\ ran' = ran + 1 /\ ran \in 0 .. 4
        /\ pc' = "callback" => kind = "staged"
        /\ pc' = "stage" => kind # "staged"
        /\ pc' \in {"save", "callback", "stage"}
    BY <1>6, AfterStage
  <2>2. ASSUME kind = "staged" PROVE Named(ran + 1)'
    <3>1. PICK i \in Places : job.stage = Stages[i] /\ i <= ran + 1 /\ job.progress <= progress_map[i]
      BY <1>0, <1>6, <2>2 DEF Located
    <3>2. i <= ran' + 1
      BY <2>1, <3>1, StagesFacts
    <3> QED BY <1>6, <3>1, <3>2 DEF Named
  <2> QED BY <1>0, <1>6, <2>1, <2>2
<1>7. ASSUME Raise, UNCHANGED <<kind, job, lost, ran>>, pc \in {"stage", "transcribe", "save"}
      PROVE  HashFollows'
  <2>1. kind = "staged" /\ ran < Len(Stages) => Located(ran + 1)'
    BY <1>0, <1>7, SamePlace DEF Position
  <2>2. job'.status # "failed" /\ pc' \in {"fail", "complete"}
    BY <1>0, <1>7 DEF Raise
  <2> QED BY <1>7, <2>1, <2>2
<1>8. CASE Text \/ Voice \/ SubtitlesOrRender \/ Transcribe
  BY <1>6, <1>7, <1>8 DEF Text, Voice, SubtitlesOrRender, Transcribe, AtStage
<1>9. CASE LoadWhisper
  <2>1. UNCHANGED <<kind, job, lost, ran>> /\ pc = "stage"
    BY <1>9 DEF LoadWhisper, AtStage, jobVars
  <2>2. CASE pc' = "transcribe"
    BY <1>0, <2>1, <2>2, SamePlace
  <2>3. CASE pc' # "transcribe"
    BY <1>7, <1>9, <2>1, <2>3 DEF LoadWhisper
  <2> QED BY <2>2, <2>3
<1>10. CASE Save
  <2>1. UNCHANGED <<kind, job, lost, ran>> /\ pc = "save"
    BY <1>10 DEF Save, jobVars
  <2>2. CASE pc' = "complete"
    BY <1>0, <2>1, <2>2
  <2>3. CASE pc' # "complete"
    BY <1>7, <1>10, <2>1, <2>3 DEF Save
  <2> QED BY <2>2, <2>3
<1>11. CASE Complete
  <2>1. /\ UNCHANGED <<kind, ran, lost>> /\ pc = "complete" /\ job' \in {job, Done}
        /\ pc' \in {"idle", "fail"}
    BY <1>11 DEF Complete, Write, WriteRaises
  <2>2. job'.status # "failed"
    BY <1>0, <2>1 DEF Done
  <2> QED BY <1>0, <2>1, <2>2 DEF Position
<1>12. CASE Fail
  <2>1. /\ UNCHANGED <<kind, ran, lost>> /\ pc = "fail"
        /\ job' \in {job, [job EXCEPT !.status = "failed"]}
        /\ pc' \in {"idle", "off"}
    BY <1>12 DEF Fail, Write, WriteRaises, Exit
  <2>2. job'.stage = job.stage /\ job'.progress = job.progress
    BY <1>0, <2>1, TypeFacts DEF Inv, Hashes
  <2> QED BY <1>0, <2>1, <2>2, SamePlace
<1>13. CASE UNCHANGED vars
  BY <1>0, <1>13, SamePlace DEF vars, jobVars, Named
<1> QED BY <1>1, <1>3, <1>4, <1>5, <1>8, <1>9, <1>10, <1>11, <1>12, <1>13 DEF Next, Pipeline

-----------------------------------------------------------------------------
(* The theorems.                                                           *)

\* Everything below follows from it.
LEMMA InvHolds == Spec => []Inv
<1>1. Inv /\ [Next]_vars => Inv'
  BY NextTypeOK, NextWhisperFreed, NextPosition, NextHashFollows DEF Inv
<1> QED BY <1>1, InitInv, PTL DEF Spec

\* Every variable of the worker keeps its type.
THEOREM GpuTypeCorrect == Spec => []TypeOK
BY InvHolds, PTL DEF Inv

\* The staged worker keeps Whisper on the GPU only during an alignment, or after one
\* that raised, since align_stage does not unload it then.
THEOREM WhisperFreedHolds == Spec => []WhisperFreed
BY InvHolds, PTL DEF Inv

\* A failed job of run_pipeline() names the stage that failed; a lost callback leaves
\* the name of an earlier one.
THEOREM FailureIsLocatedHolds == Spec => []FailureIsLocated
<1>1. Inv => FailureIsLocated
  <2> SUFFICES ASSUME Inv, kind = "staged", job.status = "failed", ran < Len(Stages)
               PROVE  /\ StageNumber(job.stage) <= ran + 1
                      /\ ~lost => StageNumber(job.stage) = ran + 1
    BY DEF FailureIsLocated
  <2>1. PICK i \in Places : job.stage = Stages[i] /\ i <= ran + 1 /\ (~lost => i = ran + 1)
    BY DEF Inv, HashFollows, Located
  <2> QED BY <2>1, NumberOfStage
<1> QED BY <1>1, InvHolds, PTL

\* The progress of a job never goes back, whichever write fails or is applied in
\* spite of its error: the callbacks follow progress_map, and a failure keeps it.
THEOREM ProgressNeverFallsHolds == Spec => ProgressNeverFalls
<1>1. ASSUME Inv, [Next]_vars, pc \notin {"off", "idle"}
      PROVE  job'.progress >= job.progress
  <2>0. /\ kind \in {"classic", "staged"} /\ ran \in 0 .. 5 /\ Position /\ HashFollows
        /\ job \in Hashes /\ job.progress \in 0 .. 100
    <3>1. job \in Hashes => job.progress \in 0 .. 100
      BY StagesFacts DEF Hashes
    <3> QED BY <1>1, <3>1, TypeFacts DEF Inv
  <2>1. CASE UNCHANGED job
    BY <2>0, <2>1
  <2>2. CASE Claim
    BY <2>0, <2>2 DEF Claim, Write, WriteRaises, Claimed, Queued, HashFollows
  <2>3. CASE StatusCallback
    <3>1. Named(ran + 1) /\ ran \in 0 .. 4
      BY <2>0, <2>3, StagesFacts DEF StatusCallback, HashFollows, Position
    <3>2. PICK i \in Places : i <= ran + 1 /\ job.progress <= progress_map[i]
      BY <3>1 DEF Named
    <3>3. progress_map[i] <= progress_map[ran + 1] /\ progress_map[i] \in Nat
          /\ progress_map[ran + 1] \in Nat
      BY <3>1, <3>2, StagesFacts
    <3>4. Running.progress >= job.progress
      BY <2>0, <3>2, <3>3 DEF Running
    <3> QED BY <2>0, <2>3, <3>4 DEF StatusCallback, Write, WriteRaises
  <2>4. CASE Complete
    BY <2>0, <2>4 DEF Complete, Write, WriteRaises, Done
  <2>5. CASE Fail
    BY <2>0, <2>5 DEF Fail, Write, WriteRaises, Hashes
  <2>6. CASE Pipeline \/ Crash \/ LoadTts \/ Connect
    <3>1. UNCHANGED job
      BY <2>6 DEF Pipeline, Text, Voice, LoadWhisper, Transcribe, SubtitlesOrRender, Save,
                  Crash, LoadTts, Connect, jobVars
    <3> QED BY <2>1, <3>1
  <2>7. ~Start /\ ~Dequeue
    BY <1>1 DEF Start, Dequeue
  <2> QED BY <1>1, <2>1, <2>2, <2>3, <2>4, <2>5, <2>6, <2>7 DEF Next, vars, jobVars
<1>2. Inv /\ [Next]_vars => [pc \notin {"off", "idle"} => job'.progress >= job.progress]_vars
  BY <1>1
<1> QED BY <1>2, InvHolds, PTL DEF Spec, ProgressNeverFalls
=============================================================================
