---------------------------- MODULE ScriptPipeline ----------------------------
(* What a worker does with one job: main_generate() of Shortz.py, as worker.py  *)
(* calls it, and the staged run_pipeline() of worker/pipeline/, as              *)
(* worker/worker.py does. Both read the next pair of lines of input.txt at the  *)
(* index in progress.txt, synthesize the text, align and subtitle it, render a  *)
(* video named after the day and enter it in history.json. The files are shared *)
(* by everything that runs in the same directory; a write of progress.txt or    *)
(* history.json first empties the file.                                         *)
EXTENDS Integers

CONSTANTS
  Workers,      \* the worker processes
  Homes,        \* the directories that hold progress.txt and history.json
  HomeOf,       \* the directory of each worker; output/ is the same for all
  NumLines,     \* lines of input.txt that are not blank
  Unspeakable,  \* text lines of which clean_text_for_tts() leaves nothing
  MaxJobs,      \* bound on jobs
  MaxDays,      \* bound on days, which name the output files
  MaxFaults,    \* bound on failing file operations, syntheses and ffmpeg runs
  MaxCrashes    \* bound on killed processes

ASSUME LinesAssumption == NumLines \in Nat /\ NumLines >= 2
ASSUME HomeAssumption == HomeOf \in [Workers -> Homes]
ASSUME PipelineBounds == {MaxJobs, MaxFaults, MaxCrashes} \subseteq Nat /\ MaxDays \in Nat \ {0}

Lines == 0 .. NumLines - 1
Days == 1 .. MaxDays
NoLine == -1

(* Slip: no end to the file and no negative indices. *)
LineAt_Unbounded(i) == 2 * i + 1

(* The text line of the pair at an index. Python counts a negative one from the end. *)
LineAt(i) == (2 * i + 1) % NumLines

VARIABLES
  progress,  \* what read_progress() returns in a directory: 0 for an emptied file
  history,   \* the numbers load_history() finds there: none in an emptied file
  tmp,       \* the line whose chunks are in tmp_{i}.wav and concat_list.txt
  wav,       \* the line spoken in {day}.wav
  ass,       \* the line of the subtitles in {day}.ass
  canvas,    \* whether black_tmp.mp4 exists
  proc,      \* the worker processes
  today,     \* strftime("%d%m%Y")
  jobs, faults, crashes,  \* how many there were
  made,      \* per directory and line, the videos rendered for its workers
  material,  \* the lines heard and shown in each worker's last video
  unlogged,  \* directories whose history a failure or crash has cut
  taken      \* the failures there had been when each worker took its job

files == << progress, history, tmp, wav, ass, canvas >>
seen == << made, material, unlogged, taken >>
vars == << files, proc, today, jobs, faults, crashes, seen >>

(* A process before and between jobs. "staged" tells run_pipeline() from         *)
(* main_generate(), "voice" whether XTTS was loaded, "entries" is the history    *)
(* dictionary it loaded; "put" is being written to progress.txt, "then" follows. *)
Down == [ pc |-> "starting", staged |-> FALSE, voice |-> FALSE, index |-> 0, line |-> NoLine,
          day |-> 1, entries |-> {}, put |-> 0, then |-> "idle", outcome |-> "none", video |-> FALSE ]

Init ==
  /\ progress = [h \in Homes |-> 0] /\ history = [h \in Homes |-> {}]
  /\ tmp = NoLine /\ canvas = FALSE
  /\ wav = [d \in Days |-> NoLine] /\ ass = [d \in Days |-> NoLine]
  /\ proc = [w \in Workers |-> Down]
  /\ today = 1 /\ jobs = 0 /\ faults = 0 /\ crashes = 0
  /\ made = [h \in Homes |-> [l \in Lines |-> 0]]
  /\ material = [w \in Workers |-> {}]
  /\ unlogged = {}
  /\ taken = [w \in Workers |-> 0]

-------------------------------------------------------------------------------
(* Control: where a process is in its job. *)

Outside == {"starting", "idle", "read", "pick", "text", "no_text"}
Stages == {"voice", "concat", "align", "canvas", "fuse"}
Logging == {"load", "save", "saving"}
PCs == Outside \cup Stages \cup Logging \cup {"write", "fill", "rollback", "caught"}

At(w, pc) == proc[w].pc = pc
Become(w, p) == proc' = [proc EXCEPT ![w] = p]
Goto(w, pc) == Become(w, [proc[w] EXCEPT !.pc = pc])

(* write_progress(i), after which the process goes on at "next". *)
WriteProgress(w, i, next) ==
  Become(w, [proc[w] EXCEPT !.pc = "write", !.put = i, !.then = next])

Fault == faults < MaxFaults /\ faults' = faults + 1

(* The job is over; the worker marks it with this outcome. *)
Finish(w, outcome) == Become(w, [proc[w] EXCEPT !.pc = "idle", !.outcome = outcome])

(* No text: main_generate() returns, text_stage raises. *)
NoText(w) == Finish(w, IF proc[w].staged THEN "failed" ELSE "complete")

(* An exception: inside its try block main_generate() takes the line back. *)
Raise(w) ==
  IF proc[w].staged THEN Finish(w, "failed") ELSE Goto(w, "rollback")

-------------------------------------------------------------------------------
(* A process and its jobs *)

(* Importing Shortz leaves tts_model None when XTTS does not load: worker.py goes   *)
(* on without it, worker/worker.py returns and is started again.                    *)
Start(w) ==
  /\ At(w, "starting")
  /\ \E staged, voice \in BOOLEAN :
       /\ voice \/ ~staged
       /\ Become(w, [Down EXCEPT !.pc = "idle", !.staged = staged, !.voice = voice])
       /\ IF voice THEN UNCHANGED faults ELSE Fault
  /\ UNCHANGED << files, today, jobs, crashes, seen >>

TakeJob(w) ==
  /\ At(w, "idle") /\ jobs < MaxJobs
  /\ jobs' = jobs + 1
  /\ Become(w, [proc[w] EXCEPT !.pc = IF proc[w].voice THEN "read" ELSE "idle",
                             !.outcome = IF proc[w].voice THEN "none" ELSE "complete",
                             !.video = FALSE])
  /\ taken' = [taken EXCEPT ![w] = faults]
  /\ UNCHANGED << files, today, faults, crashes, made, material, unlogged >>

Crash(w) ==
  /\ ~At(w, "starting") /\ crashes < MaxCrashes
  /\ crashes' = crashes + 1
  /\ Become(w, Down)
  /\ unlogged' = IF proc[w].pc \in Logging THEN unlogged \cup {HomeOf[w]} ELSE unlogged
  /\ UNCHANGED << files, today, jobs, faults, made, material, taken >>

Midnight == today < MaxDays /\ today' = today + 1 /\ UNCHANGED << files, proc, jobs, faults, crashes, seen >>

-------------------------------------------------------------------------------
(* get_next_line_and_number() *)

(* The index is read; past the last pair it starts again at 0. *)
ReadProgress(w) ==
  /\ At(w, "read")
  /\ LET i == progress[HomeOf[w]] IN
     \/ /\ 2 * i < NumLines
        /\ Become(w, [proc[w] EXCEPT !.pc = "pick", !.index = i])
     \/ /\ 2 * i >= NumLines
        /\ Become(w, [proc[w] EXCEPT !.pc = "write", !.put = 0, !.then = "pick", !.index = 0])
  /\ UNCHANGED << files, today, jobs, faults, crashes, seen >>

(* read_progress() cannot read the file and answers 0. *)
ReadProgressFails(w) ==
  /\ At(w, "read") /\ Fault
  /\ Become(w, [proc[w] EXCEPT !.pc = "pick", !.index = 0])
  /\ UNCHANGED << files, today, jobs, crashes, seen >>

(* Slip: The saved index is one short of what was read. *)
PickLine_Repeats(w) ==
  /\ At(w, "pick")
  /\ Become(w, [proc[w] EXCEPT !.pc = "write", !.put = proc[w].index, !.line = LineAt(proc[w].index),
                             !.then = "text"])
  /\ UNCHANGED << files, today, jobs, faults, crashes, seen >>

(* The pair is taken and the index advanced, before any work is done. Half a pair   *)
(* at the end counts as no text; an index too far below 0 raises outside the try    *)
(* block.                                                                           *)
PickLine(w) ==
  /\ At(w, "pick")
  /\ LET i == proc[w].index
         speakable == 2 * i + 1 < NumLines /\ LineAt(i) \notin Unspeakable
     IN
     IF 2 * i < -NumLines
     THEN Finish(w, "failed")
     ELSE Become(w, [proc[w] EXCEPT !.pc = "write", !.put = i + 1, !.line = LineAt(i),
                                  !.then = IF speakable THEN "text" ELSE "no_text"])
  /\ UNCHANGED << files, today, jobs, faults, crashes, seen >>

(* input.txt is missing or too short: no text. It cannot be read: an exception. *)
InputFails(w) ==
  /\ At(w, "read") /\ Fault
  /\ NoText(w) \/ Finish(w, "failed")
  /\ UNCHANGED << files, today, jobs, crashes, seen >>

(* Slip: The text of a job that comes up mute counts as done in the staged pipeline too. *)
Mute_Completes(w) ==
  /\ At(w, "no_text")
  /\ Finish(w, "complete")
  /\ UNCHANGED << files, today, jobs, faults, crashes, seen >>

Mute(w) ==
  /\ At(w, "no_text")
  /\ NoText(w)
  /\ UNCHANGED << files, today, jobs, faults, crashes, seen >>

-------------------------------------------------------------------------------
(* write_progress(): write_text() empties the file, then fills it. An error in  *)
(* either half is reported and forgotten.                                       *)

EmptyProgress(w) ==
  /\ At(w, "write")
  /\ progress' = [progress EXCEPT ![HomeOf[w]] = 0]
  /\ Goto(w, "fill")
  /\ UNCHANGED << history, tmp, wav, ass, canvas, today, jobs, faults, crashes, seen >>

FillProgress(w) ==
  /\ At(w, "fill")
  /\ progress' = [progress EXCEPT ![HomeOf[w]] = proc[w].put]
  /\ Goto(w, proc[w].then)
  /\ UNCHANGED << history, tmp, wav, ass, canvas, today, jobs, faults, crashes, seen >>

WriteFails(w) ==
  /\ proc[w].pc \in {"write", "fill"} /\ Fault
  /\ Goto(w, proc[w].then)
  /\ UNCHANGED << files, today, jobs, crashes, seen >>

-------------------------------------------------------------------------------
(* The stages *)

(* The day is fixed and {day}.txt written. *)
WriteText(w) ==
  /\ At(w, "text")
  /\ Become(w, [proc[w] EXCEPT !.pc = "voice", !.day = today])
  /\ UNCHANGED << files, today, jobs, faults, crashes, seen >>

(* The try block of main_generate() starts after this write. *)
TextFails(w) ==
  /\ At(w, "text") /\ Fault
  /\ Finish(w, "failed")
  /\ UNCHANGED << files, today, jobs, crashes, seen >>

Synthesize(w) ==
  /\ At(w, "voice")
  /\ tmp' = proc[w].line
  /\ Goto(w, "concat")
  /\ UNCHANGED << progress, history, wav, ass, canvas, today, jobs, faults, crashes, seen >>

(* The chunks are joined and deleted, whosever they are. *)
Concat(w) ==
  /\ At(w, "concat") /\ tmp # NoLine
  /\ wav' = [wav EXCEPT ![proc[w].day] = tmp]
  /\ tmp' = NoLine
  /\ Goto(w, "align")
  /\ UNCHANGED << progress, history, ass, canvas, today, jobs, faults, crashes, seen >>

(* Whisper times the words of {day}.wav; the subtitles show the words of the job. *)
Subtitle(w) ==
  /\ At(w, "align")
  /\ ass' = [ass EXCEPT ![proc[w].day] = proc[w].line]
  /\ Goto(w, "canvas")
  /\ UNCHANGED << progress, history, tmp, wav, canvas, today, jobs, faults, crashes, seen >>

DrawCanvas(w) ==
  /\ At(w, "canvas")
  /\ canvas' = TRUE
  /\ Goto(w, "fuse")
  /\ UNCHANGED << progress, history, tmp, wav, ass, today, jobs, faults, crashes, seen >>

(* Canvas, {day}.wav and {day}.ass become {day}.mp4. *)
Fuse(w) ==
  /\ At(w, "fuse") /\ canvas
  /\ canvas' = FALSE
  /\ Become(w, [proc[w] EXCEPT !.pc = "load", !.video = TRUE])
  /\ made' = [made EXCEPT ![HomeOf[w]][proc[w].line] = @ + 1]
  /\ material' = [material EXCEPT ![w] = {wav[proc[w].day], ass[proc[w].day]}]
  /\ UNCHANGED << progress, history, tmp, wav, ass, today, jobs, faults, crashes, unlogged, taken >>

(* Another process has deleted what this one is about to use. *)
Missing(w) == (At(w, "concat") /\ tmp = NoLine) \/ (At(w, "fuse") /\ ~canvas)

(* Slip: The error of ffmpeg is reported but not raised: the old {day}.wav is used. *)
StageFails_GoesOn(w) ==
  /\ At(w, "concat") /\ Fault
  /\ Goto(w, "align")
  /\ UNCHANGED << files, today, jobs, crashes, seen >>

(* A stage fails; missing inputs need no further cause. The chunks                  *)
(* synthesized so far, an emptied or half-written target may remain; ffmpeg failing *)
(* to join removes the chunks, and the canvas is removed in any case.               *)
StageFails(w) ==
  /\ proc[w].pc \in Stages
  /\ IF Missing(w) THEN UNCHANGED faults ELSE Fault
  /\ tmp' \in {tmp} \cup (CASE At(w, "voice") -> {proc[w].line} [] At(w, "concat") -> {NoLine} [] OTHER -> {})
  /\ wav' \in {wav} \cup (IF At(w, "concat") THEN {[wav EXCEPT ![proc[w].day] = NoLine]} ELSE {})
  /\ ass' \in {ass} \cup (IF At(w, "align") THEN {[ass EXCEPT ![proc[w].day] = NoLine]} ELSE {})
  /\ canvas' \in (CASE At(w, "canvas") -> {canvas, TRUE} [] At(w, "fuse") -> {FALSE} [] OTHER -> {canvas})
  /\ Raise(w)
  /\ UNCHANGED << progress, history, today, jobs, crashes, seen >>

-------------------------------------------------------------------------------
(* history.json *)

(* Slip: The history is saved without what was loaded. *)
LoadHistory_Drops(w) ==
  /\ At(w, "load")
  /\ Become(w, [proc[w] EXCEPT !.pc = "save", !.entries = {proc[w].index + 1}])
  /\ UNCHANGED << files, today, jobs, faults, crashes, seen >>

LoadHistory(w) ==
  /\ At(w, "load")
  /\ Become(w, [proc[w] EXCEPT !.pc = "save", !.entries = history[HomeOf[w]] \cup {proc[w].index + 1}])
  /\ UNCHANGED << files, today, jobs, faults, crashes, seen >>

(* Any error of load_history() reads as an empty history. *)
LoadFails(w) ==
  /\ At(w, "load") /\ Fault
  /\ Become(w, [proc[w] EXCEPT !.pc = "save", !.entries = {proc[w].index + 1}])
  /\ unlogged' = unlogged \cup {HomeOf[w]}
  /\ UNCHANGED << files, today, jobs, crashes, made, material, taken >>

EmptyHistory(w) ==
  /\ At(w, "save")
  /\ history' = [history EXCEPT ![HomeOf[w]] = {}]
  /\ Goto(w, "saving")
  /\ UNCHANGED << progress, tmp, wav, ass, canvas, today, jobs, faults, crashes, seen >>

FillHistory(w) ==
  /\ At(w, "saving")
  /\ history' = [history EXCEPT ![HomeOf[w]] = proc[w].entries]
  /\ Finish(w, "complete")
  /\ UNCHANGED << progress, tmp, wav, ass, canvas, today, jobs, faults, crashes, seen >>

SaveFails(w) ==
  /\ proc[w].pc \in {"save", "saving"} /\ Fault
  /\ Raise(w)
  /\ unlogged' = unlogged \cup {HomeOf[w]}
  /\ UNCHANGED << files, today, jobs, crashes, made, material, taken >>

-------------------------------------------------------------------------------
(* Slip: The except clause takes back two. *)
RollBack_Twice(w) ==
  /\ At(w, "rollback")
  /\ WriteProgress(w, progress[HomeOf[w]] - 2, "caught")
  /\ UNCHANGED << files, today, jobs, faults, crashes, seen >>

(* The except clause of main_generate(): one less than what the file says now. *)
RollBack(w) ==
  /\ At(w, "rollback")
  /\ WriteProgress(w, progress[HomeOf[w]] - 1, "caught")
  /\ UNCHANGED << files, today, jobs, faults, crashes, seen >>

(* read_progress() cannot read the file and answers 0. *)
RollBackFails(w) ==
  /\ At(w, "rollback") /\ Fault
  /\ WriteProgress(w, -1, "caught")
  /\ UNCHANGED << files, today, jobs, crashes, seen >>

(* It returns as if nothing had happened. *)
ReturnCaught(w) ==
  /\ At(w, "caught")
  /\ Finish(w, "complete")
  /\ UNCHANGED << files, today, jobs, faults, crashes, seen >>

ProcessStep(w) == Start(w) \/ TakeJob(w) \/ Crash(w)
ReaderStep(w) == ReadProgress(w) \/ ReadProgressFails(w) \/ PickLine(w) \/ InputFails(w) \/ Mute(w)
ProgressStep(w) ==
  \/ EmptyProgress(w) \/ FillProgress(w) \/ WriteFails(w)
  \/ RollBack(w) \/ RollBackFails(w) \/ ReturnCaught(w)
StageStep(w) ==
  \/ WriteText(w) \/ TextFails(w) \/ Synthesize(w) \/ Concat(w) \/ Subtitle(w)
  \/ DrawCanvas(w) \/ Fuse(w) \/ StageFails(w)
HistoryStep(w) == LoadHistory(w) \/ LoadFails(w) \/ EmptyHistory(w) \/ FillHistory(w) \/ SaveFails(w)

Next ==
  \/ \E w \in Workers : ProcessStep(w) \/ ReaderStep(w) \/ ProgressStep(w) \/ StageStep(w) \/ HistoryStep(w)
  \/ Midnight

Spec == Init /\ [][Next]_vars

-------------------------------------------------------------------------------
(* Properties. Those of the first group are claimed of a worker that shares its *)
(* files with no other.                                                         *)

Process == [ pc : PCs, staged : BOOLEAN, voice : BOOLEAN, index : Int, line : Lines \cup {NoLine},
             day : Days, entries : SUBSET Int, put : Int,
             then : {"idle", "pick", "text", "no_text", "caught"},
             outcome : {"none", "complete", "failed"}, video : BOOLEAN ]

(* Files, processes and counters have their types. *)
TypeOK ==
  /\ progress \in [Homes -> Int] /\ history \in [Homes -> SUBSET Int]
  /\ tmp \in Lines \cup {NoLine} /\ canvas \in BOOLEAN
  /\ wav \in [Days -> Lines \cup {NoLine}] /\ ass \in [Days -> Lines \cup {NoLine}]
  /\ proc \in [Workers -> Process]
  /\ today \in Days /\ jobs \in 0 .. MaxJobs /\ faults \in 0 .. MaxFaults /\ crashes \in 0 .. MaxCrashes
  /\ made \in [Homes -> [Lines -> Nat]]
  /\ material \in [Workers -> SUBSET (Lines \cup {NoLine})]
  /\ unlogged \in SUBSET Homes
  /\ taken \in [Workers -> 0 .. MaxFaults]

(* However failures fall, and whichever of the two pipelines each restart runs, the *)
(* index never sinks below 0 by more than one for every two failures. As long as    *)
(* the failures are fewer than the lines of the script, Python's negative           *)
(* subscripts stay on real lines and get_next_line_and_number() does not come to    *)
(* raise on every job.                                                              *)
IndexStaysInRange == \A h \in Homes : 2 * progress[h] + faults >= 0

(* The script is used in turn: two lines that can be spoken differ by at most one   *)
(* video for the round under way and one for each failure or crash. No line is      *)
(* starved by rollbacks, emptied index files or restarts.                           *)
RoundRobin ==
  LET turn == {LineAt(i) : i \in {j \in 0 .. NumLines : 2 * j + 1 < NumLines}} \ Unspeakable IN
  \A h \in Homes : \A a, b \in turn : made[h][a] <= made[h][b] + 1 + faults + crashes

(* A stage of main_generate() that fails costs no line: unless something else fails *)
(* during the same job, the index is back at the line of the job when the function  *)
(* returns, wherever the failures of earlier jobs have left it.                     *)
TakenBack ==
  \A w \in Workers : At(w, "caught") => progress[HomeOf[w]] = proc[w].index \/ faults >= taken[w] + 2

(* A finished video is spoken and subtitled with the line of its job, although the  *)
(* files of earlier jobs of the day, whole or half-written, lie under the same      *)
(* names.                                                                           *)
OwnMaterial == \A w \in Workers : proc[w].video => material[w] = {proc[w].line}

(* Every video is entered in history.json and stays there, unless a failure or a    *)
(* crash fell between its rendering and the end of the save.                        *)
HistoryComplete ==
  \A h \in Homes \ unlogged : (\A w \in Workers : HomeOf[w] = h => proc[w].pc \notin Logging)
    => \A l \in Lines : made[h][l] > 0 => \E n \in history[h] : LineAt(n - 1) = l

(* pipeline_runner.py:46 "Any stage failure propagates to caller": a staged job     *)
(* that counts as complete has its video.                                           *)
StagedCompleteHasVideo ==
  \A w \in Workers : proc[w].staged /\ proc[w].outcome = "complete" => proc[w].video

(* ARCHITECTURE.md:58 has the statuses "complete" and "failed", and worker.py:110   *)
(* marks a job failed when it fails: complete jobs have a video. main_generate()    *)
(* returns normally when a stage fails, so this does not hold of worker.py.         *)
CompleteHasVideo == \A w \in Workers : proc[w].outcome = "complete" => proc[w].video

=============================================================================
