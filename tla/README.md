# Shortz job system: TLA+ models and proofs

Shortz turns lines of a script file into short videos. A desktop GUI (or any
HTTP client) asks a FastAPI server for jobs, the server keeps the jobs in Redis,
workers take them from there and run a text / voice / alignment / subtitles /
render pipeline on the GPU, and a supervisor starts everything and restarts what
dies. This directory models the parts of that program whose correctness depends
on interleavings, failures and order, checks the models with TLC and proves the
most important facts about them with TLAPS.

Paths below are relative to the repository's root.

## 1. The system

| part | code | state | operations |
|---|---|---|---|
| job store | `redis_queue.py` + Redis | lists `shortz_jobs` and `shortz_processing`, one hash `job:{id}` per job | enqueue (MULTI/HSET/RPUSH/EXEC), dequeue (BLMOVE), set status, remove from processing, scans |
| API server | `api_server.py` (near-duplicate: `api/`) | requests in flight; nothing else | `POST /generate`, `GET /active_job`, `GET /status/{id}`, `GET /health` |
| worker | `worker.py` (near-duplicate: `worker/worker.py`) | position in its loop, the job in hand | connect, ping, pop, mark running, generate, mark complete/failed, remove |
| script pipeline | `Shortz.py`; staged: `worker/pipeline/` | `progress.txt`, `history.json`, output and temporary files named by the date | next line, synthesize, align, subtitles, render, history, roll back |
| GPU models | `worker/resource_manager.py` | XTTS and Whisper loaded or not | load, reuse, unload |
| desktop GUI | `gui.py` | job id, running flag (behind a QMutex), poller/submitter/detector/health threads, queued signals | auto-launch, start, status update, poll, close |
| bridged GUI | `services/` | one polling thread | submit, poll, stop |
| supervisor | `shortz_supervisor.py`, v2 in `system/` | process handles, crash counters, times of restarts | start in order, watch, restart with backoff, give up, terminate |
| subtitle timing | `Shortz.py:183-490`, `align_stage.py`, `subtitle_stage.py` | chunks, durations, word timestamps, lines | split, measure, align or derive, write the `.ass` file, cut the video |
| monitoring | `monitoring/` | in-memory counters | read the store, export metrics |

How they interact. The API server and the workers share nothing but Redis.
Handlers of concurrent requests interleave at every Redis command, because each
is awaited in a thread. Workers are separate processes, each holding the job it
popped in a local variable; the processing list is never read back by a worker.
The GUI talks HTTP to the API only and learns of its own threads' results
through signals queued to the main thread. The supervisor sees processes only:
it restarts them and knows nothing of their jobs.

What is hard about it:

* two processes act between any two Redis commands (check-then-act in
  `generate`, the two-list scan of `find_active_job`);
* the client library retries a command once after a connection error, so a
  command can be applied twice (`retry_on_error`, `redis_queue.py:33`, `:42`);
* a worker may die anywhere between the pop and the removal, from outside or
  because a Redis error escapes the loop (`worker.py:101`, `:113`);
* files are rewritten in place and named by the day, a failed stage is reported as
  success by one pipeline and as failure by the other;
* signals of threads arrive after the window has moved on to another job;
* processes outlive the supervisor that started them, its search for them can
  fail, and its loop looks at one component after the other with sleeps between;
* a status callback fails, or is applied and reported as failed, while the stages
  of the job go on;
* a word's time is computed in floats, shifted, spread over words and rounded to
  two units of the `.ass` format, on three different ways;
* several functions turn an error into an ordinary answer (`get_job_status`,
  `is_job_in_queue`, `find_active_job`, `dequeue_job`, `complete_job`).

What makes each part correct is stated as the properties of section 3; the
hazards they are aimed at are listed, with their lines, in `PROJECT.json`.

## 2. The modules

| module | models |
|---|---|
| `RedisStore` | the two lists, the status field of the hashes, and the commands of `redis_queue.py` as operators; Redis errors |
| `ApiServer` | the handlers of `api_server.py`, one action per Redis command |
| `WorkerLoop` | `worker_loop()` of `worker.py`, one action per Redis command |
| `JobSystem` | store, API and workers composed; fairness; the properties; the refinement mapping |
| `JobLifecycle` | the abstract job service: submitted once, handed out at most once, outcome final |
| `DocumentedClaims` | sentences of docs and docstrings as properties, which the code does not keep |
| `MCJobSystem` | sets of handlers, workers, endpoints and lossy commands for the TLC instances |
| `JobSystemProofs`, `JobSafetyProofs`, `JobRefinementProofs` | the theorems about the job system |
| `ScriptPipeline` | what a worker does with one job: `main_generate()` and the staged `run_pipeline()` on their files |
| `MCScriptPipeline` | workers and their directories for the TLC instances |
| `ScriptPipelineProofs` | the theorems about the pipeline |
| `GuiConsole` | the window of `gui.py`: main thread, mutex, pollers, submitters, detector, queued signals |
| `GuiConsoleProofs` | the theorems about the window |
| `Supervisor` | both supervisors: start-up, monitor loop, backoff, limits, what they leave behind |
| `SupervisorProofs` | the theorems about them |
| `GpuWorker` | one worker process, classic or staged: models on the GPU, the stages of a job, what its hash says |
| `GpuWorkerProofs` | the theorems about it |
| `SubtitleTiming` | from the text to the chunks, the word timestamps, the `.ass` lines and the length of the video |
| `MCSubtitleTiming` | texts, voices and answers of Whisper for the TLC instance |
| `SubtitleTimingProofs` | the theorems about the timing |

Six groups are checked apart. To the job system a run of the pipeline is
one step that succeeds or raises (`Generate` in `WorkerLoop`); to the pipeline
jobs arrive one after another; to the window the server is a set of jobs that
are active or ended; to the supervisor a process is alive or dead. The pipeline
appears three times, each time for another question: `ScriptPipeline` keeps its
files, `GpuWorker` the models and the job's hash, `SubtitleTiming` the times.

### State and actions

`RedisStore`. `queue` is `shortz_jobs`, left to right; `enqueue` appends at the
right and `BLMOVE ... RIGHT` takes from the right. `processing[j]` counts how
often `j` stands in `shortz_processing`: its order only decides which of several
active jobs a scan meets first, which the model leaves open. Of a hash only
`status` is kept; progress, stage, voice and times decide nothing. `uuid4()` is
the next number, which also records the order of submission. `faults` counts
Redis errors. An error after the library's own retry is either `Unreachable`
(no attempt was applied) or a lost reply: the command was applied, its reply was
not received. `Lossy` says which commands of an instance can lose theirs, and each
reads differently: `enqueue` is followed by the same EXEC again (`RetryEnqueue`),
`pop` by another BLMOVE or by `None`; `mark` (the writes of "running" and "failed")
ends the worker's process, and `complete` sends it into its except clause, which
writes "failed" over the final status.

`ApiServer`. `req[h]` is what handler `h` works on. `Begin*` are arriving
requests; the two scans are `ListProcessing`, `ListQueue`, one `CheckJob` per id
of the snapshot and `EndScan`; `Enqueue` is EXEC and the response;
`ReadStatus`, `FindInQueue`, `FindInProcessing` are `/status`. A failing command
takes the branch the code takes for it (`CheckJobUnreadable`, `ScanFails`,
`EnqueueUnreachable`, `StatusUnreachable`, ...). `ApiRestart` forgets all
requests. `twice` only observes: the jobs of an EXEC that was applied twice.

`WorkerLoop`. `wpc[w]` is the place in the loop, `held[w]` the local `job_id`.
`Pop` to `CompleteJob` are the lines 91 to 114 of `worker.py` in their order;
`MarkUnreachable` and `MarkReplyLost` are the two status writes outside the
`try`, which end the process; `Crash` is a killed process anywhere. `Restart` is
the supervisor's or the container runtime's.

`ScriptPipeline`. The text of a job is the number of its line in `input.txt`; a
media file is the line it was made from, or `NoLine`. `progress` and `history`
are what `read_progress()` and `load_history()` would return for the file as it
stands: 0 and `{}` while a write has emptied it (`EmptyProgress`,
`EmptyHistory`) and not filled it yet. `proc[w]` holds the local variables of a
job; `put` and `then` are the argument and the continuation of a
`write_progress()` call. An index below zero picks its line as Python's negative
subscripts do (`LineAt`); an entry of the history is the pair's number, which is
the index plus one as long as the first line of a pair holds no digits (none
does in the script shipped). One `Start` loads XTTS or does not and decides
which of the two workers runs; both read the same files. The stages are those of
`main_generate()`; alignment and subtitles are one step because only the second
writes a file. `Raise` is the difference between the two: the staged pipeline
lets the error out (the job fails), `main_generate()` takes the line back
(`RollBack`) and returns. An unreadable `progress.txt` reads as 0
(`ReadProgressFails`, and `RollBackFails`, which then writes -1). `Missing` inputs of ffmpeg occur when another process
shares the files. `made`, `material`, `unlogged` and `taken` (the failures before
a worker took its job) only observe.

`GuiConsole`. `main` is where the main thread is: in its event loop, before the
mutex in `_start_poller()`, or gone with the window. `locked` is the mutex, `job`
the field it guards, `poller` the thread the window refers to, `button` and `batch`
the two widgets that decide something. `events` is
the queue of signals sent across threads; `HandleEvent` runs the slot of the
first one to its end. Pollers, submitters and detector are threads with a place
in their `run()`; a finished one's slot is used again for the next thread.
`StopPoller` clears the running flag and drops the reference; the thread itself
goes on until it looks at the flag, and a reply it was waiting for is still
delivered. A submitter's and the detector's reply is a step of its own as well, so
that what they report may be out of date. Statuses are "active" (queued or running) and "ended" (complete or
failed), which is all the slots tell apart. Labels, voice choice and the health
thread are left out.

`Supervisor`. `version` says which of the two runs; they share the actions where
they share the code. `pc` is the place in `main()` or `monitor_loop()`, `wait`
what is left of the `time.sleep()` it is in: time passes in `Tick` only, second
by second. `child[c]` is the process behind the handle of component `c` ("ended"
is exit code 0, which only the GUI is asked for), `restarted` the components
whose handle `monitor_loop()` has replaced while `main()` still holds the first
one (Ctrl+C terminates through the first handles). `crashes` and `age` are the
counters and times of v1. Ages stop at `BackoffMax`, beyond which they are not
told apart; zero, the value before any restart, counts as that long ago. `strays`
and `strayApi` are live processes of earlier runs: `Launch` turns what the last
run left into them. Children die at any time, a second API server dies on the
taken port. The process check looks for "worker.py" in the command line of any
Python process: it may find one that is no worker of this system, and it may fail
(`blind`), in which case it answers that no worker runs. One supervisor runs at a
time, and workers started by hand (`run_worker.bat`) are not in the model. `since` and `down` are clocks to hold the code against, not
variables of it.

`GpuWorker`. `kind` is the worker, `imported` the XTTS that importing
`Shortz.py` loads, `managed` the one of `ResourceManager`, `whisper` either
Whisper. `ran` counts the finished stages of a job and `job` is its hash. A write
that raises may or may not have been applied (`WriteRaises`); in
`_status_cb()` the error is swallowed (`lost`), elsewhere it leads to the except
clause or out of the loop. The status callback precedes its stage. `leaked` only
observes. Nothing in this module needs a bound. The stage that follows is picked
in the order of the conditions of the code (`StageDone`), so that at most one applies.

`SubtitleTiming`. The loops of the code are the steps; a word is the number of
its characters, a time a whole number of ticks. `split_word_safe()` fills `cur`
and closes it into `chunks`; `tts_generate_and_measure()` gives each chunk a
length (`voice`) and what is measured of it (`durations`: the true length, or
1.0 when ffprobe fails, and at least the minimum). Whisper answers with one of
`Hearings`, which are in order, or with nothing. The timestamps come from it when
it heard at least as many words as the text has, are spread evenly up to the end of
the last one when it heard fewer, and are derived from the durations when it heard
nothing. `build_karaoke_ass()` takes five words to a line; `format_ass_time()` is
modelled by the fields it writes, the third of which may be a hundred
centiseconds. Colours, styles and escaping are left out.

## 3. What the runs check

| run | instance | properties |
|---|---|---|
| `claims` | 2 workers, 1 client, batches up to 2, 3 jobs, 1 Redis error (pops and the writes of "running" and "failed" may lose their reply), 1 crash, 1 API restart | type; `StrandedBound`: each failure strands at most one job; `ImplementsLifecycle`: jobs are handed out at most once and outcomes are final |
| `requests` | 2 concurrent requests of every kind, 1 worker, 2 jobs, 1 error | `ScanSeesPending`: a scan without errors never overlooks a job that stays pending; `ActiveIsFound`: one error does not make `/status` deny an active job |
| `lost_replies` | 2 fair workers, 1 client, 2 jobs, every command may lose its reply, 2 errors, a crash, an API restart | `ExclusiveClaim`: no two workers hold a job, but one of an EXEC applied twice; `Accounting`: save for those jobs, a job stands in at most one list, an unfinished one in one, and what this rests on; `SingleFailureSafe`: one failure never makes an unfinished job vanish, even when a job is queued twice; `SettlesUnlessMoreCome`: an active job is finished, a failure stranded it, or another job is submitted first |
| `console` | 2 jobs, 2 pollers, 1 submitter, batches up to 2, at most 1 unread result, 1 failed request, all threads fair | type; `OneLivePoller`; `PollerFollowsJob`: it asks for the job on display and never ends by itself; `DroppedWhenDone`: a job leaves the display only because it ended or through another job's final result; `ButtonComesBack`: after every submission; `EndIsShown`: an end is noticed, unless the window hangs or is closed |
| `supervisor` | both versions, any number of runs, 3 restarts before giving up, backoffs of 1, 2 and 3 s, 1 failed process check | type; `SoleWorker`: two workers are alive only after a failed process check; `LeftBehind`: who survives the supervisor; `ApiBackInTime`: a dead API is respawned within `WorstDelay`; `RestartsSpaced`: restarts keep their backoff; `DeadIsHandled`: every dead child is respawned or given up unless the GUI keeps crashing |
| `gpu` | either worker, any number of jobs, failures and restarts | type; `WhisperFreed`: between jobs the staged worker holds Whisper only after an alignment that raised; `FailureIsLocated`: the hash of a failed job names the stage that failed, or an earlier one if a callback was lost; `ProgressNeverFalls` |
| `subtitles` | all texts of up to 4 words of 3 lengths, two of 6 and 11 words, chunks of up to 7 characters, two lengths of a spoken chunk, seven answers of Whisper | type; `ChunksTileText`: no word is lost, doubled or out of place; `FewestChunks`: the greedy chunks are as few as possible; `StampsInOrder`; `LagIsHolds`: how far the fallback runs behind the voice; `TimesAreNearest`: of the file as it is read; `SweepKeepsUp`: the highlight |
| `pipeline` | 1 worker, 7 lines (two pairs to speak, one mute, half a pair), 7 jobs on 2 days, 3 failures, 1 crash | type; `IndexStaysInRange`: the index sinks below 0 by at most half the failures; `RoundRobin`: rollbacks and emptied files cost a line at most one video for each failure or crash; `TakenBack`: a failed stage costs no line unless something else fails in the same job; `OwnMaterial`: audio and subtitles of a video are its job's; `HistoryComplete`: the history names all rendered pairs unless a failure cut it; `StagedCompleteHasVideo` |

The violated ones state what a document or a comment says and the code does not
do; `findings` in `PROJECT.json` quotes the line and says what TLC found.

| run | claim | what happens |
|---|---|---|
| `fifo` | ARCHITECTURE.md:49 "Pending job queue (FIFO)" | the newest job is served first |
| `dedup_scan` | api_server.py:140 "if active jobs already exist, returns them" | a job popped between the two LRANGEs is overlooked, another is created |
| `self_lock` | gui.py:1159 "Job already active — attaching poller" | the main thread waits for the mutex it holds |
| `phantom` | docs/index.html:2248 "failed jobs are marked in Redis" | `main_generate()` swallows every error, the job is marked complete |

Seen while modelling, without a run:

* Jobs. Two concurrent POSTs both look before either creates, and both create
  (api_server.py:140 "Prevents duplicate submission"). `find_all_active_jobs`
  (redis_queue.py:242 "Return ALL active jobs") misses a job that moves between
  its two reads. A Redis error at `worker.py:101` ends the process although
  worker.py:9 says "never crashes the loop"; an error in `complete_job` leaves
  the processing entry for good (worker.py:11). `/status` answers 404 for a
  finished job after one Redis error. The voice path stored with a job is read by
  no worker. The pending list is served newest first, so under a steady stream of
  submissions the oldest job is never run; `SettlesUnlessMoreCome` claims nothing
  of it. A worker that misses the answer to its "complete" writes "failed" over it
  (worker.py:105, :113).
* Window. A final result that was on its way when the window turned to another job
  ends the monitoring of that job (gui.py:1277, :1296); `DroppedWhenDone` allows
  for it. `closeEvent` waits less for its threads than their requests may take.
* Pipeline. All videos of a day have one file name, so of a batch only the last is
  left. Containers keep `progress.txt` to themselves, so each makes the same
  lines, and mix their audio and subtitles in the mounted `output/`
  (docs/index.html:2015 "The Redis queue handles coordination automatically").
* Models. Whisper stays loaded in `main_generate()`, and in the staged pipeline
  after an error of `transcribe` (docs/index.html:2022 says it is freed after
  alignment). The staged worker loads XTTS twice, once at the import of `Shortz`
  and once in its manager (docs/SYSTEM_ARCHITECTURE.md:27), and speaks with the
  first.
* Supervisor. Ctrl+C in the monitor loop terminates the processes `main()` started
  and logs that all components are stopped; restarted ones live on
  (`LeftBehind`). While the GUI keeps crashing, v1 looks at nothing else. Line 57
  limits the restarts to so many "consecutive crashes", and nothing resets the
  counters (lines 278-281): the eleventh crash of the API in the life of a
  supervisor ends everything, and that of the worker leaves it down, however long
  they ran in between. No property says so, since what would make two crashes
  consecutive is not written. With its real constants a dead API can wait 361 seconds (`WorstDelay`).
* Timing. The fallback adds 2.5 seconds between chunks, the `.wav` has no pause
  there (`LagIsHolds`). The lead of a line is always 0, so the highlight of lines
  after the first starts early by the delay it was meant to wait. A line stays for
  2.5 seconds after its last word and overlaps the next. Subtitles start one
  second late while `-shortest` cuts the canvas to the audio, so a line whose
  first word is in the last second is never shown. Centiseconds can be written as
  `0:00:01.100`, which `TimesAreNearest` shows to be harmless for a reader that
  carries.
* Bridged GUI. `health_check()` reads the HTML of `/docs` as JSON and is always
  false (api_client.py:51-57), the answer to `POST /generate` has no `job_id`,
  and the window has no `metrics_body`.

### Bounds

`MaxJobs`, `MaxFaults`, `MaxCrashes`, `MaxApiRestarts` and `MaxBatch`
stand in the guards. Two jobs are enough for an order, an overlooked job and a
duplicate; three let a batch and a single job overlap with two workers. Two
workers are enough for a double claim, as a claim concerns two of them. One
error plus one crash reach every error branch (each is one error away from a
fault-free run); `lost_replies` takes two errors because a lost reply whose
retry fails needs both. Two pollers are a dropped one and its successor; a third
would only repeat the pair. Seven jobs go once round the script of four pairs and
begin it again; three failures are one more than the two that bring the index
below zero, so that a negative index is read, used and failed with; five, which
would be needed for the branch where the whole file is too short for it, are left
to the theorem. The theorems of section 5 lift the bounds. The supervisor's
intervals are small and different from each other, so that sleeps of every kind
overlap the deaths of every child; three attempts give a first restart without
wait (its backoff of one second has run out), a second with a backoff of two that may
still run and a third at the cap of three; `MaxBlind` is one, as
the second failed check only adds one more to the bound. `WorstDelay` is tight on
this instance. Texts of four words of 1, 3 and 9 characters fill the limit of 7 in every
way, pass it and are passed by a single word; the long ones give two and three lines
of five words from several chunks. A second of 6000 ticks makes every division by a
number of words exact (`Exact`, which TLC evaluates as an assumption of the run's
module). Whisper's answers cover nothing, fewer, as many and more words
than the text has, words without length and
long pauses. `GpuWorker` is checked without bounds. Deadlock is checked
for `supervisor` and `gpu` only. Elsewhere the system may stop: once all jobs are
created and done the workers block in BLMOVE and no request need arrive, a closed
window or one waiting for itself stops, and a job's video is rendered once.

## 4. Fairness

`FairSpec` of the job system assumes weak fairness of each worker's normal steps
and of each handler's. A live worker goes round `while True` without waiting for
anything but Redis: `dequeue_job` blocks with timeout 0 until there is a job, and
`main_generate()` ends because synthesis, alignment and the ffmpeg calls do. A
dead one is started again (`restart: unless-stopped` in `docker-compose.yml`,
`monitor_loop` of the supervisor, up to its limit of 10). Handlers are scheduled
by the event loop until they answer. `FairSpec` of the window assumes weak
fairness of the main thread and of every thread: Qt's event loop delivers what is
queued, and each request of a thread has a timeout (8 s of the poller, for
one), so its step is always due to happen. No fairness is assumed of errors,
crashes, clicks, the end of a job or arriving requests; the errors are bounded.
`FairSpec` of the supervisor assumes weak fairness of the supervisor's own steps:
its sleeps end, and the commands it runs return. Nothing is assumed of its
children, which may live, crash or be spawned in vain.

## 5. What is proved

All theorems hold for every number of jobs, workers, handlers, threads, lines,
days, faults, crashes, restarts and batch sizes.

Job system:

* `TypeCorrect` (`JobSystemProofs`): `Spec => []TypeOK`, whatever commands may
  lose their reply. One lemma per module's actions.
* `AccountingHolds`, `ExclusiveClaimHolds` (`JobSafetyProofs`), whatever commands
  lose their replies, and for all jobs but those in `twice`, which an EXEC applied
  twice has queued twice. That two workers do not hold one job is not inductive: it
  needs that a held job is in the processing list and not in the pending one
  (`HeldIsProcessing`, `ListedOnce`); that pushing keeps the list free of duplicates
  needs that fresh ids are unknown (`FreshIsUnknown`), and that the removal of an
  entry loses no unfinished job needs that its status is final by then
  (`CleanupIsTerminal`). Their conjunction is `Accounting`.
* `StrandedBoundHolds`, `SingleFailureSafeHolds`, `ScanSeesPendingHolds`,
  `ActiveIsFoundHolds` (`JobSafetyProofs`), whatever commands lose their replies.
  The first counts: a step puts at most one job among `Uncovered` (active, neither
  pending nor with a worker that has not written its last word on it), and one that
  does is a crash or an error, so `UncoveredBound` is inductive. The other three need
  that the bookkeeping is right while there was no error, for any `Lossy`
  (`CleanAccounting`, `CleanTidy`): a lost reply is an error itself.
  `SingleFailureInv` says that the first failure leaves the bookkeeping right or every
  unfinished job covered. In a scan (`ScanInv`) a job that was pending when the request
  came in is no longer pending, still ahead of the scan or already in its answer.
  `/status` (`SearchInv`) goes on to the lists only after an error; with that one spent
  the bookkeeping is right, jobs move from the pending to the processing list, and
  the search goes the same way.
* `PhaseMatchesStatusHolds`, `TerminalIsFinalHolds`, `RefinesLifecycle`
  (`JobRefinementProofs`), about the behaviours in which no EXEC is applied twice
  (`[](twice = {})`) and no worker misses the answer to its "complete"
  (`[][CompletionHeard]_vars`): `Accounting /\ PhaseMatchesStatus` is inductive
  along them, under it no step writes over a final status, and every step is a step
  of `JobLifecycle` or a stutter under the mapping `lifecycle` / `held`. Pops, the
  writes of "running" and "failed" and the removal may lose their replies or fail.
  The retries of the client (`redis_queue.py:33`, `:42`) can cause both, and the
  two conditions are what the program lacks: an EXEC sent twice queues a job twice
  and hands it to two workers, and a lost answer to "complete" turns it into
  "failed" (`worker.py:105` then `:113`).

Window (`GuiConsoleProofs`): `ConsoleTypeCorrect`, `OneLivePollerHolds`,
`PollerFollowsJobHolds` from one inductive invariant, which adds to the three
that the main thread, when it is about to start a poller, has stopped the last
one (`StartingHasNoPoller`). `DroppedWhenDoneHolds` needs that a final status on
its way, in a poller or in a signal, is the truth about its job
(`EndsAreReal`).

Pipeline (`ScriptPipelineProofs`): `PipelineTypeCorrect`;
`StagedCompleteHasVideoHolds`, for any number of workers on the same files, from
`StagedInv` (only a rendered video reaches the history, and the return after an
exception belongs to `main_generate()`). `IndexStaysInRangeHolds`,
`OwnMaterialHolds` and the three below assume a worker that shares its files with no other
(`Alone`), which leaves out workers scaled on one output directory, as
`docker-compose.yml` mounts it; TLC finds the second false for two workers on one directory (the
definitions are in `MCScriptPipeline`). The bound on the
index is not inductive: a rollback takes one away, so before it the slack must
be two. `IndexInv` follows the slack through a job: advancing the index gains
two, an advance that was lost cost a failure, and the stage that failed cost
another. That each failing stage did cost one (and did not miss an input)
needs `MaterialInv`, which says what lies in the files between the stages, and
from which `OwnMaterial` follows. `TakenBackHolds` follows the index from the line a job
takes to what the except clause writes back: it is one too far by then, and afterwards
where it was, unless a second thing failed during the same job (`BackInv`; `taken`
tells the failures of the job from those of earlier ones). `HistoryCompleteHolds` needs to
know which list names the videos while a new one is entered: the file, the copy in
memory, or the file and the line in hand (`LogInv`). `RoundRobinHolds` is the longest:
`TurnInv` compares the videos of any two lines with the index of the line that becomes a
video next (`Position`, which looks through a write under way and a rollback to
come). They differ by what the round under way explains (`Score`) and one for every
failure and crash, less one that is yet to take effect while the file does not
say what the job wrote (`Astray`, `Credit`).

Supervisor (`SupervisorProofs`), for all intervals, limits and numbers of runs:
`SupervisorTypeCorrect`, where the crash counters stay within one of the limit
because the loop ends or forgets the worker when it is passed (`Limits`).
`SoleWorkerHolds` needs `WorkerInv`: before `start_worker()` nothing is spawned
(`NothingYet`), and a run has a worker of its own beside strays only if a check
failed (`OwnWorker`). `LeftBehindHolds` is inductive with these. `RestartsSpacedHolds` and `ApiBackInTimeHolds` come from `Clocks`: what
the code remembers of the last restart agrees with the clock, and every place of
the loop has a bound on the seconds since the death of the API, made of the sleeps
up to the next look at it. The worker's backoff counts less than `BackoffMax`
towards it, because its last restart is a `MonitorInterval` ago (`WorkerWait`).

Timing (`SubtitleTimingProofs`), for all texts, limits, voices and all answers of
Whisper that are in order: `SubtitleTypeCorrect`, `ChunksTileTextHolds`,
`StampsInOrderHolds`, `LinesTileWordsHolds`, `VideoKeepsAudioHolds`, from one
inductive invariant with a part per loop: `SplitInv` (the chunk being filled
continues the last one and `next` the chunk), `StampInv` (the timestamps so far
are in order, end by `clock` and cover the words of the chunks so far), `LineInv`.
The lemmas they rest on say that equal shares follow one another
(`SharesInOrder`, by `DivBelow`), that appending timestamps that begin where
the others end keeps the order (`ConcatInOrder`), and that appending a piece
continues a tiling (`AppendTiles`).

Sums over data need an induction, which the library's theorems would take through an
operator. It is done here as a least counterexample: `LeastNat` and `LeastSubset` come
from well-founded relations, `SumExists` shows that the recursion behind
`SumFunctionOnSet` has a solution on every finite set, and `SumFacts` that it takes one
element after the other; `SumStretch`, `SumSame` and `SumGrows` are what the proofs use.
With them:

* `FewestChunksHolds`, for every text and limit. `Greedy` is inductive: the length of a
  chunk is that of its words, and the word behind it did not fit (`Full`). Then every
  other way to cut the text has a cut in each chunk but the last (`CutInChunk`), since
  a piece that began before and ended behind the chunk would be too long, and cuts in
  different chunks are different.
* `LagIsHoldsHolds`, if no time is rounded down (`Exact`: each duration divides by
  every number of words a chunk within the limit can have; the times of the code are
  floats, and whole ticks stand for them only then). `LagInv` gives the clock
  and the first timestamp of every chunk as the holds and durations before it (`Due`).
* `TimesAreNearestHolds` and `SweepKeepsUpHolds`, for all timestamps and tick lengths.
  `Written` says that a line is made of timestamps that are there; `RoundNear` that
  `RoundCs` is off by half a centisecond at most, `AssTimeNear` that the fields of a time
  add up to it, rounded, and `SweepBound` adds up the words of a line.

Worker process (`GpuWorkerProofs`): `GpuTypeCorrect`, `WhisperFreedHolds`,
`FailureIsLocatedHolds`, `ProgressNeverFallsHolds`. The state space is finite and TLC
sees all of it; the proofs say why. `HashFollows` ties the stage named in the hash to
the place of the process (`Located`: the stage it is at, or an earlier one if a write
was lost, with no more progress than that stage's), from which the last two follow.

Proved and not checked by a run of their own, as they are consequences of what the
runs check, or say less: `PhaseMatchesStatus` and `TerminalIsFinal` (behind
`ImplementsLifecycle`), `LinesTileWords` and `VideoKeepsAudio`.

Only model-checked: the liveness properties (`SettlesUnlessMoreCome`, `ButtonComesBack`,
`EndIsShown`, `DeadIsHandled`), which rest on fairness and are outside the prover's
reach, and the violated claims. Every invariant and every action property that a
passing run checks is also a theorem. Of these the five about a single worker's files
hold under `Alone`, `LagIsHolds` under `Exact`, and `ImplementsLifecycle` under the two
conditions on the behaviour named above; the others have no assumption but those of
the constants.

Several properties hold because they except a hazard the code does not avoid, and
bound or locate it instead: `DroppedWhenDone` (another job's late result),
`HistoryComplete` (a crash or error around a save), `LeftBehind` (Ctrl+C after a
restart), `DeadIsHandled` and `ApiBackInTime` (a GUI that keeps crashing),
`WhisperFreed` (an alignment that raised), `LagIsHolds` (the lag itself),
`Accounting` (an entry whose removal failed). `hazards` in `PROJECT.json` names no
property for these.

## 6. Not modelled

* `cleanup_job`, which nothing calls, and `GET /health`, which reads lengths for
  display. `api/` and `worker/worker.py` repeat the handlers and the loop; the models
  describe them up to the differences named in `PROJECT.json`.
* The window's health thread, voice choice and labels: they decide nothing about
  jobs.
* The bridged GUI: with the code as it is, none of its protocol can happen (section
  3), so that a model would have a single error path.
* Monitoring: it reads the store and nothing acts on what it reads. Its counts come
  from one command per list and hash and need not agree. `record_job` of the metrics
  is called by nothing, and telemetry keys a stage "tts" that the hash calls
  "voice".
* Configuration, logging, telemetry, widgets and views, launchers, maintenance
  scripts, GPU queries and the exposition format of the metrics: they keep no state
  that the rest depends on.
* The contents of media files and the quality of what Whisper hears; that its
  timestamps are in order is an assumption (`HearingsAssumption`).

## 7. Plan

Job system, pipeline, window, supervisor, worker process and timing are modelled and
checked, and their invariants and action properties proved. What is left:

1. Proofs: what the liveness arguments need beside fairness (that a failure leaves its
   job stranded, that the next look sees a dead child), as safety lemmas.
2. The window's health thread, if anything is made to depend on it.
3. The monitoring scan, if anything is made to depend on its counts.
