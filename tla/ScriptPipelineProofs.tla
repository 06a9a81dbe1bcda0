------------------------- MODULE ScriptPipelineProofs -------------------------
(* Theorems about the script pipeline, for every script, number of workers, jobs, *)
(* days, failures and crashes.                                                    *)
EXTENDS ScriptPipeline, TLAPS

LEMMA LineAtFacts == \A i \in Int : LineAt(i) \in Lines
BY LinesAssumption DEF LineAt, Lines

LEMMA FaultFacts ==
  ASSUME faults \in 0 .. MaxFaults, Fault
  PROVE  faults' \in 0 .. MaxFaults /\ faults' = faults + 1
BY PipelineBounds DEF Fault

-------------------------------------------------------------------------------
(* The ways a process record changes *)

Processes == [Workers -> Process]
Outcomes == {"none", "complete", "failed"}
Nexts == {"idle", "pick", "text", "no_text", "caught"}

LEMMA PCFacts ==
  /\ {"starting", "idle", "read", "pick", "text", "no_text", "voice", "concat", "align", "canvas", "fuse"} \subseteq PCs
  /\ {"load", "save", "saving", "write", "fill", "rollback", "caught"} \subseteq PCs
  /\ Nexts \subseteq PCs
BY DEF PCs, Outside, Stages, Logging, Nexts

LEMMA CountType ==
  ASSUME NEW S, NEW f \in [S -> Nat], NEW x
  PROVE  [f EXCEPT ![x] = @ + 1] \in [S -> Nat]
<1>1. CASE x \in S
  <2>1. f[x] + 1 \in Nat BY <1>1
  <2> QED BY <2>1
<1>2. CASE x \notin S BY <1>2
<1> QED BY <1>1, <1>2

LEMMA DownType == Down \in Process
BY PCFacts, PipelineBounds DEF Down, Process, Days

LEMMA RecordFacts ==
  ASSUME NEW p \in Process, NEW pc \in PCs
  PROVE  /\ \A d \in Days : [p EXCEPT !.pc = pc, !.day = d] \in Process
         /\ \A v \in BOOLEAN : [p EXCEPT !.pc = pc, !.video = v] \in Process
         /\ \A e \in SUBSET Int : [p EXCEPT !.pc = pc, !.entries = e] \in Process
         /\ \A i \in Int : [p EXCEPT !.pc = pc, !.index = i] \in Process
<1>1. \A d \in Days : [p EXCEPT !.pc = pc, !.day = d] \in Process BY DEF Process
<1>2. \A v \in BOOLEAN : [p EXCEPT !.pc = pc, !.video = v] \in Process BY DEF Process
<1>3. \A e \in SUBSET Int : [p EXCEPT !.pc = pc, !.entries = e] \in Process BY DEF Process
<1>4. \A i \in Int : [p EXCEPT !.pc = pc, !.index = i] \in Process BY DEF Process
<1> QED BY <1>1, <1>2, <1>3, <1>4

LEMMA TakenType ==
  ASSUME NEW p \in Process, NEW pc \in PCs, NEW outcome \in Outcomes
  PROVE  [p EXCEPT !.pc = pc, !.outcome = outcome, !.video = FALSE] \in Process
BY DEF Process, Outcomes

LEMMA WrapType ==
  ASSUME NEW p \in Process
  PROVE  [p EXCEPT !.pc = "write", !.put = 0, !.then = "pick", !.index = 0] \in Process
<1>1. "write" \in PCs /\ 0 \in Int BY PCFacts
<1> QED BY <1>1 DEF Process

LEMMA PickType ==
  ASSUME NEW p \in Process, NEW i \in Int, NEW l \in Lines, NEW next \in {"text", "no_text"}
  PROVE  [p EXCEPT !.pc = "write", !.put = i, !.line = l, !.then = next] \in Process
BY PCFacts DEF Process

LEMMA BecomeType ==
  ASSUME proc \in Processes, NEW w \in Workers, NEW p \in Process, Become(w, p)
  PROVE  /\ proc' \in Processes
         /\ proc'[w] = p
         /\ \A v \in Workers : v # w => proc'[v] = proc[v]
BY DEF Become, Processes

LEMMA GotoType ==
  ASSUME proc \in Processes, NEW w \in Workers, NEW pc \in PCs, Goto(w, pc)
  PROVE  proc' \in Processes
<1>1. [proc[w] EXCEPT !.pc = pc] \in Process BY DEF Processes, Process
<1> QED BY <1>1, BecomeType DEF Goto

LEMMA FinishType ==
  ASSUME proc \in Processes, NEW w \in Workers, NEW outcome \in Outcomes, Finish(w, outcome)
  PROVE  proc' \in Processes
<1>1. [proc[w] EXCEPT !.pc = "idle", !.outcome = outcome] \in Process
  BY PCFacts DEF Processes, Process, Outcomes
<1> QED BY <1>1, BecomeType DEF Finish

LEMMA WriteType ==
  ASSUME proc \in Processes, NEW w \in Workers, NEW i \in Int, NEW next \in Nexts, WriteProgress(w, i, next)
  PROVE  proc' \in Processes
<1>1. [proc[w] EXCEPT !.pc = "write", !.put = i, !.then = next] \in Process
  BY PCFacts DEF Processes, Process, Nexts
<1> QED BY <1>1, BecomeType DEF WriteProgress

LEMMA NoTextType ==
  ASSUME proc \in Processes, NEW w \in Workers, NoText(w)
  PROVE  proc' \in Processes
BY FinishType DEF NoText, Outcomes

LEMMA RaiseType ==
  ASSUME proc \in Processes, NEW w \in Workers, Raise(w)
  PROVE  proc' \in Processes
BY FinishType, GotoType, PCFacts DEF Raise, Outcomes

LEMMA ProcFacts ==
  ASSUME proc \in Processes, NEW w \in Workers
  PROVE  /\ proc[w].pc \in PCs /\ proc[w].then \in Nexts /\ proc[w].index \in Int /\ proc[w].put \in Int
         /\ proc[w].line \in Lines \cup {NoLine} /\ proc[w].day \in Days /\ proc[w].entries \in SUBSET Int
         /\ proc[w].staged \in BOOLEAN /\ proc[w].voice \in BOOLEAN /\ proc[w].video \in BOOLEAN
         /\ proc[w].outcome \in Outcomes
BY DEF Processes, Process, Nexts, Outcomes

-------------------------------------------------------------------------------
(* Types *)

LEMMA InitTypes == Init => TypeOK
<1> SUFFICES ASSUME Init PROVE TypeOK OBVIOUS
<1>1. proc \in [Workers -> Process] BY DownType DEF Init
<1>2. today \in Days /\ jobs \in 0 .. MaxJobs /\ faults \in 0 .. MaxFaults /\ crashes \in 0 .. MaxCrashes
  BY PipelineBounds DEF Init, Days
<1>3. progress \in [Homes -> Int] /\ history \in [Homes -> SUBSET Int] /\ made \in [Homes -> [Lines -> Nat]]
  BY DEF Init
<1>4. tmp \in Lines \cup {NoLine} /\ canvas \in BOOLEAN /\ wav \in [Days -> Lines \cup {NoLine}]
      /\ ass \in [Days -> Lines \cup {NoLine}]
  BY DEF Init
<1>5. /\ material \in [Workers -> SUBSET (Lines \cup {NoLine})] /\ unlogged \in SUBSET Homes
      /\ taken \in [Workers -> 0 .. MaxFaults]
  BY PipelineBounds DEF Init
<1> QED BY <1>1, <1>2, <1>3, <1>4, <1>5 DEF TypeOK

LEMMA ProcessTypes == ASSUME TypeOK, NEW w \in Workers, ProcessStep(w) PROVE TypeOK'
<1>0. proc \in Processes /\ proc[w] \in Process BY DEF TypeOK, Processes
<1>1. CASE Start(w)
  <2>1. proc' \in Processes
    <3>1. \A staged, voice \in BOOLEAN :
            [Down EXCEPT !.pc = "idle", !.staged = staged, !.voice = voice] \in Process
      BY DownType, PCFacts DEF Process
    <3> QED BY <1>0, <1>1, <3>1, BecomeType DEF Start
  <2>2. faults' \in 0 .. MaxFaults
    BY <1>1, FaultFacts DEF Start, TypeOK
  <2> QED
    BY <1>0, <1>1, <2>1, <2>2, ProcFacts, HomeAssumption
       DEF Start, TypeOK, Processes, files, seen
<1>2. CASE TakeJob(w)
  <2>1. proc' \in Processes
    <3> DEFINE p == [proc[w] EXCEPT !.pc = IF proc[w].voice THEN "read" ELSE "idle",
                                          !.outcome = IF proc[w].voice THEN "none" ELSE "complete",
                                          !.video = FALSE]
    <3>1. p \in Process
      BY <1>0, PCFacts, ProcFacts, RecordFacts, TakenType, HomeAssumption DEF TypeOK, Outcomes
    <3> QED BY <1>0, <1>2, <3>1, BecomeType DEF TakeJob
  <2>3. jobs' \in 0 .. MaxJobs /\ taken' \in [Workers -> 0 .. MaxFaults]
    BY <1>2, PipelineBounds DEF TakeJob, TypeOK
  <2> QED
    BY <1>0, <1>2, <2>1, <2>3, ProcFacts, HomeAssumption
       DEF TakeJob, TypeOK, Processes, files, seen
<1>3. CASE Crash(w)
  <2>1. proc' \in Processes
    BY <1>0, <1>3, PCFacts, DownType, BecomeType DEF Crash
  <2>3. crashes' \in 0 .. MaxCrashes /\ unlogged' \in SUBSET Homes
    BY <1>3, PipelineBounds, HomeAssumption DEF Crash, TypeOK
  <2> QED
    BY <1>0, <1>3, <2>1, <2>3, ProcFacts, HomeAssumption
       DEF Crash, TypeOK, Processes, files, seen
<1> QED BY <1>1, <1>2, <1>3 DEF ProcessStep

LEMMA ReaderTypes == ASSUME TypeOK, NEW w \in Workers, ReaderStep(w) PROVE TypeOK'
<1>0. proc \in Processes /\ proc[w] \in Process BY DEF TypeOK, Processes
<1>1. CASE ReadProgress(w)
  <2>1. proc' \in Processes
    <3> DEFINE i == progress[HomeOf[w]]
               p == [proc[w] EXCEPT !.pc = "pick", !.index = i]
               q == [proc[w] EXCEPT !.pc = "write", !.put = 0, !.then = "pick", !.index = 0]
    <3>1. i \in Int BY HomeAssumption DEF TypeOK
    <3>2. p \in Process /\ q \in Process BY <1>0, <3>1, PCFacts, RecordFacts, WrapType
    <3>3. Become(w, p) \/ Become(w, q) BY <1>1 DEF ReadProgress
    <3> QED BY <1>0, <3>2, <3>3, BecomeType
  <2> QED
    BY <1>0, <1>1, <2>1, ProcFacts, HomeAssumption
       DEF ReadProgress, TypeOK, Processes, files, seen
<1>2. CASE PickLine(w)
  <2>1. proc' \in Processes
    <3> DEFINE i == proc[w].index
               p(next) == [proc[w] EXCEPT !.pc = "write", !.put = i + 1, !.line = LineAt(i), !.then = next]
    <3>1. i \in Int /\ i + 1 \in Int /\ LineAt(i) \in Lines BY <1>0, ProcFacts, LineAtFacts
    <3>2. \A next \in {"text", "no_text"} : p(next) \in Process BY <1>0, <3>1, PickType
    <3>3. Finish(w, "failed") \/ \E next \in {"text", "no_text"} : Become(w, p(next))
      BY <1>2 DEF PickLine
    <3> QED BY <1>0, <3>2, <3>3, BecomeType, FinishType DEF Outcomes
  <2> QED
    BY <1>0, <1>2, <2>1, ProcFacts, HomeAssumption DEF PickLine, TypeOK, Processes, files, seen
<1>3. CASE InputFails(w)
  <2>1. proc' \in Processes
    BY <1>0, <1>3, PCFacts, NoTextType, FinishType DEF InputFails, Outcomes
  <2>2. faults' \in 0 .. MaxFaults
    BY <1>3, FaultFacts DEF InputFails, TypeOK
  <2> QED
    BY <1>0, <1>3, <2>1, <2>2, ProcFacts, HomeAssumption
       DEF InputFails, TypeOK, Processes, files, seen
<1>4. CASE Mute(w)
  <2>1. proc' \in Processes
    BY <1>0, <1>4, PCFacts, NoTextType DEF Mute
  <2> QED
    BY <1>0, <1>4, <2>1, ProcFacts, HomeAssumption DEF Mute, TypeOK, Processes, files, seen
<1>5. CASE ReadProgressFails(w)
  <2>1. proc' \in Processes
    <3>0. "pick" \in PCs /\ 0 \in Int BY PCFacts
    <3>1. [proc[w] EXCEPT !.pc = "pick", !.index = 0] \in Process BY <1>0, <3>0, RecordFacts
    <3> QED BY <1>0, <1>5, <3>1, BecomeType DEF ReadProgressFails
  <2>2. faults' \in 0 .. MaxFaults
    BY <1>5, FaultFacts DEF ReadProgressFails, TypeOK
  <2> QED
    BY <1>0, <1>5, <2>1, <2>2, ProcFacts, HomeAssumption
       DEF ReadProgressFails, TypeOK, Processes, files, seen
<1> QED BY <1>1, <1>2, <1>3, <1>4, <1>5 DEF ReaderStep

LEMMA ProgressTypes == ASSUME TypeOK, NEW w \in Workers, ProgressStep(w) PROVE TypeOK'
<1>0. proc \in Processes /\ proc[w] \in Process BY DEF TypeOK, Processes
<1>1. CASE EmptyProgress(w)
  <2>1. proc' \in Processes
    BY <1>0, <1>1, PCFacts, GotoType DEF EmptyProgress
  <2> QED
    BY <1>0, <1>1, <2>1, ProcFacts, HomeAssumption
       DEF EmptyProgress, TypeOK, Processes, files, seen
<1>2. CASE FillProgress(w)
  <2>1. proc' \in Processes
    BY <1>0, <1>2, PCFacts, GotoType, ProcFacts DEF FillProgress
  <2> QED
    BY <1>0, <1>2, <2>1, ProcFacts, HomeAssumption
       DEF FillProgress, TypeOK, Processes, files, seen
<1>3. CASE WriteFails(w)
  <2>1. proc' \in Processes
    BY <1>0, <1>3, PCFacts, GotoType, ProcFacts DEF WriteFails
  <2>2. faults' \in 0 .. MaxFaults
    BY <1>3, FaultFacts DEF WriteFails, TypeOK
  <2> QED
    BY <1>0, <1>3, <2>1, <2>2, ProcFacts, HomeAssumption
       DEF WriteFails, TypeOK, Processes, files, seen
<1>4. CASE RollBack(w)
  <2>1. proc' \in Processes
    BY <1>0, <1>4, PCFacts, WriteType, HomeAssumption DEF RollBack, TypeOK, Nexts
  <2> QED
    BY <1>0, <1>4, <2>1, ProcFacts, HomeAssumption DEF RollBack, TypeOK, Processes, files, seen
<1>5. CASE ReturnCaught(w)
  <2>1. proc' \in Processes
    BY <1>0, <1>5, PCFacts, FinishType DEF ReturnCaught, Outcomes
  <2> QED
    BY <1>0, <1>5, <2>1, ProcFacts, HomeAssumption
       DEF ReturnCaught, TypeOK, Processes, files, seen
<1>6. CASE RollBackFails(w)
  <2>1. proc' \in Processes
    BY <1>0, <1>6, PCFacts, WriteType DEF RollBackFails, Nexts
  <2>2. faults' \in 0 .. MaxFaults
    BY <1>6, FaultFacts DEF RollBackFails, TypeOK
  <2> QED
    BY <1>0, <1>6, <2>1, <2>2, ProcFacts, HomeAssumption
       DEF RollBackFails, TypeOK, Processes, files, seen
<1> QED BY <1>1, <1>2, <1>3, <1>4, <1>5, <1>6 DEF ProgressStep

LEMMA StageTypes == ASSUME TypeOK, NEW w \in Workers, StageStep(w) PROVE TypeOK'
<1>0. proc \in Processes /\ proc[w] \in Process BY DEF TypeOK, Processes
<1>1. CASE WriteText(w)
  <2>1. proc' \in Processes
    <3> DEFINE p == [proc[w] EXCEPT !.pc = "voice", !.day = today]
    <3>1. p \in Process
      BY <1>0, PCFacts, ProcFacts, RecordFacts, TakenType, HomeAssumption DEF TypeOK, Outcomes
    <3> QED BY <1>0, <1>1, <3>1, BecomeType DEF WriteText
  <2> QED
    BY <1>0, <1>1, <2>1, ProcFacts, HomeAssumption DEF WriteText, TypeOK, Processes, files, seen
<1>2. CASE TextFails(w)
  <2>1. proc' \in Processes
    BY <1>0, <1>2, PCFacts, FinishType DEF TextFails, Outcomes
  <2>2. faults' \in 0 .. MaxFaults
    BY <1>2, FaultFacts DEF TextFails, TypeOK
  <2> QED
    BY <1>0, <1>2, <2>1, <2>2, ProcFacts, HomeAssumption
       DEF TextFails, TypeOK, Processes, files, seen
<1>3. CASE Synthesize(w)
  <2>1. proc' \in Processes
    BY <1>0, <1>3, PCFacts, GotoType DEF Synthesize
  <2> QED
    BY <1>0, <1>3, <2>1, ProcFacts, HomeAssumption
       DEF Synthesize, TypeOK, Processes, files, seen
<1>4. CASE Concat(w)
  <2>1. proc' \in Processes
    BY <1>0, <1>4, PCFacts, GotoType DEF Concat
  <2> QED
    BY <1>0, <1>4, <2>1, ProcFacts, HomeAssumption DEF Concat, TypeOK, Processes, files, seen
<1>5. CASE Subtitle(w)
  <2>1. proc' \in Processes
    BY <1>0, <1>5, PCFacts, GotoType DEF Subtitle
  <2> QED
    BY <1>0, <1>5, <2>1, ProcFacts, HomeAssumption DEF Subtitle, TypeOK, Processes, files, seen
<1>6. CASE DrawCanvas(w)
  <2>1. proc' \in Processes
    BY <1>0, <1>6, PCFacts, GotoType DEF DrawCanvas
  <2> QED
    BY <1>0, <1>6, <2>1, ProcFacts, HomeAssumption
       DEF DrawCanvas, TypeOK, Processes, files, seen
<1>7. CASE Fuse(w)
  <2>1. proc' \in Processes
    <3> DEFINE p == [proc[w] EXCEPT !.pc = "load", !.video = TRUE]
    <3>1. p \in Process
      BY <1>0, PCFacts, ProcFacts, RecordFacts, TakenType, HomeAssumption DEF TypeOK, Outcomes
    <3> QED BY <1>0, <1>7, <3>1, BecomeType DEF Fuse
  <2>3. made' \in [Homes -> [Lines -> Nat]] /\ material' \in [Workers -> SUBSET (Lines \cup {NoLine})]
    <3>1. [made[HomeOf[w]] EXCEPT ![proc[w].line] = @ + 1] \in [Lines -> Nat]
      <4>1. made[HomeOf[w]] \in [Lines -> Nat] BY HomeAssumption DEF TypeOK
      <4> QED BY <4>1, CountType
    <3>2. made' = [made EXCEPT ![HomeOf[w]] = [made[HomeOf[w]] EXCEPT ![proc[w].line] = @ + 1]]
      BY <1>7 DEF Fuse
    <3>3. made' \in [Homes -> [Lines -> Nat]] BY <3>1, <3>2 DEF TypeOK
    <3>4. {wav[proc[w].day], ass[proc[w].day]} \in SUBSET (Lines \cup {NoLine})
      BY <1>0, ProcFacts DEF TypeOK
    <3> QED BY <1>7, <3>3, <3>4 DEF Fuse, TypeOK
  <2> QED
    BY <1>0, <1>7, <2>1, <2>3, ProcFacts, HomeAssumption
       DEF Fuse, TypeOK, Processes, files, seen
<1>8. CASE StageFails(w)
  <2>1. proc' \in Processes
    BY <1>0, <1>8, PCFacts, RaiseType DEF StageFails
  <2>2. faults' \in 0 .. MaxFaults
    BY <1>8, FaultFacts DEF StageFails, TypeOK
  <2>3. tmp' \in Lines \cup {NoLine} /\ canvas' \in BOOLEAN /\ wav' \in [Days -> Lines \cup {NoLine}]
         /\ ass' \in [Days -> Lines \cup {NoLine}]
    BY <1>8, <1>0, ProcFacts DEF StageFails, TypeOK, At
  <2> QED
    BY <1>0, <1>8, <2>1, <2>2, <2>3, ProcFacts, HomeAssumption
       DEF StageFails, TypeOK, Processes, files, seen
<1> QED BY <1>1, <1>2, <1>3, <1>4, <1>5, <1>6, <1>7, <1>8 DEF StageStep

LEMMA HistoryTypes == ASSUME TypeOK, NEW w \in Workers, HistoryStep(w) PROVE TypeOK'
<1>0. proc \in Processes /\ proc[w] \in Process BY DEF TypeOK, Processes
<1>1. CASE LoadHistory(w)
  <2>1. proc' \in Processes
    <3> DEFINE p == [proc[w] EXCEPT !.pc = "save", !.entries = history[HomeOf[w]] \cup {proc[w].index + 1}]
    <3>0. history[HomeOf[w]] \cup {proc[w].index + 1} \in SUBSET Int
      BY <1>0, ProcFacts, HomeAssumption DEF TypeOK
    <3>1. p \in Process
      BY <1>0, <3>0, PCFacts, ProcFacts, RecordFacts, TakenType, HomeAssumption
         DEF TypeOK, Outcomes
    <3> QED BY <1>0, <1>1, <3>1, BecomeType DEF LoadHistory
  <2> QED
    BY <1>0, <1>1, <2>1, ProcFacts, HomeAssumption
       DEF LoadHistory, TypeOK, Processes, files, seen
<1>2. CASE LoadFails(w)
  <2>1. proc' \in Processes
    <3> DEFINE p == [proc[w] EXCEPT !.pc = "save", !.entries = {proc[w].index + 1}]
    <3>0. {proc[w].index + 1} \in SUBSET Int BY <1>0, ProcFacts
    <3>1. p \in Process
      BY <1>0, <3>0, PCFacts, ProcFacts, RecordFacts, TakenType, HomeAssumption
         DEF TypeOK, Outcomes
    <3> QED BY <1>0, <1>2, <3>1, BecomeType DEF LoadFails
  <2>2. faults' \in 0 .. MaxFaults
    BY <1>2, FaultFacts DEF LoadFails, TypeOK
  <2> QED
    BY <1>0, <1>2, <2>1, <2>2, ProcFacts, HomeAssumption
       DEF LoadFails, TypeOK, Processes, files, seen
<1>3. CASE EmptyHistory(w)
  <2>1. proc' \in Processes
    BY <1>0, <1>3, PCFacts, GotoType DEF EmptyHistory
  <2> QED
    BY <1>0, <1>3, <2>1, ProcFacts, HomeAssumption
       DEF EmptyHistory, TypeOK, Processes, files, seen
<1>4. CASE FillHistory(w)
  <2>1. proc' \in Processes
    BY <1>0, <1>4, PCFacts, FinishType DEF FillHistory, Outcomes
  <2> QED
    BY <1>0, <1>4, <2>1, ProcFacts, HomeAssumption
       DEF FillHistory, TypeOK, Processes, files, seen
<1>5. CASE SaveFails(w)
  <2>1. proc' \in Processes
    BY <1>0, <1>5, PCFacts, RaiseType DEF SaveFails
  <2>2. faults' \in 0 .. MaxFaults
    BY <1>5, FaultFacts DEF SaveFails, TypeOK
  <2> QED
    BY <1>0, <1>5, <2>1, <2>2, ProcFacts, HomeAssumption
       DEF SaveFails, TypeOK, Processes, files, seen
<1> QED BY <1>1, <1>2, <1>3, <1>4, <1>5 DEF HistoryStep

LEMMA NextTypes == TypeOK /\ [Next]_vars => TypeOK'
<1> SUFFICES ASSUME TypeOK, [Next]_vars PROVE TypeOK' OBVIOUS
<1>1. CASE Midnight BY <1>1, PipelineBounds DEF Midnight, TypeOK, Days, files, seen
<1>2. CASE UNCHANGED vars BY <1>2 DEF TypeOK, vars, files, seen
<1> QED
  BY <1>1, <1>2, ProcessTypes, ReaderTypes, ProgressTypes, StageTypes, HistoryTypes DEF Next

(* Files, processes and counters of Shortz.py keep their types. *)
THEOREM PipelineTypeCorrect == Spec => []TypeOK
<1>1. Init => TypeOK BY InitTypes
<1>2. TypeOK /\ [Next]_vars => TypeOK' BY NextTypes
<1> QED BY <1>1, <1>2, PTL DEF Spec
-------------------------------------------------------------------------------
(* A staged job that is complete has its video: only a rendered video reaches the *)
(* history, and the normal return after an exception is main_generate()'s alone.  *)

Writing(p, next) == p.pc \in {"write", "fill"} /\ p.then = next

StagedOK(p) ==
  /\ p.staged => p.voice
  /\ p.pc \in Logging => p.video
  /\ p.pc \in {"rollback", "caught"} \/ Writing(p, "caught") => ~p.staged
  /\ p.staged /\ p.outcome = "complete" => p.video

StagedInv == \A w \in Workers : StagedOK(proc[w])

LEMMA InitStaged == Init => StagedInv
<1>1. StagedOK(Down) BY DEF StagedOK, Writing, Down, Logging
<1>2. ASSUME Init PROVE StagedInv
  <2>1. \A w \in Workers : proc[w] = Down BY <1>2 DEF Init
  <2> QED BY <1>1, <2>1 DEF StagedInv
<1> QED BY <1>2

LEMMA FailStaged ==
  ASSUME proc \in [Workers -> Process], StagedInv, NEW w \in Workers, NoText(w) \/ Finish(w, "failed")
  PROVE  StagedInv'
<1>1. CASE Finish(w, "failed")
  BY <1>1 DEF Finish, Become, StagedInv, StagedOK, Writing, Process, Logging
<1>2. CASE NoText(w) /\ ~proc[w].staged
  BY <1>2 DEF NoText, Finish, Become, StagedInv, StagedOK, Writing, Process, Logging
<1> QED BY <1>1, <1>2 DEF NoText

LEMMA RaiseStaged ==
  ASSUME proc \in [Workers -> Process], StagedInv, NEW w \in Workers, Raise(w)
  PROVE  StagedInv'
<1>1. CASE proc[w].staged
  BY <1>1, FailStaged DEF Raise
<1>2. CASE ~proc[w].staged
  BY <1>2 DEF Raise, Goto, Become, StagedInv, StagedOK, Writing, Process, Logging
<1> QED BY <1>1, <1>2

LEMMA ProcessStaged == ASSUME TypeOK, StagedInv, NEW w \in Workers, ProcessStep(w) PROVE StagedInv'
<1>0. proc \in [Workers -> Process] BY DEF TypeOK
<1>1. CASE Start(w)
  BY <1>0, <1>1 DEF Start, StagedInv, StagedOK, Writing, Process, Logging, At, Become, Down
<1>2. CASE TakeJob(w)
  BY <1>0, <1>2 DEF TakeJob, StagedInv, StagedOK, Writing, Process, Logging, At, Become
<1>3. CASE Crash(w)
  BY <1>0, <1>3 DEF Crash, StagedInv, StagedOK, Writing, Process, Logging, At, Become, Down
<1> QED BY <1>1, <1>2, <1>3 DEF ProcessStep

LEMMA ReaderStaged == ASSUME TypeOK, StagedInv, NEW w \in Workers, ReaderStep(w) PROVE StagedInv'
<1>0. proc \in [Workers -> Process] BY DEF TypeOK
<1>1. CASE ReadProgress(w)
  <2> DEFINE i == progress[HomeOf[w]]
  <2>1. CASE Become(w, [proc[w] EXCEPT !.pc = "pick", !.index = i])
    BY <1>0, <2>1 DEF StagedInv, StagedOK, Writing, Process, Logging, Become
  <2>2. CASE Become(w, [proc[w] EXCEPT !.pc = "write", !.put = 0, !.then = "pick", !.index = 0])
    BY <1>0, <2>2 DEF StagedInv, StagedOK, Writing, Process, Logging, Become
  <2> QED BY <1>1, <2>1, <2>2 DEF ReadProgress
<1>2. CASE PickLine(w)
  <2> DEFINE p(next) == [proc[w] EXCEPT !.pc = "write", !.put = proc[w].index + 1,
                                        !.line = LineAt(proc[w].index), !.then = next]
  <2>1. ASSUME NEW next \in {"text", "no_text"}, Become(w, p(next)) PROVE StagedInv'
    BY <1>0, <2>1 DEF StagedInv, StagedOK, Writing, Process, Logging, Become
  <2> QED BY <1>0, <1>2, <2>1, FailStaged DEF PickLine
<1>3. CASE InputFails(w) BY <1>0, <1>3, FailStaged DEF InputFails
<1>4. CASE Mute(w)
  BY <1>0, <1>4
     DEF Mute, StagedInv, StagedOK, Writing, Process, Logging, At, Become, NoText, Finish
<1>5. CASE ReadProgressFails(w)
  BY <1>0, <1>5
     DEF ReadProgressFails, StagedInv, StagedOK, Writing, Process, Logging, At, Become
<1> QED BY <1>1, <1>2, <1>3, <1>4, <1>5 DEF ReaderStep

LEMMA ProgressStaged == ASSUME TypeOK, StagedInv, NEW w \in Workers, ProgressStep(w) PROVE StagedInv'
<1>0. proc \in [Workers -> Process] BY DEF TypeOK
<1>1. CASE EmptyProgress(w)
  BY <1>0, <1>1
     DEF EmptyProgress, StagedInv, StagedOK, Writing, Process, Logging, At, Become, Goto
<1>2. CASE FillProgress(w)
  BY <1>0, <1>2
     DEF FillProgress, StagedInv, StagedOK, Writing, Process, Logging, At, Become, Goto
<1>3. CASE WriteFails(w)
  BY <1>0, <1>3 DEF WriteFails, StagedInv, StagedOK, Writing, Process, Logging, At, Become, Goto
<1>4. CASE RollBack(w)
  BY <1>0, <1>4
     DEF RollBack, StagedInv, StagedOK, Writing, Process, Logging, At, Become, WriteProgress
<1>5. CASE ReturnCaught(w)
  BY <1>0, <1>5
     DEF ReturnCaught, StagedInv, StagedOK, Writing, Process, Logging, At, Become, Finish
<1>6. CASE RollBackFails(w)
  BY <1>0, <1>6
     DEF RollBackFails, StagedInv, StagedOK, Writing, Process, Logging, At, Become, WriteProgress
<1> QED BY <1>1, <1>2, <1>3, <1>4, <1>5, <1>6 DEF ProgressStep

LEMMA StageStaged == ASSUME TypeOK, StagedInv, NEW w \in Workers, StageStep(w) PROVE StagedInv'
<1>0. proc \in [Workers -> Process] BY DEF TypeOK
<1>1. CASE WriteText(w)
  BY <1>0, <1>1 DEF WriteText, StagedInv, StagedOK, Writing, Process, Logging, At, Become
<1>2. CASE TextFails(w)
  BY <1>0, <1>2
     DEF TextFails, StagedInv, StagedOK, Writing, Process, Logging, At, Become, Finish
<1>3. CASE Synthesize(w)
  BY <1>0, <1>3 DEF Synthesize, StagedInv, StagedOK, Writing, Process, Logging, At, Become, Goto
<1>4. CASE Concat(w)
  BY <1>0, <1>4 DEF Concat, StagedInv, StagedOK, Writing, Process, Logging, At, Become, Goto
<1>5. CASE Subtitle(w)
  BY <1>0, <1>5 DEF Subtitle, StagedInv, StagedOK, Writing, Process, Logging, At, Become, Goto
<1>6. CASE DrawCanvas(w)
  BY <1>0, <1>6 DEF DrawCanvas, StagedInv, StagedOK, Writing, Process, Logging, At, Become, Goto
<1>7. CASE Fuse(w)
  BY <1>0, <1>7 DEF Fuse, StagedInv, StagedOK, Writing, Process, Logging, At, Become
<1>8. CASE StageFails(w) BY <1>0, <1>8, RaiseStaged DEF StageFails
<1> QED BY <1>1, <1>2, <1>3, <1>4, <1>5, <1>6, <1>7, <1>8 DEF StageStep

LEMMA HistoryStaged == ASSUME TypeOK, StagedInv, NEW w \in Workers, HistoryStep(w) PROVE StagedInv'
<1>0. proc \in [Workers -> Process] BY DEF TypeOK
<1>1. CASE LoadHistory(w)
  BY <1>0, <1>1 DEF LoadHistory, StagedInv, StagedOK, Writing, Process, Logging, At, Become
<1>2. CASE LoadFails(w)
  BY <1>0, <1>2 DEF LoadFails, StagedInv, StagedOK, Writing, Process, Logging, At, Become
<1>3. CASE EmptyHistory(w)
  BY <1>0, <1>3
     DEF EmptyHistory, StagedInv, StagedOK, Writing, Process, Logging, At, Become, Goto
<1>4. CASE FillHistory(w)
  BY <1>0, <1>4
     DEF FillHistory, StagedInv, StagedOK, Writing, Process, Logging, At, Become, Finish
<1>5. CASE SaveFails(w) BY <1>0, <1>5, RaiseStaged DEF SaveFails
<1> QED BY <1>1, <1>2, <1>3, <1>4, <1>5 DEF HistoryStep

LEMMA NextStaged == TypeOK /\ StagedInv /\ [Next]_vars => StagedInv'
<1> SUFFICES ASSUME TypeOK, StagedInv, [Next]_vars PROVE StagedInv' OBVIOUS
<1>1. CASE Midnight \/ UNCHANGED vars BY <1>1 DEF Midnight, StagedInv, vars
<1> QED
  BY <1>1, ProcessStaged, ReaderStaged, ProgressStaged, StageStaged, HistoryStaged DEF Next

(* pipeline_runner.py:46: any stage failure propagates to the caller, so a staged job *)
(* that counts as complete has its video, also beside other workers.                  *)
THEOREM StagedCompleteHasVideoHolds == Spec => []StagedCompleteHasVideo
<1>1. Init => TypeOK /\ StagedInv BY InitTypes, InitStaged
<1>2. TypeOK /\ StagedInv /\ [Next]_vars => (TypeOK /\ StagedInv)' BY NextTypes, NextStaged
<1>3. StagedInv => StagedCompleteHasVideo BY DEF StagedInv, StagedOK, StagedCompleteHasVideo
<1> QED BY <1>1, <1>2, <1>3, PTL DEF Spec
-------------------------------------------------------------------------------
(* A worker that shares its files with no other *)

Alone == \A v, w \in Workers : v = w

(* How far below 0 the index is about to be, and what the failures so far allow. *)
IndexOK(w) ==
  LET p == proc[w]
      i == progress[HomeOf[w]]
  IN
  /\ p.pc = "pick" => 2 * p.index + faults >= 0
  /\ p.pc \in {"text"} \cup Stages \cup Logging => 2 * i + faults >= 1
  /\ p.pc = "rollback" => 2 * i + faults >= 2 /\ faults >= 1
  /\ Writing(p, "pick") => p.put = 0 /\ p.index = 0
  /\ Writing(p, "text") \/ Writing(p, "no_text") => 2 * p.put + faults >= 2
  /\ Writing(p, "caught") => 2 * p.put + faults >= 0
  /\ ~Writing(p, "idle")

(* What lies in the files between the stages. *)
MaterialOK(w) ==
  LET p == proc[w] IN
  /\ p.pc = "concat" => tmp = p.line
  /\ p.pc \in {"align", "canvas", "fuse"} => wav[p.day] = p.line
  /\ p.pc \in {"canvas", "fuse"} => ass[p.day] = p.line
  /\ p.pc = "fuse" => canvas
  /\ p.pc \in {"text"} \cup Stages \/ Writing(p, "text") => p.line \in Lines
  /\ p.pc \in {"read", "pick", "text", "no_text"} \cup Stages => ~p.video
  /\ Writing(p, "pick") \/ Writing(p, "text") \/ Writing(p, "no_text") => ~p.video
  /\ p.video => material[w] = {p.line}

IndexInv == IndexStaysInRange /\ \A w \in Workers : IndexOK(w)
MaterialInv == \A w \in Workers : MaterialOK(w)

LEMMA NoLineFacts == NoLine \notin Lines
BY DEF NoLine, Lines

LEMMA InitAlone == Init => IndexInv /\ MaterialInv
<1> SUFFICES ASSUME Init PROVE IndexInv /\ MaterialInv OBVIOUS
<1>1. faults = 0 /\ \A h \in Homes : progress[h] = 0 BY DEF Init
<1>2. ASSUME NEW w \in Workers
      PROVE  proc[w].pc = "starting" /\ proc[w].video = FALSE
  BY DEF Init, Down
<1>3. IndexStaysInRange BY <1>1 DEF IndexStaysInRange
<1>4. \A w \in Workers : IndexOK(w)
  BY <1>2 DEF IndexOK, Writing, Stages, Logging
<1>5. \A w \in Workers : MaterialOK(w)
  BY <1>2 DEF MaterialOK, Writing, Stages
<1> QED BY <1>3, <1>4, <1>5 DEF IndexInv, MaterialInv

LEMMA ProcessIndex ==
  ASSUME Alone, TypeOK, IndexInv, MaterialInv, NEW w \in Workers, ProcessStep(w)
  PROVE  IndexInv'
<1>0. proc \in [Workers -> Process] /\ progress \in [Homes -> Int] /\ faults \in Nat /\ HomeOf[w] \in Homes
  BY HomeAssumption, PipelineBounds DEF TypeOK
<1>00. IndexOK(w) /\ MaterialOK(w) /\ IndexStaysInRange BY DEF IndexInv, MaterialInv
<1> SUFFICES IndexOK(w)' /\ IndexStaysInRange' BY DEF Alone, IndexInv
<1>1. CASE Start(w)
  BY <1>0, <1>00, <1>1
     DEF Start, IndexStaysInRange, IndexOK, MaterialOK, Writing, Process, Stages, Logging, At,
         Become, Fault, files, Down
<1>2. CASE TakeJob(w)
  BY <1>0, <1>00, <1>2
     DEF TakeJob, IndexStaysInRange, IndexOK, MaterialOK, Writing, Process, Stages, Logging,
         At, Become, Fault, files
<1>3. CASE Crash(w)
  BY <1>0, <1>00, <1>3
     DEF Crash, IndexStaysInRange, IndexOK, MaterialOK, Writing, Process, Stages, Logging, At,
         Become, Fault, files, Down
<1> QED BY <1>1, <1>2, <1>3 DEF ProcessStep

LEMMA ProcessMaterial ==
  ASSUME Alone, TypeOK, MaterialInv, NEW w \in Workers, ProcessStep(w)
  PROVE  MaterialInv'
<1>0. proc \in [Workers -> Process] /\ wav \in [Days -> Lines \cup {NoLine}] /\ ass \in [Days -> Lines \cup {NoLine}]
      /\ material \in [Workers -> SUBSET (Lines \cup {NoLine})] /\ proc[w].day \in Days
  BY DEF TypeOK, Process
<1>00. MaterialOK(w) BY DEF MaterialInv
<1> SUFFICES MaterialOK(w)' BY DEF Alone, MaterialInv
<1>1. CASE Start(w)
  BY <1>0, <1>00, <1>1
     DEF Start, MaterialOK, Writing, Process, Stages, At, Become, files, seen, Down
<1>2. CASE TakeJob(w)
  BY <1>0, <1>00, <1>2
     DEF TakeJob, MaterialOK, Writing, Process, Stages, At, Become, files, seen
<1>3. CASE Crash(w)
  BY <1>0, <1>00, <1>3
     DEF Crash, MaterialOK, Writing, Process, Stages, At, Become, files, seen, Down
<1> QED BY <1>1, <1>2, <1>3 DEF ProcessStep

LEMMA ReaderIndex ==
  ASSUME Alone, TypeOK, IndexInv, MaterialInv, NEW w \in Workers, ReaderStep(w)
  PROVE  IndexInv'
<1>0. proc \in [Workers -> Process] /\ progress \in [Homes -> Int] /\ faults \in Nat /\ HomeOf[w] \in Homes
  BY HomeAssumption, PipelineBounds DEF TypeOK
<1>00. IndexOK(w) /\ MaterialOK(w) /\ IndexStaysInRange BY DEF IndexInv, MaterialInv
<1> SUFFICES IndexOK(w)' /\ IndexStaysInRange' BY DEF Alone, IndexInv
<1>1. CASE ReadProgress(w)
  <2> DEFINE i == progress[HomeOf[w]]
  <2>1. CASE 2 * i < NumLines
    <3>1. Become(w, [proc[w] EXCEPT !.pc = "pick", !.index = i])
      BY <1>1, <2>1, LinesAssumption, <1>0 DEF ReadProgress
    <3> QED
      BY <1>0, <1>00, <1>1, <3>1
         DEF ReadProgress, At, IndexStaysInRange, IndexOK, Writing, Process, Stages, Logging,
             Become, files
  <2>2. CASE 2 * i >= NumLines
    <3>1. Become(w, [proc[w] EXCEPT !.pc = "write", !.put = 0, !.then = "pick", !.index = 0])
      BY <1>1, <2>2, LinesAssumption, <1>0 DEF ReadProgress
    <3> QED
      BY <1>0, <1>00, <1>1, <3>1
         DEF ReadProgress, At, IndexStaysInRange, IndexOK, Writing, Process, Stages, Logging,
             Become, files
  <2> QED BY <1>0, <2>1, <2>2, LinesAssumption
<1>2. CASE PickLine(w)
  <2> DEFINE p(next) == [proc[w] EXCEPT !.pc = "write", !.put = proc[w].index + 1,
                                        !.line = LineAt(proc[w].index), !.then = next]
  <2>1. ASSUME NEW next \in {"text", "no_text"}, Become(w, p(next)) PROVE IndexOK(w)' /\ IndexStaysInRange'
    <3>1. LineAt(proc[w].index) \in Lines BY <1>0, LineAtFacts DEF Process
    <3> QED
      BY <1>0, <1>00, <1>2, <2>1, <3>1
         DEF PickLine, At, IndexStaysInRange, IndexOK, Writing, Process, Stages, Logging,
             Become, files
  <2>2. ASSUME Finish(w, "failed") PROVE IndexOK(w)' /\ IndexStaysInRange'
    BY <1>0, <1>00, <1>2, <2>2
       DEF PickLine, At, Finish, IndexStaysInRange, IndexOK, Writing, Process, Stages,
           Logging, Become, files
  <2> QED BY <1>2, <2>1, <2>2 DEF PickLine
<1>3. CASE InputFails(w)
  <2>0. faults' = faults + 1
    BY <1>3 DEF InputFails, Fault
  <2>1. ASSUME NEW outcome, Finish(w, outcome) PROVE IndexOK(w)' /\ IndexStaysInRange'
    BY <1>0, <1>00, <1>3, <2>0, <2>1
       DEF InputFails, At, Finish, IndexStaysInRange, IndexOK, Writing, Process, Stages,
           Logging, Become, files
  <2> QED BY <1>3, <2>1 DEF InputFails, NoText
<1>4. CASE Mute(w)
  BY <1>0, <1>00, <1>4
     DEF Mute, IndexStaysInRange, IndexOK, MaterialOK, Writing, Process, Stages, Logging, At,
         Become, Fault, files, NoText, Finish
<1>5. CASE ReadProgressFails(w)
  BY <1>0, <1>00, <1>5
     DEF ReadProgressFails, IndexStaysInRange, IndexOK, Writing, Process, Stages, Logging, At,
         Become, Fault, files
<1> QED BY <1>1, <1>2, <1>3, <1>4, <1>5 DEF ReaderStep

LEMMA ReaderMaterial ==
  ASSUME Alone, TypeOK, MaterialInv, NEW w \in Workers, ReaderStep(w)
  PROVE  MaterialInv'
<1>0. proc \in [Workers -> Process] /\ wav \in [Days -> Lines \cup {NoLine}] /\ ass \in [Days -> Lines \cup {NoLine}]
      /\ material \in [Workers -> SUBSET (Lines \cup {NoLine})] /\ proc[w].day \in Days
  BY DEF TypeOK, Process
<1>00. MaterialOK(w) BY DEF MaterialInv
<1> SUFFICES MaterialOK(w)' BY DEF Alone, MaterialInv
<1>1. CASE ReadProgress(w)
  <2> DEFINE i == progress[HomeOf[w]]
  <2>0. proc[w].pc = "read" /\ UNCHANGED << tmp, wav, ass, canvas, material >>
    BY <1>1 DEF ReadProgress, At, files, seen
  <2>00. ~proc[w].video BY <1>00, <2>0 DEF MaterialOK
  <2>1. CASE Become(w, [proc[w] EXCEPT !.pc = "pick", !.index = i])
    BY <1>0, <1>00, <2>0, <2>1 DEF MaterialOK, Writing, Process, Stages, Become, files, seen
  <2>2. CASE Become(w, [proc[w] EXCEPT !.pc = "write", !.put = 0, !.then = "pick", !.index = 0])
    <3>1. proc'[w].pc = "write" /\ proc'[w].then = "pick" /\ proc'[w].video = FALSE
      BY <1>0, <2>00, <2>2 DEF Become, Process
    <3> QED BY <3>1 DEF MaterialOK, Writing, Stages
  <2> QED BY <1>1, <2>1, <2>2 DEF ReadProgress
<1>2. CASE PickLine(w)
  <2> DEFINE p(next) == [proc[w] EXCEPT !.pc = "write", !.put = proc[w].index + 1,
                                        !.line = LineAt(proc[w].index), !.then = next]
  <2>1. ASSUME NEW next \in {"text", "no_text"}, Become(w, p(next)) PROVE MaterialOK(w)'
    <3>1. LineAt(proc[w].index) \in Lines BY <1>0, LineAtFacts DEF Process
    <3> QED
      BY <1>0, <1>00, <1>2, <2>1, <3>1
         DEF PickLine, At, MaterialOK, Writing, Process, Stages, Become, files, seen
  <2>2. ASSUME Finish(w, "failed") PROVE MaterialOK(w)'
    BY <1>0, <1>00, <1>2, <2>2
       DEF PickLine, At, Finish, MaterialOK, Writing, Process, Stages, Become, files, seen
  <2> QED BY <1>2, <2>1, <2>2 DEF PickLine
<1>3. CASE InputFails(w)
  <2>1. ASSUME NEW outcome, Finish(w, outcome) PROVE MaterialOK(w)'
    BY <1>0, <1>00, <1>3, <2>1
       DEF InputFails, At, Finish, MaterialOK, Writing, Process, Stages, Become, files, seen
  <2> QED BY <1>3, <2>1 DEF InputFails, NoText
<1>4. CASE Mute(w)
  BY <1>0, <1>00, <1>4
     DEF Mute, MaterialOK, Writing, Process, Stages, At, Become, files, seen, NoText, Finish
<1>5. CASE ReadProgressFails(w)
  BY <1>0, <1>00, <1>5
     DEF ReadProgressFails, MaterialOK, Writing, Process, Stages, At, Become, files, seen
<1> QED BY <1>1, <1>2, <1>3, <1>4, <1>5 DEF ReaderStep

LEMMA ProgressIndex ==
  ASSUME Alone, TypeOK, IndexInv, MaterialInv, NEW w \in Workers, ProgressStep(w)
  PROVE  IndexInv'
<1>0. proc \in [Workers -> Process] /\ progress \in [Homes -> Int] /\ faults \in Nat /\ HomeOf[w] \in Homes
  BY HomeAssumption, PipelineBounds DEF TypeOK
<1>00. IndexOK(w) /\ MaterialOK(w) /\ IndexStaysInRange BY DEF IndexInv, MaterialInv
<1> SUFFICES IndexOK(w)' /\ IndexStaysInRange' BY DEF Alone, IndexInv
<1>1. CASE EmptyProgress(w)
  BY <1>0, <1>00, <1>1
     DEF EmptyProgress, IndexStaysInRange, IndexOK, MaterialOK, Writing, Process, Stages,
         Logging, At, Become, Fault, files, Goto
<1>2. CASE FillProgress(w)
  BY <1>0, <1>00, <1>2
     DEF FillProgress, IndexStaysInRange, IndexOK, MaterialOK, Writing, Process, Stages,
         Logging, At, Become, Fault, files, Goto
<1>3. CASE WriteFails(w)
  BY <1>0, <1>00, <1>3
     DEF WriteFails, IndexStaysInRange, IndexOK, MaterialOK, Writing, Process, Stages,
         Logging, At, Become, Fault, files, Goto
<1>4. CASE RollBack(w)
  BY <1>0, <1>00, <1>4
     DEF RollBack, IndexStaysInRange, IndexOK, MaterialOK, Writing, Process, Stages, Logging,
         At, Become, Fault, files, WriteProgress
<1>5. CASE ReturnCaught(w)
  BY <1>0, <1>00, <1>5
     DEF ReturnCaught, IndexStaysInRange, IndexOK, MaterialOK, Writing, Process, Stages,
         Logging, At, Become, Fault, files, Finish
<1>6. CASE RollBackFails(w)
  BY <1>0, <1>00, <1>6
     DEF RollBackFails, IndexStaysInRange, IndexOK, Writing, Process, Stages, Logging, At,
         Become, Fault, files, WriteProgress
<1> QED BY <1>1, <1>2, <1>3, <1>4, <1>5, <1>6 DEF ProgressStep

LEMMA ProgressMaterial ==
  ASSUME Alone, TypeOK, MaterialInv, NEW w \in Workers, ProgressStep(w)
  PROVE  MaterialInv'
<1>0. proc \in [Workers -> Process] /\ wav \in [Days -> Lines \cup {NoLine}] /\ ass \in [Days -> Lines \cup {NoLine}]
      /\ material \in [Workers -> SUBSET (Lines \cup {NoLine})] /\ proc[w].day \in Days
  BY DEF TypeOK, Process
<1>00. MaterialOK(w) BY DEF MaterialInv
<1> SUFFICES MaterialOK(w)' BY DEF Alone, MaterialInv
<1>1. CASE EmptyProgress(w)
  BY <1>0, <1>00, <1>1
     DEF EmptyProgress, MaterialOK, Writing, Process, Stages, At, Become, files, seen, Goto
<1>2. CASE FillProgress(w)
  BY <1>0, <1>00, <1>2
     DEF FillProgress, MaterialOK, Writing, Process, Stages, At, Become, files, seen, Goto
<1>3. CASE WriteFails(w)
  BY <1>0, <1>00, <1>3
     DEF WriteFails, MaterialOK, Writing, Process, Stages, At, Become, files, seen, Goto
<1>4. CASE RollBack(w)
  BY <1>0, <1>00, <1>4
     DEF RollBack, MaterialOK, Writing, Process, Stages, At, Become, files, seen, WriteProgress
<1>5. CASE ReturnCaught(w)
  BY <1>0, <1>00, <1>5
     DEF ReturnCaught, MaterialOK, Writing, Process, Stages, At, Become, files, seen, Finish
<1>6. CASE RollBackFails(w)
  BY <1>0, <1>00, <1>6
     DEF RollBackFails, MaterialOK, Writing, Process, Stages, At, Become, files, seen, WriteProgress
<1> QED BY <1>1, <1>2, <1>3, <1>4, <1>5, <1>6 DEF ProgressStep

LEMMA StageIndex ==
  ASSUME Alone, TypeOK, IndexInv, MaterialInv, NEW w \in Workers, StageStep(w)
  PROVE  IndexInv'
<1>0. proc \in [Workers -> Process] /\ progress \in [Homes -> Int] /\ faults \in Nat /\ HomeOf[w] \in Homes
  BY HomeAssumption, PipelineBounds DEF TypeOK
<1>00. IndexOK(w) /\ MaterialOK(w) /\ IndexStaysInRange BY DEF IndexInv, MaterialInv
<1> SUFFICES IndexOK(w)' /\ IndexStaysInRange' BY DEF Alone, IndexInv
<1>1. CASE WriteText(w)
  BY <1>0, <1>00, <1>1
     DEF WriteText, IndexStaysInRange, IndexOK, MaterialOK, Writing, Process, Stages, Logging,
         At, Become, Fault, files
<1>2. CASE TextFails(w)
  BY <1>0, <1>00, <1>2
     DEF TextFails, IndexStaysInRange, IndexOK, MaterialOK, Writing, Process, Stages, Logging,
         At, Become, Fault, files, Finish
<1>3. CASE Synthesize(w)
  BY <1>0, <1>00, <1>3
     DEF Synthesize, IndexStaysInRange, IndexOK, MaterialOK, Writing, Process, Stages,
         Logging, At, Become, Fault, files, Goto
<1>4. CASE Concat(w)
  BY <1>0, <1>00, <1>4
     DEF Concat, IndexStaysInRange, IndexOK, MaterialOK, Writing, Process, Stages, Logging,
         At, Become, Fault, files, Goto
<1>5. CASE Subtitle(w)
  BY <1>0, <1>00, <1>5
     DEF Subtitle, IndexStaysInRange, IndexOK, MaterialOK, Writing, Process, Stages, Logging,
         At, Become, Fault, files, Goto
<1>6. CASE DrawCanvas(w)
  BY <1>0, <1>00, <1>6
     DEF DrawCanvas, IndexStaysInRange, IndexOK, MaterialOK, Writing, Process, Stages,
         Logging, At, Become, Fault, files, Goto
<1>7. CASE Fuse(w)
  BY <1>0, <1>00, <1>7
     DEF Fuse, IndexStaysInRange, IndexOK, MaterialOK, Writing, Process, Stages, Logging, At,
         Become, Fault, files
<1>8. CASE StageFails(w)
  <2>0. faults' = faults + 1
    BY <1>0, <1>00, <1>8, NoLineFacts DEF StageFails, Missing, MaterialOK, Stages, At, Fault
  <2>1. ASSUME NEW outcome, Finish(w, outcome) PROVE IndexOK(w)' /\ IndexStaysInRange'
    BY <1>0, <1>00, <1>8, <2>0, <2>1
       DEF StageFails, At, Finish, IndexStaysInRange, IndexOK, Writing, Process, Stages,
           Logging, Become, files
  <2>2. ASSUME Goto(w, "rollback") PROVE IndexOK(w)' /\ IndexStaysInRange'
    BY <1>0, <1>00, <1>8, <2>0, <2>2
       DEF StageFails, At, Goto, IndexStaysInRange, IndexOK, Writing, Process, Stages,
           Logging, Become, files
  <2> QED BY <1>8, <2>1, <2>2 DEF StageFails, Raise
<1> QED BY <1>1, <1>2, <1>3, <1>4, <1>5, <1>6, <1>7, <1>8 DEF StageStep

LEMMA StageMaterial ==
  ASSUME Alone, TypeOK, MaterialInv, NEW w \in Workers, StageStep(w)
  PROVE  MaterialInv'
<1>0. proc \in [Workers -> Process] /\ wav \in [Days -> Lines \cup {NoLine}] /\ ass \in [Days -> Lines \cup {NoLine}]
      /\ material \in [Workers -> SUBSET (Lines \cup {NoLine})] /\ proc[w].day \in Days
  BY DEF TypeOK, Process
<1>00. MaterialOK(w) BY DEF MaterialInv
<1> SUFFICES MaterialOK(w)' BY DEF Alone, MaterialInv
<1>1. CASE WriteText(w)
  BY <1>0, <1>00, <1>1
     DEF WriteText, MaterialOK, Writing, Process, Stages, At, Become, files, seen
<1>2. CASE TextFails(w)
  BY <1>0, <1>00, <1>2
     DEF TextFails, MaterialOK, Writing, Process, Stages, At, Become, files, seen, Finish
<1>3. CASE Synthesize(w)
  BY <1>0, <1>00, <1>3
     DEF Synthesize, MaterialOK, Writing, Process, Stages, At, Become, files, seen, Goto
<1>4. CASE Concat(w)
  BY <1>0, <1>00, <1>4
     DEF Concat, MaterialOK, Writing, Process, Stages, At, Become, files, seen, Goto
<1>5. CASE Subtitle(w)
  BY <1>0, <1>00, <1>5
     DEF Subtitle, MaterialOK, Writing, Process, Stages, At, Become, files, seen, Goto
<1>6. CASE DrawCanvas(w)
  BY <1>0, <1>00, <1>6
     DEF DrawCanvas, MaterialOK, Writing, Process, Stages, At, Become, files, seen, Goto
<1>7. CASE Fuse(w)
  BY <1>0, <1>00, <1>7 DEF Fuse, MaterialOK, Writing, Process, Stages, At, Become, files, seen
<1>8. CASE StageFails(w)
  <2>1. ASSUME NEW outcome, Finish(w, outcome) PROVE MaterialOK(w)'
    BY <1>0, <1>00, <1>8, <2>1
       DEF StageFails, At, Finish, MaterialOK, Writing, Process, Stages, Become, files, seen
  <2>2. ASSUME Goto(w, "rollback") PROVE MaterialOK(w)'
    BY <1>0, <1>00, <1>8, <2>2
       DEF StageFails, At, Goto, MaterialOK, Writing, Process, Stages, Become, files, seen
  <2> QED BY <1>8, <2>1, <2>2 DEF StageFails, Raise
<1> QED BY <1>1, <1>2, <1>3, <1>4, <1>5, <1>6, <1>7, <1>8 DEF StageStep

LEMMA HistoryIndex ==
  ASSUME Alone, TypeOK, IndexInv, MaterialInv, NEW w \in Workers, HistoryStep(w)
  PROVE  IndexInv'
<1>0. proc \in [Workers -> Process] /\ progress \in [Homes -> Int] /\ faults \in Nat /\ HomeOf[w] \in Homes
  BY HomeAssumption, PipelineBounds DEF TypeOK
<1>00. IndexOK(w) /\ MaterialOK(w) /\ IndexStaysInRange BY DEF IndexInv, MaterialInv
<1> SUFFICES IndexOK(w)' /\ IndexStaysInRange' BY DEF Alone, IndexInv
<1>1. CASE LoadHistory(w)
  BY <1>0, <1>00, <1>1
     DEF LoadHistory, IndexStaysInRange, IndexOK, MaterialOK, Writing, Process, Stages,
         Logging, At, Become, Fault, files
<1>2. CASE LoadFails(w)
  BY <1>0, <1>00, <1>2
     DEF LoadFails, IndexStaysInRange, IndexOK, MaterialOK, Writing, Process, Stages, Logging,
         At, Become, Fault, files
<1>3. CASE EmptyHistory(w)
  BY <1>0, <1>00, <1>3
     DEF EmptyHistory, IndexStaysInRange, IndexOK, MaterialOK, Writing, Process, Stages,
         Logging, At, Become, Fault, files, Goto
<1>4. CASE FillHistory(w)
  BY <1>0, <1>00, <1>4
     DEF FillHistory, IndexStaysInRange, IndexOK, MaterialOK, Writing, Process, Stages,
         Logging, At, Become, Fault, files, Finish
<1>5. CASE SaveFails(w)
  <2>0. faults' = faults + 1
    BY <1>5 DEF SaveFails, Fault
  <2>1. ASSUME NEW outcome, Finish(w, outcome) PROVE IndexOK(w)' /\ IndexStaysInRange'
    BY <1>0, <1>00, <1>5, <2>0, <2>1
       DEF SaveFails, At, Finish, IndexStaysInRange, IndexOK, Writing, Process, Stages,
           Logging, Become, files
  <2>2. ASSUME Goto(w, "rollback") PROVE IndexOK(w)' /\ IndexStaysInRange'
    BY <1>0, <1>00, <1>5, <2>0, <2>2
       DEF SaveFails, At, Goto, IndexStaysInRange, IndexOK, Writing, Process, Stages, Logging,
           Become, files
  <2> QED BY <1>5, <2>1, <2>2 DEF SaveFails, Raise
<1> QED BY <1>1, <1>2, <1>3, <1>4, <1>5 DEF HistoryStep

LEMMA HistoryMaterial ==
  ASSUME Alone, TypeOK, MaterialInv, NEW w \in Workers, HistoryStep(w)
  PROVE  MaterialInv'
<1>0. proc \in [Workers -> Process] /\ wav \in [Days -> Lines \cup {NoLine}] /\ ass \in [Days -> Lines \cup {NoLine}]
      /\ material \in [Workers -> SUBSET (Lines \cup {NoLine})] /\ proc[w].day \in Days
  BY DEF TypeOK, Process
<1>00. MaterialOK(w) BY DEF MaterialInv
<1> SUFFICES MaterialOK(w)' BY DEF Alone, MaterialInv
<1>1. CASE LoadHistory(w)
  BY <1>0, <1>00, <1>1
     DEF LoadHistory, MaterialOK, Writing, Process, Stages, At, Become, files, seen
<1>2. CASE LoadFails(w)
  BY <1>0, <1>00, <1>2
     DEF LoadFails, MaterialOK, Writing, Process, Stages, At, Become, files, seen
<1>3. CASE EmptyHistory(w)
  BY <1>0, <1>00, <1>3
     DEF EmptyHistory, MaterialOK, Writing, Process, Stages, At, Become, files, seen, Goto
<1>4. CASE FillHistory(w)
  BY <1>0, <1>00, <1>4
     DEF FillHistory, MaterialOK, Writing, Process, Stages, At, Become, files, seen, Finish
<1>5. CASE SaveFails(w)
  <2>1. ASSUME NEW outcome, Finish(w, outcome) PROVE MaterialOK(w)'
    BY <1>0, <1>00, <1>5, <2>1
       DEF SaveFails, At, Finish, MaterialOK, Writing, Process, Stages, Become, files, seen
  <2>2. ASSUME Goto(w, "rollback") PROVE MaterialOK(w)'
    BY <1>0, <1>00, <1>5, <2>2
       DEF SaveFails, At, Goto, MaterialOK, Writing, Process, Stages, Become, files, seen
  <2> QED BY <1>5, <2>1, <2>2 DEF SaveFails, Raise
<1> QED BY <1>1, <1>2, <1>3, <1>4, <1>5 DEF HistoryStep

LEMMA NextAlone ==
  Alone /\ TypeOK /\ IndexInv /\ MaterialInv /\ [Next]_vars => IndexInv' /\ MaterialInv'
<1> SUFFICES ASSUME Alone, TypeOK, IndexInv, MaterialInv, [Next]_vars PROVE IndexInv' /\ MaterialInv' OBVIOUS
<1>1. CASE Midnight \/ UNCHANGED vars
  <2>1. UNCHANGED << progress, tmp, wav, ass, canvas, proc, faults, material >>
    BY <1>1 DEF Midnight, vars, files, seen
  <2> QED BY <2>1 DEF IndexInv, IndexStaysInRange, IndexOK, MaterialInv, MaterialOK, Writing
<1>2. ASSUME NEW w \in Workers, ProcessStep(w) \/ ReaderStep(w) \/ ProgressStep(w) \/ StageStep(w) \/ HistoryStep(w)
      PROVE  IndexInv' /\ MaterialInv'
  BY <1>2, ProcessIndex, ReaderIndex, ProgressIndex, StageIndex, HistoryIndex,
     ProcessMaterial, ReaderMaterial, ProgressMaterial, StageMaterial, HistoryMaterial
<1> QED BY <1>1, <1>2 DEF Next

LEMMA AloneHolds == ASSUME Alone PROVE Spec => [](TypeOK /\ IndexInv /\ MaterialInv)
<1>1. Init => TypeOK /\ IndexInv /\ MaterialInv BY InitTypes, InitAlone
<1>2. TypeOK /\ IndexInv /\ MaterialInv /\ [Next]_vars => (TypeOK /\ IndexInv /\ MaterialInv)'
  BY NextTypes, NextAlone
<1> QED BY <1>1, <1>2, PTL DEF Spec

(* However main_generate() and run_pipeline() fail and are killed, the index of a  *)
(* worker with its own files sinks below 0 by at most half the number of failures. *)
THEOREM IndexStaysInRangeHolds == ASSUME Alone PROVE Spec => []IndexStaysInRange
<1>1. IndexInv => IndexStaysInRange BY DEF IndexInv
<1> QED BY <1>1, AloneHolds, PTL

(* A video of a worker with its own files is spoken and subtitled with the line of *)
(* its job: no failed stage lets an older file of the day into it.                 *)
THEOREM OwnMaterialHolds == ASSUME Alone PROVE Spec => []OwnMaterial
<1>1. MaterialInv => OwnMaterial BY DEF MaterialInv, MaterialOK, OwnMaterial
<1> QED BY <1>1, AloneHolds, PTL
-------------------------------------------------------------------------------
(* What a step leaves of the process record *)

(* The fields of a process that the index depends on, after a step. *)
SameLine(w) ==
  proc'[w].index = proc[w].index /\ proc'[w].line = proc[w].line /\ proc'[w].entries = proc[w].entries
SamePlan(w) == SameLine(w) /\ proc'[w].put = proc[w].put /\ proc'[w].then = proc[w].then

LEMMA GotoFields ==
  ASSUME proc \in [Workers -> Process], NEW w \in Workers, NEW pc, Goto(w, pc)
  PROVE  proc'[w].pc = pc /\ SamePlan(w)
BY DEF Goto, Become, Process, SamePlan, SameLine

LEMMA FinishFields ==
  ASSUME proc \in [Workers -> Process], NEW w \in Workers, NEW outcome, Finish(w, outcome)
  PROVE  proc'[w].pc = "idle" /\ SamePlan(w)
BY DEF Finish, Become, Process, SamePlan, SameLine

LEMMA RaiseFields ==
  ASSUME proc \in [Workers -> Process], NEW w \in Workers, Raise(w)
  PROVE  proc'[w].pc \in {"idle", "rollback"} /\ SamePlan(w)
BY GotoFields, FinishFields DEF Raise

LEMMA NoTextFields ==
  ASSUME proc \in [Workers -> Process], NEW w \in Workers, NoText(w)
  PROVE  proc'[w].pc = "idle" /\ SamePlan(w)
BY FinishFields DEF NoText

LEMMA WriteFields ==
  ASSUME proc \in [Workers -> Process], NEW w \in Workers, NEW i, NEW next, WriteProgress(w, i, next)
  PROVE  proc'[w].pc = "write" /\ proc'[w].put = i /\ proc'[w].then = next /\ SameLine(w)
BY DEF WriteProgress, Become, Process, SameLine

LEMMA ProcessFields ==
  ASSUME TypeOK, NEW w \in Workers, ProcessStep(w)
  PROVE  proc'[w].pc \in {"starting", "idle", "read"}
<1>0. proc \in [Workers -> Process] BY DEF TypeOK
<1>1. CASE Start(w) BY <1>0, <1>1 DEF Start, Become, Down
<1>2. CASE TakeJob(w) BY <1>0, <1>2 DEF TakeJob, Become, Process
<1>3. CASE Crash(w) BY <1>0, <1>3 DEF Crash, Become, Down
<1> QED BY <1>1, <1>2, <1>3 DEF ProcessStep

LEMMA ReadFields ==
  ASSUME TypeOK, NEW w \in Workers, ReadProgress(w)
  PROVE  LET i == progress[HomeOf[w]] IN
         \/ proc'[w].pc = "pick" /\ proc'[w].index = i /\ 2 * i < NumLines
         \/ /\ proc'[w].pc = "write" /\ proc'[w].then = "pick"
            /\ proc'[w].put = 0 /\ proc'[w].index = 0 /\ 2 * i >= NumLines
<1>0. proc \in [Workers -> Process] BY DEF TypeOK
<1> QED BY <1>0 DEF ReadProgress, Become, Process

LEMMA ReadFailsFields ==
  ASSUME TypeOK, NEW w \in Workers, ReadProgressFails(w)
  PROVE  /\ proc[w].pc = "read" /\ proc'[w].pc = "pick" /\ proc'[w].index = 0
         /\ faults' = faults + 1 /\ UNCHANGED << files, crashes, seen >>
<1>0. proc \in [Workers -> Process] BY DEF TypeOK
<1> QED BY <1>0 DEF ReadProgressFails, At, Become, Fault, Process

LEMMA RollBackFailsFields ==
  ASSUME TypeOK, NEW w \in Workers, RollBackFails(w)
  PROVE  /\ proc[w].pc = "rollback" /\ proc'[w].pc = "write" /\ proc'[w].then = "caught"
         /\ proc'[w].put = -1 /\ SameLine(w)
         /\ faults' = faults + 1 /\ UNCHANGED << files, crashes, seen >>
<1>0. proc \in [Workers -> Process] BY DEF TypeOK
<1> QED BY <1>0, WriteFields DEF RollBackFails, At, Fault

LEMMA PickFields ==
  ASSUME TypeOK, NEW w \in Workers, PickLine(w)
  PROVE  LET i == proc[w].index IN
         \/ proc'[w].pc = "idle" /\ SamePlan(w) /\ 2 * i < -NumLines
         \/ /\ proc'[w].pc = "write" /\ proc'[w].index = i /\ proc'[w].put = i + 1
            /\ proc'[w].line = LineAt(i) /\ 2 * i >= -NumLines
            /\ \/ proc'[w].then = "text" /\ 2 * i + 1 < NumLines /\ LineAt(i) \notin Unspeakable
               \/ proc'[w].then = "no_text" /\ (2 * i + 1 >= NumLines \/ LineAt(i) \in Unspeakable)
<1>0. proc \in [Workers -> Process] BY DEF TypeOK
<1>1. proc[w].index \in Int BY <1>0 DEF Process
<1> DEFINE i == proc[w].index
           speakable == 2 * i + 1 < NumLines /\ LineAt(i) \notin Unspeakable
           p(next) == [proc[w] EXCEPT !.pc = "write", !.put = i + 1, !.line = LineAt(i), !.then = next]
<1>2. CASE 2 * i < -NumLines
  BY <1>0, <1>2, FinishFields DEF PickLine
<1>3. CASE ~(2 * i < -NumLines)
  <2>1. \E next \in {"text", "no_text"} : /\ Become(w, p(next))
                                          /\ next = "text" <=> speakable
    BY <1>3 DEF PickLine
  <2>2. PICK next \in {"text", "no_text"} : Become(w, p(next)) /\ (next = "text" <=> speakable)
    BY <2>1
  <2>3. /\ proc'[w].pc = "write" /\ proc'[w].index = i /\ proc'[w].put = i + 1
        /\ proc'[w].line = LineAt(i) /\ proc'[w].then = next
    BY <1>0, <2>2 DEF Become, Process
  <2>4. 2 * i >= -NumLines /\ (2 * i + 1 >= NumLines <=> ~(2 * i + 1 < NumLines))
    BY <1>1, <1>3, LinesAssumption
  <2> QED BY <2>2, <2>3, <2>4
<1> QED BY <1>2, <1>3

LEMMA TextFields ==
  ASSUME TypeOK, NEW w \in Workers, WriteText(w)
  PROVE  proc'[w].pc = "voice" /\ SameLine(w)
<1>0. proc \in [Workers -> Process] BY DEF TypeOK
<1> QED BY <1>0 DEF WriteText, Become, Process, SameLine

LEMMA FuseFields ==
  ASSUME TypeOK, NEW w \in Workers, Fuse(w)
  PROVE  proc'[w].pc = "load" /\ SameLine(w)
<1>0. proc \in [Workers -> Process] BY DEF TypeOK
<1> QED BY <1>0 DEF Fuse, Become, Process, SameLine

LEMMA LoadFields ==
  ASSUME TypeOK, NEW w \in Workers, LoadHistory(w) \/ LoadFails(w)
  PROVE  /\ proc'[w].pc = "save" /\ proc'[w].index = proc[w].index /\ proc'[w].line = proc[w].line
         /\ proc[w].index + 1 \in proc'[w].entries
         /\ LoadHistory(w) => history[HomeOf[w]] \subseteq proc'[w].entries
<1>0. proc \in [Workers -> Process] BY DEF TypeOK
<1>1. CASE LoadHistory(w) BY <1>0, <1>1 DEF LoadHistory, Become, Process
<1>2. CASE LoadFails(w) /\ ~LoadHistory(w) BY <1>0, <1>2 DEF LoadFails, Become, Process
<1> QED BY <1>1, <1>2

(* A worker alone never misses its own files: a stage that fails has a cause. *)
LEMMA FailuresHaveCause ==
  ASSUME TypeOK, MaterialInv, NEW w \in Workers, StageFails(w) \/ SaveFails(w)
  PROVE  /\ faults' = faults + 1 /\ UNCHANGED << progress, history, crashes, made, taken >>
         /\ proc[w].pc \in Stages \cup {"save", "saving"}
         /\ proc'[w].pc \in {"idle", "rollback"} /\ SamePlan(w)
<1>0. proc \in [Workers -> Process] BY DEF TypeOK
<1>1. CASE StageFails(w)
  <2>1. ~Missing(w)
    BY <1>0, NoLineFacts DEF Missing, MaterialInv, MaterialOK, Stages, At
  <2> QED BY <1>0, <1>1, <2>1, RaiseFields DEF StageFails, Fault, seen
<1>2. CASE SaveFails(w) BY <1>0, <1>2, RaiseFields DEF SaveFails, Fault, files
<1> QED BY <1>1, <1>2

-------------------------------------------------------------------------------
(* Taking back a line *)

(* What of the last pick a caught failure undoes, while at most one thing has failed *)
(* since the job was taken.                                                          *)
BackOK(w) ==
  LET p == proc[w]
      i == progress[HomeOf[w]]
      n == faults - taken[w]
  IN
  /\ n >= 0
  /\ Writing(p, "text") => p.put = p.index + 1
  /\ p.pc \in {"text"} \cup Stages \cup Logging => i = p.index + 1 \/ n >= 1
  /\ p.pc = "rollback" \/ Writing(p, "caught") => n >= 1
  /\ p.pc = "rollback" => i = p.index + 1 \/ n >= 2
  /\ Writing(p, "caught") => p.put = p.index \/ n >= 2
  /\ p.pc = "caught" => i = p.index \/ n >= 2
BackInv == \A w \in Workers : BackOK(w)

(* Nothing but taking a job touches the count of what had failed before it. *)
LEMMA TakenSteps ==
  ASSUME TypeOK, NEW w \in Workers,
         ProcessStep(w) \/ ReaderStep(w) \/ ProgressStep(w) \/ StageStep(w) \/ HistoryStep(w)
  PROVE  IF TakeJob(w) THEN taken'[w] = faults /\ faults' = faults
                       ELSE taken' = taken /\ (faults' = faults \/ faults' = faults + 1)
<1>0. taken \in [Workers -> 0 .. MaxFaults] BY DEF TypeOK
<1>1. CASE TakeJob(w)
  BY <1>0, <1>1 DEF TakeJob
<1>2. CASE ProcessStep(w) /\ ~TakeJob(w)
  BY <1>2 DEF ProcessStep, Start, Crash, Fault, seen
<1>3. CASE ReaderStep(w) /\ ~TakeJob(w)
  BY <1>3 DEF ReaderStep, ReadProgress, ReadProgressFails, PickLine, InputFails, Mute, Fault, seen
<1>4. CASE ProgressStep(w) /\ ~TakeJob(w)
  BY <1>4 DEF ProgressStep, EmptyProgress, FillProgress, WriteFails, RollBack, RollBackFails,
              ReturnCaught, Fault, seen
<1>5. CASE StageStep(w) /\ ~TakeJob(w)
  BY <1>5 DEF StageStep, WriteText, TextFails, Synthesize, Concat, Subtitle, DrawCanvas, Fuse,
              StageFails, Fault, seen
<1>6. CASE HistoryStep(w) /\ ~TakeJob(w)
  BY <1>6 DEF HistoryStep, LoadHistory, LoadFails, EmptyHistory, FillHistory, SaveFails, Fault, seen
<1> QED BY <1>1, <1>2, <1>3, <1>4, <1>5, <1>6

LEMMA BackStep ==
  ASSUME Alone, TypeOK, IndexInv, MaterialInv, BackInv, NEW w \in Workers,
         ProcessStep(w) \/ ReaderStep(w) \/ ProgressStep(w) \/ StageStep(w) \/ HistoryStep(w)
  PROVE  BackInv'
<1>0. /\ proc \in [Workers -> Process] /\ progress \in [Homes -> Int] /\ faults \in Nat /\ HomeOf[w] \in Homes
      /\ proc[w].index \in Int /\ proc[w].put \in Int /\ taken[w] \in Nat
  BY HomeAssumption, PipelineBounds DEF TypeOK, Process
<1>00. BackOK(w) /\ ~Writing(proc[w], "idle") BY DEF IndexInv, IndexOK, BackInv
<1>01. ~TakeJob(w) => taken' = taken /\ (faults' = faults \/ faults' = faults + 1)
  BY TakenSteps
<1> SUFFICES BackOK(w)' BY DEF Alone, BackInv
<1> USE DEF Stages, Logging, SameLine, SamePlan
<1>02. taken'[w] \in Nat /\ taken'[w] <= faults' /\ faults' \in Nat
  BY <1>0, <1>00, TakenSteps DEF BackOK
<1>03. ASSUME proc'[w].pc \in {"starting", "idle", "read", "pick"} \/ Writing(proc'[w], "pick")
               \/ (Writing(proc'[w], "text") /\ proc'[w].put = proc'[w].index + 1)
               \/ Writing(proc'[w], "no_text")
       PROVE  BackOK(w)'
  BY <1>02, <1>03 DEF BackOK, Writing
<1>1. CASE ProcessStep(w)
  BY <1>1, <1>03, ProcessFields
<1>2. CASE ReadProgress(w)
  BY <1>2, <1>03, ReadFields DEF Writing
<1>21. CASE ReadProgressFails(w)
  BY <1>21, <1>03, ReadFailsFields
<1>3. CASE PickLine(w)
  BY <1>3, <1>03, PickFields DEF Writing
<1>4. CASE InputFails(w) \/ Mute(w)
  BY <1>0, <1>4, <1>03, NoTextFields, FinishFields DEF InputFails, Mute
<1>5. CASE EmptyProgress(w)
  <2>1. UNCHANGED << taken, faults >> BY <1>5 DEF EmptyProgress, seen
  <2> QED BY <1>0, <1>00, <1>5, <2>1, GotoFields DEF EmptyProgress, BackOK, Writing, At
<1>6. CASE FillProgress(w)
  <2>1. /\ proc'[w].pc = proc[w].then /\ SamePlan(w) /\ progress'[HomeOf[w]] = proc[w].put
        /\ proc[w].pc = "fill" /\ UNCHANGED << faults, taken >>
    BY <1>0, <1>6, GotoFields DEF FillProgress, At, seen
  <2> QED BY <1>0, <1>00, <2>1 DEF BackOK, Writing, Process
<1>7. CASE WriteFails(w)
  <2>1. /\ proc'[w].pc = proc[w].then /\ SamePlan(w) /\ UNCHANGED << progress, taken >> /\ faults' = faults + 1
        /\ proc[w].pc \in {"write", "fill"}
    BY <1>0, <1>7, GotoFields DEF WriteFails, Fault, files, seen
  <2> QED BY <1>0, <1>00, <2>1 DEF BackOK, Writing, Process
<1>8. CASE RollBack(w)
  <2>1. UNCHANGED << taken, faults >> BY <1>8 DEF RollBack, seen
  <2> QED BY <1>0, <1>00, <1>8, <2>1, WriteFields DEF RollBack, BackOK, Writing, At, files
<1>81. CASE RollBackFails(w)
  <2>1. UNCHANGED taken BY <1>81, RollBackFailsFields DEF seen
  <2> QED BY <1>0, <1>00, <1>81, <2>1, RollBackFailsFields DEF BackOK, Writing
<1>9. CASE ReturnCaught(w) \/ TextFails(w)
  BY <1>0, <1>9, <1>03, FinishFields DEF ReturnCaught, TextFails
<1>10. CASE WriteText(w)
  <2>1. UNCHANGED << taken, faults >> BY <1>10 DEF WriteText, seen
  <2> QED BY <1>0, <1>00, <1>10, <2>1, TextFields DEF WriteText, BackOK, Writing, At, files
<1>11. CASE Synthesize(w) \/ Concat(w) \/ Subtitle(w) \/ DrawCanvas(w)
  <2>1. UNCHANGED << taken, faults >> BY <1>11 DEF Synthesize, Concat, Subtitle, DrawCanvas, seen
  <2> QED
    BY <1>0, <1>00, <1>11, <2>1, GotoFields
       DEF Synthesize, Concat, Subtitle, DrawCanvas, BackOK, Writing, At
<1>12. CASE Fuse(w)
  <2>1. UNCHANGED << taken, faults >> BY <1>12 DEF Fuse
  <2> QED BY <1>0, <1>00, <1>12, <2>1, FuseFields DEF Fuse, BackOK, Writing, At
<1>13. CASE LoadHistory(w)
  <2>1. UNCHANGED << taken, faults >> BY <1>13 DEF LoadHistory, seen
  <2> QED BY <1>0, <1>00, <1>13, <2>1, LoadFields DEF LoadHistory, BackOK, Writing, At, files
<1>14. CASE LoadFails(w)
  <2>1. proc'[w].pc = "save" /\ faults' = faults + 1 /\ UNCHANGED taken
    BY <1>14, LoadFields DEF LoadFails, Fault
  <2> QED BY <1>0, <1>00, <2>1 DEF BackOK, Writing
<1>15. CASE EmptyHistory(w)
  <2>1. UNCHANGED << taken, faults >> BY <1>15 DEF EmptyHistory, seen
  <2> QED BY <1>0, <1>00, <1>15, <2>1, GotoFields DEF EmptyHistory, BackOK, Writing, At
<1>16. CASE FillHistory(w)
  BY <1>0, <1>16, <1>03, FinishFields DEF FillHistory
<1>17. CASE StageFails(w) \/ SaveFails(w)
  BY <1>0, <1>00, <1>17, FailuresHaveCause DEF BackOK, Writing
<1> QED BY <1>1, <1>2, <1>21, <1>3, <1>4, <1>5, <1>6, <1>7, <1>8, <1>81, <1>9, <1>10, <1>11, <1>12,
           <1>13, <1>14, <1>15, <1>16, <1>17
        DEF ReaderStep, ProgressStep, StageStep, HistoryStep

(* A stage of main_generate() that fails costs no line: what the except clause takes *)
(* back is what this job took, unless a second thing has failed during this job. The *)
(* worker shares its files with no other.                                            *)
THEOREM TakenBackHolds == ASSUME Alone PROVE Spec => []TakenBack
<1>1. Init => BackInv
  <2> SUFFICES ASSUME Init, NEW w \in Workers PROVE BackOK(w) BY DEF BackInv
  <2>1. proc[w].pc = "starting" /\ faults = 0 /\ taken[w] = 0 BY DEF Init, Down
  <2> QED BY <2>1 DEF BackOK, Writing, Stages, Logging
<1>2. TypeOK /\ IndexInv /\ MaterialInv /\ BackInv /\ [Next]_vars => BackInv'
  <2> SUFFICES ASSUME TypeOK, IndexInv, MaterialInv, BackInv, [Next]_vars PROVE BackInv' OBVIOUS
  <2>1. CASE Midnight \/ UNCHANGED vars
    BY <2>1 DEF Midnight, vars, files, seen, BackInv, BackOK, Writing
  <2> QED BY <2>1, BackStep DEF Next
<1>3. TypeOK /\ BackInv => TakenBack
  <2> SUFFICES ASSUME TypeOK, BackInv, NEW w \in Workers, At(w, "caught")
               PROVE  progress[HomeOf[w]] = proc[w].index \/ faults >= taken[w] + 2
    BY DEF TakenBack
  <2>1. faults \in Nat /\ taken[w] \in Nat BY PipelineBounds DEF TypeOK
  <2> QED BY <2>1 DEF BackInv, BackOK, At
<1> QED BY <1>1, <1>2, <1>3, AloneHolds, PTL DEF Spec

-------------------------------------------------------------------------------
(* The history *)

Entered(l, entries) == \E n \in entries : LineAt(n - 1) = l

(* Which list knows of the videos made in the worker's directory. *)
LogOK(w) ==
  LET p == proc[w]
      h == HomeOf[w]
  IN
  /\ p.pc \in {"text"} \cup Stages \cup {"load"} \/ Writing(p, "text") => p.line = LineAt(p.index)
  /\ h \notin unlogged => \A l \in Lines : made[h][l] > 0 =>
       /\ p.pc = "load" => l = p.line \/ Entered(l, history[h])
       /\ p.pc \in {"save", "saving"} => Entered(l, p.entries)
       /\ p.pc \notin Logging => Entered(l, history[h])
Unused == \A h \in Homes : (\A w \in Workers : HomeOf[w] # h) => \A l \in Lines : made[h][l] = 0
LogInv == Unused /\ \A w \in Workers : LogOK(w)

LEMMA MadeSteps ==
  ASSUME NEW w \in Workers,
         ProcessStep(w) \/ ReaderStep(w) \/ ProgressStep(w) \/ StageStep(w) \/ HistoryStep(w)
  PROVE  UNCHANGED made \/ Fuse(w)
<1>1. CASE ProcessStep(w)
  BY <1>1 DEF ProcessStep, Start, TakeJob, Crash, seen
<1>2. CASE ReaderStep(w)
  BY <1>2 DEF ReaderStep, ReadProgress, ReadProgressFails, PickLine, InputFails, Mute, seen
<1>3. CASE ProgressStep(w)
  BY <1>3 DEF ProgressStep, EmptyProgress, FillProgress, WriteFails, RollBack, RollBackFails,
              ReturnCaught, seen
<1>4. CASE StageStep(w)
  BY <1>4 DEF StageStep, WriteText, TextFails, Synthesize, Concat, Subtitle, DrawCanvas, StageFails, seen
<1>5. CASE HistoryStep(w)
  BY <1>5 DEF HistoryStep, LoadHistory, LoadFails, EmptyHistory, FillHistory, SaveFails, seen
<1> QED BY <1>1, <1>2, <1>3, <1>4, <1>5

LEMMA UnusedStep ==
  ASSUME TypeOK, Unused, NEW w \in Workers,
         ProcessStep(w) \/ ReaderStep(w) \/ ProgressStep(w) \/ StageStep(w) \/ HistoryStep(w)
  PROVE  Unused'
<1>0. made \in [Homes -> [Lines -> Nat]] BY DEF TypeOK
<1>1. CASE Fuse(w) BY <1>0, <1>1 DEF Fuse, Unused
<1>2. CASE UNCHANGED made BY <1>2 DEF Unused
<1> QED BY <1>1, <1>2, MadeSteps

LEMMA LogStep ==
  ASSUME Alone, TypeOK, IndexInv, MaterialInv, LogInv, NEW w \in Workers,
         ProcessStep(w) \/ ReaderStep(w) \/ ProgressStep(w) \/ StageStep(w) \/ HistoryStep(w)
  PROVE  LogInv'
<1>0. /\ proc \in [Workers -> Process] /\ history \in [Homes -> SUBSET Int] /\ HomeOf[w] \in Homes
      /\ made \in [Homes -> [Lines -> Nat]]
      /\ proc[w].index \in Int /\ proc[w].put \in Int
  BY HomeAssumption DEF TypeOK, Process
<1>00. LogOK(w) /\ ~Writing(proc[w], "idle") BY DEF IndexInv, IndexOK, LogInv
<1> SUFFICES LogOK(w)' BY UnusedStep DEF Alone, LogInv
<1> USE DEF Stages, Logging, SameLine, SamePlan
<1>1. CASE Start(w) \/ TakeJob(w)
  <2>1. proc[w].pc \in {"starting", "idle"} /\ UNCHANGED << history, made, unlogged >>
    BY <1>1 DEF Start, TakeJob, At, files, seen
  <2> QED BY <1>00, <1>1, <2>1, ProcessFields DEF ProcessStep, LogOK, Writing
<1>2. CASE Crash(w)
  <2>1. proc[w].pc \in Logging => HomeOf[w] \in unlogged' BY <1>2 DEF Crash
  <2>2. unlogged \subseteq unlogged' /\ UNCHANGED << history, made >> BY <1>2 DEF Crash, files
  <2> QED BY <1>00, <1>2, <2>1, <2>2, ProcessFields DEF ProcessStep, LogOK, Writing
<1>3. CASE ReadProgress(w)
  <2>1. proc[w].pc = "read" /\ UNCHANGED << history, made, unlogged >>
    BY <1>3 DEF ReadProgress, At, files, seen
  <2> QED BY <1>00, <1>3, <2>1, ReadFields DEF LogOK, Writing
<1>4. CASE PickLine(w)
  <2>1. proc[w].pc = "pick" /\ UNCHANGED << history, made, unlogged >>
    BY <1>4 DEF PickLine, At, files, seen
  <2> QED BY <1>00, <1>4, <2>1, PickFields DEF LogOK, Writing
<1>5. CASE InputFails(w) \/ Mute(w) \/ ReturnCaught(w) \/ TextFails(w)
  <2>1. /\ proc'[w].pc = "idle"
        /\ proc[w].pc \in {"read", "no_text", "caught", "text"} /\ UNCHANGED << history, made, unlogged >>
    BY <1>0, <1>5, NoTextFields, FinishFields
       DEF InputFails, Mute, ReturnCaught, TextFails, At, files, seen
  <2> QED BY <1>00, <2>1 DEF LogOK, Writing
<1>6. CASE EmptyProgress(w)
  <2>1. /\ proc'[w].pc = "fill" /\ proc[w].pc = "write" /\ SamePlan(w)
        /\ UNCHANGED << history, made, unlogged >>
    BY <1>0, <1>6, GotoFields DEF EmptyProgress, At, seen
  <2> QED BY <1>00, <2>1 DEF LogOK, Writing
<1>7. CASE FillProgress(w) \/ WriteFails(w)
  <2>1. /\ proc'[w].pc = proc[w].then /\ SamePlan(w) /\ UNCHANGED << history, made, unlogged >>
        /\ proc[w].pc \in {"write", "fill"}
    BY <1>0, <1>7, GotoFields DEF FillProgress, WriteFails, At, files, seen
  <2> QED BY <1>0, <1>00, <2>1 DEF LogOK, Writing, Process
<1>8. CASE RollBack(w)
  <2>1. proc[w].pc = "rollback" /\ UNCHANGED << history, made, unlogged >>
    BY <1>8 DEF RollBack, At, files, seen
  <2> QED BY <1>0, <1>00, <1>8, <2>1, WriteFields DEF RollBack, LogOK, Writing
<1>17. CASE ReadProgressFails(w)
  BY <1>00, <1>17, ReadFailsFields DEF LogOK, Writing, files, seen
<1>18. CASE RollBackFails(w)
  BY <1>00, <1>18, RollBackFailsFields DEF LogOK, Writing, files, seen
<1>9. CASE WriteText(w) \/ Synthesize(w) \/ Concat(w) \/ Subtitle(w) \/ DrawCanvas(w)
  <2>1. /\ proc[w].pc \in {"text"} \cup Stages /\ proc'[w].pc \in Stages /\ SameLine(w)
        /\ UNCHANGED << history, made, unlogged >>
    BY <1>0, <1>9, GotoFields, TextFields
       DEF WriteText, Synthesize, Concat, Subtitle, DrawCanvas, At, files, seen
  <2> QED BY <1>00, <2>1 DEF LogOK, Writing
<1>10. CASE Fuse(w)
  <2>1. /\ proc[w].pc = "fuse" /\ UNCHANGED << history, unlogged >>
        /\ \A l \in Lines : l # proc[w].line => made'[HomeOf[w]][l] = made[HomeOf[w]][l]
    BY <1>0, <1>10 DEF Fuse, At
  <2> QED BY <1>00, <1>10, <2>1, FuseFields DEF LogOK, Writing
<1>11. CASE LoadHistory(w)
  <2>1. proc[w].pc = "load" /\ UNCHANGED << history, made, unlogged >>
    BY <1>11 DEF LoadHistory, At, files, seen
  <2>2. LineAt((proc[w].index + 1) - 1) = LineAt(proc[w].index) BY <1>0
  <2>3. Entered(LineAt(proc[w].index), proc'[w].entries)
    BY <1>11, <2>2, LoadFields DEF Entered
  <2> QED BY <1>00, <1>11, <2>1, <2>3, LoadFields DEF LogOK, Writing, Entered
<1>12. CASE LoadFails(w)
  <2>1. HomeOf[w] \in unlogged' BY <1>12 DEF LoadFails
  <2> QED BY <1>12, <2>1, LoadFields DEF LogOK, Writing
<1>13. CASE EmptyHistory(w)
  <2>1. /\ proc[w].pc = "save" /\ proc'[w].pc = "saving" /\ SamePlan(w) /\ UNCHANGED << made, unlogged >>
    BY <1>0, <1>13, GotoFields DEF EmptyHistory, At, seen
  <2> QED BY <1>00, <2>1 DEF LogOK, Writing
<1>14. CASE FillHistory(w)
  <2>1. /\ proc[w].pc = "saving" /\ proc'[w].pc = "idle" /\ UNCHANGED << made, unlogged >>
        /\ history'[HomeOf[w]] = proc[w].entries
    BY <1>0, <1>14, FinishFields DEF FillHistory, At, seen
  <2> QED BY <1>00, <2>1 DEF LogOK, Writing
<1>15. CASE StageFails(w)
  <2>1. proc[w].pc \in Stages /\ UNCHANGED unlogged BY <1>15 DEF StageFails, seen
  <2> QED BY <1>00, <1>15, <2>1, FailuresHaveCause DEF LogOK, Writing
<1>16. CASE SaveFails(w)
  <2>1. HomeOf[w] \in unlogged' BY <1>16 DEF SaveFails
  <2> QED BY <1>16, <2>1, FailuresHaveCause DEF LogOK, Writing
<1> QED BY <1>1, <1>2, <1>3, <1>4, <1>5, <1>6, <1>7, <1>8, <1>9, <1>10, <1>11, <1>12, <1>13,
           <1>14, <1>15, <1>16, <1>17, <1>18
        DEF ProcessStep, ReaderStep, ProgressStep, StageStep, HistoryStep

LEMMA LogHolds == ASSUME Alone PROVE Spec => []LogInv
<1>1. Init => LogInv
  <2> SUFFICES ASSUME Init PROVE LogInv OBVIOUS
  <2>1. \A h \in Homes : \A l \in Lines : made[h][l] = 0 BY DEF Init
  <2>2. \A w \in Workers : proc[w].pc = "starting" /\ HomeOf[w] \in Homes
    BY HomeAssumption DEF Init, Down
  <2> QED BY <2>1, <2>2 DEF LogInv, Unused, LogOK, Writing, Stages, Logging
<1>2. TypeOK /\ IndexInv /\ MaterialInv /\ LogInv /\ [Next]_vars => LogInv'
  <2> SUFFICES ASSUME TypeOK, IndexInv, MaterialInv, LogInv, [Next]_vars PROVE LogInv' OBVIOUS
  <2>1. CASE Midnight \/ UNCHANGED vars
    <3>1. UNCHANGED << proc, history, made, unlogged >> BY <2>1 DEF Midnight, vars, files, seen
    <3> QED BY <3>1 DEF LogInv, Unused, LogOK, Writing
  <2> QED BY <2>1, LogStep DEF Next
<1> QED BY <1>1, <1>2, AloneHolds, PTL DEF Spec

(* Every video is in history.json: the save rewrites the whole file from what was    *)
(* loaded, and only a failure or crash between the rendering and its end cuts it.    *)
(* The worker shares its files with no other.                                        *)
THEOREM HistoryCompleteHolds == ASSUME Alone PROVE Spec => []HistoryComplete
<1>1. LogInv => HistoryComplete
  <2> SUFFICES ASSUME LogInv, NEW h \in Homes \ unlogged, NEW l \in Lines, made[h][l] > 0,
                      \A w \in Workers : HomeOf[w] = h => proc[w].pc \notin Logging
               PROVE  Entered(l, history[h])
    BY DEF HistoryComplete, Entered
  <2>1. PICK w \in Workers : HomeOf[w] = h BY DEF LogInv, Unused
  <2> QED BY <2>1 DEF LogInv, LogOK
<1> QED BY <1>1, LogHolds, PTL

-------------------------------------------------------------------------------
(* Turns *)

Turn == {LineAt(i) : i \in {j \in 0 .. NumLines : 2 * j + 1 < NumLines}} \ Unspeakable

(* What an index x says of line l: it has had its turn in this round, it is about to *)
(* have an extra one (Python counts an index below 0 from the end), or neither.      *)
Score(l, x) ==
  IF x >= 0 /\ l < 2 * x THEN 1
  ELSE IF x < 0 /\ NumLines % 2 = 0 /\ l > NumLines + 2 * x THEN -1
  ELSE 0

(* The index of the next line that will become a video. *)
Position(w) ==
  LET p == proc[w]
      i == progress[HomeOf[w]]
  IN
  IF Writing(p, "caught") \/ Writing(p, "no_text") THEN p.put
  ELSE IF p.pc \in {"pick", "text"} \cup Stages \/ Writing(p, "pick") \/ Writing(p, "text") THEN p.index
  ELSE IF p.pc \in Logging THEN p.index + 1
  ELSE IF p.pc = "rollback" THEN i - 1
  ELSE i

(* The index file is not where the line in hand says: a failure still to take effect. *)
Astray(w) == proc[w].pc \in {"text"} \cup Stages \cup Logging /\ progress[HomeOf[w]] # proc[w].index + 1

(* The failures that have taken effect. *)
Credit(w) == faults + crashes - (IF Astray(w) THEN 1 ELSE 0)

(* The counts of any two lines differ by what their scores do and c. *)
Fair(m, x, c) == \A a, b \in Turn : m[a] <= m[b] + c + Score(a, x) - Score(b, x)

TurnOK(w) ==
  LET p == proc[w] IN
  /\ Fair(made[HomeOf[w]], Position(w), Credit(w))
  /\ p.pc = "pick" /\ p.index # 0 => progress[HomeOf[w]] = p.index
  /\ p.pc \in {"text"} \cup Stages \/ Writing(p, "text") =>
       p.line = LineAt(p.index) /\ -NumLines <= 2 * p.index /\ 2 * p.index + 1 < NumLines
  /\ Writing(p, "text") => p.put = p.index + 1
TurnInv == \A w \in Workers : TurnOK(w)

LEMMA RemainderFacts ==
  ASSUME NEW n \in Nat, n > 0, NEW m \in Int
  PROVE  /\ 0 <= m /\ m < n => m % n = m
         /\ -n <= m /\ m < 0 => m % n = m + n
OBVIOUS

LEMMA EvenFacts == NumLines % 2 = 0 => \E q \in Nat : NumLines = 2 * q
<1>1. NumLines \in Nat BY LinesAssumption
<1> QED BY <1>1

LEMMA LineAtValues ==
  ASSUME NEW i \in Int
  PROVE  /\ 0 <= i /\ 2 * i + 1 < NumLines => LineAt(i) = 2 * i + 1
         /\ i < 0 /\ -NumLines <= 2 * i => LineAt(i) = 2 * i + 1 + NumLines
<1>1. NumLines \in Nat /\ NumLines > 0 /\ 2 * i + 1 \in Int BY LinesAssumption
<1>2. CASE 0 <= i /\ 2 * i + 1 < NumLines
  BY <1>1, <1>2, RemainderFacts DEF LineAt
<1>3. CASE i < 0 /\ -NumLines <= 2 * i
  BY <1>1, <1>3, RemainderFacts DEF LineAt
<1> QED BY <1>2, <1>3

LEMMA TurnFacts ==
  ASSUME NEW a \in Turn
  PROVE  a \in Lines /\ a \notin Unspeakable /\ a < NumLines /\ \E k \in Nat : a = 2 * k + 1
<1>1. PICK i \in 0 .. NumLines : 2 * i + 1 < NumLines /\ a = LineAt(i) BY DEF Turn
<1>2. a = 2 * i + 1 BY <1>1, LineAtValues, LinesAssumption
<1> QED BY <1>1, <1>2, LineAtFacts, LinesAssumption DEF Turn

(* Wherever the index jumps, one failure pays for it. *)
LEMMA ScoreJump ==
  ASSUME NEW a \in Turn, NEW b \in Turn, NEW x \in Int, NEW y \in Int
  PROVE  /\ Score(a, x) \in Int
         /\ Score(a, x) - Score(b, x) <= 1
         /\ Score(a, x) - Score(b, x) <= 1 + Score(a, y) - Score(b, y)
<1>1. a \in Nat /\ b \in Nat /\ NumLines \in Nat BY TurnFacts, LinesAssumption
<1> DEFINE even == NumLines % 2 = 0
<1> HIDE DEF even
<1> QED BY <1>1 DEF Score, even

(* Past the end of the script it starts again at 0. *)
LEMMA ScoreWrap ==
  ASSUME NEW a \in Turn, NEW x \in Int, 2 * x >= NumLines
  PROVE  Score(a, x) = 1 /\ Score(a, 0) = 0
BY TurnFacts, LinesAssumption DEF Score, Lines

(* A pair that is passed has had its turn, and nothing else changes. *)
LEMMA ScoreNext ==
  ASSUME NEW a \in Turn, NEW x \in Int, -NumLines <= 2 * x, 2 * x + 1 < NumLines
  PROVE  Score(a, x + 1) = Score(a, x) + (IF a = LineAt(x) THEN 1 ELSE 0)
<1>1. PICK k \in Nat : a = 2 * k + 1 BY TurnFacts
<1>2. a < NumLines /\ NumLines \in Nat BY TurnFacts, LinesAssumption
<1>3. CASE x >= 0
  BY <1>1, <1>2, <1>3, LineAtValues DEF Score
<1>4. CASE x < 0
  <2>1. LineAt(x) = 2 * x + 1 + NumLines BY <1>4, LineAtValues
  <2>2. CASE NumLines % 2 = 0
    <3>1. PICK q \in Nat : NumLines = 2 * q BY <2>2, EvenFacts
    <3> QED BY <1>1, <1>2, <1>4, <2>1, <2>2, <3>1 DEF Score
  <2>3. CASE NumLines % 2 # 0
    <3>1. a # LineAt(x)
      <4>1. \E q \in Nat : NumLines = 2 * q + 1 BY <1>2, <2>3
      <4> QED BY <1>1, <2>1, <4>1
    <3> QED BY <1>1, <1>2, <1>4, <2>3, <3>1 DEF Score
  <2> QED BY <2>2, <2>3
<1> QED BY <1>3, <1>4

(* A pair without a text to speak changes nothing. *)
LEMMA ScoreSkip ==
  ASSUME NEW a \in Turn, NEW x \in Int, -NumLines <= 2 * x,
         2 * x + 1 >= NumLines \/ LineAt(x) \in Unspeakable
  PROVE  Score(a, x + 1) = Score(a, x)
<1>1. PICK k \in Nat : a = 2 * k + 1 BY TurnFacts
<1>2. a < NumLines /\ NumLines \in Nat /\ NumLines >= 2 BY TurnFacts, LinesAssumption
<1>3. CASE 2 * x + 1 >= NumLines
  BY <1>1, <1>2, <1>3 DEF Score
<1>4. CASE 2 * x + 1 < NumLines
  <2>1. a # LineAt(x) BY <1>2, <1>4, TurnFacts
  <2>2. Score(a, x) \in Int BY ScoreJump
  <2> QED BY <1>4, <2>1, <2>2, ScoreNext
<1> QED BY <1>2, <1>3, <1>4

LEMMA FairJumps ==
  ASSUME NEW m \in [Lines -> Nat], NEW x \in Int, NEW y \in Int, NEW c \in Int, NEW d \in Int,
         Fair(m, x, c), \/ y = x /\ d >= c
                        \/ d >= c + 1
  PROVE  Fair(m, y, d)
<1> SUFFICES ASSUME NEW a \in Turn, NEW b \in Turn
             PROVE  m[a] <= m[b] + d + Score(a, y) - Score(b, y)
  BY DEF Fair
<1>1. m[a] \in Nat /\ m[b] \in Nat BY TurnFacts
<1>2. Score(a, x) \in Int /\ Score(b, x) \in Int /\ Score(a, y) \in Int /\ Score(b, y) \in Int
  BY ScoreJump
<1>3. Score(a, x) - Score(b, x) <= 1 + Score(a, y) - Score(b, y) BY ScoreJump
<1>4. m[a] <= m[b] + c + Score(a, x) - Score(b, x) BY DEF Fair
<1> QED BY <1>1, <1>2, <1>3, <1>4

(* Scores that change alike do not matter. *)
LEMMA FairShifts ==
  ASSUME NEW m \in [Lines -> Nat], NEW x \in Int, NEW y \in Int, NEW c \in Int, Fair(m, x, c),
         \A a, b \in Turn : Score(a, y) - Score(b, y) = Score(a, x) - Score(b, x)
  PROVE  Fair(m, y, c)
<1> SUFFICES ASSUME NEW a \in Turn, NEW b \in Turn
             PROVE  m[a] <= m[b] + c + Score(a, y) - Score(b, y)
  BY DEF Fair
<1>1. m[a] \in Nat /\ m[b] \in Nat BY TurnFacts
<1>2. Score(a, x) \in Int /\ Score(b, x) \in Int /\ Score(a, y) \in Int /\ Score(b, y) \in Int
  BY ScoreJump
<1>3. Score(a, y) - Score(b, y) = Score(a, x) - Score(b, x) OBVIOUS
<1>4. m[a] <= m[b] + c + Score(a, x) - Score(b, x) BY DEF Fair
<1> QED BY <1>1, <1>2, <1>3, <1>4

(* The video of a line counts for it as its turn is over. *)
LEMMA FairCounts ==
  ASSUME NEW m \in [Lines -> Nat], NEW x \in Int, NEW c \in Int, Fair(m, x, c),
         -NumLines <= 2 * x, 2 * x + 1 < NumLines
  PROVE  Fair([m EXCEPT ![LineAt(x)] = @ + 1], x + 1, c)
<1> DEFINE n == [m EXCEPT ![LineAt(x)] = @ + 1]
<1> SUFFICES ASSUME NEW a \in Turn, NEW b \in Turn
             PROVE  n[a] <= n[b] + c + Score(a, x + 1) - Score(b, x + 1)
  BY DEF Fair
<1>1. a \in Lines /\ b \in Lines /\ m[a] \in Nat /\ m[b] \in Nat BY TurnFacts
<1>2. /\ n[a] = m[a] + (IF a = LineAt(x) THEN 1 ELSE 0)
      /\ n[b] = m[b] + (IF b = LineAt(x) THEN 1 ELSE 0)
  BY <1>1
<1> HIDE DEF n
<1>3. Score(a, x) \in Int /\ Score(b, x) \in Int BY ScoreJump
<1>4. /\ Score(a, x + 1) = Score(a, x) + (IF a = LineAt(x) THEN 1 ELSE 0)
      /\ Score(b, x + 1) = Score(b, x) + (IF b = LineAt(x) THEN 1 ELSE 0)
  BY ScoreNext
<1>5. m[a] <= m[b] + c + Score(a, x) - Score(b, x) BY DEF Fair
<1> QED BY <1>1, <1>2, <1>3, <1>4, <1>5

LEMMA TurnTypes ==
  ASSUME TypeOK, NEW w \in Workers
  PROVE  /\ proc[w].pc \in PCs /\ proc[w].then \in Nexts
         /\ proc[w].index \in Int /\ proc[w].put \in Int /\ progress[HomeOf[w]] \in Int
         /\ HomeOf[w] \in Homes /\ made[HomeOf[w]] \in [Lines -> Nat]
         /\ faults \in Nat /\ crashes \in Nat
         /\ Position(w) \in Int /\ Credit(w) \in Int
<1>1. proc \in Processes BY DEF TypeOK, Processes
<1>2. /\ proc[w].pc \in PCs /\ proc[w].then \in Nexts
      /\ proc[w].index \in Int /\ proc[w].put \in Int /\ progress[HomeOf[w]] \in Int
      /\ HomeOf[w] \in Homes /\ made[HomeOf[w]] \in [Lines -> Nat]
      /\ faults \in Nat /\ crashes \in Nat
  BY <1>1, ProcFacts, HomeAssumption, PipelineBounds DEF TypeOK
<1> QED BY <1>2 DEF Position, Credit

LEMMA TurnStep ==
  ASSUME Alone, TypeOK, TypeOK', IndexInv, MaterialInv, TurnInv, NEW w \in Workers,
         ProcessStep(w) \/ ReaderStep(w) \/ ProgressStep(w) \/ StageStep(w) \/ HistoryStep(w)
  PROVE  TurnInv'
<1> DEFINE p == proc[w]
           i == progress[HomeOf[w]]
           Plan == /\ p.pc = "pick" /\ p.index # 0 => i = p.index
                   /\ p.pc \in {"text"} \cup Stages \/ Writing(p, "text") =>
                        p.line = LineAt(p.index) /\ -NumLines <= 2 * p.index /\ 2 * p.index + 1 < NumLines
                   /\ Writing(p, "text") => p.put = p.index + 1
           Stay == Position(w)' = Position(w) /\ Credit(w)' >= Credit(w)
           Jump == Credit(w)' >= Credit(w) + 1
           Turns == Fair(made[HomeOf[w]], Position(w), Credit(w))
<1> USE DEF Stages, Logging, SameLine, SamePlan
<1>0. /\ proc \in [Workers -> Process] /\ p.pc \in PCs /\ p.then \in Nexts
      /\ p.index \in Int /\ p.put \in Int /\ i \in Int
      /\ HomeOf[w] \in Homes /\ made[HomeOf[w]] \in [Lines -> Nat]
      /\ faults \in Nat /\ crashes \in Nat
      /\ Position(w) \in Int /\ Credit(w) \in Int
  BY TurnTypes DEF TypeOK
<1>1. Position(w)' \in Int /\ Credit(w)' \in Int /\ i' \in Int
  <2>1. /\ p'.index \in Int /\ p'.put \in Int /\ i' \in Int /\ faults' \in Nat /\ crashes' \in Nat
    BY HomeAssumption, PipelineBounds DEF TypeOK, Process
  <2> QED BY <2>1 DEF Position, Credit
<1>2. TurnOK(w) /\ Plan /\ Turns BY DEF TurnInv, TurnOK
<1>3. ~Writing(p, "idle") /\ (Writing(p, "pick") => p.put = 0 /\ p.index = 0) BY DEF IndexInv, IndexOK
<1> SUFFICES Turns' /\ Plan' BY DEF Alone, TurnInv, TurnOK
<1>4. ASSUME UNCHANGED made, Stay \/ Jump PROVE Turns'
  BY <1>0, <1>1, <1>2, <1>4, FairJumps
<1> HIDE DEF Turns
<1>5. ASSUME ~Fuse(w), Stay \/ Jump PROVE Turns'
  BY <1>4, <1>5, MadeSteps
<1>55. ASSUME UNCHANGED crashes, faults' = faults \/ faults' = faults + 1, Astray(w)' <=> Astray(w)
       PROVE  Credit(w)' >= Credit(w)
  <2>1. CASE faults' = faults BY <1>0, <1>55, <2>1 DEF Credit
  <2>2. CASE faults' = faults + 1 BY <1>0, <1>55, <2>2 DEF Credit
  <2> QED BY <1>55, <2>1, <2>2
<1>6. CASE Start(w) \/ TakeJob(w)
  <2>1. /\ p.pc \in {"starting", "idle"} /\ p'.pc \in {"starting", "idle", "read"} /\ UNCHANGED << progress, crashes >>
        /\ faults' = faults \/ faults' = faults + 1
    <3>1. CASE Start(w) BY <1>0, <3>1, ProcessFields DEF ProcessStep, Start, At, files, Fault
    <3>2. CASE TakeJob(w) BY <1>0, <3>2, ProcessFields DEF ProcessStep, TakeJob, At, files
    <3> QED BY <1>6, <3>1, <3>2
  <2>2. Position(w)' = Position(w) BY <1>0, <2>1 DEF Position, Writing
  <2>3. ~Astray(w) /\ ~Astray(w)' BY <2>1 DEF Astray
  <2>4. Stay BY <1>55, <2>1, <2>2, <2>3
  <2> QED BY <1>5, <1>6, <2>1, <2>4 DEF Start, TakeJob, Fuse, At, Writing
<1>7. CASE Crash(w)
  <2>1. p'.pc = "starting" /\ faults' = faults /\ crashes' = crashes + 1
    BY <1>0, <1>7 DEF Crash, Become, Down
  <2>2. Jump BY <1>0, <2>1 DEF Credit, Astray
  <2>3. ~Fuse(w) BY <1>0, <2>1, FuseFields
  <2> QED BY <1>5, <2>1, <2>2, <2>3 DEF Writing
<1>8. CASE ReadProgress(w)
  <2>1. p.pc = "read" /\ UNCHANGED << progress, faults, crashes, made >> /\ Position(w) = i
    BY <1>8 DEF ReadProgress, At, files, seen, Position, Writing
  <2>2. CASE p'.pc = "pick" /\ p'.index = i
    <3>1. Stay BY <1>0, <2>1, <2>2 DEF Position, Credit, Astray, Writing
    <3> QED BY <1>4, <2>1, <2>2, <3>1 DEF Writing
  <2>3. CASE p'.pc = "write" /\ p'.then = "pick" /\ p'.index = 0 /\ 2 * i >= NumLines
    <3>1. Position(w)' = 0 /\ Credit(w)' = Credit(w)
      BY <1>0, <2>1, <2>3 DEF Position, Credit, Astray, Writing
    <3>2. \A a, b \in Turn : Score(a, 0) - Score(b, 0) = Score(a, i) - Score(b, i)
      BY <1>0, <2>3, ScoreWrap
    <3>3. Turns' BY <1>0, <1>2, <2>1, <3>1, <3>2, FairShifts DEF Turns
    <3> QED BY <2>3, <3>3 DEF Writing
  <2> QED BY <1>8, <2>2, <2>3, ReadFields
<1>9. CASE PickLine(w)
  <2>1. p.pc = "pick" /\ UNCHANGED << progress, faults, crashes, made >> /\ Position(w) = p.index
    BY <1>9 DEF PickLine, At, files, seen, Position, Writing
  <2>2. CASE p'.pc = "idle" /\ 2 * p.index < -NumLines
    <3>1. i = p.index BY <1>0, <1>2, <2>1, <2>2, LinesAssumption
    <3>2. Stay BY <1>0, <2>1, <2>2, <3>1 DEF Position, Credit, Astray, Writing
    <3> QED BY <1>4, <2>1, <2>2, <3>2 DEF Writing
  <2>3. CASE /\ p'.pc = "write" /\ p'.then = "text" /\ p'.index = p.index /\ p'.put = p.index + 1
             /\ p'.line = LineAt(p.index) /\ 2 * p.index >= -NumLines /\ 2 * p.index + 1 < NumLines
    <3>1. Stay BY <1>0, <2>1, <2>3 DEF Position, Credit, Astray, Writing
    <3>2. -NumLines <= 2 * p.index BY <1>0, <2>3, LinesAssumption
    <3> QED BY <1>4, <2>1, <2>3, <3>1, <3>2 DEF Writing
  <2>4. CASE /\ p'.pc = "write" /\ p'.then = "no_text" /\ p'.put = p.index + 1 /\ 2 * p.index >= -NumLines
             /\ 2 * p.index + 1 >= NumLines \/ LineAt(p.index) \in Unspeakable
    <3>1. Position(w)' = p.index + 1 /\ Credit(w)' = Credit(w)
      BY <1>0, <2>1, <2>4 DEF Position, Credit, Astray, Writing
    <3>2. -NumLines <= 2 * p.index BY <1>0, <2>4, LinesAssumption
    <3>3. \A a, b \in Turn : /\ Score(a, p.index + 1) = Score(a, p.index)
                             /\ Score(b, p.index + 1) = Score(b, p.index)
      BY <1>0, <2>4, <3>2, ScoreSkip
    <3>4. Turns' BY <1>0, <1>1, <1>2, <2>1, <3>1, <3>3, FairShifts DEF Turns
    <3> QED BY <2>4, <3>4 DEF Writing
  <2> QED BY <1>9, <2>2, <2>3, <2>4, PickFields
<1>10. CASE InputFails(w) \/ Mute(w) \/ ReturnCaught(w)
  <2>1. /\ p'.pc = "idle" /\ p.pc \in {"read", "no_text", "caught"} /\ UNCHANGED << progress, crashes >>
        /\ faults' = faults \/ faults' = faults + 1
    BY <1>0, <1>10, NoTextFields, FinishFields DEF InputFails, Mute, ReturnCaught, At, Fault, files
  <2>2. Position(w)' = Position(w) BY <1>0, <2>1 DEF Position, Writing
  <2>3. ~Astray(w) /\ ~Astray(w)' BY <2>1 DEF Astray
  <2>4. Stay BY <1>55, <2>1, <2>2, <2>3
  <2> QED BY <1>5, <2>1, <2>4 DEF Fuse, At, Writing
<1>11. CASE EmptyProgress(w)
  <2>1. p'.pc = "fill" /\ p.pc = "write" /\ SamePlan(w) /\ UNCHANGED << faults, crashes >>
    BY <1>0, <1>11, GotoFields DEF EmptyProgress, At
  <2>2. Stay BY <1>0, <1>3, <2>1 DEF Position, Credit, Astray, Writing, Nexts
  <2> QED BY <1>2, <1>5, <2>1, <2>2 DEF Fuse, At, Writing
<1>12. CASE FillProgress(w)
  <2>1. /\ p'.pc = p.then /\ p.pc = "fill" /\ SamePlan(w) /\ i' = p.put /\ UNCHANGED << faults, crashes >>
    BY <1>0, <1>12, GotoFields DEF FillProgress, At, TypeOK
  <2>2. Stay BY <1>0, <1>2, <1>3, <2>1 DEF Position, Credit, Astray, Writing, Nexts
  <2> QED BY <1>0, <1>2, <1>3, <1>5, <2>1, <2>2 DEF Fuse, At, Writing, Nexts
<1>13. CASE WriteFails(w)
  <2>1. /\ p'.pc = p.then /\ p.pc \in {"write", "fill"} /\ SamePlan(w) /\ UNCHANGED << progress, crashes >>
        /\ faults' = faults + 1
    BY <1>0, <1>13, GotoFields DEF WriteFails, Fault, files
  <2>2. Stay \/ Jump BY <1>0, <1>2, <1>3, <2>1 DEF Position, Credit, Astray, Writing, Nexts
  <2> QED BY <1>0, <1>2, <1>3, <1>5, <2>1, <2>2 DEF Fuse, At, Writing, Nexts
<1>14. CASE RollBack(w)
  <2>1. /\ p.pc = "rollback" /\ p'.pc = "write" /\ p'.then = "caught" /\ p'.put = i - 1
        /\ UNCHANGED << faults, crashes >>
    BY <1>0, <1>14, WriteFields DEF RollBack, At
  <2>2. Stay BY <1>0, <2>1 DEF Position, Credit, Astray, Writing
  <2> QED BY <1>5, <2>1, <2>2 DEF Fuse, At, Writing
<1>20. CASE ReadProgressFails(w)
  <2>1. /\ p.pc = "read" /\ p'.pc = "pick" /\ p'.index = 0 /\ faults' = faults + 1
        /\ UNCHANGED << crashes, made >>
    BY <1>20, ReadFailsFields DEF seen
  <2>2. Jump BY <1>0, <2>1 DEF Credit, Astray
  <2> QED BY <1>4, <2>1, <2>2 DEF Writing
<1>21. CASE RollBackFails(w)
  <2>1. /\ p.pc = "rollback" /\ p'.pc = "write" /\ p'.then = "caught" /\ faults' = faults + 1
        /\ UNCHANGED << crashes, made >>
    BY <1>21, RollBackFailsFields DEF seen
  <2>2. Jump BY <1>0, <2>1 DEF Credit, Astray
  <2> QED BY <1>4, <2>1, <2>2 DEF Writing
<1>15. CASE TextFails(w) \/ StageFails(w) \/ SaveFails(w)
  <2>1. /\ p'.pc \in {"idle", "rollback"} /\ faults' = faults + 1 /\ UNCHANGED << crashes, made >>
    BY <1>0, <1>15, FailuresHaveCause, FinishFields DEF TextFails, Fault, seen
  <2>2. Jump BY <1>0, <2>1 DEF Credit, Astray
  <2> QED BY <1>4, <2>1, <2>2 DEF Writing
<1>16. CASE WriteText(w) \/ Synthesize(w) \/ Concat(w) \/ Subtitle(w) \/ DrawCanvas(w)
  <2>1. /\ p.pc \in {"text", "voice", "concat", "align", "canvas"} /\ p'.pc \in Stages /\ SameLine(w)
        /\ UNCHANGED << progress, faults, crashes >>
    BY <1>0, <1>16, GotoFields, TextFields
       DEF WriteText, Synthesize, Concat, Subtitle, DrawCanvas, At, files
  <2>2. Stay BY <1>0, <2>1 DEF Position, Credit, Astray, Writing
  <2> QED BY <1>2, <1>5, <2>1, <2>2 DEF Fuse, At, Writing
<1>17. CASE Fuse(w)
  <2>1. /\ p.pc = "fuse" /\ p'.pc = "load" /\ SameLine(w) /\ UNCHANGED << progress, faults, crashes >>
    BY <1>17, FuseFields DEF Fuse, At
  <2>2. Position(w) = p.index /\ Position(w)' = p.index + 1 /\ Credit(w)' = Credit(w)
    BY <1>0, <2>1 DEF Position, Credit, Astray, Writing
  <2>3. made'[HomeOf[w]] = [made[HomeOf[w]] EXCEPT ![LineAt(p.index)] = @ + 1]
    BY <1>0, <1>2, <1>17, <2>1 DEF Fuse, TypeOK
  <2>4. Turns' BY <1>0, <1>2, <2>1, <2>2, <2>3, FairCounts DEF Turns
  <2> QED BY <2>1, <2>4 DEF Writing
<1>18. CASE LoadHistory(w) \/ LoadFails(w) \/ EmptyHistory(w)
  <2>1. /\ p.pc \in {"load", "save"} /\ p'.pc \in {"save", "saving"} /\ p'.index = p.index
        /\ UNCHANGED << progress, crashes >> /\ (faults' = faults \/ faults' = faults + 1)
    <3>1. CASE LoadHistory(w) BY <1>0, <3>1, LoadFields DEF LoadHistory, At, files
    <3>2. CASE LoadFails(w) BY <1>0, <3>2, LoadFields DEF LoadFails, At, Fault, files
    <3>3. CASE EmptyHistory(w) BY <1>0, <3>3, GotoFields DEF EmptyHistory, At
    <3> QED BY <1>18, <3>1, <3>2, <3>3
  <2>2. Position(w)' = Position(w) BY <1>0, <2>1 DEF Position, Writing
  <2>3. Astray(w)' <=> Astray(w) BY <2>1 DEF Astray
  <2>4. Stay BY <1>55, <2>1, <2>2, <2>3
  <2> QED BY <1>5, <2>1, <2>4 DEF Fuse, At, Writing
<1>19. CASE FillHistory(w)
  <2>1. /\ p.pc = "saving" /\ p'.pc = "idle" /\ UNCHANGED << progress, faults, crashes >>
    BY <1>0, <1>19, FinishFields DEF FillHistory, At
  <2>2. Stay \/ Jump BY <1>0, <2>1 DEF Position, Credit, Astray, Writing
  <2> QED BY <1>5, <2>1, <2>2 DEF Fuse, At, Writing
<1> QED BY <1>6, <1>7, <1>8, <1>9, <1>10, <1>11, <1>12, <1>13, <1>14, <1>15, <1>16, <1>17, <1>18, <1>19,
           <1>20, <1>21
        DEF ProcessStep, ReaderStep, ProgressStep, StageStep, HistoryStep

(* The script is read in turn: at any time the videos of two lines differ by one for  *)
(* the round under way and one for each failure or crash, although the index is taken *)
(* back, emptied, left behind by a crash and below 0 for a while. The worker shares   *)
(* its files with no other.                                                           *)
THEOREM RoundRobinHolds == ASSUME Alone PROVE Spec => []RoundRobin
<1>1. Init => TurnInv
  <2> SUFFICES ASSUME Init, NEW w \in Workers PROVE TurnOK(w) BY DEF TurnInv
  <2>1. proc[w].pc = "starting" /\ progress[HomeOf[w]] = 0 /\ faults = 0 /\ crashes = 0
    BY HomeAssumption DEF Init, Down
  <2>2. Position(w) = 0
    <3>1. \A next : ~Writing(proc[w], next) BY <2>1 DEF Writing
    <3> QED BY <2>1, <3>1 DEF Position, Stages, Logging
  <2>4. Credit(w) = 0
    <3>1. ~Astray(w) BY <2>1 DEF Astray, Stages, Logging
    <3>2. Credit(w) = faults + crashes - 0 BY <3>1, Zenon DEF Credit
    <3> QED BY <2>1, <3>2
  <2>3. Fair(made[HomeOf[w]], 0, 0)
    <3> SUFFICES ASSUME NEW a \in Turn, NEW b \in Turn
                 PROVE  made[HomeOf[w]][a] <= made[HomeOf[w]][b] + 0 + Score(a, 0) - Score(b, 0)
      BY DEF Fair
    <3>1. made[HomeOf[w]][a] = 0 /\ made[HomeOf[w]][b] = 0 BY HomeAssumption, TurnFacts DEF Init
    <3>2. Score(a, 0) = 0 /\ Score(b, 0) = 0 BY TurnFacts DEF Score, Lines
    <3> QED BY <3>1, <3>2
  <2> QED BY <2>1, <2>2, <2>3, <2>4 DEF TurnOK, Writing, Stages
<1>2. TypeOK /\ TypeOK' /\ IndexInv /\ MaterialInv /\ TurnInv /\ [Next]_vars => TurnInv'
  <2> SUFFICES ASSUME TypeOK, TypeOK', IndexInv, MaterialInv, TurnInv, [Next]_vars PROVE TurnInv' OBVIOUS
  <2>1. CASE Midnight \/ UNCHANGED vars
    <3>1. UNCHANGED << proc, progress, made, faults, crashes >> BY <2>1 DEF Midnight, vars, files, seen
    <3> QED BY <3>1 DEF TurnInv, TurnOK, Position, Credit, Astray, Fair, Writing
  <2> QED BY <2>1, TurnStep DEF Next
<1>3. TypeOK /\ TurnInv /\ Unused => RoundRobin
  <2> SUFFICES ASSUME TypeOK, TurnInv, Unused, NEW h \in Homes, NEW a \in Turn, NEW b \in Turn
               PROVE  made[h][a] <= made[h][b] + 1 + faults + crashes
    BY DEF RoundRobin, Turn
  <2>0. a \in Lines /\ b \in Lines /\ made[h][a] \in Nat /\ made[h][b] \in Nat /\ faults \in Nat /\ crashes \in Nat
    BY TurnFacts, PipelineBounds DEF TypeOK
  <2>1. CASE \E w \in Workers : HomeOf[w] = h
    <3>1. PICK w \in Workers : HomeOf[w] = h BY <2>1
    <3>2. Position(w) \in Int /\ Credit(w) \in Int /\ Credit(w) <= faults + crashes
      BY <2>0, TurnTypes DEF Credit
    <3>3. /\ Score(a, Position(w)) \in Int /\ Score(b, Position(w)) \in Int
          /\ Score(a, Position(w)) - Score(b, Position(w)) <= 1
      BY <3>2, ScoreJump
    <3>4. made[h][a] <= made[h][b] + Credit(w) + Score(a, Position(w)) - Score(b, Position(w))
      BY <3>1 DEF TurnInv, TurnOK, Fair
    <3> QED BY <2>0, <3>2, <3>3, <3>4
  <2>2. CASE \A w \in Workers : HomeOf[w] # h
    BY <2>0, <2>2 DEF Unused
  <2> QED BY <2>1, <2>2
<1>4. LogInv => Unused BY DEF LogInv
<1> QED BY <1>1, <1>2, <1>3, <1>4, AloneHolds, LogHolds, PTL DEF Spec
=============================================================================
