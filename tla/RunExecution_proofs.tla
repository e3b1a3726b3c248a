------------------------ MODULE RunExecution_proofs -------------------------
(***************************************************************************)
(* The invariants of RunExecution hold for any number of runs, workers and *)
(* stages and for every set of faults, a terminal status is final, and the *)
(* protocol implements RunLifecycle.  At the end, five more invariants are *)
(* proved: two for every set of faults, and three under the assumption     *)
(* that the one fault that breaks them does not happen.                    *)
(*                                                                         *)
(* The inductive invariant IInv has six parts, each proved to be preserved *)
(* by the groups of actions of Next in turn:                               *)
(*   JobOK          a job's record is typed and a started job has a worker *)
(*   SideOK, RecOK  the types of the other variables                       *)
(*   TableInv       the invariant of RunTable_proofs                       *)
(*   PhasesOK       what a job's counter says of the committed row         *)
(*   LocksAreShort  what a row lock says of its holder                     *)
(***************************************************************************)
EXTENDS RunExecution, RunTable_proofs

\* A job's record is well formed, and a job that has started has a worker.
JobOK ==
  /\ job \in [Runs -> Job]
  /\ \A r \in Runs : job[r].pc # "ready" => job[r].on \in Workers

\* The reclaim cron's candidates were read from the table.
RecOK ==
  /\ rec \in [pc : {"idle", "lost", "mark", "stale"}, todo : SUBSET Candidate,
              cur : Candidate \union {None}, kids : SUBSET Runs]
  /\ rec.pc = "mark" => rec.cur \in Candidate

\* The types of the remaining variables.
SideOK ==
  /\ sig \in [Runs -> {"deaf", "listening", "signalled", "stopping"}]
  /\ ctr \in [Runs -> {"none", "created", "running", "exited", "left"}]
  /\ alive \subseteq Workers
  /\ beat \subseteq Workers
  /\ api \in [Runs -> {"idle", "asking", "holding", "sent", "done"}]
  /\ hash \in [Runs -> Status \union {None}]
  /\ noted \in [Runs -> Reportable \union {None}]
  /\ retries \in [Runs -> Nat]
  /\ late \in [Runs -> Nat]

\* The task of run r moves to pc, and no other task moves.
MovesTo(r, pc) ==
  /\ job'[r].pc = pc
  /\ \A q \in Runs : q # r => job'[q] = job[q]

\* It moves without another worker, stage or exit; and without having heard
\* of a cancel.
SameWork(r) ==
  /\ job'[r].on = job[r].on
  /\ job'[r].stage = job[r].stage
  /\ job'[r].exit = job[r].exit

SameTold(r) == job'[r].told = job[r].told

\* Its session is as usable as it was.
SameSession(r) == job'[r].broken = job[r].broken

USE DEF At

\* A task that gets a new, well-formed record is the only one that moves.
LEMMA JobUpdate ==
  ASSUME JobOK, NEW r \in Runs, NEW j \in Job, Become(r, j),
         j.pc # "ready" => j.on \in Workers
  PROVE  JobOK' /\ MovesTo(r, j.pc) /\ job'[r] = j
BY DEF JobOK, Become, MovesTo

\* The forms in which an action writes the record of a started task.
LEMMA JobGoto ==
  ASSUME JobOK, NEW r \in Runs, job[r].pc # "ready",
         NEW pc \in Counters, Goto(r, pc)
  PROVE  JobOK' /\ MovesTo(r, pc) /\ SameWork(r) /\ SameTold(r) /\ SameSession(r)
<1> DEFINE j == [job[r] EXCEPT !.pc = pc]
<1>1. job[r] \in Job /\ job[r].on \in Workers
  BY DEF JobOK
<1>2. /\ j \in Job /\ j.on = job[r].on /\ j.pc = pc
      /\ j.stage = job[r].stage /\ j.exit = job[r].exit /\ j.told = job[r].told
      /\ j.broken = job[r].broken
  BY <1>1 DEF Job
<1>3. Become(r, j)
  BY DEF Goto
<1> HIDE DEF j
<1> QED
  BY <1>1, <1>2, <1>3, JobUpdate DEF SameWork, SameTold, SameSession

LEMMA JobReturn ==
  ASSUME JobOK, NEW r \in Runs, job[r].pc # "ready",
         NEW pc \in Counters, NEW s \in Status \union {None}, Return(r, pc, s)
  PROVE  JobOK' /\ MovesTo(r, pc) /\ SameWork(r) /\ SameTold(r) /\ SameSession(r)
<1> DEFINE j == [job[r] EXCEPT !.pc = pc, !.ret = s]
<1>1. job[r] \in Job /\ job[r].on \in Workers
  BY DEF JobOK
<1>2. /\ j \in Job /\ j.on = job[r].on /\ j.pc = pc
      /\ j.stage = job[r].stage /\ j.exit = job[r].exit /\ j.told = job[r].told
      /\ j.broken = job[r].broken
  BY <1>1 DEF Job
<1>3. Become(r, j)
  BY DEF Return
<1> HIDE DEF j
<1> QED
  BY <1>1, <1>2, <1>3, JobUpdate DEF SameWork, SameTold, SameSession

LEMMA JobThrow ==
  ASSUME JobOK, NEW r \in Runs, job[r].pc # "ready",
         NEW infra \in BOOLEAN, Throw(r, infra)
  PROVE  JobOK' /\ MovesTo(r, "raised") /\ SameWork(r) /\ SameTold(r) /\ SameSession(r)
<1> DEFINE j == [job[r] EXCEPT !.pc = "raised", !.infra = infra]
<1>1. job[r] \in Job /\ job[r].on \in Workers
  BY DEF JobOK
<1>2. /\ j \in Job /\ j.on = job[r].on /\ j.pc = "raised"
      /\ j.stage = job[r].stage /\ j.exit = job[r].exit /\ j.told = job[r].told
      /\ j.broken = job[r].broken
  BY <1>1 DEF Job, Counters, Beating, Executing
<1>3. Become(r, j)
  BY DEF Throw
<1> HIDE DEF j
<1> QED
  BY <1>1, <1>2, <1>3, JobUpdate DEF SameWork, SameTold, SameSession

LEMMA JobRefuse ==
  ASSUME JobOK, NEW r \in Runs, job[r].pc # "ready",
         NEW infra \in BOOLEAN,
         Become(r, [job[r] EXCEPT !.pc = "aborting", !.infra = infra])
  PROVE  JobOK' /\ MovesTo(r, "aborting") /\ SameWork(r) /\ SameTold(r) /\ SameSession(r)
<1> DEFINE j == [job[r] EXCEPT !.pc = "aborting", !.infra = infra]
<1>1. job[r] \in Job /\ job[r].on \in Workers
  BY DEF JobOK
<1>2. /\ j \in Job /\ j.on = job[r].on /\ j.pc = "aborting"
      /\ j.stage = job[r].stage /\ j.exit = job[r].exit /\ j.told = job[r].told
      /\ j.broken = job[r].broken
  BY <1>1 DEF Job, Counters, Beating, Executing
<1>3. Become(r, j)
  OBVIOUS
<1> HIDE DEF j
<1> QED
  BY <1>1, <1>2, <1>3, JobUpdate DEF SameWork, SameTold, SameSession

LEMMA JobProbes ==
  ASSUME JobOK, NEW r \in Runs, job[r].pc # "ready",
         NEW pc \in Counters, NEW b \in BOOLEAN,
         Become(r, [job[r] EXCEPT !.pc = pc, !.broken = b])
  PROVE  JobOK' /\ MovesTo(r, pc) /\ SameWork(r) /\ SameTold(r)
<1> DEFINE j == [job[r] EXCEPT !.pc = pc, !.broken = b]
<1>1. job[r] \in Job /\ job[r].on \in Workers
  BY DEF JobOK
<1>2. /\ j \in Job /\ j.on = job[r].on /\ j.pc = pc
      /\ j.stage = job[r].stage /\ j.exit = job[r].exit /\ j.told = job[r].told
  BY <1>1 DEF Job
<1>3. Become(r, j)
  OBVIOUS
<1> HIDE DEF j
<1> QED
  BY <1>1, <1>2, <1>3, JobUpdate DEF SameWork, SameTold

LEMMA JobCut ==
  ASSUME JobOK, NEW r \in Runs, job[r].pc # "ready",
         NEW pc \in Counters, Cut(r, pc)
  PROVE  JobOK' /\ MovesTo(r, pc) /\ SameWork(r) /\ SameTold(r) /\ job'[r].broken
<1> DEFINE j == [job[r] EXCEPT !.pc = pc, !.ret = None, !.broken = TRUE]
<1>1. job[r] \in Job /\ job[r].on \in Workers
  BY DEF JobOK
<1>2. /\ j \in Job /\ j.on = job[r].on /\ j.pc = pc /\ j.broken
      /\ j.stage = job[r].stage /\ j.exit = job[r].exit /\ j.told = job[r].told
  BY <1>1 DEF Job
<1>3. Become(r, j)
  BY DEF Cut
<1> HIDE DEF j
<1> QED
  BY <1>1, <1>2, <1>3, JobUpdate DEF SameWork, SameTold

LEMMA JobFails ==
  ASSUME JobOK, NEW r \in Runs, job[r].pc # "ready",
         NEW pc \in Counters, NEW infra \in BOOLEAN, NEW dead \in BOOLEAN,
         Become(r, [job[r] EXCEPT !.pc = pc, !.ret = None,
                                  !.infra = infra, !.broken = dead])
  PROVE  JobOK' /\ MovesTo(r, pc) /\ SameWork(r) /\ SameTold(r)
         /\ job'[r].broken = dead
<1> DEFINE j == [job[r] EXCEPT !.pc = pc, !.ret = None,
                               !.infra = infra, !.broken = dead]
<1>1. job[r] \in Job /\ job[r].on \in Workers
  BY DEF JobOK
<1>2. /\ j \in Job /\ j.on = job[r].on /\ j.pc = pc /\ j.broken = dead
      /\ j.stage = job[r].stage /\ j.exit = job[r].exit /\ j.told = job[r].told
  BY <1>1 DEF Job
<1>3. Become(r, j)
  OBVIOUS
<1> HIDE DEF j
<1> QED
  BY <1>1, <1>2, <1>3, JobUpdate DEF SameWork, SameTold

LEMMA JobTold ==
  ASSUME JobOK, NEW r \in Runs, job[r].pc # "ready",
         NEW pc \in Counters,
         Become(r, [job[r] EXCEPT !.pc = pc, !.told = TRUE])
  PROVE  JobOK' /\ MovesTo(r, pc) /\ SameWork(r)
<1> DEFINE j == [job[r] EXCEPT !.pc = pc, !.told = TRUE]
<1>1. job[r] \in Job /\ job[r].on \in Workers
  BY DEF JobOK
<1>2. /\ j \in Job /\ j.on = job[r].on /\ j.pc = pc
      /\ j.stage = job[r].stage /\ j.exit = job[r].exit
  BY <1>1 DEF Job
<1>3. Become(r, j)
  OBVIOUS
<1> HIDE DEF j
<1> QED
  BY <1>1, <1>2, <1>3, JobUpdate DEF SameWork, SameTold

LEMMA JobHears ==
  ASSUME JobOK, NEW r \in Runs, job[r].pc # "ready",
         Become(r, [job[r] EXCEPT !.told = TRUE])
  PROVE  JobOK' /\ MovesTo(r, job[r].pc) /\ SameWork(r)
         /\ SameSession(r)
<1> DEFINE j == [job[r] EXCEPT !.told = TRUE]
<1>1. job[r] \in Job /\ job[r].on \in Workers
  BY DEF JobOK
<1>2. /\ j \in Job /\ j.on = job[r].on /\ j.pc = job[r].pc
      /\ j.stage = job[r].stage /\ j.exit = job[r].exit
      /\ j.broken = job[r].broken
  BY <1>1 DEF Job
<1>3. Become(r, j)
  OBVIOUS
<1> HIDE DEF j
<1> QED
  BY <1>1, <1>2, <1>3, JobUpdate DEF SameWork, SameSession

LEMMA JobNextStage ==
  ASSUME JobOK, NEW r \in Runs, job[r].pc # "ready",
         NEW pc \in Counters, NEW n \in Nat,
         Become(r, [job[r] EXCEPT !.pc = pc, !.stage = n])
  PROVE  JobOK' /\ MovesTo(r, pc) /\ SameTold(r)
         /\ job'[r].on = job[r].on /\ job'[r].exit = job[r].exit
<1> DEFINE j == [job[r] EXCEPT !.pc = pc, !.stage = n]
<1>1. job[r] \in Job /\ job[r].on \in Workers
  BY DEF JobOK
<1>2. /\ j \in Job /\ j.on = job[r].on /\ j.pc = pc
      /\ j.exit = job[r].exit /\ j.told = job[r].told
  BY <1>1 DEF Job
<1>3. Become(r, j)
  OBVIOUS
<1> HIDE DEF j
<1> QED
  BY <1>1, <1>2, <1>3, JobUpdate DEF SameWork, SameTold

LEMMA JobExit ==
  ASSUME JobOK, NEW r \in Runs, job[r].pc # "ready",
         NEW pc \in Counters, NEW exit \in Exits,
         Become(r, [job[r] EXCEPT !.pc = pc, !.exit = exit])
  PROVE  JobOK' /\ MovesTo(r, pc) /\ SameTold(r)
         /\ job'[r].on = job[r].on /\ job'[r].stage = job[r].stage
         /\ job'[r].exit = exit
<1> DEFINE j == [job[r] EXCEPT !.pc = pc, !.exit = exit]
<1>1. job[r] \in Job /\ job[r].on \in Workers
  BY DEF JobOK
<1>2. /\ j \in Job /\ j.on = job[r].on /\ j.pc = pc
      /\ j.exit = exit /\ j.stage = job[r].stage /\ j.told = job[r].told
  BY <1>1 DEF Job
<1>3. Become(r, j)
  OBVIOUS
<1> HIDE DEF j
<1> QED
  BY <1>1, <1>2, <1>3, JobUpdate DEF SameWork, SameTold

\* A job that a worker picks gets that worker.
LEMMA JobPick ==
  ASSUME JobOK, NEW r \in Runs, NEW w \in Workers,
         Become(r, [job[r] EXCEPT !.pc = "claiming", !.on = w])
  PROVE  JobOK' /\ MovesTo(r, "claiming") /\ SameTold(r) /\ SameSession(r)
         /\ job'[r].on = w /\ job'[r].stage = job[r].stage
         /\ job'[r].exit = job[r].exit
<1> DEFINE j == [job[r] EXCEPT !.pc = "claiming", !.on = w]
<1>1. job[r] \in Job
  BY DEF JobOK
<1>2. /\ j \in Job /\ j.on = w /\ j.pc = "claiming"
      /\ j.stage = job[r].stage /\ j.exit = job[r].exit /\ j.told = job[r].told
      /\ j.broken = job[r].broken
  BY <1>1 DEF Job, Counters, Early
<1>3. Become(r, j)
  OBVIOUS
<1> HIDE DEF j
<1> QED
  BY <1>2, <1>3, JobUpdate DEF SameTold, SameSession

\* Where three actions that compute a field leave the task.
LEMMA CreateContainerMoves ==
  ASSUME JobOK, NEW r \in Runs, CreateContainer(r)
  PROVE  /\ JobOK' /\ MovesTo(r, "recording") /\ SameTold(r)
         /\ job'[r].on = job[r].on /\ job'[r].exit = job[r].exit
<1> DEFINE n == job[r].stage + 1
<1>1. n \in Nat
  BY DEF JobOK, Job
<1>2. "recording" \in Counters /\ job[r].pc # "ready"
  BY DEF CreateContainer, Counters, Beating, Executing
<1>3. Become(r, [job[r] EXCEPT !.pc = "recording", !.stage = n])
  BY DEF CreateContainer
<1> HIDE DEF n
<1> QED
  BY <1>1, <1>2, <1>3, JobNextStage

LEMMA FinishStageMoves ==
  ASSUME JobOK, NEW r \in Runs, FinishStage(r)
  PROVE  /\ JobOK' /\ SameTold(r)
         /\ \E pc \in {"boundary", "gathering"} :
              MovesTo(r, pc) /\ (pc = "gathering" => job'[r].exit # "ok")
         /\ job'[r].on = job[r].on /\ job'[r].stage = job[r].stage
<1>1. PICK exit \in Exits, go \in BOOLEAN :
        Become(r, [job[r] EXCEPT
          !.pc = IF exit = "ok" \/ go THEN "boundary" ELSE "gathering",
          !.exit = IF exit = "ok" THEN @ ELSE exit])
  BY DEF FinishStage, Exits
<1> DEFINE pc == IF exit = "ok" \/ go THEN "boundary" ELSE "gathering"
           ex == IF exit = "ok" THEN job[r].exit ELSE exit
<1>2. /\ pc \in Counters /\ pc \in {"boundary", "gathering"} /\ ex \in Exits
      /\ pc = "gathering" => ex # "ok"
  BY DEF JobOK, Job, Counters, Beating, Executing
<1>3. Become(r, [job[r] EXCEPT !.pc = pc, !.exit = ex])
  BY <1>1
<1>4. job[r].pc # "ready"
  BY DEF FinishStage
<1> HIDE DEF pc, ex
<1> QED
  BY <1>2, <1>3, <1>4, JobExit

LEMMA FinishRunMoves ==
  ASSUME JobOK, NEW r \in Runs, FinishRun(r)
  PROVE  JobOK' /\ MovesTo(r, "wrapping") /\ SameWork(r) /\ SameTold(r)
<1>1. TerminalStatusFor(job[r].exit) \in Status
  BY DEF TerminalStatusFor, Status, Terminal
<1>2. "wrapping" \in Counters /\ job[r].pc # "ready"
  BY DEF FinishRun, Counters, Beating, Executing
<1> QED
  BY <1>1, <1>2, JobReturn DEF FinishRun

\* Where an error of its session takes a job, and in what state.
DbMove(r) ==
  /\ MovesTo(r, AfterDbError(job[r].pc)) /\ SameWork(r) /\ SameTold(r)
  /\ job[r].pc \in Querying
  /\ job'[r].pc \in {"hook", "aborting", "finalizing", "raised"}
  /\ job'[r].pc = "hook" => job'[r].broken
  /\ Rollback("job", {r})
  /\ UNCHANGED <<ctr, alive, beat, api, rec, hash, noted, retries, late>>
  /\ sig' \in {sig, [sig EXCEPT ![r] = "deaf"]}

LEMMA DbFailsMoves ==
  ASSUME JobOK, SideOK, NEW r \in Runs, DbFails(r)
  PROVE  JobOK' /\ DbMove(r)
<1> DEFINE pc == AfterDbError(job[r].pc)
<1>1. pc \in {"hook", "aborting", "finalizing", "raised"}
  BY DEF AfterDbError
<1>2. pc \in Counters /\ job[r].pc # "ready" /\ job[r].pc \in Querying
  BY <1>1 DEF DbFails, Querying, Counters, Beating, Executing, Leaving
<1>3. PICK dead \in BOOLEAN, infra \in BOOLEAN :
        /\ pc = "hook" => dead
        /\ Become(r, [job[r] EXCEPT !.pc = pc, !.ret = None,
                                    !.infra = infra, !.broken = dead])
  BY DEF DbFails
<1>4. sig' = [sig EXCEPT ![r] = "deaf"] \/ sig' = sig
  BY DEF DbFails, SideOK
<1> HIDE DEF pc
<1>5. /\ JobOK' /\ MovesTo(r, pc) /\ SameWork(r) /\ SameTold(r)
      /\ job'[r].broken = dead
  BY <1>2, <1>3, JobFails
<1> QED
  BY <1>1, <1>2, <1>3, <1>4, <1>5
  DEF DbMove, DbFails, MovesTo, pc, envVars, sideVars

\* The steps of the worker task keep the job records well formed.
LEMMA TaskKeepsJobOK ==
  ASSUME JobOK, SideOK, NEW r \in Runs, TaskStep(r)
  PROVE  JobOK'
<1> USE DEF Counters, AtRest, Early, Beating, Executing, Leaving
<1>1. CASE Pick(r)
  BY <1>1, JobPick DEF Pick, SideOK
<1>2. CASE ClaimRun(r)
  BY <1>2, JobGoto DEF ClaimRun
<1>3. CASE AnnouncePreparing(r)
  BY <1>3, JobGoto DEF AnnouncePreparing
<1>4. CASE SkipArchived(r)
  BY <1>4, JobGoto DEF SkipArchived
<1>5. CASE DropArchived(r)
  BY <1>5, JobGoto DEF DropArchived
<1>6. CASE StartHeartbeat(r)
  BY <1>6, JobGoto DEF StartHeartbeat
<1>7. CASE Configure(r)
  BY <1>7, JobGoto, JobRefuse DEF Configure
<1>8. CASE AbortRun(r)
  BY <1>8, JobGoto DEF AbortRun
<1>9. CASE AttemptRetry(r)
  BY <1>9, JobGoto DEF AttemptRetry
<1>10. CASE Notify(r)
  BY <1>10, JobGoto DEF Notify
<1>11. CASE CloseRun(r)
  BY <1>11, JobGoto DEF CloseRun
<1>12. CASE EndOfJob(r)
  BY <1>12, JobGoto DEF EndOfJob
<1> QED
  BY <1>1, <1>2, <1>3, <1>4, <1>5, <1>6, <1>7, <1>8, <1>9, <1>10, <1>11, <1>12
  DEF TaskStep

\* So do the steps of the executor.
LEMMA ExecutorKeepsJobOK ==
  ASSUME JobOK, NEW r \in Runs, ExecutorStep(r)
  PROVE  JobOK'
<1> USE DEF Counters, AtRest, Early, Beating, Executing, Leaving
<1>1. CASE Prepare(r)
  BY <1>1, JobGoto DEF Prepare
<1>2. CASE FinishSetup(r)
  BY <1>2, JobGoto, JobThrow DEF FinishSetup
<1>3. CASE MarkRunningStep(r)
  BY <1>3, JobGoto, JobReturn DEF MarkRunningStep, GiveUp, Status, Terminal
<1>4. CASE AnnounceRunning(r)
  BY <1>4, JobGoto DEF AnnounceRunning
<1>5. CASE CheckBoundary(r)
  BY <1>5, JobGoto, JobTold, JobProbes DEF CheckBoundary
<1>6. CASE CreateContainer(r)
  BY <1>6, CreateContainerMoves
<1>7. CASE RecordExecution(r)
  BY <1>7, JobGoto DEF RecordExecution
<1>8. CASE StartContainer(r)
  BY <1>8, JobGoto DEF StartContainer
<1>9. CASE FinishStage(r)
  BY <1>9, FinishStageMoves
<1>10. CASE MarkCollectingStep(r)
  BY <1>10, JobGoto, JobReturn DEF MarkCollectingStep, GiveUp, Status, Terminal
<1>11. CASE AnnounceCollecting(r)
  BY <1>11, JobGoto DEF AnnounceCollecting
<1>12. CASE FinishRun(r)
  BY <1>12, FinishRunMoves
<1>13. CASE LeaveExecutor(r)
  BY <1>13, JobGoto DEF LeaveExecutor
<1>14. CASE Raise(r)
  BY <1>14, JobThrow DEF Raise
<1>15. CASE HandleError(r)
  BY <1>15, JobReturn DEF HandleError, Status, Terminal
<1>16. CASE StartSetup(r)
  BY <1>16, JobGoto DEF StartSetup
<1> QED
  BY <1>1, <1>2, <1>3, <1>4, <1>5, <1>6, <1>7, <1>8, <1>9, <1>10, <1>11, <1>12,
    <1>13, <1>14, <1>15, <1>16
  DEF ExecutorStep

\* So does a crash, which moves all jobs of a worker at once.
LEMMA CrashKeepsJobOK ==
  ASSUME JobOK, NEW w \in Workers, Crash(w)
  PROVE  JobOK'
<1>1. ASSUME NEW r \in Runs
      PROVE  /\ [job[r] EXCEPT !.pc = "dead"] \in Job
             /\ [job[r] EXCEPT !.pc = "dead"].on = job[r].on
  BY DEF JobOK, Job, Counters, AtRest
<1>2. \A r \in JobsOf(w) : job[r].pc # "ready"
  BY DEF JobsOf, AtRest
<1> QED
  BY <1>1, <1>2 DEF JobOK, Crash

\* So does every other step: most do not touch a job at all.
LEMMA OthersKeepJobOK ==
  ASSUME JobOK, Next,
         ~ \E r \in Runs : JobStep(r)
  PROVE  JobOK'
<1>1. ASSUME NEW r \in Runs, HearCancel(r) PROVE JobOK'
  BY <1>1, JobHears DEF HearCancel, Executing
<1>2. ASSUME NEW r \in Runs, JobTimeout(r) PROVE JobOK'
  BY <1>2, JobReturn, JobCut
  DEF JobTimeout, Counters, Early, Beating, Executing, Leaving
<1>3. ASSUME NEW w \in Workers, Crash(w) PROVE JobOK'
  BY <1>3, CrashKeepsJobOK
<1>4. ASSUME UNCHANGED job PROVE JobOK'
  BY <1>4 DEF JobOK
<1>5. ASSUME NEW r \in Runs,
             Subscribe(r) \/ StopContainer(r) \/ ContainerExits(r) \/
               RequestCancel(r) \/ ApiStep(r)
      PROVE  UNCHANGED job
  BY <1>5 DEF Subscribe, StopContainer, ContainerExits, RequestCancel, ApiStep,
       CancelUpdate, CancelPublish, CancelCommit, CancelAbort
<1>6. ASSUME ReclaimStep PROVE UNCHANGED job
  BY <1>6
  DEF ReclaimStep, RecScan, RecAlive, RecProbeDead, RecMark, RecAllProbed,
       RecStale, RecCommit, RecAbort
<1>7. ASSUME NEW w \in Workers, Heartbeat(w) \/ HeartbeatExpires(w) PROVE
  UNCHANGED job
  BY <1>7 DEF Heartbeat, HeartbeatExpires
<1> QED
  BY <1>1, <1>2, <1>3, <1>4, <1>5, <1>6, <1>7 DEF Next, WatcherStep, WorkerStep

\* The steps of the worker task keep the other variables well typed.
LEMMA TaskKeepsSideOK ==
  ASSUME SideOK, JobOK, NEW r \in Runs, TaskStep(r)
  PROVE  SideOK'
<1> USE DEF SideOK, Publish, SetApi, tableVars, redisVars, envVars, sideVars
<1>1. CASE Pick(r)
  BY <1>1 DEF Pick
<1>2. CASE ClaimRun(r)
  BY <1>2 DEF ClaimRun
<1>3. CASE AnnouncePreparing(r)
  BY <1>3 DEF AnnouncePreparing, Status, Active, InFlight, Terminal
<1>4. CASE SkipArchived(r)
  BY <1>4 DEF SkipArchived, Status, Active, InFlight, Terminal
<1>5. CASE DropArchived(r)
  BY <1>5 DEF DropArchived
<1>6. CASE StartHeartbeat(r)
  BY <1>6 DEF StartHeartbeat, JobOK
<1>7. CASE Configure(r)
  BY <1>7 DEF Configure
<1>8. CASE AbortRun(r)
  BY <1>8 DEF AbortRun
<1>9. CASE AttemptRetry(r)
  <2>1. retries' \in [Runs -> Nat]
    BY <1>9 DEF AttemptRetry, SideOK
  <2> QED
    BY <1>9, <2>1 DEF AttemptRetry
<1>10. CASE Notify(r)
  BY <1>10 DEF Notify, Reportable
<1>11. CASE CloseRun(r)
  BY <1>11 DEF CloseRun
<1>12. CASE EndOfJob(r)
  BY <1>12 DEF EndOfJob
<1> QED
  BY <1>1, <1>2, <1>3, <1>4, <1>5, <1>6, <1>7, <1>8, <1>9, <1>10, <1>11, <1>12
  DEF TaskStep

\* So do the steps of the executor.
LEMMA ExecutorKeepsSideOK ==
  ASSUME SideOK, NEW r \in Runs, ExecutorStep(r)
  PROVE  SideOK'
<1> USE DEF SideOK, Publish, SetApi, tableVars, redisVars, envVars, sideVars
<1>1. CASE Prepare(r)
  BY <1>1 DEF Prepare
<1>2. CASE FinishSetup(r)
  BY <1>2 DEF FinishSetup, RemoveContainer
<1>3. CASE MarkRunningStep(r)
  BY <1>3 DEF MarkRunningStep, GiveUp
<1>4. CASE AnnounceRunning(r)
  BY <1>4 DEF AnnounceRunning, Status, Active, InFlight, Terminal
<1>5. CASE CheckBoundary(r)
  BY <1>5 DEF CheckBoundary
<1>6. CASE CreateContainer(r)
  BY <1>6 DEF CreateContainer
<1>7. CASE RecordExecution(r)
  BY <1>7 DEF RecordExecution
<1>8. CASE StartContainer(r)
  <2>1. late' \in [Runs -> Nat]
    BY <1>8 DEF StartContainer
  <2> QED
    BY <1>8, <2>1 DEF StartContainer
<1>9. CASE FinishStage(r)
  BY <1>9 DEF FinishStage, RemoveContainer
<1>10. CASE MarkCollectingStep(r)
  BY <1>10 DEF MarkCollectingStep, GiveUp
<1>11. CASE AnnounceCollecting(r)
  BY <1>11 DEF AnnounceCollecting, Status, Active, InFlight, Terminal
<1>12. CASE FinishRun(r)
  BY <1>12 DEF FinishRun, Status, Active, InFlight, Terminal, TerminalStatusFor
<1>13. CASE LeaveExecutor(r)
  BY <1>13 DEF LeaveExecutor
<1>14. CASE Raise(r)
  BY <1>14 DEF Raise, DropContainer, RemoveContainer
<1>15. CASE HandleError(r)
  BY <1>15 DEF HandleError, Status, Active, InFlight, Terminal
<1>16. CASE StartSetup(r)
  BY <1>16 DEF StartSetup
<1> QED
  BY <1>1, <1>2, <1>3, <1>4, <1>5, <1>6, <1>7, <1>8, <1>9, <1>10, <1>11, <1>12,
    <1>13, <1>14, <1>15, <1>16
  DEF ExecutorStep

\* So does an error of the job's session.
LEMMA DbKeepsSideOK ==
  ASSUME SideOK, NEW r \in Runs, DbMove(r)
  PROVE  SideOK'
BY DEF SideOK, DbMove

\* So do the cancel watcher, the job timeout, containers and requests.
LEMMA OthersKeepSideOK ==
  ASSUME SideOK, NEW r \in Runs,
         WatcherStep(r) \/ JobTimeout(r) \/ ContainerExits(r) \/
           RequestCancel(r) \/ ApiStep(r)
  PROVE  SideOK'
<1> USE DEF SideOK, Publish, SetApi, tableVars, redisVars, envVars, sideVars
<1>1. CASE Subscribe(r)
  BY <1>1 DEF Subscribe
<1>2. CASE HearCancel(r)
  BY <1>2 DEF HearCancel
<1>3. CASE StopContainer(r)
  BY <1>3 DEF StopContainer
<1>4. CASE JobTimeout(r)
  BY <1>4 DEF JobTimeout, DropContainer, RemoveContainer
<1>5. CASE ContainerExits(r)
  BY <1>5 DEF ContainerExits
<1>6. CASE RequestCancel(r)
  BY <1>6 DEF RequestCancel
<1>7. CASE CancelUpdate(r)
  BY <1>7 DEF CancelUpdate
<1>8. CASE CancelPublish(r)
  BY <1>8 DEF CancelPublish, Status, Active, InFlight, Terminal
<1>9. CASE CancelCommit(r)
  BY <1>9 DEF CancelCommit
<1>10. CASE CancelAbort(r)
  BY <1>10 DEF CancelAbort
<1> QED
  BY <1>1, <1>2, <1>3, <1>4, <1>5, <1>6, <1>7, <1>8, <1>9, <1>10
  DEF WatcherStep, ApiStep

\* So does the reclaim cron.
LEMMA ReclaimKeepsSideOK ==
  ASSUME SideOK, RecOK, ReclaimStep
  PROVE  SideOK'
<1> USE DEF SideOK, Publish, SetApi, tableVars, redisVars, envVars, sideVars
<1>1. CASE RecScan
  BY <1>1 DEF RecScan
<1>2. CASE RecAlive
  BY <1>2 DEF RecAlive
<1>3. CASE RecProbeDead
  BY <1>3 DEF RecProbeDead
<1>4. CASE RecMark
  BY <1>4 DEF RecMark, Status, Active, InFlight, Terminal
<1>5. CASE RecAllProbed
  BY <1>5 DEF RecAllProbed
<1>6. CASE RecCommit
  <2>1. retries' \in [Runs -> Nat]
    BY <1>6 DEF RecCommit
  <2> QED
    BY <1>6, <2>1 DEF RecCommit
<1>7. CASE RecAbort
  BY <1>7 DEF RecAbort
<1>8. ASSUME NEW r \in Runs, RecStale(r) PROVE SideOK'
  BY <1>8 DEF RecStale, Status, Active, InFlight, Terminal
<1> QED
  BY <1>8, <1>1, <1>2, <1>3, <1>4, <1>5, <1>6, <1>7 DEF ReclaimStep

\* So do crashes and heartbeats.
LEMMA WorkersKeepSideOK ==
  ASSUME SideOK, NEW w \in Workers, WorkerStep(w)
  PROVE  SideOK'
<1> USE DEF SideOK, Publish, SetApi, tableVars, redisVars, envVars, sideVars
<1>1. CASE Crash(w)
  BY <1>1 DEF Crash
<1>2. CASE Heartbeat(w)
  BY <1>2 DEF Heartbeat
<1>3. CASE HeartbeatExpires(w)
  BY <1>3 DEF HeartbeatExpires
<1> QED
  BY <1>1, <1>2, <1>3 DEF WorkerStep

\* The reclaim cron only ever holds candidates it has read from the table.
LEMMA ReclaimKeepsRecOK ==
  ASSUME RecOK, TableTypeOK, ReclaimStep
  PROVE  RecOK'
<1> USE DEF RecOK
<1>1. CASE RecScan
  <2> DEFINE found == {[run |-> r, worker |-> row[r].worker, exec |->
    row[r].exec] :
                  r \in {q \in Runs : /\ row[q].status \in InFlight
                                     /\ row[q].worker # None}}
  <2>1. found \in SUBSET Candidate
    BY DEF TableTypeOK, Row, Candidate
  <2>2. rec' = [rec EXCEPT !.pc = "lost", !.todo = found]
    BY <1>1 DEF RecScan
  <2> HIDE DEF found
  <2> QED
    BY <2>1, <2>2
<1>2. CASE RecAlive
  BY <1>2 DEF RecAlive
<1>3. CASE RecProbeDead
  <2>1. PICK t \in rec.todo : rec' = [rec EXCEPT !.pc = "mark", !.cur = t,
    !.todo = @ \ {t}]
    BY <1>3 DEF RecProbeDead
  <2>2. t \in Candidate /\ rec.todo \ {t} \in SUBSET Candidate
    OBVIOUS
  <2> QED
    BY <2>1, <2>2
<1>4. CASE RecMark
  <2>1. rec.cur.run \in Runs
    BY <1>4 DEF RecMark, Candidate
  <2>2. PICK kids \in SUBSET Runs : rec' = [rec EXCEPT !.pc = "lost", !.cur =
    None, !.kids = kids]
    BY <1>4, <2>1 DEF RecMark
  <2> QED
    BY <2>2
<1>5. CASE RecAllProbed
  BY <1>5 DEF RecAllProbed
<1>6. CASE RecCommit
  BY <1>6 DEF RecCommit
<1>7. CASE RecAbort
  BY <1>7 DEF RecAbort
<1>8. ASSUME NEW r \in Runs, RecStale(r) PROVE RecOK'
  BY <1>8 DEF RecStale
<1> QED
  BY <1>1, <1>2, <1>3, <1>4, <1>5, <1>6, <1>7, <1>8 DEF ReclaimStep

\* No step of a job touches the reclaim cron.
LEMMA JobLeavesRec ==
  ASSUME RecOK, NEW r \in Runs, JobStep(r)
  PROVE  RecOK'
<1>1. CASE TaskStep(r)
  BY <1>1
  DEF RecOK, TaskStep, Pick, ClaimRun, AnnouncePreparing, SkipArchived,
    DropArchived, StartHeartbeat, Configure, AbortRun, AttemptRetry, Notify,
    CloseRun, EndOfJob
<1>2. CASE ExecutorStep(r)
  BY <1>2
  DEF RecOK, ExecutorStep, Prepare, StartSetup, FinishSetup, MarkRunningStep,
    AnnounceRunning, CheckBoundary, CreateContainer, RecordExecution,
    StartContainer, FinishStage, MarkCollectingStep, AnnounceCollecting,
    FinishRun, LeaveExecutor, Raise, HandleError
<1>3. CASE DbFails(r)
  BY <1>3 DEF RecOK, DbFails
<1> QED
  BY <1>1, <1>2, <1>3 DEF JobStep

\* Neither does a watcher, a timeout, a container or a request.
LEMMA RequestLeavesRec ==
  ASSUME RecOK, NEW r \in Runs,
         WatcherStep(r) \/ JobTimeout(r) \/ ContainerExits(r) \/
           RequestCancel(r) \/ ApiStep(r)
  PROVE  RecOK'
BY
DEF RecOK, WatcherStep, ApiStep, Subscribe, HearCancel, StopContainer,
  JobTimeout, ContainerExits, RequestCancel, CancelUpdate, CancelPublish,
  CancelCommit, CancelAbort

\* Neither does a crash or a heartbeat.
LEMMA WorkerLeavesRec ==
  ASSUME RecOK, NEW w \in Workers, WorkerStep(w)
  PROVE  RecOK'
BY DEF RecOK, WorkerStep, Crash, Heartbeat, HeartbeatExpires

\* Once mark_collecting has been committed, only a verdict can replace it:
\* so finish_if_current, which would also accept a running run, never does.
CollectingInv ==
  \A r \in Runs : job[r].pc \in {"publishing", "collecting"} =>
    row[r].status \in {"collecting"} \union Terminal

\* Releasing the worker and committing is legal whatever the session holds.
LEMMA CloseSessionKeeps ==
  ASSUME TableInv, NEW r \in Runs, job[r].on \in Workers, CloseSession(r)
  PROVE  TableInv' /\ RowsAdvance
BY Bookkeeping, StoreKeeps, CommitKeeps DEF CloseSession, Sessions

\* Every step of the worker task keeps the table invariant and moves rows
\* forward only.
LEMMA TaskAdvances ==
  ASSUME JobOK, TableInv, NEW r \in Runs, TaskStep(r)
  PROVE  TableInv' /\ RowsAdvance
<1>1. CASE ClaimRun(r)
  <2>1. CASE UNCHANGED tableVars
    BY <2>1, StutterKeeps
  <2>2. CASE /\ Claimable(Seen(r, "job"))
             /\ Store(r, "job", Claim(Seen(r, "job"), job[r].on))
    <3>1. Seen(r, "job") = row[r] /\ job[r].on \in Workers
      BY <1>1, <2>2, SeenActive DEF ClaimRun, Claimable, Active, Sessions, JobOK
    <3> QED
      BY <2>2, <3>1, Progress, StoreKeeps DEF Sessions
  <2> QED
    BY <1>1, <2>1, <2>2 DEF ClaimRun
<1>2. CASE SkipArchived(r)
  BY <1>2, SeenActive, Verdicts, WriteKeeps, StutterKeeps
  DEF SkipArchived, Cancellable, Sessions
<1>3. CASE DropArchived(r)
  BY <1>3, CloseSessionKeeps DEF DropArchived, JobOK
<1>4. CASE AbortRun(r)
  BY <1>4, SeenActive, Verdicts, StoreKeeps, CommitKeeps
  DEF AbortRun, Failable, Sessions
<1>5. CASE CloseRun(r)
  BY <1>5, CloseSessionKeeps DEF CloseRun, JobOK
<1>6. CASE EndOfJob(r)
  BY <1>6, Verdicts, StoreKeeps, StutterKeeps DEF EndOfJob, Failable, Sessions
<1>7. CASE Pick(r) \/ AnnouncePreparing(r) \/ StartHeartbeat(r) \/ Configure(r)
  \/ AttemptRetry(r) \/ Notify(r)
  BY <1>7, StutterKeeps
  DEF Pick, AnnouncePreparing, StartHeartbeat, Configure, AttemptRetry, Notify
<1> QED
  BY <1>1, <1>2, <1>3, <1>4, <1>5, <1>6, <1>7 DEF TaskStep

\* Every step of the executor does.  FinishRun needs CollectingInv: a run
\* that is still running must not become done.
LEMMA ExecutorAdvances ==
  ASSUME JobOK, TableInv, CollectingInv, NEW r \in Runs, ExecutorStep(r)
  PROVE  TableInv' /\ RowsAdvance
<1>1. CASE MarkRunningStep(r)
  <2>1. CASE UNCHANGED tableVars
    BY <2>1, StutterKeeps
  <2>2. CASE /\ Runnable(Seen(r, "job"))
             /\ Store(r, "job", MarkRunning(Seen(r, "job")))
    <3>1. Seen(r, "job") = row[r]
      BY <2>2, SeenActive DEF Runnable, Active, InFlight, Sessions
    <3> QED
      BY <2>2, <3>1, Progress, StoreKeeps DEF Sessions
  <2> QED
    BY <1>1, <2>1, <2>2 DEF MarkRunningStep
<1>2. CASE RecordExecution(r)
  BY <1>2, Bookkeeping, StoreKeeps DEF RecordExecution, Sessions, JobOK, Job
<1>3. CASE MarkCollectingStep(r)
  <2>1. CASE UNCHANGED tableVars
    BY <2>1, StutterKeeps
  <2>2. CASE /\ Collectable(Seen(r, "job"))
             /\ Store(r, "job", MarkCollecting(Seen(r, "job")))
    <3>1. Seen(r, "job") = row[r]
      BY <2>2, SeenActive DEF Collectable, Active, InFlight, Sessions
    <3> QED
      BY <2>2, <3>1, Progress, StoreKeeps DEF Sessions
  <2> QED
    BY <1>3, <2>1, <2>2 DEF MarkCollectingStep
<1>4. CASE FinishRun(r)
  <2>1. CASE UNCHANGED tableVars
    BY <2>1, StutterKeeps
  <2>2. CASE /\ Finishes(Seen(r, "job"), Finishable)
             /\ Write(r, "job", Finish(Seen(r, "job"),
               TerminalStatusFor(job[r].exit)))
    <3> DEFINE s == TerminalStatusFor(job[r].exit)
    <3>1. Seen(r, "job") = row[r] /\ row[r].status \in Finishable
      BY <2>2, SeenActive DEF Finishes, Finishable, Active, InFlight, Sessions
    <3>2. row[r].status = "collecting"
      BY <1>4, <3>1 DEF FinishRun, CollectingInv, Finishable, Terminal
    <3>3. s \in {"done", "failed", "timeout"}
      BY DEF TerminalStatusFor
    <3>4. MayHold(r, Finish(row[r], s))
      BY <3>2, <3>3, FinishCollecting
    <3> HIDE DEF s
    <3>5. Write(r, "job", Finish(row[r], s))
      BY <2>2, <3>1 DEF s
    <3> QED
      BY <3>4, <3>5, WriteKeeps DEF Sessions
  <2> QED
    BY <1>4, <2>1, <2>2 DEF FinishRun
<1>5. CASE HandleError(r)
  BY <1>5, SeenActive, Verdicts, WriteKeeps, StutterKeeps
  DEF HandleError, Failable, Sessions
<1>6. CASE Prepare(r) \/ StartSetup(r) \/ FinishSetup(r) \/
  AnnounceRunning(r) \/ CheckBoundary(r) \/ CreateContainer(r) \/
  StartContainer(r) \/ FinishStage(r) \/ AnnounceCollecting(r) \/
  LeaveExecutor(r) \/ Raise(r)
  BY <1>6, StutterKeeps
  DEF Prepare, StartSetup, FinishSetup, AnnounceRunning, CheckBoundary, CreateContainer,
    StartContainer, FinishStage, AnnounceCollecting, LeaveExecutor, Raise
<1> QED
  BY <1>1, <1>2, <1>3, <1>4, <1>5, <1>6 DEF ExecutorStep

\* An error of the job's session does: it rolls back.
LEMMA DbAdvances ==
  ASSUME TableInv, NEW r \in Runs, DbMove(r)
  PROVE  TableInv' /\ RowsAdvance
BY RollbackKeeps DEF DbMove, Sessions

\* The request that cancels a run does, whenever it comes.
LEMMA RequestAdvances ==
  ASSUME TableInv, NEW r \in Runs,
         WatcherStep(r) \/ JobTimeout(r) \/ ContainerExits(r) \/
           RequestCancel(r) \/ ApiStep(r)
  PROVE  TableInv' /\ RowsAdvance
<1>1. CASE JobTimeout(r)
  BY <1>1, RollbackKeeps, StutterKeeps DEF JobTimeout, Sessions
<1>2. CASE CancelUpdate(r)
  BY <1>2, SeenActive, Verdicts, WriteKeeps, StutterKeeps
  DEF CancelUpdate, Cancellable, Sessions
<1>3. CASE CancelCommit(r)
  BY <1>3, CommitKeeps DEF CancelCommit, Sessions
<1>4. CASE CancelAbort(r)
  BY <1>4, RollbackKeeps DEF CancelAbort, Sessions
<1>5. CASE Subscribe(r) \/ HearCancel(r) \/ StopContainer(r) \/
  ContainerExits(r) \/ RequestCancel(r) \/ CancelPublish(r)
  BY <1>5, StutterKeeps
  DEF Subscribe, HearCancel, StopContainer, ContainerExits, RequestCancel,
    CancelPublish
<1> QED
  BY <1>1, <1>2, <1>3, <1>4, <1>5 DEF WatcherStep, ApiStep

\* The reclaim cron does, although what it read may be stale.
LEMMA ReclaimAdvances ==
  ASSUME TableInv, RecOK, ReclaimStep
  PROVE  TableInv' /\ RowsAdvance
<1>1. CASE RecMark
  <2> DEFINE r == rec.cur.run
  <2>1. r \in Runs
    BY <1>1 DEF RecMark, RecOK, Candidate
  <2>2. CASE UNCHANGED tableVars
    BY <2>2, StutterKeeps
  <2>3. CASE /\ IsLost(Seen(r, "reclaim"), rec.cur.worker)
             /\ Write(r, "reclaim", MarkLost(Seen(r, "reclaim")))
    <3>1. Seen(r, "reclaim") = row[r] /\ row[r].status \in Active
      BY <2>1, <2>3, SeenActive DEF IsLost, Sessions
    <3> HIDE DEF r
    <3> QED
      BY <2>1, <2>3, <3>1, Verdicts, WriteKeeps DEF Sessions
  <2> QED
    BY <1>1, <2>2, <2>3 DEF RecMark
<1>2. CASE RecCommit
  BY <1>2, CommitKeeps DEF RecCommit, Sessions
<1>3. CASE RecAbort
  BY <1>3, RollbackKeeps DEF RecAbort, Sessions
<1>4. CASE RecScan \/ RecAlive \/ RecProbeDead \/ RecAllProbed
  BY <1>4, StutterKeeps DEF RecScan, RecAlive, RecProbeDead, RecAllProbed
<1>5. ASSUME NEW r \in Runs, RecStale(r) PROVE TableInv' /\ RowsAdvance
  <2>1. PICK s \in {<<"preparing", "failed">>, <<"collecting", "timeout">>} :
          /\ row[r].status = s[1]
          /\ Seen(r, "reclaim").status = s[1]
          /\ Write(r, "reclaim",
                [Seen(r, "reclaim") EXCEPT !.status = s[2], !.worker = None])
    BY <1>5 DEF RecStale
  <2> DEFINE v == s[2]
  <2>2. Seen(r, "reclaim") = row[r]
    BY <2>1, SeenActive DEF Active, InFlight, Sessions
  <2>3. /\ v \in {"failed", "timeout"}
        /\ \/ row[r].status = "preparing" /\ v = "failed"
           \/ row[r].status = "collecting" /\ v = "timeout"
    BY <2>1
  <2>4. Write(r, "reclaim", [row[r] EXCEPT !.status = v, !.worker = None])
    BY <2>1, <2>2
  <2> HIDE DEF v
  <2> QED
    BY <2>3, <2>4, Sweeps, WriteKeeps DEF Sessions
<1> QED
  BY <1>5, <1>1, <1>2, <1>3, <1>4 DEF ReclaimStep

\* A crash does: it rolls back.
LEMMA WorkerAdvances ==
  ASSUME TableInv, NEW w \in Workers, WorkerStep(w)
  PROVE  TableInv' /\ RowsAdvance
<1>1. CASE Crash(w)
  <2>1. JobsOf(w) \in SUBSET Runs
    BY DEF JobsOf
  <2> QED
    BY <1>1, <2>1, RollbackKeeps DEF Crash, Sessions
<1>2. CASE Heartbeat(w) \/ HeartbeatExpires(w)
  BY <1>2, StutterKeeps DEF Heartbeat, HeartbeatExpires
<1> QED
  BY <1>1, <1>2 DEF WorkerStep

-----------------------------------------------------------------------------
(* Row locks *)

\* CloseSession gives the lock of the job's session back.
LEMMA ClosedFree ==
  ASSUME TableTypeOK, NEW r \in Runs, CloseSession(r)
  PROVE  /\ lock'[r] \in {lock[r], "free"} \ {"job"}
         /\ \A q \in Runs : q # r => lock'[q] = lock[q]
BY DEF CloseSession, Store, Commit, HeldBy, TableTypeOK

\* The steps of the worker task keep row locks short.
LEMMA TaskKeepsLocksShort ==
  ASSUME JobOK, SideOK, TableTypeOK, LocksAreShort, NEW r \in Runs, TaskStep(r)
  PROVE  LocksAreShort'
<1> USE DEF LocksAreShort, LockHolder, MovesTo, Counters, AtRest, Early,
  Beating, Executing, Leaving
<1>1. CASE Pick(r)
  <2>1. job[r].pc = "ready" /\ UNCHANGED <<lock, api, rec>>
    BY <1>1 DEF Pick, tableVars
  <2>2. MovesTo(r, "claiming")
    BY <1>1, JobPick DEF Pick, SideOK
  <2> QED
    BY <2>1, <2>2
<1>2. CASE ClaimRun(r)
  BY <1>2, JobGoto DEF ClaimRun, tableVars, Store, TableTypeOK
<1>3. CASE AnnouncePreparing(r)
  BY <1>3, JobGoto DEF AnnouncePreparing, tableVars
<1>4. CASE SkipArchived(r)
  BY <1>4, JobGoto DEF SkipArchived, tableVars, Write, Writable, TableTypeOK
<1>5. CASE DropArchived(r)
  BY <1>5, JobGoto, ClosedFree DEF DropArchived
<1>6. CASE StartHeartbeat(r)
  BY <1>6, JobGoto DEF StartHeartbeat, tableVars
<1>7. CASE Configure(r)
  BY <1>7, JobGoto, JobRefuse DEF Configure, tableVars
<1>8. CASE AbortRun(r)
  BY <1>8, JobGoto DEF AbortRun, Store, Commit, HeldBy, TableTypeOK
<1>9. CASE AttemptRetry(r)
  BY <1>9, JobGoto DEF AttemptRetry, tableVars
<1>10. CASE Notify(r)
  BY <1>10, JobGoto DEF Notify, tableVars
<1>11. CASE CloseRun(r)
  BY <1>11, JobGoto, ClosedFree DEF CloseRun
<1>12. CASE EndOfJob(r)
  BY <1>12, JobGoto DEF EndOfJob, tableVars, Store, TableTypeOK
<1> QED
  BY <1>1, <1>2, <1>3, <1>4, <1>5, <1>6, <1>7, <1>8, <1>9, <1>10, <1>11, <1>12
  DEF TaskStep

\* So do the steps of the executor.
LEMMA ExecutorKeepsLocksShort ==
  ASSUME JobOK, TableTypeOK, LocksAreShort, NEW r \in Runs, ExecutorStep(r)
  PROVE  LocksAreShort'
<1> USE DEF LocksAreShort, LockHolder, MovesTo, Counters, AtRest, Early,
  Beating, Executing, Leaving
<1>1. CASE Prepare(r)
  BY <1>1, JobGoto DEF Prepare, tableVars
<1>2. CASE FinishSetup(r)
  BY <1>2, JobGoto, JobThrow DEF FinishSetup, tableVars
<1>3. CASE MarkRunningStep(r)
  BY <1>3, JobGoto, JobReturn
  DEF MarkRunningStep, GiveUp, Store, TableTypeOK, Status, Terminal, tableVars
<1>4. CASE AnnounceRunning(r)
  BY <1>4, JobGoto DEF AnnounceRunning, tableVars
<1>5. CASE CheckBoundary(r)
  <2>1. job[r].pc = "boundary" /\ UNCHANGED <<lock, api, rec>>
    BY <1>5 DEF CheckBoundary, tableVars
  <2>2. \E pc \in {"gathering", "creating"} : MovesTo(r, pc)
    BY <1>5, JobGoto, JobTold, JobProbes DEF CheckBoundary
  <2> QED
    BY <2>1, <2>2
<1>6. CASE CreateContainer(r)
  BY <1>6, CreateContainerMoves DEF CreateContainer, tableVars
<1>7. CASE RecordExecution(r)
  BY <1>7, JobGoto DEF RecordExecution, Store, TableTypeOK
<1>8. CASE StartContainer(r)
  BY <1>8, JobGoto DEF StartContainer, tableVars
<1>9. CASE FinishStage(r)
  BY <1>9, FinishStageMoves DEF FinishStage, tableVars
<1>10. CASE MarkCollectingStep(r)
  BY <1>10, JobGoto, JobReturn
  DEF MarkCollectingStep, GiveUp, Store, TableTypeOK, Status, Terminal,
    tableVars
<1>11. CASE AnnounceCollecting(r)
  BY <1>11, JobGoto DEF AnnounceCollecting, tableVars
<1>12. CASE FinishRun(r)
  BY <1>12, FinishRunMoves DEF FinishRun, Write, TableTypeOK, tableVars
<1>13. CASE LeaveExecutor(r)
  BY <1>13, JobGoto DEF LeaveExecutor, tableVars
<1>14. CASE Raise(r)
  BY <1>14, JobThrow DEF Raise, tableVars
<1>15. CASE HandleError(r)
  BY <1>15, JobReturn
  DEF HandleError, Status, Terminal, Write, TableTypeOK, tableVars
<1>16. CASE StartSetup(r)
  BY <1>16, JobGoto DEF StartSetup, tableVars
<1> QED
  BY <1>1, <1>2, <1>3, <1>4, <1>5, <1>6, <1>7, <1>8, <1>9, <1>10, <1>11, <1>12,
    <1>13, <1>14, <1>15, <1>16
  DEF ExecutorStep

\* So does an error of the job's session, which holds nothing any more.
LEMMA DbKeepsLocksShort ==
  ASSUME LocksAreShort, NEW r \in Runs, DbMove(r)
  PROVE  LocksAreShort'
BY DEF LocksAreShort, LockHolder, DbMove, MovesTo, Rollback, HeldBy

\* So do the cancel watcher, the job timeout, containers and requests.
LEMMA RequestKeepsLocksShort ==
  ASSUME JobOK, SideOK, TableTypeOK, LocksAreShort, NEW r \in Runs,
         WatcherStep(r) \/ JobTimeout(r) \/ ContainerExits(r) \/
           RequestCancel(r) \/ ApiStep(r)
  PROVE  LocksAreShort'
<1> USE DEF LocksAreShort, LockHolder, MovesTo, Counters, AtRest, Early,
  Beating, Executing, Leaving
<1>1. CASE Subscribe(r)
  BY <1>1 DEF Subscribe, SetApi, SideOK, tableVars
<1>2. CASE HearCancel(r)
  BY <1>2, JobHears DEF HearCancel, tableVars
<1>3. CASE StopContainer(r)
  BY <1>3 DEF StopContainer, SetApi, SideOK, tableVars
<1>4. CASE JobTimeout(r)
  <2>1. /\ UNCHANGED <<api, rec>>
        /\ \E pc \in {"hook", "finalizing"} : MovesTo(r, pc)
    BY <1>4, JobReturn, JobCut DEF JobTimeout
  <2>2. CASE UNCHANGED tableVars /\ MovesTo(r, "finalizing")
    BY <2>1, <2>2 DEF tableVars
  <2>3. CASE Rollback("job", {r})
    BY <2>1, <2>3 DEF Rollback, HeldBy
  <2> QED
    BY <1>4, <2>1, <2>2, <2>3, JobReturn DEF JobTimeout
<1>5. CASE ContainerExits(r)
  BY <1>5 DEF ContainerExits, SetApi, SideOK, tableVars
<1>6. CASE RequestCancel(r)
  BY <1>6 DEF RequestCancel, SetApi, SideOK, tableVars
<1>7. CASE CancelUpdate(r)
  BY <1>7 DEF CancelUpdate, SetApi, SideOK, Write, TableTypeOK, tableVars
<1>8. CASE CancelPublish(r)
  BY <1>8 DEF CancelPublish, SetApi, SideOK, tableVars
<1>9. CASE CancelCommit(r)
  BY <1>9 DEF CancelCommit, SetApi, SideOK, Commit, HeldBy, tableVars
<1>10. CASE CancelAbort(r)
  BY <1>10 DEF CancelAbort, SetApi, SideOK, Rollback, HeldBy, tableVars
<1> QED
  BY <1>1, <1>2, <1>3, <1>4, <1>5, <1>6, <1>7, <1>8, <1>9, <1>10
  DEF WatcherStep, ApiStep

\* So does the reclaim cron.
LEMMA ReclaimKeepsLocksShort ==
  ASSUME RecOK, TableTypeOK, LocksAreShort, ReclaimStep
  PROVE  LocksAreShort'
<1> USE DEF LocksAreShort, LockHolder, MovesTo, Counters, AtRest, Early,
  Beating, Executing, Leaving
<1>1. CASE RecScan
  BY <1>1 DEF RecScan, tableVars, RecOK
<1>2. CASE RecAlive
  BY <1>2 DEF RecAlive, tableVars, RecOK
<1>3. CASE RecProbeDead
  BY <1>3 DEF RecProbeDead, tableVars, RecOK
<1>4. CASE RecMark
  <2>1. rec.cur.run \in Runs /\ rec'.pc = "lost"
    BY <1>4 DEF RecMark, RecOK, Candidate
  <2>2. \A q \in Runs : lock'[q] \in {lock[q], "reclaim"}
    BY <1>4, <2>1 DEF RecMark, Write, TableTypeOK, tableVars
  <2> QED
    BY <1>4, <2>1, <2>2 DEF RecMark
<1>5. CASE RecAllProbed
  BY <1>5 DEF RecAllProbed, tableVars, RecOK
<1>6. CASE RecCommit
  BY <1>6 DEF RecCommit, Commit, HeldBy
<1>7. CASE RecAbort
  BY <1>7 DEF RecAbort, Rollback, HeldBy
<1>8. ASSUME NEW r \in Runs, RecStale(r) PROVE LocksAreShort'
  BY <1>8 DEF RecStale, Write, TableTypeOK
<1> QED
  BY <1>8, <1>1, <1>2, <1>3, <1>4, <1>5, <1>6, <1>7 DEF ReclaimStep

\* So do crashes, which roll back, and heartbeats.
LEMMA WorkersKeepLocksShort ==
  ASSUME JobOK, TableTypeOK, LocksAreShort, NEW w \in Workers, WorkerStep(w)
  PROVE  LocksAreShort'
<1> USE DEF LocksAreShort, LockHolder, MovesTo, Counters, AtRest, Early,
  Beating, Executing, Leaving
<1>1. CASE Crash(w)
  BY <1>1 DEF Crash, JobOK, JobsOf, Rollback, HeldBy
<1>2. CASE Heartbeat(w)
  BY <1>2 DEF Heartbeat, tableVars
<1>3. CASE HeartbeatExpires(w)
  BY <1>3 DEF HeartbeatExpires, tableVars
<1> QED
  BY <1>1, <1>2, <1>3 DEF WorkerStep

-----------------------------------------------------------------------------
(* Phases *)

\* What a job's counter says of its row.
PhasesOK == CollectingInv /\ EndedIsTerminal

\* Rows that follow one another keep a verdict, and leave collecting only
\* for a verdict.
LEMMA RowsGoForward ==
  ASSUME RowsAdvance, NEW r \in Runs
  PROVE  /\ row[r].status \in Terminal => row'[r].status = row[r].status
         /\ row[r].status \in {"collecting"} \union Terminal =>
              row'[r].status \in {"collecting"} \union Terminal
<1>1. Follows(row[r], row'[r])
  BY DEF RowsAdvance
<1>2. row[r].status \in Terminal => Successors(row[r].status) = {}
  BY DEF Terminal, Successors, Documented
<1>3. row[r].status = "collecting" => Successors(row[r].status) \subseteq
  Terminal
  BY DEF Terminal, Successors, Documented
<1> QED
  BY <1>1, <1>2, <1>3 DEF Follows, Terminal

\* A task that moves to a counter PhasesOK does not speak of keeps it.
LEMMA PhaseKept ==
  ASSUME PhasesOK, RowsAdvance, NEW r \in Runs,
         NEW pc \in Counters \ {"publishing", "collecting", "ended"}, MovesTo(r,
           pc)
  PROVE  PhasesOK'
BY RowsGoForward DEF PhasesOK, CollectingInv, EndedIsTerminal, MovesTo

\* The steps of the worker task keep the phases: the end-of-job hook leaves
\* the run with a verdict.
LEMMA TaskKeepsPhases ==
  ASSUME JobOK, SideOK, TableInv, RowsAdvance, PhasesOK, NEW r \in Runs,
    TaskStep(r)
  PROVE  PhasesOK'
<1> USE DEF Counters, AtRest, Early, Beating, Executing, Leaving
<1>1. CASE Pick(r)
  BY <1>1, JobPick, PhaseKept DEF Pick, SideOK
<1>2. CASE ClaimRun(r)
  BY <1>2, JobGoto, PhaseKept DEF ClaimRun
<1>3. CASE AnnouncePreparing(r)
  BY <1>3, JobGoto, PhaseKept DEF AnnouncePreparing
<1>4. CASE SkipArchived(r)
  BY <1>4, JobGoto, PhaseKept DEF SkipArchived
<1>5. CASE DropArchived(r)
  BY <1>5, JobGoto, PhaseKept DEF DropArchived
<1>6. CASE StartHeartbeat(r)
  BY <1>6, JobGoto, PhaseKept DEF StartHeartbeat
<1>7. CASE Configure(r)
  BY <1>7, JobGoto, JobRefuse, PhaseKept DEF Configure
<1>8. CASE AbortRun(r)
  BY <1>8, JobGoto, PhaseKept DEF AbortRun
<1>9. CASE AttemptRetry(r)
  BY <1>9, JobGoto, PhaseKept DEF AttemptRetry
<1>10. CASE Notify(r)
  BY <1>10, JobGoto, PhaseKept DEF Notify
<1>11. CASE CloseRun(r)
  BY <1>11, JobGoto, PhaseKept DEF CloseRun
<1>12. CASE EndOfJob(r)
  <2>1. MovesTo(r, "ended")
    BY <1>12, JobGoto DEF EndOfJob
  <2>2. row[r] \in Row
    BY DEF TableInv, TableTypeOK
  <2>3. row'[r].status \in Terminal
    <3>1. CASE ~Failable(row[r]) /\ UNCHANGED tableVars
      BY <2>2, <3>1 DEF Failable, Row, Status, tableVars
    <3>2. CASE Store(r, "job", Fail(row[r]))
      BY <2>2, <3>2 DEF Store, Fail, Row, TableInv, TableTypeOK, Terminal
    <3> QED
      BY <1>12, <3>1, <3>2 DEF EndOfJob
  <2> QED
    BY <2>1, <2>3, RowsGoForward
    DEF PhasesOK, CollectingInv, EndedIsTerminal, MovesTo
<1> QED
  BY <1>1, <1>2, <1>3, <1>4, <1>5, <1>6, <1>7, <1>8, <1>9, <1>10, <1>11, <1>12
  DEF TaskStep

\* The steps of the executor do: publishing starts after mark_collecting.
LEMMA ExecutorKeepsPhases ==
  ASSUME JobOK, TableInv, RowsAdvance, PhasesOK, NEW r \in Runs, ExecutorStep(r)
  PROVE  PhasesOK'
<1> USE DEF Counters, AtRest, Early, Beating, Executing, Leaving
<1>1. CASE Prepare(r)
  BY <1>1, JobGoto, PhaseKept DEF Prepare
<1>2. CASE FinishSetup(r)
  BY <1>2, JobGoto, JobThrow, PhaseKept DEF FinishSetup
<1>3. CASE MarkRunningStep(r)
  BY <1>3, JobGoto, JobReturn, PhaseKept
  DEF MarkRunningStep, GiveUp, Status, Terminal
<1>4. CASE AnnounceRunning(r)
  BY <1>4, JobGoto, PhaseKept DEF AnnounceRunning
<1>5. CASE CheckBoundary(r)
  <2>1. job[r].pc = "boundary"
    BY <1>5 DEF CheckBoundary
  <2>2. CASE Goto(r, "gathering") \/ Goto(r, "creating")
    BY <2>1, <2>2, JobGoto, PhaseKept
  <2>3. CASE Become(r, [job[r] EXCEPT !.pc = "gathering", !.told = TRUE])
    BY <2>1, <2>3, JobTold, PhaseKept
  <2>4. ASSUME NEW b \in BOOLEAN,
               Become(r, [job[r] EXCEPT !.pc = "creating", !.broken = b])
        PROVE  PhasesOK'
    BY <2>1, <2>4, JobProbes, PhaseKept
  <2> QED
    BY <1>5, <2>2, <2>3, <2>4 DEF CheckBoundary
<1>6. CASE CreateContainer(r)
  BY <1>6, CreateContainerMoves, PhaseKept
<1>7. CASE RecordExecution(r)
  BY <1>7, JobGoto, PhaseKept DEF RecordExecution
<1>8. CASE StartContainer(r)
  BY <1>8, JobGoto, PhaseKept DEF StartContainer
<1>9. CASE FinishStage(r)
  BY <1>9, FinishStageMoves, PhaseKept
<1>10. CASE MarkCollectingStep(r)
  <2>1. CASE GiveUp(r)
    BY <1>10, <2>1, JobReturn, PhaseKept
    DEF GiveUp, MarkCollectingStep, Status, Terminal
  <2>2. CASE /\ Store(r, "job", MarkCollecting(Seen(r, "job")))
             /\ Goto(r, "publishing")
    <3>1. MovesTo(r, "publishing")
      BY <1>10, <2>2, JobGoto DEF MarkCollectingStep
    <3>2. row'[r].status = "collecting"
      BY <2>2, SeenContinues
      DEF Store, MarkCollecting, Row, TableInv, TableTypeOK, Sessions
    <3> QED
      BY <3>1, <3>2, RowsGoForward
      DEF PhasesOK, CollectingInv, EndedIsTerminal, MovesTo
  <2> QED
    BY <1>10, <2>1, <2>2 DEF MarkCollectingStep
<1>11. CASE AnnounceCollecting(r)
  <2>1. MovesTo(r, "collecting")
    BY <1>11, JobGoto DEF AnnounceCollecting
  <2> QED
    BY <1>11, <2>1, RowsGoForward
    DEF AnnounceCollecting, PhasesOK, CollectingInv,
       EndedIsTerminal, MovesTo
<1>12. CASE FinishRun(r)
  BY <1>12, FinishRunMoves, PhaseKept
<1>13. CASE LeaveExecutor(r)
  BY <1>13, JobGoto, PhaseKept DEF LeaveExecutor
<1>14. CASE Raise(r)
  BY <1>14, JobThrow, PhaseKept DEF Raise
<1>15. CASE HandleError(r)
  BY <1>15, JobReturn, PhaseKept DEF HandleError, Status, Terminal
<1>16. CASE StartSetup(r)
  BY <1>16, JobGoto, PhaseKept DEF StartSetup
<1> QED
  BY <1>1, <1>2, <1>3, <1>4, <1>5, <1>6, <1>7, <1>8, <1>9, <1>10, <1>11, <1>12,
    <1>13, <1>14, <1>15, <1>16
  DEF ExecutorStep

\* An error of the job's session does.
LEMMA DbKeepsPhases ==
  ASSUME PhasesOK, RowsAdvance, NEW r \in Runs, DbMove(r)
  PROVE  PhasesOK'
BY PhaseKept DEF DbMove, MovesTo, Counters, Beating, Executing, Leaving

\* Every other step does.
LEMMA OthersKeepPhases ==
  ASSUME JobOK, RowsAdvance, PhasesOK, Next, ~ \E r \in Runs : JobStep(r)
  PROVE  PhasesOK'
<1>1. ASSUME NEW r \in Runs, HearCancel(r) PROVE PhasesOK'
  <2>1. job[r].pc \in Counters \ {"publishing", "collecting", "ended"} =>
    PhasesOK'
    BY <1>1, JobHears, PhaseKept DEF HearCancel, Executing
  <2>2. MovesTo(r, job[r].pc)
    BY <1>1, JobHears DEF HearCancel, Executing
  <2> QED
    BY <2>2, RowsGoForward DEF PhasesOK, CollectingInv, EndedIsTerminal, MovesTo
<1>2. ASSUME NEW r \in Runs, JobTimeout(r) PROVE PhasesOK'
  <2> USE DEF Counters, Early, Beating, Executing, Leaving
  <2>1. /\ job[r].pc # "ready"
        /\ \/ Cut(r, "hook") \/ Cut(r, "finalizing")
           \/ Return(r, "finalizing", None)
    BY <1>2 DEF JobTimeout
  <2>2. \E pc \in {"hook", "finalizing"} : MovesTo(r, pc)
    BY <2>1, JobCut, JobReturn
  <2> QED
    BY <2>2, PhaseKept
<1>3. ASSUME NEW w \in Workers, Crash(w) PROVE PhasesOK'
  <2>1. ASSUME NEW r \in Runs PROVE job'[r].pc \in {job[r].pc, "dead"}
    BY <1>3 DEF Crash, JobOK, Job
  <2> QED
    BY <2>1, RowsGoForward DEF PhasesOK, CollectingInv, EndedIsTerminal
<1>4. ASSUME UNCHANGED job PROVE PhasesOK'
  BY <1>4, RowsGoForward DEF PhasesOK, CollectingInv, EndedIsTerminal
<1>5. ASSUME NEW r \in Runs,
             Subscribe(r) \/ StopContainer(r) \/ ContainerExits(r) \/
               RequestCancel(r) \/ ApiStep(r)
      PROVE  UNCHANGED job
  BY <1>5 DEF Subscribe, StopContainer, ContainerExits, RequestCancel, ApiStep,
       CancelUpdate, CancelPublish, CancelCommit, CancelAbort
<1>6. ASSUME ReclaimStep PROVE UNCHANGED job
  BY <1>6
  DEF ReclaimStep, RecScan, RecAlive, RecProbeDead, RecMark, RecAllProbed,
       RecStale, RecCommit, RecAbort
<1>7. ASSUME NEW w \in Workers, Heartbeat(w) \/ HeartbeatExpires(w) PROVE
  UNCHANGED job
  BY <1>7 DEF Heartbeat, HeartbeatExpires
<1> QED
  BY <1>1, <1>2, <1>3, <1>4, <1>5, <1>6, <1>7 DEF Next, WatcherStep, WorkerStep

-----------------------------------------------------------------------------
(* The inductive invariant and the theorems *)

\* The inductive invariant.
IInv ==
  /\ JobOK
  /\ SideOK
  /\ RecOK
  /\ TableInv
  /\ PhasesOK
  /\ LocksAreShort

\* The invariant holds initially.
LEMMA InitInv == Init => IInv
<1> SUFFICES ASSUME Init PROVE IInv
  OBVIOUS
<1> USE DEF Init
<1>1. TableInv
  BY TableInitInv
<1>2. JobOK
  BY DEF JobOK, Job, Counters, AtRest, Exits
<1>3. SideOK
  BY DEF SideOK
<1>4. RecOK
  BY DEF RecOK
<1>5. PhasesOK
  BY DEF PhasesOK, CollectingInv, EndedIsTerminal
<1>6. LocksAreShort
  BY DEF LocksAreShort, LockHolder, TableInit
<1> QED
  BY <1>1, <1>2, <1>3, <1>4, <1>5, <1>6 DEF IInv

\* Every step keeps the invariant, and moves every row forward.
LEMMA NextInv ==
  ASSUME IInv, [Next]_vars
  PROVE  IInv' /\ RowsAdvance
<1> USE DEF IInv
<1>1. CASE UNCHANGED vars
  <2>1. TableInv' /\ RowsAdvance
    BY <1>1, StutterKeeps DEF vars, tableVars
  <2>2. JobOK' /\ SideOK' /\ RecOK'
    BY <1>1 DEF vars, JobOK, SideOK, RecOK
  <2>3. PhasesOK' /\ LocksAreShort'
    BY <1>1
    DEF vars, PhasesOK, CollectingInv, EndedIsTerminal, LocksAreShort,
      LockHolder
  <2> QED
    BY <2>1, <2>2, <2>3
<1>2. ASSUME NEW r \in Runs, JobStep(r), Next PROVE IInv' /\ RowsAdvance
  <2>1. CASE TaskStep(r)
    <3>1. TableInv' /\ RowsAdvance
      BY <2>1, TaskAdvances
    <3>2. JobOK' /\ SideOK'
      BY <2>1, TaskKeepsJobOK, TaskKeepsSideOK
    <3>3. PhasesOK' /\ LocksAreShort'
      BY <2>1, <3>1, TaskKeepsPhases, TaskKeepsLocksShort DEF TableInv
    <3>4. RecOK'
      BY <2>1, JobLeavesRec DEF JobStep
    <3> QED
      BY <3>1, <3>2, <3>3, <3>4
  <2>2. CASE ExecutorStep(r)
    <3>1. TableInv' /\ RowsAdvance
      BY <2>2, ExecutorAdvances DEF PhasesOK
    <3>2. JobOK' /\ SideOK'
      BY <2>2, ExecutorKeepsJobOK, ExecutorKeepsSideOK
    <3>3. PhasesOK' /\ LocksAreShort'
      BY <2>2, <3>1, ExecutorKeepsPhases, ExecutorKeepsLocksShort DEF TableInv
    <3>4. RecOK'
      BY <2>2, JobLeavesRec DEF JobStep
    <3> QED
      BY <3>1, <3>2, <3>3, <3>4
  <2>3. CASE DbFails(r)
    <3>1. JobOK' /\ DbMove(r)
      BY <2>3, DbFailsMoves
    <3>2. TableInv' /\ RowsAdvance
      BY <3>1, DbAdvances
    <3>3. SideOK' /\ PhasesOK' /\ LocksAreShort'
      BY <3>1, <3>2, DbKeepsSideOK, DbKeepsPhases, DbKeepsLocksShort
    <3>4. RecOK'
      BY <2>3, JobLeavesRec DEF JobStep
    <3> QED
      BY <3>1, <3>2, <3>3, <3>4
  <2> QED
    BY <1>2, <2>1, <2>2, <2>3 DEF JobStep
<1>3. ASSUME Next, ~ \E r \in Runs : JobStep(r) PROVE IInv' /\ RowsAdvance
  <2>1. JobOK'
    BY <1>3, OthersKeepJobOK
  <2>2. ASSUME NEW r \in Runs,
               WatcherStep(r) \/ JobTimeout(r) \/ ContainerExits(r) \/
                 RequestCancel(r) \/ ApiStep(r)
        PROVE  TableInv' /\ RowsAdvance /\ SideOK' /\ RecOK' /\ LocksAreShort'
    BY <2>2, RequestAdvances, OthersKeepSideOK, RequestLeavesRec,
      RequestKeepsLocksShort
    DEF TableInv
  <2>3. ASSUME ReclaimStep
        PROVE  TableInv' /\ RowsAdvance /\ SideOK' /\ RecOK' /\ LocksAreShort'
    BY <2>3, ReclaimAdvances, ReclaimKeepsSideOK, ReclaimKeepsRecOK,
      ReclaimKeepsLocksShort
    DEF TableInv
  <2>4. ASSUME NEW w \in Workers, WorkerStep(w)
        PROVE  TableInv' /\ RowsAdvance /\ SideOK' /\ RecOK' /\ LocksAreShort'
    BY <2>4, WorkerAdvances, WorkersKeepSideOK, WorkerLeavesRec,
      WorkersKeepLocksShort
    DEF TableInv
  <2>5. TableInv' /\ RowsAdvance /\ SideOK' /\ RecOK' /\ LocksAreShort'
    BY <1>3, <2>2, <2>3, <2>4 DEF Next
  <2>6. PhasesOK'
    BY <1>3, <2>5, OthersKeepPhases
  <2> QED
    BY <2>1, <2>5, <2>6
<1> QED
  BY <1>1, <1>2, <1>3

\* The inductive invariant holds in every reachable state.
THEOREM Invariance == Spec => []IInv
<1> QED
  BY InitInv, NextInv, PTL DEF Spec

\* Every variable keeps its type: in particular every status a session
\* writes is one of the enumeration, whichever exit the stages had.
THEOREM TypeCorrect == Spec => []TypeOK
<1>1. IInv => TypeOK
  BY DEF IInv, TypeOK, JobOK, SideOK, RecOK, TableInv
<1> QED
  BY <1>1, Invariance, PTL

\* Whatever a session holds uncommitted may follow the committed version:
\* no interleaving of executor, cancel request, reclaim cron and hook commits
\* a verdict over another one.
THEOREM OpenWritesStayLegal == Spec => []OpenWritesAreLegal
<1>1. IInv => OpenWritesAreLegal
  BY DEF IInv, TableInv
<1> QED
  BY <1>1, Invariance, PTL

\* cancel_requested_at is set exactly on cancelled runs.
THEOREM AskedMeansCancelled == Spec => []AskedIffCancelled
<1>1. IInv => AskedIffCancelled
  BY DEF IInv, TableInv
<1> QED
  BY <1>1, Invariance, PTL

\* No session keeps a row lock while a container runs, while a retry is
\* scheduled, or after its actor has gone, crashes and timeouts included.
THEOREM LocksStayShort == Spec => []LocksAreShort
<1>1. IInv => LocksAreShort
  BY DEF IInv
<1> QED
  BY <1>1, Invariance, PTL

\* When arq is through with a job, its run has a verdict, whatever failed.
THEOREM EveryJobEndsWithAVerdict == Spec => []EndedIsTerminal
<1>1. IInv => EndedIsTerminal
  BY DEF IInv, PhasesOK
<1> QED
  BY <1>1, Invariance, PTL

\* A committed terminal status is never changed by anybody.
THEOREM VerdictsAreFinal == Spec => TerminalIsFinal
<1>1. IInv /\ [Next]_vars =>
        [\A r \in Runs : row[r].status \in Terminal => row'[r].status =
          row[r].status]_vars
  BY NextInv, RowsGoForward
<1> QED
  BY <1>1, Invariance, PTL DEF Spec, TerminalIsFinal

\* The protocol implements RunLifecycle: every commit moves a run forward
\* along the lifecycle and a worker is given to a run once.
THEOREM Refinement == Spec => ImplementsLifecycle
<1>1. Init => Lifecycle!Init
  BY DEF Init, TableInit, QueuedRow, Lifecycle!Init
<1>2. IInv /\ [Next]_vars => [Lifecycle!Next]_(Lifecycle!vars)
  <2> SUFFICES ASSUME IInv, [Next]_vars PROVE Lifecycle!Next
    OBVIOUS
  <2>1. IInv' /\ RowsAdvance
    BY NextInv
  <2>2. ASSUME NEW r \in Runs PROVE row'[r] \in Row /\ Follows(row[r], row'[r])
    BY <2>1 DEF IInv, TableInv, TableTypeOK, RowsAdvance
  <2>3. ASSUME NEW r \in Runs
        PROVE  Lifecycle!Claimed(r) \/ Lifecycle!Moved(r) \/ Lifecycle!Kept(r)
    BY <2>2 DEF Follows, Lifecycle!Claimed, Lifecycle!Moved, Lifecycle!Kept,
       Lifecycle!Successors, Lifecycle!Documented, Successors, Documented
  <2>4. \A r \in Runs : row'[r].status \in Status /\ row'[r].worker \in Workers
    \union {None}
    BY <2>2 DEF Row
  <2> QED
    BY <2>3, <2>4 DEF Lifecycle!Next, Lifecycle!Status, Lifecycle!Active,
       Lifecycle!InFlight, Lifecycle!Terminal, Status, Active, InFlight,
         Terminal
<1> QED
  BY <1>1, <1>2, Invariance, PTL DEF Spec, ImplementsLifecycle, Lifecycle!Spec

-----------------------------------------------------------------------------
(***************************************************************************)
(* What one step does to the table, for the invariants of the section that *)
(* follows: a session leaves the rows alone that another one has locked, a *)
(* worker is given to a run by the claim only, and FinishRun alone makes a *)
(* run done.                                                               *)
(***************************************************************************)

Respects(s) ==
  \A q \in Runs : lock[q] \in Sessions \ {s} =>
    row'[q] = row[q] /\ draft'[q] = draft[q] /\ lock'[q] = lock[q]

Fades == \A q \in Runs : row'[q].worker \in {row[q].worker, None}

Done(r) == "done" \in {row[r].status, draft[r].status}

NoneDone == \A q \in Runs : Done(q)' => Done(q)

\* Everybody sees the same execution_id, and the step leaves it alone.
SameExec == \A q \in Runs : draft[q].exec = row[q].exec

ExecKept == SameExec => SameExec' /\ \A q \in Runs : row'[q].exec = row[q].exec

\* A row that a job holds is one it held before, as it was.
JobLocks ==
  \A q \in Runs : lock'[q] = "job" => lock[q] = "job" /\ draft'[q] = draft[q]

LEMMA WriteCalm ==
  ASSUME TableInv, NEW r \in Runs, NEW s \in Sessions, NEW x, Write(r, s, x)
  PROVE  /\ Respects(s) /\ Fades
         /\ x.status # "done" => NoneDone
         /\ (SameExec => x.exec = row[r].exec) => ExecKept
         /\ s # "job" => JobLocks
<1> USE DEF TableInv, TableTypeOK, Write
<1>1. Respects(s) /\ Fades
  BY DEF Writable, Respects, Fades, Sessions
<1>2. x.status # "done" => NoneDone
  BY DEF NoneDone, Done
<1>3. (SameExec => x.exec = row[r].exec) => ExecKept
  BY DEF ExecKept, SameExec
<1>4. s # "job" => JobLocks
  BY DEF JobLocks
<1> QED
  BY <1>1, <1>2, <1>3, <1>4

LEMMA StoreCalm ==
  ASSUME TableInv, NEW r \in Runs, NEW s \in Sessions, NEW x, Store(r, s, x)
  PROVE  /\ Respects(s)
         /\ x.worker \in {row[r].worker, None} => Fades
         /\ (x.status = "done" => Done(r)) => NoneDone
         /\ (SameExec => x.exec = row[r].exec) => ExecKept
         /\ row'[r] = x /\ \A q \in Runs : q # r => row'[q] = row[q]
<1>1. \A q \in Runs : q # r => row'[q] = row[q] /\ draft'[q] = draft[q] /\ lock'[q] = lock[q]
  BY DEF TableInv, TableTypeOK, Store
<1>2. row'[r] = x /\ draft'[r] = x /\ lock[r] \in {"free", s}
  BY DEF TableInv, TableTypeOK, Store, Writable
<1>3. Respects(s)
  BY <1>1, <1>2 DEF Respects, Sessions
<1>4. x.worker \in {row[r].worker, None} => Fades
  BY <1>1, <1>2 DEF Fades
<1>5. (x.status = "done" => Done(r)) => NoneDone
  BY <1>1, <1>2 DEF NoneDone, Done
<1>6. (SameExec => x.exec = row[r].exec) => ExecKept
  BY <1>1, <1>2 DEF ExecKept, SameExec
<1> QED
  BY <1>1, <1>2, <1>3, <1>4, <1>5, <1>6

LEMMA CommitCalm ==
  ASSUME TableInv, NEW s \in Sessions, NEW S \in SUBSET Runs, Commit(s, S)
  PROVE  Respects(s) /\ Fades /\ NoneDone /\ ExecKept /\ JobLocks
<1> USE DEF TableInv, Commit, HeldBy
<1>1. Respects(s)
  BY DEF Respects
<1>2. Fades
  BY DEF Fades, OpenWritesAreLegal, Sessions
<1>3. NoneDone
  BY DEF NoneDone, Done
<1>4. ExecKept /\ JobLocks
  BY DEF ExecKept, SameExec, JobLocks
<1> QED
  BY <1>1, <1>2, <1>3, <1>4

LEMMA RollbackCalm ==
  ASSUME TableInv, NEW s \in Sessions, NEW S \in SUBSET Runs, Rollback(s, S)
  PROVE  Respects(s) /\ Fades /\ NoneDone /\ ExecKept /\ JobLocks
<1> USE DEF Rollback, HeldBy
<1>1. Respects(s) /\ Fades /\ NoneDone
  BY DEF Respects, Fades, NoneDone, Done
<1>2. ExecKept /\ JobLocks
  BY DEF ExecKept, SameExec, JobLocks
<1> QED
  BY <1>1, <1>2

LEMMA StutterCalm ==
  ASSUME UNCHANGED tableVars, NEW s \in Sessions
  PROVE  Respects(s) /\ Fades /\ NoneDone /\ ExecKept /\ JobLocks
BY DEF tableVars, Respects, Fades, NoneDone, Done, ExecKept, SameExec, JobLocks

\* The last commit of a job detaches the run from the worker of the job.
LEMMA CloseSessionCalm ==
  ASSUME TableInv, NEW r \in Runs, CloseSession(r), job[r].on \in Workers
  PROVE  /\ Respects("job") /\ Fades /\ NoneDone /\ ExecKept
         /\ row[r].worker \in {None, job[r].on} => row'[r].worker = None
<1> DEFINE x == Seen(r, "job")
<1>1. /\ x \in Row /\ x.worker \in {row[r].worker, None}
      /\ x.status = "done" => Done(r)
      /\ SameExec => x.exec = row[r].exec
  BY SeenContinues DEF Sessions, Seen, Done, SameExec
<1>2. CASE x.worker = job[r].on
  <2> DEFINE y == Release(x, job[r].on)
  <2>1. Store(r, "job", y)
    BY <1>2 DEF CloseSession
  <2>2. y.worker = None /\ y.status = x.status /\ y.exec = x.exec
    BY <1>1, <1>2 DEF Release, Row
  <2> HIDE DEF y
  <2> QED
    BY <1>1, <2>1, <2>2, StoreCalm DEF Sessions
<1>3. CASE x.worker # job[r].on
  <2>1. Commit("job", {r}) /\ {r} \in SUBSET Runs
    BY <1>3 DEF CloseSession
  <2>2. row'[r] = x
    BY <2>1 DEF Commit, HeldBy, Seen
  <2> QED
    BY <1>1, <1>3, <2>1, <2>2, CommitCalm DEF Sessions
<1> QED
  BY <1>2, <1>3

\* The steps of the worker task.
LEMMA TaskCalm ==
  ASSUME JobOK, TableInv, NEW r \in Runs, TaskStep(r)
  PROVE  /\ Respects("job") /\ NoneDone /\ ExecKept
         /\ \/ Fades
            \/ /\ ClaimRun(r) /\ row'[r].worker = job[r].on
               /\ \A q \in Runs : q # r => row'[q] = row[q]
<1> DEFINE x == Seen(r, "job")
<1>1. /\ x \in Row /\ x.worker \in {row[r].worker, None} /\ "job" \in Sessions
      /\ x.status = "done" => Done(r)
      /\ SameExec => x.exec = row[r].exec
  BY SeenContinues DEF Sessions, Seen, Done, SameExec
<1>2. /\ Cancel(x).status = "cancelled" /\ Fail(x).status = "failed"
      /\ Fail(x).worker = x.worker
      /\ Claim(x, job[r].on).status = "preparing"
      /\ Claim(x, job[r].on).worker = job[r].on
      /\ Cancel(x).exec = x.exec /\ Fail(x).exec = x.exec
      /\ Claim(x, job[r].on).exec = x.exec
  BY <1>1 DEF Cancel, Fail, Claim, Row
<1> HIDE DEF x
<1>3. CASE ClaimRun(r)
  BY <1>1, <1>2, <1>3, StoreCalm, StutterCalm DEF ClaimRun, x
<1>4. CASE SkipArchived(r)
  BY <1>1, <1>2, <1>4, WriteCalm, StutterCalm DEF SkipArchived, tableVars, x
<1>5. CASE DropArchived(r)
  BY <1>5, CloseSessionCalm DEF DropArchived, JobOK
<1>6. CASE AbortRun(r)
  <2>1. Store(r, "job", Fail(x)) \/ (Commit("job", {r}) /\ {r} \in SUBSET Runs)
    BY <1>6 DEF AbortRun, x
  <2> QED
    BY <1>1, <1>2, <2>1, StoreCalm, CommitCalm
<1>7. CASE CloseRun(r)
  BY <1>7, CloseSessionCalm DEF CloseRun, JobOK
<1>8. CASE EndOfJob(r)
  <2>1. Store(r, "job", Fail(row[r])) \/ UNCHANGED tableVars
    BY <1>8 DEF EndOfJob
  <2>2. /\ Fail(row[r]).status = "failed" /\ Fail(row[r]).worker = row[r].worker
        /\ Fail(row[r]).exec = row[r].exec
    BY DEF TableInv, TableTypeOK, Row, Fail
  <2> QED
    BY <1>1, <2>1, <2>2, StoreCalm, StutterCalm
<1>9. CASE \/ Pick(r) \/ AnnouncePreparing(r) \/ StartHeartbeat(r)
           \/ Configure(r) \/ AttemptRetry(r) \/ Notify(r)
  <2>1. UNCHANGED tableVars
    BY <1>9 DEF Pick, AnnouncePreparing, StartHeartbeat, Configure,
       AttemptRetry, Notify
  <2> QED
    BY <1>1, <2>1, StutterCalm
<1> QED
  BY <1>3, <1>4, <1>5, <1>6, <1>7, <1>8, <1>9 DEF TaskStep

\* The steps of the executor.
LEMMA ExecutorCalm ==
  ASSUME JobOK, TableInv, NEW r \in Runs, ExecutorStep(r)
  PROVE  /\ Respects("job") /\ Fades /\ (NoneDone \/ FinishRun(r))
         /\ ExecKept \/ RecordExecution(r)
<1> DEFINE x == Seen(r, "job")
<1>1. /\ x \in Row /\ x.worker \in {row[r].worker, None} /\ "job" \in Sessions
      /\ x.status = "done" => Done(r)
      /\ SameExec => x.exec = row[r].exec
  BY SeenContinues DEF Sessions, Seen, Done, SameExec
<1>2. /\ Fail(x).status = "failed"
      /\ MarkRunning(x).status = "running" /\ MarkRunning(x).worker = x.worker
      /\ MarkCollecting(x).status = "collecting"
      /\ MarkCollecting(x).worker = x.worker
      /\ Fail(x).exec = x.exec /\ MarkRunning(x).exec = x.exec
      /\ MarkCollecting(x).exec = x.exec
      /\ \A s : Finish(x, s).exec = x.exec
      /\ \A n : SetExec(x, n).status = x.status /\ SetExec(x, n).worker = x.worker
  BY <1>1 DEF Fail, MarkRunning, MarkCollecting, SetExec, Finish, Row
<1> HIDE DEF x
<1>3. CASE MarkRunningStep(r)
  BY <1>1, <1>2, <1>3, StoreCalm, StutterCalm DEF MarkRunningStep, x
<1>4. CASE RecordExecution(r)
  BY <1>1, <1>2, <1>4, StoreCalm DEF RecordExecution, x
<1>5. CASE MarkCollectingStep(r)
  BY <1>1, <1>2, <1>5, StoreCalm, StutterCalm DEF MarkCollectingStep, x
<1>6. CASE FinishRun(r)
  <2>1. UNCHANGED tableVars \/ \E s : Write(r, "job", Finish(x, s))
    BY <1>6 DEF FinishRun, x
  <2> QED
    BY <1>1, <1>2, <1>6, <2>1, WriteCalm, StutterCalm
<1>7. CASE HandleError(r)
  <2>1. UNCHANGED tableVars \/ Write(r, "job", Fail(x))
    BY <1>7 DEF HandleError, x
  <2> QED
    BY <1>1, <1>2, <2>1, WriteCalm, StutterCalm
<1>8. CASE \/ Prepare(r) \/ StartSetup(r) \/ FinishSetup(r) \/ AnnounceRunning(r)
           \/ CheckBoundary(r) \/ CreateContainer(r) \/ StartContainer(r)
           \/ FinishStage(r) \/ AnnounceCollecting(r) \/ LeaveExecutor(r)
           \/ Raise(r)
  <2>1. UNCHANGED tableVars
    BY <1>8 DEF Prepare, StartSetup, FinishSetup, AnnounceRunning,
       CheckBoundary, CreateContainer, StartContainer, FinishStage, AnnounceCollecting,
       LeaveExecutor, Raise
  <2> QED
    BY <1>1, <2>1, StutterCalm
<1> QED
  BY <1>3, <1>4, <1>5, <1>6, <1>7, <1>8 DEF ExecutorStep

\* An error of its session undoes what the job holds.
LEMMA DbCalm ==
  ASSUME TableInv, NEW r \in Runs, DbMove(r)
  PROVE  Respects("job") /\ Fades /\ NoneDone /\ ExecKept
<1>1. {r} \in SUBSET Runs /\ "job" \in Sessions /\ Rollback("job", {r})
  BY DEF DbMove, Sessions
<1> QED
  BY <1>1, RollbackCalm

\* The steps that are no job's: no one of them locks a row that the request
\* for its cancel holds, but the request itself.
LEMMA OthersCalm ==
  ASSUME TableInv, RecOK, Next, ~ \E r \in Runs : JobStep(r)
  PROVE  /\ Fades /\ NoneDone /\ ExecKept /\ JobLocks
         /\ \/ \E s \in Sessions \ {"api"} : Respects(s)
            \/ \E r \in Runs : ApiStep(r)
<1>0. Sessions = {"api", "job", "reclaim"}
  BY DEF Sessions
<1>1. ASSUME NEW r \in Runs, ApiStep(r)
      PROVE  Fades /\ NoneDone /\ ExecKept /\ JobLocks
  <2>1. /\ Seen(r, "api") \in Row
        /\ SameExec => Seen(r, "api").exec = row[r].exec
    BY SeenContinues DEF Sessions, Seen, SameExec
  <2>2. /\ Cancel(Seen(r, "api")).status # "done"
        /\ SameExec => Cancel(Seen(r, "api")).exec = row[r].exec
    BY <2>1 DEF Cancel, Row
  <2>3. \/ Write(r, "api", Cancel(Seen(r, "api"))) \/ UNCHANGED tableVars
        \/ ({r} \in SUBSET Runs /\ (Commit("api", {r}) \/ Rollback("api", {r})))
    BY <1>1 DEF ApiStep, CancelUpdate, CancelPublish, CancelCommit, CancelAbort
  <2> QED
    BY <1>0, <2>2, <2>3, WriteCalm, StutterCalm, CommitCalm, RollbackCalm
<1>2. ASSUME NEW r \in Runs, JobTimeout(r)
      PROVE  Fades /\ NoneDone /\ ExecKept /\ JobLocks /\ Respects("job")
  <2>1. UNCHANGED tableVars \/ ({r} \in SUBSET Runs /\ Rollback("job", {r}))
    BY <1>2 DEF JobTimeout
  <2> QED
    BY <1>0, <2>1, StutterCalm, RollbackCalm
<1>3. ASSUME NEW r \in Runs,
             WatcherStep(r) \/ ContainerExits(r) \/ RequestCancel(r)
      PROVE  Fades /\ NoneDone /\ ExecKept /\ JobLocks /\ Respects("job")
  <2>1. UNCHANGED tableVars
    BY <1>3 DEF WatcherStep, Subscribe, HearCancel, StopContainer,
       ContainerExits, RequestCancel
  <2> QED
    BY <1>0, <2>1, StutterCalm
<1>4. ASSUME ReclaimStep
      PROVE  Fades /\ NoneDone /\ ExecKept /\ JobLocks /\ Respects("reclaim")
  <2>1. CASE RecMark
    <3> DEFINE r == rec.cur.run
               x == Seen(r, "reclaim")
    <3>1. r \in Runs
      BY <2>1 DEF RecMark, RecOK, Candidate
    <3>2. x \in Row /\ (SameExec => x.exec = row[r].exec)
      BY <1>0, <3>1, SeenContinues DEF Seen, SameExec
    <3>3. MarkLost(x).status # "done" /\ MarkLost(x).exec = x.exec
      BY <3>2 DEF MarkLost, Row
    <3>4. UNCHANGED tableVars \/ Write(r, "reclaim", MarkLost(x))
      BY <2>1 DEF RecMark
    <3> HIDE DEF r, x
    <3> QED
      BY <1>0, <3>1, <3>2, <3>3, <3>4, WriteCalm, StutterCalm
  <2>2. ASSUME NEW r \in Runs, RecStale(r)
        PROVE  Fades /\ NoneDone /\ ExecKept /\ JobLocks /\ Respects("reclaim")
    <3> DEFINE x == Seen(r, "reclaim")
    <3>1. x \in Row /\ (SameExec => x.exec = row[r].exec)
      BY <1>0, SeenContinues DEF Seen, SameExec
    <3> HIDE DEF x
    <3>2. PICK s \in {<<"preparing", "failed">>, <<"collecting", "timeout">>} :
            Write(r, "reclaim", [x EXCEPT !.status = s[2], !.worker = None])
      BY <2>2 DEF RecStale, x
    <3> DEFINE y == [x EXCEPT !.status = s[2], !.worker = None]
    <3>3. y.status # "done" /\ y.exec = x.exec
      BY <3>1, <3>2 DEF Row
    <3>4. Write(r, "reclaim", y)
      BY <3>2
    <3> HIDE DEF y
    <3> QED
      BY <1>0, <3>1, <3>3, <3>4, WriteCalm
  <2>3. CASE RecCommit \/ RecAbort
    BY <1>0, <2>3, CommitCalm, RollbackCalm DEF RecCommit, RecAbort
  <2>4. CASE RecScan \/ RecAlive \/ RecProbeDead \/ RecAllProbed
    BY <1>0, <2>4, StutterCalm DEF RecScan, RecAlive, RecProbeDead, RecAllProbed
  <2> QED
    BY <1>4, <2>1, <2>2, <2>3, <2>4 DEF ReclaimStep
<1>5. ASSUME NEW w \in Workers, WorkerStep(w)
      PROVE  Fades /\ NoneDone /\ ExecKept /\ JobLocks /\ Respects("job")
  <2>1. UNCHANGED tableVars \/ (JobsOf(w) \in SUBSET Runs /\ Rollback("job", JobsOf(w)))
    BY <1>5 DEF WorkerStep, Crash, Heartbeat, HeartbeatExpires, JobsOf
  <2> QED
    BY <1>0, <2>1, StutterCalm, RollbackCalm
<1> QED
  BY <1>0, <1>1, <1>2, <1>3, <1>4, <1>5 DEF Next
-----------------------------------------------------------------------------
(***************************************************************************)
(* Where the counter of a job goes in one step, for the same invariants.   *)
(***************************************************************************)

\* A stage may be opened, a container may exist, no verdict can be written
\* any more.
Opening == {"creating", "recording", "starting"}
Holding == {"arming", "settingup", "recording", "starting", "waiting"}
After == {"wrapping", "raised", "aborting", "retrying", "finalizing", "closing",
          "hook", "ended", "dead"}
Verdict == {"gathering", "publishing", "collecting"}

OthersRest(r) == \A q \in Runs : q # r => job'[q] = job[q]

\* A step of the task of run r.
TaskMove(r) ==
  /\ OthersRest(r)
  /\ job[r].pc \notin Executing /\ job'[r].pc \notin Executing \ {"preparing"}
  /\ job'[r].pc \in {"ready", "claiming", "hook", "ended"} =>
       Pick(r) \/ ClaimRun(r) \/ DropArchived(r) \/ CloseRun(r) \/ EndOfJob(r)
  /\ job[r].pc \in After => job'[r].pc \in After
  /\ job'[r].stage = job[r].stage /\ job'[r].exit = job[r].exit
  /\ Pick(r) \/ job'[r].on = job[r].on
  /\ job'[r].pc = "aborting" => job[r].pc = "configuring"
  /\ SameTold(r) /\ SameSession(r)
  /\ UNCHANGED <<sig, ctr, late, api>>

LEMMA TaskMoves ==
  ASSUME JobOK, SideOK, NEW r \in Runs, TaskStep(r)
  PROVE  TaskMove(r)
<1> USE DEF TaskMove, OthersRest, MovesTo, SameWork, SameTold, SameSession,
            After, Counters, AtRest, Early, Beating, Executing, Leaving, redisVars, sideVars
<1>1. CASE Pick(r)
  BY <1>1, JobPick DEF Pick, SideOK
<1>2. CASE ClaimRun(r)
  BY <1>2, JobGoto DEF ClaimRun
<1>3. CASE AnnouncePreparing(r)
  BY <1>3, JobGoto DEF AnnouncePreparing
<1>4. CASE SkipArchived(r)
  BY <1>4, JobGoto DEF SkipArchived
<1>5. CASE DropArchived(r)
  BY <1>5, JobGoto DEF DropArchived
<1>6. CASE StartHeartbeat(r)
  BY <1>6, JobGoto DEF StartHeartbeat
<1>7. CASE Configure(r)
  <2>1. job[r].pc = "configuring" /\ UNCHANGED <<sig, ctr, late, api>>
    BY <1>7 DEF Configure
  <2>2. CASE Goto(r, "preparing")
    BY <2>1, <2>2, JobGoto
  <2>3. ASSUME NEW infra \in BOOLEAN,
               Become(r, [job[r] EXCEPT !.pc = "aborting", !.infra = infra])
        PROVE  MovesTo(r, "aborting") /\ SameWork(r) /\ SameTold(r) /\ SameSession(r)
    BY <2>1, <2>3, JobRefuse
  <2> QED
    BY <1>7, <2>1, <2>2, <2>3 DEF Configure
<1>8. CASE AbortRun(r)
  BY <1>8, JobGoto DEF AbortRun
<1>9. CASE AttemptRetry(r)
  BY <1>9, JobGoto DEF AttemptRetry
<1>10. CASE Notify(r)
  BY <1>10, JobGoto DEF Notify
<1>11. CASE CloseRun(r)
  BY <1>11, JobGoto DEF CloseRun
<1>12. CASE EndOfJob(r)
  BY <1>12, JobGoto DEF EndOfJob
<1> QED
  BY <1>1, <1>2, <1>3, <1>4, <1>5, <1>6, <1>7, <1>8, <1>9, <1>10, <1>11, <1>12
  DEF TaskStep

\* A step of the executor of run r.
ExecutorMove(r) ==
  /\ OthersRest(r)
  /\ job[r].pc \in Executing
  /\ job'[r].pc \in Executing \union {"finalizing", "aborting"}
  /\ job[r].pc \in After => job'[r].pc \in After
  /\ job'[r].pc = "raised" => FinishSetup(r) \/ Raise(r)
  /\ job'[r].pc = "aborting" => HandleError(r) /\ job[r].infra
  /\ job'[r].pc = "arming" => Prepare(r)
  /\ job'[r].pc = "creating" =>
       CheckBoundary(r) /\ (~row[r].asked \/ "probe" \in Faults)
  /\ job'[r].pc \in {"recording", "starting"} => job[r].pc \in {"creating", "recording"}
  /\ job'[r].pc \in Verdict =>
       \/ job[r].pc \in Verdict /\ job'[r].stage = job[r].stage /\ job'[r].exit = job[r].exit
       \/ job'[r].stage = Stages
       \/ job'[r].told
       \/ job'[r].exit # "ok"
  /\ job'[r].stage = job[r].stage \/ job[r].pc = "creating"
  /\ job'[r].on = job[r].on
  /\ job'[r].told => job[r].told \/ row[r].asked
  /\ UNCHANGED api
  /\ \A q \in Runs : sig'[q] \in {sig[q], "deaf"}
  /\ \/ UNCHANGED late
     \/ StartContainer(r) /\ job'[r].pc = "waiting"

LEMMA ExecutorMoves ==
  ASSUME JobOK, SideOK, NEW r \in Runs, ExecutorStep(r)
  PROVE  ExecutorMove(r)
<1> USE DEF ExecutorMove, OthersRest, MovesTo, SameWork, SameTold, After, Verdict,
            Counters, AtRest, Early, Beating, Executing, Leaving, redisVars,
            sideVars
<1>1. CASE Prepare(r)
  BY <1>1, JobGoto DEF Prepare
<1>2. CASE FinishSetup(r)
  <2>1. job[r].pc = "settingup" /\ UNCHANGED <<sig, api, late>>
    BY <1>2 DEF FinishSetup
  <2>2. \E pc \in {"marking", "raised"} : MovesTo(r, pc) /\ SameWork(r) /\ SameTold(r)
    BY <1>2, <2>1, JobGoto, JobThrow DEF FinishSetup
  <2> QED
    BY <1>2, <2>1, <2>2
<1>3. CASE MarkRunningStep(r)
  BY <1>3, JobGoto, JobReturn DEF MarkRunningStep, GiveUp, SideOK, Status, Terminal
<1>4. CASE AnnounceRunning(r)
  BY <1>4, JobGoto DEF AnnounceRunning
<1>5. CASE CheckBoundary(r)
  <2>1. job[r].pc = "boundary" /\ UNCHANGED <<sig, api, late>>
    BY <1>5 DEF CheckBoundary
  <2>2. CASE job[r].stage = Stages /\ Goto(r, "gathering")
    BY <2>1, <2>2, JobGoto
  <2>3. CASE /\ job[r].told \/ row[r].asked
             /\ Become(r, [job[r] EXCEPT !.pc = "gathering", !.told = TRUE])
    <3>1. MovesTo(r, "gathering") /\ SameWork(r)
      BY <2>1, <2>3, JobTold
    <3>2. job'[r].told
      BY <2>3 DEF Become, JobOK, Job
    <3> QED
      BY <2>1, <2>3, <3>1, <3>2
  <2>4. CASE ~row[r].asked /\ Goto(r, "creating")
    BY <1>5, <2>1, <2>4, JobGoto
  <2>5. ASSUME "probe" \in Faults, NEW b \in BOOLEAN,
               Become(r, [job[r] EXCEPT !.pc = "creating", !.broken = b])
        PROVE  ExecutorMove(r)
    <3>1. MovesTo(r, "creating") /\ SameWork(r) /\ SameTold(r)
      BY <2>1, <2>5, JobProbes
    <3> QED
      BY <1>5, <2>1, <2>5, <3>1
  <2> QED
    BY <1>5, <2>2, <2>3, <2>4, <2>5 DEF CheckBoundary
<1>6. CASE CreateContainer(r)
  BY <1>6, CreateContainerMoves DEF CreateContainer
<1>7. CASE RecordExecution(r)
  BY <1>7, JobGoto DEF RecordExecution
<1>8. CASE StartContainer(r)
  BY <1>8, JobGoto DEF StartContainer
<1>9. CASE FinishStage(r)
  BY <1>9, FinishStageMoves DEF FinishStage
<1>10. CASE MarkCollectingStep(r)
  BY <1>10, JobGoto, JobReturn DEF MarkCollectingStep, GiveUp, SideOK, Status, Terminal
<1>11. CASE AnnounceCollecting(r)
  BY <1>11, JobGoto DEF AnnounceCollecting
<1>12. CASE FinishRun(r)
  BY <1>12, FinishRunMoves DEF FinishRun
<1>13. CASE LeaveExecutor(r)
  BY <1>13, JobGoto DEF LeaveExecutor, SideOK
<1>14. CASE Raise(r)
  <2>1. /\ job[r].pc \in Executing /\ job[r].pc # "ready"
        /\ UNCHANGED <<sig, api, late>>
        /\ \E infra \in BOOLEAN : Throw(r, infra)
    BY <1>14 DEF Raise
  <2>2. MovesTo(r, "raised") /\ SameWork(r) /\ SameTold(r)
    BY <2>1, JobThrow
  <2> QED
    BY <1>14, <2>1, <2>2
<1>15. CASE HandleError(r)
  <2>1. job[r].pc = "raised" /\ UNCHANGED <<api, late>>
        /\ \A q \in Runs : sig'[q] \in {sig[q], "deaf"}
    BY <1>15 DEF HandleError, SideOK
  <2>2. CASE job[r].infra /\ Return(r, "aborting", None)
    BY <1>15, <2>1, <2>2, JobReturn
  <2>3. CASE Return(r, "finalizing", "failed")
    BY <2>1, <2>3, JobReturn DEF Status, Terminal
  <2> QED
    BY <1>15, <2>2, <2>3 DEF HandleError
<1>16. CASE StartSetup(r)
  BY <1>16, JobGoto DEF StartSetup
<1> QED
  BY <1>1, <1>2, <1>3, <1>4, <1>5, <1>6, <1>7, <1>8, <1>9, <1>10, <1>11, <1>12,
    <1>13, <1>14, <1>15, <1>16
  DEF ExecutorStep

\* A step that is no job's, seen from run q.
OtherMove(q) ==
  /\ SameWork(q)
  /\ \/ /\ job'[q].pc = job[q].pc
        /\ job'[q].broken = job[q].broken /\ job'[q].infra = job[q].infra
     \/ job[q].pc \notin AtRest /\ job'[q].pc = "dead"
     \/ /\ JobTimeout(q) /\ job[q].pc \notin AtRest
        /\ \/ job'[q].pc = "finalizing"
           \/ job'[q].pc = "hook" /\ job'[q].broken
  /\ job'[q].told => job[q].told \/ sig[q] = "signalled"

LEMMA OthersMove ==
  ASSUME JobOK, Next, ~ \E r \in Runs : JobStep(r), NEW q \in Runs
  PROVE  OtherMove(q) /\ UNCHANGED late
<1> USE DEF OtherMove, SameWork, SideOK
<1>1. ASSUME NEW r \in Runs, HearCancel(r) PROVE OtherMove(q) /\ UNCHANGED late
  <2>1. MovesTo(r, job[r].pc) /\ SameWork(r) /\ sig[r] = "signalled" /\ UNCHANGED late
    BY <1>1, JobHears DEF HearCancel, Executing, sideVars
  <2>2. job'[r].broken = job[r].broken /\ job'[r].infra = job[r].infra
    BY <1>1 DEF HearCancel, Become, JobOK, Job
  <2> QED
    BY <2>1, <2>2 DEF MovesTo
<1>2. ASSUME NEW r \in Runs, JobTimeout(r) PROVE OtherMove(q) /\ UNCHANGED late
  <2> USE DEF Counters, AtRest, Early, Beating, Executing, Leaving
  <2>1. /\ job[r].pc \notin AtRest /\ UNCHANGED late
        /\ Cut(r, "hook") \/ Cut(r, "finalizing") \/ Return(r, "finalizing", None)
    BY <1>2 DEF JobTimeout, sideVars
  <2>2. /\ SameTold(r) /\ SameWork(r)
        /\ \/ MovesTo(r, "hook") /\ job'[r].broken
           \/ MovesTo(r, "finalizing")
    BY <2>1, JobCut, JobReturn
  <2> QED
    BY <1>2, <2>1, <2>2 DEF MovesTo, SameTold
<1>3. ASSUME NEW w \in Workers, Crash(w) PROVE OtherMove(q) /\ UNCHANGED late
  <2>1. job[q] \in Job
    BY DEF JobOK
  <2>2. job'[q] = IF q \in JobsOf(w) THEN [job[q] EXCEPT !.pc = "dead"] ELSE job[q]
    BY <1>3 DEF Crash
  <2> QED
    BY <1>3, <2>1, <2>2 DEF Crash, JobsOf, Job, sideVars
<1>4. ASSUME NEW r \in Runs,
             Subscribe(r) \/ StopContainer(r) \/ ContainerExits(r) \/
               RequestCancel(r) \/ ApiStep(r)
      PROVE  UNCHANGED <<job, late>>
  BY <1>4 DEF Subscribe, StopContainer, ContainerExits, RequestCancel, ApiStep,
       CancelUpdate, CancelPublish, CancelCommit, CancelAbort, sideVars
<1>5. ASSUME ReclaimStep PROVE UNCHANGED <<job, late>>
  BY <1>5
  DEF ReclaimStep, RecScan, RecAlive, RecProbeDead, RecMark, RecAllProbed,
       RecStale, RecCommit, RecAbort, sideVars
<1>6. ASSUME NEW w \in Workers, Heartbeat(w) \/ HeartbeatExpires(w)
      PROVE  UNCHANGED <<job, late>>
  BY <1>6 DEF Heartbeat, HeartbeatExpires, sideVars
<1> QED
  BY <1>1, <1>2, <1>3, <1>4, <1>5, <1>6 DEF Next, WatcherStep, WorkerStep
-----------------------------------------------------------------------------
(***************************************************************************)
(* The invariants of the theorems at the end of the module.  What a session *)
(* holds uncommitted is a verdict of its own kind, so a done or a timeout  *)
(* is committed only together with the release of its worker.              *)
(***************************************************************************)
Attached(x) == x.status \in {"done", "timeout"} /\ x.worker # None

TableRel ==
  \A r \in Runs :
    /\ ~Attached(row[r])
    /\ lock[r] = "api" => draft[r].status = "cancelled"
    /\ lock[r] = "reclaim" => draft[r].worker = None

\* The handler of the task commits a failed run only: the executor hands the
\* exceptions on that it could not have met with a verdict flushed.
OwnRel ==
  \A r \in Runs : lock[r] = "job" =>
    /\ job[r].pc = "aborting" => draft[r].status = "failed"
    /\ job[r].pc = "raised" => ~job[r].infra

LEMMA RelWrite ==
  ASSUME TableInv, TableRel, NEW r \in Runs, NEW s \in Sessions, NEW x,
         Write(r, s, x), s = "api" => x.status = "cancelled",
         s = "reclaim" => x.worker = None
  PROVE  TableRel'
BY DEF TableInv, TableTypeOK, TableRel, Write, Sessions, Attached

LEMMA RelStore ==
  ASSUME TableInv, TableRel, NEW r \in Runs, NEW s \in Sessions, NEW x,
         Store(r, s, x), ~Attached(x)
  PROVE  TableRel'
<1>1. \A q \in Runs : q # r => row'[q] = row[q] /\ draft'[q] = draft[q] /\ lock'[q] = lock[q]
  BY DEF TableInv, TableTypeOK, Store
<1>2. row'[r] = x /\ lock'[r] = "free"
  BY DEF TableInv, TableTypeOK, Store
<1> QED
  BY <1>1, <1>2 DEF TableRel, Attached

LEMMA RelCommit ==
  ASSUME TableRel, NEW s \in Sessions, NEW S \in SUBSET Runs, Commit(s, S),
         \A q \in S : lock[q] = s => ~Attached(draft[q])
  PROVE  TableRel'
BY DEF TableRel, Commit, HeldBy, Attached

LEMMA RelRollback ==
  ASSUME TableRel, NEW s \in Sessions, NEW S \in SUBSET Runs, Rollback(s, S)
  PROVE  TableRel'
BY DEF TableRel, Rollback, HeldBy, Attached

LEMMA RelStutter ==
  ASSUME TableRel, UNCHANGED tableVars
  PROVE  TableRel'
BY DEF TableRel, tableVars, Attached

LEMMA CloseSessionRel ==
  ASSUME TableInv, TableRel, NEW r \in Runs, CloseSession(r),
         row[r].worker \in {None, job[r].on}
  PROVE  TableRel'
<1> DEFINE x == Seen(r, "job")
<1>1. x \in Row /\ x.worker \in {row[r].worker, None} /\ "job" \in Sessions
  BY SeenContinues DEF Sessions
<1>2. CASE x.worker = job[r].on
  <2> DEFINE y == Release(x, job[r].on)
  <2>1. Store(r, "job", y)
    BY <1>2 DEF CloseSession
  <2>2. ~Attached(y)
    BY <1>1, <1>2 DEF Release, Row, Attached
  <2> HIDE DEF y
  <2> QED
    BY <1>1, <2>1, <2>2, RelStore
<1>3. CASE x.worker # job[r].on
  <2>1. Commit("job", {r}) /\ {r} \in SUBSET Runs
    BY <1>3 DEF CloseSession
  <2>2. lock[r] = "job" => ~Attached(draft[r])
    BY <1>1, <1>3 DEF Seen, Attached
  <2> QED
    BY <1>1, <2>1, <2>2, RelCommit
<1> QED
  BY <1>2, <1>3

\* No step of anybody commits a done or a timeout with its worker.
LEMMA TaskKeepsRel ==
  ASSUME IInv, TableRel, OwnRel, NEW r \in Runs, TaskStep(r),
         row[r].worker \in {None, job[r].on}
  PROVE  TableRel'
<1> USE DEF IInv
<1> DEFINE x == Seen(r, "job")
<1>1. x \in Row /\ "job" \in Sessions
  BY SeenContinues DEF Sessions
<1>2. ~Attached(Fail(x)) /\ ~Attached(Claim(x, job[r].on))
  BY <1>1 DEF Fail, Claim, Row, Attached
<1> HIDE DEF x
<1>3. CASE ClaimRun(r)
  BY <1>1, <1>2, <1>3, RelStore, RelStutter DEF ClaimRun, x
<1>4. CASE SkipArchived(r)
  <2>1. Write(r, "job", Cancel(x)) \/ UNCHANGED tableVars
    BY <1>4 DEF SkipArchived, x, tableVars
  <2> QED
    BY <1>1, <2>1, RelWrite, RelStutter
<1>5. CASE DropArchived(r) \/ CloseRun(r)
  BY <1>5, CloseSessionRel DEF DropArchived, CloseRun
<1>6. CASE AbortRun(r)
  <2>1. Store(r, "job", Fail(x)) \/ (Commit("job", {r}) /\ {r} \in SUBSET Runs)
    BY <1>6 DEF AbortRun, x
  <2>2. lock[r] = "job" => ~Attached(draft[r])
    BY <1>6 DEF AbortRun, OwnRel, Attached
  <2> QED
    BY <1>1, <1>2, <2>1, <2>2, RelStore, RelCommit
<1>7. CASE EndOfJob(r)
  <2>1. Store(r, "job", Fail(row[r])) \/ UNCHANGED tableVars
    BY <1>7 DEF EndOfJob
  <2>2. ~Attached(Fail(row[r]))
    BY DEF TableInv, TableTypeOK, Row, Fail, Attached
  <2> QED
    BY <1>1, <2>1, <2>2, RelStore, RelStutter
<1>8. CASE \/ Pick(r) \/ AnnouncePreparing(r) \/ StartHeartbeat(r)
           \/ Configure(r) \/ AttemptRetry(r) \/ Notify(r)
  <2>1. UNCHANGED tableVars
    BY <1>8 DEF Pick, AnnouncePreparing, StartHeartbeat, Configure,
       AttemptRetry, Notify
  <2> QED
    BY <2>1, RelStutter
<1> QED
  BY <1>3, <1>4, <1>5, <1>6, <1>7, <1>8 DEF TaskStep

LEMMA ExecutorKeepsRel ==
  ASSUME IInv, TableRel, NEW r \in Runs, ExecutorStep(r)
  PROVE  TableRel'
<1> USE DEF IInv
<1> DEFINE x == Seen(r, "job")
<1>1. x \in Row /\ "job" \in Sessions
  BY SeenContinues DEF Sessions
<1>2. ~Attached(MarkRunning(x)) /\ ~Attached(MarkCollecting(x))
  BY <1>1 DEF MarkRunning, MarkCollecting, Row, Attached
<1> HIDE DEF x
<1>3. CASE MarkRunningStep(r)
  BY <1>1, <1>2, <1>3, RelStore, RelStutter DEF MarkRunningStep, x
<1>4. CASE MarkCollectingStep(r)
  BY <1>1, <1>2, <1>4, RelStore, RelStutter DEF MarkCollectingStep, x
<1>5. CASE RecordExecution(r)
  <2> DEFINE y == SetExec(x, job[r].stage)
  <2>1. x = row[r] /\ Store(r, "job", y)
    BY <1>5 DEF RecordExecution, LocksAreShort, LockHolder, Seen, x
  <2>2. ~Attached(y)
    BY <1>1, <2>1 DEF SetExec, Row, TableRel, Attached
  <2> HIDE DEF y
  <2> QED
    BY <1>1, <2>1, <2>2, RelStore
<1>6. CASE FinishRun(r) \/ HandleError(r)
  <2>1. UNCHANGED tableVars \/ \E y : Write(r, "job", y)
    BY <1>6 DEF FinishRun, HandleError
  <2> QED
    BY <1>1, <2>1, RelWrite, RelStutter
<1>7. CASE \/ Prepare(r) \/ StartSetup(r) \/ FinishSetup(r) \/ AnnounceRunning(r)
           \/ CheckBoundary(r) \/ CreateContainer(r) \/ StartContainer(r)
           \/ FinishStage(r) \/ AnnounceCollecting(r) \/ LeaveExecutor(r)
           \/ Raise(r)
  <2>1. UNCHANGED tableVars
    BY <1>7 DEF Prepare, StartSetup, FinishSetup, AnnounceRunning,
       CheckBoundary, CreateContainer, StartContainer, FinishStage,
       AnnounceCollecting, LeaveExecutor, Raise
  <2> QED
    BY <2>1, RelStutter
<1> QED
  BY <1>3, <1>4, <1>5, <1>6, <1>7 DEF ExecutorStep

LEMMA OthersKeepRel ==
  ASSUME IInv, TableRel, Next, ~ \E r \in Runs : JobStep(r)
  PROVE  TableRel'
<1> USE DEF IInv
<1>0. Sessions = {"api", "job", "reclaim"}
  BY DEF Sessions
<1>1. ASSUME NEW r \in Runs, ApiStep(r) PROVE TableRel'
  <2>1. Cancel(Seen(r, "api")).status = "cancelled"
    BY <1>0, SeenContinues DEF Cancel, Row
  <2>2. \/ Write(r, "api", Cancel(Seen(r, "api"))) \/ UNCHANGED tableVars
        \/ ({r} \in SUBSET Runs /\ (Commit("api", {r}) \/ Rollback("api", {r})))
    BY <1>1 DEF ApiStep, CancelUpdate, CancelPublish, CancelCommit, CancelAbort
  <2>3. lock[r] = "api" => ~Attached(draft[r])
    BY DEF TableRel, Attached
  <2> QED
    BY <1>0, <2>1, <2>2, <2>3, RelWrite, RelStutter, RelCommit, RelRollback
<1>2. ASSUME NEW r \in Runs,
             \/ JobTimeout(r) \/ WatcherStep(r) \/ ContainerExits(r)
             \/ RequestCancel(r)
      PROVE  TableRel'
  <2>1. UNCHANGED tableVars \/ ({r} \in SUBSET Runs /\ Rollback("job", {r}))
    BY <1>2 DEF JobTimeout, WatcherStep, Subscribe, HearCancel, StopContainer,
       ContainerExits, RequestCancel
  <2> QED
    BY <1>0, <2>1, RelStutter, RelRollback
<1>3. ASSUME ReclaimStep PROVE TableRel'
  <2>1. CASE RecMark
    <3> DEFINE r == rec.cur.run
               x == Seen(r, "reclaim")
    <3>1. r \in Runs
      BY <2>1 DEF RecMark, RecOK, Candidate
    <3>2. MarkLost(x).worker = None
      BY <1>0, <3>1, SeenContinues DEF MarkLost, Row
    <3>3. UNCHANGED tableVars \/ Write(r, "reclaim", MarkLost(x))
      BY <2>1 DEF RecMark
    <3> HIDE DEF r, x
    <3> QED
      BY <1>0, <3>1, <3>2, <3>3, RelWrite, RelStutter
  <2>2. ASSUME NEW r \in Runs, RecStale(r) PROVE TableRel'
    <3> DEFINE x == Seen(r, "reclaim")
    <3>1. x \in Row
      BY <1>0, SeenContinues
    <3> HIDE DEF x
    <3>2. PICK s \in {<<"preparing", "failed">>, <<"collecting", "timeout">>} :
            Write(r, "reclaim", [x EXCEPT !.status = s[2], !.worker = None])
      BY <2>2 DEF RecStale, x
    <3> DEFINE y == [x EXCEPT !.status = s[2], !.worker = None]
    <3>3. y.worker = None
      BY <3>1 DEF Row
    <3>4. Write(r, "reclaim", y)
      BY <3>2
    <3> HIDE DEF y
    <3> QED
      BY <1>0, <3>3, <3>4, RelWrite
  <2>3. CASE RecCommit \/ RecAbort
    <3>1. \A q \in Runs : lock[q] = "reclaim" => ~Attached(draft[q])
      BY DEF TableRel, Attached
    <3> QED
      BY <1>0, <2>3, <3>1, RelCommit, RelRollback DEF RecCommit, RecAbort
  <2>4. CASE RecScan \/ RecAlive \/ RecProbeDead \/ RecAllProbed
    BY <2>4, RelStutter DEF RecScan, RecAlive, RecProbeDead, RecAllProbed
  <2> QED
    BY <1>3, <2>1, <2>2, <2>3, <2>4 DEF ReclaimStep
<1>4. ASSUME NEW w \in Workers, WorkerStep(w) PROVE TableRel'
  <2>1. UNCHANGED tableVars \/ (JobsOf(w) \in SUBSET Runs /\ Rollback("job", JobsOf(w)))
    BY <1>4 DEF WorkerStep, Crash, Heartbeat, HeartbeatExpires, JobsOf
  <2> QED
    BY <1>0, <2>1, RelStutter, RelRollback
<1> QED
  BY <1>1, <1>2, <1>3, <1>4 DEF Next

\* A step of a job touches no other run.
LEMMA JobTouches ==
  ASSUME TableInv, NEW r \in Runs, JobStep(r)
  PROVE  \A q \in Runs : q # r => row'[q] = row[q] /\ draft'[q] = draft[q] /\ lock'[q] = lock[q]
<1>1. \/ UNCHANGED tableVars
      \/ \E x : Write(r, "job", x) \/ Store(r, "job", x)
      \/ Commit("job", {r}) \/ Rollback("job", {r})
  <2>1. CASE TaskStep(r)
    BY <2>1 DEF TaskStep, Pick, ClaimRun, AnnouncePreparing, SkipArchived,
       DropArchived, CloseSession, StartHeartbeat, Configure, AbortRun,
       AttemptRetry, Notify, CloseRun, EndOfJob, tableVars
  <2>2. CASE ExecutorStep(r)
    BY <2>2 DEF ExecutorStep, Prepare, StartSetup, FinishSetup, MarkRunningStep,
       AnnounceRunning, CheckBoundary, CreateContainer, RecordExecution,
       StartContainer, FinishStage, MarkCollectingStep, AnnounceCollecting,
       FinishRun, LeaveExecutor, Raise, HandleError, tableVars
  <2>3. CASE DbFails(r)
    BY <2>3 DEF DbFails
  <2> QED
    BY <2>1, <2>2, <2>3 DEF JobStep
<1>2. CASE UNCHANGED tableVars
  BY <1>2 DEF tableVars
<1>3. ASSUME NEW x, Write(r, "job", x) \/ Store(r, "job", x)
      PROVE  \A q \in Runs : q # r => row'[q] = row[q] /\ draft'[q] = draft[q] /\ lock'[q] = lock[q]
  BY <1>3 DEF TableInv, TableTypeOK, Write, Store
<1>4. CASE Commit("job", {r}) \/ Rollback("job", {r})
  BY <1>4 DEF TableInv, TableTypeOK, Commit, Rollback, HeldBy
<1> QED
  BY <1>1, <1>2, <1>3, <1>4

LEMMA OwnKeeps ==
  ASSUME IInv, OwnRel, [Next]_vars
  PROVE  OwnRel'
<1> USE DEF IInv
<1>0. IInv'
  BY NextInv
<1>1. ASSUME NEW r \in Runs, JobStep(r), OthersRest(r),
             lock'[r] = "job" =>
               /\ job'[r].pc = "aborting" => draft'[r].status = "failed"
               /\ job'[r].pc = "raised" => ~job'[r].infra
      PROVE  OwnRel'
  BY <1>1, JobTouches DEF OwnRel, OthersRest
<1>2. ASSUME NEW r \in Runs, TaskStep(r) PROVE OwnRel'
  <2>1. TaskMove(r)
    BY <1>2, TaskMoves
  <2>2. Configure(r) => lock[r] # "job" /\ lock' = lock
    BY DEF Configure, LocksAreShort, LockHolder, tableVars
  <2>3. job'[r].pc = "aborting" => Configure(r)
    BY <1>2, <2>1 DEF TaskMove, TaskStep, Pick, ClaimRun, AnnouncePreparing,
       SkipArchived, DropArchived, StartHeartbeat, AbortRun, AttemptRetry,
       Notify, CloseRun, EndOfJob
  <2>4. job'[r].pc # "raised"
    BY <2>1 DEF TaskMove, Executing
  <2> QED
    BY <1>1, <1>2, <2>1, <2>2, <2>3, <2>4 DEF TaskMove, JobStep
<1>3. ASSUME NEW r \in Runs, ExecutorStep(r) PROVE OwnRel'
  <2>1. ExecutorMove(r)
    BY <1>3, ExecutorMoves
  <2>2. ASSUME job'[r].pc = "aborting", lock'[r] = "job"
        PROVE  draft'[r].status = "failed"
    <3> DEFINE x == Seen(r, "job")
    <3>1. HandleError(r) /\ job[r].infra /\ job[r].pc = "raised"
      BY <2>1, <2>2 DEF ExecutorMove, HandleError
    <3>2. lock[r] # "job"
      BY <3>1 DEF OwnRel
    <3>3. Fail(x).status = "failed"
      BY SeenContinues DEF Sessions, Fail, Row
    <3>4. Write(r, "job", Fail(x)) \/ UNCHANGED tableVars
      BY <3>1 DEF HandleError
    <3> HIDE DEF x
    <3> QED
      BY <2>2, <3>2, <3>3, <3>4 DEF Write, tableVars, TableInv, TableTypeOK
  <2>3. ASSUME job'[r].pc = "raised", lock'[r] = "job"
        PROVE  ~job'[r].infra
    <3>1. FinishSetup(r) \/ Raise(r)
      BY <2>1, <2>3 DEF ExecutorMove
    <3>2. lock' = lock
      BY <3>1 DEF FinishSetup, Raise, tableVars
    <3>3. Raise(r) /\ job[r].pc = "wrapping"
      BY <2>3, <3>1, <3>2 DEF FinishSetup, Raise, LocksAreShort, LockHolder
    <3>4. Throw(r, FALSE)
      BY <3>3 DEF Raise
    <3> QED
      BY <3>4 DEF Throw, Become, JobOK, Job
  <2> QED
    BY <1>1, <1>3, <2>1, <2>2, <2>3 DEF ExecutorMove, JobStep
<1>4. ASSUME NEW r \in Runs, DbFails(r) PROVE OwnRel'
  <2>1. DbMove(r)
    BY <1>4, DbFailsMoves
  <2>2. lock'[r] # "job"
    BY <2>1 DEF DbMove, Rollback, HeldBy
  <2> QED
    BY <1>1, <1>4, <2>1, <2>2 DEF DbMove, MovesTo, OthersRest, JobStep
<1>5. ASSUME Next, ~ \E r \in Runs : JobStep(r) PROVE OwnRel'
  <2> SUFFICES ASSUME NEW q \in Runs, lock'[q] = "job" PROVE OwnRel!(q)'
    BY DEF OwnRel
  <2>1. lock[q] = "job" /\ draft'[q] = draft[q]
    BY <1>5, OthersCalm DEF JobLocks
  <2>2. \/ job'[q].pc = job[q].pc /\ job'[q].infra = job[q].infra
        \/ job'[q].pc \in {"dead", "finalizing", "hook"}
    BY <1>5, OthersMove DEF OtherMove
  <2> QED
    BY <2>1, <2>2 DEF OwnRel
<1>6. CASE UNCHANGED vars
  BY <1>6 DEF OwnRel, vars
<1> QED
  BY <1>2, <1>3, <1>4, <1>5, <1>6 DEF JobStep

\* A run has no worker but the one of its job; none before its job has
\* claimed it, and none after it, if the last commit of the job was possible.
WorkerInv ==
  \A r \in Runs :
    /\ row[r].worker \in {None, job[r].on}
    /\ job[r].pc \in {"ready", "claiming"} => row[r].worker = None
    /\ job[r].pc \in {"hook", "ended"} => row[r].worker = None \/ job[r].broken

LEMMA WorkerStepKeeps ==
  ASSUME IInv, WorkerInv, [Next]_vars
  PROVE  WorkerInv'
<1> USE DEF IInv
<1>1. ASSUME NEW r \in Runs, TaskStep(r) PROVE WorkerInv'
  <2>1. row[r].worker \in {None, job[r].on}
    BY DEF WorkerInv
  <2>2. Fades \/ (ClaimRun(r) /\ row'[r].worker = job[r].on
                  /\ \A q \in Runs : q # r => row'[q] = row[q])
    BY <1>1, TaskCalm
  <2>3. TaskMove(r)
    BY <1>1, TaskMoves
  <2>4. ASSUME NEW q \in Runs, q # r PROVE WorkerInv!(q)'
    BY <2>2, <2>3, <2>4 DEF WorkerInv, TaskMove, OthersRest, Fades
  <2>5. CASE Pick(r)
    <3>1. job[r].pc = "ready" /\ row' = row
      BY <2>5 DEF Pick, tableVars
    <3> QED
      BY <2>4, <3>1 DEF WorkerInv
  <2>6. CASE ClaimRun(r)
    <3>1. job'[r].on = job[r].on /\ job[r].pc = "claiming"
      BY <2>3, <2>6 DEF TaskMove, ClaimRun, Pick
    <3>2. \/ job'[r].pc = "claimed"
          \/ row' = row
      BY <2>6, <3>1, JobGoto DEF ClaimRun, MovesTo, tableVars, Counters, Early
    <3> QED
      BY <2>2, <2>4, <3>1, <3>2 DEF WorkerInv, Fades
  <2>7. CASE DropArchived(r) \/ CloseRun(r)
    <3>1. CloseSession(r) /\ job[r].pc # "ready"
      BY <2>7 DEF DropArchived, CloseRun
    <3>2. row'[r].worker = None
      BY <2>1, <3>1, CloseSessionCalm DEF JobOK
    <3>3. job'[r].on = job[r].on
      BY <2>3, <3>1 DEF TaskMove, Pick
    <3> QED
      BY <2>4, <3>2, <3>3 DEF WorkerInv
  <2>8. CASE ~Pick(r) /\ ~ClaimRun(r)
             /\ (job'[r].pc \in {"ready", "claiming", "hook", "ended"} => EndOfJob(r))
    <3>1. row'[r].worker \in {row[r].worker, None} /\ job'[r].on = job[r].on
      BY <2>2, <2>3, <2>8 DEF Fades, TaskMove
    <3>2. EndOfJob(r) => job[r].pc = "hook"
      BY DEF EndOfJob
    <3>3. EndOfJob(r) => job'[r].pc = "ended"
      BY JobGoto DEF EndOfJob, MovesTo, Counters, AtRest
    <3>4. job'[r].broken = job[r].broken
      BY <2>3 DEF TaskMove, SameSession
    <3> QED
      BY <2>4, <2>8, <3>1, <3>2, <3>3, <3>4 DEF WorkerInv
  <2> QED
    BY <2>3, <2>5, <2>6, <2>7, <2>8 DEF TaskMove
<1>2. ASSUME NEW r \in Runs, ExecutorStep(r) PROVE WorkerInv'
  <2>1. Fades /\ ExecutorMove(r)
    BY <1>2, ExecutorCalm, ExecutorMoves
  <2> QED
    BY <2>1 DEF WorkerInv, Fades, ExecutorMove, OthersRest, Executing
<1>3. ASSUME NEW r \in Runs, DbFails(r) PROVE WorkerInv'
  <2>1. DbMove(r) /\ Fades
    BY <1>3, DbFailsMoves, DbCalm
  <2> QED
    BY <2>1 DEF WorkerInv, Fades, DbMove, MovesTo, SameWork
<1>4. CASE Next /\ ~ \E r \in Runs : JobStep(r)
  <2> SUFFICES ASSUME NEW q \in Runs PROVE WorkerInv!(q)'
    BY DEF WorkerInv
  <2>1. row'[q].worker \in {row[q].worker, None}
    BY <1>4, OthersCalm DEF Fades
  <2>2. /\ job'[q].on = job[q].on
        /\ \/ job'[q].pc = job[q].pc /\ job'[q].broken = job[q].broken
           \/ job'[q].pc \in {"dead", "finalizing"}
           \/ job'[q].pc = "hook" /\ job'[q].broken
    BY <1>4, OthersMove DEF OtherMove, SameWork
  <2> QED
    BY <2>1, <2>2 DEF WorkerInv
<1>5. CASE UNCHANGED vars
  BY <1>5 DEF WorkerInv, vars
<1> QED
  BY <1>1, <1>2, <1>3, <1>4, <1>5 DEF JobStep

LEMMA RelKeeps ==
  ASSUME IInv, WorkerInv, TableRel, OwnRel, [Next]_vars
  PROVE  TableRel'
<1> USE DEF IInv
<1>1. ASSUME NEW r \in Runs, TaskStep(r) PROVE TableRel'
  BY <1>1, TaskKeepsRel DEF WorkerInv
<1>2. ASSUME NEW r \in Runs, ExecutorStep(r) PROVE TableRel'
  BY <1>2, ExecutorKeepsRel
<1>3. ASSUME NEW r \in Runs, DbFails(r) PROVE TableRel'
  BY <1>3, DbFailsMoves, RelRollback DEF DbMove, Sessions
<1>4. CASE UNCHANGED vars
  BY <1>4, RelStutter DEF vars, tableVars
<1> QED
  BY <1>1, <1>2, <1>3, <1>4, OthersKeepRel DEF JobStep

\* A container that is not left for good exists only while the executor is
\* about to start it or waits for it, after a crash, or when it was created
\* and could not be started or written to the row.
Unstarted == {"arming", "recording", "starting"}

ContainersInv ==
  /\ SameExec
  /\ \A r \in Runs :
       /\ row[r].exec <= job[r].stage
       /\ ctr[r] \notin {"none", "left"} =>
            \/ job[r].pc \in Holding \union {"dead"}
            \/ /\ ctr[r] = "created"
               /\ row[r].exec < job[r].stage \/ StartsMayFail
       /\ job[r].pc \in Unstarted => ctr[r] \in {"none", "left", "created"}
       /\ job[r].pc = "recording" => row[r].exec < job[r].stage

LEMMA ContainersKeep ==
  ASSUME IInv, ContainersInv, [Next]_vars
  PROVE  ContainersInv'
<1> USE DEF IInv
<1>0. \A q \in Runs : row[q].exec \in Nat /\ job[q].stage \in Nat
  BY DEF TableInv, TableTypeOK, Row, JobOK, Job
<1>1. ASSUME NEW r \in Runs, TaskStep(r) PROVE ContainersInv'
  <2>1. TaskMove(r) /\ ExecKept
    BY <1>1, TaskMoves, TaskCalm
  <2>2. job[r].pc \notin Holding \union {"dead"} /\ job'[r].pc \notin Holding
    BY <1>1, <2>1 DEF TaskMove, Holding, Executing, TaskStep, Pick, ClaimRun,
       AnnouncePreparing, SkipArchived, DropArchived, StartHeartbeat, Configure,
       AbortRun, AttemptRetry, Notify, CloseRun, EndOfJob
  <2>3. ASSUME NEW q \in Runs
        PROVE  /\ row'[q].exec = row[q].exec /\ ctr'[q] = ctr[q]
               /\ job'[q].stage = job[q].stage
               /\ q # r => job'[q].pc = job[q].pc
    BY <2>1 DEF TaskMove, OthersRest, ContainersInv, ExecKept
  <2> QED
    BY <2>1, <2>2, <2>3 DEF ContainersInv, ExecKept, Holding, Unstarted
<1>2. ASSUME NEW r \in Runs, ExecutorStep(r) PROVE ContainersInv'
  <2>1. ExecutorMove(r)
    BY <1>2, ExecutorMoves
  <2>2. CASE RecordExecution(r)
    <3> DEFINE x == SetExec(Seen(r, "job"), job[r].stage)
    <3>1. x.exec = job[r].stage /\ Store(r, "job", x)
      BY <2>2, SeenContinues DEF RecordExecution, SetExec, Sessions, Row
    <3>2. /\ row'[r].exec = job[r].stage /\ draft'[r].exec = job[r].stage
          /\ \A q \in Runs : q # r => row'[q] = row[q] /\ draft'[q] = draft[q]
      BY <3>1 DEF Store, TableInv, TableTypeOK
    <3>3. MovesTo(r, "starting") /\ job'[r].stage = job[r].stage /\ ctr' = ctr
      BY <2>2, JobGoto
      DEF RecordExecution, SameWork, Counters, Beating, Executing
    <3> QED
      BY <1>0, <2>2, <3>2, <3>3
      DEF RecordExecution, ContainersInv, SameExec, MovesTo, Holding, Unstarted
  <2>3. CASE ~RecordExecution(r)
    <3>1. /\ SameExec' /\ \A q \in Runs : row'[q].exec = row[q].exec
      BY <1>2, <2>3, ExecutorCalm DEF ExecKept, ContainersInv
    <3>2. /\ \A q \in Runs : q # r => ctr'[q] = ctr[q] /\ job'[q] = job[q]
          /\ \/ ctr'[r] \in {"none", "left"} /\ job'[r].stage = job[r].stage
                /\ job'[r].pc # "recording"
             \/ job'[r].pc \in {"settingup", "waiting"} /\ job'[r].stage = job[r].stage
             \/ /\ job'[r].pc = "arming" /\ ctr'[r] = "created"
                /\ job'[r].stage = job[r].stage
             \/ /\ job'[r].pc = "recording" /\ ctr'[r] = "created"
                /\ job'[r].stage = job[r].stage + 1
             \/ /\ job[r].pc \notin Holding \union {"dead"} /\ job'[r].pc \notin Unstarted
                /\ ctr'[r] = ctr[r] /\ job'[r].stage = job[r].stage
             \/ /\ job[r].pc \in Unstarted /\ job'[r].pc = "raised" /\ StartsMayFail
                /\ ctr'[r] = ctr[r] /\ job'[r].stage = job[r].stage
      <4> USE DEF Holding, Unstarted, SideOK, redisVars
      <4>0. ASSUME Raise(r)
            PROVE  job'[r].pc = "raised" /\ job'[r].stage = job[r].stage
        <5>1. job[r].pc # "ready" /\ \E infra \in BOOLEAN : Throw(r, infra)
          BY <4>0 DEF Raise
        <5> QED
          BY <5>1, JobThrow DEF MovesTo, SameWork
      <4>1. \A q \in Runs : q # r => job'[q] = job[q]
        BY <2>1 DEF ExecutorMove, OthersRest
      <4>2. job'[r].stage = job[r].stage \/ CreateContainer(r)
        BY <1>2, <2>1, <4>0 DEF ExecutorMove, ExecutorStep, Prepare, StartSetup,
           FinishSetup, MarkRunningStep, AnnounceRunning, CheckBoundary,
           RecordExecution, StartContainer, FinishStage, MarkCollectingStep,
           AnnounceCollecting, FinishRun, LeaveExecutor, HandleError
      <4>3. job'[r].pc \in Unstarted => CreateContainer(r) \/ Prepare(r)
        BY <1>2, <2>1, <2>3, <4>0 DEF ExecutorMove, ExecutorStep, Prepare, StartSetup,
           FinishSetup, MarkRunningStep, AnnounceRunning, CheckBoundary,
           StartContainer, FinishStage, MarkCollectingStep,
           AnnounceCollecting, FinishRun, LeaveExecutor, HandleError
      <4>4. CASE Prepare(r)
        <5>1. \/ MovesTo(r, "marking") /\ UNCHANGED ctr
              \/ /\ MovesTo(r, "arming") /\ ctr'[r] = "created"
                 /\ \A q \in Runs : q # r => ctr'[q] = ctr[q]
          BY <4>4, JobGoto DEF Prepare, Counters, Beating, Executing
        <5> QED
          BY <4>1, <4>2, <4>3, <4>4, <5>1 DEF Prepare, CreateContainer, MovesTo
      <4>5. CASE StartSetup(r)
        <5>1. MovesTo(r, "settingup")
          BY <4>5, JobGoto DEF StartSetup, Counters, Beating, Executing
        <5> QED
          BY <4>1, <4>2, <4>3, <4>5, <5>1 DEF StartSetup, CreateContainer, MovesTo
      <4>6. CASE FinishSetup(r) \/ FinishStage(r)
        BY <4>1, <4>2, <4>3, <4>6
        DEF FinishSetup, FinishStage, RemoveContainer, CreateContainer, Prepare
      <4>7. CASE CreateContainer(r)
        <5>1. MovesTo(r, "recording")
          BY <4>7, CreateContainerMoves
        <5>2. job'[r].stage = job[r].stage + 1
          BY <4>7 DEF CreateContainer, Become, JobOK, Job
        <5> QED
          BY <4>1, <4>7, <5>1, <5>2 DEF CreateContainer, MovesTo
      <4>8. CASE StartContainer(r)
        <5>1. MovesTo(r, "waiting")
          BY <4>8, JobGoto DEF StartContainer, Counters, Beating, Executing
        <5> QED
          BY <4>1, <4>2, <4>3, <4>8, <5>1 DEF StartContainer, CreateContainer, MovesTo
      <4>9. CASE Raise(r)
        <5>1. \A q \in Runs : q # r => ctr'[q] = ctr[q]
          BY <4>9 DEF Raise, DropContainer, RemoveContainer
        <5>2. \/ ctr'[r] \in {"none", "left"}
              \/ job[r].pc \notin Holding \union {"dead"} /\ ctr'[r] = ctr[r]
              \/ job[r].pc \in Unstarted /\ StartsMayFail /\ ctr'[r] = ctr[r]
          BY <4>9 DEF Raise, DropContainer, RemoveContainer, StartsMayFail
        <5> QED
          BY <4>0, <4>1, <4>9, <5>1, <5>2
      <4>10. CASE \/ MarkRunningStep(r) \/ AnnounceRunning(r) \/ CheckBoundary(r)
                  \/ MarkCollectingStep(r) \/ AnnounceCollecting(r) \/ FinishRun(r)
                  \/ LeaveExecutor(r) \/ HandleError(r)
        <5>1. job[r].pc \notin Holding \union {"dead"} /\ UNCHANGED ctr
              /\ ~CreateContainer(r) /\ ~Prepare(r)
          BY <4>10 DEF MarkRunningStep, AnnounceRunning, CheckBoundary,
             MarkCollectingStep, AnnounceCollecting, FinishRun, LeaveExecutor,
             HandleError, CreateContainer, Prepare
        <5> QED
          BY <4>1, <4>2, <4>3, <5>1
      <4> QED
        BY <1>2, <2>3, <4>4, <4>5, <4>6, <4>7, <4>8, <4>9, <4>10 DEF ExecutorStep
    <3>3. ASSUME NEW q \in Runs, q # r PROVE ContainersInv!2!(q)'
      BY <3>1, <3>2, <3>3 DEF ContainersInv
    <3>4. ContainersInv!2!(r)'
      BY <1>0, <3>1, <3>2 DEF ContainersInv, Holding, Unstarted
    <3> QED
      BY <3>1, <3>3, <3>4 DEF ContainersInv
  <2> QED
    BY <2>2, <2>3
<1>3. ASSUME NEW r \in Runs, DbFails(r) PROVE ContainersInv'
  <2>1. DbMove(r) /\ ExecKept
    BY <1>3, DbFailsMoves, DbCalm
  <2>2. /\ job[r].pc \notin (Holding \union {"dead"}) \ {"recording"}
        /\ job'[r].pc \notin Unstarted
    BY <2>1 DEF DbMove, Querying, Holding, Unstarted
  <2>3. ASSUME NEW q \in Runs
        PROVE  /\ row'[q].exec = row[q].exec /\ ctr'[q] = ctr[q]
               /\ job'[q].stage = job[q].stage
               /\ q # r => job'[q].pc = job[q].pc
    BY <2>1 DEF DbMove, MovesTo, SameWork, ContainersInv, ExecKept
  <2> QED
    BY <2>1, <2>2, <2>3 DEF ContainersInv, ExecKept, Unstarted
<1>4. ASSUME NEW r \in Runs, JobTimeout(r), ~ \E q \in Runs : JobStep(q), Next
      PROVE  ContainersInv'
  <2>1. SameExec' /\ \A q \in Runs : row'[q].exec = row[q].exec
    BY <1>4, OthersCalm DEF ExecKept, ContainersInv
  <2>2. /\ job[r].pc # "ready" /\ StartsMayFail
        /\ Cut(r, "hook") \/ Cut(r, "finalizing") \/ Return(r, "finalizing", None)
    BY <1>4 DEF JobTimeout, StartsMayFail, Early, Leaving, Beating, Executing
  <2>3. /\ \A q \in Runs : q # r => job'[q] = job[q]
        /\ job'[r].pc \in {"hook", "finalizing"} /\ job'[r].stage = job[r].stage
    BY <2>2, JobCut, JobReturn DEF MovesTo, SameWork, Counters, Leaving
  <2>4. /\ \A q \in Runs : q # r => ctr'[q] = ctr[q]
        /\ \/ ctr'[r] \in {"none", "left"}
           \/ /\ ctr'[r] = ctr[r]
              /\ job[r].pc \notin (Holding \union {"dead"}) \ Unstarted
    BY <1>4 DEF JobTimeout, DropContainer, RemoveContainer, SideOK, Holding,
       Unstarted, Early, Leaving, Beating, Executing
  <2>5. ASSUME NEW q \in Runs PROVE ContainersInv!2!(q)'
    BY <2>1, <2>2, <2>3, <2>4 DEF ContainersInv, Unstarted
  <2> QED
    BY <2>1, <2>5 DEF ContainersInv
<1>5. CASE Next /\ ~ \E r \in Runs : JobStep(r) \/ JobTimeout(r)
  <2>1. \A q \in Runs : \/ ctr'[q] \in {ctr[q], "none"}
                        \/ ctr[q] = "running" /\ ctr'[q] = "exited"
    <3> USE DEF SideOK, redisVars, sideVars
    <3>1. ASSUME NEW r \in Runs,
                 \/ WatcherStep(r) \/ ContainerExits(r) \/ RequestCancel(r)
                 \/ ApiStep(r)
          PROVE  <2>1!:
      BY <3>1 DEF WatcherStep, Subscribe, HearCancel, StopContainer,
         ContainerExits, RequestCancel, ApiStep, CancelUpdate, CancelPublish,
         CancelCommit, CancelAbort
    <3>2. CASE ReclaimStep
      BY <3>2 DEF ReclaimStep, RecScan, RecAlive, RecProbeDead, RecMark,
         RecAllProbed, RecStale, RecCommit, RecAbort
    <3>3. ASSUME NEW w \in Workers, WorkerStep(w) PROVE UNCHANGED ctr
      BY <3>3 DEF WorkerStep, Crash, Heartbeat, HeartbeatExpires
    <3> QED
      BY <1>5, <3>1, <3>2, <3>3 DEF Next
  <2>2. \A q \in Runs : job'[q].pc \in {job[q].pc, "dead"} /\ job'[q].stage = job[q].stage
    BY <1>5, OthersMove DEF OtherMove, SameWork
  <2>3. SameExec' /\ \A q \in Runs : row'[q].exec = row[q].exec
    BY <1>5, OthersCalm DEF ExecKept, ContainersInv
  <2>4. ASSUME NEW q \in Runs PROVE ContainersInv!2!(q)'
    BY <2>1, <2>2, <2>3 DEF ContainersInv, Holding, Unstarted
  <2> QED
    BY <2>3, <2>4 DEF ContainersInv
<1>6. CASE UNCHANGED vars
  BY <1>6 DEF ContainersInv, SameExec, vars
<1> QED
  BY <1>1, <1>2, <1>3, <1>4, <1>5, <1>6 DEF JobStep

\* The cancel of a run is committed, or is open and will be.
CancelSure(r) ==
  \/ row[r].status = "cancelled"
  \/ lock[r] = "api" /\ draft[r].status = "cancelled"

\* The request that has cancelled a run keeps the row until it commits, and
\* nobody hears of a cancel before the update.
CancelInv ==
  \A r \in Runs :
    /\ api[r] \in {"holding", "sent"} => lock[r] = "api" /\ draft[r].status = "cancelled"
    /\ sig[r] \in {"signalled", "stopping"} \/ job[r].told => CancelSure(r)

\* Other sessions do not undo a cancel.
LEMMA CancelStays ==
  ASSUME RowsAdvance, NEW s \in Sessions \ {"api"}, Respects(s),
         NEW r \in Runs, CancelSure(r)
  PROVE  CancelSure(r)'
<1>1. row[r].status = "cancelled" => row'[r].status = "cancelled"
  BY RowsGoForward DEF Terminal
<1> QED
  BY <1>1 DEF CancelSure, Respects, Sessions

LEMMA AskedIsSure ==
  ASSUME IInv, NEW r \in Runs, row[r].asked
  PROVE  CancelSure(r)
BY DEF IInv, TableInv, AskedIffCancelled, CancelSure

\* A step of the request itself: without an abort it goes on to its commit.
LEMMA RequestIsSure ==
  ASSUME "api_abort" \notin Faults, IInv, CancelInv, NEW r \in Runs, ApiStep(r)
  PROVE  CancelInv'
<1> USE DEF IInv, SetApi
<1>1. /\ UNCHANGED job
      /\ \A q \in Runs : q # r => api'[q] = api[q] /\ sig'[q] = sig[q]
  BY DEF SideOK, ApiStep, CancelUpdate, CancelPublish, CancelCommit, CancelAbort,
     redisVars
<1>2. CASE CancelUpdate(r)
  <2> DEFINE x == Seen(r, "api")
  <2>1. lock[r] # "api" /\ UNCHANGED sig
    BY <1>2 DEF LocksAreShort, LockHolder, CancelUpdate, redisVars
  <2>2. CASE Write(r, "api", Cancel(x)) /\ api' = [api EXCEPT ![r] = "holding"]
    <3>1. x \in Row
      BY SeenContinues DEF Sessions
    <3>2. Cancel(x).status = "cancelled"
      BY <3>1 DEF Cancel, Row
    <3> HIDE DEF x
    <3>3. /\ row' = row /\ lock'[r] = "api" /\ draft'[r].status = "cancelled"
          /\ \A q \in Runs : q # r => lock'[q] = lock[q] /\ draft'[q] = draft[q]
      BY <2>2, <3>2 DEF Write, TableInv, TableTypeOK
    <3> QED
      BY <1>1, <2>1, <2>2, <3>3 DEF CancelInv, CancelSure
  <2>3. CASE UNCHANGED tableVars /\ api' = [api EXCEPT ![r] = "done"]
    BY <1>1, <2>1, <2>3 DEF CancelInv, CancelSure, tableVars, SideOK
  <2> QED
    BY <1>2, <2>2, <2>3 DEF CancelUpdate
<1>3. CASE CancelPublish(r)
  <2>1. CancelSure(r) /\ api[r] = "holding" /\ UNCHANGED tableVars
    BY <1>3 DEF CancelPublish, CancelInv, CancelSure
  <2> QED
    BY <1>1, <2>1 DEF CancelInv, CancelSure, tableVars
<1>4. CASE CancelCommit(r)
  <2>1. /\ lock[r] = "api" /\ draft[r].status = "cancelled" /\ UNCHANGED sig
        /\ api'[r] = "done"
    BY <1>4 DEF CancelCommit, CancelInv, redisVars, SideOK
  <2>2. /\ row'[r].status = "cancelled"
        /\ \A q \in Runs : q # r => /\ row'[q] = row[q]
                                    /\ draft'[q] = draft[q] /\ lock'[q] = lock[q]
    BY <1>4, <2>1 DEF CancelCommit, Commit, HeldBy
  <2> QED
    BY <1>1, <2>1, <2>2 DEF CancelInv, CancelSure
<1> QED
  BY <1>2, <1>3, <1>4 DEF ApiStep, CancelAbort

LEMMA CancelKeeps ==
  ASSUME "api_abort" \notin Faults, IInv, CancelInv, [Next]_vars
  PROVE  CancelInv'
<1> USE DEF IInv
<1>1. RowsAdvance
  BY NextInv
<1>2. ASSUME NEW s \in Sessions \ {"api"}, Respects(s),
             \A q \in Runs : /\ api'[q] \in {"holding", "sent"} => api'[q] = api[q]
                             /\ sig'[q] \in {"signalled", "stopping"} =>
                                  sig[q] \in {"signalled", "stopping"}
                             /\ job'[q].told => \/ job[q].told \/ row[q].asked
                                                \/ sig[q] = "signalled"
      PROVE  CancelInv'
  <2> SUFFICES ASSUME NEW q \in Runs PROVE CancelInv!(q)'
    BY DEF CancelInv
  <2>1. CancelSure(q) => CancelSure(q)'
    BY <1>1, <1>2, CancelStays
  <2>2. row[q].asked => CancelSure(q)
    BY AskedIsSure
  <2>3. api'[q] \in {"holding", "sent"} =>
          lock'[q] = "api" /\ draft'[q].status = "cancelled"
    BY <1>2 DEF CancelInv, Respects, Sessions
  <2> QED
    BY <1>2, <2>1, <2>2, <2>3 DEF CancelInv
<1>3. "job" \in Sessions \ {"api"}
  BY DEF Sessions
<1>4. ASSUME NEW r \in Runs, TaskStep(r) PROVE CancelInv'
  <2>1. Respects("job") /\ TaskMove(r)
    BY <1>4, TaskCalm, TaskMoves
  <2>2. UNCHANGED <<api, sig>> /\ \A q \in Runs : job'[q].told = job[q].told
    BY <2>1 DEF TaskMove, OthersRest, SameTold
  <2> QED
    BY <1>2, <1>3, <2>1, <2>2
<1>5. ASSUME NEW r \in Runs, ExecutorStep(r) PROVE CancelInv'
  <2>1. Respects("job") /\ ExecutorMove(r)
    BY <1>5, ExecutorCalm, ExecutorMoves
  <2>2. /\ UNCHANGED api /\ \A q \in Runs : sig'[q] \in {sig[q], "deaf"}
        /\ \A q \in Runs : job'[q].told => job[q].told \/ row[q].asked
    BY <2>1 DEF ExecutorMove, OthersRest
  <2> QED
    BY <1>2, <1>3, <2>1, <2>2
<1>6. ASSUME NEW r \in Runs, DbFails(r) PROVE CancelInv'
  <2>1. Respects("job") /\ DbMove(r)
    BY <1>6, DbFailsMoves, DbCalm
  <2>2. /\ UNCHANGED api /\ \A q \in Runs : sig'[q] \in {sig[q], "deaf"}
        /\ \A q \in Runs : job'[q].told = job[q].told
    BY <2>1 DEF DbMove, MovesTo, SameTold, SideOK
  <2> QED
    BY <1>2, <1>3, <2>1, <2>2
<1>7. ASSUME Next, ~ \E r \in Runs : JobStep(r), ~ \E r \in Runs : ApiStep(r)
      PROVE  CancelInv'
  <2>1. \E s \in Sessions \ {"api"} : Respects(s)
    BY <1>7, OthersCalm
  <2>2. \A q \in Runs : job'[q].told => job[q].told \/ sig[q] = "signalled"
    BY <1>7, OthersMove DEF OtherMove
  <2>3. \A q \in Runs : /\ api'[q] \in {"holding", "sent"} => api'[q] = api[q]
                        /\ sig'[q] \in {"signalled", "stopping"} =>
                             sig[q] \in {"signalled", "stopping"}
    <3> USE DEF SideOK, redisVars, sideVars, SetApi
    <3>1. ASSUME NEW r \in Runs,
                 \/ WatcherStep(r) \/ ContainerExits(r) \/ RequestCancel(r)
                 \/ JobTimeout(r)
          PROVE  <2>3!:
      BY <3>1 DEF WatcherStep, Subscribe, HearCancel, StopContainer,
         ContainerExits, RequestCancel, JobTimeout
    <3>2. CASE ReclaimStep
      BY <3>2 DEF ReclaimStep, RecScan, RecAlive, RecProbeDead, RecMark,
         RecAllProbed, RecStale, RecCommit, RecAbort
    <3>3. ASSUME NEW w \in Workers, WorkerStep(w) PROVE <2>3!:
      BY <3>3 DEF WorkerStep, Crash, Heartbeat, HeartbeatExpires
    <3> QED
      BY <1>7, <3>1, <3>2, <3>3 DEF Next
  <2> QED
    BY <1>2, <2>1, <2>2, <2>3
<1>8. CASE UNCHANGED vars
  BY <1>8 DEF CancelInv, CancelSure, vars
<1> QED
  BY <1>4, <1>5, <1>6, <1>7, <1>8, RequestIsSure DEF JobStep, Next

\* A run whose stages are over has run them all, has had a failing one, or
\* is cancelled: so it is done only if it has run them all.
DoneInv ==
  \A r \in Runs :
    /\ job[r].pc \in Verdict =>
         job[r].stage = Stages \/ job[r].exit # "ok" \/ CancelSure(r)
    /\ Done(r) => job[r].stage = Stages /\ job[r].pc \in After

\* The executor writes the verdict of a run that nobody has cancelled.
LEMMA FinishIsHonest ==
  ASSUME IInv, DoneInv, NEW r \in Runs, FinishRun(r)
  PROVE  \A q \in Runs : Done(q)' =>
           \/ Done(q)
           \/ q = r /\ job[r].stage = Stages
<1> USE DEF IInv
<1> DEFINE x == Seen(r, "job")
           s == TerminalStatusFor(job[r].exit)
<1>1. CASE UNCHANGED tableVars
  BY <1>1 DEF Done, tableVars
<1>2. CASE Finishes(x, Finishable) /\ Write(r, "job", Finish(x, s))
  <2>1. x = row[r] /\ row[r].status \in Finishable /\ lock[r] # "job"
    BY <1>2, SeenActive DEF Finishes, Finishable, Active, InFlight, Sessions
  <2>2. lock[r] # "api"
    BY <1>2 DEF Write, Writable
  <2>3. ~CancelSure(r)
    BY <2>1, <2>2 DEF CancelSure, Finishable
  <2>4. job[r].stage = Stages \/ job[r].exit # "ok"
    BY <2>3 DEF DoneInv, FinishRun, Verdict
  <2>5. job[r].exit # "ok" => s # "done"
    BY DEF TerminalStatusFor
  <2>6. Finish(x, s).status = s
    BY <2>1 DEF Finish, TableInv, TableTypeOK, Row
  <2> HIDE DEF x, s
  <2>7. /\ row' = row
        /\ \A q \in Runs : q # r => draft'[q] = draft[q]
        /\ draft'[r].status = s
    BY <1>2, <2>6 DEF Write, TableInv, TableTypeOK
  <2> QED
    BY <2>4, <2>5, <2>7 DEF Done
<1> QED
  BY <1>1, <1>2 DEF FinishRun

LEMMA DoneKeeps ==
  ASSUME "api_abort" \notin Faults, IInv, CancelInv, DoneInv, [Next]_vars
  PROVE  DoneInv'
<1> USE DEF IInv
<1>1. CancelInv' /\ IInv' /\ RowsAdvance
  BY CancelKeeps, NextInv
<1>2. \A q \in Runs : CancelSure(q) => CancelSure(q)'
  <2> SUFFICES ASSUME NEW q \in Runs, CancelSure(q) PROVE CancelSure(q)'
    OBVIOUS
  <2>1. "job" \in Sessions \ {"api"}
    BY DEF Sessions
  <2>2. ASSUME NEW s \in Sessions \ {"api"}, Respects(s) PROVE CancelSure(q)'
    BY <1>1, <2>2, CancelStays
  <2>3. ASSUME NEW r \in Runs, JobStep(r) PROVE CancelSure(q)'
    BY <2>1, <2>2, <2>3, TaskCalm, ExecutorCalm, DbFailsMoves, DbCalm DEF JobStep
  <2>4. ASSUME NEW r \in Runs, ApiStep(r) PROVE CancelSure(q)'
    <3>1. row[q].status = "cancelled" => row'[q].status = "cancelled"
      BY <1>1, RowsGoForward DEF Terminal
    <3>2. CASE lock[q] = "api" /\ draft[q].status = "cancelled"
      <4>1. api[q] \in {"holding", "sent"}
        BY <3>2 DEF LocksAreShort, LockHolder
      <4>2. CASE CancelUpdate(r)
        <5>1. r # q
          BY <4>1, <4>2 DEF CancelUpdate
        <5> QED
          BY <3>2, <4>2, <5>1 DEF CancelUpdate, Write, tableVars, CancelSure,
             TableInv, TableTypeOK
      <4>3. CASE CancelPublish(r)
        BY <3>2, <4>3 DEF CancelPublish, tableVars, CancelSure
      <4>4. CASE CancelCommit(r)
        BY <3>2, <4>4 DEF CancelCommit, Commit, HeldBy, CancelSure
      <4> QED
        BY <2>4, <4>2, <4>3, <4>4 DEF ApiStep, CancelAbort
    <3> QED
      BY <3>1, <3>2 DEF CancelSure
  <2>5. CASE UNCHANGED vars
    BY <2>5 DEF vars, CancelSure
  <2> QED
    BY <2>2, <2>3, <2>4, <2>5, OthersCalm
<1>3. ASSUME NEW r \in Runs, TaskStep(r) PROVE DoneInv'
  <2>1. NoneDone /\ TaskMove(r)
    BY <1>3, TaskCalm, TaskMoves
  <2>2. job'[r].pc \notin Verdict
    BY <2>1 DEF TaskMove, Verdict, Executing
  <2> QED
    BY <1>2, <2>1, <2>2 DEF DoneInv, TaskMove, OthersRest, NoneDone
<1>4. ASSUME NEW r \in Runs, ExecutorStep(r) PROVE DoneInv'
  <2>1. ExecutorMove(r)
    BY <1>4, ExecutorMoves
  <2>2. \A q \in Runs : Done(q)' => \/ Done(q)
                                    \/ q = r /\ FinishRun(r) /\ job[r].stage = Stages
    BY <1>4, ExecutorCalm, FinishIsHonest DEF NoneDone
  <2>3. ASSUME NEW q \in Runs, q # r PROVE DoneInv!(q)'
    BY <1>2, <2>1, <2>2, <2>3 DEF DoneInv, ExecutorMove, OthersRest
  <2>4. job'[r].told => CancelSure(r)'
    BY <1>1 DEF CancelInv
  <2>5. job'[r].pc \in Verdict =>
          job'[r].stage = Stages \/ job'[r].exit # "ok" \/ CancelSure(r)'
    BY <1>2, <2>1, <2>4 DEF DoneInv, ExecutorMove
  <2>6. Done(r)' => job'[r].stage = Stages /\ job'[r].pc \in After
    <3>1. CASE Done(r)
      <4>1. job[r].stage = Stages /\ job[r].pc \in After
        BY <3>1 DEF DoneInv
      <4> QED
        BY <2>1, <4>1 DEF ExecutorMove, After
    <3>2. CASE FinishRun(r) /\ job[r].stage = Stages
      BY <3>2, FinishRunMoves DEF MovesTo, SameWork, After
    <3> QED
      BY <2>2, <3>1, <3>2
  <2> QED
    BY <2>3, <2>5, <2>6 DEF DoneInv
<1>5. ASSUME NEW r \in Runs, DbFails(r) PROVE DoneInv'
  <2>1. NoneDone /\ DbMove(r)
    BY <1>5, DbFailsMoves, DbCalm
  <2>2. job'[r].pc \in After /\ job'[r].pc \notin Verdict
    BY <2>1 DEF DbMove, After, Verdict
  <2>3. \A q \in Runs : /\ job'[q].stage = job[q].stage /\ job'[q].exit = job[q].exit
                        /\ q # r => job'[q].pc = job[q].pc
    BY <2>1 DEF DbMove, MovesTo, SameWork
  <2> QED
    BY <1>2, <2>1, <2>2, <2>3 DEF DoneInv, NoneDone
<1>6. CASE Next /\ ~ \E r \in Runs : JobStep(r)
  <2>1. NoneDone
    BY <1>6, OthersCalm
  <2>2. \A q \in Runs : SameWork(q) /\ (\/ job'[q].pc = job[q].pc
                                        \/ job'[q].pc \in {"dead", "hook", "finalizing"})
    BY <1>6, OthersMove DEF OtherMove
  <2> QED
    BY <1>2, <2>1, <2>2 DEF DoneInv, NoneDone, SameWork, Verdict, After
<1>7. CASE UNCHANGED vars
  BY <1>7 DEF DoneInv, Done, CancelSure, vars
<1> QED
  BY <1>3, <1>4, <1>5, <1>6, <1>7 DEF JobStep

\* Stages started late are counted from the verdict on, and after a cancel
\* none is opened any more.
LateInv ==
  \A r \in Runs :
    /\ row[r].status \notin Terminal => late[r] = 0
    /\ row[r].asked => late[r] <= 1
    /\ row[r].asked /\ job[r].pc \in Opening => late[r] = 0

LEMMA LateKeeps ==
  ASSUME "probe" \notin Faults, IInv, LateInv, [Next]_vars
  PROVE  LateInv'
<1> USE DEF IInv
<1>1. IInv' /\ RowsAdvance
  BY NextInv
<1>2. \A q \in Runs :
        /\ row'[q].status \notin Terminal => row[q].status \notin Terminal
        /\ row'[q].asked => row[q].asked \/ row[q].status \notin Terminal
  <2> SUFFICES ASSUME NEW q \in Runs PROVE <1>2!(q)
    OBVIOUS
  <2>1. row[q].status \in Terminal => row'[q].status = row[q].status
    BY <1>1, RowsGoForward
  <2>2. /\ row'[q].asked <=> row'[q].status = "cancelled"
        /\ row[q].asked <=> row[q].status = "cancelled"
    BY <1>1 DEF TableInv, AskedIffCancelled
  <2> QED
    BY <2>1, <2>2
<1>3. ASSUME UNCHANGED late,
             \A q \in Runs : job'[q].pc \in Opening =>
                job[q].pc \in Opening \/ ~row[q].asked
      PROVE  LateInv'
  <2> SUFFICES ASSUME NEW q \in Runs PROVE LateInv!(q)'
    BY DEF LateInv
  <2>1. late'[q] = late[q] /\ late[q] \in Nat
    BY <1>3 DEF SideOK
  <2> QED
    BY <1>2, <1>3, <2>1 DEF LateInv
<1>4. ASSUME NEW r \in Runs, TaskStep(r) PROVE LateInv'
  <2>1. TaskMove(r)
    BY <1>4, TaskMoves
  <2> QED
    BY <1>3, <2>1 DEF TaskMove, OthersRest, Opening, Executing
<1>5. ASSUME NEW r \in Runs, ExecutorStep(r) PROVE LateInv'
  <2>1. ExecutorMove(r)
    BY <1>5, ExecutorMoves
  <2>2. \A q \in Runs : job'[q].pc \in Opening => job[q].pc \in Opening \/ ~row[q].asked
    BY <2>1 DEF ExecutorMove, OthersRest, Opening
  <2>3. CASE StartContainer(r) /\ job'[r].pc = "waiting"
    <3>1. /\ job[r].pc = "starting" /\ row' = row
          /\ \A q \in Runs : q # r => late'[q] = late[q]
          /\ late'[r] = IF row[r].status \in Terminal THEN late[r] + 1 ELSE late[r]
      BY <2>3 DEF StartContainer, tableVars, SideOK
    <3>2. late[r] \in Nat /\ (row[r].asked => late[r] = 0)
      BY <3>1 DEF SideOK, LateInv, Opening
    <3>3. LateInv!(r)'
      BY <2>3, <3>1, <3>2 DEF LateInv, Opening
    <3>4. ASSUME NEW q \in Runs, q # r PROVE LateInv!(q)'
      BY <2>1, <3>1, <3>4 DEF LateInv, ExecutorMove, OthersRest
    <3> QED
      BY <3>3, <3>4 DEF LateInv
  <2> QED
    BY <1>3, <2>1, <2>2, <2>3 DEF ExecutorMove
<1>6. ASSUME NEW r \in Runs, DbFails(r) PROVE LateInv'
  <2>1. DbMove(r)
    BY <1>6, DbFailsMoves
  <2> QED
    BY <1>3, <2>1 DEF DbMove, MovesTo, Opening
<1>7. CASE Next /\ ~ \E r \in Runs : JobStep(r)
  <2>1. UNCHANGED late \/ Runs = {}
    BY <1>7, OthersMove
  <2>2. \A q \in Runs : job'[q].pc \in Opening => job[q].pc \in Opening
    BY <1>7, OthersMove DEF OtherMove, Opening
  <2> QED
    BY <1>3, <2>1, <2>2 DEF LateInv
<1>8. CASE UNCHANGED vars
  BY <1>8 DEF LateInv, vars
<1> QED
  BY <1>4, <1>5, <1>6, <1>7, <1>8 DEF JobStep

(***************************************************************************)
(* The theorems.  The first two hold for every set of faults; each of the  *)
(* others assumes away only the fault that breaks its property.            *)
(***************************************************************************)

\* When arq is through with a job, its run has no worker, unless the session
\* of the job had broken and another actor has given the verdict: a release
\* is lost with the verdict that goes before it, or not at all.
THEOREM EndedRunsAreReleased == Spec => []EndedIsReleased
<1>1. Init => WorkerInv /\ TableRel /\ OwnRel
  BY DEF Init, TableInit, QueuedRow, WorkerInv, TableRel, OwnRel, Attached
<1>2. IInv /\ (WorkerInv /\ TableRel /\ OwnRel) /\ [Next]_vars
        => (WorkerInv /\ TableRel /\ OwnRel)'
  BY WorkerStepKeeps, RelKeeps, OwnKeeps
<1>3. IInv /\ (WorkerInv /\ TableRel /\ OwnRel) => EndedIsReleased
  BY DEF IInv, PhasesOK, EndedIsTerminal, WorkerInv, TableRel, Attached, Terminal,
     EndedIsReleased
<1> QED
  BY <1>1, <1>2, <1>3, Invariance, PTL DEF Spec

\* Somebody has tried to remove the last container of a job that is through,
\* whichever exception has come up, a broken session and a refusal of Docker
\* included; but for one that was created and never started.
THEOREM ContainersAreRemoved == Spec => []NoContainerForgotten
<1>1. Init => ContainersInv
  BY DEF Init, TableInit, QueuedRow, ContainersInv, SameExec
<1>2. IInv /\ ContainersInv /\ [Next]_vars => ContainersInv'
  BY ContainersKeep
<1>3. IInv /\ ContainersInv => NoContainerForgotten
  BY DEF IInv, TableInv, TableTypeOK, Row, JobOK, Job, ContainersInv,
     NoContainerForgotten, Holding
<1> QED
  BY <1>1, <1>2, <1>3, Invariance, PTL DEF Spec

LEMMA CancelInvariance ==
  ASSUME "api_abort" \notin Faults
  PROVE  Spec => []CancelInv
<1>1. Init => CancelInv
  BY DEF Init, CancelInv
<1>2. IInv /\ CancelInv /\ [Next]_vars => CancelInv'
  BY CancelKeeps
<1> QED
  BY <1>1, <1>2, Invariance, PTL DEF Spec

\* A run whose executor has heard of its cancel ends cancelled: a request
\* that has published keeps the row until it commits, and no session
\* overwrites it (publish_cancel comes between the update and the commit).
THEOREM HeardCancelsAreRecorded ==
  ASSUME "api_abort" \notin Faults
  PROVE  Spec => []DetectedCancelIsRecorded
<1>1. IInv /\ CancelInv => DetectedCancelIsRecorded
  BY DEF IInv, LocksAreShort, LockHolder, CancelInv, CancelSure,
     DetectedCancelIsRecorded, Settled
<1> QED
  BY <1>1, Invariance, CancelInvariance, PTL

\* A run is reported as done only if all its stages have been run, although
\* a heard cancel ends the stages early and leaves the exit of the last one.
THEOREM DoneRunsRanEveryStage ==
  ASSUME "api_abort" \notin Faults
  PROVE  Spec => []DoneRanEveryStage
<1>1. Init => DoneInv
  BY DEF Init, TableInit, QueuedRow, DoneInv, Done, Verdict
<1>2. IInv /\ CancelInv /\ DoneInv /\ [Next]_vars => DoneInv'
  BY DoneKeeps
<1>3. DoneInv => DoneRanEveryStage
  BY DEF DoneInv, Done, DoneRanEveryStage
<1> QED
  BY <1>1, <1>2, <1>3, Invariance, CancelInvariance, PTL DEF Spec

\* After the cancel of a run is committed at most one stage starts, whatever
\* the cancel message does: the row is read again at every stage boundary.
THEOREM CancelsStopStages ==
  ASSUME "probe" \notin Faults
  PROVE  Spec => []CancelStopsStages
<1>1. Init => LateInv
  BY DEF Init, LateInv
<1>2. IInv /\ LateInv /\ [Next]_vars => LateInv'
  BY LateKeeps
<1>3. LateInv => CancelStopsStages
  BY DEF LateInv, CancelStopsStages
<1> QED
  BY <1>1, <1>2, <1>3, Invariance, PTL DEF Spec

=============================================================================
