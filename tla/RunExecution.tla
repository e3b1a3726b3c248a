---------------------------- MODULE RunExecution -----------------------------
(***************************************************************************)
(* The execution of a run, from the moment its job is in the arq queue:    *)
(* the worker task and its container, the request that cancels the run,    *)
(* the cron that reclaims runs of lost workers, and the crashes, timeouts  *)
(* and exceptions that can come between any two of their steps.            *)
(*                                                                         *)
(* Each actor advances one await at a time.  The run table and its row     *)
(* locks are those of RunTable; Redis holds the cancel subscription, the   *)
(* worker heartbeats and the status hash that event streams read.          *)
(***************************************************************************)
EXTENDS RunTable

CONSTANTS
  Stages,     \* number of stages of the pipeline
  Retryable,  \* the runs whose retry policy allows an infrastructure retry
  Faults      \* the environment's misbehaviours a configuration allows

ASSUME StagesAssumption == Stages \in Nat
ASSUME RetryableAssumption == Retryable \subseteq Runs
ASSUME FaultsAssumption ==
  Faults \subseteq {"crash", "job_timeout", "raise", "start_error", "probe",
                    "redis", "api_abort", "reclaim_abort", "stale", "archive",
                    "db", "cleanup"}

VARIABLES
  job,      \* the worker task of each run
  sig,      \* the task's subscription to the cancel channel
  ctr,      \* the container of each run
  alive,    \* worker processes that are up
  beat,     \* workers whose heartbeat key exists
  api,      \* progress of the request that cancels the run
  rec,      \* progress of the reclaim cron
  hash,     \* status hash of each run, None until something is published
  noted,    \* the status the notification rules were given, or None
  retries,  \* number of committed retry runs that name the run as source
  late      \* stages started although the row was already terminal

envVars == <<alive, beat>>
redisVars == <<sig, hash>>
sideVars == <<noted, retries, late>>
vars == <<row, draft, lock, job, sig, ctr, alive, beat, api, rec, hash,
          noted, retries, late>>

(***************************************************************************)
(* Program counters of the worker task.  The heartbeat loop lives while    *)
(* the counter is in Beating, RunExecutor.execute is on the stack while it *)
(* is in Executing, and a cancel signal finds a container to stop while it *)
(* is in Stoppable.                                                        *)
(***************************************************************************)
Early == {"claiming", "claimed", "checking", "dropping"}
Executing == {"preparing", "arming", "settingup", "marking", "announcing", "boundary",
              "creating", "recording", "starting", "waiting", "gathering",
              "publishing", "collecting", "wrapping", "raised"}
Beating == Executing \union {"configuring", "aborting", "retrying"}
Leaving == {"finalizing", "closing"}
Stoppable == {"settingup", "starting", "waiting"}
AtRest == {"ready", "ended", "dead"}
Counters == AtRest \union Early \union Beating \union Leaving \union {"hook"}

Exits == {"ok", "bad", "late"}

\* Where the job uses its session, and where an exception of it leads to.
Querying == {"claiming", "checking", "dropping", "configuring", "preparing",
             "marking", "recording", "gathering", "collecting", "raised",
             "aborting", "closing"}
AfterDbError(pc) ==
  CASE pc \in {"claiming", "checking", "dropping", "closing"} -> "hook"
    [] pc \in {"configuring", "raised"} -> "aborting"
    [] pc = "aborting" -> "finalizing"
    [] OTHER -> "raised"

\* "broken": the session of the job can commit nothing any more.
Job == [pc : Counters, on : Workers \union {None}, stage : Nat, exit : Exits,
        ret : Status \union {None}, infra : BOOLEAN, told : BOOLEAN,
        broken : BOOLEAN]

Candidate == [run : Runs, worker : Workers, exec : Nat]

TypeOK ==
  /\ TableTypeOK
  /\ job \in [Runs -> Job]
  /\ sig \in [Runs -> {"deaf", "listening", "signalled", "stopping"}]
  /\ ctr \in [Runs -> {"none", "created", "running", "exited", "left"}]
  /\ alive \subseteq Workers
  /\ beat \subseteq Workers
  /\ api \in [Runs -> {"idle", "asking", "holding", "sent", "done"}]
  /\ rec \in [pc : {"idle", "lost", "mark", "stale"}, todo : SUBSET Candidate,
              cur : Candidate \union {None}, kids : SUBSET Runs]
  /\ hash \in [Runs -> Status \union {None}]
  /\ noted \in [Runs -> Reportable \union {None}]
  /\ retries \in [Runs -> Nat]
  /\ late \in [Runs -> Nat]

Init ==
  /\ TableInit
  /\ job = [r \in Runs |-> [pc |-> "ready", on |-> None, stage |-> 0,
                            exit |-> "ok", ret |-> None, infra |-> FALSE,
                            told |-> FALSE, broken |-> FALSE]]
  /\ sig = [r \in Runs |-> "deaf"]
  /\ ctr = [r \in Runs |-> "none"]
  /\ alive = Workers
  /\ beat = {}
  /\ api = [r \in Runs |-> "idle"]
  /\ rec = [pc |-> "idle", todo |-> {}, cur |-> None, kids |-> {}]
  /\ hash = [r \in Runs |-> None]
  /\ noted = [r \in Runs |-> None]
  /\ retries = [r \in Runs |-> 0]
  /\ late = [r \in Runs |-> 0]

-----------------------------------------------------------------------------
(***************************************************************************)
(* The worker task: execute_run up to RunExecutor.execute                  *)
(***************************************************************************)

At(r, pc) == job[r].pc = pc

\* The task of run r moves: its record becomes j.
Become(r, j) == job' = [job EXCEPT ![r] = j]

Goto(r, pc) == Become(r, [job[r] EXCEPT !.pc = pc])

\* An exception, or the executor's result, for the code that awaits it.
Throw(r, infra)  == Become(r, [job[r] EXCEPT !.pc = "raised", !.infra = infra])
Return(r, pc, s) == Become(r, [job[r] EXCEPT !.pc = pc, !.ret = s])

\* The job goes on without its session, and without a status to report.
Cut(r, pc) ==
  Become(r, [job[r] EXCEPT !.pc = pc, !.ret = None, !.broken = TRUE])

Publish(r, s) == hash' = [hash EXCEPT ![r] = s]

\* arq hands the job to a worker.
Pick(r) ==
  /\ At(r, "ready")
  /\ \E w \in alive :
       Become(r, [job[r] EXCEPT !.pc = "claiming", !.on = w])
  /\ UNCHANGED <<tableVars, redisVars, ctr, envVars, api, rec, sideVars>>

\* The claim and its commit.  A run that is not queued any more is left
\* alone, and the job goes straight to the end-of-job hook.
ClaimRun(r) ==
  /\ At(r, "claiming")
  /\ \/ /\ Claimable(Seen(r, "job"))
        /\ Store(r, "job", Claim(Seen(r, "job"), job[r].on))
        /\ Goto(r, "claimed")
     \/ /\ ~Claimable(Seen(r, "job"))
        /\ Goto(r, "hook")
        /\ UNCHANGED tableVars
  /\ UNCHANGED <<redisVars, ctr, envVars, api, rec, sideVars>>

\* The preparing event, published after the claim has been committed.  The
\* cancel_requested_at that follows was read by the claim: it is never set.
AnnouncePreparing(r) ==
  /\ At(r, "claimed")
  /\ Publish(r, "preparing")
  /\ Goto(r, "checking")
  /\ UNCHANGED <<tableVars, sig, ctr, envVars, api, rec, sideVars>>

\* The project was archived or deleted meanwhile: cancel the run instead.
SkipArchived(r) ==
  /\ At(r, "checking")
  /\ "archive" \in Faults
  /\ \/ /\ Cancellable(Seen(r, "job"))
        /\ Write(r, "job", Cancel(Seen(r, "job")))
        /\ Publish(r, "cancelled")
     \/ /\ ~Cancellable(Seen(r, "job"))
        /\ UNCHANGED <<tableVars, hash>>
  /\ Goto(r, "dropping")
  /\ UNCHANGED <<sig, ctr, envVars, api, rec, sideVars>>

\* Mutant of CloseSession: the run keeps its worker.
CloseSessionOnly(r) == ~job[r].broken /\ Commit("job", {r})

\* release_worker and the session's commit, at the end of every path.  When
\* the session is broken both raise, or the transaction is lost: DbFails.
CloseSession(r) ==
  LET x == Seen(r, "job") IN
  /\ ~job[r].broken
  /\ IF x.worker = job[r].on
       THEN Store(r, "job", Release(x, job[r].on))
       ELSE Commit("job", {r})

DropArchived(r) ==
  /\ At(r, "dropping")
  /\ CloseSession(r)
  /\ Goto(r, "hook")
  /\ UNCHANGED <<redisVars, ctr, envVars, api, rec, sideVars>>

\* The heartbeat loop starts, and sets the key for the first time.
StartHeartbeat(r) ==
  /\ At(r, "checking")
  /\ Goto(r, "configuring")
  /\ beat' = beat \union {job[r].on}
  /\ UNCHANGED <<tableVars, redisVars, ctr, alive, api, rec, sideVars>>

\* Source credentials and pipeline configuration are resolved, or raise
\* outside RunExecutor.execute, where nothing publishes an event.
Configure(r) ==
  /\ At(r, "configuring")
  /\ \/ Goto(r, "preparing")
     \/ /\ "raise" \in Faults
        /\ \E infra \in BOOLEAN :
             Become(r, [job[r] EXCEPT !.pc = "aborting", !.infra = infra])
  /\ UNCHANGED <<tableVars, redisVars, ctr, envVars, api, rec, sideVars>>

-----------------------------------------------------------------------------
(***************************************************************************)
(* RunExecutor.execute                                                     *)
(***************************************************************************)

\* watch_for_cancel runs beside the executor; a message published before it
\* has subscribed is lost.
Subscribe(r) ==
  /\ job[r].pc \in Executing
  /\ sig[r] = "deaf"
  /\ sig' = [sig EXCEPT ![r] = "listening"]
  /\ UNCHANGED <<tableVars, job, ctr, envVars, api, rec, hash, sideVars>>

\* The cancel callback records the request, and goes on to stop the
\* container if one is registered at this moment.
HearCancel(r) ==
  /\ job[r].pc \in Executing
  /\ sig[r] = "signalled"
  /\ Become(r, [job[r] EXCEPT !.told = TRUE])
  /\ sig' = [sig EXCEPT ![r] =
                IF job[r].pc \in Stoppable THEN "stopping" ELSE "listening"]
  /\ UNCHANGED <<tableVars, ctr, envVars, api, rec, hash, sideVars>>

\* SIGTERM, a bounded wait, SIGKILL.  A container that is not running yet,
\* or no longer, is not affected.
StopContainer(r) ==
  /\ job[r].pc \in Executing
  /\ sig[r] = "stopping"
  /\ sig' = [sig EXCEPT ![r] = "listening"]
  /\ ctr' = [ctr EXCEPT ![r] = IF @ = "running" THEN "exited" ELSE @]
  /\ UNCHANGED <<tableVars, job, envVars, api, rec, hash, sideVars>>

\* The clone has succeeded; for a setup script, if there is one, a container
\* is created whose id is not written to the row.
Prepare(r) ==
  /\ At(r, "preparing")
  /\ \/ /\ Goto(r, "marking")
        /\ UNCHANGED ctr
     \/ /\ Goto(r, "arming")
        /\ ctr' = [ctr EXCEPT ![r] = "created"]
  /\ UNCHANGED <<tableVars, redisVars, envVars, api, rec, sideVars>>

StartSetup(r) ==
  /\ At(r, "arming")
  /\ ctr' = [ctr EXCEPT ![r] = "running"]
  /\ Goto(r, "settingup")
  /\ UNCHANGED <<tableVars, redisVars, envVars, api, rec, sideVars>>

\* The removal of the container that the job has waited for.  Docker may
\* refuse it: the error is logged, and the container left for good.
RemoveContainer(r) ==
  \E c \in {"none"} \union IF "cleanup" \in Faults /\ ctr[r] # "none"
                            THEN {"left"} ELSE {} :
    ctr' = [ctr EXCEPT ![r] = c]

\* Mutant of FinishSetup: a setup script that fails leaves its container.
FinishSetupLeaky(r) ==
  /\ At(r, "settingup")
  /\ ctr[r] = "exited"
  /\ \/ Goto(r, "marking") /\ RemoveContainer(r)
     \/ /\ Throw(r, FALSE)
        /\ UNCHANGED ctr
  /\ UNCHANGED <<tableVars, redisVars, envVars, api, rec, sideVars>>

\* The setup container is removed whatever its exit; a failure is an
\* exception that no retry policy covers.
FinishSetup(r) ==
  /\ At(r, "settingup")
  /\ ctr[r] = "exited"
  /\ RemoveContainer(r)
  /\ \/ Goto(r, "marking")
     \/ Throw(r, FALSE)
  /\ UNCHANGED <<tableVars, redisVars, envVars, api, rec, sideVars>>

\* A lost race for the row ends the execution: the executor returns
\* CANCELLED whatever the reason.
GiveUp(r) ==
  /\ Return(r, "finalizing", "cancelled")
  /\ sig' = [sig EXCEPT ![r] = "deaf"]

MarkRunningStep(r) ==
  /\ At(r, "marking")
  /\ \/ /\ Runnable(Seen(r, "job"))
        /\ Store(r, "job", MarkRunning(Seen(r, "job")))
        /\ Goto(r, "announcing")
        /\ UNCHANGED sig
     \/ /\ ~Runnable(Seen(r, "job"))
        /\ GiveUp(r)
        /\ UNCHANGED tableVars
  /\ UNCHANGED <<hash, ctr, envVars, api, rec, sideVars>>

AnnounceRunning(r) ==
  /\ At(r, "announcing")
  /\ Publish(r, "running")
  /\ Goto(r, "boundary")
  /\ UNCHANGED <<tableVars, sig, ctr, envVars, api, rec, sideVars>>

\* Mutant of CheckBoundary: only the local flag is looked at.
CheckBoundaryFlag(r) ==
  /\ At(r, "boundary")
  /\ \/ /\ job[r].stage = Stages \/ job[r].told
        /\ Goto(r, "gathering")
     \/ /\ job[r].stage < Stages /\ ~job[r].told
        /\ Goto(r, "creating")
  /\ UNCHANGED <<tableVars, redisVars, ctr, envVars, api, rec, sideVars>>

\* _check_cancel_boundary: the local flag, then a fresh read of the row.  A
\* read that fails counts as "not requested", and the session it has failed
\* in may be broken.
CheckBoundary(r) ==
  /\ At(r, "boundary")
  /\ \/ /\ job[r].stage = Stages
        /\ Goto(r, "gathering")
     \/ /\ job[r].stage < Stages
        /\ job[r].told \/ row[r].asked
        /\ Become(r, [job[r] EXCEPT !.pc = "gathering", !.told = TRUE])
     \/ /\ job[r].stage < Stages
        /\ ~job[r].told
        /\ \/ ~row[r].asked /\ Goto(r, "creating")
           \/ /\ "probe" \in Faults
              /\ \E b \in BOOLEAN :
                   Become(r, [job[r] EXCEPT !.pc = "creating", !.broken = b])
  /\ UNCHANGED <<tableVars, redisVars, ctr, envVars, api, rec, sideVars>>

CreateContainer(r) ==
  /\ At(r, "creating")
  /\ ctr' = [ctr EXCEPT ![r] = "created"]
  /\ Become(r, [job[r] EXCEPT !.pc = "recording", !.stage = @ + 1])
  /\ UNCHANGED <<tableVars, redisVars, envVars, api, rec, sideVars>>

\* Mutant of RecordExecution: the commit after the update is missing.
RecordExecutionOpen(r) ==
  /\ At(r, "recording")
  /\ Write(r, "job", SetExec(Seen(r, "job"), job[r].stage))
  /\ Goto(r, "starting")
  /\ UNCHANGED <<redisVars, ctr, envVars, api, rec, sideVars>>

RecordExecution(r) ==
  /\ At(r, "recording")
  /\ ~job[r].broken
  /\ Store(r, "job", SetExec(Seen(r, "job"), job[r].stage))
  /\ Goto(r, "starting")
  /\ UNCHANGED <<redisVars, ctr, envVars, api, rec, sideVars>>

StartContainer(r) ==
  /\ At(r, "starting")
  /\ ctr[r] = "created"
  /\ ctr' = [ctr EXCEPT ![r] = "running"]
  /\ Goto(r, "waiting")
  /\ late' = [late EXCEPT ![r] = IF row[r].status \in Terminal THEN @ + 1 ELSE @]
  /\ UNCHANGED <<tableVars, redisVars, envVars, api, rec, noted, retries>>

\* The container ends: by itself, or stopped at the stage timeout.
ContainerExits(r) ==
  /\ ctr[r] = "running"
  /\ ctr' = [ctr EXCEPT ![r] = "exited"]
  /\ UNCHANGED <<tableVars, job, redisVars, envVars, api, rec, sideVars>>

\* Mutant of FinishStage: the loop is left before the exit is recorded.
FinishStageForgets(r) ==
  /\ At(r, "waiting")
  /\ ctr[r] \in {"exited", "none"}
  /\ RemoveContainer(r)
  /\ \E pc \in {"boundary", "gathering"} : Goto(r, pc)
  /\ UNCHANGED <<tableVars, redisVars, envVars, api, rec, sideVars>>

\* The container is removed and its exit recorded: only a failing stage
\* replaces the final exit, and continue_on_error decides what follows it.
\* A container that somebody else has removed counts as a failing one.
FinishStage(r) ==
  /\ At(r, "waiting")
  /\ ctr[r] \in {"exited", "none"}
  /\ RemoveContainer(r)
  /\ \E exit \in IF ctr[r] = "none" THEN {"bad", "late"} ELSE Exits,
        go \in BOOLEAN :
       Become(r, [job[r] EXCEPT
                    !.pc = IF exit = "ok" \/ go THEN "boundary" ELSE "gathering",
                    !.exit = IF exit = "ok" THEN @ ELSE exit])
  /\ UNCHANGED <<tableVars, redisVars, envVars, api, rec, sideVars>>

MarkCollectingStep(r) ==
  /\ At(r, "gathering")
  /\ \/ /\ Collectable(Seen(r, "job"))
        /\ Store(r, "job", MarkCollecting(Seen(r, "job")))
        /\ Goto(r, "publishing")
        /\ UNCHANGED sig
     \/ /\ ~Collectable(Seen(r, "job"))
        /\ GiveUp(r)
        /\ UNCHANGED tableVars
  /\ UNCHANGED <<hash, ctr, envVars, api, rec, sideVars>>

AnnounceCollecting(r) ==
  /\ At(r, "publishing")
  /\ Publish(r, "collecting")
  /\ Goto(r, "collecting")
  /\ UNCHANGED <<tableVars, sig, ctr, envVars, api, rec, sideVars>>

\* Mutant of TerminalStatusFor: a status the enumeration does not have.
TerminalStatusOom(exit) == IF exit = "ok" THEN "done" ELSE "oom_killed"

TerminalStatusFor(exit) ==
  CASE exit = "ok" -> "done" [] exit = "bad" -> "failed" [] OTHER -> "timeout"

\* Results are collected and artifacts uploaded; the terminal status is
\* flushed, and published while the transaction is still open.  The status
\* is returned even when the row was not in an expected one.
FinishRun(r) ==
  /\ At(r, "collecting")
  /\ LET s == TerminalStatusFor(job[r].exit) IN
     /\ \/ /\ Finishes(Seen(r, "job"), Finishable)
           /\ Write(r, "job", Finish(Seen(r, "job"), s))
           /\ Publish(r, s)
        \/ /\ ~Finishes(Seen(r, "job"), Finishable)
           /\ UNCHANGED <<tableVars, hash>>
     /\ Return(r, "wrapping", s)
  /\ UNCHANGED <<sig, ctr, envVars, api, rec, sideVars>>

LeaveExecutor(r) ==
  /\ At(r, "wrapping")
  /\ Goto(r, "finalizing")
  /\ sig' = [sig EXCEPT ![r] = "deaf"]
  /\ UNCHANGED <<tableVars, hash, ctr, envVars, api, rec, sideVars>>

-----------------------------------------------------------------------------
(***************************************************************************)
(* Exceptions inside the executor, and the end of the job                  *)
(***************************************************************************)

\* What an exception does with the container: waiting for one removes it on
\* the way out; one that has been created and not started stays behind.
DropContainer(r) ==
  IF job[r].pc \in {"settingup", "waiting"} THEN RemoveContainer(r)
                                           ELSE UNCHANGED ctr

\* An exception at an await of execute, other than those of its session.
\* Starting a container that the reclaim cron has removed always raises.
Raise(r) ==
  /\ \/ /\ "raise" \in Faults
        /\ job[r].pc \in {"preparing", "settingup", "creating", "waiting",
                          "collecting", "wrapping"}
        /\ \E infra \in IF At(r, "wrapping") THEN {FALSE} ELSE BOOLEAN :
             Throw(r, infra)
     \/ /\ "start_error" \in Faults
        /\ job[r].pc \in {"arming", "starting"}
        /\ \E infra \in BOOLEAN : Throw(r, infra)
     \/ /\ At(r, "starting") /\ ctr[r] = "none"
        /\ Throw(r, FALSE)
  /\ DropContainer(r)
  /\ UNCHANGED <<tableVars, redisVars, envVars, api, rec, sideVars>>

\* A statement, a flush or a commit of the job's session fails, and what it
\* holds is lost at once: PostgreSQL rolls the transaction back, and every
\* later use of the session raises again, in the handlers too.  A session
\* that held nothing may be usable after the error (no connection was free).
\* Before the executor, and inside the final block, the job is over.
DbFails(r) ==
  /\ "db" \in Faults \/ job[r].broken
  /\ job[r].pc \in Querying
  /\ LET pc == AfterDbError(job[r].pc) IN
     /\ \E dead, infra \in BOOLEAN :
          /\ job[r].broken \/ lock[r] = "job" \/ pc = "hook" => dead
          /\ infra => ~dead
          /\ Become(r, [job[r] EXCEPT !.pc = pc, !.ret = None,
                                      !.infra = infra, !.broken = dead])
     /\ sig' = [sig EXCEPT ![r] = IF pc = "aborting" THEN "deaf" ELSE @]
  /\ Rollback("job", {r})
  /\ UNCHANGED <<hash, ctr, envVars, api, rec, sideVars>>

\* The executor's handler: fail the run, publish, and hand infrastructure
\* exceptions on to the task.
HandleError(r) ==
  /\ At(r, "raised")
  /\ ~job[r].broken
  /\ LET x == Seen(r, "job") IN
     \/ /\ Failable(x)
        /\ Write(r, "job", Fail(x))
        /\ Publish(r, "failed")
     \/ /\ ~Failable(x)
        /\ UNCHANGED <<tableVars, hash>>
  /\ IF job[r].infra THEN Return(r, "aborting", None)
                     ELSE Return(r, "finalizing", "failed")
  /\ sig' = [sig EXCEPT ![r] = "deaf"]
  /\ UNCHANGED <<ctr, envVars, api, rec, sideVars>>

\* The task's handler: fail the run if nobody has, and commit.
AbortRun(r) ==
  /\ At(r, "aborting")
  /\ ~job[r].broken
  /\ LET x == Seen(r, "job") IN
     \/ Failable(x) /\ Store(r, "job", Fail(x))
     \/ ~Failable(x) /\ Commit("job", {r})
  /\ Goto(r, "retrying")
  /\ UNCHANGED <<redisVars, ctr, envVars, api, rec, sideVars>>

\* _attempt_retry, in a session of its own, which may fail: the exception and
\* the policy decide, the status of the original run is not looked at.
AttemptRetry(r) ==
  /\ At(r, "retrying")
  /\ \/ retries' = [retries EXCEPT ![r] =
                      IF job[r].infra /\ r \in Retryable THEN @ + 1 ELSE @]
     \/ "db" \in Faults /\ UNCHANGED retries
  /\ Goto(r, "finalizing")
  /\ UNCHANGED <<tableVars, redisVars, ctr, envVars, api, rec, noted, late>>

\* The heartbeat has stopped; rules are evaluated in another session, with
\* the status the executor returned, before the task's own commit.
Notify(r) ==
  /\ At(r, "finalizing")
  /\ noted' = [noted EXCEPT ![r] =
                 IF job[r].ret \in Reportable THEN job[r].ret ELSE @]
  /\ Goto(r, "closing")
  /\ UNCHANGED <<tableVars, redisVars, ctr, envVars, api, rec, retries, late>>

CloseRun(r) ==
  /\ At(r, "closing")
  /\ CloseSession(r)
  /\ Goto(r, "hook")
  /\ UNCHANGED <<redisVars, ctr, envVars, api, rec, sideVars>>

\* after_job_end: the context never says "success", so the hook runs for
\* every job and fails the run if the job has left it active.
EndOfJob(r) ==
  /\ At(r, "hook")
  /\ \/ Failable(row[r]) /\ Store(r, "job", Fail(row[r]))
     \/ ~Failable(row[r]) /\ UNCHANGED tableVars
  /\ Goto(r, "ended")
  /\ UNCHANGED <<redisVars, ctr, envVars, api, rec, sideVars>>

\* arq cancels a job that outlives job_timeout, and every job of a worker
\* that is asked to stop.  Before the executor and inside the final block
\* the session is rolled back and closed; elsewhere the final block still
\* runs, without a status to report, and with a session that is broken if
\* the cancellation has hit a statement of it.
JobTimeout(r) ==
  /\ "job_timeout" \in Faults
  /\ \/ /\ job[r].pc \in Early \union Leaving
        /\ Rollback("job", {r})
        /\ Cut(r, "hook")
        /\ UNCHANGED <<sig, ctr>>
     \/ /\ job[r].pc \in Beating
        /\ \/ /\ Return(r, "finalizing", None)
              /\ UNCHANGED tableVars
           \/ /\ job[r].pc \in Querying \union {"boundary"}
              /\ Cut(r, "finalizing")
              /\ Rollback("job", {r})
        /\ sig' = [sig EXCEPT ![r] = "deaf"]
        /\ DropContainer(r)
  /\ UNCHANGED <<hash, envVars, api, rec, sideVars>>

-----------------------------------------------------------------------------
(***************************************************************************)
(* Worker processes and their heartbeat                                    *)
(***************************************************************************)

JobsOf(w) == {r \in Runs : job[r].on = w /\ job[r].pc \notin AtRest}

\* The process dies: PostgreSQL rolls its sessions back, Redis forgets its
\* subscriptions, containers and the heartbeat key stay.  arq does not run
\* the jobs again (max_tries = 1).
Crash(w) ==
  /\ "crash" \in Faults
  /\ w \in alive
  /\ alive' = alive \ {w}
  /\ job' = [r \in Runs |->
               IF r \in JobsOf(w) THEN [job[r] EXCEPT !.pc = "dead"] ELSE job[r]]
  /\ sig' = [r \in Runs |-> IF r \in JobsOf(w) THEN "deaf" ELSE sig[r]]
  /\ Rollback("job", JobsOf(w))
  /\ UNCHANGED <<ctr, beat, api, rec, hash, sideVars>>

HasHeartbeatLoop(w) == \E r \in Runs : job[r].on = w /\ job[r].pc \in Beating

\* Every 30 s each job's loop sets the key of its worker.
Heartbeat(w) ==
  /\ HasHeartbeatLoop(w)
  /\ beat' = beat \union {w}
  /\ UNCHANGED <<tableVars, job, redisVars, ctr, alive, api, rec, sideVars>>

\* The key expires after 90 s without a write: no job of the worker has a
\* loop, or Redis has refused its writes all that time.
HeartbeatExpires(w) ==
  /\ w \in beat
  /\ ~HasHeartbeatLoop(w) \/ "redis" \in Faults
  /\ beat' = beat \ {w}
  /\ UNCHANGED <<tableVars, job, redisVars, ctr, alive, api, rec, sideVars>>

-----------------------------------------------------------------------------
(***************************************************************************)
(* The request that cancels a run                                          *)
(***************************************************************************)

SetApi(r, pc) == api' = [api EXCEPT ![r] = pc]

\* The handler reads a run that can be cancelled; for others it answers 409.
RequestCancel(r) ==
  /\ api[r] = "idle"
  /\ Cancellable(row[r])
  /\ SetApi(r, "asking")
  /\ UNCHANGED <<tableVars, job, redisVars, ctr, envVars, rec, sideVars>>

\* Mutant of CancelUpdate: the result of the update is not looked at.
CancelUpdateBlind(r) ==
  /\ api[r] = "asking"
  /\ LET x == Seen(r, "api") IN
     \/ Cancellable(x) /\ Write(r, "api", Cancel(x))
     \/ ~Cancellable(x) /\ UNCHANGED tableVars
  /\ SetApi(r, "holding")
  /\ UNCHANGED <<job, redisVars, ctr, envVars, rec, sideVars>>

CancelUpdate(r) ==
  /\ api[r] = "asking"
  /\ LET x == Seen(r, "api") IN
     \/ Cancellable(x) /\ Write(r, "api", Cancel(x)) /\ SetApi(r, "holding")
     \/ ~Cancellable(x) /\ SetApi(r, "done") /\ UNCHANGED tableVars
  /\ UNCHANGED <<job, redisVars, ctr, envVars, rec, sideVars>>

\* publish_cancel and the cancelled event go out before the commit.
CancelPublish(r) ==
  /\ api[r] = "holding"
  /\ SetApi(r, "sent")
  /\ sig' = [sig EXCEPT ![r] = IF @ = "listening" THEN "signalled" ELSE @]
  /\ Publish(r, "cancelled")
  /\ UNCHANGED <<tableVars, job, ctr, envVars, rec, sideVars>>

CancelCommit(r) ==
  /\ api[r] = "sent"
  /\ Commit("api", {r})
  /\ SetApi(r, "done")
  /\ UNCHANGED <<job, redisVars, ctr, envVars, rec, sideVars>>

\* Publishing or auditing raises, or the API process dies: rolled back.
CancelAbort(r) ==
  /\ "api_abort" \in Faults
  /\ api[r] \in {"holding", "sent"}
  /\ Rollback("api", {r})
  /\ SetApi(r, "done")
  /\ UNCHANGED <<job, redisVars, ctr, envVars, rec, sideVars>>

-----------------------------------------------------------------------------
(***************************************************************************)
(* The reclaim cron: one session for the whole pass, committed at its end  *)
(***************************************************************************)

\* Mutant of RecScan: it looks at running runs only.
RecScanRunning ==
  /\ rec.pc = "idle"
  /\ rec' = [rec EXCEPT !.pc = "lost", !.todo =
               {[run |-> r, worker |-> row[r].worker, exec |-> row[r].exec] :
                  r \in {q \in Runs : /\ row[q].status = "running"
                                     /\ row[q].worker # None}}]
  /\ UNCHANGED <<tableVars, job, redisVars, ctr, envVars, api, sideVars>>

\* find_active_with_worker reads committed rows, and keeps what it read.
RecScan ==
  /\ rec.pc = "idle"
  /\ rec' = [rec EXCEPT !.pc = "lost", !.todo =
               {[run |-> r, worker |-> row[r].worker, exec |-> row[r].exec] :
                  r \in {q \in Runs : /\ row[q].status \in InFlight
                                     /\ row[q].worker # None}}]
  /\ UNCHANGED <<tableVars, job, redisVars, ctr, envVars, api, sideVars>>

\* The heartbeat key of a candidate's worker exists, or the probe fails and
\* the worker counts as alive.
RecAlive ==
  /\ rec.pc = "lost"
  /\ \E t \in rec.todo :
       /\ t.worker \in beat \/ "redis" \in Faults
       /\ rec' = [rec EXCEPT !.todo = @ \ {t}]
  /\ UNCHANGED <<tableVars, job, redisVars, ctr, envVars, api, sideVars>>

\* The key is missing; the update that follows is another await.
RecProbeDead ==
  /\ rec.pc = "lost"
  /\ \E t \in rec.todo :
       /\ t.worker \notin beat
       /\ rec' = [rec EXCEPT !.pc = "mark", !.cur = t, !.todo = @ \ {t}]
  /\ UNCHANGED <<tableVars, job, redisVars, ctr, envVars, api, sideVars>>

\* mark_worker_lost; then, before the commit, the failed event, a retry run
\* if the policy allows one, and the removal of the container that the row
\* named when it was read.
RecMark ==
  /\ rec.pc = "mark"
  /\ LET r == rec.cur.run
         x == Seen(r, "reclaim")
     IN
     \/ /\ IsLost(x, rec.cur.worker)
        /\ Write(r, "reclaim", MarkLost(x))
        /\ Publish(r, "failed")
        /\ IF rec.cur.exec # 0 /\ rec.cur.exec = job[r].stage
             THEN \/ ctr' = [ctr EXCEPT ![r] = "none"]
                  \/ "cleanup" \in Faults /\ UNCHANGED ctr
             ELSE UNCHANGED ctr
        /\ rec' = [rec EXCEPT !.pc = "lost", !.cur = None,
                             !.kids = @ \union ({r} \intersect Retryable)]
     \/ /\ ~IsLost(x, rec.cur.worker)
        /\ rec' = [rec EXCEPT !.pc = "lost", !.cur = None]
        /\ UNCHANGED <<tableVars, hash, ctr>>
  /\ UNCHANGED <<job, sig, envVars, api, sideVars>>

RecAllProbed ==
  /\ rec.pc = "lost"
  /\ rec.todo = {}
  /\ rec' = [rec EXCEPT !.pc = "stale"]
  /\ UNCHANGED <<tableVars, job, redisVars, ctr, envVars, api, sideVars>>

\* A run that has been preparing, or collecting, for too long.
RecStale(r) ==
  /\ "stale" \in Faults
  /\ rec.pc = "stale"
  /\ \E s \in {<<"preparing", "failed">>, <<"collecting", "timeout">>} :
       /\ row[r].status = s[1]
       /\ Seen(r, "reclaim").status = s[1]
       /\ Write(r, "reclaim",
                [Seen(r, "reclaim") EXCEPT !.status = s[2], !.worker = None])
       /\ Publish(r, s[2])
  /\ UNCHANGED <<job, sig, ctr, envVars, api, rec, sideVars>>

\* Mutant of RecCommit: the pass ends and its transaction stays open.
RecCommitMissing ==
  /\ rec.pc = "stale"
  /\ rec' = [pc |-> "idle", todo |-> {}, cur |-> None, kids |-> {}]
  /\ UNCHANGED <<tableVars, job, redisVars, ctr, envVars, api, sideVars>>

\* The final block commits whatever has been written, also when an exception
\* has cut the pass short.  The retry runs become visible with it.
RecCommit ==
  /\ rec.pc = "stale" \/ (rec.pc # "idle" /\ "reclaim_abort" \in Faults)
  /\ Commit("reclaim", Runs)
  /\ retries' = [r \in Runs |-> retries[r] + IF r \in rec.kids THEN 1 ELSE 0]
  /\ rec' = [pc |-> "idle", todo |-> {}, cur |-> None, kids |-> {}]
  /\ UNCHANGED <<job, redisVars, ctr, envVars, api, noted, late>>

\* The worker that runs the cron dies: its writes are lost, its events and
\* container removals are not.
RecAbort ==
  /\ "reclaim_abort" \in Faults
  /\ rec.pc # "idle"
  /\ Rollback("reclaim", Runs)
  /\ rec' = [pc |-> "idle", todo |-> {}, cur |-> None, kids |-> {}]
  /\ UNCHANGED <<job, redisVars, ctr, envVars, api, sideVars>>

-----------------------------------------------------------------------------
(***************************************************************************)
(* The specification                                                       *)
(***************************************************************************)

\* What a job does of its own accord, in program order.
TaskStep(r) ==
  \/ Pick(r) \/ ClaimRun(r) \/ AnnouncePreparing(r)
  \/ SkipArchived(r) \/ DropArchived(r)
  \/ StartHeartbeat(r) \/ Configure(r)
  \/ AbortRun(r) \/ AttemptRetry(r) \/ Notify(r) \/ CloseRun(r)
  \/ EndOfJob(r)

ExecutorStep(r) ==
  \/ Prepare(r) \/ StartSetup(r) \/ FinishSetup(r)
  \/ MarkRunningStep(r) \/ AnnounceRunning(r) \/ CheckBoundary(r) \/ CreateContainer(r) \/ RecordExecution(r)
  \/ StartContainer(r) \/ FinishStage(r) \/ MarkCollectingStep(r)
  \/ AnnounceCollecting(r) \/ FinishRun(r) \/ LeaveExecutor(r)
  \/ Raise(r) \/ HandleError(r)

JobStep(r) == TaskStep(r) \/ ExecutorStep(r) \/ DbFails(r)

WatcherStep(r) == Subscribe(r) \/ HearCancel(r) \/ StopContainer(r)

ApiStep(r) ==
  \/ CancelUpdate(r) \/ CancelPublish(r) \/ CancelCommit(r) \/ CancelAbort(r)

ReclaimStep ==
  \/ RecScan \/ RecAlive \/ RecProbeDead \/ RecMark \/ RecAllProbed
  \/ (\E r \in Runs : RecStale(r)) \/ RecCommit \/ RecAbort

WorkerStep(w) == Crash(w) \/ Heartbeat(w) \/ HeartbeatExpires(w)

Next ==
  \/ \E r \in Runs : \/ JobStep(r) \/ WatcherStep(r) \/ JobTimeout(r)
                     \/ ContainerExits(r) \/ RequestCancel(r) \/ ApiStep(r)
  \/ ReclaimStep
  \/ \E w \in Workers : WorkerStep(w)

(***************************************************************************)
(* A coroutine that can go on does, a container ends (the executor stops   *)
(* it at the stage timeout), a request is answered, the cron passes again  *)
(* and again, and a key that nobody refreshes expires.  Nobody has to      *)
(* cancel a run, no fault has to happen, and no message has to be heard.   *)
(***************************************************************************)
Fairness ==
  /\ \A r \in Runs : /\ WF_vars(JobStep(r))
                     /\ WF_vars(ContainerExits(r))
                     /\ WF_vars(ApiStep(r))
  /\ WF_vars(ReclaimStep)
  /\ \A w \in Workers : WF_vars(HeartbeatExpires(w))

Spec == Init /\ [][Next]_vars

FairSpec == Spec /\ Fairness

-----------------------------------------------------------------------------
(***************************************************************************)
(* Properties                                                              *)
(***************************************************************************)

\* A committed terminal status is never changed by anybody: neither the
\* executor, nor a late cancel, nor the reclaim cron, nor the end-of-job
\* hook may overwrite a verdict (the expected_in sets of the run repository).
TerminalIsFinal ==
  [][\A r \in Runs : row[r].status \in Terminal =>
       row'[r].status = row[r].status]_vars

\* A session keeps a row lock only between its update and the commit that
\* follows: never while a container runs (the commit after
\* update_execution_id), nor while a retry is scheduled in another session
\* (the commit before _attempt_retry), nor after its actor has gone.
LockHolder(r) ==
  CASE lock[r] = "job"     -> job[r].pc \in {"dropping", "wrapping", "raised", "aborting",
                                             "finalizing", "closing"}
    [] lock[r] = "api"     -> api[r] \in {"holding", "sent"}
    [] lock[r] = "reclaim" -> rec.pc # "idle"
    [] OTHER               -> TRUE

LocksAreShort == \A r \in Runs : LockHolder(r)

\* When arq is through with a job, hook included, its run has a verdict.
EndedIsTerminal ==
  \A r \in Runs : At(r, "ended") => row[r].status \in Terminal

\* When arq is through with a job, a run is still attached to its worker only
\* if the job's session had broken, so that neither its release nor its
\* commit could be done; and then the verdict is another actor's.  A verdict
\* of the executor itself, done or timeout, is committed with the release
\* or not at all (finalize_run_execution, release_run_worker).
EndedIsReleased ==
  \A r \in Runs : At(r, "ended") /\ row[r].worker # None =>
    job[r].broken /\ row[r].status \in {"failed", "cancelled"}

\* Once the cancel of a run is committed at most one more stage starts: the
\* one whose boundary check came before.
CancelStopsStages ==
  \A r \in Runs : row[r].asked => late[r] <= 1

\* A run is reported as done only if all its stages have been run.
DoneRanEveryStage ==
  \A r \in Runs : row[r].status = "done" => job[r].stage = Stages

\* When the executor is through with a run, the container it had last has
\* been removed, or Docker has refused that ("left").  The only ones whose
\* removal nobody tries are containers that were created and never started:
\* because the id could not be written to the row, or, where starts may fail
\* or be cut off, because of that.
StartsMayFail == Faults \intersect {"start_error", "job_timeout"} # {}

NoContainerForgotten ==
  \A r \in Runs : job[r].pc \in {"finalizing", "closing", "hook", "ended"} =>
    \/ ctr[r] \in {"none", "left"}
    \/ ctr[r] = "created" /\ (row[r].exec # job[r].stage \/ StartsMayFail)

\* The detailed protocol implements the promise of RunLifecycle.
Lifecycle == INSTANCE RunLifecycle
  WITH status <- [r \in Runs |-> row[r].status],
       worker <- [r \in Runs |-> row[r].worker]

ImplementsLifecycle == Lifecycle!Spec

\* A run that a worker has taken gets a verdict.
InFlightEnds ==
  \A r \in Runs : row[r].status \in InFlight ~> row[r].status \in Terminal

\* A row lock is given back: nobody waits for a run forever.
LocksAreReleased ==
  \A r \in Runs : lock[r] # "free" ~> lock[r] = "free"

-----------------------------------------------------------------------------
(***************************************************************************)
(* Claims of the documentation that the code does not keep                 *)
(***************************************************************************)

\* "This prevents the heartbeat task from silently dying and causing the
\* reclaimer to flag a still-alive worker as worker_lost" (worker/tasks.py):
\* while no sweep for stale runs is due, the cron writes only to runs of
\* workers that are gone.
OnlyLostWorkersAreReclaimed ==
  \A r \in Runs : lock[r] = "reclaim" => job[r].on \notin alive

\* Everyone who publishes about run r, or could still do so, has finished.
Settled(r) ==
  /\ At(r, "ended")
  /\ api[r] \in {"idle", "done"}
  /\ rec.pc = "idle"

\* "The status hash is read to detect the terminal state" (architecture.md
\* 10.2): once nobody is active for a run that has ended, the hash says so,
\* or the event stream of the run would never be closed.
StreamsEnd ==
  \A r \in Runs : Settled(r) => hash[r] \in Terminal

\* RunExecutor.execute "returns the terminal RunStatus" (its docstring), and
\* that is what the notification rules are given: the status they are told
\* is the one the run ends with.
NotifiedOfTheVerdict ==
  \A r \in Runs : Settled(r) /\ noted[r] # None => noted[r] = row[r].status

\* "A cancel is detected ... the status is marked cancelled" (architecture.md
\* 6.3): a run whose executor has heard the cancel signal ends cancelled.
DetectedCancelIsRecorded ==
  \A r \in Runs : Settled(r) /\ job[r].told => row[r].status = "cancelled"

\* max_attempts bounds the retries of a run: a failed attempt is followed by
\* at most one retry run.
RetriedOnce == \A r \in Runs : retries[r] <= 1
==============================================================================
