------------------------------ MODULE FairQueue ------------------------------
(***************************************************************************)
(* How a run gets from its creation to a worker: the requests that create  *)
(* and enqueue runs, the quotas of FairScheduler under its advisory lock,  *)
(* the arq queue with its job ids, the cron that enqueues waiting runs,    *)
(* and the worker that takes a job and claims its run.                     *)
(*                                                                         *)
(* The advisory lock is a transaction lock: a session that has taken it    *)
(* keeps it until it commits.  Nothing that a session has written is seen  *)
(* by another one before that; the arq queue is seen by everybody at once. *)
(***************************************************************************)
EXTENDS Naturals, FiniteSets

CONSTANTS
  Runs,           \* the runs that will be created
  Project,        \* the project of each run
  Rank,           \* order of find_waiting: by priority, then by creation
  Early,          \* runs enqueued before the commit that creates them: those
                  \* of webhooks, and the automatic retries of a job
  MaxTotal,       \* max_concurrent_runs
  MaxPerProject,  \* max_concurrent_per_project
  Limit,          \* rows one pass of the dequeue cron looks at (10)
  Faults          \* the environment's misbehaviours a configuration allows

ASSUME ProjectAssumption == DOMAIN Project = Runs
ASSUME RankAssumption == Rank \in [Runs -> Nat]
ASSUME EarlyAssumption == Early \subseteq Runs
ASSUME QuotaAssumption ==
  /\ IsFiniteSet(Runs)
  /\ MaxTotal \in Nat
  /\ MaxPerProject \in Nat
  /\ Limit \in Nat
ASSUME FaultsAssumption ==
  Faults \subseteq {"abort", "redis_down", "lost_reply", "crash"}

\* The session of the dequeue cron, beside the one session per request.
Cron == "cron"
Nobody == "nobody"

ASSUME SessionsAssumption == Cron \notin Runs /\ Nobody \notin Runs

VARIABLES
  run,    \* the committed row of each run
  req,    \* progress of the request that creates and enqueues a run
  lock,   \* the session that holds the scheduler's advisory lock
  arq,    \* the arq job of each run
  cron    \* progress of the dequeue cron

vars == <<run, req, lock, arq, cron>>

\* A job that is over is "done" if its hook has seen the row of the run,
\* "missed" if the row was not there for it, "dead" if arq has given it up.
Jobs == {"none", "queued", "running", "hook", "done", "missed", "dead"}

TypeOK ==
  /\ run \in [Runs -> [status : {"absent", "queued", "active", "ended"},
                       enqueued : BOOLEAN]]
  /\ req \in [Runs -> {"idle", "created", "deciding", "sent", "marked",
                       "refused", "done"}]
  /\ lock \in Runs \union {Cron, Nobody}
  /\ arq \in [Runs -> Jobs]
  /\ cron \in [pc : {"idle", "listing", "dequeuing", "closing"},
               rows : SUBSET Runs, todo : SUBSET Runs, marks : SUBSET Runs]

Asleep == [pc |-> "idle", rows |-> {}, todo |-> {}, marks |-> {}]

Init ==
  /\ run = [r \in Runs |-> [status |-> "absent", enqueued |-> FALSE]]
  /\ req = [r \in Runs |-> "idle"]
  /\ lock = Nobody
  /\ arq = [r \in Runs |-> "none"]
  /\ cron = Asleep

-----------------------------------------------------------------------------
(***************************************************************************)
(* Rows and quotas                                                         *)
(***************************************************************************)

Waiting(r) == run[r].status = "queued" /\ ~run[r].enqueued

\* count_active_or_enqueued: the runs that hold a slot.
Holds(x) == x.status = "active" \/ (x.status = "queued" /\ x.enqueued)

Occupied == {r \in Runs : Holds(run[r])}

\* The two quota checks of a session that has already marked the runs mine.
TotalFull(mine) == Cardinality(Occupied \union mine) >= MaxTotal

ProjectFull(r, mine) ==
  Cardinality({q \in Occupied \union mine : Project[q] = Project[r]})
    >= MaxPerProject

\* An uncommitted update, or the FOR UPDATE of find_waiting, locks the row.
Locked(r) == req[r] \in {"marked", "refused"} \/ r \in cron.rows

\* The request of a run that is created by its own commit.
Goto(r, pc) == req' = [req EXCEPT ![r] = pc]

SetStatus(r, s) == run' = [run EXCEPT ![r].status = s]

SetArq(r, a) == arq' = [arq EXCEPT ![r] = a]

-----------------------------------------------------------------------------
(***************************************************************************)
(* The request that creates a run                                          *)
(***************************************************************************)

\* A manual trigger, a batch retry or a schedule commits the new run before
\* it enqueues it.  A webhook, or a job that retries its run, does not: the
\* new run stays invisible until the commit of its session.
Create(r) ==
  /\ req[r] = "idle"
  /\ Goto(r, "created")
  /\ IF r \in Early THEN UNCHANGED run ELSE SetStatus(r, "queued")
  /\ UNCHANGED <<lock, arq, cron>>

\* scheduler_lock.
TakeLock(r) ==
  /\ req[r] = "created"
  /\ lock = Nobody
  /\ lock' = r
  /\ Goto(r, "deciding")
  /\ UNCHANGED <<run, arq, cron>>

\* mark_waiting changes nothing but updated_at, and locks the row.
Refuse(r) ==
  /\ req[r] = "deciding"
  /\ TotalFull({}) \/ ProjectFull(r, {})
  /\ Goto(r, "refused")
  /\ UNCHANGED <<run, lock, arq, cron>>

\* enqueue_job with the job id of the run.  Redis refuses a job id that it
\* knows, queued, running or finished; the run is then left as it is.
Send(r) ==
  /\ req[r] = "deciding"
  /\ ~TotalFull({})
  /\ ~ProjectFull(r, {})
  /\ \/ arq[r] = "none" /\ SetArq(r, "queued") /\ Goto(r, "sent")
     \/ arq[r] # "none" /\ Goto(r, "refused") /\ UNCHANGED arq
     \/ "redis_down" \in Faults /\ Goto(r, "refused") /\ UNCHANGED arq
     \/ /\ "lost_reply" \in Faults /\ arq[r] = "none"
        /\ SetArq(r, "queued") /\ Goto(r, "refused")
  /\ UNCHANGED <<run, lock, cron>>

\* Mutant of Mark: the lock is released with the block that takes it.
MarkUnlocks(r) ==
  /\ req[r] = "sent"
  /\ Goto(r, "marked")
  /\ lock' = Nobody
  /\ UNCHANGED <<run, arq, cron>>

\* mark_enqueued, whatever has become of the run meanwhile.
Mark(r) ==
  /\ req[r] = "sent"
  /\ Goto(r, "marked")
  /\ UNCHANGED <<run, lock, arq, cron>>

\* Mutant of CommitRequest: mark_waiting sets enqueued_at too.
CommitRequestAll(r) ==
  /\ req[r] \in {"marked", "refused"}
  /\ run' = [run EXCEPT ![r].status = IF r \in Early THEN "queued" ELSE @,
                       ![r].enqueued = TRUE]
  /\ lock' = Nobody
  /\ Goto(r, "done")
  /\ UNCHANGED <<arq, cron>>

\* The end of the request, or of the schedule's turn, commits and releases
\* the advisory lock.
CommitRequest(r) ==
  /\ req[r] \in {"marked", "refused"}
  /\ run' = [run EXCEPT
               ![r].status = IF r \in Early THEN "queued" ELSE @,
               ![r].enqueued = @ \/ req[r] = "marked"]
  /\ lock' = Nobody
  /\ Goto(r, "done")
  /\ UNCHANGED <<arq, cron>>

\* The request fails, or its process dies, after the run has been sent.
AbortRequest(r) ==
  /\ "abort" \in Faults
  /\ req[r] \in {"deciding", "sent", "marked", "refused"}
  /\ lock' = Nobody
  /\ Goto(r, "done")
  /\ UNCHANGED <<run, arq, cron>>

-----------------------------------------------------------------------------
(***************************************************************************)
(* The dequeue cron: try_dequeue_waiting                                   *)
(***************************************************************************)

CronLock ==
  /\ cron.pc = "idle"
  /\ lock = Nobody
  /\ lock' = Cron
  /\ cron' = [cron EXCEPT !.pc = "listing"]
  /\ UNCHANGED <<run, req, arq>>

\* The first Limit waiting rows in the order of Rank, skipping locked ones.
FirstWaiting ==
  LET free == {r \in Runs : Waiting(r) /\ ~Locked(r)}
  IN  {r \in free : Cardinality({q \in free : Rank[q] < Rank[r]}) < Limit}

CronList ==
  /\ cron.pc = "listing"
  /\ cron' = [pc |-> "dequeuing", rows |-> FirstWaiting,
              todo |-> FirstWaiting, marks |-> {}]
  /\ UNCHANGED <<run, req, lock, arq>>

Head(r) == r \in cron.todo /\ \A q \in cron.todo : Rank[r] <= Rank[q]

\* The total quota ends the pass, the quota of a project skips its run.
CronBreak ==
  /\ cron.pc = "dequeuing"
  /\ cron.todo = {} \/ TotalFull(cron.marks)
  /\ cron' = [cron EXCEPT !.pc = "closing"]
  /\ UNCHANGED <<run, req, lock, arq>>

CronSkip(r) ==
  /\ cron.pc = "dequeuing"
  /\ Head(r)
  /\ ~TotalFull(cron.marks)
  /\ ProjectFull(r, cron.marks)
  /\ cron' = [cron EXCEPT !.todo = @ \ {r}]
  /\ UNCHANGED <<run, req, lock, arq>>

\* _enqueue_run: the row is locked, so sending and marking are one step.
CronSend(r) ==
  /\ cron.pc = "dequeuing"
  /\ Head(r)
  /\ ~TotalFull(cron.marks)
  /\ ~ProjectFull(r, cron.marks)
  /\ \/ /\ arq[r] = "none"
        /\ SetArq(r, "queued")
        /\ cron' = [cron EXCEPT !.todo = @ \ {r}, !.marks = @ \union {r}]
     \/ /\ arq[r] # "none" \/ "redis_down" \in Faults
        /\ cron' = [cron EXCEPT !.todo = @ \ {r}]
        /\ UNCHANGED arq
     \/ /\ "lost_reply" \in Faults /\ arq[r] = "none"
        /\ SetArq(r, "queued")
        /\ cron' = [cron EXCEPT !.todo = @ \ {r}]
  /\ UNCHANGED <<run, req, lock>>

\* Mutant of CronCommit: runs are marked although they were not sent.
CronCommitAll ==
  /\ cron.pc = "closing"
  /\ run' = [r \in Runs |-> [run[r] EXCEPT !.enqueued = @ \/ r \in cron.rows]]
  /\ lock' = Nobody
  /\ cron' = Asleep
  /\ UNCHANGED <<req, arq>>

CronCommit ==
  /\ cron.pc = "closing"
  /\ run' = [r \in Runs |-> [run[r] EXCEPT !.enqueued = @ \/ r \in cron.marks]]
  /\ lock' = Nobody
  /\ cron' = Asleep
  /\ UNCHANGED <<req, arq>>

\* The worker that runs the cron dies.
CronAbort ==
  /\ "abort" \in Faults
  /\ cron.pc # "idle"
  /\ lock' = Nobody
  /\ cron' = Asleep
  /\ UNCHANGED <<run, req, arq>>

-----------------------------------------------------------------------------
(***************************************************************************)
(* The worker                                                              *)
(***************************************************************************)

\* A worker takes the job, which nobody else can tell, and its first update
\* is claim_for_worker: a row that is not visible, or not queued any more,
\* is not claimed.
Claim(r) ==
  /\ arq[r] = "queued"
  /\ \/ /\ run[r].status = "queued"
        /\ ~Locked(r)
        /\ SetStatus(r, "active")
        /\ SetArq(r, "running")
     \/ /\ run[r].status # "queued"
        /\ SetArq(r, "hook")
        /\ UNCHANGED run
  /\ UNCHANGED <<req, lock, cron>>

\* Mutant of Finish: the verdict is taken for a status of this module.
FinishVerdict(r) ==
  /\ arq[r] = "running"
  /\ SetStatus(r, "done")
  /\ SetArq(r, "hook")
  /\ UNCHANGED <<req, lock, cron>>

\* The run gets its verdict, in RunExecution.
Finish(r) ==
  /\ arq[r] = "running"
  /\ SetStatus(r, "ended")
  /\ SetArq(r, "hook")
  /\ UNCHANGED <<req, lock, cron>>

\* after_job_end fails a run it finds active, and arq keeps the job id.
EndOfJob(r) ==
  /\ arq[r] = "hook"
  /\ \/ /\ run[r].status = "queued" /\ ~Locked(r)
        /\ SetStatus(r, "ended") /\ SetArq(r, "done")
     \/ /\ run[r].status = "ended"
        /\ SetArq(r, "done") /\ UNCHANGED run
     \/ /\ run[r].status = "absent"
        /\ SetArq(r, "missed") /\ UNCHANGED run
  /\ UNCHANGED <<req, lock, cron>>

\* The worker dies with a job that it has taken and whose run it has not
\* claimed; arq gives such a job up without calling the hook (max_tries = 1).
CrashTaken(r) ==
  /\ "crash" \in Faults
  /\ arq[r] = "queued"
  /\ SetArq(r, "dead")
  /\ UNCHANGED <<run, req, lock, cron>>

\* A run is cancelled while it is in the queue.
CancelQueued(r) ==
  /\ run[r].status = "queued"
  /\ ~Locked(r)
  /\ SetStatus(r, "ended")
  /\ UNCHANGED <<req, lock, arq, cron>>

-----------------------------------------------------------------------------
(***************************************************************************)
(* The specification                                                       *)
(***************************************************************************)

RequestStep(r) ==
  \/ TakeLock(r) \/ Refuse(r) \/ Send(r) \/ Mark(r) \/ CommitRequest(r)
  \/ AbortRequest(r)

CronStep ==
  \/ CronLock \/ CronList \/ CronBreak \/ CronCommit \/ CronAbort
  \/ \E r \in Runs : CronSkip(r) \/ CronSend(r)

WorkerStep(r) == Claim(r) \/ Finish(r) \/ EndOfJob(r)

Next ==
  \/ \E r \in Runs : \/ Create(r) \/ RequestStep(r) \/ WorkerStep(r)
                     \/ CrashTaken(r) \/ CancelQueued(r)
  \/ CronStep

(***************************************************************************)
(* A request that holds the advisory lock goes on, workers take jobs and   *)
(* runs end, and the cron keeps passing.  The advisory lock is queued for: *)
(* a session that waits for it gets it (strong fairness of taking it).     *)
(***************************************************************************)
Fairness ==
  /\ \A r \in Runs : /\ WF_vars(RequestStep(r))
                     /\ SF_vars(TakeLock(r))
                     /\ SF_vars(WorkerStep(r))
  /\ WF_vars(CronStep)
  /\ SF_vars(CronLock)

Spec == Init /\ [][Next]_vars

FairSpec == Spec /\ Fairness

-----------------------------------------------------------------------------
(***************************************************************************)
(* Properties                                                              *)
(***************************************************************************)

\* A run whose job was sent by a transaction that did not record it: the
\* session has died, or Redis took the job and its answer was lost.
Unrecorded(r) ==
  ~run[r].enqueued /\ req[r] \notin {"sent", "marked"} /\ r \notin cron.marks

Counted == {r \in Occupied : ~Unrecorded(r)}

\* The quotas hold at every moment, for any interleaving of the requests,
\* the cron and the claims: every session counts and marks under one lock,
\* which it keeps until its commit.  Only jobs that were sent and not
\* recorded come on top, and they are not sent a second time.
QuotaHeld ==
  /\ Cardinality(Counted) <= MaxTotal
  /\ \A r \in Runs :
       Cardinality({q \in Counted : Project[q] = Project[r]}) <= MaxPerProject

\* A run that holds a slot is being executed, or has a job that will claim
\* it or a hook that will fail it.  A slot is kept by a run that nobody works
\* for, and counted for ever, in two cases only: the worker has died with the
\* job before the claim, or the claim and the hook have both come before the
\* commit of the run, which happens to runs that are enqueued early.
SlotsAreUsed ==
  /\ \A r \in Occupied : arq[r] \in {"queued", "running", "hook", "missed", "dead"}
  /\ \A r \in Runs : arq[r] = "missed" => r \in Early

\* Every run that has been created leaves the queue.
RunsLeaveTheQueue ==
  \A r \in Runs : run[r].status = "queued" ~> run[r].status \in {"active", "ended"}

-----------------------------------------------------------------------------
(***************************************************************************)
(* Claims of the documentation that the code does not keep                 *)
(***************************************************************************)

\* "Prevents a single project from monopolizing workers" (FairScheduler):
\* a pass of the cron that begins with free slots looks at a run whose
\* project has room, if there is one waiting.
NoProjectIsHeldUp ==
  [][cron.pc = "listing" /\ cron'.pc = "dequeuing" /\ ~TotalFull({}) =>
       LET able == {r \in Runs : /\ req[r] = "done" /\ Waiting(r)
                                 /\ ~ProjectFull(r, {})}
       IN  able # {} => able \intersect cron'.rows # {}]_vars
==============================================================================
