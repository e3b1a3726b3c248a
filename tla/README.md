# A TLA+ verification of qa_platform

qa_platform runs test pipelines: a user, a webhook, a schedule or a retry
creates a *run*; a fair scheduler puts it into an arq queue; a worker executes
its stages in containers, while the API may cancel it and a cron reclaims runs
of workers that have died. This directory holds TLA+ models of that program, the
TLC configurations that check them, and TLAPS proofs about them.

Around that core stand the API (authentication, permissions, names, settings,
report links), the schedules that create runs, and what becomes of a run: its
log, its results, its notifications.

Paths below are relative to `src/src/qaplatform/` unless they begin with
`src/docs` or `src/README.md`. `PROJECT.json` maps every definition to the lines it models.

Run from this directory: `tlc -workers 2 -config X.cfg M` for a configuration
`X.cfg` of the module `M`, and `tlapm M_proofs.tla` for a proof module.

## 1. Inventory

### 1.1 Components

| Component | State it keeps | Operations | Correct when |
|---|---|---|---|
| **Run statuses** `domain/services/execution.py`, `domain/models/run.py` | none | status sets, transition table | a status only moves forward, terminal is final |
| **Run table** `infra/database/repositories/run_*_repo.py` | `runs` rows, PostgreSQL row locks | conditional updates: claim, mark, finish, fail, cancel, release, lost | the first verdict wins whatever the interleaving |
| **Worker task and executor** `worker/tasks.py`, `worker/run_execution.py`, `engine/executor.py` | one coroutine per job, its session, its container, local cancel flag | claim, heartbeat, stages, exceptions, retry, final block, end-of-job hook | every run taken gets a verdict, nothing is left behind, "done" means every stage ran |
| **Cancellation** `api/v1/runs.py`, `engine/cancel.py` | Redis pub/sub channel | cancel request, watcher, boundary check | a committed cancel stops the run, a refused one does not |
| **Reclaim cron and heartbeat** `engine/reclaim.py`, `worker/settings.py` | heartbeat keys, one session per pass | scan, probe, mark lost, retry, sweeps | runs of dead workers end, runs of live workers are left alone |
| **Fair scheduler and queue** `infra/queue/scheduler.py`, `run_scheduler_repo.py` | `enqueued_at`, advisory lock, arq job ids | enqueue under quotas, dequeue cron | quotas hold, no run waits for ever |
| **Triggers** `api/v1/runs.py`, `api/v1/webhooks.py`, `api/run_batch_commands.py`, `api/run_retry_failed_command.py` | new rows | create, commit, enqueue | a job never overtakes its row |
| **Schedules** `worker/schedule_firing.py`, `domain/services/scheduling.py` | `next_run_at`, `last_fired_at` | fire due, missed-run policies, edit (an unlocked read, then an update) | no instant fires twice, edits are not overwritten |
| **Notifications** `worker/notifications/` | rules, `notification_log` | evaluate rules, send once over each channel type; nothing is retried | one failing channel does not silence the others, counters are those of the run |
| **Status events** `engine/events.py` | Redis status hash | publish | every reader learns of the end |
| **Log stream and archive** `infra/log_stream.py`, `api/v1/sse.py` | Redis stream, retry set, archive object | append, read, archive, retry | "done" means all lines, an archive is complete |
| **Authentication** `api/auth/` | user row, JWT pairs, blacklist in Redis, API tokens, SSE tickets | register, login, refresh, logout, check | what was revoked is refused, identities are current |
| **Permissions** `api/auth/permissions.py`, `api/deps.py` | memberships | look up, decide | scopes and roles only restrict |
| **Rate limit** `api/middleware/rate_limit.py` | one sorted set per bucket | read the time, count, decide | no more than the limit in a window |
| **Report shares** `services/report_share_service.py`, `api/v1/artifacts.py` | rows with an expiry and a counter, signed preview links | create, open, revoke, preview | a revoked report is sealed, the limit is kept |
| **Run imports** `api/v1/run_imports.py` | pipelines, environments, a finished run | get or create by name, merge, store | concurrent imports agree |
| **Runners and collectors** `plugins/builtin/`, `engine/executor_results.py` | `results/junit.xml`, result rows, summary, artifacts | run, report, parse, store | failures are reported, the summary counts the rows |
| **Quarantine, retention** `quarantine_repo.py`, `worker/settings.py` | entries with an expiry, old runs | upsert, sweep | an expired entry hides nothing |
| **Administration** `api/v1/projects.py`, `credentials.py`, `project_members.py`, ... | rows with unique names, JSON settings | create, rename, edit, delete | edits keep what they do not name |
| Analytics, tracing, configuration, frontend | none of their own | | not modelled, see section 8 |

### 1.2 How they interact

* **Shared rows.** Four actors write the status of one run: the job that executes
  it, the request that cancels it, the reclaim cron, and arq's end-of-job hook.
  Each uses `UPDATE ... WHERE id = ? AND status IN (...)` in a transaction of its
  own; nothing else orders them.
* **Redis.** The cancel signal is pub/sub and can be lost; heartbeats are keys
  that expire after 90 s; status events go to a stream and a hash.
* **Locks.** PostgreSQL row locks from an update to its commit; one advisory
  transaction lock for every session that decides about quotas.
* **Queue.** arq keeps a job id per run, refuses a known id, never tries a job
  twice (`max_tries = 1`), and calls `after_job_end` for jobs that did not die
  with their process.
* **Transactions of the API.** A handler reads, decides and writes in one READ
  COMMITTED transaction that ends with the request; UNIQUE and partial unique
  indexes make concurrent inserts of a name wait for one another.
* **A second session.** The notification rules are evaluated in a session of their
  own while the one that ends the run is open.

### 1.3 What is hard

Status writers that overlap; events and signals sent before the commit they
announce; a claim that is visible before the first heartbeat; jobs cancelled at
any await by `job_timeout`, also inside their final block; workers that die
anywhere; a session that a failed flush has broken, under the handlers that would
use it; a cron whose reads are stale when it writes; jobs that exist before
their row; ten-row windows that fill up; a counter written back after others have
changed it; a blacklist that cannot be asked; archives retried while the stream
expires; clocks read in one command and used in the next. `PROJECT.json` lists each such hazard at
its line with the properties that watch it.

## 2. Modules

| Module | Models | State | Builds on |
|---|---|---|---|
| `RunStatus` | status sets, documented and real transition relation | none | |
| `RunLifecycle` | the abstract promise about a run | `status`, `worker` | `RunStatus` |
| `RunTable` | the conditional updates and the transaction layer | `row`, `draft`, `lock` | `RunStatus` |
| `RunExecution` | task, executor, container, cancel request, reclaim cron, heartbeat, crashes | table + 11 variables | `RunTable`; instantiates `RunLifecycle` |
| `FairQueue` | requests, quotas, advisory lock, arq jobs, dequeue cron, claim | `run`, `req`, `lock`, `arq`, `cron` | |
| `AuthTokens` | the JWT pairs of a user, rotation, blacklist, an API token | `user`, `pair`, `api`, `black`, `areq` | |
| `Permissions` | both permission matrices and the decision | none | |
| `AccessControl` | a request that is checked while memberships change | `member`, `project`, `rq` | `Permissions` |
| `RateLimit` | the sliding window of one bucket | `hit`, `entries`, `expires` | |
| `NamedRows` | unique names, soft deletion, get-or-create of imports | `slot`, `nreq` | |
| `ReportShare` | a share link, its views, its preview links | `share`, `view`, `preview` | |
| `ProjectConfig` | edits of settings, credential binding, limits | `proj`, `cred`, `limits`, `edit` | |
| `RunStream` | log stream, status hash, SSE reader and ticket, archive and its retry | `log`, `reader`, `pass`, `arch` | `Permissions` |
| `ScheduleFiring` | a schedule, the crons of several workers and the requests that edit it | `sched`, `tick`, `edit`, `rowLock` | |
| `RunNotices` | the notification rules, quarantine, counters, channels, log | `past`, `run`, `note`, `quarantine`, `logs` | |
| `RunResults` | from the events of the tests to rows, summary and artifacts | `go`, `report`, `outcome` | |
| `RunRequests` | webhooks with their dedup index, retries, batches, row locks | `runs`, `held`, `client` | |
| `MCRunExecution`, `MCFairQueue`, `MCSchedule` | constants for TLC | | `RunExecution`, `FairQueue`, `ScheduleFiring` |
| `MCApi` | constants; one run for six components | `which` | `AuthTokens` to `ProjectConfig` |
| `MCWork` | constants; one run for four components | `which` | `RunStream`, `RunNotices`, `RunResults`, `RunRequests` |
| `RunTable_proofs` | lemmas on the transaction layer | | `RunTable`, TLAPS |
| `RunExecution_proofs` | 13 theorems about the execution | | `RunExecution`, `RunTable_proofs` |
| `FairQueue_proofs` | quotas, decisions, slots | | `FairQueue`, TLAPS |
| `AuthTokens_proofs` | revocation and identity | | `AuthTokens`, TLAPS |
| `Api_proofs` | access, rate limit, names, shares, settings | | `MCApi`, `AuthTokens_proofs` |
| `RunRequests_proofs` | deduplication and batches | | `RunRequests`, TLAPS |
| `ScheduleFiring_proofs` | the instants of a schedule | | `ScheduleFiring`, TLAPS |
| `Work_proofs` | log stream, notices, results | | `MCWork`, `RunRequests_proofs` |

### 2.1 RunTable

`row[r]` is the committed version, `draft[r]` what the session holding `lock[r]`
sees. `Write` is an update that stays open, `Store` one that is committed at
once, `Commit` and `Rollback` end a session. `Seen(r, s)` is the version a WHERE
of session `s` is evaluated on; an update whose WHERE matches waits until the
lock is free, one whose WHERE does not match, and a SELECT, never wait (READ
COMMITTED). A guard/effect pair is one method of `run_worker_repo.py`:
`Claimable`/`Claim` is `claim_for_worker`, `Failable`/`Fail` is
`fail_if_current`, and so on.

### 2.2 RunExecution

One action per stretch between two awaits that others can observe. `job[r].pc`
names the await the task stands at:

| pc | code |
|---|---|
| `ready`, `claiming`, `claimed`, `checking`, `dropping` | `_execute_run` up to the heartbeat (`tasks.py:201-266`) |
| `configuring` | credentials and configuration (`tasks.py:268-288`) |
| `preparing`, `arming`, `settingup` | clone, creation and start of the setup container, its wait and removal (`executor.py:221-247`, `644-745`) |
| `marking`, `announcing` | `mark_running`, commit, event |
| `boundary`, `creating`, `recording`, `starting`, `waiting` | one turn of `_run_stages` |
| `gathering`, `publishing`, `collecting`, `wrapping` | `mark_collecting` to the return of `execute` |
| `raised` | the exception handler of `execute` |
| `aborting`, `retrying` | the exception handler of `_execute_run` |
| `finalizing`, `closing`, `hook`, `ended` | final block, commit, `after_job_end` |
| `dead` | the process has died |

`sig[r]` is the subscription of `watch_for_cancel` (a message to a `deaf` task is
lost); `job[r].broken` says that the session of the job can commit nothing any more;
`ctr[r]` is its container, `left` when Docker has refused to remove it; `api[r]` is
the cancel request, whose event and signal leave before its
commit; `rec` is the reclaim cron with the candidates as it read them; `beat`
and `alive` are heartbeat keys and processes; `hash`, `noted`, `retries` are what
the environment gets to see; `late` is a history variable counting stages that
started when the row was already terminal.

`Faults` says what the environment may do: `crash` (a worker dies), `job_timeout`
(arq cancels a job at any await), `raise` (an await of a job raises, with or
without an infrastructure exception), `db` (a statement, flush or commit of the
job's session fails: what it held is lost, and if the session is broken, as after
a failed flush of `bulk_create`, every later use raises too, in the handlers of
`executor.py:365` and `tasks.py:301` and at the release and the commit of
`run_execution.py:98-104`, until the hook ends the run), `cleanup` (Docker refuses to
remove a container; the error is swallowed), `start_error` (a created container, of
the setup script or of a stage, cannot be recorded or started), `probe` (the boundary check cannot read the row),
`redis` (heartbeats and probes fail), `api_abort` (the cancel request is rolled
back), `reclaim_abort` (the pass of the cron is cut short, committed or not),
`stale` (the sweeps for stale runs find one), `archive` (the project was archived
meanwhile).

### 2.3 FairQueue

A request creates its run (committed at once, or with the enqueueing for the runs
in `Early`, the webhooks), takes the advisory lock, counts, sends the job, marks
the run and commits. Automatic retries are early too: their job is sent at
`worker/tasks.py:106-124` and the row committed at 173. `MCFairQueue_quota` has two
early runs. The dequeue cron lists at most `Limit` waiting rows, which
it locks, and goes through them in the order of `Rank`. The worker takes a job
and claims its run, which is one step here, and ends it; `after_job_end` fails a run it finds active. `Faults`:
`redis_down`, `lost_reply` (the job was taken, the answer lost), `crash` (the
worker dies with the job and without the claim), `abort` (a session dies before its
commit). `arq[r]` records how a job was lost: `missed` when it was over before its
row was there, `dead` with its worker.

### 2.4 The components behind MCApi

* **AuthTokens.** A request is `Begin` (`decode_token`), `CheckBlacklist`
  (`is_revoked`, which finds nothing while Redis is down), `ReadRow`, and for a
  refresh `Rotate` (revoke, then issue). `Register`, `Login`, `Logout`,
  `CreateApi`, `RevokeApi` are the other commands; `ChangeRow` is an
  administrator's SQL, since no handler writes the role. `black[t]` is the expiry of
  a blacklist key, `RevocationTTL` the rounding of its TTL.
* **AccessControl.** `CheckVisible`, `ResolveRole`, `Decide`, `Act` are the awaits
  of `require_project_permission`; `ChangeMember` may come between any two.
  `Permissions` transcribes the two tables and `check_permission`.
* **RateLimit.** `ReadTime` is the `TIME` command, `Count` the MULTI with
  ZREMRANGEBYSCORE, ZADD, ZCARD and EXPIRE; `at` records when it ran. Without Redis the strict paths answer
  503, the others pass uncounted.
* **NamedRows.** One name of each table. `Look`, `Insert` and, for an import,
  `LookAgain` after the rolled back SAVEPOINT; `SoftDelete` keeps the name,
  a rename gives it up.
* **ReportShare.** `ReadShare`, `VerifyShare`, `CountView`, `RedirectView` are one
  `GET /shared/...`; the counter is written as the value read plus one.
  `ServePreview` knows the signed link and no share.
* **ProjectConfig.** `ReadProject`, `CheckBinding`, `WriteProject` are
  `update_project`; `CheckUnused`, `DropCredential` are `delete_credential`;
  `ReadLimits`, `WriteLimits` are `update_environment`.

### 2.5 Schedules, and the components behind MCWork

* **RunStream.** `Write` is XADD with MAXLEN, `Over` the status hash; the reader
  alternates `ReadStream` and `ReadHash` as `stream_logs` does, and may
  `Disconnect` and come back with `Last-Event-ID`. `ReadPage` to `RecordFailure`
  are `archive_logs`, run by the worker or by `retry_failed_archives`. A ticket
  carries the scopes of its maker (`PassFor`) and is taken by GETDEL (`Connect`).
* **ScheduleFiring.** A pass is `Find` (FOR UPDATE SKIP LOCKED), `Claim` (the
  conditional `update_after_fire` and its commit), then `CreateRun` and `Sent` for each
  instant of `Plan`. `LoseLock`: the commit for an earlier schedule of the batch
  releases the lock of this one. `SendFails` and `GiveUp` are the unconditional
  `update_after_fire` of the error paths. Time is counted in units of the
  smallest cron; a zone is an offset. An edit is two steps: `ReadForEdit`
  reads the row without a lock and computes the columns, `next_run_at` among them;
  `StoreEdit` updates those that changed (`Merged`). `cron_expr` and `timezone` are
  separate columns, so two overlapping edits, one of each, leave a `next_run_at` that
  was computed for a pair nobody stored; the history variable `torn` records that an
  edit left its columns beside those of another writer. `blind` records an update of
  `next_run_at` over a value its writer never saw.
* **RunNotices.** `Before` sets what the runs before say: whether the pipeline has one
  (`prior`), what failed in it, and the history of a case in thirty days. `Flaky` is
  `list_flaky_tests`, which counts the run itself once it is committed.
  `Finish` leaves the verdict uncommitted (worker) or commits it (import); `Load` reads in the second session, so `Counts` gets what is
  committed; `TakeRule`, `SkipLogged`, `Send...`, `WriteLog` walk through rules
  and channels; `Break` is an exception of that session.
* **RunResults.** `TestEvent` and `PackageEvent` are lines of `go test -json`,
  `ParsedCases` what `_parse_cases` makes of them; `RunPytest` and the others write
  their report themselves. `CollectResults`, `ImportResults`, `StoreRows`,
  `UploadArtifact` follow the last stage.
* **RunRequests.** `Rivals` are the rows the partial unique index finds; an INSERT
  waits for open transactions on them. `CancelRow` is `cancel_if_current` inside a
  batch that keeps its locks; `BreakDeadlock` is PostgreSQL choosing a victim.

## 3. Runs

| Run | Question | States |
|---|---|---|
| `MCRunExecution_safety` | one run, one stage, **all** faults: the table invariants, short locks, every job ends with a verdict and is released, no started container is forgotten, verdicts are final, refinement of `RunLifecycle` | 419 k |
| `MCRunExecution_live` | two stages; crashes, exceptions, containers that do not start or stay, archived projects, stale sweeps, under fairness: what a cancel and a "done" mean, every run taken ends, every row lock is given back | 118 k |
| `MCFairQueue_quota` | four runs of three projects, two slots, any order, two of them early, all faults: quotas, and whose slots are used | 2.3 M |
| `MCFairQueue_live` | three runs, two of one project, under fairness, neither early nor crashing: runs leave the queue | 24 k |
| `MCApi` | two requests race in each of the six components of 2.4: ten properties | 2.1 M |
| `MCSchedule` | two workers and one request that edits, or one worker and two requests, one fault: no instant twice, no pass undoes an edit | 4.1 M |
| `MCWork` | the four other components of 2.5, with two workers or clients each: ten properties | 2.4 M |
| `*_v_*` | claims of the documentation that the code does not keep (section 6) | |

**One run for several components.** The components of `MCApi` share no state, nor
do those of `MCWork`: `which`, chosen in the initial state, says which one moves, and
the others stay as they begin. So the states of a run are the *sum* of those of
its components (auth 848 k, access 304 k, rate 171 k, names 619 k, share 41 k,
config 89 k; stream 236 k, notices 1.3 M, results 120 k, requests 775 k), each is explored as thoroughly as it would be alone, and a property of
one is no weaker for the presence of the others. Where components do act on one
another, the model of one holds the other's part: the status hash and the ticket in
`RunStream`, the uncommitted verdict in `RunNotices`, the worker in `RunRequests`.

**Bounds.** Runs interact only through the reclaim cron's one transaction, the
worker they share and the heartbeat key they share; one run with one worker has
all four status writers, and the theorems of section 5 cover any number of runs,
workers and stages. Two stages are enough for every boundary (before the first,
between, after the last) and for an exit that a later stage must not overwrite.
Nothing in `RunExecution` is unbounded but `retries` and `rec`'s passes: a task
retries once, and the cron can retry a run once because marking it makes it
terminal, so `retries` stays at two at most. In `FairQueue` four runs of three
projects make both the total quota (2) and the project quota (1) bind; the runs
of `AnyOrder` are interchangeable, which makes the symmetry of the configuration
sound, and no liveness is checked under it.

In `MCApi`, `MCWork` and `MCSchedule` the requests, workers or test cases `r1`, `r2`, `w1`, `w2`, `e1`, `e2` are
interchangeable and only safety is checked. Two of them have every interleaving
of a pair; the rate limiter has three, because its limits are 1 and 2.

| Constant | Value | Enough because |
|---|---|---|
| `MaxPairs` | 2 | a pair that is rotated and its successor |
| `AccessTTL`, `RefreshTTL`, `AuthHorizon` | 1, 2, 2 | an access token expires while requests run, a refresh token outlives the blacklist key of an access token; that a refresh token itself expires is not reached |
| `Window`, `RateHorizon` | 2, 4 | two windows: an entry ages out, a key expires |
| `MaxAccess`, `ShareTTL`, `PreviewTTL`, `ShareHorizon` | 1, 3, 1, 7 | a link ends, views and previews of before end, and time is left |
| `MaxSecret` | 1 | a secret that is set, and none |
| `Lines`, `MaxLen`, `Page` | 4, 3, 2 | a line is trimmed, a read takes two pages |
| `StreamFaults` | 2 | the archive fails, and so does the record of that |
| `CronExprs`, `CronZones` | every instant and every third; 0 and 1 | an edit changes the expression, the zone or both |
| `Grace`, `MaxCatchUp`, `MaxScan`, `MaxPerTick`, `CronHorizon` | 1, 2, 2, 2, 4 | every bound of the plan is exceeded by a pass that is late enough |
| `CronFaults` | 1 | one error or crash at any point |
| `Tickers`, `CronEditors` | two and two, of which `cast` takes three | two passes against an edit, two edits against a pass |
| `MinRuns`, `Histories` | 3 (as in the code); no result, one pass, two passes, flaky of old | a case is flaky before the run, by the run, or not |
| `MaxReport`, `MaxStages`, `ShownLimit`, `MaxUploads` | 3, 2, 1, 1 | a name stands twice, a later stage replaces the report, a failed test is left out |
| `MaxRows` | 3 | two rivals for a key and a row without one; a batch of two and a third run |

## 4. Properties

`RunExecution`, over the table: `OpenWritesAreLegal`, `AskedIffCancelled`,
`LocksAreShort`, `EndedIsTerminal`, `EndedIsReleased`, `NoContainerForgotten`,
`TerminalIsFinal` and the refinement `ImplementsLifecycle` hold with every fault.
`EndedIsReleased` says when a run that is over still has a worker: only if the session
of the job broke or was cut off, so that `release_run_worker` and the commit after it
failed (`run_execution.py:63-66`, `98-104`), and the verdict came from another session.
`NoContainerForgotten` says which containers are left of an execution that is over:
those Docker refused to remove (the error is swallowed, `executor.py:629-632`,
`736-739`), and those that were created and never started or recorded
(`executor.py:572-592`, `693-694`), which nobody removes. The next ones hold only
without the faults named:

| Property | Fails with | Because |
|---|---|---|
| `CancelStopsStages`: at most one stage starts after a committed cancel | `probe` | a read that fails counts as "not requested" (`executor.py:490`) |
| `DoneRanEveryStage`, `DetectedCancelIsRecorded` | `api_abort` | the signal leaves before the commit (`runs.py:358`): the executor obeys a cancel that is then rolled back, skips the remaining stages and reports the exit of those that ran |
| `InFlightEnds` | `job_timeout` with `crash` | `release_run_worker` detaches the worker while the run is in flight (`run_execution.py:98`), and the worker dies before the hook: no sweep for a running run is left |

In `FairQueue`, `QuotaHeld` counts the runs whose enqueueing was recorded. A job
that was sent by a transaction that died, or whose answer was lost, is executed
without having been counted (`scheduler.py:120`); it comes on top and is not sent
again. `SlotsAreUsed` is checked with every fault and with early jobs: a slot that
nobody works for is that of a run whose job was over before its row was there
(`missed`), which happens to webhooks and automatic retries, or whose worker died
between taking the job and claiming the run (`dead`). `RunsLeaveTheQueue` excludes
both, since such a run never leaves.

The other components have safety properties only.

| Property | Says |
|---|---|
| `RevokedIsRefused` | a token whose revocation Redis has confirmed before a request began is refused for the rest of its life, unless Redis is down when the request asks |
| `IdentityIsCurrent` | a request acts with an identity its user had while the request ran |
| `ScopesOnlyRestrict`, `RolesIntersect` | scopes, tenant role and project role only take away, although the membership changes under the request |
| `WindowHolds` | in every stretch of a window's length, past or present, no more requests than the limit both read the clock and are let through, although keys expire and clocks are read early |
| `ImportsAreAnswered`, `NamesAreTakenInOrder` | an import that loses a race gets the row of the winner; imports never wait in a cycle |
| `ReportIsSealed` | after a revocation, when the views of before are over, the report stays closed but for the life of a preview link |
| `SecretsSurviveEdits` | an edit that does not name the webhook secret keeps it |
| `DoneReadersHaveAllLines` | a reader that is told "done" has every line written before the verdict and not trimmed |
| `TicketGrantsNoMore` | a ticket opens one stream, and none its maker could not open |
| `ArchiveIsComplete` | while the stream lives, the archive has all its lines |
| `SlotsFireOnce`, `NextIsOfTheCron` | no instant gets two runs; `next_run_at` is an instant of the `cron_expr` and `timezone` of the row, and so no edit is undone by a pass that read the old row |
| `ChannelTypesAreIndependent` | every channel *type* of a rule that fires is tried, and "sent" has arrived; that every channel is tried is false (section 6) |
| `NewFailuresAreNew` | a new failure failed in the run, not in the one before, was not flaky before and is in no valid quarantine; after a first run such a failure is hidden only if the case, this failure counted, may be flaky. Without a run before, nothing is new |
| `FailedPackagesShow` | a failed Go package has a failed or errored case in the report |
| `SummaryCountsTheRows` | the summary agrees with the rows that are stored |
| `OneActivePerKey` | one commit never has two active runs from webhooks |
| `CancelledOnce` | batches report a run cancelled at most once, and truly |

`SlotsFireOnce` and `NextIsOfTheCron` exclude, by `blind`, the behaviours in which the
unconditional update of an error path went over a value its writer had not read, or
an edit stored an instant that had come since it computed it: such a write can set
`next_run_at` back, and the code does not prevent it. `NextIsOfTheCron` excludes,
by `torn`, those in which an edit left its columns beside those of another writer:
`update_schedule` reads without a lock (`schedules.py:154-167`), so that two edits that
overlap, one of `cron_expr` and one of `timezone`, leave a `next_run_at` of neither row.
What is left is what the conditional update promises.

`WindowHolds` says nothing of a request whose transaction runs after the stretch: with
a limit of 1 and a window of 2, a request reads the clock at 1, one that read it at 0
is counted, the key expires at 2, and the late one finds nobody and passes: two stamps
of one window (`rate_limit.py:192`, `199`).

Some things the code does that a reader may not expect are part of the model and
not forbidden by any property:

* the end-of-job hook fails a run that is still queued (`Successors` differs from
  the documented table there), and a new request is served before runs that wait
  for the cron;
* two refreshes with one token that overlap both get a pair;
* two creates of one name that both find it free: the second is answered 500;
* two edits of one project's settings, or of an environment's limits, that overlap
  lose one of them, a secret that was just rotated included; a credential can be
  bound while it is being deleted;
* a preview link outlives the revocation of its share by its own TTL, and
  `revoke_share_token` does not ask whether the share is of the run in the path;
* a batch cancel that is the victim of a deadlock counts rows in its answer that
  were rolled back;
* a name that stands twice in a report breaks the transaction of the executor,
  which merges duplicates only for imports: the session is broken, no handler can
  write the verdict any more, and the end-of-job hook fails the run (`db` in
  `RunExecution`); all runners of a run write one file,
  and the last stage wins;
* the log of a run whose worker died is never archived; the line "Run completed" is
  written after the event it reports, so a reader may end without it.

### Fairness

`RunExecution!Fairness` is weak fairness of: the steps of a job (a coroutine that
can continue is scheduled by the event loop), the exit of a container (the
executor stops it at the stage timeout), the cancel request, the reclaim cron (it
runs every minute on some live worker) and the expiry of heartbeat keys. No fault,
no request, and no delivery of a signal is assumed. A step that waits for a row
lock is enabled whenever the lock is free; `LocksAreReleased` shows the lock comes
back. `FairQueue!Fairness` adds strong fairness of taking the advisory lock and of
the worker's steps on a row: PostgreSQL queues lock waiters, so whoever waits
while others take and release gets its turn. Time is not modelled: a timeout is a
fault that may happen, the sweeps for stale runs may find a run at any moment or
never.

## 5. Proofs

Every invariant and every action property of a passing run is a theorem, for all
values of the constants that the assumptions of the modules allow; so is the
refinement. The runs show them on small instances, and are what found the
strengthenings below before they were proved.

| Theorem | Statement | Faults assumed away |
|---|---|---|
| `TypeCorrect`, `QueueTypeCorrect` | `Spec => []TypeOK` of `RunExecution`, of `FairQueue` | none |
| `OpenWritesStayLegal` | `Spec => []OpenWritesAreLegal` | none |
| `AskedMeansCancelled` | `Spec => []AskedIffCancelled` | none |
| `LocksStayShort` | `Spec => []LocksAreShort` | none |
| `EveryJobEndsWithAVerdict` | `Spec => []EndedIsTerminal` | none |
| `VerdictsAreFinal` | `Spec => TerminalIsFinal` | none |
| `Refinement` | `Spec => ImplementsLifecycle` | none |
| `EndedRunsAreReleased` | `Spec => []EndedIsReleased` | none |
| `ContainersAreRemoved` | `Spec => []NoContainerForgotten` | none |
| `HeardCancelsAreRecorded` | `Spec => []DetectedCancelIsRecorded` | `api_abort` |
| `DoneRunsRanEveryStage` | `Spec => []DoneRanEveryStage` | `api_abort` |
| `CancelsStopStages` | `Spec => []CancelStopsStages` | `probe` |
| `QuotasHold` | `Spec => []QuotaHeld` | none |
| `OneDecidesAtATime` | `Spec => []Exclusive`: who decides about quotas holds the advisory lock | none |
| `SlotsHold` | `Spec => []SlotsAreUsed`, for every set `Early` | none |
| `ApiTypeCorrect`, `WorkTypeCorrect` | `Spec => []TypeOK` of `MCApi`, of `MCWork`: six and four components | |
| `RevocationHolds`, `IdentityHolds` | `AuthSpec => []RevokedIsRefused`, `[]IdentityIsCurrent` | |
| `ScopesHold`, `RolesHold` | `AccessSpec => []ScopesOnlyRestrict`, `[]RolesIntersect` | |
| `LimitsHold` | `RateSpec => []WindowHolds` | |
| `NoNameCycle`, `ImportsHold` | `NamesSpec => []NamesAreTakenInOrder`, `[]ImportsAreAnswered` | |
| `SealHolds` | `ShareSpec => []ReportIsSealed` | |
| `SecretsStay` | `ConfigSpec => SecretsSurviveEdits` | |
| `ReadersHold`, `TicketsHold`, `ArchivesHold` | `StreamSpec => []DoneReadersHaveAllLines`, `[]TicketGrantsNoMore`, `[]ArchiveIsComplete` | |
| `ScheduleTypeCorrect`, `FiresOnce`, `NextHolds` | `ScheduleSpec => []ScheduleTypeOK`, `[]SlotsFireOnce`, `[]NextIsOfTheCron` | |
| `ChannelsHold`, `FreshHolds` | `NoticesSpec => []ChannelTypesAreIndependent`, `NewFailuresAreNew` | |
| `FailuresShow`, `SummaryHolds` | `ResultsSpec => []FailedPackagesShow`, `[]SummaryCountsTheRows` | |
| `DedupHolds`, `CancelsAreTrue` | `RequestsSpec => []OneActivePerKey`, `[]CancelledOnce` | |

Where a fault is named, the theorem has `"fault" \notin Faults` as its hypothesis and
holds with every *other* fault; each of these hypotheses is needed, as the table of
section 4 and section 6 explain. A component of `MCApi` or `MCWork` has its faults
(Redis away, commands that fail, crashes) as actions of its own, and its theorems
cover them all.

**Assumptions on the constants.** The theorems about `RunExecution` need none, and
hold for arbitrary `Runs`, `Workers`, `Stages` and `Retryable`. `FairQueue`: finitely many
runs, quotas that are numbers, and a cron that is not a run. The bounds of the
others (lifetimes, windows, horizons, lengths) are numbers, positive where a zero
would mean that the thing does not exist; sets of clients, requests, test cases and
packages that are counted are finite. `NamesAssumption` and the like say that
"nobody" is not a request. `ScheduleAssumption`: a cron names one instant of every
period, which is how `croniter` is abstracted. `RulesAssumption`: a rule has a
channel at least, which the schema of its body demands
(`schemas/notifications.py:129`). TLC evaluates all of them on every run.

### 5.1 Runs

`RunTable_proofs` shows, for whatever sessions there are, that
a legal write, a legal store, any commit and any rollback keep `TableInv` and make
every row `Follow` its predecessor along the lifecycle. The key lemma is
`SeenActive`: a session that sees an active run sees the committed version,
because what is held open is always a verdict. So a guard that was true on
`Seen(r, s)` is true of the row it overwrites, and `Verdicts`, `Progress`,
`Bookkeeping`, `FinishCollecting` and `Sweeps` show that each update of the
repository is legal there. `RunExecution_proofs` then classifies every action as
one of the five kinds.

**Why the invariants are not inductive as they stand.** `finish_if_current`
accepts a *running* run too, and `done` may not follow `running`: that it never
does follows from the program counter alone. `CollectingInv` (after
`mark_collecting` is committed only a verdict replaces it) closes that gap.
`AskedIffCancelled` needs the same of drafts (`Coherent`), `EndedIsTerminal` needs
that rows go forward, and everything needs that a job that has started has a
worker (`JobOK`) and that the cron's candidates are runs (`RecOK`). `IInv` is the
conjunction; `InitInv` and `NextInv` are the two facts, with one lemma per group
of actions and one case per action.

**On top of `IInv`.** Five invariants more; the last three each with one fault
assumed away.

* `WorkerInv`: no committed row is done or timed out and has a worker (`TableRel`),
  because such a verdict is committed together with the release. The API holds
  nothing open but a cancel, the reclaim cron nothing that has a worker, and the
  handler of the task commits failed runs only (`OwnRel`). A row has no worker but
  that of its job, and a job that is over has released it, unless its session broke or
  it was cut off, and then the verdict is another's: `EndedIsReleased`.
* `ContainersInv`: a container exists only while its job stands at an await every
  exit of which tries to remove it, or Docker has refused, or it was created and never
  started.
* `CancelInv`: a signal was sent, or an executor has heard one, only if the cancel
  is committed or held open by the request (`CancelSure`). Nobody but the request
  ends its transaction, and no session overwrites what it holds (`CancelStays`),
  so what was heard is committed in the end, unless the request is rolled back.
* `DoneInv`: a job that has left the stages has run them all, or has a failing
  exit, or its run is `CancelSure`. In the last case `finish_if_current` does not
  match, whatever the exit of the last stage: a skipped stage never counts.
* `LateInv`: after a committed cancel at most one stage starts, and none once the
  job stands before a boundary, because `boundary` reads the row again.

That others leave a job alone is a lemma per group of actions (`TaskMoves`,
`ExecutorMoves`, `OthersMove`); that a session lets a cancel be (`Respects`), makes
no run done (`NoneDone`) and gives no worker (`Fades`) follows from the guard of each
update of the table.

### 5.2 Queue

`QuotaHeld` counts what is committed; it is not inductive, because
a session may have sent a job and not committed its mark yet. `QueueInv` bounds
`Slots` instead: the recorded runs and those of open sessions. Only `Send` and
`CronSend` make a slot. Both happen under the advisory lock (`Exclusive`), when the
only pending marks are the session's own, so what it counted contains all of
`Slots` and `OneMoreFits` adds one run to it. Every other step keeps `Slots` or
makes it smaller (`KeptFits`); a commit does so only because a row that is not
there yet carries no mark (`RowsAppear`) and the cron marks rows it has read
(`CronReads`).

`SlotsAreUsed` needs to know what arq has: `JobsFollow` says that a job runs exactly
while its run is active and is over only when the run has ended, that a run whose
request has not begun has none, that a run that is marked, or about to be, has had
one, and that a job is over before its row is there (`missed`) only for a run of
`Early`. The third way a job ends without its run is with its worker (`dead`). So the
theorem holds for every set `Early` and every set of faults.

### 5.3 The API

* **AuthTokens.** `BlackOutlives`: the key of a revoked token lasts at least as
  long as the token would be decoded, which is what the TTL in
  `JWTService.revoke` is computed for. A request that began after the revocation
  finds the key, finds Redis down, or has a token that has expired meanwhile
  (`LateIsStopped`). `IdentityIsSeen`: what a request has read of the row is among
  the states the row had since the request began.
* **AccessControl.** `MembershipIsSeen`: the project role a request uses is one of
  those the membership had while it ran; `ActsAsDecided`: who acts has been let
  through on it. The rest is a lemma on `check_permission` alone, for every context.
* **RateLimit.** `CountedStay`: a request that was let through stays in the set of
  its path, and the key outlives it, until its stamp is a window old. A request
  passes only if the set it has just joined is within the limit, and that set
  contains all with a stamp in the window that ends now (`WindowNow`). `WindowHolds`,
  about every stretch, follows at the moment the last request of the stretch is
  counted: all of them are in the window of then (`Within`, `FewerPass`). It matters
  that the cut-off and the expiry are computed from a stamp that is never in the future.
* **NamedRows.** `HeldFits`: a name a request holds comes before all it has left to
  get; so of two that wait for one another each would hold a pipeline and want an
  environment. `AgainFits`: the name an import has lost is still there when it looks
  again, or was given up.
* **ReportShare.** `LinkIsOver` and `PreviewIsShort`: once a link has ended and the
  views under way are over, no view holds an expiry in the future, and a preview link
  was made by a view of before.
* **ProjectConfig.** `KeepsSecret`: what an edit is about to write has the secret it
  has read, unless its body names one.

### 5.4 The work around a run

* **RunStream.** `ReaderHasUpToCursor`: a reader has all that is kept up to its
  cursor, and the last read of one that is done was after the status.
  `ArchiveHasUpToCursor`: an archive in progress has all that is kept before its
  cursor, and nothing is written once one begins. `TicketIsUnused`: a ticket
  that lives has not been used.
* **ScheduleFiring.** `IsAhead`: the row is ahead of all that a pass has planned and
  of all that has a run; `PlansAreApart`: no two passes plan one instant, no plan
  names one twice. A claim succeeds only on the slot the pass has read, so what it
  plans is new. All of it holds until a blind write, and only then (`CronInv`). An edit carries a
  `next_run_at` of the pair it has computed (`EditsFit`), which is the pair of the row
  afterwards unless it tore it (`OfTheCron`). That a
  plan is strictly increasing and ends before the new slot is shown of `Plan` itself,
  for any cron, with the remainders of a period.
* **RunNotices.** `RulesAreTaken`: all rules before the one in hand are done, those
  after it untouched, and of the one in hand the type of every channel before the current was
  tried. `FreshIsNew` is the step that loads the counters, for every history.
* **RunResults.** `SummaryIsOfCases`: the summary is that of the list whose members
  become rows, and the rows of a commit have different names; then the positions
  of the list and the rows are as many, in total and by status (a bijection).
* **RunRequests.** The committed rows alone do not say why two webhooks
  cannot both insert: `KeyOnce` counts a row with the key from its INSERT, committed
  or not, until its last active status is gone, and only `InsertRun` makes a row
  count, when the index finds none. A batch reports what it has done; `DoneIsHeld`
  says that it still holds those rows, `HeldIsOpen` that a held row has no verdict
  yet, so nobody can have reported it before (`ReportIsTrue`).

### 5.5 Only model-checked

`InFlightEnds`, `LocksAreReleased` and `RunsLeaveTheQueue`: they need fairness, and
liveness and ENABLED are out of the prover's reach. The claims of section 6 are
violated and have no theorem. No module declares a RECURSIVE operator: sequences made of
a set (`AsSeq`, `Slots`) are chosen by what they contain, and the proofs use no more.

## 6. What the documentation says and the code does not do

Five claims have a run that ends in a violation; `PROJECT.json` quotes the line.

* `MCRunExecution_v_lost` (`OnlyLostWorkersAreReclaimed`): the claim is committed
  before the first heartbeat, and the reclaim cron fails the run of a live worker
  (`worker/tasks.py:30-33` says it cannot happen).
* `MCWork_v_counters` (`CountersAreTrue`): the notification rules are evaluated in a
  second session before the verdict and the results are committed. "Consecutive
  failures" does not count a run that has just failed, no case is ever newly failed,
  and every case that failed before counts as recovered.
* `MCSchedule_v_zone` (`FiredInstantsAreScheduled`): missed instants are enumerated from a
  UTC time without the zone of the schedule.
* `MCApi_v_share` (`LimitIsKept`): two views of a link that may be opened once both
  pass.
* `MCWork_v_channels` (`FailureStopsNoOther`): a rule has two webhooks and the first
  fails. Its row in `notification_log` makes `get_by_delivery`, which asks for the
  channel type only, skip the second, which is never tried; the docstring says a
  failure in one channel does not prevent others from being sent
  (`worker/notifications/__init__.py:392-393`, `470-480`).

Some more are stated in the modules and do not hold; the number of configurations
is kept small, so none of them checks these:

* `FreedNamesCanBeTaken` (NamedRows): the name of a deleted member, project or
  credential is looked up, not found, inserted, and refused by the database with an
  error nobody handles.
* `KnownFlakyAreLeftOut` (RunNotices): an import is committed when it is evaluated, and
  `list_flaky_tests`, which has no upper bound of time, counts its results too. A case
  that passed twice and now fails for the first time is flaky by this very failure
  and left out, although the docstring speaks of known flaky cases
  (`_load_new_failed_and_recovered`).
* `StreamsEnd` (RunExecution): an exception before `execute` (fault `raise`) fails
  the run without an event; the status hash, by which streams detect the end,
  stays at `preparing`. Without any fault the event "preparing" can go over that of
  a cancel that was published, and not yet committed, before it.
* `NotifiedOfTheVerdict` (RunExecution, no fault): the rules are given the status
  computed from the exit code although the run was cancelled meanwhile.
* `RetriedOnce` (RunExecution, fault `raise`): the task, after an infrastructure
  error, and the reclaim cron each create a retry of one attempt.
* `RunsLeaveTheQueue` (FairQueue) holds in `MCFairQueue_live` and fails in the two
  cases `SlotsAreUsed` names: the job of a webhook or of an automatic retry is taken
  before its row is committed (`Early`), or a worker dies between taking a job and
  claiming its run (`crash`). The run stays queued and keeps its slot for ever.
* `NoProjectIsHeldUp` (FairQueue, `Limit` waiting runs of a full project): they
  hide those of all others from the dequeue cron.
* `ArchivedLinesStay` (RunStream, two `StreamFaults`): the archive was written and
  the marker of the retry set stays; when the cron comes back after the stream
  has expired, it writes an empty object over the archive.

## 7. Plan

The components of section 1 that keep state are modelled, and what the runs check
of safety is proved. What may be added:

1. An abstract queue ("a bounded set of slots") that `FairQueue` implements, and
   the step by step refinement of it.
2. Theorems on pairs of components that are joined only by what one holds of the other:
   the status hash of `RunExecution` as `RunStream` uses it.
3. Safety facts behind the liveness properties: which row is waited for when
   something waits, so that fairness of that one step is all that is left to TLC.

## 8. What is not modelled

Time in `RunExecution` and `FairQueue` (see fairness); contents of logs, events,
artifacts and reports; cloning and the command lines of runners (subprocesses); handlers
that are one transaction on one row nothing else depends on; analytics and audit
queries (read-only SQL); tracing, configuration and encryption; the frontend.
Inside the modelled parts: `timeout_if_current`, `find_past_pipeline_deadline`
and `delete_stream` have no caller; the three priority queues of arq are
one set of jobs; the Allure report, artifacts and test results are written in the
`collecting` step of `RunExecution`, to other tables only, and are the subject of
`RunResults`. In `RunExecution` a start whose reply is lost,
an error of the hook's own session, and containers `left` by earlier stages are not
followed: there is one container per run. A `worker_id` that stays on a run that is
over is never cleared. A log line written while its stream is
being archived is left out of `RunStream`, and so is a verdict whose event is lost
(`StreamsEnd` of section 6 is about that one). Deleting a schedule, and the project and pipeline a pass looks up, are
left out of `ScheduleFiring`; rules edited after an evaluation has read them do not
matter to it and are left out of `RunNotices`.
