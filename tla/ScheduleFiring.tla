---------------------------- MODULE ScheduleFiring ---------------------------
(***************************************************************************)
(* One schedule and the crons of several workers that fire it.  Time is    *)
(* counted in units of the smallest cron; a cron names the instants t with *)
(* (t + zone) % period = at.  A pass reads its clock, the rows that are    *)
(* due (locked until its first commit), takes the slot by a conditional    *)
(* update, and then creates and enqueues the runs of the plan one by one.  *)
(***************************************************************************)
EXTENDS Integers, Sequences, FiniteSets, FiniteSetsExt

CONSTANTS
  Tickers,      \* workers that run check_schedules
  CronExprs,    \* [period, at] a schedule can be given as its cron_expr
  CronZones,    \* offsets a schedule can be given as its timezone
  Grace,        \* MISSED_FIRE_GRACE
  MaxCatchUp,   \* MAX_CATCHUP_RUNS
  MaxScan,      \* MAX_MISSED_SCAN
  MaxPerTick,   \* MAX_RUNS_PER_TICK
  CronHorizon,  \* bound of the clock
  CronFaults,   \* failing updates, lookups and enqueues, at most
  CronEditors   \* requests that edit the schedule, each once

ASSUME ScheduleAssumption ==
  /\ CronExprs # {} /\ CronZones # {} /\ CronZones \subseteq Nat
  /\ \A e \in CronExprs : e.period \in Nat \ {0} /\ e.at \in 0 .. e.period - 1
  /\ {Grace, MaxScan, CronFaults} \subseteq Nat
  /\ {MaxCatchUp, MaxPerTick, CronHorizon} \subseteq Nat \ {0}

\* The columns cron_expr (period and at) and timezone (zone) of a row.
Crons == {[period |-> e.period, at |-> e.at, zone |-> z] : e \in CronExprs, z \in CronZones}

VARIABLES
  sched,   \* the row: [next, cron, policy, on]
  tick,    \* the pass of each worker
  edit,    \* each editing request: the row it has read, and as it wants it
  rowLock, \* who holds the row lock: a worker, or NoTicker
  now,
  fired,   \* how many runs were created for each instant
  blind,   \* history: an update wrote next_run_at over a value its writer never
           \* saw, or an edit stored an instant that had come meanwhile
  torn,    \* history: an edit left its columns beside those of another writer
  failed

cronVars == <<sched, tick, edit, rowLock, now, fired, blind, torn, failed>>

NoTicker == "nobody"
Policies == {"skip", "run_once", "run_all"}
Times == 1 .. CronHorizon

Hits(c, t) == (t + c.zone) % c.period = c.at

\* compute_next_run_at
NextRun(c, t) == CHOOSE n \in (t + 1) .. (t + c.period) : Hits(c, n)

NoPass == [pc |-> "idle", at |-> 0, row |-> [next |-> 0, cron |-> 0, policy |-> ""],
           due |-> <<>>, spent |-> 0]

NoEdit == [pc |-> "new"]

ScheduleTypeOK ==
  /\ sched.next = 0 \/ \E c \in Crons : sched.next \in 1 .. CronHorizon + c.period
  /\ sched.cron \in Crons
  /\ sched.policy \in Policies /\ sched.on \in BOOLEAN
  /\ \A w \in Tickers : /\ tick[w].pc \in {"idle", "found", "fire", "send"}
                        /\ Len(tick[w].due) <= MaxCatchUp
  /\ \A e \in CronEditors : edit[e].pc \in {"new", "read", "done"}
  /\ rowLock \in Tickers \union {NoTicker}
  /\ now \in Times
  /\ DOMAIN fired = Times
  /\ blind \in BOOLEAN /\ torn \in BOOLEAN
  /\ failed \in 0 .. CronFaults

ScheduleInit ==
  /\ now = 1
  /\ sched = [next |-> 0, cron |-> CHOOSE c \in Crons : TRUE, policy |-> "skip",
              on |-> FALSE]
  /\ tick = [w \in Tickers |-> NoPass]
  /\ edit = [e \in CronEditors |-> NoEdit]
  /\ rowLock = NoTicker
  /\ fired = [t \in Times |-> 0]
  /\ blind = FALSE /\ torn = FALSE
  /\ failed = 0

-----------------------------------------------------------------------------
(***************************************************************************)
(* plan_missed_fires                                                       *)
(***************************************************************************)

\* The slots from the first due one on; croniter is given an instant read
\* from the database, in UTC, and no time zone.
Slots(row, t) ==
  LET utc == [row.cron EXCEPT !.zone = 0]
      after == {s \in (row.next + 1) .. t : Hits(utc, s)}
      count(s) == Cardinality({x \in after : x <= s})
  IN <<row.next>> \o [i \in 1 .. Min({MaxScan, Cardinality(after)}) |->
                        CHOOSE s \in after : count(s) = i]

LastN(s, n) == SubSeq(s, Max({1, Len(s) - n + 1}), Len(s))

Plan(row, t) ==
  LET slots == Slots(row, t) IN
  IF t - row.next <= Grace THEN LastN(slots, 1)
  ELSE IF row.policy = "skip" THEN <<>>
  ELSE LastN(slots, IF row.policy = "run_all" THEN MaxCatchUp ELSE 1)

-----------------------------------------------------------------------------
(***************************************************************************)
(* One pass of the cron                                                    *)
(***************************************************************************)

Unlock(w) == rowLock' = IF rowLock = w THEN NoTicker ELSE rowLock
Leave(w) == tick' = [tick EXCEPT ![w] = NoPass] /\ Unlock(w)
MayWrite(w) == rowLock \in {w, NoTicker}
Fault == failed < CronFaults /\ failed' = failed + 1

\* find_due_schedules, FOR UPDATE SKIP LOCKED; other schedules of the batch
\* may have spent some of the budget.
Find(w) ==
  /\ tick[w].pc = "idle" /\ rowLock = NoTicker
  /\ sched.on /\ sched.next <= now
  /\ \E spent \in {0, MaxPerTick - 1} :
       tick' = [tick EXCEPT ![w] =
         [NoPass EXCEPT !.pc = "found", !.at = now, !.spent = spent,
            !.row = [next |-> sched.next, cron |-> sched.cron, policy |-> sched.policy]]]
  /\ rowLock' = w
  /\ UNCHANGED <<sched, edit, now, fired, blind, torn, failed>>

\* The commit for an earlier schedule of the batch ends the transaction.
LoseLock(w) ==
  /\ tick[w].pc = "found" /\ rowLock = w
  /\ rowLock' = NoTicker
  /\ UNCHANGED <<sched, tick, edit, now, fired, blind, torn, failed>>

\* A quiet or silent window: the schedule stays due.
SkipQuiet(w) ==
  /\ tick[w].pc = "found"
  /\ Leave(w)
  /\ UNCHANGED <<sched, edit, now, fired, blind, torn, failed>>

\* Mutant of Advances: update_after_fire without expected_next_run_at.
AdvancesAnyway(row) == TRUE

\* The conditional update finds the slot that was read.
Advances(row) == sched.next = row.next

\* The slot is claimed and committed before any run is created.
Claim(w) ==
  LET pass == tick[w]
      due == Plan(pass.row, pass.at)
  IN
  /\ pass.pc = "found" /\ MayWrite(w)
  /\ Unlock(w)
  /\ IF Advances(pass.row)
     THEN /\ sched' = [sched EXCEPT !.next = NextRun(pass.row.cron, pass.at)]
          /\ tick' = [tick EXCEPT ![w] =
               IF due = <<>> THEN NoPass ELSE [pass EXCEPT !.pc = "fire", !.due = due]]
     ELSE tick' = [tick EXCEPT ![w] = NoPass] /\ UNCHANGED sched
  /\ UNCHANGED <<edit, now, fired, blind, torn, failed>>

CreateRun(w) ==
  LET pass == tick[w] IN
  /\ pass.pc = "fire"
  /\ IF pass.spent >= MaxPerTick
     THEN Leave(w) /\ UNCHANGED fired
     ELSE /\ fired' = [fired EXCEPT ![Head(pass.due)] = @ + 1]
          /\ tick' = [tick EXCEPT ![w].pc = "send", ![w].spent = @ + 1]
          /\ UNCHANGED rowLock
  /\ UNCHANGED <<sched, edit, now, blind, torn, failed>>

After(pass) == IF Len(pass.due) = 1 THEN NoPass
               ELSE [pass EXCEPT !.pc = "fire", !.due = Tail(@)]

Sent(w) ==
  /\ tick[w].pc = "send"
  /\ tick' = [tick EXCEPT ![w] = After(@)]
  /\ UNCHANGED <<sched, edit, rowLock, now, fired, blind, torn, failed>>

\* What an unconditional update_after_fire does to a row that was moved on.
Overwrite(w, seen) ==
  /\ MayWrite(w)
  /\ sched' = [sched EXCEPT !.next = NextRun(tick[w].row.cron, tick[w].at)]
  /\ blind' = (blind \/ sched.next \notin seen)

\* "enqueue failed" writes next_run_at once more.
SendFails(w) ==
  /\ tick[w].pc = "send" /\ Fault
  /\ Overwrite(w, {NextRun(tick[w].row.cron, tick[w].at)})
  /\ tick' = [tick EXCEPT ![w] = After(@)]
  /\ UNCHANGED <<edit, rowLock, now, fired, torn>>

\* No pipeline, no project, or an exception: next_run_at is computed anew.
GiveUp(w) ==
  /\ tick[w].pc # "idle" /\ Fault
  /\ Overwrite(w, {tick[w].row.next, NextRun(tick[w].row.cron, tick[w].at)})
  /\ Leave(w)
  /\ UNCHANGED <<edit, now, fired, torn>>

CrashTicker(w) ==
  /\ tick[w].pc # "idle" /\ Fault
  /\ Leave(w)
  /\ UNCHANGED <<sched, edit, now, fired, blind, torn>>

-----------------------------------------------------------------------------
\* create_schedule
CreateSchedule ==
  /\ sched.next = 0
  /\ \E c \in Crons, p \in Policies, on \in BOOLEAN :
       sched' = [next |-> NextRun(c, now), cron |-> c, policy |-> p, on |-> on]
  /\ UNCHANGED <<tick, edit, rowLock, now, fired, blind, torn, failed>>

\* Mutant of Recomputed: a new timezone alone leaves next_run_at as it is.
RecomputedForExpr(row, c) ==
  IF c.period = row.cron.period /\ c.at = row.cron.at THEN row.next ELSE NextRun(c, now)

\* next_run_at when the request names cron_expr or timezone: an instant of
\* the two, the one it leaves out taken from the row it has read.
Recomputed(row, c) == NextRun(c, now)

\* update_schedule reads the row, without a lock, and computes the columns; a
\* policy or "enabled" without a cron leaves next_run_at as it is.
ReadForEdit(e) ==
  /\ edit[e].pc = "new" /\ sched.next # 0
  /\ \E wants \in {[sched EXCEPT !.cron = c, !.next = Recomputed(sched, c)] : c \in Crons}
                  \union {[sched EXCEPT !.policy = p] : p \in Policies}
                  \union {[sched EXCEPT !.on = ~@]} :
       edit' = [edit EXCEPT ![e] = [pc |-> "read", seen |-> sched, wants |-> wants]]
  /\ UNCHANGED <<sched, tick, rowLock, now, fired, blind, torn, failed>>

\* The UPDATE names the columns whose value has changed since the read.
Changed(seen, wants, is) == IF wants = seen THEN is ELSE wants

MergedCron(seen, wants, is) ==
  LET expr == IF <<wants.period, wants.at>> = <<seen.period, seen.at>> THEN is ELSE wants
  IN [expr EXCEPT !.zone = Changed(seen.zone, wants.zone, is.zone)]

Merged(seen, wants, is) ==
  [next |-> Changed(seen.next, wants.next, is.next),
   cron |-> MergedCron(seen.cron, wants.cron, is.cron),
   policy |-> Changed(seen.policy, wants.policy, is.policy),
   on |-> Changed(seen.on, wants.on, is.on)]

Pair(row) == <<row.cron, row.next>>

StoreEdit(e) ==
  LET seen == edit[e].seen
      wants == edit[e].wants
      new == Merged(seen, wants, sched)
  IN
  /\ edit[e].pc = "read" /\ rowLock = NoTicker
  /\ sched' = new
  /\ blind' = (blind \/ (Pair(new) # Pair(sched) /\ wants.next <= now))
  /\ torn' = (torn \/ Pair(new) \notin {Pair(wants), Pair(sched)})
  /\ edit' = [edit EXCEPT ![e] = [pc |-> "done"]]
  /\ UNCHANGED <<tick, rowLock, now, fired, failed>>

Pass ==
  /\ now < CronHorizon
  /\ now' = now + 1
  /\ UNCHANGED <<sched, tick, edit, rowLock, fired, blind, torn, failed>>

ScheduleNext ==
  \/ \E w \in Tickers :
       \/ Find(w) \/ LoseLock(w) \/ SkipQuiet(w) \/ Claim(w) \/ CreateRun(w)
       \/ Sent(w) \/ SendFails(w) \/ GiveUp(w) \/ CrashTicker(w)
  \/ \E e \in CronEditors : ReadForEdit(e) \/ StoreEdit(e)
  \/ CreateSchedule \/ Pass

ScheduleSpec == ScheduleInit /\ [][ScheduleNext]_cronVars
-----------------------------------------------------------------------------
\* However the passes of two workers interleave with each other, with edits
\* and with crashes, no instant gets two runs, unless a blind write has set
\* the schedule back (fire_due_schedules, update_after_fire).
SlotsFireOnce == ~blind => \A t \in Times : fired[t] <= 1

\* An edit is not undone by a pass that read the old row: next_run_at is an
\* instant of the cron_expr and the timezone of the row, unless an edit
\* overlapped another writer and tore the row, or a write was blind
\* (update_schedule, update_after_fire).
NextIsOfTheCron == sched.next # 0 /\ ~blind /\ ~torn => Hits(sched.cron, sched.next)

\* Every run is created for an instant of a cron the schedule had, in its
\* time zone (plan_missed_fires).
FiredInstantsAreScheduled ==
  \A t \in Times : fired[t] > 0 => \E c \in Crons : Hits(c, t)
==============================================================================
