------------------------------- MODULE RunTable ------------------------------
(***************************************************************************)
(* The run table as its writers see it: PostgreSQL rows under READ         *)
(* COMMITTED isolation.                                                    *)
(*                                                                         *)
(* Every writer is an UPDATE ... WHERE id = :id AND status IN (...) of the *)
(* run repository.  Such an update takes the row lock, evaluates its WHERE *)
(* on the latest committed version (or on its own session's draft), and    *)
(* keeps the lock until the session commits or rolls back.  A second       *)
(* session whose WHERE matches the committed row waits for the lock and    *)
(* evaluates its WHERE again.  An update whose WHERE does not match, and a *)
(* plain SELECT, never wait.                                               *)
(*                                                                         *)
(* The first half of the module is pure: which rows an update applies to   *)
(* and what it makes of them.  The second half is the transaction layer.   *)
(***************************************************************************)
EXTENDS RunStatus, Naturals

CONSTANTS
  Runs,     \* runs in the table
  Workers,  \* worker ids
  None      \* SQL NULL in a worker_id column

ASSUME NoneIsNoWorker == None \notin Workers

(***************************************************************************)
(* The columns of a run that its writers read or write.  "asked" says that *)
(* cancel_requested_at is set; "exec" is the stage whose container the     *)
(* execution_id names, 0 when it names none.                               *)
(***************************************************************************)
Row == [status : Status, worker : Workers \union {None},
        asked : BOOLEAN, exec : Nat]

QueuedRow == [status |-> "queued", worker |-> None,
              asked |-> FALSE, exec |-> 0]

\* claim_for_worker
Claimable(x)  == x.status = "queued"
Claim(x, w)   == [x EXCEPT !.status = "preparing", !.worker = w]

\* mark_running and mark_collecting
Runnable(x)      == x.status = "preparing"
MarkRunning(x)   == [x EXCEPT !.status = "running"]
Collectable(x)   == x.status = "running"
MarkCollecting(x) == [x EXCEPT !.status = "collecting"]

\* Mutants: finish_if_current without its expected statuses, fail_if_current
\* with those of finish_if_current, cancel_if_current for any other status.
FinishesAlways(x, expected) == TRUE
FailableLate(x)             == x.status \in Finishable
CancellableAgain(x)         == x.status # "cancelled"

\* finish_if_current, fail_if_current and cancel_if_current
Finishes(x, expected) == x.status \in expected
Finish(x, s)          == [x EXCEPT !.status = s]
Failable(x)           == x.status \in Active
Fail(x)               == [x EXCEPT !.status = "failed"]
Cancellable(x)        == x.status \in Active
Cancel(x)             == [x EXCEPT !.status = "cancelled", !.asked = TRUE]

\* Mutants: a lost run is recognised by its worker alone, or put back in the
\* queue instead of being failed.
IsLostByWorker(x, w) == x.worker = w
MarkLostRequeue(x)   == [x EXCEPT !.status = "queued", !.worker = None]

\* release_worker, mark_worker_lost and update_execution_id
Release(x, w) == IF x.worker = w THEN [x EXCEPT !.worker = None] ELSE x
IsLost(x, w)  == x.worker = w /\ x.status \in Active
MarkLost(x)   == [x EXCEPT !.status = "failed", !.worker = None]
SetExec(x, n) == [x EXCEPT !.exec = n]

-----------------------------------------------------------------------------
VARIABLES
  row,    \* the committed version of each run
  draft,  \* the version the lock holder sees; equal to row while unlocked
  lock    \* the session that holds the row lock

tableVars == <<row, draft, lock>>

\* The sessions that write a run: the request that cancels it, the job that
\* executes it, and the reclaim cron.  "free" is no session.
Sessions == {"api", "job", "reclaim"}

TableTypeOK ==
  /\ row \in [Runs -> Row]
  /\ draft \in [Runs -> Row]
  /\ lock \in [Runs -> Sessions \union {"free"}]

TableInit ==
  /\ row = [r \in Runs |-> QueuedRow]
  /\ draft = row
  /\ lock = [r \in Runs |-> "free"]

\* The version of run r that session s evaluates a WHERE on.
Seen(r, s) == IF lock[r] = s THEN draft[r] ELSE row[r]

\* Session s may update run r without waiting.
Writable(r, s) == lock[r] \in {"free", s}

\* An update that stays uncommitted: only the session itself sees it.
Write(r, s, x) ==
  /\ Writable(r, s)
  /\ draft' = [draft EXCEPT ![r] = x]
  /\ lock' = [lock EXCEPT ![r] = s]
  /\ UNCHANGED row

\* An update followed at once by the commit of its session.
Store(r, s, x) ==
  /\ Writable(r, s)
  /\ row' = [row EXCEPT ![r] = x]
  /\ draft' = [draft EXCEPT ![r] = x]
  /\ lock' = [lock EXCEPT ![r] = "free"]

HeldBy(s, S) == {r \in S : lock[r] = s}

\* Session s commits, or loses, everything it has written in the runs S.
Commit(s, S) ==
  /\ row' = [r \in Runs |-> IF r \in HeldBy(s, S) THEN draft[r] ELSE row[r]]
  /\ lock' = [r \in Runs |-> IF r \in HeldBy(s, S) THEN "free" ELSE lock[r]]
  /\ UNCHANGED draft

Rollback(s, S) ==
  /\ draft' = [r \in Runs |-> IF r \in HeldBy(s, S) THEN row[r] ELSE draft[r]]
  /\ lock' = [r \in Runs |-> IF r \in HeldBy(s, S) THEN "free" ELSE lock[r]]
  /\ UNCHANGED row

-----------------------------------------------------------------------------
\* What an open transaction holds is a verdict that may follow the committed
\* version, which is still active; the worker is detached or left.  So no
\* interleaving of sessions commits a verdict over another one.
OpenWritesAreLegal ==
  \A r \in Runs :
    IF lock[r] = "free"
      THEN draft[r] = row[r]
      ELSE /\ row[r].status \in Active
           /\ draft[r].status \in Successors(row[r].status) \intersect Terminal
           /\ draft[r].worker \in {row[r].worker, None}

\* cancel_requested_at is set exactly on cancelled runs: no other outcome
\* replaces a cancel that was committed, and none is committed beside it.
AskedIffCancelled ==
  \A r \in Runs : row[r].asked <=> row[r].status = "cancelled"
==============================================================================
