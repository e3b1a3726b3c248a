----------------------------- MODULE RunRequests -----------------------------
(***************************************************************************)
(* Requests that create and cancel runs, as transactions on the rows of    *)
(* the table run: webhooks, whose dedup key the partial unique index       *)
(* idx_run_active_dedup guards, retries, and batches that cancel several   *)
(* runs and keep every row locked until the request ends.  The worker's    *)
(* transactions move the rows as well.  A transaction sees what is         *)
(* committed; PostgreSQL makes writers of one row, or of one key, wait and *)
(* breaks a cycle of them.                                                 *)
(***************************************************************************)
EXTENDS Naturals, Sequences, FiniteSets

CONSTANTS
  Clients,  \* requests in progress at the same time
  MaxRows   \* rows of the table

ASSUME RequestsAssumption ==
  MaxRows \in Nat /\ IsFiniteSet(Clients) /\ "nobody" \notin Clients

VARIABLES
  runs,    \* the rows, as committed: [st, key]
  held,    \* what an open transaction has done to the row: [by, to]
  client,  \* the requests
  cancels  \* batches without an error that report the run cancelled (history)

reqVars == <<runs, held, client, cancels>>

Ids == 1 .. MaxRows
Worker == <<>>
Nobody == <<"nobody">>
\* "running" stands for preparing as well.
Active == {"queued", "running", "collecting"}
Ended == {"done", "cancelled"}
NoRow == [st |-> "free", key |-> FALSE]
Unheld == [by |-> Nobody, to |-> "free"]
IdleClient == [pc |-> "idle", key |-> FALSE, ids |-> <<>>, done |-> {},
               broken |-> FALSE]

RequestsTypeOK ==
  /\ \A i \in Ids : /\ runs[i].st \in Active \union Ended \union {"free"}
                    /\ runs[i].key \in BOOLEAN
                    /\ held[i].by \in {<<c>> : c \in Clients} \union {Worker, Nobody}
                    /\ held[i].to \in Active \union Ended \union {"free"}
                    /\ cancels[i] \subseteq Clients
  /\ \A c \in Clients :
       /\ client[c].pc \in {"idle", "look", "insert", "commit", "read", "cancel", "end"}
       /\ client[c].done \subseteq Ids

RequestsInit ==
  /\ runs = [i \in Ids |-> NoRow]
  /\ held = [i \in Ids |-> Unheld]
  /\ client = [c \in Clients |-> IdleClient]
  /\ cancels = [i \in Ids |-> {}]

-----------------------------------------------------------------------------
\* What c sees of the row: what is committed, or what it has written itself.
Status(c, i) == IF held[i].by = <<c>> THEN held[i].to ELSE runs[i].st

\* The row an INSERT gets: the first that nobody has, if there is one.
Free == {i \in Ids : /\ runs[i].st = "free" /\ held[i] = Unheld
                     /\ \A j \in 1 .. i - 1 : runs[j].st # "free" \/ held[j] # Unheld}

\* Mutant of Indexed: the index forgets a status of ACTIVE_STATUSES.
IndexedShort == Active \ {"running"}

\* The statuses of the partial index.
Indexed == Active

\* Rows with the key that the index finds: committed, or not yet.
Rivals == {i \in Ids : runs[i].key /\ (runs[i].st \in Indexed \/ held[i].to \in Indexed)}

\* The transaction of c ends: its rows count from now on, or never were.
CommitRows(c) ==
  /\ runs' = [i \in Ids |-> IF held[i].by = <<c>> THEN [runs[i] EXCEPT !.st = held[i].to]
                            ELSE runs[i]]
  /\ held' = [i \in Ids |-> IF held[i].by = <<c>> THEN Unheld ELSE held[i]]

RollbackRows(c) ==
  /\ runs' = [i \in Ids |-> IF held[i].by = <<c>> /\ runs[i].st = "free" THEN NoRow
                            ELSE runs[i]]
  /\ held' = [i \in Ids |-> IF held[i].by = <<c>> THEN Unheld ELSE held[i]]

Reply(c) == client' = [client EXCEPT ![c] = IdleClient]

-----------------------------------------------------------------------------
(***************************************************************************)
(* Webhooks and retries                                                    *)
(***************************************************************************)

\* Without a commit the delivery has no key, and no look at other runs.
StartHook(c, key) ==
  /\ client[c].pc = "idle"
  /\ client' = [client EXCEPT ![c] =
       [IdleClient EXCEPT !.key = key, !.pc = IF key THEN "look" ELSE "insert"]]
  /\ UNCHANGED <<runs, held, cancels>>

\* The route of the project, and that of GitHub, whose deliveries all name
\* a commit.
WebhookTrigger(c) == \E key \in BOOLEAN : StartHook(c, key)
ProviderTrigger(c) == StartHook(c, TRUE)

\* get_active_by_dedup
LookForActive(c) ==
  /\ client[c].pc = "look"
  /\ IF \E i \in Ids : runs[i].key /\ runs[i].st \in Active
     THEN Reply(c)
     ELSE client' = [client EXCEPT ![c].pc = "insert"]
  /\ UNCHANGED <<runs, held, cancels>>

\* The INSERT of a key waits for every open transaction on a row the index
\* finds, then inserts or is told "duplicate".
InsertRun(c) ==
  /\ client[c].pc = "insert"
  /\ LET rivals == IF client[c].key THEN Rivals ELSE {} IN
     /\ \A i \in rivals : held[i] = Unheld
     /\ IF rivals # {} THEN Reply(c) /\ UNCHANGED <<runs, held>>
        ELSE \E i \in Free :
               /\ runs' = [runs EXCEPT ![i].key = client[c].key]
               /\ held' = [held EXCEPT ![i] = [by |-> <<c>>, to |-> "queued"]]
               /\ client' = [client EXCEPT ![c].pc = "commit"]
  /\ UNCHANGED cancels

CommitRun(c) ==
  /\ client[c].pc = "commit"
  /\ \/ CommitRows(c) /\ Reply(c)
     \/ RollbackRows(c) /\ Reply(c)
  /\ UNCHANGED cancels

\* Each new run is committed before it is enqueued; the dedup key is not taken
\* over.
RetryRun(i) ==
  /\ runs[i].st \in Ended
  /\ \E j \in Free :
       runs' = [runs EXCEPT ![j] = [st |-> "queued", key |-> FALSE]]
  /\ UNCHANGED <<held, client, cancels>>

\* A retry of the failed tests of one run, or of each run of a batch.
RetryFailed(i) == RetryRun(i)
BatchRetry(i) == RetryRun(i)

-----------------------------------------------------------------------------
(***************************************************************************)
(* Batches                                                                 *)
(***************************************************************************)

\* Up to two different runs, in the order of the request.
StartBatch(c) ==
  /\ client[c].pc = "idle"
  /\ \E i, j \in Ids :
       /\ runs[i].st # "free" /\ runs[j].st # "free"
       /\ client' = [client EXCEPT ![c] =
            [IdleClient EXCEPT !.pc = "read", !.ids = IF i = j THEN <<i>> ELSE <<i, j>>]]
  /\ UNCHANGED <<runs, held, cancels>>

\* Runs that are over already are sorted out before any row is locked.
ReadBatch(c) ==
  /\ client[c].pc = "read"
  /\ LET ids == client[c].ids
         at(k) == IF k <= Len(ids) /\ runs[ids[k]].st \in Active THEN <<ids[k]>> ELSE <<>>
         alive == at(1) \o at(2)
     IN
     client' = [client EXCEPT ![c].ids = alive,
                              ![c].pc = IF alive = <<>> THEN "end" ELSE "cancel"]
  /\ UNCHANGED <<runs, held, cancels>>

NextOfBatch(c) == Head(client[c].ids)
AfterRow(c, ok, broken) ==
  client' = [client EXCEPT
    ![c].ids = Tail(@), ![c].broken = @ \/ broken,
    ![c].done = IF ok THEN @ \union {NextOfBatch(c)} ELSE @,
    ![c].pc = IF Len(client[c].ids) = 1 THEN "end" ELSE "cancel"]

\* Mutant of MayCancel: the UPDATE is not conditional on the status.
MayCancelAny(c, i) == TRUE

\* The WHERE of cancel_if_current, on the row as it is when the lock is had.
MayCancel(c, i) == Status(c, i) \in Active

\* The UPDATE waits for the lock.  The cancel signal and the status event go
\* out before the transaction ends.
CancelRow(c) ==
  LET i == NextOfBatch(c) IN
  /\ client[c].pc = "cancel" /\ ~client[c].broken /\ held[i] = Unheld
  /\ IF MayCancel(c, i)
     THEN /\ held' = [held EXCEPT ![i] = [by |-> <<c>>, to |-> "cancelled"]]
          /\ AfterRow(c, TRUE, FALSE)
     ELSE AfterRow(c, FALSE, FALSE) /\ UNCHANGED held
  /\ UNCHANGED <<runs, cancels>>

Waits(c, d) ==
  /\ client[c].pc = "cancel" /\ ~client[c].broken
  /\ held[NextOfBatch(c)].by = <<d>>

\* PostgreSQL breaks a cycle with an error, which the loop catches; what the
\* transaction has done is lost and every statement after it fails too.
BreakDeadlock(c) ==
  /\ \E d \in Clients \ {c} : Waits(c, d) /\ Waits(d, c)
  /\ RollbackRows(c)
  /\ AfterRow(c, FALSE, TRUE)
  /\ UNCHANGED cancels

FailRow(c) ==
  /\ client[c].pc = "cancel" /\ client[c].broken
  /\ AfterRow(c, FALSE, TRUE)
  /\ UNCHANGED <<runs, held, cancels>>

\* Redis does not answer, which the loop does not catch, or the COMMIT fails.
AbortBatch(c) ==
  /\ client[c].pc \in {"cancel", "end"}
  /\ RollbackRows(c)
  /\ Reply(c)
  /\ UNCHANGED cancels

\* The answer counts what the loop has done; the COMMIT of a broken
\* transaction is a rollback.
EndBatch(c) ==
  /\ client[c].pc = "end"
  /\ IF client[c].broken THEN RollbackRows(c) ELSE CommitRows(c)
  /\ cancels' = [i \in Ids |-> IF i \in client[c].done /\ ~client[c].broken
                               THEN cancels[i] \union {c} ELSE cancels[i]]
  /\ Reply(c)

-----------------------------------------------------------------------------
(***************************************************************************)
(* The worker                                                              *)
(***************************************************************************)

NextStatus == [queued |-> "running", running |-> "collecting"]

\* The stages commit at once.
Advance(i) ==
  /\ runs[i].st \in Active \ {"collecting"} /\ held[i] = Unheld
  /\ runs' = [runs EXCEPT ![i].st = NextStatus[@]]
  /\ UNCHANGED <<held, client, cancels>>

\* The verdict stays uncommitted while the run is finalized.
WriteVerdict(i) ==
  /\ runs[i].st = "collecting" /\ held[i] = Unheld
  /\ held' = [held EXCEPT ![i] = [by |-> Worker, to |-> "done"]]
  /\ UNCHANGED <<runs, client, cancels>>

EndVerdict(i) ==
  /\ held[i].by = Worker
  /\ \/ runs' = [runs EXCEPT ![i].st = "done"]
     \/ UNCHANGED runs
  /\ held' = [held EXCEPT ![i] = Unheld]
  /\ UNCHANGED <<client, cancels>>

RequestsNext ==
  \/ \E c \in Clients :
       \/ WebhookTrigger(c) \/ ProviderTrigger(c) \/ LookForActive(c) \/ InsertRun(c) \/ CommitRun(c)
       \/ StartBatch(c) \/ ReadBatch(c) \/ CancelRow(c) \/ BreakDeadlock(c)
       \/ FailRow(c) \/ AbortBatch(c) \/ EndBatch(c)
  \/ \E i \in Ids : RetryFailed(i) \/ BatchRetry(i) \/ Advance(i) \/ WriteVerdict(i) \/ EndVerdict(i)

RequestsSpec == RequestsInit /\ [][RequestsNext]_reqVars
-----------------------------------------------------------------------------
\* Two deliveries of one commit never leave two runs of it under way, however
\* look, INSERT, retries, cancels and verdicts interleave (_create_webhook_run,
\* idx_run_active_dedup).
OneActivePerKey ==
  \A i, j \in Ids :
    /\ runs[i].key /\ runs[i].st \in Active
    /\ runs[j].key /\ runs[j].st \in Active
    => i = j

\* A run that batches without an error report as cancelled is reported by one
\* of them, and has no other verdict, although each decides on a status it read
\* before it had the lock (batch_cancel_run_command, cancel_if_current).
CancelledOnce ==
  \A i \in Ids : /\ Cardinality(cancels[i]) <= 1
                 /\ cancels[i] # {} => runs[i].st = "cancelled"
==============================================================================
