-------------------------- MODULE FairQueue_proofs --------------------------
(***************************************************************************)
(* The quotas of the fair scheduler hold for any number of runs, projects  *)
(* and slots, with every fault; and a slot is kept by a run that nobody    *)
(* works for in two known cases only.                                      *)
(*                                                                         *)
(* The argument: a slot belongs to a run from the moment its session sends *)
(* the job, whether or not the mark is committed.  Only the holder of the  *)
(* advisory lock sends jobs, and what it counts before it sends is all     *)
(* that belongs to somebody, since the marks of others are committed.      *)
(***************************************************************************)
EXTENDS FairQueue, FiniteSetTheorems, TLAPS

\* The runs that the open sessions have sent and marked, or will mark.
Pending == {r \in Runs : req[r] \in {"sent", "marked"} \/ r \in cron.marks}

\* The runs whose enqueueing was recorded, or is about to be.
Slots ==
  {r \in Runs : run[r].enqueued /\ run[r].status \in {"queued", "active"}}
    \union Pending

Fits(S) ==
  /\ Cardinality(S) <= MaxTotal
  /\ \A r \in Runs : Cardinality({q \in S : Project[q] = Project[r]}) <= MaxPerProject

\* A session that decides about quotas holds the advisory lock.
Exclusive ==
  /\ \A r \in Runs :
       req[r] \in {"deciding", "sent", "marked", "refused"} => lock = r
  /\ cron.pc # "idle" => lock = Cron

\* The cron has marked only rows that it has read and locked.
CronReads ==
  /\ cron.pc = "idle" => cron.marks = {}
  /\ cron.todo \subseteq cron.rows
  /\ cron.marks \subseteq cron.rows
  /\ \A r \in cron.rows : run[r].status # "absent"

\* A row is there from its commit on, is created without a mark, and is
\* executed only when it is there.
RowsAppear ==
  \A r \in Runs :
    /\ run[r].status = "absent" => ~run[r].enqueued
    /\ req[r] = "idle" \/ (r \in Early /\ req[r] # "done") =>
         run[r].status = "absent"
    /\ r \notin Early /\ req[r] # "idle" => run[r].status # "absent"
    /\ arq[r] = "running" => run[r].status # "absent"

QueueInv == TypeOK /\ Exclusive /\ CronReads /\ RowsAppear /\ Fits(Slots)

-----------------------------------------------------------------------------
(***************************************************************************)
(* Counting                                                                *)
(***************************************************************************)

\* Whatever is counted among the runs is finite.
LEMMA Countable ==
  ASSUME NEW S \in SUBSET Runs
  PROVE  IsFiniteSet(S) /\ Cardinality(S) \in Nat
BY QuotaAssumption, FS_Subset, FS_CardinalityType

\* Slots that are given back do no harm.
LEMMA FewerFit ==
  ASSUME NEW S \in SUBSET Runs, NEW T \in SUBSET S, Fits(S)
  PROVE  Fits(T)
<1>1. Cardinality(T) <= Cardinality(S)
  BY Countable, FS_Subset
<1>2. ASSUME NEW r \in Runs
      PROVE  Cardinality({q \in T : Project[q] = Project[r]}) <=
               Cardinality({q \in S : Project[q] = Project[r]})
  <2> DEFINE Sr == {q \in S : Project[q] = Project[r]}
             Tr == {q \in T : Project[q] = Project[r]}
  <2>1. Tr \in SUBSET Sr /\ Sr \in SUBSET Runs
    OBVIOUS
  <2> HIDE DEF Sr, Tr
  <2>2. Cardinality(Tr) <= Cardinality(Sr)
    BY <2>1, Countable, FS_Subset
  <2> QED
    BY <2>2 DEF Sr, Tr
<1>3. Cardinality(T) <= MaxTotal
  BY <1>1, QuotaAssumption, Countable DEF Fits
<1>4. ASSUME NEW r \in Runs
      PROVE  Cardinality({q \in T : Project[q] = Project[r]}) <= MaxPerProject
  <2>1. /\ Cardinality({q \in T : Project[q] = Project[r]}) \in Nat
        /\ Cardinality({q \in S : Project[q] = Project[r]}) \in Nat
    BY Countable
  <2> QED
    BY <1>2, <2>1, QuotaAssumption DEF Fits
<1> QED
  BY <1>3, <1>4 DEF Fits

\* One more run than was counted makes one more.
LEMMA OneMore ==
  ASSUME NEW C \in SUBSET Runs, NEW r \in Runs, NEW T \in SUBSET (C \union {r}),
         NEW n \in Nat, ~(Cardinality(C) >= n)
  PROVE  Cardinality(T) <= n
<1>1. IsFiniteSet(C) /\ Cardinality(C) \in Nat /\ Cardinality(T) \in Nat
  BY Countable
<1>2. /\ IsFiniteSet(C \union {r})
      /\ Cardinality(C \union {r}) <= Cardinality(C) + 1
  <2>1. /\ IsFiniteSet(C \union {r})
        /\ Cardinality(C \union {r}) =
             IF r \in C THEN Cardinality(C) ELSE Cardinality(C) + 1
    BY <1>1, FS_AddElement, Zenon
  <2> QED
    BY <1>1, <2>1
<1>3. Cardinality(T) <= Cardinality(C \union {r})
  BY <1>2, FS_Subset
<1>4. Cardinality(C \union {r}) \in Nat
  BY Countable
<1> QED
  BY <1>1, <1>2, <1>3, <1>4

\* A session that counts all slots that are not its own, and its own marks,
\* may give a slot to a run that passes the two checks.
LEMMA OneMoreFits ==
  ASSUME NEW mine \in SUBSET Runs, NEW S \in SUBSET (Occupied \union mine), Fits(S),
         NEW r \in Runs, ~TotalFull(mine), ~ProjectFull(r, mine),
         NEW T \in SUBSET (S \union {r})
  PROVE  Fits(T)
<1> DEFINE C == Occupied \union mine
<1>1. C \in SUBSET Runs /\ T \in SUBSET (C \union {r})
  BY DEF Occupied
<1>2. Cardinality(T) <= MaxTotal
  BY <1>1, OneMore, QuotaAssumption DEF TotalFull
<1>3. ASSUME NEW s \in Runs
      PROVE  Cardinality({q \in T : Project[q] = Project[s]}) <= MaxPerProject
  <2> DEFINE Cs == {q \in C : Project[q] = Project[r]}
             Ts == {q \in T : Project[q] = Project[s]}
             Ss == {q \in S : Project[q] = Project[s]}
  <2>1. CASE Project[s] = Project[r]
    <3>1. Cs \in SUBSET Runs /\ Ts \in SUBSET (Cs \union {r})
      BY <1>1, <2>1
    <3>2. ~(Cardinality(Cs) >= MaxPerProject)
      BY DEF ProjectFull
    <3> QED
      BY <3>1, <3>2, OneMore, QuotaAssumption
  <2>2. CASE Project[s] # Project[r]
    <3>1. Ts \in SUBSET Ss /\ Ss \in SUBSET Runs
      BY <1>1, <2>2
    <3>2. Cardinality(Ss) <= MaxPerProject
      BY DEF Fits
    <3> HIDE DEF Ts, Ss
    <3>3. /\ Cardinality(Ts) <= Cardinality(Ss)
          /\ Cardinality(Ts) \in Nat /\ Cardinality(Ss) \in Nat
      BY <3>1, Countable, FS_Subset
    <3>4. Cardinality(Ts) <= MaxPerProject
      BY <3>2, <3>3, QuotaAssumption
    <3> QED
      BY <3>4 DEF Ts
  <2> QED
    BY <2>1, <2>2
<1> QED
  BY <1>2, <1>3 DEF Fits

-----------------------------------------------------------------------------
(***************************************************************************)
(* The steps                                                               *)
(***************************************************************************)

Rows == [Runs -> [status : {"absent", "queued", "active", "ended"},
                  enqueued : BOOLEAN]]

\* An update of the status of a row leaves its mark alone, and other rows.
LEMMA StatusIsSet ==
  ASSUME TypeOK, NEW r \in Runs, NEW x \in {"queued", "active", "ended"},
         SetStatus(r, x)
  PROVE  /\ run' \in Rows
         /\ run'[r].status = x
         /\ \A q \in Runs : q # r => run'[q].status = run[q].status
         /\ \A q \in Runs : run'[q].enqueued = run[q].enqueued
BY DEF TypeOK, SetStatus, Rows

\* The progress of one request changes.
LEMMA RequestGoesTo ==
  ASSUME TypeOK, NEW r \in Runs,
         NEW pc \in {"created", "deciding", "sent", "marked", "refused", "done"},
         Goto(r, pc)
  PROVE  /\ req' \in [Runs -> {"idle", "created", "deciding", "sent", "marked",
                               "refused", "done"}]
         /\ req'[r] = pc
         /\ \A q \in Runs : q # r => req'[q] = req[q]
BY DEF TypeOK, Goto

\* The job of one run changes.
LEMMA JobIsSet ==
  ASSUME TypeOK, NEW r \in Runs, NEW a \in Jobs,
         SetArq(r, a)
  PROVE  /\ arq' \in [Runs -> Jobs]
         /\ arq'[r] = a
         /\ \A q \in Runs : q # r => arq'[q] = arq[q]
BY DEF TypeOK, SetArq

\* The commit of a request marks its own row at most.
LEMMA RequestCommits ==
  ASSUME TypeOK, NEW r \in Runs, CommitRequest(r)
  PROVE  /\ run' \in Rows
         /\ run'[r].status = IF r \in Early THEN "queued" ELSE run[r].status
         /\ run'[r].enqueued <=> run[r].enqueued \/ req[r] = "marked"
         /\ \A q \in Runs : q # r => run'[q] = run[q]
<1> DEFINE e == run[r].enqueued \/ req[r] = "marked"
           t == IF r \in Early THEN "queued" ELSE run[r].status
<1>1. run' = [run EXCEPT ![r] = [run[r] EXCEPT !.status = t, !.enqueued = e]]
  BY DEF CommitRequest, TypeOK
<1>0. run[r] \in [status : {"absent", "queued", "active", "ended"},
                  enqueued : BOOLEAN]
  BY DEF TypeOK
<1>2. e \in BOOLEAN /\ t \in {"absent", "queued", "active", "ended"}
  BY DEF TypeOK
<1> HIDE DEF e, t
<1>3. [run[r] EXCEPT !.status = t, !.enqueued = e] \in
        [status : {"absent", "queued", "active", "ended"}, enqueued : BOOLEAN]
  BY <1>0, <1>2
<1>4. /\ run' \in Rows
      /\ run'[r].status = t
      /\ run'[r].enqueued = e
      /\ \A q \in Runs : q # r => run'[q] = run[q]
  BY <1>1, <1>2, <1>3 DEF TypeOK, Rows
<1> QED
  BY <1>4 DEF e, t

\* The cron goes on with the rows that are left.
LEMMA CronSends ==
  ASSUME TypeOK, NEW r \in Runs, CronSend(r)
  PROVE  /\ cron' \in [pc : {"idle", "listing", "dequeuing", "closing"},
                       rows : SUBSET Runs, todo : SUBSET Runs, marks : SUBSET Runs]
         /\ cron.pc = "dequeuing" /\ cron'.pc = cron.pc
         /\ cron'.rows = cron.rows
         /\ r \in cron.todo /\ cron'.todo \subseteq cron.todo
         /\ cron'.marks \subseteq cron.marks \union {r}
         /\ arq' \in [Runs -> Jobs]
<1>1. cron' \in {[cron EXCEPT !.todo = @ \ {r}],
                [cron EXCEPT !.todo = @ \ {r}, !.marks = @ \union {r}]}
  BY DEF CronSend
<1>2. arq' \in [Runs -> Jobs]
  BY DEF CronSend, SetArq, TypeOK, Jobs
<1>3. cron.pc = "dequeuing" /\ r \in cron.todo
  BY DEF CronSend, Head
<1>4. CASE cron' = [cron EXCEPT !.todo = @ \ {r}]
  BY <1>2, <1>3, <1>4 DEF TypeOK
<1>5. CASE cron' = [cron EXCEPT !.todo = @ \ {r}, !.marks = @ \union {r}]
  BY <1>2, <1>3, <1>5 DEF TypeOK
<1> QED
  BY <1>1, <1>4, <1>5

\* Nothing but a session that is deciding makes slots: whatever else holds
\* a slot after a step has held it before.
SlotsKept == Slots' \subseteq Slots

LEMMA QueueInit == Init => QueueInv
<1> SUFFICES ASSUME Init PROVE QueueInv
  OBVIOUS
<1>1. TypeOK /\ Exclusive /\ CronReads /\ RowsAppear
  BY DEF Init, TypeOK, Jobs, Exclusive, CronReads, RowsAppear, Asleep
<1>2. Slots = {}
  BY DEF Init, Slots, Pending, Asleep
<1>3. Fits({})
  <2>1. \A r \in Runs : {q \in {} : Project[q] = Project[r]} = {}
    OBVIOUS
  <2> QED
    BY <2>1, FS_EmptySet, QuotaAssumption DEF Fits
<1> QED
  BY <1>1, <1>2, <1>3 DEF QueueInv

LEMMA SlotsAreRuns == Slots \subseteq Runs
BY DEF Slots, Pending

\* The steps that keep slots keep the quotas.
LEMMA KeptFits ==
  ASSUME QueueInv, Slots' \subseteq Slots
  PROVE  Fits(Slots)'
<1>1. Slots \in SUBSET Runs /\ Slots' \in SUBSET Slots
  BY SlotsAreRuns
<1>2. Fits(Slots')
  BY <1>1, FewerFit DEF QueueInv
<1> QED
  BY <1>2 DEF Fits

\* A step of the request of a run.
LEMMA RequestInv ==
  ASSUME QueueInv, NEW r \in Runs, Create(r) \/ RequestStep(r)
  PROVE  QueueInv'
<1> USE DEF QueueInv, Goto, SetStatus, SetArq
<1>1. TypeOK'
  <2>1. CASE Create(r)
    <3>1. /\ run' \in Rows /\ Goto(r, "created")
      BY <2>1, StatusIsSet DEF TypeOK, Create, Rows
    <3> QED
      BY <2>1, <3>1, RequestGoesTo DEF TypeOK, Create, Rows
  <2>2. CASE TakeLock(r) \/ Refuse(r) \/ Mark(r) \/ AbortRequest(r)
    BY <2>2 DEF TypeOK, TakeLock, Refuse, Mark, AbortRequest
  <2>3. CASE Send(r)
    BY <2>3 DEF TypeOK, Jobs, Send
  <2>4. CASE CommitRequest(r)
    BY <2>4, RequestCommits DEF TypeOK, CommitRequest, Rows
  <2> QED
    BY <2>1, <2>2, <2>3, <2>4 DEF RequestStep
<1>2. Exclusive'
  <2>1. CASE Create(r)
    BY <2>1, SessionsAssumption DEF TypeOK, Exclusive, Create
  <2>2. CASE TakeLock(r)
    BY <2>2, SessionsAssumption DEF TypeOK, Exclusive, TakeLock, Cron, Nobody
  <2>3. CASE Refuse(r) \/ Mark(r)
    BY <2>3, SessionsAssumption DEF TypeOK, Exclusive, Refuse, Mark
  <2>4. CASE Send(r)
    BY <2>4, SessionsAssumption DEF TypeOK, Exclusive, Send
  <2>5. CASE CommitRequest(r) \/ AbortRequest(r)
    BY <2>5, SessionsAssumption DEF TypeOK, Exclusive, CommitRequest, AbortRequest
  <2> QED
    BY <2>1, <2>2, <2>3, <2>4, <2>5 DEF RequestStep
<1>3. CronReads'
  <2>1. UNCHANGED cron
    BY DEF RequestStep, Create, TakeLock, Refuse, Send, Mark, CommitRequest,
           AbortRequest
  <2>2. \A q \in Runs : run'[q].status = "absent" => run[q].status = "absent"
    BY DEF TypeOK, RequestStep, Create, TakeLock, Refuse, Send, Mark, SetStatus,
           CommitRequest, AbortRequest
  <2> QED
    BY <2>1, <2>2 DEF TypeOK, CronReads
<1>4. RowsAppear'
  BY DEF TypeOK, RowsAppear, RequestStep, Create, TakeLock, Refuse, Send, Mark,
         CommitRequest, AbortRequest
<1>5. Fits(Slots)'
  <2>1. CASE Create(r)
    <3>1. SlotsKept
      BY <2>1 DEF TypeOK, RowsAppear, Create, SlotsKept, Slots, Pending
    <3> QED
      BY <3>1, KeptFits DEF SlotsKept
  <2>2. CASE TakeLock(r) \/ Refuse(r) \/ Mark(r)
    <3>1. SlotsKept
      BY <2>2 DEF TypeOK, TakeLock, Refuse, Mark, SlotsKept, Slots, Pending
    <3> QED
      BY <3>1, KeptFits DEF SlotsKept
  <2>3. CASE Send(r)
    <3>1. Slots \subseteq Occupied \union {}
      BY <2>3, SessionsAssumption
         DEF TypeOK, Exclusive, CronReads, Send, Slots, Pending, Occupied, Holds
    <3>2. Slots' \subseteq Slots \union {r}
      BY <2>3 DEF TypeOK, Send, Slots, Pending
    <3>3. Fits(Slots')
      BY <2>3, <3>1, <3>2, OneMoreFits DEF Send
    <3> QED
      BY <3>3 DEF Fits
  <2>4. CASE CommitRequest(r)
    <3>1. SlotsKept
      BY <2>4 DEF TypeOK, RowsAppear, CommitRequest, SlotsKept, Slots, Pending
    <3> QED
      BY <3>1, KeptFits DEF SlotsKept
  <2>5. CASE AbortRequest(r)
    <3>1. SlotsKept
      BY <2>5 DEF TypeOK, AbortRequest, SlotsKept, Slots, Pending
    <3> QED
      BY <3>1, KeptFits DEF SlotsKept
  <2> QED
    BY <2>1, <2>2, <2>3, <2>4, <2>5 DEF RequestStep
<1> QED
  BY <1>1, <1>2, <1>3, <1>4, <1>5

\* A step of the dequeue cron.
LEMMA CronInv ==
  ASSUME QueueInv, CronStep
  PROVE  QueueInv'
<1> USE DEF QueueInv, SetArq
<1>1. TypeOK'
  <2>1. CASE CronLock
    BY <2>1 DEF TypeOK, CronLock
  <2>2. CASE CronList
    BY <2>2 DEF TypeOK, CronList, FirstWaiting, Waiting
  <2>3. CASE CronBreak
    BY <2>3 DEF TypeOK, CronBreak
  <2>4. CASE CronCommit
    BY <2>4 DEF TypeOK, CronCommit, Asleep
  <2>5. CASE CronAbort
    BY <2>5 DEF TypeOK, CronAbort, Asleep
  <2>6. ASSUME NEW r \in Runs, CronSkip(r) PROVE TypeOK'
    BY <2>6 DEF TypeOK, CronSkip
  <2>7. ASSUME NEW r \in Runs, CronSend(r) PROVE TypeOK'
    BY <2>7, CronSends DEF TypeOK, CronSend
  <2> QED
    BY <2>1, <2>2, <2>3, <2>4, <2>5, <2>6, <2>7 DEF CronStep
<1>2. Exclusive'
  <2>1. CASE CronLock
    BY <2>1, SessionsAssumption DEF TypeOK, Exclusive, CronLock
  <2>2. CASE CronList
    BY <2>2, SessionsAssumption DEF TypeOK, Exclusive, CronList, FirstWaiting, Waiting
  <2>3. CASE CronBreak
    BY <2>3, SessionsAssumption DEF TypeOK, Exclusive, CronBreak
  <2>4. CASE CronCommit
    BY <2>4, SessionsAssumption DEF TypeOK, Exclusive, CronCommit, Asleep
  <2>5. CASE CronAbort
    BY <2>5, SessionsAssumption DEF TypeOK, Exclusive, CronAbort, Asleep
  <2>6. ASSUME NEW r \in Runs, CronSkip(r) PROVE Exclusive'
    BY <2>6, SessionsAssumption DEF TypeOK, Exclusive, CronSkip
  <2>7. ASSUME NEW r \in Runs, CronSend(r) PROVE Exclusive'
    BY <2>7, SessionsAssumption DEF TypeOK, Exclusive, CronSend, Head
  <2> QED
    BY <2>1, <2>2, <2>3, <2>4, <2>5, <2>6, <2>7 DEF CronStep
<1>3. CronReads'
  <2>1. CASE CronLock
    BY <2>1 DEF TypeOK, CronReads, CronLock
  <2>2. CASE CronList
    BY <2>2 DEF TypeOK, CronReads, CronList, FirstWaiting, Waiting
  <2>3. CASE CronBreak
    BY <2>3 DEF TypeOK, CronReads, CronBreak
  <2>4. CASE CronCommit
    BY <2>4 DEF TypeOK, CronReads, CronCommit, Asleep
  <2>5. CASE CronAbort
    BY <2>5 DEF TypeOK, CronReads, CronAbort, Asleep
  <2>6. ASSUME NEW r \in Runs, CronSkip(r) PROVE CronReads'
    BY <2>6 DEF TypeOK, CronReads, CronSkip
  <2>7. ASSUME NEW r \in Runs, CronSend(r) PROVE CronReads'
    <3>1. /\ UNCHANGED run
          /\ cron.pc = "dequeuing" /\ cron'.pc = cron.pc /\ r \in cron.todo
          /\ cron'.rows = cron.rows /\ cron'.todo \subseteq cron.todo
          /\ cron'.marks \subseteq cron.marks \union {r}
      BY <2>7, CronSends DEF CronSend
    <3> QED
      BY <3>1 DEF CronReads
  <2> QED
    BY <2>1, <2>2, <2>3, <2>4, <2>5, <2>6, <2>7 DEF CronStep
<1>4. RowsAppear'
  <2>1. CASE CronLock
    BY <2>1 DEF TypeOK, CronReads, RowsAppear, CronLock
  <2>2. CASE CronList
    BY <2>2 DEF TypeOK, CronReads, RowsAppear, CronList, FirstWaiting, Waiting
  <2>3. CASE CronBreak
    BY <2>3 DEF TypeOK, CronReads, RowsAppear, CronBreak
  <2>4. CASE CronCommit
    BY <2>4 DEF TypeOK, CronReads, RowsAppear, CronCommit, Asleep
  <2>5. CASE CronAbort
    BY <2>5 DEF TypeOK, CronReads, RowsAppear, CronAbort, Asleep
  <2>6. ASSUME NEW r \in Runs, CronSkip(r) PROVE RowsAppear'
    BY <2>6 DEF TypeOK, CronReads, RowsAppear, CronSkip
  <2>7. ASSUME NEW r \in Runs, CronSend(r) PROVE RowsAppear'
    BY <2>7 DEF TypeOK, CronReads, RowsAppear, CronSend, Head
  <2> QED
    BY <2>1, <2>2, <2>3, <2>4, <2>5, <2>6, <2>7 DEF CronStep
<1>5. Fits(Slots)'
  <2>1. CASE CronLock \/ CronList \/ CronBreak \/ \E r \in Runs : CronSkip(r)
    <3>1. SlotsKept
      BY <2>1 DEF TypeOK, CronLock, CronList, CronBreak, CronSkip, SlotsKept,
         Slots, Pending
    <3> QED
      BY <3>1, KeptFits DEF SlotsKept
  <2>2. ASSUME NEW r \in Runs, CronSend(r) PROVE Fits(Slots')
    <3>1. cron.marks \in SUBSET Runs /\ Slots \subseteq Occupied \union cron.marks
      BY <2>2, SessionsAssumption
         DEF TypeOK, Exclusive, CronSend, Slots, Pending, Occupied, Holds
    <3>2. Slots' \subseteq Slots \union {r}
      BY <2>2, CronSends DEF CronSend, Slots, Pending
    <3> QED
      BY <2>2, <3>1, <3>2, OneMoreFits DEF CronSend
  <2>3. CASE CronCommit
    <3>1. SlotsKept
      BY <2>3 DEF TypeOK, CronCommit, SlotsKept, Slots, Pending, Asleep
    <3> QED
      BY <3>1, KeptFits DEF SlotsKept
  <2>4. CASE CronAbort
    <3>1. SlotsKept
      BY <2>4 DEF TypeOK, CronAbort, SlotsKept, Slots, Pending, Asleep
    <3> QED
      BY <3>1, KeptFits DEF SlotsKept
  <2>5. Fits(Slots)' <=> Fits(Slots')
    BY DEF Fits
  <2> QED
    BY <2>1, <2>2, <2>3, <2>4, <2>5 DEF CronStep
<1> QED
  BY <1>1, <1>2, <1>3, <1>4, <1>5

\* A step of a worker, or of the request that cancels a queued run.
LEMMA WorkerInv ==
  ASSUME QueueInv, NEW r \in Runs,
         WorkerStep(r) \/ CrashTaken(r) \/ CancelQueued(r)
  PROVE  QueueInv'
<1> USE DEF QueueInv
<1>1. UNCHANGED <<req, lock, cron>>
  BY DEF WorkerStep, Claim, Finish, EndOfJob, CrashTaken, CancelQueued
<1>2. \/ UNCHANGED arq
      \/ arq[r] # "running" /\ \E a \in Jobs \ {"running"} : SetArq(r, a)
      \/ run[r].status = "queued" /\ SetStatus(r, "active") /\ SetArq(r, "running")
      \/ arq[r] = "running" /\ SetArq(r, "hook")
  BY DEF Jobs, WorkerStep, Claim, Finish, EndOfJob, CrashTaken, CancelQueued
<1>3. \/ UNCHANGED run
      \/ run[r].status = "queued" /\ SetStatus(r, "active")
      \/ run[r].status # "absent" /\ SetStatus(r, "ended")
  BY DEF RowsAppear, WorkerStep, Claim, Finish, EndOfJob, CrashTaken, CancelQueued
<1>4. /\ arq' \in [Runs -> Jobs]
      /\ \A q \in Runs : arq'[q] = "running" =>
           arq[q] = "running" \/ run'[q].status = "active"
  <2>1. CASE UNCHANGED arq
    BY <2>1 DEF TypeOK
  <2>2. ASSUME NEW a \in Jobs \ {"running"}, SetArq(r, a)
        PROVE  <1>4!:
    BY <2>2, JobIsSet
  <2>3. CASE SetStatus(r, "active") /\ SetArq(r, "running")
    BY <2>3, JobIsSet, StatusIsSet DEF Jobs
  <2> QED
    BY <1>2, <2>1, <2>2, <2>3 DEF Jobs
<1>5. /\ run' \in Rows
      /\ \A q \in Runs :
           /\ run'[q].enqueued = run[q].enqueued
           /\ run'[q].status = "absent" <=> run[q].status = "absent"
           /\ run'[q].status \in {"queued", "active"} =>
                run[q].status \in {"queued", "active"}
  <2>1. CASE UNCHANGED run
    BY <2>1 DEF TypeOK, Rows
  <2>2. CASE run[r].status = "queued" /\ SetStatus(r, "active")
    BY <2>2, StatusIsSet
  <2>3. CASE run[r].status # "absent" /\ SetStatus(r, "ended")
    BY <2>3, StatusIsSet
  <2> QED
    BY <1>3, <2>1, <2>2, <2>3
<1>6. TypeOK'
  BY <1>1, <1>4, <1>5 DEF TypeOK, Rows
<1>7. Exclusive'
  BY <1>1 DEF Exclusive
<1>8. CronReads'
  BY <1>1, <1>5 DEF TypeOK, CronReads
<1>9. RowsAppear'
  BY <1>1, <1>4, <1>5 DEF RowsAppear
<1>10. SlotsKept
  BY <1>1, <1>5 DEF SlotsKept, Slots, Pending
<1> QED
  BY <1>6, <1>7, <1>8, <1>9, <1>10, KeptFits DEF SlotsKept

LEMMA QueueNext == QueueInv /\ [Next]_vars => QueueInv'
<1> SUFFICES ASSUME QueueInv, [Next]_vars PROVE QueueInv'
  OBVIOUS
<1>1. CASE Next
  BY <1>1, RequestInv, CronInv, WorkerInv DEF Next
<1>2. CASE UNCHANGED vars
  BY <1>2 DEF vars, QueueInv, TypeOK, Exclusive, CronReads, RowsAppear, Fits,
              Slots, Pending
<1> QED
  BY <1>1, <1>2

LEMMA QueueInvariance == Spec => []QueueInv
BY QueueInit, QueueNext, PTL DEF Spec

-----------------------------------------------------------------------------
(***************************************************************************)
(* The job of a run follows its row: a claimed run has a running job, and  *)
(* a job whose hook has seen the row has left it ended.  The job of a run  *)
(* that is not enqueued early never comes before the row.                  *)
(***************************************************************************)

JobsFollow ==
  \A r \in Runs :
    /\ arq[r] = "running" <=> run[r].status = "active"
    /\ arq[r] = "done" => run[r].status = "ended"
    /\ req[r] = "idle" => arq[r] = "none"
    /\ arq[r] = "missed" => r \in Early
    /\ run[r].enqueued \/ r \in Pending => arq[r] # "none"

LEMMA JobsInit == Init => JobsFollow
BY DEF Init, JobsFollow, Pending, Asleep

\* A request creates the row before the job, and marks what it has sent.
LEMMA RequestJobs ==
  ASSUME QueueInv, JobsFollow, NEW r \in Runs,
         Create(r) \/ RequestStep(r)
  PROVE  JobsFollow'
<1> USE DEF QueueInv, TypeOK, JobsFollow, Pending
<1>1. CASE Create(r)
  <2>1. Goto(r, "created") /\ run[r].status = "absent" /\ arq[r] = "none"
    BY <1>1 DEF Create, RowsAppear
  <2>2. CASE UNCHANGED run
    BY <1>1, <2>1, <2>2, RequestGoesTo DEF Create
  <2>3. CASE SetStatus(r, "queued")
    BY <1>1, <2>1, <2>3, StatusIsSet, RequestGoesTo DEF Create, Rows
  <2> QED
    BY <1>1, <2>2, <2>3 DEF Create
<1>2. CASE TakeLock(r)
  BY <1>2 DEF TakeLock, Goto
<1>3. CASE Refuse(r)
  BY <1>3 DEF Refuse, Goto
<1>4. CASE Send(r)
  BY <1>4 DEF Send, Goto, SetArq
<1>5. CASE Mark(r)
  BY <1>5 DEF Mark, Goto
<1>6. CASE CommitRequest(r)
  <2>1. Goto(r, "done") /\ UNCHANGED <<arq, cron>> /\ req[r] # "idle"
    BY <1>6 DEF CommitRequest
  <2>2. /\ run'[r].status = IF r \in Early THEN "queued" ELSE run[r].status
        /\ run'[r].enqueued <=> run[r].enqueued \/ req[r] = "marked"
        /\ \A q \in Runs : q # r => run'[q] = run[q]
    BY <1>6, RequestCommits
  <2>3. r \in Early => run[r].status = "absent"
    BY <1>6 DEF CommitRequest, RowsAppear
  <2> QED
    BY <2>1, <2>2, <2>3, RequestGoesTo
<1>7. CASE AbortRequest(r)
  BY <1>7 DEF AbortRequest, Goto
<1> QED
  BY <1>1, <1>2, <1>3, <1>4, <1>5, <1>6, <1>7 DEF RequestStep

\* The cron marks what it has sent.
LEMMA CronJobs ==
  ASSUME QueueInv, JobsFollow, CronStep
  PROVE  JobsFollow'
<1> USE DEF QueueInv, JobsFollow, Pending
<1>1. CASE CronLock
  BY <1>1 DEF CronLock, TypeOK
<1>2. CASE CronList
  BY <1>2 DEF CronList, TypeOK
<1>3. CASE CronBreak
  BY <1>3 DEF CronBreak, TypeOK
<1>4. CASE CronCommit
  <2>1. \A r \in Runs : /\ run'[r].status = run[r].status
                        /\ run'[r].enqueued <=> run[r].enqueued \/ r \in cron.marks
    <3> SUFFICES ASSUME NEW r \in Runs
                 PROVE  /\ run'[r].status = run[r].status
                        /\ run'[r].enqueued <=> run[r].enqueued \/ r \in cron.marks
      OBVIOUS
    <3>1. run'[r] = [run[r] EXCEPT !.enqueued = @ \/ r \in cron.marks]
      BY <1>4 DEF CronCommit
    <3>2. run[r] \in [status : {"absent", "queued", "active", "ended"},
                      enqueued : BOOLEAN]
      BY DEF TypeOK
    <3> QED
      BY <3>1, <3>2
  <2>2. cron'.marks = {} /\ UNCHANGED <<req, arq>>
    BY <1>4 DEF CronCommit, Asleep
  <2> QED
    BY <2>1, <2>2
<1>5. CASE CronAbort
  BY <1>5 DEF CronAbort, Asleep, TypeOK
<1>6. ASSUME NEW r \in Runs, CronSkip(r) PROVE JobsFollow'
  BY <1>6 DEF CronSkip, TypeOK
<1>7. ASSUME NEW r \in Runs, CronSend(r) PROVE JobsFollow'
  <2>1. UNCHANGED <<run, req>> /\ run[r].status # "absent"
    BY <1>7 DEF CronSend, CronReads, Head
  <2>2. \/ UNCHANGED arq /\ cron'.marks = cron.marks
        \/ /\ arq[r] = "none" /\ SetArq(r, "queued")
           /\ cron'.marks \subseteq cron.marks \union {r}
    BY <1>7, CronSends DEF CronSend, TypeOK
  <2>3. CASE UNCHANGED arq /\ cron'.marks = cron.marks
    BY <2>1, <2>3
  <2>4. CASE /\ arq[r] = "none" /\ SetArq(r, "queued")
             /\ cron'.marks \subseteq cron.marks \union {r}
    <3>1. arq'[r] = "queued" /\ \A q \in Runs : q # r => arq'[q] = arq[q]
      BY <2>4, JobIsSet DEF Jobs
    <3> QED
      BY <2>1, <2>4, <3>1 DEF RowsAppear
  <2> QED
    BY <2>2, <2>3, <2>4
<1> QED
  BY <1>1, <1>2, <1>3, <1>4, <1>5, <1>6, <1>7 DEF CronStep

\* A worker claims a run with the job, and leaves it with its verdict.
LEMMA WorkerJobs ==
  ASSUME QueueInv, JobsFollow, NEW r \in Runs,
         WorkerStep(r) \/ CrashTaken(r) \/ CancelQueued(r)
  PROVE  JobsFollow'
<1> USE DEF QueueInv, JobsFollow, Pending, Jobs
<1>1. CASE Claim(r)
  <2>1. UNCHANGED <<req, cron>> /\ arq[r] = "queued"
    BY <1>1 DEF Claim
  <2>2. CASE /\ run[r].status = "queued"
             /\ SetStatus(r, "active") /\ SetArq(r, "running")
    BY <2>1, <2>2, StatusIsSet, JobIsSet
  <2>3. CASE run[r].status # "queued" /\ SetArq(r, "hook") /\ UNCHANGED run
    BY <2>1, <2>3, JobIsSet
  <2> QED
    BY <1>1, <2>2, <2>3 DEF Claim
<1>2. CASE Finish(r)
  BY <1>2, StatusIsSet, JobIsSet DEF Finish
<1>3. CASE EndOfJob(r)
  <2>1. UNCHANGED <<req, cron>> /\ arq[r] = "hook"
    BY <1>3 DEF EndOfJob
  <2>2. CASE run[r].status = "queued" /\ SetStatus(r, "ended") /\ SetArq(r, "done")
    BY <2>1, <2>2, StatusIsSet, JobIsSet
  <2>3. CASE run[r].status = "ended" /\ SetArq(r, "done") /\ UNCHANGED run
    BY <2>1, <2>3, JobIsSet
  <2>4. CASE run[r].status = "absent" /\ SetArq(r, "missed") /\ UNCHANGED run
    <3>1. r \in Early
      BY <2>1, <2>4 DEF RowsAppear
    <3> QED
      BY <2>1, <2>4, <3>1, JobIsSet
  <2> QED
    BY <1>3, <2>2, <2>3, <2>4 DEF EndOfJob
<1>4. CASE CancelQueued(r)
  BY <1>4, StatusIsSet DEF CancelQueued
<1>5. CASE CrashTaken(r)
  BY <1>5, JobIsSet DEF CrashTaken
<1> QED
  BY <1>1, <1>2, <1>3, <1>4, <1>5 DEF WorkerStep

-----------------------------------------------------------------------------
(***************************************************************************)
(* The theorems                                                            *)
(***************************************************************************)

\* The state of requests, rows, jobs, cron and lock is well typed.
THEOREM QueueTypeCorrect == Spec => []TypeOK
<1>1. QueueInv => TypeOK
  BY DEF QueueInv
<1> QED
  BY <1>1, QueueInvariance, PTL

\* Neither the total quota nor the quota of a project is ever exceeded by
\* recorded runs, whatever requests, cron passes and faults overlap.
THEOREM QuotasHold == Spec => []QuotaHeld
<1>1. QueueInv => QuotaHeld
  <2> SUFFICES ASSUME QueueInv PROVE QuotaHeld
    OBVIOUS
  <2>1. Counted \subseteq Slots
    BY DEF Counted, Unrecorded, Occupied, Holds, Slots, Pending
  <2>2. Fits(Counted)
    BY <2>1, SlotsAreRuns, FewerFit DEF QueueInv
  <2> QED
    BY <2>2 DEF Fits, QuotaHeld
<1> QED
  BY <1>1, QueueInvariance, PTL

\* A session that decides about quotas holds the advisory lock, and so two
\* of them never do at once.
THEOREM OneDecidesAtATime == Spec => []Exclusive
<1>1. QueueInv => Exclusive
  BY DEF QueueInv
<1> QED
  BY <1>1, QueueInvariance, PTL

\* A slot is kept by a run that nobody works for only if its worker died with
\* the job unclaimed, or if its job was over before its commit, which happens
\* to runs enqueued early; aborted requests and passes, a broken Redis and
\* lost answers do no harm, whatever the quotas.
THEOREM SlotsHold == Spec => []SlotsAreUsed
<1>1. Init => JobsFollow
  BY JobsInit
<1>2. QueueInv /\ JobsFollow /\ [Next]_vars => JobsFollow'
  <2> SUFFICES ASSUME QueueInv, JobsFollow, [Next]_vars PROVE JobsFollow'
    OBVIOUS
  <2>1. CASE Next
    BY <2>1, RequestJobs, CronJobs, WorkerJobs DEF Next
  <2>2. CASE UNCHANGED vars
    BY <2>2 DEF vars, JobsFollow, Pending
  <2> QED
    BY <2>1, <2>2
<1>3. QueueInv /\ JobsFollow => SlotsAreUsed
  BY DEF QueueInv, TypeOK, Jobs, JobsFollow, SlotsAreUsed, Occupied, Holds
<1> QED
  BY <1>1, <1>2, <1>3, QueueInvariance, PTL DEF Spec

=============================================================================
