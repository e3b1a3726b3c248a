-------------------------- MODULE RunTable_proofs ---------------------------
(***************************************************************************)
(* What the transaction layer of RunTable guarantees, whoever its sessions *)
(* are: a legal write, a legal commit, any commit and any rollback keep    *)
(* the invariant of the table and advance every row along the lifecycle.   *)
(***************************************************************************)
EXTENDS RunTable, TLAPS

\* One committed version of a run may be followed by the other.
Follows(x, y) ==
  \/ x.status = "queued" /\ y.status = "preparing" /\ y.worker \in Workers
  \/ /\ y.status \in Successors(x.status) \ {"preparing"}
     /\ y.worker \in {x.worker, None}
  \/ y.status = x.status /\ y.worker \in {x.worker, None}

Coherent(x) == x.asked <=> x.status = "cancelled"

TableInv ==
  /\ TableTypeOK
  /\ OpenWritesAreLegal
  /\ AskedIffCancelled
  /\ \A r \in Runs : Coherent(draft[r])

RowsAdvance == \A r \in Runs : Follows(row[r], row'[r])

\* x may be committed, or held open, over row r.
MayStore(r, x) == x \in Row /\ Coherent(x) /\ Follows(row[r], x)

MayHold(r, x) ==
  /\ x \in Row /\ Coherent(x)
  /\ row[r].status \in Active
  /\ x.status \in Successors(row[r].status) \intersect Terminal
  /\ x.worker \in {row[r].worker, None}

\* The initial table satisfies the invariant.
LEMMA TableInitInv == TableInit => TableInv
BY DEF TableInit, TableInv, TableTypeOK, OpenWritesAreLegal, AskedIffCancelled,
       Coherent, QueuedRow, Row, Status, Active, InFlight, Terminal

\* A session that sees an active run sees the committed version: what is
\* held open is always a verdict.
LEMMA SeenActive ==
  ASSUME TableInv, NEW r \in Runs, NEW s \in Sessions, Seen(r, s).status \in Active
  PROVE  Seen(r, s) = row[r] /\ lock[r] # s
BY DEF TableInv, OpenWritesAreLegal, Seen, Active, InFlight, Terminal, Sessions

\* What a session sees of a run is the committed version, or a verdict.
LEMMA SeenContinues ==
  ASSUME TableInv, NEW r \in Runs, NEW s \in Sessions
  PROVE  /\ Seen(r, s) \in Row
         /\ Coherent(Seen(r, s))
         /\ Seen(r, s).worker \in {row[r].worker, None}
         /\ \/ Seen(r, s).status = row[r].status
            \/ Seen(r, s).status \in Successors(row[r].status) \ {"preparing"}
<1>1. row[r] \in Row /\ draft[r] \in Row
  BY DEF TableInv, TableTypeOK
<1>2. CASE lock[r] = s
  BY <1>1, <1>2 DEF TableInv, OpenWritesAreLegal, Sessions, Seen, Terminal
<1>3. CASE lock[r] # s
  BY <1>1, <1>3 DEF TableInv, AskedIffCancelled, Coherent, Seen
<1> QED
  BY <1>2, <1>3

\* Detaching the worker, or naming another container, is no step of the
\* status: a session may commit it on top of what it sees.
LEMMA Bookkeeping ==
  ASSUME TableInv, NEW r \in Runs, NEW s \in Sessions
  PROVE  /\ \A w \in Workers : MayStore(r, Release(Seen(r, s), w))
         /\ \A n \in Nat : MayStore(r, SetExec(Seen(r, s), n))
<1> DEFINE x == Seen(r, s)
<1>1. /\ x \in Row /\ Coherent(x) /\ x.worker \in {row[r].worker, None}
      /\ \/ x.status = row[r].status
         \/ x.status \in Successors(row[r].status) \ {"preparing"}
  BY SeenContinues
<1> HIDE DEF x
<1>2. ASSUME NEW w \in Workers PROVE MayStore(r, Release(x, w))
  <2>1. /\ Release(x, w) \in Row /\ Release(x, w).worker \in {x.worker, None}
        /\ Release(x, w).status = x.status /\ Release(x, w).asked = x.asked
    BY <1>1 DEF Release, Row
  <2> QED
    BY <1>1, <2>1 DEF MayStore, Coherent, Follows
<1>3. ASSUME NEW n \in Nat PROVE MayStore(r, SetExec(x, n))
  <2>1. /\ SetExec(x, n) \in Row /\ SetExec(x, n).worker = x.worker
        /\ SetExec(x, n).status = x.status /\ SetExec(x, n).asked = x.asked
    BY <1>1 DEF SetExec, Row
  <2> QED
    BY <1>1, <2>1 DEF MayStore, Coherent, Follows
<1> QED
  BY <1>2, <1>3 DEF x

\* An update that stays open.
LEMMA WriteKeeps ==
  ASSUME TableInv, NEW r \in Runs, NEW s \in Sessions, NEW x,
         MayHold(r, x), Write(r, s, x)
  PROVE  TableInv' /\ RowsAdvance
<1> USE DEF TableInv, Write, MayHold
<1>1. TableTypeOK'
  BY DEF TableTypeOK
<1>2. OpenWritesAreLegal'
  BY DEF TableTypeOK, OpenWritesAreLegal, Sessions
<1>3. AskedIffCancelled' /\ \A q \in Runs : Coherent(draft[q])'
  BY DEF TableTypeOK, AskedIffCancelled, Coherent
<1>4. RowsAdvance
  BY DEF RowsAdvance, Follows
<1> QED
  BY <1>1, <1>2, <1>3, <1>4

\* An update that is committed at once.
LEMMA StoreKeeps ==
  ASSUME TableInv, NEW r \in Runs, NEW s \in Sessions, NEW x,
         MayStore(r, x), Store(r, s, x)
  PROVE  TableInv' /\ RowsAdvance
<1> USE DEF TableInv, Store, MayStore
<1>1. TableTypeOK'
  BY DEF TableTypeOK
<1>2. OpenWritesAreLegal'
  BY DEF TableTypeOK, OpenWritesAreLegal
<1>3. AskedIffCancelled' /\ \A q \in Runs : Coherent(draft[q])'
  BY DEF TableTypeOK, AskedIffCancelled, Coherent
<1>4. RowsAdvance
  <2>1. ASSUME NEW q \in Runs, q # r PROVE row'[q] = row[q]
    BY <2>1 DEF TableTypeOK
  <2>2. row'[r] = x
    BY DEF TableTypeOK
  <2> QED
    BY <2>1, <2>2 DEF RowsAdvance, Follows
<1> QED
  BY <1>1, <1>2, <1>3, <1>4

\* A commit: what is held open may follow the committed version.
LEMMA CommitKeeps ==
  ASSUME TableInv, NEW s \in Sessions, NEW S \in SUBSET Runs, Commit(s, S)
  PROVE  TableInv' /\ RowsAdvance
<1> USE DEF TableInv, Commit, HeldBy
<1>1. TableTypeOK'
  BY DEF TableTypeOK, Sessions
<1>2. OpenWritesAreLegal'
  BY DEF TableTypeOK, OpenWritesAreLegal
<1>3. AskedIffCancelled' /\ \A q \in Runs : Coherent(draft[q])'
  BY DEF TableTypeOK, AskedIffCancelled, Coherent
<1>4. RowsAdvance
  <2>1. ASSUME NEW q \in Runs PROVE Follows(row[q], row'[q])
    <3>1. row'[q] = row[q] \/ (lock[q] = s /\ row'[q] = draft[q])
      OBVIOUS
    <3> QED
      BY <3>1 DEF OpenWritesAreLegal, Follows, Sessions, Terminal
  <2> QED
    BY <2>1 DEF RowsAdvance
<1> QED
  BY <1>1, <1>2, <1>3, <1>4

\* A rollback, and a step that leaves the table alone.
LEMMA RollbackKeeps ==
  ASSUME TableInv, NEW s \in Sessions, NEW S \in SUBSET Runs, Rollback(s, S)
  PROVE  TableInv' /\ RowsAdvance
<1> USE DEF TableInv, Rollback, HeldBy
<1>1. TableTypeOK'
  BY DEF TableTypeOK, Sessions
<1>2. OpenWritesAreLegal'
  BY DEF TableTypeOK, OpenWritesAreLegal
<1>3. AskedIffCancelled' /\ \A q \in Runs : Coherent(draft[q])'
  BY DEF TableTypeOK, AskedIffCancelled, Coherent
<1>4. RowsAdvance
  BY DEF RowsAdvance, Follows
<1> QED
  BY <1>1, <1>2, <1>3, <1>4

LEMMA StutterKeeps ==
  ASSUME TableInv, UNCHANGED tableVars
  PROVE  TableInv' /\ RowsAdvance
BY DEF TableInv, TableTypeOK, OpenWritesAreLegal, AskedIffCancelled, Coherent,
       RowsAdvance, Follows, tableVars

\* The updates of the run repository, on an active run: what they make of it
\* may be held open, or committed.
LEMMA Verdicts ==
  ASSUME TableInv, NEW r \in Runs, row[r].status \in Active
  PROVE  /\ MayHold(r, Cancel(row[r]))
         /\ MayHold(r, Fail(row[r]))
         /\ MayStore(r, Fail(row[r]))
         /\ MayHold(r, MarkLost(row[r]))
<1> DEFINE x == row[r]
<1>1. x \in Row /\ ~x.asked /\ x.worker \in Workers \union {None}
  BY DEF TableInv, TableTypeOK, AskedIffCancelled, Row, Active, InFlight
<1>2. {"failed", "cancelled"} \subseteq Successors(x.status) \intersect Terminal
  BY DEF Successors, Documented, Active, InFlight, Terminal
<1>3. /\ Cancel(x) \in Row /\ Cancel(x).asked /\ Cancel(x).status = "cancelled"
      /\ Cancel(x).worker = x.worker
  BY <1>1 DEF Cancel, Row, Status, Terminal
<1>4. /\ Fail(x) \in Row /\ ~Fail(x).asked /\ Fail(x).status = "failed"
      /\ Fail(x).worker = x.worker
  BY <1>1 DEF Fail, Row, Status, Terminal
<1>5. /\ MarkLost(x) \in Row /\ ~MarkLost(x).asked /\ MarkLost(x).status = "failed"
      /\ MarkLost(x).worker = None
  BY <1>1 DEF MarkLost, Row, Status, Terminal
<1> HIDE DEF x
<1> QED
  BY <1>2, <1>3, <1>4, <1>5 DEF MayHold, MayStore, Coherent, Follows, x

\* The updates whose result is no verdict may be committed.
LEMMA Progress ==
  ASSUME TableInv, NEW r \in Runs
  PROVE  /\ \A w \in Workers : Claimable(row[r]) => MayStore(r, Claim(row[r], w))
         /\ Runnable(row[r]) => MayStore(r, MarkRunning(row[r]))
         /\ Collectable(row[r]) => MayStore(r, MarkCollecting(row[r]))
<1> DEFINE x == row[r]
<1>1. x \in Row /\ (x.status # "cancelled" => ~x.asked)
  BY DEF TableInv, TableTypeOK, AskedIffCancelled
<1>2. ASSUME NEW w \in Workers, Claimable(x) PROVE MayStore(r, Claim(x, w))
  BY <1>1, <1>2 DEF Claimable, Claim, MayStore, Coherent, Follows, Row,
     Status, Active, InFlight
<1>3. ASSUME Runnable(x) PROVE MayStore(r, MarkRunning(x))
  BY <1>1, <1>3 DEF Runnable, MarkRunning, MayStore, Coherent, Follows, Row,
     Status, Active, InFlight, Successors, Documented
<1>4. ASSUME Collectable(x) PROVE MayStore(r, MarkCollecting(x))
  BY <1>1, <1>4 DEF Collectable, MarkCollecting, MayStore, Coherent, Follows, Row,
     Status, Active, InFlight, Successors, Documented
<1> QED
  BY <1>2, <1>3, <1>4

\* A run that is collecting may be held as finished.
LEMMA FinishCollecting ==
  ASSUME TableInv, NEW r \in Runs, row[r].status = "collecting",
         NEW s \in {"done", "failed", "timeout"}
  PROVE  MayHold(r, Finish(row[r], s))
<1> DEFINE x == row[r]
<1>1. x \in Row /\ ~x.asked /\ x.status = "collecting"
  BY DEF TableInv, TableTypeOK, AskedIffCancelled
<1>2. /\ Finish(x, s) \in Row /\ ~Finish(x, s).asked /\ Finish(x, s).status = s
      /\ Finish(x, s).worker = x.worker
  BY <1>1 DEF Finish, Row, Status, Terminal
<1> QED
  BY <1>1, <1>2 DEF MayHold, Coherent, Active, InFlight, Terminal, Successors, Documented

\* The sweeps for stale runs: preparing to failed, collecting to timeout.
LEMMA Sweeps ==
  ASSUME TableInv, NEW r \in Runs, NEW s \in {"failed", "timeout"},
         \/ row[r].status = "preparing" /\ s = "failed"
         \/ row[r].status = "collecting" /\ s = "timeout"
  PROVE  MayHold(r, [row[r] EXCEPT !.status = s, !.worker = None])
<1> DEFINE x == row[r]
           y == [x EXCEPT !.status = s, !.worker = None]
<1>1. x \in Row /\ ~x.asked
  BY DEF TableInv, TableTypeOK, AskedIffCancelled
<1>2. y \in Row /\ ~y.asked /\ y.status = s /\ y.worker = None
  BY <1>1 DEF Row, Status, Terminal
<1>3. s \in Successors(x.status) \intersect Terminal /\ x.status \in Active
  BY DEF Successors, Documented, Active, InFlight, Terminal
<1> HIDE DEF y
<1> QED
  BY <1>2, <1>3 DEF MayHold, Coherent, y
=============================================================================
