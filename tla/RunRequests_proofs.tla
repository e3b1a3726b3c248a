------------------------- MODULE RunRequests_proofs --------------------------
(***************************************************************************)
(* The dedup index and the conditional cancel hold for any number of       *)
(* requests and rows.                                                      *)
(*                                                                         *)
(* The argument about the index: a row with a key counts from its INSERT,  *)
(* committed or not, until its last active status is gone; only InsertRun  *)
(* makes a row count, and it finds none that does.  The argument about     *)
(* batches: what a batch has done and not lost is a row it still holds;    *)
(* a row is held only while it is active or new, so its verdict is still   *)
(* open and nobody has reported it cancelled before.                       *)
(***************************************************************************)
EXTENDS RunRequests, FiniteSetTheorems, SequenceTheorems, TLAPS

States == Active \union Ended \union {"free"}
Holders == {<<c>> : c \in Clients} \union {Worker, Nobody}

ClientShape ==
  [pc : {"idle", "look", "insert", "commit", "read", "cancel", "end"},
   key : BOOLEAN, ids : Seq(Ids), done : SUBSET Ids, broken : BOOLEAN]

Shape ==
  /\ runs \in [Ids -> [st : States, key : BOOLEAN]]
  /\ held \in [Ids -> [by : Holders, to : States]]
  /\ client \in [Clients -> ClientShape]
  /\ cancels \in [Ids -> SUBSET Clients]

\* A row that the index finds, or will find after a commit.
Occupies(i) == runs[i].key /\ (runs[i].st \in Active \/ held[i].to \in Active)

KeyOnce == \A i, j \in Ids : Occupies(i) /\ Occupies(j) => i = j

\* Who holds a row has found it active, or has just inserted it.
HeldIsOpen ==
  \A i \in Ids : /\ held[i] # Unheld => runs[i].st \in Active \union {"free"}
                 /\ held[i].by = Worker => runs[i].st \in Active

\* What a batch has done is there until its transaction breaks or ends.
DoneIsHeld ==
  \A c \in Clients :
    /\ client[c].pc \notin {"cancel", "end"} => client[c].done = {}
    /\ client[c].pc = "cancel" => client[c].ids # <<>>
    /\ ~client[c].broken =>
         \A i \in client[c].done : held[i] = [by |-> <<c>>, to |-> "cancelled"]

ReportIsTrue ==
  \A i \in Ids :
    /\ cancels[i] # {} => runs[i].st = "cancelled"
    /\ \A c, d \in cancels[i] : c = d

RequestsInv == Shape /\ KeyOnce /\ HeldIsOpen /\ DoneIsHeld /\ ReportIsTrue

-----------------------------------------------------------------------------
LEMMA HoldersDiffer ==
  ASSUME NEW c \in Clients
  PROVE  /\ <<c>> # Worker /\ <<c>> # Nobody /\ Worker # Nobody
         /\ \A d \in Clients : <<c>> = <<d>> => c = d
BY RequestsAssumption DEF Worker, Nobody

LEMMA NobodyIsNoWorker == Unheld.by # Worker
BY DEF Unheld, Worker, Nobody

LEMMA InitRequests == RequestsInit => RequestsInv
<1> SUFFICES ASSUME RequestsInit PROVE RequestsInv
  OBVIOUS
<1>1. <<>> \in Seq(Ids)
  OBVIOUS
<1>2. Shape
  BY <1>1 DEF RequestsInit, Shape, NoRow, Unheld, IdleClient, States, Holders,
     ClientShape, Active, Ended
<1>3. KeyOnce /\ HeldIsOpen /\ DoneIsHeld /\ ReportIsTrue
  BY DEF RequestsInit, KeyOnce, Occupies, HeldIsOpen, DoneIsHeld, ReportIsTrue,
     NoRow, Unheld, Worker, Nobody, IdleClient, Active
<1> QED BY <1>2, <1>3 DEF RequestsInv

-----------------------------------------------------------------------------
(***************************************************************************)
(* The end of a transaction                                                *)
(***************************************************************************)

\* What a commit or a rollback makes of a row.
RowsEnd(c) ==
  /\ runs' \in [Ids -> [st : States, key : BOOLEAN]]
  /\ held' \in [Ids -> [by : Holders, to : States]]
  /\ \A i \in Ids :
       /\ held[i].by # <<c>> => held'[i] = held[i] /\ runs'[i] = runs[i]
       /\ held[i].by = <<c>> => held'[i] = Unheld
       /\ runs'[i].key => runs[i].key
       /\ runs'[i].st \in Active =>
            runs[i].st \in Active \/ held[i].to \in Active

LEMMA CommitEnds ==
  ASSUME RequestsInv, NEW c \in Clients, CommitRows(c)
  PROVE  RowsEnd(c)
BY DEF RequestsInv, Shape, CommitRows, RowsEnd, Unheld, States, Holders

LEMMA RollbackEnds ==
  ASSUME RequestsInv, NEW c \in Clients, RollbackRows(c)
  PROVE  RowsEnd(c)
<1>1. NoRow \in [st : States, key : BOOLEAN]
  BY DEF NoRow, States
<1>2. Unheld \in [by : Holders, to : States]
  BY DEF Unheld, States, Holders
<1> QED BY <1>1, <1>2 DEF RequestsInv, Shape, RollbackRows, RowsEnd, NoRow, Active

LEMMA EndKeepsRows ==
  ASSUME RequestsInv, NEW c \in Clients, RowsEnd(c)
  PROVE  KeyOnce' /\ HeldIsOpen'
<1>1. \A i \in Ids : Occupies(i)' => Occupies(i)
  BY DEF RowsEnd, Occupies, Unheld, Active
<1>2. KeyOnce'
  BY <1>1 DEF RequestsInv, KeyOnce
<1>3. HeldIsOpen'
  BY NobodyIsNoWorker DEF RequestsInv, HeldIsOpen, RowsEnd
<1> QED BY <1>2, <1>3

\* The others keep what they have done when a transaction ends.
LEMMA OthersKeepTheirs ==
  ASSUME RequestsInv, NEW c \in Clients, RowsEnd(c),
         NEW d \in Clients \ {c}, ~client[d].broken,
         NEW i \in client[d].done
  PROVE  held'[i] = [by |-> <<d>>, to |-> "cancelled"]
<1>1. i \in Ids
  BY DEF RequestsInv, Shape, ClientShape
<1>2. held[i] = [by |-> <<d>>, to |-> "cancelled"]
  BY DEF RequestsInv, DoneIsHeld
<1>3. held[i].by # <<c>>
  BY <1>2, HoldersDiffer
<1> QED BY <1>1, <1>2, <1>3 DEF RowsEnd

\* A verdict that was reported is not touched when a transaction ends.
LEMMA ReportsStay ==
  ASSUME RequestsInv, NEW c \in Clients, RowsEnd(c), NEW i \in Ids,
         runs[i].st = "cancelled"
  PROVE  runs'[i].st = "cancelled"
<1>1. held[i] = Unheld
  BY DEF RequestsInv, HeldIsOpen, Active
<1>2. held[i].by # <<c>>
  BY <1>1, HoldersDiffer DEF Unheld
<1> QED BY <1>2 DEF RowsEnd

LEMMA IdleShape == IdleClient \in ClientShape
<1>1. <<>> \in Seq(Ids)
  OBVIOUS
<1> QED BY <1>1 DEF IdleClient, ClientShape

\* A request that ends, by commit or rollback, and reports nothing.
LEMMA ReplyKeeps ==
  ASSUME RequestsInv, NEW c \in Clients, RowsEnd(c), Reply(c), UNCHANGED cancels
  PROVE  RequestsInv'
<1>1. Shape'
  BY IdleShape DEF RequestsInv, Shape, Reply, RowsEnd
<1>2. client'[c] = IdleClient /\ \A d \in Clients \ {c} : client'[d] = client[d]
  BY DEF RequestsInv, Shape, Reply
<1>3. DoneIsHeld'
  BY <1>2, OthersKeepTheirs DEF RequestsInv, DoneIsHeld, IdleClient
<1>4. ReportIsTrue'
  BY ReportsStay DEF RequestsInv, ReportIsTrue
<1> QED BY <1>1, <1>3, <1>4, EndKeepsRows DEF RequestsInv

-----------------------------------------------------------------------------
(***************************************************************************)
(* Webhooks and retries                                                    *)
(***************************************************************************)

\* A request that moves on and has done nothing to a row yet.
LEMMA MoveKeeps ==
  ASSUME RequestsInv, NEW c \in Clients, NEW new \in ClientShape,
         client' = [client EXCEPT ![c] = new],
         new.done = {}, new.pc = "cancel" => new.ids # <<>>,
         UNCHANGED <<runs, held, cancels>>
  PROVE  RequestsInv'
<1>1. Shape'
  BY DEF RequestsInv, Shape
<1>2. client'[c] = new /\ \A d \in Clients \ {c} : client'[d] = client[d]
  BY DEF RequestsInv, Shape
<1>3. DoneIsHeld'
  BY <1>2 DEF RequestsInv, DoneIsHeld
<1>4. KeyOnce' /\ HeldIsOpen' /\ ReportIsTrue'
  BY DEF RequestsInv, KeyOnce, Occupies, HeldIsOpen, ReportIsTrue
<1> QED BY <1>1, <1>3, <1>4 DEF RequestsInv

LEMMA StartKeeps ==
  ASSUME RequestsInv, NEW c \in Clients, NEW key \in BOOLEAN, StartHook(c, key)
  PROVE  RequestsInv'
<1> DEFINE new == [IdleClient EXCEPT !.key = key, !.pc = IF key THEN "look" ELSE "insert"]
<1>1. new \in ClientShape /\ new.done = {} /\ new.pc # "cancel"
  BY IdleShape DEF ClientShape, IdleClient
<1> QED BY <1>1, MoveKeeps DEF StartHook

LEMMA LookKeeps ==
  ASSUME RequestsInv, NEW c \in Clients, LookForActive(c)
  PROVE  RequestsInv'
<1> DEFINE new == [client[c] EXCEPT !.pc = "insert"]
<1>1. CASE client' = [client EXCEPT ![c] = IdleClient]
  <2>1. IdleClient.done = {} /\ IdleClient.pc # "cancel"
    BY DEF IdleClient
  <2> QED BY <1>1, <2>1, IdleShape, MoveKeeps DEF LookForActive
<1>2. CASE client' = [client EXCEPT ![c] = new]
  <2>1. new \in ClientShape /\ new.done = {} /\ new.pc # "cancel"
    BY DEF RequestsInv, Shape, ClientShape, DoneIsHeld, LookForActive
  <2> QED BY <1>2, <2>1, MoveKeeps DEF LookForActive
<1> QED BY <1>1, <1>2 DEF LookForActive, Reply

\* The row an INSERT gets does not count before, and alone does afterwards.
LEMMA InsertKeeps ==
  ASSUME RequestsInv, NEW c \in Clients, InsertRun(c)
  PROVE  RequestsInv'
<1> DEFINE rivals == IF client[c].key THEN Rivals ELSE {}
<1>1. CASE rivals # {}
  <2>1. client' = [client EXCEPT ![c] = IdleClient]
    BY <1>1 DEF InsertRun, Reply
  <2>2. IdleClient.done = {} /\ IdleClient.pc # "cancel"
    BY DEF IdleClient
  <2>3. UNCHANGED <<runs, held, cancels>>
    BY <1>1 DEF InsertRun
  <2> QED BY <2>1, <2>2, <2>3, IdleShape, MoveKeeps
<1>2. CASE rivals = {}
  <2>1. PICK i \in Free :
          /\ runs' = [runs EXCEPT ![i].key = client[c].key]
          /\ held' = [held EXCEPT ![i] = [by |-> <<c>>, to |-> "queued"]]
          /\ client' = [client EXCEPT ![c].pc = "commit"]
    BY <1>2 DEF InsertRun
  <2>2. i \in Ids /\ runs[i].st = "free" /\ held[i] = Unheld
    BY DEF Free
  <2>3. UNCHANGED cancels /\ client[c].pc = "insert"
    BY DEF InsertRun
  <2>4. [by |-> <<c>>, to |-> "queued"] \in [by : Holders, to : States]
    BY DEF Holders, States, Active
  <2>5. Shape'
    <3>1. runs' \in [Ids -> [st : States, key : BOOLEAN]]
      <4> DEFINE x == [runs[i] EXCEPT !.key = client[c].key]
      <4>1. runs[i] \in [st : States, key : BOOLEAN] /\ client[c].key \in BOOLEAN
        <5>1. client[c] \in ClientShape /\ runs[i] \in [st : States, key : BOOLEAN]
          BY <2>2 DEF RequestsInv, Shape
        <5> QED
          BY <5>1 DEF ClientShape
      <4>2. x \in [st : States, key : BOOLEAN]
        BY <4>1
      <4>3. runs' = [runs EXCEPT ![i] = x] /\ runs \in [Ids -> [st : States, key : BOOLEAN]]
        BY <2>1 DEF RequestsInv, Shape
      <4> HIDE DEF x
      <4> QED
        BY <4>2, <4>3
    <3>2. held' \in [Ids -> [by : Holders, to : States]]
      BY <2>1, <2>4 DEF RequestsInv, Shape
    <3>3. client' \in [Clients -> ClientShape]
      BY <2>1 DEF RequestsInv, Shape, ClientShape
    <3> QED BY <3>1, <3>2, <3>3, <2>3 DEF RequestsInv, Shape
  <2>6. \A j \in Ids \ {i} : runs'[j] = runs[j] /\ held'[j] = held[j]
    BY <2>1, <2>2 DEF RequestsInv, Shape
  <2>7. runs'[i].st = "free" /\ runs'[i].key = client[c].key
    BY <2>1, <2>2 DEF RequestsInv, Shape
  <2>8. client[c].key => \A j \in Ids : ~Occupies(j)
    BY <1>2 DEF Rivals, Occupies, Indexed
  <2>9. KeyOnce'
    <3>1. \A j \in Ids \ {i} : Occupies(j)' => Occupies(j)
      BY <2>6 DEF Occupies
    <3>2. Occupies(i)' => client[c].key
      BY <2>7 DEF Occupies
    <3> QED BY <3>1, <3>2, <2>8 DEF RequestsInv, KeyOnce
  <2>10. HeldIsOpen'
    <3>1. held'[i].by # Worker
      BY <2>1, <2>2, HoldersDiffer DEF RequestsInv, Shape
    <3> QED BY <2>6, <2>7, <3>1 DEF RequestsInv, HeldIsOpen
  <2>11. client'[c].done = {} /\ client'[c].pc = "commit"
         /\ \A d \in Clients \ {c} : client'[d] = client[d]
    BY <2>1, <2>3 DEF RequestsInv, Shape, ClientShape, DoneIsHeld
  <2>12. \A d \in Clients, j \in Ids :
            held[j] = [by |-> <<d>>, to |-> "cancelled"] => held'[j] = held[j]
    <3>1. \A d \in Clients : held[i] # [by |-> <<d>>, to |-> "cancelled"]
      BY <2>2 DEF Unheld
    <3> QED BY <3>1, <2>6
  <2>13. \A d \in Clients : client[d].done \subseteq Ids
    BY DEF RequestsInv, Shape, ClientShape
  <2>14. DoneIsHeld'
    BY <2>11, <2>12, <2>13 DEF RequestsInv, DoneIsHeld
  <2>15. ReportIsTrue'
    BY <2>2, <2>3, <2>6 DEF RequestsInv, ReportIsTrue
  <2> QED BY <2>5, <2>9, <2>10, <2>14, <2>15 DEF RequestsInv
<1> QED BY <1>1, <1>2

LEMMA RetryKeeps ==
  ASSUME RequestsInv, NEW i \in Ids, RetryRun(i)
  PROVE  RequestsInv'
<1>1. PICK j \in Free : runs' = [runs EXCEPT ![j] = [st |-> "queued", key |-> FALSE]]
  BY DEF RetryRun
<1>2. j \in Ids /\ runs[j].st = "free" /\ held[j] = Unheld
  BY DEF Free
<1>3. UNCHANGED <<held, client, cancels>>
  BY DEF RetryRun
<1>4. Shape'
  <2>1. [st |-> "queued", key |-> FALSE] \in [st : States, key : BOOLEAN]
    BY DEF States, Active
  <2> QED BY <1>1, <1>3, <2>1 DEF RequestsInv, Shape
<1>5. runs'[j] = [st |-> "queued", key |-> FALSE]
      /\ \A k \in Ids \ {j} : runs'[k] = runs[k]
  BY <1>1, <1>2 DEF RequestsInv, Shape
<1>6. KeyOnce'
  BY <1>3, <1>5 DEF RequestsInv, KeyOnce, Occupies
<1>7. HeldIsOpen' /\ DoneIsHeld' /\ ReportIsTrue'
  BY <1>2, <1>3, <1>5 DEF RequestsInv, HeldIsOpen, DoneIsHeld, ReportIsTrue, Active
<1> QED BY <1>4, <1>6, <1>7 DEF RequestsInv

-----------------------------------------------------------------------------
(***************************************************************************)
(* Batches                                                                 *)
(***************************************************************************)

LEMMA StartBatchKeeps ==
  ASSUME RequestsInv, NEW c \in Clients, StartBatch(c)
  PROVE  RequestsInv'
<1>1. PICK i, j \in Ids : client' = [client EXCEPT ![c] =
        [IdleClient EXCEPT !.pc = "read", !.ids = IF i = j THEN <<i>> ELSE <<i, j>>]]
  BY DEF StartBatch
<1> DEFINE new ==
  [IdleClient EXCEPT !.pc = "read", !.ids = IF i = j THEN <<i>> ELSE <<i, j>>]
<1>2. <<i>> \in Seq(Ids) /\ <<i, j>> \in Seq(Ids)
  OBVIOUS
<1>3. new \in ClientShape /\ new.done = {} /\ new.pc # "cancel"
  BY <1>2, IdleShape DEF ClientShape, IdleClient
<1> QED BY <1>1, <1>3, MoveKeeps DEF StartBatch

LEMMA ReadBatchKeeps ==
  ASSUME RequestsInv, NEW c \in Clients, ReadBatch(c)
  PROVE  RequestsInv'
<1> DEFINE ids == client[c].ids
           at(k) == IF k <= Len(ids) /\ runs[ids[k]].st \in Active THEN <<ids[k]>> ELSE <<>>
           alive == at(1) \o at(2)
           new == [client[c] EXCEPT !.ids = alive,
                     !.pc = IF alive = <<>> THEN "end" ELSE "cancel"]
<1>1. ids \in Seq(Ids)
  BY DEF RequestsInv, Shape, ClientShape
<1>2. at(1) \in Seq(Ids) /\ at(2) \in Seq(Ids)
  BY <1>1
<1>3. alive \in Seq(Ids)
  <2> HIDE DEF at
  <2> QED BY <1>2
<1>4. client[c] \in ClientShape /\ client[c].done = {}
  BY DEF RequestsInv, Shape, DoneIsHeld, ReadBatch
<1>5. client' = [client EXCEPT ![c] = new]
  BY DEF RequestsInv, Shape, ReadBatch
<1>6. new \in ClientShape /\ new.done = {} /\ (new.pc = "cancel" => new.ids # <<>>)
  <2> HIDE DEF alive
  <2> QED BY <1>3, <1>4 DEF ClientShape
<1>7. UNCHANGED <<runs, held, cancels>>
  BY DEF ReadBatch
<1> HIDE DEF new
<1> QED BY <1>5, <1>6, <1>7, MoveKeeps

\* The next row of a batch, and what AfterRow makes of the request.
LEMMA AfterRowShape ==
  ASSUME RequestsInv, NEW c \in Clients, client[c].pc = "cancel",
         NEW ok \in BOOLEAN, NEW broken \in BOOLEAN, AfterRow(c, ok, broken)
  PROVE  /\ NextOfBatch(c) \in Ids
         /\ client' \in [Clients -> ClientShape]
         /\ \A d \in Clients \ {c} : client'[d] = client[d]
         /\ client'[c].broken = (client[c].broken \/ broken)
         /\ client'[c].done = IF ok THEN client[c].done \union {NextOfBatch(c)}
                              ELSE client[c].done
         /\ client'[c].pc \in {"cancel", "end"}
         /\ client'[c].pc = "cancel" => client'[c].ids # <<>>
<1> DEFINE ids == client[c].ids
           done == IF ok THEN client[c].done \union {NextOfBatch(c)} ELSE client[c].done
           pc == IF Len(ids) = 1 THEN "end" ELSE "cancel"
           new == [client[c] EXCEPT !.ids = Tail(ids), !.broken = client[c].broken \/ broken,
                                    !.done = done, !.pc = pc]
<1>1. ids \in Seq(Ids) /\ ids # <<>> /\ client[c] \in ClientShape
  BY DEF RequestsInv, Shape, ClientShape, DoneIsHeld
<1>2. NextOfBatch(c) \in Ids /\ Tail(ids) \in Seq(Ids) /\ (Len(ids) # 1 => Tail(ids) # <<>>)
  <2>1. Head(ids) \in Ids /\ Tail(ids) \in Seq(Ids) /\ Len(Tail(ids)) = Len(ids) - 1
    <3> HIDE DEF ids
    <3> QED BY <1>1, HeadTailProperties
  <2>2. Len(ids) \in Nat /\ Len(ids) # 1 => Len(Tail(ids)) # 0
    BY <2>1
  <2>3. Len(ids) \in Nat
    <3> HIDE DEF ids
    <3> QED BY <1>1, LenProperties
  <2>4. Len(<<>>) = 0
    OBVIOUS
  <2> QED BY <2>1, <2>2, <2>3, <2>4 DEF NextOfBatch
<1>3. client' = [client EXCEPT ![c] = new]
  BY DEF AfterRow, RequestsInv, Shape
<1>4. done \in SUBSET Ids /\ pc \in {"cancel", "end"}
  BY <1>1, <1>2 DEF ClientShape
<1>5. /\ new \in ClientShape /\ new.ids = Tail(ids) /\ new.done = done /\ new.pc = pc
      /\ new.broken = (client[c].broken \/ broken)
  <2> HIDE DEF done, pc
  <2> QED BY <1>1, <1>2, <1>4 DEF ClientShape
<1>6. client'[c] = new /\ client' \in [Clients -> ClientShape]
      /\ \A d \in Clients \ {c} : client'[d] = client[d]
  <2> HIDE DEF new
  <2> QED BY <1>3, <1>5 DEF RequestsInv, Shape
<1> HIDE DEF new
<1> QED BY <1>2, <1>5, <1>6

LEMMA CancelRowKeeps ==
  ASSUME RequestsInv, NEW c \in Clients, CancelRow(c)
  PROVE  RequestsInv'
<1> DEFINE i == NextOfBatch(c)
<1>1. /\ client[c].pc = "cancel" /\ ~client[c].broken /\ held[i] = Unheld
      /\ UNCHANGED <<runs, cancels>>
  BY DEF CancelRow
<1>2. CASE MayCancel(c, i)
  <2>1. /\ held' = [held EXCEPT ![i] = [by |-> <<c>>, to |-> "cancelled"]]
        /\ AfterRow(c, TRUE, FALSE)
    BY <1>2 DEF CancelRow
  <2>2. /\ i \in Ids /\ client' \in [Clients -> ClientShape]
        /\ \A d \in Clients \ {c} : client'[d] = client[d]
        /\ client'[c].done = client[c].done \union {i}
        /\ client'[c].pc \in {"cancel", "end"}
        /\ client'[c].pc = "cancel" => client'[c].ids # <<>>
    BY <1>1, <2>1, AfterRowShape
  <2>3. [by |-> <<c>>, to |-> "cancelled"] \in [by : Holders, to : States]
    BY DEF Holders, States, Ended
  <2>4. Shape'
    BY <1>1, <2>1, <2>2, <2>3 DEF RequestsInv, Shape
  <2>5. /\ held'[i] = [by |-> <<c>>, to |-> "cancelled"]
        /\ \A j \in Ids \ {i} : held'[j] = held[j]
    BY <2>1, <2>2 DEF RequestsInv, Shape
  <2>6. runs[i].st \in Active
    <3>1. held[i].by # <<c>>
      BY <1>1, HoldersDiffer DEF Unheld
    <3> QED BY <1>2, <3>1 DEF MayCancel, Status
  <2>7. KeyOnce'
    BY <1>1, <2>5 DEF RequestsInv, KeyOnce, Occupies, Active
  <2>8. HeldIsOpen'
    BY <1>1, <2>5, <2>6 DEF RequestsInv, HeldIsOpen
  <2>9. \A d \in Clients : client[d].done \subseteq Ids
    BY DEF RequestsInv, Shape, ClientShape
  <2>10. \A d \in Clients, j \in Ids :
            held[j] = [by |-> <<d>>, to |-> "cancelled"] => held'[j] = held[j]
    <3>1. \A d \in Clients : held[i] # [by |-> <<d>>, to |-> "cancelled"]
      BY <1>1 DEF Unheld
    <3> QED BY <3>1, <2>5
  <2>11. DoneIsHeld'
    BY <1>1, <2>2, <2>5, <2>9, <2>10 DEF RequestsInv, DoneIsHeld
  <2>12. ReportIsTrue'
    BY <1>1 DEF RequestsInv, ReportIsTrue
  <2> QED BY <2>4, <2>7, <2>8, <2>11, <2>12 DEF RequestsInv
<1>3. CASE ~MayCancel(c, i)
  <2>1. AfterRow(c, FALSE, FALSE) /\ UNCHANGED held
    BY <1>3 DEF CancelRow
  <2>2. /\ client' \in [Clients -> ClientShape]
        /\ \A d \in Clients \ {c} : client'[d] = client[d]
        /\ client'[c].done = client[c].done
        /\ client'[c].pc \in {"cancel", "end"}
        /\ client'[c].pc = "cancel" => client'[c].ids # <<>>
    BY <1>1, <2>1, AfterRowShape
  <2>3. Shape' /\ KeyOnce' /\ HeldIsOpen' /\ ReportIsTrue'
    BY <1>1, <2>1, <2>2 DEF RequestsInv, Shape, KeyOnce, Occupies, HeldIsOpen, ReportIsTrue
  <2>4. DoneIsHeld'
    BY <1>1, <2>1, <2>2 DEF RequestsInv, DoneIsHeld
  <2> QED BY <2>3, <2>4 DEF RequestsInv
<1> QED BY <1>2, <1>3

\* A batch whose transaction is broken goes on to its next row, whatever of
\* its rows is still held.
LEMMA BrokenKeeps ==
  ASSUME RequestsInv, NEW c \in Clients, client[c].pc = "cancel",
         AfterRow(c, FALSE, TRUE), UNCHANGED cancels,
         RowsEnd(c) \/ UNCHANGED <<runs, held>>
  PROVE  RequestsInv'
<1>1. /\ client' \in [Clients -> ClientShape]
      /\ \A d \in Clients \ {c} : client'[d] = client[d]
      /\ client'[c].broken
      /\ client'[c].pc \in {"cancel", "end"}
      /\ client'[c].pc = "cancel" => client'[c].ids # <<>>
  BY AfterRowShape
<1>2. Shape'
  BY <1>1 DEF RequestsInv, Shape, RowsEnd
<1>3. KeyOnce' /\ HeldIsOpen'
  BY EndKeepsRows DEF RequestsInv, KeyOnce, Occupies, HeldIsOpen
<1>4. DoneIsHeld'
  BY <1>1, OthersKeepTheirs DEF RequestsInv, DoneIsHeld
<1>5. ReportIsTrue'
  BY ReportsStay DEF RequestsInv, ReportIsTrue
<1> QED BY <1>2, <1>3, <1>4, <1>5 DEF RequestsInv

\* A batch that ends reports rows it holds, which are open until then.
LEMMA EndBatchKeeps ==
  ASSUME RequestsInv, NEW c \in Clients, EndBatch(c)
  PROVE  RequestsInv'
<1>1. RowsEnd(c)
  BY CommitEnds, RollbackEnds DEF EndBatch
<1>2. CASE client[c].broken
  <2>1. cancels' = cancels
    BY <1>2 DEF EndBatch, RequestsInv, Shape
  <2> QED BY <1>1, <2>1, ReplyKeeps DEF EndBatch
<1>3. CASE ~client[c].broken
  <2>1. Reply(c) /\ CommitRows(c)
    BY <1>3 DEF EndBatch
  <2>2. \A i \in Ids : cancels'[i] = IF i \in client[c].done
                                     THEN cancels[i] \union {c} ELSE cancels[i]
    BY <1>3 DEF EndBatch
  <2>3. Shape'
    <3>1. cancels' \in [Ids -> SUBSET Clients]
      BY <1>3 DEF EndBatch, RequestsInv, Shape
    <3> QED BY <1>1, <2>1, <3>1, IdleShape DEF RequestsInv, Shape, Reply, RowsEnd
  <2>4. client'[c] = IdleClient /\ \A d \in Clients \ {c} : client'[d] = client[d]
    BY <2>1 DEF RequestsInv, Shape, Reply
  <2>5. DoneIsHeld'
    BY <1>1, <2>4, OthersKeepTheirs DEF RequestsInv, DoneIsHeld, IdleClient
  <2>6. \A i \in client[c].done : cancels[i] = {} /\ runs'[i].st = "cancelled"
    <3> TAKE i \in client[c].done
    <3>1. i \in Ids /\ held[i] = [by |-> <<c>>, to |-> "cancelled"]
      BY <1>3 DEF RequestsInv, DoneIsHeld, Shape, ClientShape
    <3>2. runs[i].st # "cancelled"
      BY <3>1, HoldersDiffer DEF RequestsInv, HeldIsOpen, Unheld, Active
    <3>3. runs'[i].st = "cancelled"
      BY <2>1, <3>1 DEF CommitRows, RequestsInv, Shape
    <3> QED BY <3>1, <3>2, <3>3 DEF RequestsInv, ReportIsTrue
  <2>7. ReportIsTrue'
    BY <1>1, <2>2, <2>6, ReportsStay DEF RequestsInv, ReportIsTrue
  <2> QED BY <1>1, <2>3, <2>5, <2>7, EndKeepsRows DEF RequestsInv
<1> QED BY <1>2, <1>3

-----------------------------------------------------------------------------
(***************************************************************************)
(* The worker                                                              *)
(***************************************************************************)

LEMMA WorkerKeeps ==
  ASSUME RequestsInv, NEW i \in Ids, Advance(i) \/ WriteVerdict(i) \/ EndVerdict(i)
  PROVE  RequestsInv'
<1>1. UNCHANGED <<client, cancels>>
  BY DEF Advance, WriteVerdict, EndVerdict
<1>2. /\ \A j \in Ids \ {i} : runs'[j] = runs[j] /\ held'[j] = held[j]
      /\ runs[i].st \in Active
      /\ runs'[i] \in [st : States, key : BOOLEAN] /\ runs'[i].key = runs[i].key
      /\ held[i] = Unheld \/ held[i].by = Worker
      /\ held'[i] = Unheld \/ (held'[i] = [by |-> Worker, to |-> "done"] /\ runs'[i] = runs[i])
      /\ runs' \in [Ids -> [st : States, key : BOOLEAN]]
      /\ held' \in [Ids -> [by : Holders, to : States]]
  <2>1. CASE Advance(i)
    <3>1. NextStatus[runs[i].st] \in States /\ runs[i].st \in Active
      BY <2>1 DEF Advance, NextStatus, States, Active
    <3> QED BY <2>1, <3>1 DEF Advance, RequestsInv, Shape
  <2>2. CASE WriteVerdict(i)
    <3>1. [by |-> Worker, to |-> "done"] \in [by : Holders, to : States]
      BY DEF Holders, States, Ended
    <3> QED BY <2>2, <3>1 DEF WriteVerdict, RequestsInv, Shape, Active
  <2>3. CASE EndVerdict(i)
    <3>1. Unheld \in [by : Holders, to : States] /\ "done" \in States
      BY DEF Unheld, Holders, States, Ended
    <3>2. runs[i].st \in Active
      BY <2>3 DEF EndVerdict, RequestsInv, HeldIsOpen
    <3>3. held' = [held EXCEPT ![i] = Unheld] /\ held[i].by = Worker
      BY <2>3 DEF EndVerdict
    <3>4. /\ \A j \in Ids \ {i} : held'[j] = held[j]
          /\ held'[i] = Unheld
          /\ held' \in [Ids -> [by : Holders, to : States]]
      BY <3>1, <3>3 DEF RequestsInv, Shape
    <3>5. CASE runs' = [runs EXCEPT ![i].st = "done"]
      BY <3>1, <3>2, <3>3, <3>4, <3>5 DEF RequestsInv, Shape
    <3>6. CASE UNCHANGED runs
      BY <3>2, <3>3, <3>4, <3>6 DEF RequestsInv, Shape
    <3> QED BY <2>3, <3>5, <3>6 DEF EndVerdict
  <2> QED BY <2>1, <2>2, <2>3
<1>3. Shape'
  BY <1>1, <1>2 DEF RequestsInv, Shape
<1>4. \A j \in Ids : Occupies(j)' => Occupies(j)
  BY <1>2 DEF Occupies, Unheld, Active
<1>5. KeyOnce'
  BY <1>4 DEF RequestsInv, KeyOnce
<1>6. HeldIsOpen'
  BY <1>2, NobodyIsNoWorker DEF RequestsInv, HeldIsOpen
<1>7. \A d \in Clients, j \in Ids :
        held[j] = [by |-> <<d>>, to |-> "cancelled"] => held'[j] = held[j]
  <2>1. \A d \in Clients : held[i] # [by |-> <<d>>, to |-> "cancelled"]
    BY <1>2, HoldersDiffer DEF Unheld
  <2> QED BY <1>2, <2>1
<1>8. \A d \in Clients : client[d].done \subseteq Ids
  BY DEF RequestsInv, Shape, ClientShape
<1>9. DoneIsHeld'
  BY <1>1, <1>7, <1>8 DEF RequestsInv, DoneIsHeld
<1>10. ReportIsTrue'
  BY <1>1, <1>2 DEF RequestsInv, ReportIsTrue, Active
<1> QED BY <1>3, <1>5, <1>6, <1>9, <1>10 DEF RequestsInv

-----------------------------------------------------------------------------
LEMMA NextRequests == RequestsInv /\ [RequestsNext]_reqVars => RequestsInv'
<1> SUFFICES ASSUME RequestsInv, [RequestsNext]_reqVars PROVE RequestsInv'
  OBVIOUS
<1>1. ASSUME NEW c \in Clients, WebhookTrigger(c) \/ ProviderTrigger(c)
      PROVE  RequestsInv'
  BY <1>1, StartKeeps DEF WebhookTrigger, ProviderTrigger
<1>2. ASSUME NEW c \in Clients, LookForActive(c) \/ InsertRun(c)
      PROVE  RequestsInv'
  BY <1>2, LookKeeps, InsertKeeps
<1>3. ASSUME NEW c \in Clients, CommitRun(c) \/ AbortBatch(c)
      PROVE  RequestsInv'
  BY <1>3, CommitEnds, RollbackEnds, ReplyKeeps DEF CommitRun, AbortBatch
<1>4. ASSUME NEW c \in Clients, StartBatch(c) \/ ReadBatch(c) \/ CancelRow(c) \/ EndBatch(c)
      PROVE  RequestsInv'
  BY <1>4, StartBatchKeeps, ReadBatchKeeps, CancelRowKeeps, EndBatchKeeps
<1>5. ASSUME NEW c \in Clients, BreakDeadlock(c) \/ FailRow(c)
      PROVE  RequestsInv'
  BY <1>5, RollbackEnds, BrokenKeeps DEF BreakDeadlock, FailRow, Waits
<1>6. ASSUME NEW i \in Ids, RetryFailed(i) \/ BatchRetry(i)
      PROVE  RequestsInv'
  BY <1>6, RetryKeeps DEF RetryFailed, BatchRetry
<1>7. ASSUME NEW i \in Ids, Advance(i) \/ WriteVerdict(i) \/ EndVerdict(i)
      PROVE  RequestsInv'
  BY <1>7, WorkerKeeps
<1>8. CASE UNCHANGED reqVars
  BY <1>8 DEF reqVars, RequestsInv, Shape, KeyOnce, Occupies, HeldIsOpen,
     DoneIsHeld, ReportIsTrue
<1> QED BY <1>1, <1>2, <1>3, <1>4, <1>5, <1>6, <1>7, <1>8 DEF RequestsNext

LEMMA RequestsInvariant == RequestsSpec => []RequestsInv
BY InitRequests, NextRequests, PTL DEF RequestsSpec

\* However many deliveries of one commit race with each other, with retries,
\* batches and verdicts, one run of it is active at most: the partial index
\* idx_run_active_dedup has the statuses that the look before the INSERT has
\* (_create_webhook_run, get_active_by_dedup).
THEOREM DedupHolds == RequestsSpec => []OneActivePerKey
<1>1. RequestsInv => OneActivePerKey
  BY DEF RequestsInv, KeyOnce, Occupies, OneActivePerKey
<1> QED BY <1>1, RequestsInvariant, PTL

\* However many batches name a run, in whatever order, one of them at most
\* reports it cancelled without an error, and then it is (batch_cancel_run_command,
\* cancel_if_current).
THEOREM CancelsAreTrue == RequestsSpec => []CancelledOnce
<1>1. RequestsInv => CancelledOnce
  <2> SUFFICES ASSUME RequestsInv, NEW i \in Ids
               PROVE  /\ Cardinality(cancels[i]) <= 1
                      /\ cancels[i] # {} => runs[i].st = "cancelled"
    BY DEF CancelledOnce
  <2>1. CASE cancels[i] = {}
    BY <2>1, FS_EmptySet
  <2>2. CASE cancels[i] # {}
    <3>1. PICK c : c \in cancels[i]
      BY <2>2
    <3>2. cancels[i] = {c}
      BY <3>1 DEF RequestsInv, ReportIsTrue
    <3>3. Cardinality(cancels[i]) = 1
      BY <3>2, FS_Singleton
    <3> QED BY <2>2, <3>3 DEF RequestsInv, ReportIsTrue
  <2> QED BY <2>1, <2>2
<1> QED BY <1>1, RequestsInvariant, PTL
==============================================================================
