------------------------------ MODULE NamedRows ------------------------------
(***************************************************************************)
(* Rows with a unique name: projects, project members, credentials,        *)
(* pipelines and environments.  A row is deleted by setting deleted_at;    *)
(* queries leave deleted rows out, the UNIQUE constraints do not.  One     *)
(* name of each table is modelled, and requests that create or rename a    *)
(* row or, as the import of results does, get or create it.  A transaction *)
(* sees what is committed and its own rows; a statement that meets an      *)
(* uncommitted row of the same name waits.                                 *)
(***************************************************************************)
EXTENDS Naturals, Sequences

CONSTANT NameReqs  \* requests in progress at the same time

NoOne == "nobody"

ASSUME NamesAssumption == NoOne \notin NameReqs

Imported == {"pipeline", "environment"}
Tables == Imported \union {"project", "member", "credential"}

VARIABLES
  slot,  \* the row that has the name: "free", "held" by .by, "live", "gone"
  nreq   \* the requests; lost: names given up while it ran (history)

nameVars == <<slot, nreq>>

IdleName == [pc |-> "idle", op |-> "none", todo |-> <<>>, lost |-> {},
             answer |-> "none"]

NamesTypeOK ==
  /\ \A t \in Tables :
       /\ slot[t].st \in {"free", "held", "live", "gone"}
       /\ slot[t].by \in NameReqs \union {NoOne}
       /\ slot[t].st = "held" <=> slot[t].by # NoOne
  /\ \A r \in NameReqs :
       /\ nreq[r].pc \in {"idle", "look", "insert", "again", "commit"}
       /\ nreq[r].op \in {"none", "create", "import"}
       /\ nreq[r].lost \subseteq Imported
       /\ nreq[r].answer \in {"none", "409", "500"}

NamesInit ==
  /\ slot = [t \in Tables |-> [st |-> "free", by |-> NoOne]]
  /\ nreq = [r \in NameReqs |-> IdleName]

-----------------------------------------------------------------------------
\* READ COMMITTED, and _soft_delete_filter.
Visible(r, t) == slot[t].st = "live" \/ slot[t].by = r

\* The transaction ends: its rows become visible, or are taken back.  Of the
\* answers only those about a name are kept.
End(r, st, answer) ==
  /\ slot' = [t \in Tables |-> IF slot[t].by = r THEN [st |-> st, by |-> NoOne]
                               ELSE slot[t]]
  /\ nreq' = [nreq EXCEPT ![r] =
       IF answer \in {"409", "500"} THEN [@ EXCEPT !.pc = "idle", !.answer = answer]
       ELSE IdleName]

Rollback(r, answer) == End(r, "free", answer)

\* The request has its row of the table at hand.
Has(r) ==
  [nreq EXCEPT ![r].todo = Tail(@),
               ![r].pc = IF Len(nreq[r].todo) = 1 THEN "commit" ELSE "look"]

StartName(r, op, pc, todo) ==
  /\ nreq[r].pc = "idle"
  /\ nreq' = [nreq EXCEPT ![r] = [IdleName EXCEPT !.op = op, !.pc = pc, !.todo = todo]]
  /\ UNCHANGED slot

\* These look the name up and answer 409 when they find it.
CreateProjectRow(r) == StartName(r, "create", "look", <<"project">>)
AddMember(r) == StartName(r, "create", "look", <<"member">>)
CreateCredential(r) == StartName(r, "create", "look", <<"credential">>)

\* These write the row at once.
CreatePipeline(r) == StartName(r, "create", "insert", <<"pipeline">>)
CreateEnvironment(r) == StartName(r, "create", "insert", <<"environment">>)

\* Mutant of ImportOrder: the order is not the same in all requests.
ImportOrderFree(r) ==
  IF r = CHOOSE x \in NameReqs : TRUE THEN <<"environment", "pipeline">>
  ELSE <<"pipeline", "environment">>

ImportOrder(r) == <<"pipeline", "environment">>

StartImport(r) == StartName(r, "import", "look", ImportOrder(r))

\* get_by_slug, get_existing, get_name_exists; get_by_name of an import.
Look(r) ==
  LET t == Head(nreq[r].todo) IN
  /\ nreq[r].pc = "look"
  /\ IF Visible(r, t) /\ nreq[r].op # "import" THEN Rollback(r, "409")
     ELSE /\ nreq' = IF Visible(r, t) THEN Has(r) ELSE [nreq EXCEPT ![r].pc = "insert"]
          /\ UNCHANGED slot

\* Mutant of OnDuplicate: the import does not handle the IntegrityError.
OnDuplicateFail(r) == Rollback(r, "500")

\* The SAVEPOINT of an import is rolled back; a create has none.
OnDuplicate(r) ==
  IF nreq[r].op = "import"
  THEN nreq' = [nreq EXCEPT ![r].pc = "again"] /\ UNCHANGED slot
  ELSE Rollback(r, "500")

\* The INSERT waits while the name is held by another transaction.
Insert(r) ==
  LET t == Head(nreq[r].todo) IN
  /\ nreq[r].pc = "insert"
  /\ \/ /\ slot[t].st = "free"
        /\ slot' = [slot EXCEPT ![t] = [st |-> "held", by |-> r]]
        /\ nreq' = Has(r)
     \/ slot[t].st \in {"live", "gone"} /\ OnDuplicate(r)

LookAgain(r) ==
  /\ nreq[r].pc = "again"
  /\ IF Visible(r, Head(nreq[r].todo))
     THEN nreq' = Has(r) /\ UNCHANGED slot
     ELSE Rollback(r, "409")

CommitNames(r) ==
  /\ nreq[r].pc = "commit"
  /\ End(r, "live", "201")

\* What comes after the INSERT fails: the rows go with the transaction.
FailName(r) ==
  /\ nreq[r].pc \in {"look", "commit"}
  /\ Rollback(r, "error")

\* BaseRepository.delete: the name stays with the deleted row.
SoftDelete(t) ==
  /\ slot[t].st = "live"
  /\ slot' = [slot EXCEPT ![t].st = "gone"]
  /\ UNCHANGED nreq

DeleteProjectRow == SoftDelete("project")
RemoveMember == SoftDelete("member")
DeleteCredential == SoftDelete("credential")
DeletePipeline == SoftDelete("pipeline")
DeleteEnvironment == SoftDelete("environment")

\* A PUT that renames the row gives the old name up.
GiveUpName(t) ==
  /\ slot[t].st = "live"
  /\ slot' = [slot EXCEPT ![t].st = "free"]
  /\ nreq' = [r \in NameReqs |-> IF nreq[r].pc = "idle" THEN nreq[r]
                ELSE [nreq[r] EXCEPT !.lost = @ \union {t}]]

RenamePipeline == GiveUpName("pipeline")
RenameEnvironment == GiveUpName("environment")

NamesNext ==
  \/ \E r \in NameReqs :
       \/ CreateProjectRow(r) \/ AddMember(r) \/ CreateCredential(r)
       \/ CreatePipeline(r) \/ CreateEnvironment(r) \/ StartImport(r)
       \/ Look(r) \/ Insert(r) \/ LookAgain(r) \/ CommitNames(r) \/ FailName(r)
  \/ DeleteProjectRow \/ RemoveMember \/ DeleteCredential \/ DeletePipeline
  \/ DeleteEnvironment \/ RenamePipeline \/ RenameEnvironment

NamesSpec == NamesInit /\ [][NamesNext]_nameVars
-----------------------------------------------------------------------------
\* Whatever other requests do to the same names, an import ends with the run
\* or with a 409, and with 409 only when one of its names belongs to a
\* deleted row or was given up meanwhile (_get_or_create_import_pipeline,
\* _get_or_create_import_environment).
ImportsAreAnswered ==
  \A r \in NameReqs : nreq[r].op = "import" /\ nreq[r].pc = "idle" =>
    /\ nreq[r].answer = "409"
    /\ nreq[r].lost # {} \/ \E t \in Imported : slot[t].st = "gone"

NameWaits(r, q) ==
  nreq[r].pc = "insert" /\ slot[Head(nreq[r].todo)].by = q

\* Requests that wait for the uncommitted name of one another never form a
\* cycle: PostgreSQL has no deadlock to break (import_run_results).
NamesAreTakenInOrder ==
  \A r, q \in NameReqs : ~(NameWaits(r, q) /\ NameWaits(q, r))

\* Who looks for the name, finds nobody and inserts it is not answered with an
\* internal error: a name that was given up can be taken again
\* (add_project_member, create_project, create_credential).
FreedNamesCanBeTaken ==
  \A r \in NameReqs : nreq[r].op = "create" /\ nreq[r].todo # <<>>
                       /\ Head(nreq[r].todo) \notin Imported
                       => nreq[r].answer # "500"
==============================================================================
