------------------------------ MODULE RunStatus ------------------------------
(***************************************************************************)
(* The status vocabulary shared by every module about runs: the RunStatus  *)
(* enumeration, the sets of statuses the services reason with, and the two *)
(* transition relations of the system.                                     *)
(***************************************************************************)

Terminal == {"done", "failed", "cancelled", "timeout"}

InFlight == {"preparing", "running", "collecting"}

Active == InFlight \union {"queued"}

Status == Active \union Terminal

\* Where finish_if_current may apply when its caller names no statuses.
Finishable == {"running", "collecting"}

\* The statuses a job reports to the notification rules.
Reportable == {"done", "failed", "timeout"}

(***************************************************************************)
(* Documented(s) is the table of domain/services/execution.py, which the   *)
(* repository calls the valid transitions.  No writer of a run's status    *)
(* reads it: they guard themselves with the status sets above.             *)
(***************************************************************************)
Documented(s) ==
  CASE s = "queued"     -> {"preparing", "cancelled"}
    [] s = "preparing"  -> {"running", "failed", "cancelled"}
    [] s = "running"    -> {"collecting", "failed", "cancelled", "timeout"}
    [] s = "collecting" -> {"done", "failed", "cancelled", "timeout"}
    [] OTHER            -> {}

(***************************************************************************)
(* Successors(s) is what the writers of a run's status can do between them.*)
(* It differs from the table in one place: fail_if_current accepts every   *)
(* active status, so the end-of-job hook can fail a run that is queued.    *)
(***************************************************************************)
Successors(s) ==
  IF s = "queued" THEN Documented(s) \union {"failed"} ELSE Documented(s)
==============================================================================
