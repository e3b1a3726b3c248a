---------------------------- MODULE RunLifecycle -----------------------------
(***************************************************************************)
(* What the platform promises about a run, with every mechanism left out:  *)
(* no job, no row lock, no message.  A run has a status and, while it is   *)
(* being executed, the worker that owns it.  A status only moves forward   *)
(* along Successors, a terminal status is final, and a worker is given to  *)
(* a run once, when it leaves the queue, and never exchanged for another.  *)
(***************************************************************************)
EXTENDS RunStatus

CONSTANTS
  Runs,     \* the runs
  Workers,  \* worker ids; each worker process draws a fresh one at startup
  None      \* no worker

VARIABLES
  status,   \* committed status of each run
  worker    \* the worker a run belongs to, or None

vars == <<status, worker>>

Init ==
  /\ status = [r \in Runs |-> "queued"]
  /\ worker = [r \in Runs |-> None]

\* A worker takes the run from the queue.
Claimed(r) ==
  /\ status[r] = "queued"
  /\ status'[r] = "preparing"
  /\ worker'[r] \in Workers

\* The run moves on, and may be detached from its worker in the same commit.
Moved(r) ==
  /\ status'[r] \in Successors(status[r]) \ {"preparing"}
  /\ worker'[r] \in {worker[r], None}

\* The run is detached from its worker, or not touched at all.
Kept(r) ==
  /\ status'[r] = status[r]
  /\ worker'[r] \in {worker[r], None}

(***************************************************************************)
(* One commit.  A transaction may touch several runs, so every run takes   *)
(* its own step at once.                                                   *)
(***************************************************************************)
Next ==
  /\ status' \in [Runs -> Status]
  /\ worker' \in [Runs -> Workers \union {None}]
  /\ \A r \in Runs : Claimed(r) \/ Moved(r) \/ Kept(r)

Spec == Init /\ [][Next]_vars
==============================================================================
