--------------------------- MODULE MCRunExecution ----------------------------
(***************************************************************************)
(* Instances of RunExecution for TLC.  Every configuration gives Runs,     *)
(* Workers and None model values; the sets of faults are named here.       *)
(***************************************************************************)
EXTENDS RunExecution

\* Everything the environment can do to the protocol.
AllFaults == {"crash", "job_timeout", "raise", "start_error", "probe", "redis",
              "api_abort", "reclaim_abort", "stale", "archive", "db", "cleanup"}

\* Workers crash, pipelines fail, containers do not start or cannot be removed;
\* but arq lets a job run to its end, the cron and the requests get through,
\* sessions work, the row can be read, and Redis accepts heartbeats.
LiveFaults == {"crash", "raise", "start_error", "archive", "cleanup", "stale"}

NoFaults == {}
==============================================================================
