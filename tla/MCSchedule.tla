------------------------------ MODULE MCSchedule -----------------------------
(***************************************************************************)
(* The crons of the workers that fire one schedule, and the requests that  *)
(* edit it.  Two workers and two requests at once have more interleavings  *)
(* than can be explored: the first state picks two of the one and one of   *)
(* the other.                                                              *)
(***************************************************************************)
EXTENDS ScheduleFiring, TLC

CONSTANTS w1, w2, e1, e2

VARIABLE cast  \* the workers and requests that take part

\* A cron_expr for every instant, and one for every third.
HourAndDay == {[period |-> 1, at |-> 0], [period |-> 3, at |-> 0]}
DayOnly == {[period |-> 3, at |-> 0]}

Symmetry == Permutations(Tickers) \union Permutations(CronEditors)

Init ==
  /\ ScheduleInit
  /\ cast \in {Tickers \union {e} : e \in CronEditors}
              \union {CronEditors \union {w} : w \in Tickers}

Next ==
  /\ ScheduleNext
  /\ UNCHANGED cast
  /\ \A w \in Tickers \ cast : tick'[w] = NoPass
  /\ \A e \in CronEditors \ cast : edit'[e] = NoEdit

Spec == Init /\ [][Next]_<<cronVars, cast>>
==============================================================================
