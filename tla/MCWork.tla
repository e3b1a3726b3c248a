-------------------------------- MODULE MCWork -------------------------------
(***************************************************************************)
(* What happens around the execution of a run, in four components without  *)
(* common state: the requests that create runs, the log, the results its   *)
(* runners report, and the notices it sends.  The first state picks the    *)
(* component that moves.                                                   *)
(***************************************************************************)
EXTENDS RunStream, RunNotices, RunResults, RunRequests, TLC

CONSTANTS w1, w2, p1, p2, t1

VARIABLE which

workVars == <<which, streamVars, noteVars, resultVars, reqVars>>

Components == {"stream", "notices", "results", "requests"}

\* No result, a pass with one to go, a pass, and a flaky case of old.
Passes == {[results |-> 0, passed |-> FALSE, failed |-> FALSE],
           [results |-> 1, passed |-> TRUE, failed |-> FALSE],
           [results |-> 2, passed |-> TRUE, failed |-> FALSE],
           [results |-> 3, passed |-> TRUE, failed |-> TRUE]}

\* The fields and channels a rule can name, one that is unknown among them,
\* and a rule whose two channels have one type.
AllFields ==
  <<[any |-> TRUE,
     parts |-> {<<"fresh", 1>>, <<"recovered", 1>>, <<"typo", 1>>},
     channels |-> <<"email", "robot">>],
    [any |-> FALSE,
     parts |-> {<<"failed", 1>>, <<"streak", 2>>},
     channels |-> <<"webhook", "webhook">>]>>

Symmetry == Permutations({w1, w2})

Init ==
  /\ which \in Components
  /\ StreamInit /\ NoticesInit /\ ResultsInit /\ RequestsInit

Next ==
  \/ /\ which = "stream" /\ StreamNext
     /\ UNCHANGED <<which, noteVars, resultVars, reqVars>>
  \/ /\ which = "notices" /\ NoticesNext
     /\ UNCHANGED <<which, streamVars, resultVars, reqVars>>
  \/ /\ which = "results" /\ ResultsNext
     /\ UNCHANGED <<which, streamVars, noteVars, reqVars>>
  \/ /\ which = "requests" /\ RequestsNext
     /\ UNCHANGED <<which, streamVars, noteVars, resultVars>>

Spec == Init /\ [][Next]_workVars

-----------------------------------------------------------------------------
\* The type invariant of the component that moves.
TypeOK ==
  /\ which = "stream" => StreamTypeOK
  /\ which = "notices" => NoticesTypeOK
  /\ which = "results" => ResultsTypeOK
  /\ which = "requests" => RequestsTypeOK
==============================================================================
