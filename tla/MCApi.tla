-------------------------------- MODULE MCApi --------------------------------
(***************************************************************************)
(* The components that answer requests share no state: each of the six     *)
(* has behaviors of its own.  One run checks them all: the first state     *)
(* picks the one that moves, the others stay as they begin.                *)
(***************************************************************************)
EXTENDS AuthTokens, AccessControl, RateLimit, NamedRows,
        ReportShare, ProjectConfig, TLC

CONSTANTS r1, r2, h3

VARIABLE which

apiVars == <<which, authVars, accessVars, rateVars, nameVars, shareVars,
             configVars>>

Components ==
  {"auth", "access", "rate", "names", "share", "config"}

\* Five logins a minute against twenty, in proportion.
RateLimits == [path \in Paths |-> IF path = "strict" THEN 1 ELSE 2]

Symmetry == Permutations({r1, r2})

Init ==
  /\ which \in Components
  /\ AuthInit /\ AccessInit /\ RateInit /\ NamesInit /\ ShareInit
  /\ ConfigInit

Next ==
  \/ /\ which = "auth" /\ AuthNext
     /\ UNCHANGED <<which, accessVars, rateVars, nameVars, shareVars, configVars>>
  \/ /\ which = "access" /\ AccessNext
     /\ UNCHANGED <<which, authVars, rateVars, nameVars, shareVars, configVars>>
  \/ /\ which = "rate" /\ RateNext
     /\ UNCHANGED <<which, authVars, accessVars, nameVars, shareVars, configVars>>
  \/ /\ which = "names" /\ NamesNext
     /\ UNCHANGED <<which, authVars, accessVars, rateVars, shareVars, configVars>>
  \/ /\ which = "share" /\ ShareNext
     /\ UNCHANGED <<which, authVars, accessVars, rateVars, nameVars, configVars>>
  \/ /\ which = "config" /\ ConfigNext
     /\ UNCHANGED <<which, authVars, accessVars, rateVars, nameVars, shareVars>>

Spec == Init /\ [][Next]_apiVars

-----------------------------------------------------------------------------
\* The type invariant of the component that moves.
TypeOK ==
  /\ which = "auth" => AuthTypeOK
  /\ which = "access" => AccessTypeOK
  /\ which = "rate" => RateTypeOK
  /\ which = "names" => NamesTypeOK
  /\ which = "share" => ShareTypeOK
  /\ which = "config" => ConfigTypeOK
==============================================================================
