---------------------------- MODULE ProjectConfig ----------------------------
(***************************************************************************)
(* Edits of a project's row, of its Git credential and of an environment.  *)
(* A handler reads the row, merges the body into what it has read, and     *)
(* writes the columns that differ; requests interleave between read and    *)
(* write, and the write itself waits for the row and is committed at once. *)
(***************************************************************************)
EXTENDS Naturals

CONSTANTS
  Editors,   \* requests in progress at the same time
  MaxSecret  \* webhook secrets that are set, at most

ASSUME ConfigAssumption == MaxSecret \in Nat

VARIABLES
  proj,    \* the project: its settings (one JSON column) and its credential
  cred,    \* the credential: "absent", "live", "gone"
  limits,  \* resource_limits of the environment, one JSON column
  edit     \* the requests

configVars == <<proj, cred, limits, edit>>

\* Windows: 0 and 1 stand for two lists of silent windows; secret 0 for none.
Secrets == 0 .. MaxSecret
Settings == [secret : Secrets, windows : 0 .. 1]
Bindings == {"none", "bound"}
Limits == [disk : 0 .. 1, count : 1 .. 2]
Maybe(S) == {<<>>} \union {<<x>> : x \in S}

\* What a PUT says: whole settings with or without the key of the secret, or
\* silent_windows alone, or neither; and a credential or none.
Bodies ==
  {body \in [settings : BOOLEAN, secret : Maybe(Secrets), windows : Maybe(0 .. 1),
             bind : Maybe(Bindings)] : body.settings \/ body.secret = <<>>}

\* A request keeps what it will write (settings, bind, lim), the secret it
\* has read, and whether the body names one.
IdleEdit == [pc |-> "idle", settings |-> <<>>, bind |-> <<>>, lim |-> <<>>,
             read |-> 0, named |-> FALSE]

ConfigTypeOK ==
  /\ proj.settings \in Settings /\ proj.bind \in Bindings
  /\ cred \in {"absent", "live", "gone"}
  /\ limits \in Limits
  /\ \A r \in Editors :
       /\ edit[r].pc \in {"idle", "check", "project", "drop", "limits"}
       /\ edit[r].settings \in Maybe(Settings) /\ edit[r].bind \in Maybe(Bindings)
       /\ edit[r].lim \in Maybe(Limits) /\ edit[r].read \in Secrets

ConfigInit ==
  /\ proj = [settings |-> [secret |-> 0, windows |-> 0], bind |-> "none"]
  /\ cred = "absent"
  /\ limits = [disk |-> 0, count |-> 1]
  /\ edit = [r \in Editors |-> IdleEdit]

-----------------------------------------------------------------------------
(***************************************************************************)
(* The project                                                             *)
(***************************************************************************)

\* Mutant of CarryOver: settings replace what was there.
CarryOverNothing(body, old) == IF body.secret = <<>> THEN 0 ELSE body.secret[1]

\* _carry_over_sensitive_settings: a secret that is not named stays.
CarryOver(body, old) == IF body.secret = <<>> THEN old.secret ELSE body.secret[1]

\* The settings update_project computes, from what it has read.
NewSettings(body, old) ==
  [secret |-> IF body.settings THEN CarryOver(body, old) ELSE old.secret,
   windows |-> IF body.windows # <<>> THEN body.windows[1]
               ELSE IF body.settings THEN 0 ELSE old.windows]

\* Only a column that differs from what was read is written.
Changed(new, old) == IF new = old THEN <<>> ELSE <<new>>

ReadProject(r) ==
  /\ edit[r].pc = "idle"
  /\ \E body \in Bodies :
       LET bind == IF body.bind = <<>> THEN proj.bind ELSE body.bind[1] IN
       edit' = [edit EXCEPT ![r] =
         [IdleEdit EXCEPT
            !.pc = IF bind = "bound" THEN "check" ELSE "project",
            !.settings = Changed(NewSettings(body, proj.settings), proj.settings),
            !.bind = Changed(bind, proj.bind),
            !.read = proj.settings.secret,
            !.named = body.secret # <<>>]]
  /\ UNCHANGED <<proj, cred, limits>>

\* _validate_git_credential_binding
CheckBinding(r) ==
  /\ edit[r].pc = "check"
  /\ edit' = [edit EXCEPT ![r] =
       IF cred = "live" THEN [@ EXCEPT !.pc = "project"] ELSE IdleEdit]
  /\ UNCHANGED <<proj, cred, limits>>

WriteProject(r) ==
  /\ edit[r].pc = "project"
  /\ proj' = [settings |-> IF edit[r].settings = <<>> THEN proj.settings
                           ELSE edit[r].settings[1],
              bind |-> IF edit[r].bind = <<>> THEN proj.bind ELSE edit[r].bind[1]]
  /\ edit' = [edit EXCEPT ![r] = IdleEdit]
  /\ UNCHANGED <<cred, limits>>

-----------------------------------------------------------------------------
(***************************************************************************)
(* The credential and the environment                                      *)
(***************************************************************************)

StoreCredential ==
  /\ cred = "absent"
  /\ cred' = "live"
  /\ UNCHANGED <<proj, limits, edit>>

\* delete_credential: 409 while the project, as it was read, uses it.
CheckUnused(r) ==
  /\ edit[r].pc = "idle" /\ cred = "live" /\ proj.bind = "none"
  /\ edit' = [edit EXCEPT ![r] = [IdleEdit EXCEPT !.pc = "drop"]]
  /\ UNCHANGED <<proj, cred, limits>>

DropCredential(r) ==
  /\ edit[r].pc = "drop"
  /\ cred' = "gone"
  /\ edit' = [edit EXCEPT ![r] = IdleEdit]
  /\ UNCHANGED <<proj, limits>>

ReadLimits(r) ==
  /\ edit[r].pc = "idle"
  /\ edit' = [edit EXCEPT ![r] = [IdleEdit EXCEPT !.pc = "limits", !.lim = <<limits>>]]
  /\ UNCHANGED <<proj, cred, limits>>

\* update_environment: one limit is set in a copy of all; no disk is no key.
WriteLimits(r) ==
  /\ edit[r].pc = "limits"
  /\ \/ \E d \in 0 .. 1 : limits' = [edit[r].lim[1] EXCEPT !.disk = d]
     \/ \E n \in 1 .. 2 : limits' = [edit[r].lim[1] EXCEPT !.count = n]
  /\ edit' = [edit EXCEPT ![r] = IdleEdit]
  /\ UNCHANGED <<proj, cred>>

ConfigNext ==
  \/ \E r \in Editors :
       \/ ReadProject(r) \/ CheckBinding(r) \/ WriteProject(r)
       \/ CheckUnused(r) \/ DropCredential(r) \/ ReadLimits(r) \/ WriteLimits(r)
  \/ StoreCredential

ConfigSpec == ConfigInit /\ [][ConfigNext]_configVars
-----------------------------------------------------------------------------
\* An edit that does not name the webhook secret keeps it, whatever else the
\* settings say, unless somebody has changed it since the edit read it
\* (update_project, _carry_over_sensitive_settings).
SecretsSurviveEdits ==
  [][\A r \in Editors :
       /\ edit[r].pc = "project" /\ edit'[r].pc = "idle" /\ ~edit[r].named
       /\ edit[r].read = proj.settings.secret
       => proj'.settings.secret = proj.settings.secret]_configVars
==============================================================================
