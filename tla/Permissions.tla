----------------------------- MODULE Permissions -----------------------------
(***************************************************************************)
(* The permission matrices and the decision: what the tenant role, the     *)
(* project role and the scopes of an API token allow.                      *)
(***************************************************************************)

Read(things) == {<<x, "read">> : x \in things}
Edit(things) == {<<x, "edit">> : x \in things}

Trigger == <<"run", "trigger">>
CancelRun == <<"run", "cancel">>
CancelOwn == <<"run", "cancel.own">>
CreateProject == <<"project", "create">>
DeleteProject == <<"project", "delete">>
ManageTokens == <<"token", "manage">>
ReadRun == <<"run", "read">>
Everything == <<"*", "*">>

Configured == {"pipeline", "config", "credential", "schedule", "notification"}

PROJECT_SCOPED_ACTIONS ==
  Read(Configured \union {"run", "member"})
    \union Edit(Configured \union {"project", "member"})
    \union {DeleteProject, Trigger, CancelRun, CancelOwn}

TENANT_SCOPED_ACTIONS ==
  Read({"audit", "project"}) \union {CreateProject, ManageTokens}

Action == PROJECT_SCOPED_ACTIONS \union TENANT_SCOPED_ACTIONS

ViewerReads == Read(Configured \union {"project", "run", "member"})

TENANT_ROLE_PERMISSIONS ==
  [owner |-> Action,
   admin |-> Action,
   member |-> ViewerReads \union Edit(Configured \union {"project"})
                \union {CreateProject, Trigger, CancelOwn, ManageTokens},
   viewer |-> ViewerReads]

PROJECT_ROLE_PERMISSIONS ==
  [admin |-> PROJECT_SCOPED_ACTIONS,
   developer |-> Read(Configured \union {"run", "member"})
                   \union Edit((Configured \ {"credential"}) \union {"project"})
                   \union {Trigger, CancelOwn},
   viewer |-> Read(Configured \union {"run", "member"})]

\* normalize_tenant_role: legacy names, and "none" for any other string.
Normalize(raw) ==
  CASE raw \in {"owner", "admin", "member", "viewer"} -> raw
    [] raw = "platform_admin" -> "admin"
    [] raw \in {"developer", "user"} -> "member"
    [] OTHER -> "none"

\* An action that stands in the set, or a cancel of one's own run.
Covers(set, action, own) ==
  action \in set \/ (action = CancelRun /\ CancelOwn \in set /\ own)

\* Mutant of ScopesAdmit: the owner's role decides before the scopes do.
ScopesAfterAdmin(ctx) ==
  ctx.admin \/ Normalize(ctx.role) = "owner" \/ Everything \in ctx.scopes
    \/ Covers(ctx.scopes, ctx.action, ctx.own)

\* Without scopes (a JWT) and with "*" everything passes: both are {Everything}.
ScopesAdmit(ctx) ==
  Everything \in ctx.scopes \/ Covers(ctx.scopes, ctx.action, ctx.own)

Bypasses(ctx) == ctx.admin \/ Normalize(ctx.role) \in {"owner", "admin"}

\* Mutant of RolesAdmit: a project role suffices for a project action.
ProjectRoleSuffices(ctx, prole) ==
  \/ ctx.admin
  \/ LET role == Normalize(ctx.role) IN
     /\ role # "none"
     /\ \/ Covers(TENANT_ROLE_PERMISSIONS[role], ctx.action, ctx.own)
        \/ prole # "none"
     /\ \/ ctx.action \notin PROJECT_SCOPED_ACTIONS
        \/ Bypasses(ctx)
        \/ prole # "none"
           /\ Covers(PROJECT_ROLE_PERMISSIONS[prole], ctx.action, ctx.own)

RolesAdmit(ctx, prole) ==
  \/ ctx.admin
  \/ LET role == Normalize(ctx.role) IN
     /\ role # "none"
     /\ Covers(TENANT_ROLE_PERMISSIONS[role], ctx.action, ctx.own)
     /\ \/ ctx.action \notin PROJECT_SCOPED_ACTIONS
        \/ Bypasses(ctx)
        \/ prole # "none"
           /\ Covers(PROJECT_ROLE_PERMISSIONS[prole], ctx.action, ctx.own)

CheckPermission(ctx, prole) == ScopesAdmit(ctx) /\ RolesAdmit(ctx, prole)
==============================================================================
