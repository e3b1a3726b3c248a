---------------------------- MODULE AccessControl ----------------------------
(***************************************************************************)
(* A request for an action in a project: it is authenticated, checks that  *)
(* the project is visible, looks the membership up, decides and acts, in   *)
(* steps between which others change the membership and delete the         *)
(* project.                                                                *)
(***************************************************************************)
EXTENDS Permissions
-----------------------------------------------------------------------------
VARIABLES
  member,   \* the user's role in the project, "none" without a visible row
  project,  \* "live" or "deleted"
  rq        \* the user's request

accessVars == <<member, project, rq>>

ProjectRoles == {"admin", "developer", "viewer"}
RawRoles == {"owner", "admin", "member", "viewer", "user", "guest"}

\* Scopes a token is created with; {Everything} is also the scope of a JWT.
ScopeSets == {{Everything}, {}, {ReadRun}, {CancelRun}, {CancelOwn},
              {Trigger, <<"audit", "read">>}}

NoContext == [role |-> "guest", admin |-> FALSE, action |-> ReadRun,
              own |-> FALSE, scopes |-> {}]
Idle == [pc |-> "idle", ctx |-> NoContext, path |-> FALSE, prole |-> "none",
         held |-> {}]

AccessTypeOK ==
  /\ member \in ProjectRoles \union {"none"}
  /\ project \in {"live", "deleted"}
  /\ rq.pc \in {"idle", "begun", "visible", "known", "acting"}
  /\ rq.ctx.action \in Action /\ rq.ctx.role \in RawRoles
  /\ rq.prole \in ProjectRoles \union {"none"}
  /\ rq.held \subseteq ProjectRoles \union {"none"}

AccessInit ==
  /\ member = "none"
  /\ project = "live"
  /\ rq = Idle

\* A route checks by its path, or after it has found the project of a run.
StartRequest ==
  /\ rq.pc = "idle"
  /\ \E role \in RawRoles, admin \in BOOLEAN, action \in Action,
        scopes \in ScopeSets, own \in BOOLEAN, path \in BOOLEAN :
       /\ own => action = CancelRun /\ ~path
       /\ path => action \in PROJECT_SCOPED_ACTIONS
       /\ rq' = [Idle EXCEPT
            !.pc = "begun", !.path = path, !.held = {member},
            !.ctx = [role |-> role, admin |-> admin, action |-> action,
                     own |-> own, scopes |-> scopes]]
  /\ UNCHANGED <<member, project>>

\* _ensure_project_visible, for the routes with a project in their path.
CheckVisible ==
  /\ rq.pc = "begun"
  /\ rq' = IF ~rq.path \/ Bypasses(rq.ctx) \/ project = "live"
           THEN [rq EXCEPT !.pc = "visible"] ELSE Idle
  /\ UNCHANGED <<member, project>>

\* _resolve_project_role: the visible row of project_member, if it counts.
ResolveRole ==
  /\ rq.pc = "visible"
  /\ rq' = [rq EXCEPT !.pc = "known",
              !.prole = IF Bypasses(rq.ctx) THEN "none" ELSE member]
  /\ UNCHANGED <<member, project>>

Decide ==
  /\ rq.pc = "known"
  /\ rq' = IF CheckPermission(rq.ctx, rq.prole)
           THEN [rq EXCEPT !.pc = "acting"] ELSE Idle
  /\ UNCHANGED <<member, project>>

\* The handler looks the project up again; deleting it is one of the acts.
Act ==
  /\ rq.pc = "acting"
  /\ rq' = Idle
  /\ project' = IF rq.ctx.action = DeleteProject THEN "deleted" ELSE project
  /\ UNCHANGED member

\* Others add, change and remove the member with the member routes, once at
\* most while a request is in progress.
ChangeMember ==
  /\ rq.pc = "idle" \/ rq.held = {member}
  /\ \E role \in (ProjectRoles \union {"none"}) \ {member} :
       /\ member' = role
       /\ rq' = IF rq.pc = "idle" THEN rq
                ELSE [rq EXCEPT !.held = @ \union {role}]
  /\ UNCHANGED project

AccessNext ==
  \/ StartRequest \/ CheckVisible \/ ResolveRole \/ Decide \/ Act
  \/ ChangeMember

AccessSpec == AccessInit /\ [][AccessNext]_accessVars
-----------------------------------------------------------------------------
\* Scopes only take away: what a scoped token may do, its owner may do
\* without it, and nothing outside its scopes, whatever the owner's role and
\* whether or not the owner is a platform administrator (check_permission).
ScopesOnlyRestrict ==
  rq.pc = "acting" =>
    /\ CheckPermission([rq.ctx EXCEPT !.scopes = {Everything}], rq.prole)
    /\ rq.ctx.scopes = {Everything} \/ Covers(rq.ctx.scopes, rq.ctx.action, rq.ctx.own)

\* Tenant and project role are an intersection: a tenant viewer only reads,
\* whatever the project role, and who is no member while the request runs
\* does nothing in the project (require_project_permission, get_existing).
RolesIntersect ==
  rq.pc = "acting" /\ ~Bypasses(rq.ctx) /\ rq.ctx.action \in PROJECT_SCOPED_ACTIONS =>
    /\ Normalize(rq.ctx.role) = "viewer" => rq.ctx.action \in ViewerReads
    /\ \E role \in rq.held \ {"none"} : RolesAdmit(rq.ctx, role)
==============================================================================
