------------------------------ MODULE Api_proofs ------------------------------
(***************************************************************************)
(* What holds of the components of MCApi for every number of requests and  *)
(* every value of their bounds. Each component has an inductive invariant  *)
(* of its own; as no two of them share a variable, their conjunction is    *)
(* one of the whole, and the type invariant follows.                       *)
(***************************************************************************)
EXTENDS MCApi, AuthTokens_proofs, FiniteSetTheorems, SequenceTheorems

(***************************************************************************)
(* Access control. The memberships a request has seen while it ran are in  *)
(* rq.held (MembershipIsSeen), and it acts only on a decision over what it *)
(* has seen (ActsAsDecided).                                               *)
(***************************************************************************)

MemberRoles == ProjectRoles \union {"none"}

ContextShape == [role : RawRoles, admin : BOOLEAN, action : Action,
                 own : BOOLEAN, scopes : ScopeSets]

AccessShape ==
  /\ member \in MemberRoles
  /\ project \in {"live", "deleted"}
  /\ rq \in [pc : {"idle", "begun", "visible", "known", "acting"},
             ctx : ContextShape, path : BOOLEAN, prole : MemberRoles,
             held : SUBSET MemberRoles]

\* What a request holds of the membership it has seen while it ran, and it
\* acts on a decision.
MembershipIsSeen ==
  /\ rq.pc # "idle" => member \in rq.held
  /\ rq.prole \in rq.held \union {"none"}

ActsAsDecided == rq.pc = "acting" => CheckPermission(rq.ctx, rq.prole)

AccessInv == AccessShape /\ MembershipIsSeen /\ ActsAsDecided

LEMMA ActionsAreActions ==
  /\ ReadRun \in Action /\ {} \in ScopeSets
  /\ \A s \in ScopeSets : Everything \in s => s = {Everything}
  /\ CancelOwn \notin ViewerReads
BY DEF ReadRun, Action, PROJECT_SCOPED_ACTIONS, Read, Edit, Configured, ScopeSets,
   Everything, CancelRun, CancelOwn, Trigger, ViewerReads

LEMMA IdleShape ==
  Idle \in [pc : {"idle", "begun", "visible", "known", "acting"},
            ctx : ContextShape, path : BOOLEAN, prole : MemberRoles,
            held : SUBSET MemberRoles]
BY ActionsAreActions DEF Idle, NoContext, ContextShape, RawRoles, MemberRoles

LEMMA InitAccess == AccessInit => AccessInv
BY IdleShape DEF AccessInit, AccessInv, AccessShape, MembershipIsSeen, ActsAsDecided,
   Idle, MemberRoles

LEMMA StartKeeps ==
  ASSUME AccessInv, StartRequest PROVE AccessInv'
<1>1. PICK role \in RawRoles, admin \in BOOLEAN, action \in Action,
           scopes \in ScopeSets, own \in BOOLEAN, path \in BOOLEAN :
        /\ own => action = CancelRun /\ ~path
        /\ path => action \in PROJECT_SCOPED_ACTIONS
        /\ rq' = [Idle EXCEPT
                     !.pc = "begun", !.path = path, !.held = {member},
                     !.ctx = [role |-> role, admin |-> admin, action |-> action,
                              own |-> own, scopes |-> scopes]]
  BY Zenon DEF StartRequest
<1>2. member' = member /\ project' = project
  BY DEF StartRequest
<1>3. AccessShape'
  <2> DEFINE c == [role |-> role, admin |-> admin, action |-> action,
                   own |-> own, scopes |-> scopes]
  <2>1. c \in ContextShape /\ member \in MemberRoles
    BY DEF ContextShape, AccessInv, AccessShape
  <2>2. rq' = [Idle EXCEPT !.pc = "begun", !.path = path, !.held = {member},
                          !.ctx = c]
    BY <1>1
  <2> HIDE DEF c
  <2>3. rq' \in [pc : {"idle", "begun", "visible", "known", "acting"},
                 ctx : ContextShape, path : BOOLEAN, prole : MemberRoles,
                 held : SUBSET MemberRoles]
    BY <2>1, <2>2, IdleShape
  <2> QED
    BY <1>2, <2>3 DEF AccessInv, AccessShape
<1>4. rq'.pc = "begun" /\ rq'.prole = "none" /\ rq'.held = {member}
  BY <1>1 DEF Idle
<1> QED BY <1>2, <1>3, <1>4 DEF AccessInv, MembershipIsSeen, ActsAsDecided

LEMMA MoveKeepsAccess ==
  ASSUME AccessInv, CheckVisible \/ ResolveRole \/ Decide \/ Act
  PROVE  AccessInv'
<1> USE DEF AccessInv, AccessShape, MembershipIsSeen, ActsAsDecided
<1>1. CASE rq' = Idle /\ member' = member /\ project' \in {"live", "deleted"}
  BY <1>1, IdleShape DEF Idle
<1>2. CASE CheckVisible /\ rq' # Idle
  BY <1>2 DEF CheckVisible
<1>3. CASE ResolveRole
  BY <1>3 DEF ResolveRole, MemberRoles
<1>4. CASE Decide /\ rq' # Idle
  BY <1>4 DEF Decide
<1> QED BY <1>1, <1>2, <1>3, <1>4 DEF CheckVisible, Decide, Act

LEMMA ChangeKeeps ==
  ASSUME AccessInv, ChangeMember PROVE AccessInv'
BY DEF AccessInv, AccessShape, MembershipIsSeen, ActsAsDecided, ChangeMember, MemberRoles

LEMMA NextAccess == AccessInv /\ [AccessNext]_accessVars => AccessInv'
<1> SUFFICES ASSUME AccessInv, [AccessNext]_accessVars PROVE AccessInv'
  OBVIOUS
<1>1. CASE UNCHANGED accessVars
  BY <1>1 DEF accessVars, AccessInv, AccessShape, MembershipIsSeen, ActsAsDecided
<1> QED BY <1>1, StartKeeps, MoveKeepsAccess, ChangeKeeps DEF AccessNext

LEMMA AccessInvariant == AccessSpec => []AccessInv
BY InitAccess, NextAccess, PTL DEF AccessSpec

\* Whatever the matrices and memberships become while a request runs, the
\* scopes of an API token only take away from what the user's roles allow
\* (check_permission, ScopesAdmit before the roles).
THEOREM ScopesHold == AccessSpec => []ScopesOnlyRestrict
<1>1. AccessInv => ScopesOnlyRestrict
  <2> SUFFICES ASSUME AccessInv, rq.pc = "acting"
               PROVE  /\ CheckPermission([rq.ctx EXCEPT !.scopes = {Everything}], rq.prole)
                      /\ rq.ctx.scopes = {Everything}
                           \/ Covers(rq.ctx.scopes, rq.ctx.action, rq.ctx.own)
    BY DEF ScopesOnlyRestrict
  <2> DEFINE free == [rq.ctx EXCEPT !.scopes = {Everything}]
  <2>1. ScopesAdmit(rq.ctx) /\ RolesAdmit(rq.ctx, rq.prole) /\ rq.ctx \in ContextShape
    BY DEF AccessInv, AccessShape, ActsAsDecided, CheckPermission
  <2>2. /\ free.role = rq.ctx.role /\ free.admin = rq.ctx.admin
        /\ free.action = rq.ctx.action /\ free.own = rq.ctx.own
        /\ free.scopes = {Everything}
    BY <2>1 DEF ContextShape
  <2>3. RolesAdmit(free, rq.prole)
    BY <2>1, <2>2 DEF RolesAdmit, Bypasses
  <2>4. ScopesAdmit(free)
    BY <2>2 DEF ScopesAdmit
  <2>5. rq.ctx.scopes = {Everything} \/ Covers(rq.ctx.scopes, rq.ctx.action, rq.ctx.own)
    BY <2>1, ActionsAreActions DEF ScopesAdmit, ContextShape
  <2> QED BY <2>3, <2>4, <2>5 DEF CheckPermission
<1> QED BY <1>1, AccessInvariant, PTL

\* Who acts on a project holds, by a membership of the time of the request, a
\* role that allows it, and the tenant role allows it as well; a viewer of the
\* tenant only reads, whatever the project says (check_permission).
THEOREM RolesHold == AccessSpec => []RolesIntersect
<1>1. AccessInv => RolesIntersect
  <2> SUFFICES ASSUME AccessInv, rq.pc = "acting", ~Bypasses(rq.ctx),
                      rq.ctx.action \in PROJECT_SCOPED_ACTIONS
               PROVE  /\ Normalize(rq.ctx.role) = "viewer" => rq.ctx.action \in ViewerReads
                      /\ \E role \in rq.held \ {"none"} : RolesAdmit(rq.ctx, role)
    BY DEF RolesIntersect
  <2>1. RolesAdmit(rq.ctx, rq.prole) /\ ~rq.ctx.admin
    BY DEF AccessInv, ActsAsDecided, CheckPermission, Bypasses
  <2>2. /\ rq.prole # "none"
        /\ Covers(TENANT_ROLE_PERMISSIONS[Normalize(rq.ctx.role)], rq.ctx.action, rq.ctx.own)
    BY <2>1 DEF RolesAdmit
  <2>3. rq.prole \in rq.held \ {"none"}
    BY <2>2 DEF AccessInv, MembershipIsSeen
  <2>4. ASSUME Normalize(rq.ctx.role) = "viewer" PROVE rq.ctx.action \in ViewerReads
    <3>1. TENANT_ROLE_PERMISSIONS["viewer"] = ViewerReads
      BY DEF TENANT_ROLE_PERMISSIONS
    <3> QED BY <2>2, <2>4, <3>1, ActionsAreActions DEF Covers
  <2> QED BY <2>1, <2>3, <2>4
<1> QED BY <1>1, AccessInvariant, PTL

-----------------------------------------------------------------------------
(***************************************************************************)
(* Rate limit. A request that was let through stays in the window, and the *)
(* key of its path outlives it (CountedStay); so the one that is let       *)
(* through now has counted all of them.                                    *)
(***************************************************************************)

\* A request that was let through stays in the window of its path, and the
\* key outlives it, until its stamp is a window old.
CountedStay ==
  \A h \in Hits : hit[h].pc = "passed" /\ hit[h].stamp + Window > rateClock =>
    /\ h \in entries[hit[h].path]
    /\ expires[hit[h].path] >= hit[h].stamp + Window

StampsArePast == \A h \in Hits : hit[h].stamp <= rateClock

\* Those let through whose stamp is less than a window old.
Passed(path) == {h \in Hits : /\ hit[h].pc = "passed" /\ hit[h].path = path
                              /\ hit[h].stamp + Window > rateClock}

\* The limit holds in the window that ends now.
WindowNow == \A path \in Paths : Cardinality(Passed(path)) <= LimitOf[path]

\* Those that read the time and were let through from the given time on,
\* before a window has passed.
Within(path, from) ==
  {h \in Hits : /\ hit[h].pc = "passed" /\ hit[h].path = path
                /\ from <= hit[h].stamp
                /\ hit[h].at < from + Window}

RateInv == RateTypeOK /\ StampsArePast /\ CountedStay /\ WindowNow /\ WindowHolds

HitShape == [pc : {"new", "timed", "passed", "refused", "unavailable", "uncounted"},
             path : Paths, stamp : 0 .. RateHorizon, at : 0 .. RateHorizon]

LEMMA RateNumbers ==
  /\ LimitOf \in [Paths -> Nat] /\ Window \in Nat \ {0}
  /\ RateHorizon \in Nat /\ IsFiniteSet(Hits)
BY RateAssumption

LEMMA FewerPass ==
  ASSUME NEW S \in SUBSET Hits, NEW T \in SUBSET S, NEW n \in Nat, Cardinality(S) <= n
  PROVE  Cardinality(T) <= n
<1>1. IsFiniteSet(S)
  BY RateNumbers, FS_Subset
<1>2. Cardinality(T) \in Nat /\ Cardinality(S) \in Nat /\ Cardinality(T) <= Cardinality(S)
  BY <1>1, FS_Subset, FS_CardinalityType
<1> QED BY <1>2

LEMMA InitRate == RateInit => RateInv
<1> SUFFICES ASSUME RateInit PROVE RateInv
  OBVIOUS
<1>1. RateTypeOK
  <2>1. 0 \in 0 .. RateHorizon /\ 0 \in 0 .. RateHorizon + Window /\ "general" \in Paths
    BY RateNumbers DEF Paths
  <2>2. hit \in [Hits -> HitShape]
    BY <2>1 DEF RateInit, HitShape
  <2>3. expires \in [Paths -> 0 .. RateHorizon + Window]
    BY <2>1 DEF RateInit
  <2>4. entries \in [Paths -> SUBSET Hits]
    BY DEF RateInit
  <2>5. rateClock \in 0 .. RateHorizon /\ rateRedis \in BOOLEAN
    BY <2>1 DEF RateInit
  <2> QED BY <2>2, <2>3, <2>4, <2>5 DEF RateTypeOK, HitShape
<1>2. StampsArePast /\ CountedStay
  BY DEF RateInit, StampsArePast, CountedStay
<1>3. \A path \in Paths : Passed(path) = {}
  BY DEF RateInit, Passed
<1>4. \A path \in Paths : Cardinality(Passed(path)) <= LimitOf[path]
  <2>1. Cardinality({}) = 0 /\ \A path \in Paths : LimitOf[path] \in Nat
    BY FS_EmptySet, RateNumbers
  <2>2. \A path \in Paths : Cardinality(Passed(path)) = 0
    BY <1>3, <2>1
  <2> QED BY <2>1, <2>2
<1>5. WindowNow
  BY <1>4 DEF WindowNow
<1>6. \A path \in Paths, from \in 0 .. RateHorizon : Within(path, from) = {}
  BY DEF RateInit, Within
<1>7. \A path \in Paths, from \in 0 .. RateHorizon :
        Cardinality(Within(path, from)) <= LimitOf[path]
  <2>1. Cardinality({}) = 0 /\ \A path \in Paths : LimitOf[path] \in Nat
    BY FS_EmptySet, RateNumbers
  <2>2. \A path \in Paths, from \in 0 .. RateHorizon : Cardinality(Within(path, from)) = 0
    BY <1>6, <2>1
  <2> QED BY <2>1, <2>2
<1>8. WindowHolds
  BY <1>7 DEF WindowHolds, Within
<1> QED BY <1>1, <1>2, <1>5, <1>8 DEF RateInv

\* A request that is not let through in this step.
LEMMA OthersKeep ==
  ASSUME RateInv, NEW h \in Hits, NEW new \in HitShape,
         hit' = [hit EXCEPT ![h] = new], new.pc # "passed", hit[h].pc # "passed",
         new.stamp <= rateClock,
         UNCHANGED <<entries, expires, rateClock>>, rateRedis' \in BOOLEAN
  PROVE  RateInv'
<1>1. hit \in [Hits -> HitShape] /\ hit' \in [Hits -> HitShape]
  BY DEF RateInv, RateTypeOK, HitShape
<1>2. hit'[h] = new /\ \A g \in Hits \ {h} : hit'[g] = hit[g]
  BY <1>1
<1>3. RateTypeOK'
  BY <1>1 DEF RateInv, RateTypeOK, HitShape
<1>4. StampsArePast' /\ CountedStay'
  BY <1>2 DEF RateInv, StampsArePast, CountedStay
<1>5. \A path \in Paths : Passed(path)' = Passed(path)
  BY <1>2 DEF Passed
<1>6. WindowNow'
  BY <1>5 DEF RateInv, WindowNow
<1>7. \A path \in Paths, from \in 0 .. RateHorizon : Within(path, from)' = Within(path, from)
  BY <1>2 DEF Within
<1>8. WindowHolds'
  BY <1>7 DEF RateInv, WindowHolds, Within
<1> QED BY <1>3, <1>4, <1>6, <1>8 DEF RateInv

LEMMA ReadTimeKeeps ==
  ASSUME RateInv, NEW h \in Hits, ReadTime(h) PROVE RateInv'
<1>1. PICK path \in Paths :
        hit' = [hit EXCEPT ![h] =
          [pc |-> IF rateRedis THEN "timed" ELSE WithoutRedis(path),
           path |-> path, stamp |-> rateClock, at |-> 0]]
  BY DEF ReadTime
<1> DEFINE new == [pc |-> IF rateRedis THEN "timed" ELSE WithoutRedis(path),
                   path |-> path, stamp |-> rateClock, at |-> 0]
<1>2. new \in HitShape /\ new.pc # "passed" /\ new.stamp <= rateClock
  BY RateNumbers DEF RateInv, RateTypeOK, HitShape, WithoutRedis
<1>3. hit[h].pc # "passed" /\ UNCHANGED <<entries, expires, rateClock>> /\ rateRedis' \in BOOLEAN
  BY DEF ReadTime, RateInv, RateTypeOK
<1>4. hit' = [hit EXCEPT ![h] = new]
  BY <1>1
<1> HIDE DEF new
<1> QED BY <1>2, <1>3, <1>4, OthersKeep

LEMMA CountFailsKeeps ==
  ASSUME RateInv, NEW h \in Hits, CountFails(h) PROVE RateInv'
<1> DEFINE new == [hit[h] EXCEPT !.pc = WithoutRedis(hit[h].path)]
<1>1. hit[h] \in HitShape /\ hit[h].stamp <= rateClock
  BY DEF RateInv, RateTypeOK, HitShape, StampsArePast
<1>2. new \in HitShape /\ new.pc # "passed" /\ new.stamp <= rateClock
  BY <1>1 DEF HitShape, WithoutRedis
<1>3. hit[h].pc # "passed" /\ UNCHANGED <<entries, expires, rateClock>> /\ rateRedis' \in BOOLEAN
  BY DEF CountFails, RateInv, RateTypeOK
<1>4. hit' = [hit EXCEPT ![h] = new]
  BY DEF CountFails
<1> HIDE DEF new
<1> QED BY <1>2, <1>3, <1>4, OthersKeep

\* The request that is let through has found all the others that count among
\* the entries: they are stamped later than a window before its own stamp.
LEMMA CountKeeps ==
  ASSUME RateInv, NEW h \in Hits, Count(h) PROVE RateInv'
<1> DEFINE path == hit[h].path
           new == [hit[h] EXCEPT !.at = rateClock, !.pc =
                     IF Counted(h) > LimitOf[path] THEN "refused" ELSE "passed"]
           kept == Recent(path, hit[h].stamp) \union {h}
<1>1. hit \in [Hits -> HitShape] /\ path \in Paths
  BY DEF RateInv, RateTypeOK, HitShape
<1>2. hit' = [hit EXCEPT ![h] = new]
  BY DEF Count
<1>3. /\ entries' = [entries EXCEPT ![path] = kept]
      /\ expires' = [expires EXCEPT ![path] = rateClock + Window]
      /\ rateClock' = rateClock /\ rateRedis' = rateRedis
  BY DEF Count
<1>4. /\ new \in HitShape /\ new.path = path /\ new.stamp = hit[h].stamp
      /\ new.at = rateClock
      /\ new.pc \in {"refused", "passed"}
      /\ new.pc = "passed" => ~(Counted(h) > LimitOf[path])
  BY <1>1 DEF HitShape, RateInv, RateTypeOK
<1> HIDE DEF new
<1>5. hit'[h] = new /\ \A g \in Hits \ {h} : hit'[g] = hit[g]
  BY <1>1, <1>2
<1>6. kept \subseteq Hits
  BY DEF Recent, RateInv, RateTypeOK
<1> HIDE DEF kept
<1>7. /\ entries \in [Paths -> SUBSET Hits] /\ rateClock \in 0 .. RateHorizon
      /\ expires \in [Paths -> 0 .. RateHorizon + Window]
      /\ rateClock + Window \in 0 .. RateHorizon + Window
  BY RateNumbers DEF RateInv, RateTypeOK
<1>8. /\ entries'[path] = kept /\ \A p \in Paths \ {path} : entries'[p] = entries[p]
      /\ expires'[path] = rateClock + Window
      /\ \A p \in Paths \ {path} : expires'[p] = expires[p]
  BY <1>1, <1>3, <1>7
<1>9. RateTypeOK'
  <2>1. hit' \in [Hits -> HitShape]
    BY <1>1, <1>2, <1>4
  <2>2. entries' \in [Paths -> SUBSET Hits]
    BY <1>3, <1>6, <1>7
  <2>3. expires' \in [Paths -> 0 .. RateHorizon + Window]
    BY <1>3, <1>7
  <2> QED BY <1>3, <2>1, <2>2, <2>3 DEF RateInv, RateTypeOK, HitShape
<1>10. StampsArePast'
  BY <1>3, <1>4, <1>5 DEF RateInv, StampsArePast
<1>11. \A g \in Hits : hit[g].stamp \in Nat /\ hit[g].path \in Paths
  BY <1>1 DEF HitShape
<1>12. \A g \in Hits \ {h} : /\ hit[g].pc = "passed" /\ hit[g].path = path
                             /\ hit[g].stamp + Window > rateClock
                             => g \in Recent(path, hit[h].stamp)
  BY <1>7, <1>11, RateNumbers DEF RateInv, CountedStay, StampsArePast, Recent
<1>13. CountedStay'
  <2> SUFFICES ASSUME NEW g \in Hits, hit'[g].pc = "passed",
                      hit'[g].stamp + Window > rateClock
               PROVE  /\ g \in entries'[hit'[g].path]
                      /\ expires'[hit'[g].path] >= hit'[g].stamp + Window
    BY <1>3 DEF CountedStay
  <2>1. hit[g].stamp <= rateClock
    BY DEF RateInv, StampsArePast
  <2>2. CASE g = h
    BY <2>1, <2>2, <1>4, <1>5, <1>7, <1>8, <1>11, RateNumbers DEF kept
  <2>3. CASE g # h /\ hit[g].path = path
    BY <2>1, <2>3, <1>5, <1>7, <1>8, <1>11, <1>12, RateNumbers DEF kept
  <2>4. CASE g # h /\ hit[g].path # path
    BY <2>4, <1>5, <1>8, <1>11 DEF RateInv, CountedStay
  <2> QED BY <2>2, <2>3, <2>4
<1>14. ASSUME NEW p \in Paths PROVE Cardinality(Passed(p)') <= LimitOf[p]
  <2>1. Cardinality(Passed(p)) <= LimitOf[p] /\ LimitOf[p] \in Nat
    BY RateNumbers DEF RateInv, WindowNow
  <2>2. CASE h \notin Passed(p)'
    <3>1. Passed(p)' \subseteq Passed(p) /\ Passed(p) \subseteq Hits
      BY <2>2, <1>3, <1>5 DEF Passed
    <3> QED BY <2>1, <3>1, FewerPass
  <2>3. CASE h \in Passed(p)'
    <3>1. p = path /\ new.pc = "passed"
      BY <2>3, <1>4, <1>5 DEF Passed
    <3>2. Passed(p)' \subseteq kept
      BY <3>1, <1>3, <1>5, <1>12 DEF Passed, kept
    <3>3. Cardinality(kept) = Counted(h)
      BY DEF Counted, kept
    <3>4. Cardinality(kept) \in Nat
      BY <1>6, RateNumbers, FS_Subset, FS_CardinalityType
    <3>5. Cardinality(kept) <= LimitOf[p]
      BY <3>1, <3>3, <3>4, <2>1, <1>4
    <3> QED BY <3>2, <3>5, <2>1, <1>6, FewerPass
  <2> QED BY <2>2, <2>3
<1>15. WindowNow'
  BY <1>14 DEF WindowNow
<1>16. ASSUME NEW p \in Paths, NEW from \in 0 .. RateHorizon
       PROVE  Cardinality(Within(p, from)') <= LimitOf[p]
  <2>1. /\ Cardinality(Within(p, from)) <= LimitOf[p]
        /\ Cardinality(Passed(p)') <= LimitOf[p] /\ LimitOf[p] \in Nat
    BY <1>14, RateNumbers DEF RateInv, WindowHolds, Within
  <2>2. CASE h \notin Within(p, from)'
    <3>1. Within(p, from)' \subseteq Within(p, from) /\ Within(p, from) \subseteq Hits
      BY <2>2, <1>5 DEF Within
    <3> QED BY <2>1, <3>1, FewerPass
  <2>3. CASE h \in Within(p, from)'
    <3>1. rateClock < from + Window
      BY <2>3, <1>4, <1>5 DEF Within
    <3>2. Within(p, from)' \subseteq Passed(p)' /\ Passed(p)' \subseteq Hits
      <4> SUFFICES ASSUME NEW g \in Within(p, from)' PROVE g \in Passed(p)'
        BY DEF Passed
      <4>1. g \in Hits /\ hit'[g].stamp \in Nat /\ from <= hit'[g].stamp
        BY <1>4, <1>5, <1>11 DEF Within
      <4>2. hit'[g].stamp + Window > rateClock
        BY <3>1, <4>1, <1>7, RateNumbers
      <4> QED BY <4>1, <4>2, <1>3 DEF Within, Passed
    <3> QED BY <2>1, <3>2, FewerPass
  <2> QED BY <2>2, <2>3
<1>17. WindowHolds'
  BY <1>16 DEF WindowHolds, Within
<1> QED BY <1>9, <1>10, <1>13, <1>15, <1>17 DEF RateInv

LEMMA RateTickKeeps == ASSUME RateInv, RateTick PROVE RateInv'
<1>1. /\ hit' = hit /\ expires' = expires /\ rateRedis' = rateRedis
      /\ rateClock' = rateClock + 1 /\ rateClock < RateHorizon
      /\ entries' = [p \in Paths |-> IF expires[p] <= rateClock' THEN {} ELSE entries[p]]
  BY DEF RateTick
<1>2. hit \in [Hits -> HitShape]
  BY DEF RateInv, RateTypeOK, HitShape
<1>3. /\ rateClock \in Nat /\ \A p \in Paths : expires[p] \in Nat
      /\ \A h \in Hits : hit[h].stamp \in Nat /\ hit[h].path \in Paths
  BY <1>2, RateNumbers DEF RateInv, RateTypeOK, HitShape
<1>4. RateTypeOK'
  BY <1>1, RateNumbers DEF RateInv, RateTypeOK
<1>5. StampsArePast'
  BY <1>1, <1>3 DEF RateInv, StampsArePast
<1>6. CountedStay'
  BY <1>1, <1>3, RateNumbers DEF RateInv, CountedStay
<1>7. ASSUME NEW p \in Paths PROVE Cardinality(Passed(p)') <= LimitOf[p]
  <2>1. Cardinality(Passed(p)) <= LimitOf[p] /\ LimitOf[p] \in Nat
    BY RateNumbers DEF RateInv, WindowNow
  <2>2. Passed(p)' \subseteq Passed(p) /\ Passed(p) \subseteq Hits
    BY <1>1, <1>3, RateNumbers DEF Passed
  <2> QED BY <2>1, <2>2, FewerPass
<1>8. WindowNow'
  BY <1>7 DEF WindowNow
<1>9. WindowHolds'
  BY <1>1 DEF RateInv, WindowHolds
<1> QED BY <1>4, <1>5, <1>6, <1>8, <1>9 DEF RateInv

LEMMA NextRate == RateInv /\ [RateNext]_rateVars => RateInv'
<1> SUFFICES ASSUME RateInv, [RateNext]_rateVars PROVE RateInv'
  OBVIOUS
<1>1. CASE RateOutage \/ UNCHANGED rateVars
  <2>1. /\ hit' = hit /\ entries' = entries /\ expires' = expires
        /\ rateClock' = rateClock /\ rateRedis' \in BOOLEAN
    BY <1>1 DEF RateOutage, rateVars, RateInv, RateTypeOK
  <2> QED BY <2>1 DEF RateInv, RateTypeOK, StampsArePast, CountedStay, WindowNow, Passed,
                        WindowHolds
<1> QED BY <1>1, ReadTimeKeeps, CountKeeps, CountFailsKeeps, RateTickKeeps DEF RateNext

LEMMA RateInvariant == RateSpec => []RateInv
BY InitRate, NextRate, PTL DEF RateSpec

\* For any number of requests, any limit and window: in no stretch of a
\* window's length are more requests than the limit stamped and let through
\* (RateLimitMiddleware.dispatch).
THEOREM LimitsHold == RateSpec => []WindowHolds
<1>1. RateInv => WindowHolds
  BY DEF RateInv
<1> QED BY <1>1, RateInvariant, PTL

-----------------------------------------------------------------------------
(***************************************************************************)
(* Unique names. The names a request holds come before the ones it has     *)
(* left (HeldFits), and a name an import has met stays taken until it is   *)
(* given up (AgainFits).                                                   *)
(***************************************************************************)

OneName == {<<t>> : t \in Tables}
Todos == {<<>>, <<"pipeline", "environment">>} \union OneName

SlotShape == [st : {"free", "held", "live", "gone"}, by : NameReqs \union {NoOne}]
NameReqShape ==
  [pc : {"idle", "look", "insert", "again", "commit"}, op : {"none", "create", "import"},
   todo : Todos, lost : SUBSET Imported, answer : {"none", "409", "500"}]

NamesShape ==
  /\ slot \in [Tables -> SlotShape]
  /\ \A t \in Tables : slot[t].st = "held" <=> slot[t].by # NoOne
  /\ nreq \in [NameReqs -> NameReqShape]

\* A request that runs has a name left to get, an import one that it gets
\* after those it has; a request about to commit has none left.
TodoFits(req) ==
  /\ req.pc \in {"look", "insert", "again"} =>
       IF req.op = "import"
       THEN req.todo \in {<<"pipeline", "environment">>, <<"environment">>}
       ELSE req.op = "create" /\ req.todo \in OneName
  /\ req.pc = "again" => req.op = "import"
  /\ req.pc = "commit" => req.todo = <<>>

\* The name t comes before all that is left.
TakenBefore(t, todo) == todo = <<>> \/ (t = "pipeline" /\ todo = <<"environment">>)

TodosFit == \A r \in NameReqs : TodoFits(nreq[r])

HeldFits ==
  \A r \in NameReqs : \A t \in Tables :
    slot[t].by = r => nreq[r].pc # "idle" /\ TakenBefore(t, nreq[r].todo)

\* The name an import has met is still there, or was given up meanwhile.
MetAgain(req) ==
  req.pc = "again" => \/ slot[Head(req.todo)].st \in {"live", "gone"}
                      \/ Head(req.todo) \in req.lost

AgainFits == \A r \in NameReqs : MetAgain(nreq[r])

NamesInv == NamesShape /\ TodosFit /\ HeldFits /\ AgainFits /\ ImportsAreAnswered

LEMMA TodoHeads ==
  /\ <<>> \in Todos /\ OneName \subseteq Todos
  /\ <<"pipeline", "environment">> \in Todos /\ <<"environment">> \in OneName
  /\ \A t : <<t>> # <<>> /\ Head(<<t>>) = t /\ Tail(<<t>>) = <<>> /\ Len(<<t>>) = 1
  /\ <<"pipeline", "environment">> # <<>> /\ Head(<<"pipeline", "environment">>) = "pipeline"
  /\ Tail(<<"pipeline", "environment">>) = <<"environment">>
  /\ Len(<<"pipeline", "environment">>) = 2
  /\ <<"pipeline", "environment">> \notin OneName
  /\ \A t \in Tables : <<t>> = <<"environment">> => t = "environment"
BY DEF Todos, OneName, Tables, Imported

\* What a running request has left, in each of its states.
LEMMA TodoCases ==
  ASSUME NamesInv, NEW r \in NameReqs, nreq[r].pc \in {"look", "insert", "again"}
  PROVE  /\ nreq[r].op \in {"create", "import"}
         /\ Head(nreq[r].todo) \in Tables
         /\ \/ nreq[r].todo \in OneName /\ nreq[r].op = "create"
            \/ nreq[r].todo = <<"environment">> /\ nreq[r].op = "import"
            \/ nreq[r].todo = <<"pipeline", "environment">> /\ nreq[r].op = "import"
BY TodoHeads DEF NamesInv, TodosFit, TodoFits, OneName, Tables, Imported

LEMMA InitNames == NamesInit => NamesInv
<1> SUFFICES ASSUME NamesInit PROVE NamesInv
  OBVIOUS
<1>1. slot \in [Tables -> SlotShape] /\ \A t \in Tables : slot[t].st = "free" /\ slot[t].by = NoOne
  BY DEF NamesInit, SlotShape
<1>2. IdleName \in NameReqShape
  BY TodoHeads DEF IdleName, NameReqShape
<1>3. nreq \in [NameReqs -> NameReqShape]
  BY <1>2 DEF NamesInit
<1>4. \A r \in NameReqs : nreq[r].pc = "idle" /\ nreq[r].op = "none"
  BY DEF NamesInit, IdleName
<1>5. \A r \in NameReqs : r # NoOne
  BY NamesAssumption
<1> QED BY <1>1, <1>3, <1>4, <1>5
        DEF NamesInv, NamesShape, TodosFit, TodoFits, HeldFits, AgainFits, MetAgain,
            ImportsAreAnswered

\* A request goes on without writing a row.
LEMMA RequestGoesOn ==
  ASSUME NamesInv, NEW r \in NameReqs, NEW new \in NameReqShape,
         nreq' = [nreq EXCEPT ![r] = new], slot' = slot,
         TodoFits(new), MetAgain(new), new.pc # "idle",
         \A t \in Tables : slot[t].by = r => TakenBefore(t, new.todo)
  PROVE  NamesInv'
<1>1. nreq' \in [NameReqs -> NameReqShape]
  BY DEF NamesInv, NamesShape
<1>2. nreq'[r] = new /\ \A q \in NameReqs \ {r} : nreq'[q] = nreq[q]
  BY DEF NamesInv, NamesShape
<1>3. NamesShape'
  BY <1>1 DEF NamesInv, NamesShape
<1>4. TodosFit'
  BY <1>2 DEF NamesInv, TodosFit, TodoFits
<1>5. HeldFits'
  BY <1>2 DEF NamesInv, HeldFits
<1>6. AgainFits'
  BY <1>2 DEF NamesInv, AgainFits, MetAgain
<1>7. ImportsAreAnswered'
  BY <1>2 DEF NamesInv, ImportsAreAnswered
<1> QED BY <1>3, <1>4, <1>5, <1>6, <1>7 DEF NamesInv

\* A transaction ends; an import is refused for a name that is gone or lost.
LEMMA EndKeeps ==
  ASSUME NamesInv, NEW r \in NameReqs, NEW st \in {"live", "free"}, NEW answer,
         End(r, st, answer), nreq[r].pc # "idle",
         nreq[r].op = "import" =>
           /\ answer # "500"
           /\ answer = "409" =>
                nreq[r].lost # {} \/ \E t \in Imported : slot[t].st = "gone"
  PROVE  NamesInv'
<1> DEFINE new == IF answer \in {"409", "500"}
                  THEN [nreq[r] EXCEPT !.pc = "idle", !.answer = answer] ELSE IdleName
<1>1. nreq[r] \in NameReqShape /\ IdleName \in NameReqShape
  BY TodoHeads DEF NamesInv, NamesShape, IdleName, NameReqShape
<1>2. nreq' = [nreq EXCEPT ![r] = new]
  BY DEF End
<1>3. /\ new \in NameReqShape /\ new.pc = "idle"
      /\ new.op = "import" => /\ nreq[r].op = "import" /\ new.lost = nreq[r].lost
                              /\ answer \in {"409", "500"} /\ new.answer = answer
  BY <1>1 DEF NameReqShape, IdleName
<1> HIDE DEF new
<1>4. nreq'[r] = new /\ \A q \in NameReqs \ {r} : nreq'[q] = nreq[q]
  BY <1>2 DEF NamesInv, NamesShape
<1>5. /\ slot' = [t \in Tables |-> IF slot[t].by = r THEN [st |-> st, by |-> NoOne]
                                   ELSE slot[t]]
  BY DEF End
<1>6. /\ \A t \in Tables : slot[t].by = r => slot'[t].st = st /\ slot'[t].by = NoOne
      /\ \A t \in Tables : slot[t].by # r => slot'[t] = slot[t]
  BY <1>5
<1>7. r # NoOne
  BY NamesAssumption
<1>8. NamesShape'
  <2>1. nreq' \in [NameReqs -> NameReqShape]
    BY <1>2, <1>3 DEF NamesInv, NamesShape
  <2>2. [st |-> st, by |-> NoOne] \in SlotShape
    BY DEF SlotShape
  <2>3. slot' \in [Tables -> SlotShape]
    BY <1>5, <2>2 DEF NamesInv, NamesShape
  <2>4. \A t \in Tables : slot'[t].st = "held" <=> slot'[t].by # NoOne
    BY <1>6 DEF NamesInv, NamesShape
  <2> QED BY <2>1, <2>3, <2>4 DEF NamesShape
<1>9. TodosFit'
  BY <1>3, <1>4 DEF NamesInv, TodosFit, TodoFits
<1>10. HeldFits'
  BY <1>4, <1>6, NamesAssumption DEF NamesInv, HeldFits
<1>11. \A t \in Tables : slot[t].st \in {"live", "gone"} => slot'[t] = slot[t]
  BY <1>6, <1>7 DEF NamesInv, NamesShape
<1>12. AgainFits'
  <2> SUFFICES ASSUME NEW q \in NameReqs, nreq'[q].pc = "again"
               PROVE  \/ slot'[Head(nreq'[q].todo)].st \in {"live", "gone"}
                      \/ Head(nreq'[q].todo) \in nreq'[q].lost
    BY DEF AgainFits, MetAgain
  <2>1. nreq'[q] = nreq[q]
    BY <1>3, <1>4
  <2>2. Head(nreq[q].todo) \in Tables
    BY <2>1, TodoCases
  <2> QED BY <2>1, <2>2, <1>11 DEF NamesInv, AgainFits, MetAgain
<1>13. ImportsAreAnswered'
  BY <1>3, <1>4, <1>11 DEF NamesInv, ImportsAreAnswered, Tables
<1> QED BY <1>8, <1>9, <1>10, <1>12, <1>13 DEF NamesInv

LEMMA StartNameKeeps ==
  ASSUME NamesInv, NEW r \in NameReqs, NEW op \in {"create", "import"},
         NEW pc \in {"look", "insert"}, NEW todo \in Todos, StartName(r, op, pc, todo),
         IF op = "import" THEN todo = <<"pipeline", "environment">> ELSE todo \in OneName
  PROVE  NamesInv'
<1> DEFINE new == [IdleName EXCEPT !.op = op, !.pc = pc, !.todo = todo]
<1>1. new \in NameReqShape /\ TodoFits(new) /\ new.pc # "idle" /\ new.pc # "again"
  BY TodoHeads DEF NameReqShape, IdleName, TodoFits
<1>2. nreq' = [nreq EXCEPT ![r] = new] /\ slot' = slot /\ nreq[r].pc = "idle"
  BY DEF StartName
<1>3. \A t \in Tables : slot[t].by # r
  BY <1>2 DEF NamesInv, HeldFits
<1>4. MetAgain(new)
  BY <1>1 DEF MetAgain
<1> HIDE DEF new
<1> QED BY <1>1, <1>2, <1>3, <1>4, RequestGoesOn

LEMMA StartsKeep ==
  ASSUME NamesInv, NEW r \in NameReqs,
         \/ CreateProjectRow(r) \/ AddMember(r) \/ CreateCredential(r)
         \/ CreatePipeline(r) \/ CreateEnvironment(r) \/ StartImport(r)
  PROVE  NamesInv'
<1>1. {<<"project">>, <<"member">>, <<"credential">>, <<"pipeline">>, <<"environment">>}
        \subseteq OneName
  BY DEF OneName, Tables, Imported
<1>2. CASE StartImport(r)
  BY <1>2, TodoHeads, StartNameKeeps DEF StartImport, ImportOrder
<1>3. CASE CreateProjectRow(r) \/ AddMember(r) \/ CreateCredential(r)
  BY <1>1, <1>3, TodoHeads, StartNameKeeps DEF CreateProjectRow, AddMember, CreateCredential
<1>4. CASE CreatePipeline(r) \/ CreateEnvironment(r)
  BY <1>1, <1>4, TodoHeads, StartNameKeeps DEF CreatePipeline, CreateEnvironment
<1> QED BY <1>2, <1>3, <1>4

\* The request that has its row: what it has left, and that what it held comes
\* before that.
LEMMA HasFits ==
  ASSUME NamesInv, NEW r \in NameReqs, nreq[r].pc \in {"look", "insert", "again"}
  PROVE  \E new \in NameReqShape :
           /\ Has(r) = [nreq EXCEPT ![r] = new]
           /\ TodoFits(new) /\ new.pc \in {"look", "commit"}
           /\ TakenBefore(Head(nreq[r].todo), new.todo)
           /\ \A t \in Tables : slot[t].by = r => TakenBefore(t, new.todo)
<1> DEFINE q == nreq[r]
           rest == Tail(q.todo)
           pc == IF Len(q.todo) = 1 THEN "commit" ELSE "look"
           new == [q EXCEPT !.todo = rest, !.pc = pc]
<1>1. q \in NameReqShape /\ Has(r) = [nreq EXCEPT ![r] = new]
  BY DEF NamesInv, NamesShape, Has
<1>2. CASE Len(q.todo) = 1 /\ Tail(q.todo) = <<>>
  <2>1. new \in NameReqShape /\ new.todo = <<>> /\ new.pc = "commit"
    BY <1>1, <1>2, TodoHeads DEF NameReqShape
  <2>2. TodoFits(new)
    BY <2>1 DEF TodoFits
  <2> QED BY <1>1, <2>1, <2>2 DEF TakenBefore
<1>3. CASE q.todo = <<"pipeline", "environment">> /\ q.op = "import"
  <2>1. rest = <<"environment">> /\ pc = "look" /\ <<"environment">> \in Todos
    BY <1>3, TodoHeads
  <2> HIDE DEF rest, pc
  <2>2. /\ new \in NameReqShape /\ new.todo = <<"environment">> /\ new.pc = "look"
        /\ new.op = "import"
    BY <1>1, <1>3, <2>1 DEF NameReqShape
  <2>3. TodoFits(new)
    BY <2>2 DEF TodoFits
  <2>4. \A t \in Tables : slot[t].by # r
    BY <1>3, TodoHeads DEF NamesInv, HeldFits, TakenBefore
  <2> QED BY <1>1, <1>3, <2>2, <2>3, <2>4, TodoHeads DEF TakenBefore
<1>4. \A todo \in OneName : Len(todo) = 1 /\ Tail(todo) = <<>>
  BY TodoHeads DEF OneName
<1>5. \/ Len(q.todo) = 1 /\ Tail(q.todo) = <<>>
      \/ q.todo = <<"pipeline", "environment">> /\ q.op = "import"
  BY <1>4, TodoCases, TodoHeads
<1> QED BY <1>2, <1>3, <1>5

LEMMA HasKeeps ==
  ASSUME NamesInv, NEW r \in NameReqs, nreq[r].pc \in {"look", "again"},
         nreq' = Has(r), slot' = slot
  PROVE  NamesInv'
<1>1. PICK new \in NameReqShape :
        /\ Has(r) = [nreq EXCEPT ![r] = new]
        /\ TodoFits(new) /\ new.pc \in {"look", "commit"}
        /\ \A t \in Tables : slot[t].by = r => TakenBefore(t, new.todo)
  BY HasFits
<1>2. MetAgain(new)
  BY <1>1 DEF MetAgain
<1> QED BY <1>1, <1>2, RequestGoesOn

\* A request stays with the name at the head of what is left.
LEMMA StayKeeps ==
  ASSUME NamesInv, NEW r \in NameReqs, nreq[r].pc \in {"look", "insert"},
         NEW pc \in {"insert", "again"}, nreq' = [nreq EXCEPT ![r].pc = pc], slot' = slot,
         pc = "again" => /\ nreq[r].op = "import"
                         /\ slot[Head(nreq[r].todo)].st \in {"live", "gone"}
  PROVE  NamesInv'
<1> DEFINE new == [nreq[r] EXCEPT !.pc = pc]
<1>1. nreq[r] \in NameReqShape /\ nreq' = [nreq EXCEPT ![r] = new]
  BY DEF NamesInv, NamesShape
<1>2. new \in NameReqShape /\ new.pc = pc /\ new.op = nreq[r].op /\ new.todo = nreq[r].todo
  BY <1>1 DEF NameReqShape
<1> HIDE DEF new
<1>3. TodoFits(new) /\ MetAgain(new)
  BY <1>2 DEF NamesInv, TodosFit, TodoFits, MetAgain
<1>4. \A t \in Tables : slot[t].by = r => TakenBefore(t, new.todo)
  BY <1>2 DEF NamesInv, HeldFits
<1> QED BY <1>1, <1>2, <1>3, <1>4, RequestGoesOn

LEMMA LookKeeps ==
  ASSUME NamesInv, NEW r \in NameReqs, Look(r) PROVE NamesInv'
<1> DEFINE t == Head(nreq[r].todo)
<1>1. nreq[r].pc = "look"
  BY DEF Look
<1>2. CASE ~Visible(r, t)
  <2>1. nreq' = [nreq EXCEPT ![r].pc = "insert"] /\ slot' = slot
    BY <1>2 DEF Look
  <2> QED BY <1>1, <2>1, StayKeeps
<1>3. CASE Visible(r, t) /\ nreq[r].op = "import"
  <2>1. nreq' = Has(r) /\ slot' = slot
    BY <1>3 DEF Look
  <2> QED BY <1>1, <2>1, HasKeeps
<1>4. CASE Visible(r, t) /\ nreq[r].op # "import"
  <2>1. End(r, "free", "409")
    BY <1>4 DEF Look, Rollback
  <2> QED BY <1>1, <1>4, <2>1, EndKeeps
<1> QED BY <1>2, <1>3, <1>4

LEMMA InsertKeeps ==
  ASSUME NamesInv, NEW r \in NameReqs, Insert(r) PROVE NamesInv'
<1> DEFINE t == Head(nreq[r].todo)
<1>1. nreq[r].pc = "insert" /\ t \in Tables
  BY TodoCases DEF Insert
<1>2. CASE slot[t].st \in {"live", "gone"} /\ OnDuplicate(r)
  <2>1. CASE nreq[r].op = "import"
    BY <1>1, <1>2, <2>1, StayKeeps DEF OnDuplicate
  <2>2. CASE nreq[r].op # "import"
    BY <1>1, <1>2, <2>2, EndKeeps DEF OnDuplicate, Rollback
  <2> QED BY <2>1, <2>2
<1>3. CASE /\ slot[t].st = "free"
           /\ slot' = [slot EXCEPT ![t] = [st |-> "held", by |-> r]]
           /\ nreq' = Has(r)
  <2>1. PICK new \in NameReqShape :
          /\ Has(r) = [nreq EXCEPT ![r] = new]
          /\ TodoFits(new) /\ new.pc \in {"look", "commit"}
          /\ TakenBefore(t, new.todo)
          /\ \A u \in Tables : slot[u].by = r => TakenBefore(u, new.todo)
    BY <1>1, HasFits
  <2>2. nreq' = [nreq EXCEPT ![r] = new]
    BY <1>3, <2>1
  <2>3. nreq'[r] = new /\ \A q \in NameReqs \ {r} : nreq'[q] = nreq[q]
    BY <2>2 DEF NamesInv, NamesShape
  <2>4. /\ slot'[t].st = "held" /\ slot'[t].by = r
        /\ \A u \in Tables \ {t} : slot'[u] = slot[u]
    BY <1>1, <1>3 DEF NamesInv, NamesShape
  <2>5. r # NoOne
    BY NamesAssumption
  <2>6. NamesShape'
    <3>1. [st |-> "held", by |-> r] \in SlotShape
      BY DEF SlotShape
    <3>2. slot' \in [Tables -> SlotShape]
      BY <1>1, <1>3, <3>1 DEF NamesInv, NamesShape
    <3>3. nreq' \in [NameReqs -> NameReqShape]
      BY <2>2 DEF NamesInv, NamesShape
    <3> QED BY <2>4, <2>5, <3>2, <3>3 DEF NamesInv, NamesShape
  <2>7. TodosFit'
    BY <2>1, <2>3 DEF NamesInv, TodosFit, TodoFits
  <2>8. HeldFits'
    <3> SUFFICES ASSUME NEW q \in NameReqs, NEW u \in Tables, slot'[u].by = q
                 PROVE  nreq'[q].pc # "idle" /\ TakenBefore(u, nreq'[q].todo)
      BY DEF HeldFits
    <3>1. CASE u = t
      BY <3>1, <2>1, <2>3, <2>4
    <3>2. CASE u # t /\ q = r
      BY <3>2, <2>1, <2>3, <2>4
    <3>3. CASE u # t /\ q # r
      BY <3>3, <2>3, <2>4 DEF NamesInv, HeldFits
    <3> QED BY <3>1, <3>2, <3>3
  <2>9. AgainFits'
    <3> SUFFICES ASSUME NEW q \in NameReqs, nreq'[q].pc = "again"
                 PROVE  \/ slot'[Head(nreq'[q].todo)].st \in {"live", "gone"}
                        \/ Head(nreq'[q].todo) \in nreq'[q].lost
      BY DEF AgainFits, MetAgain
    <3>1. nreq'[q] = nreq[q]
      BY <2>1, <2>3
    <3>2. Head(nreq[q].todo) \in Tables
      BY <3>1, TodoCases
    <3> QED BY <3>1, <3>2, <1>3, <2>4 DEF NamesInv, AgainFits, MetAgain
  <2>10. ImportsAreAnswered'
    BY <1>3, <2>1, <2>3, <2>4 DEF NamesInv, ImportsAreAnswered, Tables
  <2> QED BY <2>6, <2>7, <2>8, <2>9, <2>10 DEF NamesInv
<1> QED BY <1>2, <1>3 DEF Insert

LEMMA LookAgainKeeps ==
  ASSUME NamesInv, NEW r \in NameReqs, LookAgain(r) PROVE NamesInv'
<1> DEFINE t == Head(nreq[r].todo)
<1>1. nreq[r].pc = "again"
  BY DEF LookAgain
<1>2. CASE Visible(r, t)
  BY <1>1, <1>2, HasKeeps DEF LookAgain
<1>3. CASE ~Visible(r, t)
  <2>1. End(r, "free", "409")
    BY <1>3 DEF LookAgain, Rollback
  <2>2. t \in Imported
    BY <1>1, TodoHeads DEF NamesInv, TodosFit, TodoFits, Imported
  <2>3. slot[t].st = "gone" \/ nreq[r].lost # {}
    BY <1>1, <1>3 DEF NamesInv, AgainFits, MetAgain, Visible
  <2> QED BY <1>1, <2>1, <2>2, <2>3, EndKeeps
<1> QED BY <1>2, <1>3

LEMMA EndsKeep ==
  ASSUME NamesInv, NEW r \in NameReqs, CommitNames(r) \/ FailName(r) PROVE NamesInv'
<1>1. CASE CommitNames(r)
  BY <1>1, EndKeeps DEF CommitNames
<1>2. CASE FailName(r)
  BY <1>2, EndKeeps DEF FailName, Rollback
<1> QED BY <1>1, <1>2

LEMMA SoftDeleteKeeps ==
  ASSUME NamesInv, NEW t \in Tables, SoftDelete(t) PROVE NamesInv'
<1>1. /\ slot[t].st = "live" /\ slot' = [slot EXCEPT ![t].st = "gone"] /\ nreq' = nreq
  BY DEF SoftDelete
<1>2. /\ slot' \in [Tables -> SlotShape] /\ slot'[t].st = "gone" /\ slot'[t].by = slot[t].by
      /\ \A u \in Tables \ {t} : slot'[u] = slot[u]
  BY <1>1 DEF NamesInv, NamesShape, SlotShape
<1>3. NamesShape'
  BY <1>1, <1>2 DEF NamesInv, NamesShape
<1>4. TodosFit' /\ HeldFits'
  BY <1>1, <1>2 DEF NamesInv, TodosFit, HeldFits
<1>5. AgainFits'
  <2> SUFFICES ASSUME NEW q \in NameReqs, nreq[q].pc = "again"
               PROVE  \/ slot'[Head(nreq[q].todo)].st \in {"live", "gone"}
                      \/ Head(nreq[q].todo) \in nreq[q].lost
    BY <1>1 DEF AgainFits, MetAgain
  <2>1. Head(nreq[q].todo) \in Tables
    BY TodoCases
  <2> QED BY <2>1, <1>2 DEF NamesInv, AgainFits, MetAgain
<1>6. ImportsAreAnswered'
  BY <1>1, <1>2 DEF NamesInv, ImportsAreAnswered, Tables
<1> QED BY <1>3, <1>4, <1>5, <1>6 DEF NamesInv

LEMMA GiveUpNameKeeps ==
  ASSUME NamesInv, NEW t \in Imported, GiveUpName(t) PROVE NamesInv'
<1>1. /\ slot[t].st = "live" /\ slot' = [slot EXCEPT ![t].st = "free"] /\ t \in Tables
      /\ nreq' = [r \in NameReqs |-> IF nreq[r].pc = "idle" THEN nreq[r]
                    ELSE [nreq[r] EXCEPT !.lost = @ \union {t}]]
  BY DEF GiveUpName, Tables
<1>2. /\ slot' \in [Tables -> SlotShape] /\ slot'[t].st = "free" /\ slot'[t].by = slot[t].by
      /\ \A u \in Tables \ {t} : slot'[u] = slot[u]
  BY <1>1 DEF NamesInv, NamesShape, SlotShape
<1>3. /\ nreq' \in [NameReqs -> NameReqShape]
      /\ \A r \in NameReqs :
           /\ nreq'[r].pc = nreq[r].pc /\ nreq'[r].op = nreq[r].op
           /\ nreq'[r].todo = nreq[r].todo /\ nreq[r].lost \subseteq nreq'[r].lost
           /\ nreq[r].pc = "idle" => nreq'[r] = nreq[r]
           /\ nreq[r].pc # "idle" => t \in nreq'[r].lost
  BY <1>1 DEF NamesInv, NamesShape, NameReqShape
<1>4. NamesShape'
  BY <1>1, <1>2, <1>3 DEF NamesInv, NamesShape
<1>5. TodosFit'
  BY <1>3 DEF NamesInv, TodosFit, TodoFits
<1>6. HeldFits'
  BY <1>2, <1>3 DEF NamesInv, HeldFits
<1>7. AgainFits'
  <2> SUFFICES ASSUME NEW q \in NameReqs, nreq[q].pc = "again"
               PROVE  \/ slot'[Head(nreq[q].todo)].st \in {"live", "gone"}
                      \/ Head(nreq[q].todo) \in nreq'[q].lost
    BY <1>3 DEF AgainFits, MetAgain
  <2>1. Head(nreq[q].todo) \in Tables
    BY TodoCases
  <2> QED BY <2>1, <1>2, <1>3 DEF NamesInv, AgainFits, MetAgain
<1>8. ImportsAreAnswered'
  BY <1>1, <1>2, <1>3 DEF NamesInv, ImportsAreAnswered, Tables
<1> QED BY <1>4, <1>5, <1>6, <1>7, <1>8 DEF NamesInv

LEMMA NextNames == NamesInv /\ [NamesNext]_nameVars => NamesInv'
<1> SUFFICES ASSUME NamesInv, [NamesNext]_nameVars PROVE NamesInv'
  OBVIOUS
<1>1. CASE UNCHANGED nameVars
  BY <1>1 DEF nameVars, NamesInv, NamesShape, TodosFit, HeldFits, AgainFits, MetAgain,
              ImportsAreAnswered
<1>2. CASE \/ DeleteProjectRow \/ RemoveMember \/ DeleteCredential \/ DeletePipeline
           \/ DeleteEnvironment
  <2>1. \E t \in Tables : SoftDelete(t)
    BY <1>2 DEF DeleteProjectRow, RemoveMember, DeleteCredential, DeletePipeline,
                DeleteEnvironment, Tables, Imported
  <2> QED BY <2>1, SoftDeleteKeeps
<1>3. CASE RenamePipeline \/ RenameEnvironment
  <2>1. \E t \in Imported : GiveUpName(t)
    BY <1>3 DEF RenamePipeline, RenameEnvironment, Imported
  <2> QED BY <2>1, GiveUpNameKeeps
<1>4. ASSUME NEW r \in NameReqs,
             \/ CreateProjectRow(r) \/ AddMember(r) \/ CreateCredential(r)
             \/ CreatePipeline(r) \/ CreateEnvironment(r) \/ StartImport(r)
             \/ Look(r) \/ Insert(r) \/ LookAgain(r) \/ CommitNames(r) \/ FailName(r)
      PROVE  NamesInv'
  BY <1>4, StartsKeep, LookKeeps, InsertKeeps, LookAgainKeeps, EndsKeep
<1> QED BY <1>1, <1>2, <1>3, <1>4 DEF NamesNext

LEMMA NamesInvariant == NamesSpec => []NamesInv
BY InitNames, NextNames, PTL DEF NamesSpec

\* Two requests that waited for one another would both hold a pipeline and
\* both wait for an environment, so that no number of them can block one
\* another (import_run_results, create_pipeline, create_environment).
THEOREM NoNameCycle == NamesSpec => []NamesAreTakenInOrder
<1>1. NamesInv => NamesAreTakenInOrder
  <2> SUFFICES ASSUME NamesInv, NEW r \in NameReqs, NEW q \in NameReqs,
                      NameWaits(r, q), NameWaits(q, r)
               PROVE  FALSE
    BY DEF NamesAreTakenInOrder
  <2>1. /\ Head(nreq[r].todo) \in Tables /\ nreq[r].todo # <<>>
        /\ Head(nreq[q].todo) \in Tables /\ nreq[q].todo # <<>>
    BY TodoCases, TodoHeads DEF NameWaits, OneName
  <2>2. /\ nreq[q].todo = <<"environment">> /\ Head(nreq[r].todo) = "pipeline"
        /\ nreq[r].todo = <<"environment">>
    BY <2>1 DEF NameWaits, NamesInv, HeldFits, TakenBefore
  <2> QED BY <2>2, TodoHeads
<1> QED BY <1>1, NamesInvariant, PTL

\* An import is never answered with an internal error for a name, and with a
\* 409 only if a name is gone or was given up, whatever other requests do
\* (_get_or_create_import_pipeline, _get_or_create_import_environment).
THEOREM ImportsHold == NamesSpec => []ImportsAreAnswered
<1>1. NamesInv => ImportsAreAnswered
  BY DEF NamesInv
<1> QED BY <1>1, NamesInvariant, PTL

-----------------------------------------------------------------------------
(***************************************************************************)
(* Report shares. An ended link has run out by the next tick (LinkIsOver), *)
(* and a preview link is younger than the view that made it                *)
(* (PreviewIsShort).                                                       *)
(***************************************************************************)

\* The expiry a link ends with is over by the next tick; until then views may
\* read it, and once quiet nobody is let through any more.
LinkIsOver ==
  /\ share.there \/ (~ended /\ \A v \in Views : view[v] = NoView)
  /\ ended => share.expires <= shareClock
  /\ quiet # 0 =>
       /\ ended /\ quiet <= shareClock /\ share.expires < shareClock
       /\ \A v \in Views :
            /\ view[v].pc \in {"idle", "read"}
            /\ view[v].pc = "read" => view[v].expires < shareClock

\* A preview link is as old as the view that made it, and what is served was
\* asked for while it lasted.
PreviewIsShort ==
  /\ preview <= shareClock + PreviewTTL
  /\ quiet # 0 => preview < quiet + PreviewTTL
  /\ served # 0 => served < preview

CountsAreBelow == \A v \in Views : view[v].pc = "bump" => view[v].count < MaxAccess

ShareInv == ShareTypeOK /\ LinkIsOver /\ PreviewIsShort /\ CountsAreBelow

LEMMA ShareNumbers ==
  /\ MaxAccess \in Nat \ {0} /\ ShareTTL \in Nat \ {0} /\ PreviewTTL \in Nat \ {0}
  /\ ShareHorizon \in Nat \ {0}
BY ShareAssumption

ViewShape == [pc : {"idle", "read", "bump", "opened"},
              expires : 0 .. ShareHorizon + ShareTTL, count : 0 .. MaxAccess]

RowShape == [there : BOOLEAN, expires : 0 .. ShareHorizon + ShareTTL, count : 0 .. MaxAccess]

LEMMA ShareTypes ==
  ASSUME ShareInv
  PROVE  /\ shareClock \in Nat /\ shareClock <= ShareHorizon /\ quiet \in Nat
         /\ served \in Nat /\ preview \in Nat /\ opened \in Nat
         /\ share \in RowShape /\ view \in [Views -> ViewShape]
         /\ share.expires \in Nat /\ share.count \in Nat
         /\ \A v \in Views : view[v].expires \in Nat /\ view[v].count \in Nat
BY ShareNumbers DEF ShareInv, ShareTypeOK, ShareTimes, ViewShape, RowShape

LEMMA NoViewShape == NoView \in ViewShape /\ NoView.pc = "idle"
<1>1. 0 \in 0 .. ShareHorizon + ShareTTL /\ 0 \in 0 .. MaxAccess
  BY ShareNumbers
<1> QED BY <1>1 DEF NoView, ViewShape

LEMMA InitShare == ShareInit => ShareInv
<1> SUFFICES ASSUME ShareInit PROVE ShareInv
  OBVIOUS
<1>1. ShareTypeOK
  <2>1. /\ 0 \in 0 .. ShareHorizon + ShareTTL /\ 0 \in 0 .. MaxAccess
        /\ 0 \in 0 .. ShareHorizon + PreviewTTL /\ 0 \in 0 .. MaxAccess + 1
        /\ 0 \in ShareTimes /\ 1 \in ShareTimes
    BY ShareNumbers DEF ShareTimes
  <2>2. view \in [Views -> ViewShape]
    BY NoViewShape DEF ShareInit
  <2>3. share \in RowShape
    BY <2>1 DEF ShareInit, RowShape
  <2> QED BY <2>1, <2>2, <2>3 DEF ShareInit, ShareTypeOK, ViewShape, RowShape
<1>2. LinkIsOver /\ PreviewIsShort /\ CountsAreBelow
  BY ShareNumbers, NoViewShape DEF ShareInit, LinkIsOver, PreviewIsShort, CountsAreBelow
<1> QED BY <1>1, <1>2 DEF ShareInv

LEMMA CreateShareKeeps == ASSUME ShareInv, CreateShare PROVE ShareInv'
<1>1. /\ share' = [there |-> TRUE, expires |-> shareClock + ShareTTL, count |-> 0]
      /\ ~share.there
      /\ UNCHANGED <<view, preview, report, shareClock, opened, ended, quiet, served>>
  BY DEF CreateShare, ShareHistory
<1>2. share' \in RowShape
  BY <1>1, ShareTypes, ShareNumbers DEF RowShape
<1>3. ShareTypeOK'
  BY <1>1, <1>2 DEF ShareInv, ShareTypeOK, RowShape
<1>4. ~ended /\ quiet = 0
  BY <1>1 DEF ShareInv, LinkIsOver
<1> QED BY <1>1, <1>3, <1>4 DEF ShareInv, LinkIsOver, PreviewIsShort, CountsAreBelow

LEMMA RevokeShareKeeps == ASSUME ShareInv, RevokeShare PROVE ShareInv'
<1>1. /\ share' = [share EXCEPT !.expires = shareClock] /\ share.there /\ ~ended /\ ended'
      /\ ended' = TRUE
      /\ UNCHANGED <<view, preview, report, shareClock, opened, quiet, served>>
  BY DEF RevokeShare
<1>2. share' \in RowShape /\ share'.there /\ share'.expires = shareClock
  BY <1>1, ShareTypes, ShareNumbers DEF RowShape
<1>3. ShareTypeOK'
  BY <1>1, <1>2 DEF ShareInv, ShareTypeOK, RowShape
<1>4. quiet = 0
  BY <1>1 DEF ShareInv, LinkIsOver
<1> QED BY <1>1, <1>2, <1>3, <1>4, ShareTypes
        DEF ShareInv, LinkIsOver, PreviewIsShort, CountsAreBelow

\* A view moves: it has read the row as it is, or goes on while the link is not
\* quiet yet.
LEMMA ViewMoves ==
  ASSUME ShareInv, NEW v \in Views, NEW new \in ViewShape,
         view' = [view EXCEPT ![v] = new], share.there,
         new.pc = "bump" => new.count < MaxAccess,
         quiet # 0 => /\ new.pc \in {"idle", "read"}
                      /\ new.pc = "read" => new.expires < shareClock,
         UNCHANGED <<share, preview, report, shareClock, opened, ended, quiet, served>>
  PROVE  ShareInv'
<1>1. view' \in [Views -> ViewShape]
  BY ShareTypes
<1>2. view'[v] = new /\ \A u \in Views \ {v} : view'[u] = view[u]
  BY ShareTypes
<1>3. ShareTypeOK'
  BY <1>1 DEF ShareInv, ShareTypeOK, ViewShape
<1>4. LinkIsOver' /\ CountsAreBelow'
  BY <1>2 DEF ShareInv, LinkIsOver, CountsAreBelow
<1>5. PreviewIsShort'
  BY DEF ShareInv, PreviewIsShort
<1> QED BY <1>3, <1>4, <1>5 DEF ShareInv

LEMMA ReadShareKeeps ==
  ASSUME ShareInv, NEW v \in Views, ReadShare(v) PROVE ShareInv'
<1> DEFINE new == [pc |-> "read", expires |-> share.expires, count |-> share.count]
<1>1. new \in ViewShape /\ new.pc = "read" /\ new.expires = share.expires
  BY ShareTypes DEF ViewShape, RowShape
<1>2. /\ view' = [view EXCEPT ![v] = new] /\ share.there
      /\ UNCHANGED <<share, preview, report, shareClock, opened, ended, quiet, served>>
  BY DEF ReadShare, ShareHistory
<1>3. quiet # 0 => share.expires < shareClock
  BY DEF ShareInv, LinkIsOver
<1> HIDE DEF new
<1> QED BY <1>1, <1>2, <1>3, ViewMoves

LEMMA VerifyShareKeeps ==
  ASSUME ShareInv, NEW v \in Views, VerifyShare(v) PROVE ShareInv'
<1> DEFINE new == IF Admits(view[v]) THEN [view[v] EXCEPT !.pc = "bump"] ELSE NoView
<1>1. /\ view[v] \in ViewShape /\ view[v].pc = "read"
      /\ view' = [view EXCEPT ![v] = new]
      /\ UNCHANGED <<share, preview, report, shareClock, opened, ended, quiet, served>>
  BY ShareTypes DEF VerifyShare, ShareHistory
<1>2. view[v] # NoView
  BY <1>1 DEF NoView
<1>3. share.there
  BY <1>2 DEF ShareInv, LinkIsOver
<1>4. quiet # 0 => ~Admits(view[v])
  BY <1>1, ShareTypes DEF ShareInv, LinkIsOver, Admits, ViewShape
<1>5. CASE Admits(view[v])
  <2>1. new = [view[v] EXCEPT !.pc = "bump"]
    BY <1>5
  <2> HIDE DEF new
  <2>2. new \in ViewShape /\ new.pc = "bump" /\ new.count = view[v].count
    BY <1>1, <2>1 DEF ViewShape
  <2>3. new.count < MaxAccess /\ quiet = 0
    BY <1>4, <1>5, <2>2 DEF Admits
  <2> QED BY <1>1, <1>3, <2>2, <2>3, ViewMoves
<1>6. CASE ~Admits(view[v])
  <2>1. new = NoView
    BY <1>6
  <2> HIDE DEF new
  <2>2. new \in ViewShape /\ new.pc = "idle"
    BY <2>1, NoViewShape
  <2> QED BY <1>1, <1>3, <2>2, ViewMoves
<1> QED BY <1>5, <1>6

LEMMA CountViewKeeps ==
  ASSUME ShareInv, NEW v \in Views, CountView(v) PROVE ShareInv'
<1>1. /\ view[v].pc = "bump" /\ view' = [view EXCEPT ![v].pc = "opened"]
      /\ share' = [share EXCEPT !.count = view[v].count + 1]
      /\ opened' = IF opened > MaxAccess THEN opened ELSE opened + 1
      /\ UNCHANGED <<preview, report, shareClock, ended, quiet, served>>
  BY DEF CountView
<1>2. share' \in RowShape /\ share'.there = share.there /\ share'.expires = share.expires
  BY <1>1, ShareTypes, ShareNumbers DEF RowShape, ShareInv, CountsAreBelow
<1>3. view' \in [Views -> ViewShape]
  BY <1>1, ShareTypes DEF ViewShape
<1>4. /\ view'[v].pc = "opened" /\ view'[v].expires = view[v].expires
      /\ \A u \in Views \ {v} : view'[u] = view[u]
  BY <1>1, ShareTypes DEF ViewShape
<1>5. opened' \in 0 .. MaxAccess + 1
  BY <1>1, ShareNumbers DEF ShareInv, ShareTypeOK
<1>6. ShareTypeOK'
  BY <1>1, <1>2, <1>3, <1>5 DEF ShareInv, ShareTypeOK, ViewShape, RowShape
<1>7. quiet = 0 /\ share.there
  BY <1>1, NoViewShape DEF ShareInv, LinkIsOver
<1>8. LinkIsOver' /\ CountsAreBelow' /\ PreviewIsShort'
  BY <1>1, <1>2, <1>4, <1>7 DEF ShareInv, LinkIsOver, CountsAreBelow, PreviewIsShort
<1> QED BY <1>6, <1>8 DEF ShareInv

LEMMA RedirectViewKeeps ==
  ASSUME ShareInv, NEW v \in Views, RedirectView(v) PROVE ShareInv'
<1>1. /\ view[v].pc = "opened" /\ view' = [view EXCEPT ![v] = NoView]
      /\ preview' \in {preview, shareClock + PreviewTTL}
      /\ UNCHANGED <<share, report, shareClock, opened, ended, quiet, served>>
  BY DEF RedirectView, PreviewUntil, ShareHistory
<1>2. quiet = 0 /\ share.there
  BY <1>1, NoViewShape DEF ShareInv, LinkIsOver
<1>3. view' \in [Views -> ViewShape] /\ \A u \in Views \ {v} : view'[u] = view[u]
  BY <1>1, ShareTypes, NoViewShape
<1>4. preview' \in 0 .. ShareHorizon + PreviewTTL /\ preview' >= preview
      /\ preview' <= shareClock + PreviewTTL
  BY <1>1, ShareTypes, ShareNumbers DEF ShareInv, ShareTypeOK, PreviewIsShort
<1>5. ShareTypeOK'
  BY <1>1, <1>3, <1>4 DEF ShareInv, ShareTypeOK, ViewShape
<1>6. LinkIsOver' /\ CountsAreBelow'
  BY <1>1, <1>2, <1>3, ShareTypes, NoViewShape DEF ShareInv, LinkIsOver, CountsAreBelow
<1>7. PreviewIsShort'
  BY <1>1, <1>2, <1>4, ShareTypes DEF ShareInv, PreviewIsShort, ShareTypeOK
<1> QED BY <1>5, <1>6, <1>7 DEF ShareInv

LEMMA ServeKeeps == ASSUME ShareInv, ServePreview \/ StoreReport \/ SweepReport PROVE ShareInv'
<1>1. /\ UNCHANGED <<share, view, preview, shareClock, opened, ended, quiet>>
      /\ report' \in {"none", "stored", "swept"}
      /\ served' = served \/ (served' = shareClock /\ preview > shareClock)
  BY DEF ServePreview, StoreReport, SweepReport, ShareHistory, ShareInv, ShareTypeOK
<1> QED BY <1>1 DEF ShareInv, ShareTypeOK, LinkIsOver, PreviewIsShort, CountsAreBelow

\* The tick after which nobody of the time before is left is when the link
\* becomes quiet: its expiry is past, and a preview link is a tick old.
LEMMA ShareTickKeeps == ASSUME ShareInv, ShareTick PROVE ShareInv'
<1>1. /\ shareClock < ShareHorizon /\ shareClock' = shareClock + 1
      /\ ended' = (ended \/ (share.there /\ share.expires < shareClock'))
      /\ quiet' = IF quiet = 0 /\ ended' /\ \A v \in Views : view[v].pc = "idle"
                  THEN shareClock' ELSE quiet
      /\ UNCHANGED <<share, view, preview, report, opened, served>>
  BY DEF ShareTick
<1>2. ShareTypeOK'
  BY <1>1, ShareTypes, ShareNumbers DEF ShareInv, ShareTypeOK, ShareTimes
<1>3. LinkIsOver'
  BY <1>1, ShareTypes DEF ShareInv, LinkIsOver, ShareTypeOK
<1>4. PreviewIsShort' /\ CountsAreBelow'
  BY <1>1, ShareTypes, ShareNumbers DEF ShareInv, PreviewIsShort, CountsAreBelow
<1> QED BY <1>2, <1>3, <1>4 DEF ShareInv

LEMMA NextShare == ShareInv /\ [ShareNext]_shareVars => ShareInv'
<1> SUFFICES ASSUME ShareInv, [ShareNext]_shareVars PROVE ShareInv'
  OBVIOUS
<1>1. CASE UNCHANGED shareVars
  BY <1>1 DEF shareVars, ShareInv, ShareTypeOK, LinkIsOver, PreviewIsShort, CountsAreBelow
<1> QED BY <1>1, CreateShareKeeps, RevokeShareKeeps, ReadShareKeeps, VerifyShareKeeps,
           CountViewKeeps, RedirectViewKeeps, ServeKeeps, ShareTickKeeps DEF ShareNext

LEMMA ShareInvariant == ShareSpec => []ShareInv
BY InitShare, NextShare, PTL DEF ShareSpec

\* The report is sealed for any number of views, any life of the link and of
\* the preview links (verify_share_token, revoke_share_token,
\* preview_artifact_file).
THEOREM SealHolds == ShareSpec => []ReportIsSealed
<1>1. ShareInv => ReportIsSealed
  <2> SUFFICES ASSUME ShareInv, quiet # 0, served # 0
               PROVE  served < quiet + PreviewTTL
    BY DEF ReportIsSealed
  <2> QED BY ShareTypes, ShareNumbers DEF ShareInv, PreviewIsShort
<1> QED BY <1>1, ShareInvariant, PTL

-----------------------------------------------------------------------------
(***************************************************************************)
(* Project edits. What an edit will write has the secret it has read,      *)
(* unless its body names one (KeepsSecret).                                *)
(***************************************************************************)

\* What an edit in progress will write: settings whose secret is the one it
\* has read unless the body names one.
KeepsSecret(e) ==
  /\ e.pc \in {"check", "project"} /\ ~e.named =>
       e.settings = <<>> \/ (\E s \in Settings : e.settings = <<s>> /\ s.secret = e.read)

EditShape ==
  [pc : {"idle", "check", "project", "drop", "limits"}, settings : Maybe(Settings),
   bind : Maybe(Bindings), lim : Maybe(Limits), read : Secrets, named : BOOLEAN]

ConfigShape ==
  /\ proj \in [settings : Settings, bind : Bindings]
  /\ cred \in {"absent", "live", "gone"}
  /\ limits \in Limits
  /\ edit \in [Editors -> EditShape]
  /\ \A r \in Editors : edit[r].pc = "limits" => edit[r].lim # <<>>

ConfigInv == ConfigShape /\ \A r \in Editors : KeepsSecret(edit[r])

LEMMA MaybeOf ==
  ASSUME NEW S, NEW m \in Maybe(S), m # <<>>
  PROVE  m[1] \in S /\ m = <<m[1]>>
BY DEF Maybe

LEMMA OneOf == ASSUME NEW S, NEW x \in S PROVE <<x>> \in Maybe(S) /\ <<x>> # <<>> /\ <<x>>[1] = x
BY DEF Maybe

LEMMA NoneOf == ASSUME NEW S PROVE <<>> \in Maybe(S)
BY DEF Maybe

LEMMA SecretsHaveZero == 0 \in Secrets
BY ConfigAssumption DEF Secrets

LEMMA IdleEditFits == IdleEdit \in EditShape /\ KeepsSecret(IdleEdit) /\ IdleEdit.pc = "idle"
BY SecretsHaveZero, NoneOf DEF IdleEdit, EditShape, KeepsSecret

LEMMA InitConfig == ConfigInit => ConfigInv
<1> SUFFICES ASSUME ConfigInit PROVE ConfigInv
  OBVIOUS
<1>1. /\ proj \in [settings : Settings, bind : Bindings] /\ limits \in Limits
      /\ cred \in {"absent", "live", "gone"}
  BY SecretsHaveZero DEF ConfigInit, Settings, Bindings, Limits
<1>2. edit \in [Editors -> EditShape] /\ \A r \in Editors : edit[r] = IdleEdit
  BY IdleEditFits DEF ConfigInit
<1> QED BY <1>1, <1>2, IdleEditFits DEF ConfigInv, ConfigShape

\* A request goes on to an edit that keeps the secret.
LEMMA EditGoesOn ==
  ASSUME ConfigInv, NEW r \in Editors, NEW new \in EditShape,
         edit' = [edit EXCEPT ![r] = new], KeepsSecret(new),
         new.pc = "limits" => new.lim # <<>>,
         proj' \in [settings : Settings, bind : Bindings],
         cred' \in {"absent", "live", "gone"}, limits' \in Limits
  PROVE  ConfigInv'
<1>1. edit' \in [Editors -> EditShape]
  BY DEF ConfigInv, ConfigShape
<1>2. edit'[r] = new /\ \A q \in Editors \ {r} : edit'[q] = edit[q]
  BY DEF ConfigInv, ConfigShape
<1>3. \A q \in Editors : KeepsSecret(edit'[q])
  BY <1>2 DEF ConfigInv
<1>4. \A q \in Editors : edit'[q].pc = "limits" => edit'[q].lim # <<>>
  BY <1>2 DEF ConfigInv, ConfigShape
<1> QED BY <1>1, <1>3, <1>4 DEF ConfigInv, ConfigShape, KeepsSecret

\* What update_project computes for a body that does not name a secret keeps
\* the one of the row it has read.
LEMMA NewSettingsFit ==
  ASSUME NEW body \in Bodies, NEW old \in Settings
  PROVE  /\ NewSettings(body, old) \in Settings
         /\ body.secret = <<>> => NewSettings(body, old).secret = old.secret
<1>1. /\ body.settings \in BOOLEAN /\ body.secret \in Maybe(Secrets)
      /\ body.windows \in Maybe(0 .. 1)
  BY DEF Bodies
<1>2. old.secret \in Secrets /\ old.windows \in 0 .. 1
  BY DEF Settings
<1>3. /\ body.secret # <<>> => body.secret[1] \in Secrets
      /\ body.windows # <<>> => body.windows[1] \in 0 .. 1
  BY <1>1, MaybeOf
<1>4. CarryOver(body, old) \in Secrets /\ (body.secret = <<>> => CarryOver(body, old) = old.secret)
  BY <1>2, <1>3 DEF CarryOver
<1> QED BY <1>1, <1>2, <1>3, <1>4 DEF NewSettings, Settings

LEMMA ReadProjectKeeps ==
  ASSUME ConfigInv, NEW r \in Editors, ReadProject(r) PROVE ConfigInv'
<1>1. PICK body \in Bodies :
        LET bind == IF body.bind = <<>> THEN proj.bind ELSE body.bind[1] IN
        edit' = [edit EXCEPT ![r] =
          [IdleEdit EXCEPT
             !.pc = IF bind = "bound" THEN "check" ELSE "project",
             !.settings = Changed(NewSettings(body, proj.settings), proj.settings),
             !.bind = Changed(bind, proj.bind),
             !.read = proj.settings.secret,
             !.named = body.secret # <<>>]]
  BY DEF ReadProject
<1> DEFINE bind == IF body.bind = <<>> THEN proj.bind ELSE body.bind[1]
           set == NewSettings(body, proj.settings)
           pc == IF bind = "bound" THEN "check" ELSE "project"
           named == body.secret # <<>>
           new == [IdleEdit EXCEPT !.pc = pc, !.settings = Changed(set, proj.settings),
                     !.bind = Changed(bind, proj.bind), !.read = proj.settings.secret,
                     !.named = named]
<1>2. proj.settings \in Settings /\ proj.bind \in Bindings /\ proj.settings.secret \in Secrets
  BY DEF ConfigInv, ConfigShape, Settings
<1>3. set \in Settings /\ (~named => set.secret = proj.settings.secret)
  BY <1>2, NewSettingsFit
<1>4. bind \in Bindings
  BY <1>2, MaybeOf DEF Bodies
<1>5. pc \in {"check", "project"} /\ named \in BOOLEAN /\ edit' = [edit EXCEPT ![r] = new]
  BY <1>1
<1> HIDE DEF set, bind, pc, named
<1>6. Changed(set, proj.settings) \in {<<>>, <<set>>} /\ Changed(set, proj.settings) \in Maybe(Settings)
  BY <1>3, OneOf, NoneOf DEF Changed
<1>7. Changed(bind, proj.bind) \in Maybe(Bindings)
  BY <1>4, OneOf, NoneOf DEF Changed
<1>8. /\ new \in EditShape /\ new.pc = pc /\ new.named = named
      /\ new.read = proj.settings.secret /\ new.settings = Changed(set, proj.settings)
  BY <1>2, <1>5, <1>6, <1>7, IdleEditFits DEF EditShape
<1>9. proj' = proj /\ cred' = cred /\ limits' = limits
  BY DEF ReadProject
<1> HIDE DEF new
<1>10. KeepsSecret(new) /\ new.pc # "limits"
  BY <1>3, <1>5, <1>6, <1>8 DEF KeepsSecret
<1> QED BY <1>5, <1>8, <1>9, <1>10, EditGoesOn DEF ConfigInv, ConfigShape

LEMMA CheckBindingKeeps ==
  ASSUME ConfigInv, NEW r \in Editors, CheckBinding(r) PROVE ConfigInv'
<1>1. edit[r] \in EditShape /\ edit[r].pc = "check" /\ KeepsSecret(edit[r])
  BY DEF CheckBinding, ConfigInv, ConfigShape
<1>2. UNCHANGED <<proj, cred, limits>>
  BY DEF CheckBinding
<1> DEFINE new == [edit[r] EXCEPT !.pc = "project"]
<1>3. new \in EditShape /\ KeepsSecret(new) /\ new.pc = "project"
  BY <1>1 DEF EditShape, KeepsSecret
<1>4. edit' = [edit EXCEPT ![r] = new] \/ edit' = [edit EXCEPT ![r] = IdleEdit]
  BY DEF CheckBinding
<1> HIDE DEF new
<1> QED BY <1>2, <1>3, <1>4, IdleEditFits, EditGoesOn DEF ConfigInv, ConfigShape

LEMMA WriteProjectKeeps ==
  ASSUME ConfigInv, NEW r \in Editors, WriteProject(r) PROVE ConfigInv'
<1>1. edit[r] \in EditShape /\ proj \in [settings : Settings, bind : Bindings]
  BY DEF ConfigInv, ConfigShape
<1>2. /\ edit[r].settings # <<>> => edit[r].settings[1] \in Settings
      /\ edit[r].bind # <<>> => edit[r].bind[1] \in Bindings
  BY <1>1, MaybeOf DEF EditShape
<1>3. proj' \in [settings : Settings, bind : Bindings]
  BY <1>1, <1>2 DEF WriteProject
<1>4. edit' = [edit EXCEPT ![r] = IdleEdit] /\ cred' = cred /\ limits' = limits
  BY DEF WriteProject
<1> QED BY <1>3, <1>4, IdleEditFits, EditGoesOn DEF ConfigInv, ConfigShape

LEMMA CredentialKeeps ==
  ASSUME ConfigInv, NEW r \in Editors, CheckUnused(r) \/ DropCredential(r) PROVE ConfigInv'
<1> DEFINE new == [IdleEdit EXCEPT !.pc = "drop"]
<1>1. new \in EditShape /\ KeepsSecret(new) /\ new.pc = "drop"
  BY IdleEditFits DEF EditShape, KeepsSecret
<1>2. edit' = [edit EXCEPT ![r] = new] \/ edit' = [edit EXCEPT ![r] = IdleEdit]
  BY DEF CheckUnused, DropCredential
<1>3. proj' = proj /\ limits' = limits /\ cred' \in {cred, "gone"}
  BY DEF CheckUnused, DropCredential
<1> HIDE DEF new
<1> QED BY <1>1, <1>2, <1>3, IdleEditFits, EditGoesOn DEF ConfigInv, ConfigShape

LEMMA LimitsKeep ==
  ASSUME ConfigInv, NEW r \in Editors, ReadLimits(r) \/ WriteLimits(r) PROVE ConfigInv'
<1>1. CASE ReadLimits(r)
  <2> DEFINE new == [IdleEdit EXCEPT !.pc = "limits", !.lim = <<limits>>]
  <2>1. <<limits>> \in Maybe(Limits) /\ <<limits>> # <<>>
    BY OneOf DEF ConfigInv, ConfigShape
  <2>2. new \in EditShape /\ KeepsSecret(new) /\ new.lim # <<>>
    BY <2>1, IdleEditFits DEF EditShape, KeepsSecret
  <2>3. edit' = [edit EXCEPT ![r] = new] /\ UNCHANGED <<proj, cred, limits>>
    BY <1>1 DEF ReadLimits
  <2> HIDE DEF new
  <2> QED BY <2>2, <2>3, EditGoesOn DEF ConfigInv, ConfigShape
<1>2. CASE WriteLimits(r)
  <2>1. edit[r].lim[1] \in Limits
    BY <1>2, MaybeOf DEF WriteLimits, ConfigInv, ConfigShape, EditShape
  <2>2. limits' \in Limits
    BY <1>2, <2>1 DEF WriteLimits, Limits
  <2>3. edit' = [edit EXCEPT ![r] = IdleEdit] /\ proj' = proj /\ cred' = cred
    BY <1>2 DEF WriteLimits
  <2> QED BY <2>2, <2>3, IdleEditFits, EditGoesOn DEF ConfigInv, ConfigShape
<1> QED BY <1>1, <1>2

LEMMA NextConfig == ConfigInv /\ [ConfigNext]_configVars => ConfigInv'
<1> SUFFICES ASSUME ConfigInv, [ConfigNext]_configVars PROVE ConfigInv'
  OBVIOUS
<1>1. CASE UNCHANGED configVars
  BY <1>1 DEF configVars, ConfigInv, ConfigShape, KeepsSecret
<1>2. CASE StoreCredential
  BY <1>2 DEF StoreCredential, ConfigInv, ConfigShape, KeepsSecret
<1> QED BY <1>1, <1>2, ReadProjectKeeps, CheckBindingKeeps, WriteProjectKeeps,
           CredentialKeeps, LimitsKeep DEF ConfigNext

LEMMA ConfigInvariant == ConfigSpec => []ConfigInv
BY InitConfig, NextConfig, PTL DEF ConfigSpec

\* The step of the action property.
LEMMA EditKeepsSecret ==
  ConfigInv /\ [ConfigNext]_configVars =>
    [\A r \in Editors :
       /\ edit[r].pc = "project" /\ edit'[r].pc = "idle" /\ ~edit[r].named
       /\ edit[r].read = proj.settings.secret
       => proj'.settings.secret = proj.settings.secret]_configVars
<1> SUFFICES ASSUME ConfigInv, ConfigNext, NEW r \in Editors,
                    edit[r].pc = "project", edit'[r].pc = "idle", ~edit[r].named,
                    edit[r].read = proj.settings.secret
             PROVE  proj'.settings.secret = proj.settings.secret
  OBVIOUS
<1>1. CASE proj' = proj
  BY <1>1
<1>2. CASE \E q \in Editors : WriteProject(q)
  <2>1. PICK q \in Editors : WriteProject(q)
    BY <1>2
  <2>2. q = r
    BY <2>1 DEF WriteProject, ConfigInv, ConfigShape
  <2>3. edit[r].settings = <<>> \/ (\E s \in Settings : edit[r].settings = <<s>> /\ s.secret = edit[r].read)
    BY DEF ConfigInv, KeepsSecret
  <2>4. proj'.settings = IF edit[r].settings = <<>> THEN proj.settings ELSE edit[r].settings[1]
    BY <2>1, <2>2 DEF WriteProject
  <2> QED BY <2>3, <2>4
<1> QED BY <1>1, <1>2
        DEF ConfigNext, ReadProject, CheckBinding, CheckUnused, DropCredential, ReadLimits,
            WriteLimits, StoreCredential

\* No interleaving of edits, whatever number of secrets, makes one that does
\* not name the secret change it, unless somebody else did after it was read
\* (update_project, _carry_over_sensitive_settings).
THEOREM SecretsStay == ConfigSpec => SecretsSurviveEdits
BY ConfigInvariant, EditKeepsSecret, PTL DEF ConfigSpec, SecretsSurviveEdits

-----------------------------------------------------------------------------
(***************************************************************************)
(* The components together.                                                *)
(***************************************************************************)

LEMMA TypesOfComponents ==
  /\ AuthInv => AuthTypeOK
  /\ AccessInv => AccessTypeOK
  /\ RateInv => RateTypeOK
  /\ NamesInv => NamesTypeOK
  /\ ShareInv => ShareTypeOK
  /\ ConfigInv => ConfigTypeOK
<1>1. AuthInv => AuthTypeOK
  BY DEF AuthInv
<1>2. AccessInv => AccessTypeOK
  BY DEF AccessInv, AccessShape, AccessTypeOK, ContextShape, MemberRoles
<1>3. (RateInv => RateTypeOK) /\ (ShareInv => ShareTypeOK)
  BY DEF RateInv, ShareInv
<1>4. NamesInv => NamesTypeOK
  BY DEF NamesInv, NamesShape, NamesTypeOK, SlotShape, NameReqShape
<1>5. ConfigInv => ConfigTypeOK
  BY DEF ConfigInv, ConfigShape, ConfigTypeOK, EditShape
<1> QED BY <1>1, <1>2, <1>3, <1>4, <1>5

ApiInv == AuthInv /\ AccessInv /\ RateInv /\ NamesInv /\ ShareInv /\ ConfigInv

LEMMA InitApi == Init => ApiInv
BY InitAuth, InitAccess, InitRate, InitNames, InitShare, InitConfig DEF Init, ApiInv

LEMMA NextApi == ApiInv /\ [Next]_apiVars => ApiInv'
<1> SUFFICES ASSUME ApiInv, [Next]_apiVars PROVE ApiInv'
  OBVIOUS
<1>1. /\ [AuthNext]_authVars /\ [AccessNext]_accessVars /\ [RateNext]_rateVars
      /\ [NamesNext]_nameVars /\ [ShareNext]_shareVars /\ [ConfigNext]_configVars
  BY DEF Next, apiVars
<1> QED BY <1>1, NextAuth, NextAccess, NextRate, NextNames, NextShare, NextConfig DEF ApiInv

\* Each handler leaves every piece of state of its component well formed,
\* whichever of the six components moves.
THEOREM ApiTypeCorrect == Spec => []TypeOK
<1>1. Spec => []ApiInv
  BY InitApi, NextApi, PTL DEF Spec
<1>2. ApiInv => TypeOK
  BY TypesOfComponents DEF ApiInv, TypeOK
<1> QED BY <1>1, <1>2, PTL
===============================================================================
