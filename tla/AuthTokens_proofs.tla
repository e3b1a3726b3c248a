-------------------------- MODULE AuthTokens_proofs --------------------------
(***************************************************************************)
(* Revocation and identity for any number of tokens and requests, any life *)
(* of the tokens, and any pattern of outages of Redis.                     *)
(*                                                                         *)
(* The argument about revocation: while a revoked token would still be     *)
(* decoded, its key is in the blacklist at least as long (BlackOutlives),  *)
(* because the TTL of the key is the rest of the life of the token.  A     *)
(* request that began afterwards finds the key, finds Redis down, or holds *)
(* a token that has expired since (LateIsStopped).                         *)
(***************************************************************************)
EXTENDS AuthTokens, TLAPS

RowStates == Roles \union {"absent", "inactive"}

RequestShape ==
  [pc : {"idle", "begun", "checked", "known", "accepted"},
   tok : Tokens \union {NoToken}, id : RowStates,
   blind : BOOLEAN, late : BOOLEAN, seen : SUBSET RowStates]

\* A request on its way has a token that was issued, or none (an API token,
\* which is accepted at once).
TokensAreIssued ==
  /\ \A t \in gone : Issued(t)
  /\ \A r \in AuthReqs :
       /\ areq[r].pc \in {"begun", "checked", "known"} => areq[r].tok \in Tokens
       /\ areq[r].tok \in Tokens => Issued(areq[r].tok)
       /\ areq[r].tok = NoToken => ~areq[r].late

BlackOutlives == \A t \in gone : clock < Expiry(t) => black[t] >= Expiry(t)

LateIsStopped ==
  \A r \in AuthReqs : areq[r].late /\ areq[r].pc # "idle" =>
    \/ areq[r].pc = "begun" /\ areq[r].tok \in gone
    \/ areq[r].pc # "begun" /\ areq[r].blind
    \/ ~Decodes(areq[r].tok)

\* A request has seen every state of the row since it began.
IdentityIsSeen ==
  \A r \in AuthReqs :
    /\ areq[r].pc # "idle" => user \in areq[r].seen
    /\ areq[r].pc \in {"known", "accepted"} => areq[r].id \in areq[r].seen \intersect Roles

AuthInv ==
  AuthTypeOK /\ TokensAreIssued /\ BlackOutlives /\ LateIsStopped /\ IdentityIsSeen

-----------------------------------------------------------------------------
LEMMA Numbers ==
  /\ AccessTTL \in Nat \ {0} /\ RefreshTTL \in Nat \ {0}
  /\ AuthHorizon \in Nat \ {0} /\ MaxPairs \in Nat
BY AuthAssumption

LEMMA NoTokenIsNone == NoToken \notin Tokens
BY DEF NoToken, Tokens, Pairs, Types

LEMMA ReqShape ==
  AuthTypeOK => areq \in [AuthReqs -> RequestShape]
BY DEF AuthTypeOK, RequestShape, RowStates

LEMMA IdleReqShape == IdleReq \in RequestShape
BY DEF IdleReq, RequestShape, RowStates

\* The life of a token is a number, and does not change once it is issued.
LEMMA ExpiryIsNat ==
  ASSUME AuthTypeOK, NEW t \in Tokens
  PROVE  Expiry(t) \in Nat /\ clock \in Nat /\ black[t] \in Nat
<1>1. t[1] \in Pairs
  BY DEF Tokens
<1>2. pair[t[1]].at \in Nat /\ clock \in Nat /\ black[t] \in Nat
  BY <1>1, Numbers DEF AuthTypeOK
<1> QED BY <1>2, Numbers DEF Expiry

LEMMA IssueKeeps ==
  ASSUME AuthTypeOK, NEW p \in Pairs, NEW role \in Roles, Issue(p, role)
  PROVE  /\ pair' \in [Pairs -> [at : 0 .. AuthHorizon, role : Roles]]
         /\ \A t \in Tokens : Issued(t) => Issued(t)' /\ Expiry(t)' = Expiry(t)
<1>1. clock \in 0 .. AuthHorizon
  BY Numbers DEF AuthTypeOK
<1>2. pair' \in [Pairs -> [at : 0 .. AuthHorizon, role : Roles]]
  BY <1>1 DEF Issue, AuthTypeOK
<1>3. \A q \in Pairs \ {p} : pair'[q] = pair[q]
  BY DEF Issue, AuthTypeOK
<1>4. \A t \in Tokens : Issued(t) => t[1] \in Pairs \ {p}
  BY DEF Issue, Issued, Tokens
<1> QED BY <1>2, <1>3, <1>4 DEF Issued, Expiry

\* A key that is written lives as long as its token.
LEMMA RevokeKeeps ==
  ASSUME AuthInv, NEW t \in Tokens, Issued(t), Revoke(t)
  PROVE  /\ black' \in [Tokens -> Nat] /\ gone' \subseteq Tokens
         /\ gone \subseteq gone' /\ \A u \in gone' : Issued(u)
         /\ \A u \in gone' : clock < Expiry(u) => black'[u] >= Expiry(u)
<1>1. Expiry(t) \in Nat /\ clock \in Nat
  BY ExpiryIsNat DEF AuthInv
<1>2. RevocationTTL(t) \in Nat /\ (clock < Expiry(t) => clock + RevocationTTL(t) = Expiry(t))
  BY <1>1 DEF RevocationTTL, Later
<1>3. CASE ~redisUp
  BY <1>3 DEF Revoke, AuthInv, AuthTypeOK, TokensAreIssued, BlackOutlives
<1>4. CASE redisUp
  <2>1. /\ black' = [black EXCEPT ![t] = clock + RevocationTTL(t)]
        /\ gone' = gone \union {t}
    BY <1>4 DEF Revoke
  <2>2. clock + RevocationTTL(t) \in Nat
    BY <1>1, <1>2
  <2>3. black' \in [Tokens -> Nat] /\ gone' \subseteq Tokens
    BY <2>1, <2>2 DEF AuthInv, AuthTypeOK
  <2>4. ASSUME NEW u \in gone', clock < Expiry(u)
        PROVE  black'[u] >= Expiry(u)
    <3>1. CASE u = t
      BY <1>1, <1>2, <2>1, <2>4, <3>1 DEF AuthInv, AuthTypeOK
    <3>2. CASE u # t
      <4>1. u \in gone /\ black'[u] = black[u]
        BY <2>1, <3>2 DEF AuthInv, AuthTypeOK
      <4> QED BY <2>4, <4>1 DEF AuthInv, BlackOutlives
    <3> QED BY <3>1, <3>2
  <2>5. gone \subseteq gone' /\ \A u \in gone' : Issued(u)
    BY <2>1 DEF AuthInv, TokensAreIssued
  <2> QED BY <2>3, <2>4, <2>5
<1> QED BY <1>3, <1>4

-----------------------------------------------------------------------------
\* One request moves on; nothing else does.
LEMMA MoveKeeps ==
  ASSUME AuthInv, NEW r \in AuthReqs, NEW new \in RequestShape,
         areq' = [areq EXCEPT ![r] = new],
         UNCHANGED <<Rows, Keys, World>>,
         new.pc \in {"begun", "checked", "known"} => new.tok \in Tokens,
         new.tok \in Tokens => Issued(new.tok),
         new.tok = NoToken => ~new.late,
         new.late /\ new.pc # "idle" =>
           \/ new.pc = "begun" /\ new.tok \in gone
           \/ new.pc # "begun" /\ new.blind
           \/ ~Decodes(new.tok),
         new.pc # "idle" => user \in new.seen,
         new.pc \in {"known", "accepted"} => new.id \in new.seen \intersect Roles
  PROVE  AuthInv'
<1>1. areq' \in [AuthReqs -> RequestShape]
  BY ReqShape DEF AuthInv
<1>2. areq'[r] = new /\ \A q \in AuthReqs \ {r} : areq'[q] = areq[q]
  BY ReqShape DEF AuthInv
<1>3. /\ user' = user /\ pair' = pair /\ api' = api /\ black' = black
      /\ gone' = gone /\ redisUp' = redisUp /\ clock' = clock
  BY DEF Rows, Keys, World
<1>4. AuthTypeOK'
  BY <1>1, <1>3 DEF AuthInv, AuthTypeOK, RequestShape, RowStates
<1>5. TokensAreIssued'
  BY <1>2, <1>3 DEF AuthInv, TokensAreIssued, Issued
<1>6. BlackOutlives'
  BY <1>3 DEF AuthInv, BlackOutlives, Expiry
<1>7. LateIsStopped'
  BY <1>2, <1>3 DEF AuthInv, LateIsStopped, Decodes, Issued, Expiry
<1>8. IdentityIsSeen'
  BY <1>2, <1>3 DEF AuthInv, IdentityIsSeen
<1> QED BY <1>4, <1>5, <1>6, <1>7, <1>8 DEF AuthInv

LEMMA LeaveKeeps ==
  ASSUME AuthInv, NEW r \in AuthReqs, Leave(r), UNCHANGED <<Rows, Keys, World>>
  PROVE  AuthInv'
<1>1. IdleReq.pc = "idle" /\ IdleReq.tok = NoToken /\ ~IdleReq.late
  BY DEF IdleReq
<1> QED BY <1>1, IdleReqShape, NoTokenIsNone, MoveKeeps DEF Leave

LEMMA BeginKeeps ==
  ASSUME AuthInv, NEW r \in AuthReqs, NEW t \in Tokens, Begin(r, t)
  PROVE  AuthInv'
<1> DEFINE new == [IdleReq EXCEPT !.pc = "begun", !.tok = t, !.seen = {user},
                                  !.late = t \in gone]
<1>1. /\ new.pc = "begun" /\ new.tok = t /\ new.seen = {user}
      /\ new.late = (t \in gone)
  BY DEF IdleReq
<1>2. new \in RequestShape
  <2>1. user \in RowStates
    BY DEF RowStates, AuthInv, AuthTypeOK
  <2>2. "absent" \in RowStates /\ (t \in gone) \in BOOLEAN
    BY DEF RowStates
  <2> QED BY <2>1, <2>2 DEF IdleReq, RequestShape
<1>3. areq' = [areq EXCEPT ![r] = new] /\ Issued(t) /\ UNCHANGED <<Rows, Keys, World>>
  BY DEF Begin, Decodes
<1> HIDE DEF new
<1> QED BY <1>1, <1>2, <1>3, NoTokenIsNone, MoveKeeps

LEMMA CheckKeeps ==
  ASSUME AuthInv, NEW r \in AuthReqs, CheckBlacklist(r)
  PROVE  AuthInv'
<1>1. areq[r].pc = "begun" /\ UNCHANGED <<Rows, Keys, World>>
  BY DEF CheckBlacklist
<1>2. CASE IsRevoked(areq[r].tok)
  BY <1>1, <1>2, LeaveKeeps DEF CheckBlacklist
<1>3. CASE ~IsRevoked(areq[r].tok)
  <2> DEFINE new == [areq[r] EXCEPT !.pc = "checked", !.blind = ~redisUp]
  <2>1. areq[r] \in RequestShape /\ redisUp \in BOOLEAN
    BY ReqShape DEF AuthInv, AuthTypeOK
  <2>2. /\ new \in RequestShape /\ new.pc = "checked" /\ new.blind = ~redisUp
        /\ new.tok = areq[r].tok /\ new.late = areq[r].late
        /\ new.seen = areq[r].seen
    BY <2>1 DEF RequestShape
  <2>3. areq' = [areq EXCEPT ![r] = new]
    BY <1>3, ReqShape DEF CheckBlacklist, AuthInv
  <2>4. new.tok \in Tokens /\ Issued(new.tok) /\ user \in new.seen
    BY <1>1, <2>2 DEF AuthInv, TokensAreIssued, IdentityIsSeen
  <2>5. new.late => new.blind \/ ~Decodes(new.tok)
    <3> SUFFICES ASSUME new.late, redisUp, Decodes(new.tok) PROVE FALSE
      BY <2>1, <2>2
    <3>1. new.tok \in gone
      BY <1>1, <2>2 DEF AuthInv, LateIsStopped
    <3>2. black[new.tok] >= Expiry(new.tok) /\ clock < Expiry(new.tok)
      BY <3>1 DEF AuthInv, BlackOutlives, Decodes
    <3>3. black[new.tok] > clock
      BY <3>2, <2>4, ExpiryIsNat DEF AuthInv
    <3> QED BY <1>3, <2>2, <3>3 DEF IsRevoked
  <2> HIDE DEF new
  <2> QED BY <1>1, <2>2, <2>3, <2>4, <2>5, NoTokenIsNone, MoveKeeps
<1> QED BY <1>2, <1>3

LEMMA ReadKeeps ==
  ASSUME AuthInv, NEW r \in AuthReqs, ReadRow(r)
  PROVE  AuthInv'
<1> DEFINE t == areq[r].tok
<1>1. areq[r].pc = "checked" /\ UNCHANGED <<Rows, Keys, World>>
  BY DEF ReadRow
<1>2. areq[r] \in RequestShape
  BY ReqShape DEF AuthInv
<1>3. CASE ~RowAdmits(t)
  BY <1>1, <1>3, LeaveKeeps DEF ReadRow
<1>4. CASE RowAdmits(t)
  <2>1. PICK pc \in {"accepted", "known"}, id \in Roles :
          id = user /\ Step(r, pc, id)
    <3>1. CASE t[2] = "access"
      BY <1>4, <3>1 DEF ReadRow, RowAdmits
    <3>2. CASE t[2] # "access"
      BY <1>4, <3>2 DEF ReadRow, RowAdmits
    <3> QED BY <3>1, <3>2
  <2> DEFINE new == [areq[r] EXCEPT !.pc = pc, !.id = id]
  <2>2. areq' = [areq EXCEPT ![r] = new]
    BY <2>1, ReqShape DEF Step, AuthInv
  <2>3. /\ new \in RequestShape /\ new.pc = pc /\ new.id = id
        /\ new.tok = t /\ new.late = areq[r].late
        /\ new.blind = areq[r].blind /\ new.seen = areq[r].seen
    BY <1>2 DEF RequestShape, RowStates
  <2>4. t \in Tokens /\ Issued(t) /\ user \in areq[r].seen
    BY <1>1 DEF AuthInv, TokensAreIssued, IdentityIsSeen
  <2>5. areq[r].late => areq[r].blind \/ ~Decodes(t)
    BY <1>1 DEF AuthInv, LateIsStopped
  <2> HIDE DEF new
  <2> QED BY <1>1, <2>1, <2>2, <2>3, <2>4, <2>5, NoTokenIsNone, MoveKeeps
<1> QED BY <1>3, <1>4

LEMMA PresentKeeps ==
  ASSUME AuthInv, NEW r \in AuthReqs, PresentApi(r)
  PROVE  AuthInv'
<1> DEFINE new == [IdleReq EXCEPT !.pc = "accepted", !.id = user, !.seen = {user}]
<1>1. user \in Roles /\ UNCHANGED <<Rows, Keys, World>>
      /\ areq' = [areq EXCEPT ![r] = new]
  BY DEF PresentApi
<1>2. /\ new \in RequestShape /\ new.pc = "accepted" /\ new.tok = NoToken
      /\ ~new.late /\ new.id = user /\ new.seen = {user}
  BY <1>1, IdleReqShape DEF IdleReq, RequestShape, RowStates
<1> HIDE DEF new
<1> QED BY <1>1, <1>2, NoTokenIsNone, MoveKeeps

-----------------------------------------------------------------------------
\* The tokens change, the requests and the row do not: what was issued keeps
\* its life, what was revoked stays so.
LEMMA TokensMove ==
  ASSUME AuthInv,
         pair' \in [Pairs -> [at : 0 .. AuthHorizon, role : Roles]],
         \A t \in Tokens : Issued(t) => Issued(t)' /\ Expiry(t)' = Expiry(t),
         black' \in [Tokens -> Nat], gone' \subseteq Tokens, gone \subseteq gone',
         \A t \in gone' : Issued(t),
         \A t \in gone' : clock < Expiry(t) => black'[t] >= Expiry(t),
         UNCHANGED World
  PROVE  /\ \A t \in gone' : Issued(t)'
         /\ BlackOutlives'
         /\ \A t \in Tokens : Issued(t) => Decodes(t)' = Decodes(t)
<1>1. clock' = clock
  BY DEF World
<1> QED BY <1>1 DEF BlackOutlives, Decodes

\* What becomes of the request q when tokens or the row change: it may be a
\* refresh that gets its pair, and it sees the row.
Follows(q) ==
  /\ areq'[q].tok = areq[q].tok /\ areq'[q].late = areq[q].late
  /\ areq'[q].blind = areq[q].blind /\ areq'[q].id = areq[q].id
  /\ areq'[q].pc = areq[q].pc \/ (areq[q].pc = "known" /\ areq'[q].pc = "accepted")
  /\ areq[q].seen \subseteq areq'[q].seen
  /\ areq[q].pc # "idle" => user' \in areq'[q].seen

LEMMA TokensKeep ==
  ASSUME AuthInv,
         areq' \in [AuthReqs -> RequestShape], \A q \in AuthReqs : Follows(q),
         user' \in RowStates, api' \in BOOLEAN,
         pair' \in [Pairs -> [at : 0 .. AuthHorizon, role : Roles]],
         \A t \in Tokens : Issued(t) => Issued(t)' /\ Expiry(t)' = Expiry(t),
         black' \in [Tokens -> Nat], gone' \subseteq Tokens, gone \subseteq gone',
         \A t \in gone' : Issued(t),
         \A t \in gone' : clock < Expiry(t) => black'[t] >= Expiry(t),
         UNCHANGED World
  PROVE  AuthInv'
<1>3. redisUp' = redisUp /\ clock' = clock
  BY DEF World
<1>4. AuthTypeOK'
  BY <1>3 DEF AuthInv, AuthTypeOK, RequestShape, RowStates
<1>5. /\ \A t \in gone' : Issued(t)'
      /\ BlackOutlives'
      /\ \A t \in Tokens : Issued(t) => Decodes(t)' = Decodes(t)
  BY TokensMove
<1>6. TokensAreIssued'
  <2>1. ASSUME NEW q \in AuthReqs
        PROVE  /\ areq'[q].pc \in {"begun", "checked", "known"} => areq'[q].tok \in Tokens
               /\ areq'[q].tok \in Tokens => Issued(areq[q].tok)'
               /\ areq'[q].tok = NoToken => ~areq'[q].late
    <3>1. Follows(q)
      OBVIOUS
    <3>2. CASE areq[q].tok \in Tokens
      <4>1. PICK t \in Tokens : t = areq[q].tok /\ Issued(t)
        BY <3>2 DEF AuthInv, TokensAreIssued
      <4>2. Issued(t)'
        BY <4>1
      <4>3. Issued(areq[q].tok)'
        BY <3>1, <4>1, <4>2 DEF Issued, Follows
      <4> QED BY <3>1, <3>2, <4>3 DEF AuthInv, TokensAreIssued, Follows
    <3>3. CASE areq[q].tok \notin Tokens
      BY <3>1, <3>3 DEF AuthInv, TokensAreIssued, Follows
    <3> QED BY <3>2, <3>3
  <2> QED BY <1>5, <2>1 DEF TokensAreIssued
<1>7. ASSUME NEW q \in AuthReqs, areq'[q].late, areq'[q].pc # "idle"
      PROVE  \/ areq'[q].pc = "begun" /\ areq'[q].tok \in gone'
             \/ areq'[q].pc # "begun" /\ areq'[q].blind
             \/ ~Decodes(areq[q].tok)'
  <2>1. areq[q].late /\ areq[q].pc # "idle" /\ areq'[q].tok = areq[q].tok
        /\ areq'[q].blind = areq[q].blind
        /\ (areq'[q].pc = "begun" <=> areq[q].pc = "begun")
    BY <1>7 DEF Follows
  <2>2. areq[q] \in RequestShape
    BY ReqShape DEF AuthInv
  <2>3. areq[q].tok \in Tokens /\ Issued(areq[q].tok)
    BY <2>1, <2>2 DEF AuthInv, TokensAreIssued, RequestShape
  <2>4. PICK t \in Tokens : t = areq[q].tok /\ Issued(t)
    BY <2>3
  <2>5. Decodes(t)' = Decodes(t)
    BY <1>5, <2>4
  <2>6. Decodes(areq[q].tok)' <=> Decodes(t)
    BY <2>1, <2>4, <2>5 DEF Decodes, Issued, Expiry
  <2> QED BY <2>1, <2>4, <2>6 DEF AuthInv, LateIsStopped
<1>8. LateIsStopped'
  BY <1>7 DEF LateIsStopped
<1>9. IdentityIsSeen'
  BY DEF AuthInv, IdentityIsSeen, Follows
<1> QED BY <1>4, <1>5, <1>6, <1>8, <1>9 DEF AuthInv

\* The row becomes another one under the requests in progress.
LEMMA RowMoves ==
  ASSUME AuthInv, NEW row \in RowStates, BecomesRow(row)
  PROVE  /\ areq' \in [AuthReqs -> RequestShape]
         /\ \A q \in AuthReqs : Follows(q)
         /\ user' \in RowStates
<1>1. areq \in [AuthReqs -> RequestShape]
  BY ReqShape DEF AuthInv
<1>2. \A q \in AuthReqs : areq'[q] = IF areq[q].pc = "idle" THEN areq[q]
        ELSE [areq[q] EXCEPT !.seen = areq[q].seen \union {row}]
  BY DEF BecomesRow
<1>3. \A q \in AuthReqs : areq'[q] \in RequestShape /\ Follows(q)
  BY <1>1, <1>2 DEF RequestShape, Follows, BecomesRow
<1>4. areq' \in [AuthReqs -> RequestShape]
  BY <1>3 DEF BecomesRow
<1> QED BY <1>3, <1>4 DEF BecomesRow

LEMMA SameRequests ==
  ASSUME AuthInv, areq' = areq, user' = user
  PROVE  /\ areq' \in [AuthReqs -> RequestShape]
         /\ \A q \in AuthReqs : Follows(q)
         /\ user' \in RowStates
BY ReqShape DEF AuthInv, AuthTypeOK, Follows, IdentityIsSeen, RowStates

\* What does not touch the blacklist, and what does not touch the pairs.
LEMMA SameKeys ==
  ASSUME AuthInv, UNCHANGED Keys
  PROVE  /\ black' \in [Tokens -> Nat] /\ gone' \subseteq Tokens
         /\ gone \subseteq gone' /\ \A u \in gone' : Issued(u)
         /\ \A u \in gone' : clock < Expiry(u) => black'[u] >= Expiry(u)
BY DEF Keys, AuthInv, AuthTypeOK, TokensAreIssued, BlackOutlives

LEMMA SamePairs ==
  ASSUME AuthInv, pair' = pair
  PROVE  /\ pair' \in [Pairs -> [at : 0 .. AuthHorizon, role : Roles]]
         /\ \A t \in Tokens : Issued(t) => Issued(t)' /\ Expiry(t)' = Expiry(t)
BY DEF AuthInv, AuthTypeOK, Issued, Expiry

LEMMA RotateKeeps ==
  ASSUME AuthInv, NEW r \in AuthReqs, Rotate(r)
  PROVE  AuthInv'
<1> DEFINE t == areq[r].tok
           new == [areq[r] EXCEPT !.pc = "accepted", !.id = areq[r].id]
<1>1. areq[r].pc = "known" /\ Revoke(t) /\ UNCHANGED <<user, api, World>>
  BY DEF Rotate
<1>2. t \in Tokens /\ Issued(t)
  BY <1>1 DEF AuthInv, TokensAreIssued
<1>3. areq[r].id \in Roles /\ user \in areq[r].seen
  BY <1>1 DEF AuthInv, IdentityIsSeen
<1>4. PICK p \in Pairs : Issue(p, areq[r].id)
  BY DEF Rotate
<1>5. areq \in [AuthReqs -> RequestShape]
  BY ReqShape DEF AuthInv
<1>6. areq' = [areq EXCEPT ![r] = new]
  BY <1>5 DEF Rotate, Step
<1>7. /\ new \in RequestShape /\ new.pc = "accepted" /\ new.id = areq[r].id
      /\ new.tok = t /\ new.late = areq[r].late
      /\ new.blind = areq[r].blind /\ new.seen = areq[r].seen
  BY <1>5 DEF RequestShape
<1>8. areq' \in [AuthReqs -> RequestShape] /\ \A q \in AuthReqs : Follows(q)
  <2> HIDE DEF new
  <2>1. areq'[r] = new /\ \A q \in AuthReqs \ {r} : areq'[q] = areq[q]
    BY <1>5, <1>6
  <2>2. areq' \in [AuthReqs -> RequestShape]
    BY <1>5, <1>6, <1>7
  <2>3. Follows(r)
    BY <1>1, <1>3, <1>7, <2>1 DEF Follows
  <2>4. \A q \in AuthReqs \ {r} : Follows(q)
    BY <1>1, <2>1 DEF Follows, AuthInv, IdentityIsSeen
  <2> QED BY <2>2, <2>3, <2>4
<1>9. user' \in RowStates /\ api' \in BOOLEAN
  BY <1>1 DEF AuthInv, AuthTypeOK, RowStates
<1>10. /\ pair' \in [Pairs -> [at : 0 .. AuthHorizon, role : Roles]]
       /\ \A u \in Tokens : Issued(u) => Issued(u)' /\ Expiry(u)' = Expiry(u)
  BY <1>3, <1>4, IssueKeeps DEF AuthInv
<1>11. /\ black' \in [Tokens -> Nat] /\ gone' \subseteq Tokens
       /\ gone \subseteq gone' /\ \A u \in gone' : Issued(u)
       /\ \A u \in gone' : clock < Expiry(u) => black'[u] >= Expiry(u)
  BY <1>1, <1>2, RevokeKeeps
<1> QED BY <1>1, <1>8, <1>9, <1>10, <1>11, TokensKeep

LEMMA LoginKeeps ==
  ASSUME AuthInv, Login \/ Register
  PROVE  AuthInv'
<1>1. UNCHANGED <<api, Keys, World>>
  BY DEF Login, Register
<1>2. PICK p \in Pairs, role \in Roles : Issue(p, role)
  BY DEF Login, Register, Roles
<1>3. /\ areq' \in [AuthReqs -> RequestShape]
      /\ \A q \in AuthReqs : Follows(q)
      /\ user' \in RowStates
  <2>1. CASE Login
    BY <2>1, SameRequests DEF Login
  <2>2. CASE Register
    BY <2>2, RowMoves DEF Register, RowStates, Roles
  <2> QED BY <2>1, <2>2
<1>4. api' \in BOOLEAN
  BY <1>1 DEF AuthInv, AuthTypeOK
<1>5. /\ pair' \in [Pairs -> [at : 0 .. AuthHorizon, role : Roles]]
      /\ \A t \in Tokens : Issued(t) => Issued(t)' /\ Expiry(t)' = Expiry(t)
  BY <1>2, IssueKeeps DEF AuthInv
<1> QED BY <1>1, <1>3, <1>4, <1>5, SameKeys, TokensKeep

LEMMA LogoutKeeps ==
  ASSUME AuthInv, NEW t \in Tokens, Logout(t)
  PROVE  AuthInv'
<1>1. Issued(t) /\ Revoke(t) /\ UNCHANGED <<user, pair, api, World, areq>>
  BY DEF Logout, Decodes, Rows
<1>2. api' \in BOOLEAN
  BY <1>1 DEF AuthInv, AuthTypeOK
<1> QED BY <1>1, <1>2, RevokeKeeps, SameRequests, SamePairs, TokensKeep

LEMMA ApiKeeps ==
  ASSUME AuthInv, CreateApi \/ RevokeApi
  PROVE  AuthInv'
<1>1. api' \in BOOLEAN /\ UNCHANGED <<user, pair, Keys, World, areq>>
  BY DEF CreateApi, RevokeApi
<1> QED BY <1>1, SameRequests, SamePairs, SameKeys, TokensKeep

LEMMA ChangeRowKeeps ==
  ASSUME AuthInv, ChangeRow
  PROVE  AuthInv'
<1>1. PICK row \in RowStates : BecomesRow(row)
  BY DEF ChangeRow, RowStates, Roles
<1>2. UNCHANGED <<pair, api, Keys, World>>
  BY DEF ChangeRow
<1>3. api' \in BOOLEAN
  BY <1>2 DEF AuthInv, AuthTypeOK
<1> QED BY <1>1, <1>2, <1>3, RowMoves, SamePairs, SameKeys, TokensKeep

LEMMA RedisKeeps ==
  ASSUME AuthInv, RedisFails \/ RedisReturns
  PROVE  AuthInv'
<1>1. redisUp' \in BOOLEAN /\ UNCHANGED <<user, pair, api, black, gone, clock, areq>>
  BY DEF RedisFails, RedisReturns, Rows, Keys
<1> QED BY <1>1 DEF AuthInv, AuthTypeOK, TokensAreIssued, Issued, BlackOutlives,
        Expiry, LateIsStopped, Decodes, IdentityIsSeen

\* A key is deleted, and a revocation forgotten, when no token is left that
\* it could stop.
LEMMA TickKeeps ==
  ASSUME AuthInv, Tick
  PROVE  AuthInv'
<1>1. /\ clock < AuthHorizon /\ clock' = clock + 1
      /\ black' = [t \in Tokens |-> IF black[t] > clock' THEN black[t] ELSE 0]
      /\ gone' = {t \in gone : clock' < Expiry(t)}
      /\ UNCHANGED <<user, pair, api, redisUp, areq>>
  BY DEF Tick, Rows
<1>2. clock \in 1 .. AuthHorizon /\ gone \subseteq Tokens /\ clock \in Nat
  BY Numbers DEF AuthInv, AuthTypeOK
<1>3. \A t \in Tokens : Expiry(t) \in Nat /\ black[t] \in Nat /\ Expiry(t)' = Expiry(t)
  BY <1>1, ExpiryIsNat DEF AuthInv, Expiry
<1>4. clock' \in 1 .. AuthHorizon /\ clock' > clock
  BY <1>1, <1>2, Numbers
<1>5. black' \in [Tokens -> Nat]
  BY <1>1, <1>3
<1>6. AuthTypeOK'
  BY <1>1, <1>2, <1>4, <1>5 DEF AuthInv, AuthTypeOK
<1>7. TokensAreIssued'
  BY <1>1 DEF AuthInv, TokensAreIssued, Issued
<1>8. BlackOutlives'
  <2> SUFFICES ASSUME NEW t \in gone' PROVE black'[t] >= Expiry(t)'
    BY DEF BlackOutlives
  <2>1. t \in gone /\ clock' < Expiry(t)
    BY <1>1
  <2>2. t \in Tokens /\ black[t] \in Nat /\ Expiry(t) \in Nat /\ Expiry(t)' = Expiry(t)
    BY <1>2, <1>3, <2>1
  <2>3. black[t] >= Expiry(t)
    BY <1>2, <1>4, <2>1, <2>2 DEF AuthInv, BlackOutlives
  <2>4. black[t] > clock'
    BY <2>1, <2>2, <2>3, <1>4, Numbers
  <2>5. black'[t] = black[t]
    BY <1>1, <2>2, <2>4
  <2> QED BY <2>2, <2>3, <2>5
<1>9. LateIsStopped'
  <2> SUFFICES ASSUME NEW q \in AuthReqs, areq[q].late, areq[q].pc # "idle"
               PROVE  \/ areq[q].pc = "begun" /\ areq[q].tok \in gone'
                      \/ areq[q].pc # "begun" /\ areq[q].blind
                      \/ ~Decodes(areq[q].tok)'
    BY <1>1 DEF LateIsStopped
  <2>1. PICK t \in Tokens : t = areq[q].tok
    BY ReqShape DEF AuthInv, TokensAreIssued, RequestShape
  <2>2. Decodes(areq[q].tok)' => Decodes(t)
    BY <1>1, <1>2, <1>3, <1>4, <2>1, Numbers DEF Decodes, Issued, Expiry
  <2>3. t \in gone /\ Decodes(areq[q].tok)' => t \in gone'
    BY <1>1, <1>3, <2>1 DEF Decodes, Expiry
  <2> QED BY <2>1, <2>2, <2>3 DEF AuthInv, LateIsStopped
<1>10. IdentityIsSeen'
  BY <1>1 DEF AuthInv, IdentityIsSeen
<1> QED BY <1>6, <1>7, <1>8, <1>9, <1>10 DEF AuthInv

-----------------------------------------------------------------------------
LEMMA InitAuth == AuthInit => AuthInv
<1> SUFFICES ASSUME AuthInit PROVE AuthInv
  OBVIOUS
<1>1. AuthTypeOK
  <2>1. areq \in [AuthReqs -> RequestShape]
    BY IdleReqShape DEF AuthInit
  <2>2. 0 \in 0 .. AuthHorizon /\ clock \in 1 .. AuthHorizon /\ 0 \in Nat
    BY Numbers DEF AuthInit
  <2>3. pair \in [Pairs -> [at : 0 .. AuthHorizon, role : Roles]]
    BY <2>2 DEF AuthInit, Roles
  <2>4. black \in [Tokens -> Nat] /\ gone \subseteq Tokens
    BY <2>2 DEF AuthInit
  <2>5. /\ user \in Roles \union {"absent", "inactive"}
        /\ api \in BOOLEAN /\ redisUp \in BOOLEAN
    BY DEF AuthInit
  <2> QED BY <2>1, <2>2, <2>3, <2>4, <2>5 DEF AuthTypeOK, RequestShape, RowStates
<1>2. TokensAreIssued /\ BlackOutlives /\ LateIsStopped /\ IdentityIsSeen
  BY NoTokenIsNone DEF AuthInit, TokensAreIssued, BlackOutlives, LateIsStopped,
     IdentityIsSeen, IdleReq
<1> QED BY <1>1, <1>2 DEF AuthInv

LEMMA NextAuth == AuthInv /\ [AuthNext]_authVars => AuthInv'
<1> SUFFICES ASSUME AuthInv, [AuthNext]_authVars PROVE AuthInv'
  OBVIOUS
<1>1. ASSUME NEW r \in AuthReqs, NEW t \in Tokens, Begin(r, t) PROVE AuthInv'
  BY <1>1, BeginKeeps
<1>2. ASSUME NEW r \in AuthReqs, CheckBlacklist(r) \/ ReadRow(r) PROVE AuthInv'
  BY <1>2, CheckKeeps, ReadKeeps
<1>3. ASSUME NEW r \in AuthReqs, Rotate(r) \/ PresentApi(r) PROVE AuthInv'
  BY <1>3, RotateKeeps, PresentKeeps
<1>4. ASSUME NEW r \in AuthReqs, Answer(r) PROVE AuthInv'
  BY <1>4, LeaveKeeps DEF Answer
<1>5. ASSUME NEW t \in Tokens, Logout(t) PROVE AuthInv'
  BY <1>5, LogoutKeeps
<1>6. CASE CreateApi \/ RevokeApi \/ Register \/ Login \/ ChangeRow
  BY <1>6, ApiKeeps, LoginKeeps, ChangeRowKeeps
<1>7. CASE RedisFails \/ RedisReturns \/ Tick
  BY <1>7, RedisKeeps, TickKeeps
<1>8. CASE UNCHANGED authVars
  BY <1>8 DEF authVars, AuthInv, AuthTypeOK, TokensAreIssued, Issued, BlackOutlives,
     Expiry, LateIsStopped, Decodes, IdentityIsSeen
<1> QED BY <1>1, <1>2, <1>3, <1>4, <1>5, <1>6, <1>7, <1>8 DEF AuthNext

LEMMA AuthInvariant == AuthSpec => []AuthInv
BY InitAuth, NextAuth, PTL DEF AuthSpec

\* Rotation and logout hold for the whole life of a token, whatever that is,
\* however many requests there are and whenever Redis fails: who began after
\* the revocation was recorded passes only while Redis cannot be asked, or
\* with a token that has expired on the way (refresh_tokens_command,
\* logout_user_command, JWTService.revoke).
THEOREM RevocationHolds == AuthSpec => []RevokedIsRefused
<1>1. AuthInv => RevokedIsRefused
  BY DEF AuthInv, LateIsStopped, RevokedIsRefused
<1> QED BY <1>1, AuthInvariant, PTL

\* Nobody acts with a role, or as a user, that the row did not have while the
\* request ran, also not through a refresh (get_current_user,
\* refresh_tokens_command).
THEOREM IdentityHolds == AuthSpec => []IdentityIsCurrent
<1>1. AuthInv => IdentityIsCurrent
  BY DEF AuthInv, IdentityIsSeen, IdentityIsCurrent
<1> QED BY <1>1, AuthInvariant, PTL
==============================================================================
