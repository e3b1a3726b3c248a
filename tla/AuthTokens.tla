------------------------------ MODULE AuthTokens -----------------------------
(***************************************************************************)
(* The JWT pairs of one user, their rotation and their blacklist in Redis, *)
(* and one API token of that user.                                         *)
(* A request is a sequence of steps (decode, blacklist, database row,      *)
(* effect) that interleaves with others, with the clock, with changes of   *)
(* the row and with outages of Redis, during which the blacklist is read   *)
(* as empty.  A refused request changes nothing but the audit trail.       *)
(***************************************************************************)
EXTENDS Naturals

CONSTANTS
  MaxPairs,    \* pairs of access and refresh token that are issued, at most
  AuthReqs,    \* requests in progress at the same time
  AccessTTL, RefreshTTL,
  AuthHorizon  \* bound of the clock

ASSUME AuthAssumption ==
  /\ {AccessTTL, RefreshTTL, AuthHorizon} \subseteq Nat \ {0}
  /\ MaxPairs \in Nat

VARIABLES
  user,    \* the user's row: "absent", "inactive", or the role when active
  pair,    \* each pair of JWTs: when it was issued and the role it claims
  api,     \* there is an API token that is not revoked or expired
  black,   \* when the blacklist key of a token expires (0: no key)
  redisUp,
  clock,
  areq,    \* the requests
  gone     \* the tokens whose revocation Redis has confirmed (history)

authVars == <<user, pair, api, black, redisUp, clock, areq, gone>>

Roles == {"owner", "member"}
Types == {"access", "refresh"}
Pairs == 1 .. MaxPairs
Tokens == Pairs \X Types
NoToken == <<>>

Issued(t) == pair[t[1]].at # 0
Expiry(t) == pair[t[1]].at + IF t[2] = "access" THEN AccessTTL ELSE RefreshTTL

\* decode_token: the signature holds and the token has not expired.
Decodes(t) == Issued(t) /\ clock < Expiry(t)

IdleReq == [pc |-> "idle", tok |-> NoToken, id |-> "absent",
            blind |-> FALSE, late |-> FALSE, seen |-> {}]

AuthTypeOK ==
  /\ user \in Roles \union {"absent", "inactive"}
  /\ pair \in [Pairs -> [at : 0 .. AuthHorizon, role : Roles]]
  /\ api \in BOOLEAN
  /\ black \in [Tokens -> Nat]
  /\ redisUp \in BOOLEAN
  /\ clock \in 1 .. AuthHorizon
  /\ areq \in [AuthReqs -> [pc : {"idle", "begun", "checked", "known",
                                  "accepted"},
                            tok : Tokens \union {NoToken},
                            id : Roles \union {"absent", "inactive"},
                            blind : BOOLEAN, late : BOOLEAN,
                            seen : SUBSET (Roles \union {"absent", "inactive"})]]
  /\ gone \subseteq Tokens

AuthInit ==
  /\ user = "absent"
  /\ pair = [p \in Pairs |-> [at |-> 0, role |-> "member"]]
  /\ api = FALSE
  /\ black = [t \in Tokens |-> 0]
  /\ redisUp = TRUE
  /\ clock = 1
  /\ areq = [r \in AuthReqs |-> IdleReq]
  /\ gone = {}

Rows == <<user, pair, api>>
Keys == <<black, gone>>
World == <<redisUp, clock>>

\* The request r moves to pc, with the identity id.
Step(r, pc, id) ==
  areq' = [areq EXCEPT ![r].pc = pc, ![r].id = id]

Leave(r) == areq' = [areq EXCEPT ![r] = IdleReq]

-----------------------------------------------------------------------------
(***************************************************************************)
(* What the requests do                                                    *)
(***************************************************************************)

\* A request with a token that decodes: an access token at any route, a
\* refresh token at /refresh.  Any other one is refused and changes nothing.
Begin(r, t) ==
  /\ areq[r].pc = "idle" /\ Decodes(t)
  /\ areq' = [areq EXCEPT ![r] = [IdleReq EXCEPT
       !.pc = "begun", !.tok = t, !.seen = {user}, !.late = t \in gone]]
  /\ UNCHANGED <<Rows, Keys, World>>

\* The blacklist, as far as Redis can be asked.
IsRevoked(t) == redisUp /\ black[t] > clock

\* is_revoked; when Redis does not answer the request goes on.
CheckBlacklist(r) ==
  /\ areq[r].pc = "begun"
  /\ IF IsRevoked(areq[r].tok) THEN Leave(r)
     ELSE areq' = [areq EXCEPT ![r].pc = "checked", ![r].blind = ~redisUp]
  /\ UNCHANGED <<Rows, Keys, World>>

\* Mutant of RowAdmits: the claims of the token are taken for the row's.
RowAdmitsByClaim(t) == t[2] = "access" \/ user \in Roles

\* The row is active and, for an access token, has the role it claims.
RowAdmits(t) ==
  /\ user \in Roles
  /\ t[2] = "access" => pair[t[1]].role = user

ReadRow(r) ==
  /\ areq[r].pc = "checked"
  /\ LET t == areq[r].tok
     IN  IF ~RowAdmits(t) THEN Leave(r)
         ELSE IF t[2] = "access" THEN Step(r, "accepted", pair[t[1]].role)
         ELSE Step(r, "known", user)
  /\ UNCHANGED <<Rows, Keys, World>>

Later(a, b) == IF a > b THEN a - b ELSE 0

\* Mutant of RevocationTTL: every key lives as long as an access token.
RevocationTTLShort(t) == AccessTTL

\* ttl = max(0, exp - now) in the command, max(1, ttl) in the service.
RevocationTTL(t) == IF Later(Expiry(t), clock) = 0 THEN 1
                    ELSE Later(Expiry(t), clock)

\* revoke: without Redis the key is not written and the caller goes on.
Revoke(t) ==
  IF redisUp
  THEN /\ black' = [black EXCEPT ![t] = clock + RevocationTTL(t)]
       /\ gone' = gone \union {t}
  ELSE UNCHANGED <<black, gone>>

\* Pairs are numbered as they are issued.
Issue(p, role) ==
  /\ pair[p].at = 0 /\ \A q \in 1 .. p - 1 : pair[q].at # 0
  /\ pair' = [pair EXCEPT ![p] = [at |-> clock, role |-> role]]

\* The old refresh token is revoked and a pair with the role read is issued.
Rotate(r) ==
  /\ areq[r].pc = "known"
  /\ Revoke(areq[r].tok)
  /\ \E p \in Pairs : Issue(p, areq[r].id)
  /\ Step(r, "accepted", areq[r].id)
  /\ UNCHANGED <<user, api, World>>

\* login: the row is read by the session that commits the login.
Login ==
  /\ user \in Roles
  /\ \E p \in Pairs : Issue(p, user)
  /\ UNCHANGED <<user, api, Keys, World, areq>>

\* The row changes under the requests in progress.
BecomesRow(row) ==
  /\ user' = row
  /\ areq' = [r \in AuthReqs |-> IF areq[r].pc = "idle" THEN areq[r]
                ELSE [areq[r] EXCEPT !.seen = @ \union {row}]]

\* register: the name is looked up and is, at the commit, unique.
Register ==
  /\ user = "absent"
  /\ BecomesRow("owner")
  /\ \E p \in Pairs : Issue(p, "owner")
  /\ UNCHANGED <<api, Keys, World>>

\* logout: what the request presents is revoked, whatever else fails.
Logout(t) ==
  /\ Decodes(t)
  /\ Revoke(t)
  /\ UNCHANGED <<Rows, World, areq>>

\* create_api_token and revoke_api_token
CreateApi ==
  /\ user \in Roles /\ ~api
  /\ api' = TRUE
  /\ UNCHANGED <<user, pair, Keys, World, areq>>

RevokeApi ==
  /\ api
  /\ api' = FALSE
  /\ UNCHANGED <<user, pair, Keys, World, areq>>

\* One query reads the API token and its owner, whose role is taken over; no
\* blacklist is asked.
PresentApi(r) ==
  /\ areq[r].pc = "idle" /\ api /\ user \in Roles
  /\ areq' = [areq EXCEPT ![r] =
       [IdleReq EXCEPT !.pc = "accepted", !.id = user, !.seen = {user}]]
  /\ UNCHANGED <<Rows, Keys, World>>

Answer(r) ==
  /\ areq[r].pc = "accepted"
  /\ Leave(r)
  /\ UNCHANGED <<Rows, Keys, World>>

-----------------------------------------------------------------------------
(***************************************************************************)
(* The environment                                                         *)
(***************************************************************************)

\* An administrator's statement: no handler writes is_active or role.
ChangeRow ==
  /\ user = "owner"
  /\ \E row \in {"member", "inactive"} : BecomesRow(row)
  /\ UNCHANGED <<pair, api, Keys, World>>

RedisFails == redisUp /\ redisUp' = FALSE
              /\ UNCHANGED <<Rows, Keys, clock, areq>>
RedisReturns == ~redisUp /\ redisUp' = TRUE
                /\ UNCHANGED <<Rows, Keys, clock, areq>>

Tick ==
  /\ clock < AuthHorizon /\ clock' = clock + 1
  /\ black' = [t \in Tokens |-> IF black[t] > clock' THEN black[t] ELSE 0]
  /\ gone' = {t \in gone : clock' < Expiry(t)}
  /\ UNCHANGED <<Rows, redisUp, areq>>

AuthNext ==
  \/ \E r \in AuthReqs :
       \/ \E t \in Tokens : Begin(r, t)
       \/ CheckBlacklist(r) \/ ReadRow(r) \/ Rotate(r) \/ Answer(r)
       \/ PresentApi(r)
  \/ \E t \in Tokens : Logout(t)
  \/ CreateApi \/ RevokeApi
  \/ Register \/ Login \/ ChangeRow \/ RedisFails \/ RedisReturns \/ Tick

AuthSpec == AuthInit /\ [][AuthNext]_authVars
-----------------------------------------------------------------------------
\* A token whose revocation was recorded before a request began is refused,
\* unless Redis was down when the request looked, or the token has expired
\* since it was decoded: rotation and logout hold for the whole life of the
\* token (refresh_tokens_command, logout_user_command, JWTService.revoke).
RevokedIsRefused ==
  \A r \in AuthReqs :
    areq[r].pc = "accepted" /\ areq[r].late
      => areq[r].blind \/ ~Decodes(areq[r].tok)

\* A request acts with an identity that the row had while the request ran:
\* a demoted or deactivated user keeps nothing that was issued before, not
\* even through a refresh that was already under way.
IdentityIsCurrent ==
  \A r \in AuthReqs :
    areq[r].pc = "accepted" => areq[r].id \in areq[r].seen \intersect Roles
==============================================================================
