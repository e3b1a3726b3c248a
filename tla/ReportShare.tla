----------------------------- MODULE ReportShare -----------------------------
(***************************************************************************)
(* One share link to the report of a run: views by anybody who has it,     *)
(* revocation, and the signed preview links a view redirects to, which are *)
(* checked on their own.  A view reads the row, decides, and writes back   *)
(* the counter it has read; others come between.                           *)
(***************************************************************************)
EXTENDS Naturals

CONSTANTS
  Views,        \* views in progress at the same time
  MaxAccess,    \* max_access_count of the link
  ShareTTL,     \* expires_in_days
  PreviewTTL,   \* s3_presigned_url_ttl
  ShareHorizon  \* bound of the clock

ASSUME ShareAssumption ==
  /\ {MaxAccess, ShareTTL, PreviewTTL} \subseteq Nat \ {0}
  /\ ShareHorizon \in Nat \ {0}

VARIABLES
  share,    \* the row: [there, expires, count]
  view,     \* the views: what they have read of the row, and when
  preview,  \* until when the newest preview link lasts (0: there is none)
  report,   \* the Allure report: "none", "stored", "swept" by the retention
  shareClock,
  opened,   \* views that were let through (history)
  ended,    \* the link was revoked or ran out (history)
  quiet,    \* since when no view of the time before is left (history; 0: not yet)
  served    \* a file of the report was last served at this time (0: never)

shareVars == <<share, view, preview, report, shareClock, opened, ended, quiet, served>>

NoView == [pc |-> "idle", expires |-> 0, count |-> 0]
ShareTimes == 0 .. ShareHorizon

ShareTypeOK ==
  /\ share \in [there : BOOLEAN, expires : 0 .. ShareHorizon + ShareTTL,
                count : 0 .. MaxAccess]
  /\ view \in [Views -> [pc : {"idle", "read", "bump", "opened"},
                         expires : 0 .. ShareHorizon + ShareTTL,
                         count : 0 .. MaxAccess]]
  /\ preview \in 0 .. ShareHorizon + PreviewTTL
  /\ report \in {"none", "stored", "swept"}
  /\ shareClock \in ShareTimes /\ quiet \in ShareTimes /\ served \in ShareTimes
  /\ ended \in BOOLEAN
  /\ opened \in 0 .. MaxAccess + 1

ShareInit ==
  /\ share = [there |-> FALSE, expires |-> 0, count |-> 0]
  /\ view = [v \in Views |-> NoView]
  /\ preview = 0
  /\ report = "none"
  /\ shareClock = 1
  /\ opened = 0 /\ ended = FALSE /\ quiet = 0 /\ served = 0

ShareHistory == <<opened, ended, quiet, served>>

-----------------------------------------------------------------------------
CreateShare ==
  /\ ~share.there
  /\ share' = [there |-> TRUE, expires |-> shareClock + ShareTTL, count |-> 0]
  /\ UNCHANGED <<view, preview, report, shareClock, ShareHistory>>

\* revoke_share_token: the expiry becomes now, and is compared with "<".  To
\* revoke a link that is over admits nobody for longer than this instant.
RevokeShare ==
  /\ share.there /\ ~ended
  /\ share' = [share EXCEPT !.expires = shareClock]
  /\ ended' = TRUE
  /\ UNCHANGED <<view, preview, report, shareClock, opened, quiet, served>>

\* get_by_token
ReadShare(v) ==
  /\ view[v].pc = "idle" /\ share.there
  /\ view' = [view EXCEPT ![v] =
       [pc |-> "read", expires |-> share.expires, count |-> share.count]]
  /\ UNCHANGED <<share, preview, report, shareClock, ShareHistory>>

\* Mutant of Admits: the last permitted view does not close the link.
AdmitsOneMore(seen) == seen.expires >= shareClock /\ seen.count <= MaxAccess

\* verify_share_token, on what was read.
Admits(seen) == seen.expires >= shareClock /\ seen.count < MaxAccess

VerifyShare(v) ==
  /\ view[v].pc = "read"
  /\ view' = [view EXCEPT ![v] = IF Admits(@) THEN [@ EXCEPT !.pc = "bump"] ELSE NoView]
  /\ UNCHANGED <<share, preview, report, shareClock, ShareHistory>>

\* increment_access_count: the row is in the session already and is not read
\* anew; UPDATE sets the counter to the value read plus one.
CountView(v) ==
  /\ view[v].pc = "bump"
  /\ share' = [share EXCEPT !.count = view[v].count + 1]
  /\ opened' = IF opened > MaxAccess THEN opened ELSE opened + 1
  /\ view' = [view EXCEPT ![v].pc = "opened"]
  /\ UNCHANGED <<preview, report, shareClock, ended, quiet, served>>

\* Mutant of PreviewUntil: the preview link lasts as long as a share link.
PreviewUntilShare == shareClock + ShareTTL

PreviewUntil == shareClock + PreviewTTL

\* The redirect to the report, or 404.
RedirectView(v) ==
  /\ view[v].pc = "opened"
  /\ preview' = IF report = "stored" THEN PreviewUntil ELSE preview
  /\ view' = [view EXCEPT ![v] = NoView]
  /\ UNCHANGED <<share, report, shareClock, ShareHistory>>

\* preview_artifact_file knows the signed link and the artifact, no share; a
\* JWT is refused from its expiry on.
ServePreview ==
  /\ preview > shareClock /\ report = "stored"
  /\ served' = shareClock
  /\ UNCHANGED <<share, view, preview, report, shareClock, opened, ended, quiet>>

StoreReport ==
  /\ report = "none"
  /\ report' = "stored"
  /\ UNCHANGED <<share, view, preview, shareClock, ShareHistory>>

SweepReport ==
  /\ report = "stored"
  /\ report' = "swept"
  /\ UNCHANGED <<share, view, preview, shareClock, ShareHistory>>

ShareTick ==
  /\ shareClock < ShareHorizon
  /\ shareClock' = shareClock + 1
  /\ ended' = (ended \/ (share.there /\ share.expires < shareClock'))
  /\ quiet' = IF quiet = 0 /\ ended' /\ \A v \in Views : view[v].pc = "idle"
              THEN shareClock' ELSE quiet
  /\ UNCHANGED <<share, view, preview, report, opened, served>>

ShareNext ==
  \/ CreateShare \/ RevokeShare
  \/ \E v \in Views : ReadShare(v) \/ VerifyShare(v) \/ CountView(v) \/ RedirectView(v)
  \/ ServePreview \/ StoreReport \/ SweepReport \/ ShareTick

ShareSpec == ShareInit /\ [][ShareNext]_shareVars
-----------------------------------------------------------------------------
\* Once the link is revoked or has run out and the views that had read it
\* before are over, nobody opens the report any more, and a preview link that
\* was opened before lasts for its own life at most, whatever the late writes
\* of the counter do to the row (verify_share_token, revoke_share_token,
\* preview_artifact_file).
ReportIsSealed ==
  quiet # 0 /\ served # 0 => served < quiet + PreviewTTL

\* The link opens the report max_access_count times at most
\* (verify_share_token, increment_access_count).
LimitIsKept == opened <= MaxAccess
==============================================================================
