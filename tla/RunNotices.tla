------------------------------ MODULE RunNotices -----------------------------
(***************************************************************************)
(* The notifications about one run.  A worker that has written a verdict   *)
(* evaluates the rules of the project before it commits, an import and an  *)
(* infrastructure error commit first; the evaluation reads the run, its    *)
(* results and the runs before it in a session of its own.  Rules fire by  *)
(* conditions on counters; their channels are tried one after the other.   *)
(***************************************************************************)
EXTENDS Integers, Sequences, FiniteSets

CONSTANTS
  Cases,     \* test cases
  Rules,     \* sequence of rules, [any, parts, channels]: see Evaluate
  MinRuns,   \* results from which on a case can be flaky (min_runs)
  Histories  \* what the runs of the project before this one may say of a case

ChannelTypes == {"email", "webhook", "robot"}

\* A rule has a channel at least (the schema of its body says min_length=1).
ASSUME RulesAssumption ==
  /\ IsFiniteSet(Cases)
  /\ Rules \in Seq([any : BOOLEAN, parts : SUBSET (STRING \X Nat),
                    channels : Seq(ChannelTypes) \ {<<>>}])

\* The results of a case in the last thirty days, and whether one of them
\* passed and one failed.
History == [results : Nat, passed : BOOLEAN, failed : BOOLEAN]
ASSUME HistoriesAssumption == MinRuns \in Nat /\ Histories \subseteq History

VARIABLES
  past,      \* the runs before: see NoPast
  enabled,   \* the rules that exist and are enabled
  quarantine,\* the entry of each case: "none", "active", "expired"
  run,       \* the run: [path, verdict, res, committed]
  note,      \* the evaluation
  delivered, \* messages that arrived: <<rule, position of the channel>>
  logs       \* rows of notification_log: [rule, type, at, ok], and "final"

noteVars == <<past, enabled, quarantine, run, note, delivered, logs>>

\* Whether the pipeline has a run before this one that is over, the cases that
\* failed in it, the failed runs of the project in a row, and the history of
\* each case in the project.
NoPast == [prior |-> FALSE, failing |-> {}, streak |-> 0,
           hist |-> [c \in Cases |-> [results |-> 0, passed |-> FALSE, failed |-> FALSE]]]
Pasts == [prior : BOOLEAN, failing : SUBSET Cases, streak : 0 .. 1, hist : [Cases -> History]]

Verdicts == {"done", "failed", "timeout"}
Outcomes == {"passed", "failed", "absent"}
NoRun == [path |-> "none", verdict |-> "none", res |-> [c \in Cases |-> "absent"],
          committed |-> FALSE]
NoCounts == [streak |-> 0, failed |-> 0, fresh |-> {}, recovered |-> {}]
NoNote == [pc |-> "idle", on |-> {}, rule |-> 1, at |-> 1, ok |-> FALSE,
           counts |-> NoCounts]

NoticesTypeOK ==
  /\ past \in Pasts
  /\ enabled \subseteq DOMAIN Rules
  /\ quarantine \in [Cases -> {"none", "active", "expired"}]
  /\ run.path \in {"none", "worker", "import"}
  /\ run.verdict \in Verdicts \union {"none"}
  /\ run.res \in [Cases -> Outcomes] /\ run.committed \in BOOLEAN
  /\ note.pc \in {"idle", "load", "rule", "channel", "log", "over", "broken"}
  /\ note.on \subseteq DOMAIN Rules /\ note.rule \in 1 .. Len(Rules) + 1
  /\ delivered \subseteq (DOMAIN Rules) \X Nat
  /\ logs.final \in BOOLEAN

NoticesInit ==
  /\ past = NoPast
  /\ enabled = {}
  /\ quarantine = [c \in Cases |-> "none"]
  /\ run = NoRun
  /\ note = NoNote
  /\ delivered = {}
  /\ logs = [rows |-> {}, final |-> FALSE]

Failing(res) == {c \in Cases : res[c] = "failed"}

-----------------------------------------------------------------------------
\* Runs before this one; their other pipelines leave a history too.
Before(prior, failing, streak, c, history) ==
  /\ run = NoRun /\ past = NoPast
  /\ failing # {} => prior
  /\ past' = [prior |-> prior, failing |-> failing, streak |-> streak,
              hist |-> [past.hist EXCEPT ![c] = history]]
  /\ UNCHANGED <<enabled, quarantine, run, note, delivered, logs>>

EntryBecomes(c, st) ==
  /\ quarantine' = [quarantine EXCEPT ![c] = st]
  /\ UNCHANGED <<past, enabled, run, note, delivered, logs>>

\* POST is an upsert, and renews an entry that has expired.
AddToQuarantine(c) == quarantine[c] # "active" /\ EntryBecomes(c, "active")
RemoveFromQuarantine(c) == quarantine[c] # "none" /\ EntryBecomes(c, "none")
PassExpiry(c) == quarantine[c] = "active" /\ EntryBecomes(c, "expired")

\* The daily sweep, long after the expiry.
DeleteExpired ==
  /\ \E c \in Cases : quarantine[c] = "expired"
  /\ quarantine' = [c \in Cases |-> IF quarantine[c] = "expired" THEN "none"
                                    ELSE quarantine[c]]
  /\ UNCHANGED <<past, enabled, run, note, delivered, logs>>

\* The verdict of a run is written: by the executor, which leaves it and the
\* results uncommitted, or by an import.
Finish(path, verdict, res) ==
  /\ run = NoRun
  /\ IF verdict = "timeout" THEN path = "worker"
     ELSE verdict = "failed" <=> Failing(res) # {}
  /\ run' = [path |-> path, verdict |-> verdict, res |-> res,
             committed |-> path = "import"]
  /\ UNCHANGED <<past, enabled, quarantine, note, delivered, logs>>

\* The rules are edited until they are read; what happens to them afterwards
\* is not looked at.
RulesBecome(rules) ==
  /\ note.pc = "idle" /\ enabled # rules
  /\ enabled' = rules
  /\ UNCHANGED <<past, quarantine, run, note, delivered, logs>>

CreateRule(r) == RulesBecome(enabled \union {r})
UpdateRule(r) == RulesBecome(IF r \in enabled THEN enabled \ {r} ELSE enabled \union {r})
DeleteRule(r) == RulesBecome(enabled \ {r})

\* find_enabled_by_project
ReadRules ==
  /\ run # NoRun /\ note.pc = "idle"
  /\ note' = [NoNote EXCEPT !.on = enabled,
                            !.pc = IF enabled = {} THEN "over" ELSE "load"]
  /\ UNCHANGED <<past, enabled, quarantine, run, delivered, logs>>

\* What the session of the evaluation finds of the results of the run.
Results(committed) == IF committed THEN run.res ELSE [c \in Cases |-> "absent"]
Seen(committed) == Failing(Results(committed))

\* count_consecutive_failures: it starts at the run itself.
Streak(committed) == IF committed /\ run.verdict = "failed" THEN past.streak + 1 ELSE 0

\* Mutant of ListKeys: an entry holds until it is swept.
ListKeysUnswept == {c \in Cases : quarantine[c] # "none"}

\* list_keys: the entries that hold now.
ListKeys == {c \in Cases : quarantine[c] = "active"}

\* list_flaky_tests: the cases that have passed and failed, in the run itself
\* or before it.
Flaky(res) ==
  {c \in Cases :
     /\ past.hist[c].results + (IF res[c] = "absent" THEN 0 ELSE 1) >= MinRuns
     /\ past.hist[c].passed \/ res[c] = "passed"
     /\ past.hist[c].failed \/ res[c] = "failed"}

\* The summary of the verdict, and _load_new_failed_and_recovered: without a
\* run before this one nothing is new.
Counts(committed) ==
  [streak |-> Streak(committed),
   failed |-> Cardinality(Failing(run.res)),
   fresh |-> IF past.prior
             THEN (Seen(committed) \ past.failing) \ (Flaky(Results(committed)) \union ListKeys)
             ELSE {},
   recovered |-> IF past.prior THEN past.failing \ Seen(committed) ELSE {}]

Load ==
  /\ note.pc = "load"
  /\ note' = [note EXCEPT !.pc = "rule", !.counts = Counts(run.committed)]
  /\ UNCHANGED <<past, enabled, quarantine, run, delivered, logs>>

\* _evaluate_condition: a part <<field, least>> holds from that value on; a
\* field the code does not know makes its part false.
Holds(part) ==
  \/ part[1] = "failed" /\ note.counts.failed >= part[2]
  \/ part[1] = "streak" /\ note.counts.streak >= part[2]
  \/ part[1] = "fresh" /\ Cardinality(note.counts.fresh) >= part[2]
  \/ part[1] = "recovered" /\ Cardinality(note.counts.recovered) >= part[2]

\* A group "any" of conditions, or all of them.
Evaluate(rule) ==
  IF rule.any THEN \E p \in rule.parts : Holds(p) ELSE \A p \in rule.parts : Holds(p)

NextRule == [note EXCEPT !.pc = "rule", !.rule = @ + 1, !.at = 1]

TakeRule ==
  /\ note.pc = "rule"
  /\ note' = IF note.rule > Len(Rules) THEN [note EXCEPT !.pc = "over"]
             ELSE IF note.rule \in note.on /\ Evaluate(Rules[note.rule])
                  THEN [note EXCEPT !.pc = "channel"]
                  ELSE NextRule
  /\ logs' = IF note.rule > Len(Rules) THEN [logs EXCEPT !.final = TRUE] ELSE logs
  /\ UNCHANGED <<past, enabled, quarantine, run, delivered>>

Channels == Rules[note.rule].channels
NextChannel == IF note.at = Len(Channels) THEN NextRule
               ELSE [note EXCEPT !.pc = "channel", !.at = @ + 1]
Logged == \E l \in logs.rows : l.rule = note.rule /\ l.type = Channels[note.at]

\* get_by_delivery finds the row of an earlier channel of the same type.
SkipLogged ==
  /\ note.pc = "channel" /\ Logged
  /\ note' = NextChannel
  /\ UNCHANGED <<past, enabled, quarantine, run, delivered, logs>>

\* Rendering and sending.
Send(type, arrives, ok) ==
  /\ note.pc = "channel" /\ ~Logged /\ Channels[note.at] = type
  /\ ok => arrives
  /\ delivered' = IF arrives THEN delivered \union {<<note.rule, note.at>>} ELSE delivered
  /\ note' = [note EXCEPT !.pc = "log", !.ok = ok]
  /\ UNCHANGED <<past, enabled, quarantine, run, logs>>

\* SMTP in a thread, which goes on sending when the wait for it times out.
SendEmail(arrives, ok) == Send("email", arrives, ok)

\* A URL that may be called; the answer may be an error, or be lost.
SendWebhook(arrives, ok) == Send("webhook", arrives, ok)

\* A robot that answers 200 also for what it refuses, with an error code.
SendRobot(arrives, ok) == Send("robot", arrives, ok)

\* Mutant of AfterLog: a failure ends the rule.
AfterLogStop == IF note.ok THEN NextChannel ELSE NextRule

AfterLog == NextChannel

WriteLog ==
  /\ note.pc = "log"
  /\ logs' = [logs EXCEPT !.rows = @ \union
       {[rule |-> note.rule, type |-> Channels[note.at], at |-> note.at, ok |-> note.ok]}]
  /\ note' = AfterLog
  /\ UNCHANGED <<past, enabled, quarantine, run, delivered>>

\* The session breaks: no rule is looked at any more, and no log stays.
Break ==
  /\ note.pc \in {"load", "rule", "channel", "log"}
  /\ note' = [note EXCEPT !.pc = "broken"]
  /\ logs' = [logs EXCEPT !.rows = {}]
  /\ UNCHANGED <<past, enabled, quarantine, run, delivered>>

\* finalize_run_execution commits when the evaluation is over.
CommitVerdict ==
  /\ run # NoRun /\ ~run.committed /\ note.pc \in {"over", "broken"}
  /\ run' = [run EXCEPT !.committed = TRUE]
  /\ UNCHANGED <<past, enabled, quarantine, note, delivered, logs>>

NoticesNext ==
  \/ \E prior \in BOOLEAN, failing \in SUBSET Cases, streak \in 0 .. 1, c \in Cases,
         history \in Histories : Before(prior, failing, streak, c, history)
  \/ \E c \in Cases : \/ AddToQuarantine(c) \/ RemoveFromQuarantine(c)
                       \/ PassExpiry(c)
  \/ DeleteExpired
  \/ \E path \in {"worker", "import"}, verdict \in Verdicts,
         res \in [Cases -> Outcomes] : Finish(path, verdict, res)
  \/ \E r \in DOMAIN Rules : CreateRule(r) \/ UpdateRule(r) \/ DeleteRule(r)
  \/ ReadRules \/ Load \/ TakeRule \/ SkipLogged
  \/ \E arrives, ok \in BOOLEAN :
       SendEmail(arrives, ok) \/ SendWebhook(arrives, ok) \/ SendRobot(arrives, ok)
  \/ WriteLog \/ Break \/ CommitVerdict

NoticesSpec == NoticesInit /\ [][NoticesNext]_noteVars
-----------------------------------------------------------------------------
Tried(r, i) == \E l \in logs.rows : l.rule = r /\ l.type = Rules[r].channels[i]

\* When the evaluation is through, every rule that fires has tried every type
\* of channel it names, whichever of them failed, and the log says "sent" only
\* of what arrived; of rules that did not fire nothing arrived.  Of several
\* channels of one type the first alone is tried: see FailureStopsNoOther
\* (evaluate_and_notify).
ChannelTypesAreIndependent ==
  note.pc = "over" /\ logs.final =>
    \A r \in DOMAIN Rules : \A i \in DOMAIN Rules[r].channels :
      IF r \in note.on /\ Evaluate(Rules[r])
      THEN /\ Tried(r, i)
           /\ \A l \in logs.rows : l.rule = r /\ l.ok =>
                \E k \in DOMAIN Rules[r].channels :
                  Rules[r].channels[k] = l.type /\ <<r, k>> \in delivered
      ELSE <<r, i>> \notin delivered

\* A failure in one channel does not prevent others from being sent: where one
\* has failed, each channel of the rule has been tried (the docstring of
\* evaluate_and_notify).
FailureStopsNoOther ==
  note.pc = "over" /\ logs.final =>
    \A l \in logs.rows : ~l.ok =>
      \A i \in DOMAIN Rules[l.rule].channels :
        \E k \in logs.rows : k.rule = l.rule /\ k.at = i

FailsNow(c) == run.res[c] = "failed" /\ c \notin past.failing
Quarantined(c) == quarantine[c] = "active"
FlakyBefore(c) ==
  past.hist[c].passed /\ past.hist[c].failed /\ past.hist[c].results >= MinRuns

\* The failure itself can make a case flaky that has only passed so far.
MayBecomeFlaky(c) == past.hist[c].passed /\ past.hist[c].results + 1 >= MinRuns

\* A rule on new failures of a run that is committed is no alarm for cases
\* that failed before, that are flaky or whose quarantine holds at this moment;
\* and a failure after a first run is hidden by nothing but these and by the
\* list of flaky cases that counts it already: not by an entry that has
\* expired and waits for the sweep (_load_new_failed_and_recovered, list_keys).
NewFailuresAreNew ==
  [][ run.committed /\ note.pc = "load" /\ note'.pc = "rule" =>
        \A c \in Cases :
          /\ c \in note'.counts.fresh =>
               FailsNow(c) /\ ~FlakyBefore(c) /\ ~Quarantined(c)
          /\ past.prior /\ FailsNow(c) /\ ~MayBecomeFlaky(c) /\ ~Quarantined(c) =>
               c \in note'.counts.fresh ]_noteVars

\* Of the new failures only the known flaky cases are left out: one that has
\* never failed before is not known as flaky (the docstring of
\* _load_new_failed_and_recovered).
KnownFlakyAreLeftOut ==
  [][ run.committed /\ note.pc = "load" /\ note'.pc = "rule" =>
        \A c \in Cases :
          past.prior /\ FailsNow(c) /\ ~past.hist[c].failed /\ ~Quarantined(c) =>
            c \in note'.counts.fresh ]_noteVars

\* The counters the conditions are about are those of the run: a failed run
\* is one more in a row, and a recovered case has passed
\* (count_consecutive_failures, _load_new_failed_and_recovered).
CountersAreTrue ==
  note.pc \in {"rule", "channel", "log", "over"} /\ note.on # {} =>
    /\ run.verdict = "failed" => note.counts.streak = past.streak + 1
    /\ \A c \in note.counts.recovered : run.res[c] = "passed"
==============================================================================
