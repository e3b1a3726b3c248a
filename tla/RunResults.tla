------------------------------ MODULE RunResults ------------------------------
(***************************************************************************)
(* How the outcome of tests becomes rows: "go test -json" emits events     *)
(* until it ends or dies, a helper turns what it has emitted into the      *)
(* JUnit report of the workspace, other runners write that file            *)
(* themselves; after the last stage the collectors parse it, and summary,  *)
(* rows and artifacts are stored.  An import parses a report it is sent.   *)
(***************************************************************************)
EXTENDS Naturals, Sequences, FiniteSets

CONSTANTS
  Packages,    \* Go packages of the project
  TestNames,
  MaxReport,   \* cases in the report of another runner, at most
  MaxStages,   \* stages of the pipeline
  ShownLimit,  \* _FAILED_TESTS_SUMMARY_LIMIT
  MaxUploads   \* max_artifacts_count

ASSUME ResultsAssumption ==
  /\ {MaxReport, MaxStages, ShownLimit, MaxUploads} \subseteq Nat
  /\ IsFiniteSet(Packages) /\ IsFiniteSet(TestNames)

VARIABLES
  go,      \* the events of one "go test": [on, rec, act, bad]
  report,  \* the file results/junit.xml: [st, cases]
  stages,  \* stages that are over
  outcome, \* what is stored of the results: [pc, cases, sum, rows]
  uploads  \* artifacts: [count, objects, rows] of those with room for them

resultVars == <<go, report, stages, outcome, uploads>>

Statuses == {"passed", "failed", "skipped", "xfail", "error"}
Case(suite, name, status) == [suite |-> suite, name |-> name, status |-> status]
Key(case) == <<case.suite, case.name>>

Quiet == [on |-> FALSE, rec |-> [k \in Packages \X TestNames |-> "none"],
          act |-> [p \in Packages |-> "none"], bad |-> {}]
NoSummary == [passed |-> 0, failed |-> 0, skipped |-> 0, error |-> 0,
              total |-> 0, shown |-> 0, omitted |-> 0]
NoOutcome == [pc |-> "none", cases |-> <<>>, sum |-> NoSummary, rows |-> {}]

ResultsTypeOK ==
  /\ go.on \in BOOLEAN /\ go.bad \subseteq Packages
  /\ go.rec \in [Packages \X TestNames -> {"none", "passed", "failed", "skipped"}]
  /\ go.act \in [Packages -> {"none", "pass", "fail", "skip"}]
  /\ report.st \in {"absent", "broken", "there"}
  /\ stages \in 0 .. MaxStages
  /\ outcome.pc \in {"none", "collected", "stored", "broken"}
  /\ \A r \in outcome.rows : r.status \in Statuses
  /\ uploads.count \in 0 .. MaxUploads

ResultsInit ==
  /\ go = Quiet
  /\ report = [st |-> "absent", cases |-> <<>>]
  /\ stages = 0
  /\ outcome = NoOutcome
  /\ uploads = [count |-> 0, objects |-> 0, rows |-> 0]

Storing == <<outcome, uploads>>

-----------------------------------------------------------------------------
(***************************************************************************)
(* A stage                                                                 *)
(***************************************************************************)

StartGo ==
  /\ ~go.on /\ stages < MaxStages /\ outcome.pc = "none"
  /\ go' = [Quiet EXCEPT !.on = TRUE]
  /\ UNCHANGED <<report, stages, Storing>>

\* An event with a test and a final action; with -count a test ends again.
TestEvent(p, t, status) ==
  /\ go.on /\ go.act[p] = "none"
  /\ go' = [go EXCEPT !.rec[<<p, t>>] = status,
                      !.bad = IF status = "failed" THEN @ \union {p} ELSE @]
  /\ UNCHANGED <<report, stages, Storing>>

\* The event of the package: it fails with a test, by a panic, or when it
\* does not build.
PackageEvent(p, action) ==
  /\ go.on /\ go.act[p] = "none"
  /\ p \in go.bad => action = "fail"
  /\ go' = [go EXCEPT !.act[p] = action]
  /\ UNCHANGED <<report, stages, Storing>>

FailedTests(p) == {t \in TestNames : go.rec[<<p, t>>] = "failed"}
RecordedTests(p) == {t \in TestNames : go.rec[<<p, t>>] # "none"}

\* Mutant of PackageErrors: only for a package without any test.
PackageErrorsBare ==
  {p \in Packages : go.act[p] = "fail" /\ RecordedTests(p) = {}}

\* The packages that get a case "package_error".
PackageErrors ==
  {p \in Packages : go.act[p] = "fail" /\ FailedTests(p) = {}}

\* _parse_cases, and parseCases of the helper in the container
ParsedCases ==
  {Case(k[1], k[2], go.rec[k]) : k \in {k \in Packages \X TestNames : go.rec[k] # "none"}}
    \union {Case(p, "package_error", "error") : p \in PackageErrors}

AsSeq(S) ==
  CHOOSE s \in [1 .. Cardinality(S) -> S] : \A i, j \in DOMAIN s : i # j => s[i] # s[j]

StageOver == stages' = stages + 1 /\ go' = Quiet

\* The shell goes on when go has ended, or was killed: the helper replaces the
\* file.  It may fail before that, or half-way.
RunHelper ==
  /\ go.on
  /\ \/ report' = [st |-> "there", cases |-> AsSeq(ParsedCases)]
     \/ report' = [st |-> "broken", cases |-> <<>>]
     \/ UNCHANGED report
  /\ StageOver
  /\ UNCHANGED Storing

\* The other runners write the file themselves, may name a test twice, and
\* find out what it says when their command has ended.
OtherReport ==
  /\ ~go.on /\ stages < MaxStages /\ outcome.pc = "none"
  /\ \E n \in 0 .. MaxReport, p \in Packages :
       \E cases \in [1 .. n -> {Case(p, t, s) : t \in TestNames, s \in Statuses}] :
         report' = [st |-> "there", cases |-> cases]
  /\ StageOver
  /\ UNCHANGED Storing

RunPytest == OtherReport
RunPlaywright == OtherReport
RunJest == OtherReport

\* The container is stopped: the file stays what it was.
KillStage ==
  /\ go.on
  /\ StageOver
  /\ UNCHANGED <<report, Storing>>

-----------------------------------------------------------------------------
(***************************************************************************)
(* After the stages                                                        *)
(***************************************************************************)

\* parse_junit_xml_content of a file; one that is absent or broken has none.
Parsed(file) == IF file.st = "there" THEN file.cases ELSE <<>>

With(cases, statuses) ==
  Cardinality({i \in DOMAIN cases : cases[i].status \in statuses})

Least(a, b) == IF a < b THEN a ELSE b

\* build_results_summary, failed_tests_summary
Summary(cases) ==
  LET bad == With(cases, {"failed", "error"}) IN
  [passed |-> With(cases, {"passed"}), failed |-> With(cases, {"failed"}),
   skipped |-> With(cases, {"skipped", "xfail"}), error |-> With(cases, {"error"}),
   total |-> Len(cases),
   shown |-> Least(bad, ShownLimit), omitted |-> bad - Least(bad, ShownLimit)]

\* The results of every enabled collector are put together; two of them may
\* read one file.
CollectResults ==
  /\ ~go.on /\ stages = MaxStages /\ outcome.pc = "none"
  /\ \E twice \in BOOLEAN :
       LET once == Parsed(report)
           cases == IF twice THEN once \o once ELSE once
       IN outcome' = [NoOutcome EXCEPT !.pc = "collected", !.cases = cases,
                                       !.sum = Summary(cases)]
  /\ UNCHANGED <<go, report, stages, uploads>>

\* merge_duplicate_results: the last one of a name stays.
Merged(cases) ==
  AsSeq({cases[i] : i \in {i \in DOMAIN cases :
          \A j \in DOMAIN cases : Key(cases[j]) = Key(cases[i]) => j <= i}})

\* Mutant of ImportedResults: the summary counts what was sent.
ImportedResultsEarly(cases) ==
  [NoOutcome EXCEPT !.pc = "collected", !.cases = Merged(cases), !.sum = Summary(cases)]

ImportedResults(cases) ==
  [NoOutcome EXCEPT !.pc = "collected", !.cases = Merged(cases),
                    !.sum = Summary(Merged(cases))]

\* import_run_results of a report that is well-formed
ImportResults ==
  /\ ~go.on /\ report.st = "there" /\ outcome.pc = "none"
  /\ outcome' = ImportedResults(report.cases)
  /\ UNCHANGED <<go, report, stages, uploads>>

\* bulk_create; a name that stands twice breaks the transaction.
StoreRows ==
  /\ outcome.pc = "collected"
  /\ LET rows == {outcome.cases[i] : i \in DOMAIN outcome.cases}
         names == {Key(row) : row \in rows}
     IN outcome' = IF Cardinality(names) = Len(outcome.cases)
                   THEN [outcome EXCEPT !.pc = "stored", !.rows = rows]
                   ELSE [outcome EXCEPT !.pc = "broken"]
  /\ UNCHANGED <<go, report, stages, uploads>>

\* Mutant of HasRoom: the limit itself still has room.
HasRoomAtLimit == uploads.count <= MaxUploads

\* max_artifacts_count is not reached.
HasRoom == uploads.count < MaxUploads

\* One file of the results directory: too large, or put and then recorded,
\* where both may fail.  A file counts once it was put.
UploadArtifact ==
  /\ outcome.pc = "stored" /\ HasRoom
  /\ \E recorded \in {0, 1} :
       uploads' = [count |-> uploads.count + 1, objects |-> uploads.objects + 1,
                   rows |-> uploads.rows + recorded]
  /\ UNCHANGED <<go, report, stages, outcome>>

ResultsNext ==
  \/ StartGo
  \/ \E p \in Packages :
       \/ \E t \in TestNames, s \in {"passed", "failed", "skipped"} : TestEvent(p, t, s)
       \/ \E a \in {"pass", "fail", "skip"} : PackageEvent(p, a)
  \/ RunHelper \/ RunPytest \/ RunPlaywright \/ RunJest \/ KillStage
  \/ CollectResults \/ ImportResults \/ StoreRows \/ UploadArtifact

ResultsSpec == ResultsInit /\ [][ResultsNext]_resultVars
-----------------------------------------------------------------------------
\* Whatever went before in the package, which tests ran again with another
\* end, and wherever go was stopped: a package that has reported its failure
\* has a failed or errored case (GoTestRunner._parse_cases).
FailedPackagesShow ==
  \A p \in Packages : go.act[p] = "fail" =>
    \E case \in ParsedCases : case.suite = p /\ case.status \in {"failed", "error"}

\* The numbers of a stored summary are those of its rows, however often a
\* report names a test: total and states, and the failed tests it shows or
\* leaves out (build_results_summary, merge_duplicate_results).
SummaryCountsTheRows ==
  outcome.pc = "stored" =>
    LET rows(states) == Cardinality({r \in outcome.rows : r.status \in states})
        sum == outcome.sum
    IN /\ sum.total = Cardinality(outcome.rows)
       /\ sum.total = sum.passed + sum.failed + sum.skipped + sum.error
       /\ sum.failed = rows({"failed"}) /\ sum.error = rows({"error"})
       /\ sum.shown + sum.omitted = rows({"failed", "error"})
==============================================================================
