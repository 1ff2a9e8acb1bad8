------------------------------ MODULE Verifier ------------------------------
(***************************************************************************)
(* redgear/verifier.py: one run of the gate pipeline over a working tree.  *)
(* The task, the tree the agent left and what it declared are the inputs;  *)
(* the linter and the test suite are external commands whose every report  *)
(* is possible, and which may themselves write to the tree.                *)
(*                                                                         *)
(* A glob is the set of paths it matches, a digest is the content, and a   *)
(* reason is its kind with the path or test it names.                      *)
(***************************************************************************)
EXTENDS Naturals, Sequences, FiniteSets

CONSTANTS
    Path,           \* files of the repository
    StatePath,      \* those under .redgear
    Test,           \* node ids of the suite
    CommandsWrite   \* may the configured commands change the tree?

ASSUME VerifierAssumption ==
    /\ StatePath \subseteq Path
    /\ IsFiniteSet(Path) /\ IsFiniteSet(Test)
    /\ CommandsWrite \in BOOLEAN

VARIABLES
    task,       \* type, scope and the criteria's test selectors
    declared,   \* changed_files of the agent's report
    hasHarness, \* was a HarnessConfig given?
    base,       \* the files at claim.base_commit
    tree,       \* the files now
    suite,      \* the HarnessRun, NotRun before there is one
    results,    \* the gate results so far
    verdict     \* None, PASS, FAIL, or "raised" for an exception

inputVars == <<task, declared, hasHarness, base>>
vars == <<inputVars, tree, suite, results, verdict>>

-----------------------------------------------------------------------------

TaskType == {"scaffold", "test_authoring", "implementation"}
None == "none"
Absent == "absent"
Content == {"old", "new"}

GateOrder ==
    <<"scope_check", "frozen_hash_check", "lint",
      "tests_pass", "criteria_coverage", "coverage_delta">>

NeedsHarness == {"lint", "tests_pass", "criteria_coverage", "coverage_delta"}

CoverageNotApplicable == {"scaffold", "test_authoring"}

Outcome == {"passed", "failed", "error", "skipped"}
CollectionError == {"import_error", "syntax_error", "other"}

(* What a HarnessRun can hold: no report after a crash, no test when a     *)
(* collector failed, coverage only for an implementation and in time.      *)
HarnessRun(type) ==
    { r \in [ran : {TRUE}, timed_out : BOOLEAN, report : BOOLEAN,
             collectors_failed : SUBSET CollectionError,
             outcomes : [Test -> Outcome \cup {Absent}],
             coverage : {None, "below_floor", "at_floor"}] :
        /\ r.timed_out => r.coverage = None
        /\ ~r.report => r.collectors_failed = {}
        /\ (~r.report \/ r.collectors_failed # {}) => r.outcomes = [t \in Test |-> Absent]
        /\ type # "implementation" => r.coverage = None }

NotRun ==
    [ran |-> FALSE, timed_out |-> FALSE, report |-> FALSE, collectors_failed |-> {},
     outcomes |-> [t \in Test |-> Absent], coverage |-> None]

GateResult == [name : NeedsHarness \cup {"scope_check", "frozen_hash_check"},
               status : {"PASSED", "FAILED", "SKIPPED"},
               says : BOOLEAN]   \* are there reasons?

Result(name, status, reasons) ==
    [name |-> name, status |-> status, says |-> reasons # {}]

Judged(name, reasons) ==
    Result(name, IF reasons = {} THEN "PASSED" ELSE "FAILED", reasons)

TypeOK ==
    /\ task \in [type : TaskType, writable : SUBSET Path, creatable : SUBSET Path,
                 frozen : SUBSET Path, criteria : SUBSET Test]
    /\ declared \in SUBSET Path
    /\ hasHarness \in BOOLEAN
    /\ base \in [Path -> Content \cup {Absent}]
    /\ tree \in [Path -> Content \cup {Absent}]
    /\ suite \in HarnessRun(task.type) \cup {NotRun}
    /\ results \in Seq(GateResult)
    /\ verdict \in {None, "PASS", "FAIL", "raised"}

-----------------------------------------------------------------------------
(* The audits *)

(* An addition must be creatable, any other change writable.               *)
OutOfScope(path) ==
    IF base[path] = Absent THEN path \notin task.creatable ELSE path \notin task.writable

(* gitctx.changed_files without redgear's own state. *)
Changed == {p \in Path \ StatePath : tree[p] # base[p]}

ScopeReasons ==
    ({"out_of_scope_write"} \X {p \in Changed : OutOfScope(p)})
        \cup ({"undeclared_change"} \X (Changed \ declared))
        \cup ({"phantom_change"} \X (declared \ Changed))

(* The digests claim_task recorded: the frozen files at the base commit.   *)
FrozenAtClaim == {p \in task.frozen : base[p] # Absent}

(* Mutant: only the recorded paths are hashed again. *)
BrokenFrozenNow == {p \in FrozenAtClaim : tree[p] # Absent}

(* The frozen globs are expanded again over the tree. *)
FrozenNow == {p \in task.frozen : tree[p] # Absent}

FrozenReasons ==
    ({"frozen_file_deleted"} \X (FrozenAtClaim \ FrozenNow))
        \cup ({"frozen_file_added"} \X (FrozenNow \ FrozenAtClaim))
        \cup ({"frozen_file_modified"} \X
                 {p \in FrozenAtClaim \cap FrozenNow : tree[p] # base[p]})

-----------------------------------------------------------------------------
(* The gates that read the suite's report *)

Tests(outcome) == {t \in Test : suite.outcomes[t] = outcome}

Failures == Tests("failed") \cup Tests("error")

(* The inverted polarity: an import error, or a test that fails, is the red. *)
TestAuthoringVerdict ==
    LET name == "tests_pass" IN
    CASE suite.collectors_failed = {"import_error"} ->
            Result(name, "PASSED", {"red_via_import_error"})
      [] suite.collectors_failed \notin {{}, {"import_error"}} ->
            Result(name, "FAILED", {"invalid_red"})
      [] suite.collectors_failed = {} /\ Failures # {} ->
            Result(name, "PASSED", {"red_via_failure"})
      [] OTHER -> Result(name, "FAILED", {"tests_not_red"})

(* Mutant: the summary is read literally, a failed collection has no count.  *)
BrokenTestsPass ==
    IF task.type = "scaffold" THEN Result("tests_pass", "SKIPPED", {"not_applicable"})
    ELSE IF suite.timed_out \/ ~suite.report THEN Result("tests_pass", "FAILED", {"harness_error"})
    ELSE Judged("tests_pass", Failures)

(* _failure_reasons names the failed tests only, not those with an error.  *)
TestsPass ==
    LET name == "tests_pass" IN
    CASE task.type = "scaffold" -> Result(name, "SKIPPED", {"not_applicable"})
      [] task.type # "scaffold" /\ (suite.timed_out \/ ~suite.report) ->
            Result(name, "FAILED", {"timeout or harness_error"})
      [] task.type = "test_authoring" /\ ~suite.timed_out /\ suite.report ->
            TestAuthoringVerdict
      [] OTHER ->
            IF suite.collectors_failed # {}
            THEN Result(name, "FAILED", {"collection_error"})
            ELSE Result(name, IF Failures = {} THEN "PASSED" ELSE "FAILED", Tests("failed"))

(* Cited tests that are not in the report or, unless red is wanted, failed.  *)
EvidenceMissing ==
    {t \in task.criteria :
        \/ suite.outcomes[t] = Absent
        \/ task.type # "test_authoring" /\ suite.outcomes[t] # "passed"}

CriteriaCoverage ==
    LET name == "criteria_coverage" IN
    CASE task.type = "scaffold" -> Result(name, "SKIPPED", {"not_applicable"})
      [] task.type # "scaffold" /\ ~suite.report -> Result(name, "FAILED", {"harness_error"})
      [] task.type = "test_authoring" /\ suite.report /\ suite.collectors_failed # {} ->
            Result(name, "SKIPPED", {"not_applicable"})
      [] OTHER -> Judged(name, EvidenceMissing)

CoverageDelta ==
    LET name == "coverage_delta" IN
    IF task.type \in CoverageNotApplicable
    THEN Result(name, "SKIPPED", {"not_applicable"})
    ELSE Judged(name, {suite.coverage} \ {"at_floor"})

-----------------------------------------------------------------------------
(* run_gates, gate by gate *)

(* Any plan, any tree the agent may leave, any declaration; .redgear always  *)
(* changes between the claim and the audit.                                *)
Init ==
    LET Files == Path \ StatePath IN
    /\ task \in [type : TaskType, writable : SUBSET Files, creatable : SUBSET Files,
                 frozen : SUBSET Files, criteria : SUBSET Test]
    /\ declared \in SUBSET Path
    /\ hasHarness \in BOOLEAN
    /\ base \in {b \in [Path -> {"old", Absent}] : \A p \in StatePath : b[p] = "old"}
    /\ tree \in {t \in [Path -> Content \cup {Absent}] : \A p \in StatePath : t[p] = "new"}
    /\ suite = NotRun
    /\ results = <<>>
    /\ verdict = None

Gate == GateOrder[Len(results) + 1]

ShortCircuited == \E i \in 1 .. Len(results) : results[i].status = "FAILED"

(* The loop is at this gate and will run it. *)
Reaches(name) ==
    /\ verdict = None
    /\ Len(results) < Len(GateOrder)
    /\ Gate = name
    /\ ~ShortCircuited
    /\ name \in NeedsHarness => hasHarness

Record(result) == results' = Append(results, result)

(* An earlier gate failed, or there is no HarnessConfig. *)
SkipGate ==
    /\ verdict = None
    /\ Len(results) < Len(GateOrder)
    /\ ShortCircuited \/ (Gate \in NeedsHarness /\ ~hasHarness)
    /\ Record(Result(Gate, "SKIPPED", {"skipped"}))
    /\ UNCHANGED <<inputVars, tree, suite, verdict>>

ScopeCheck ==
    /\ Reaches("scope_check")
    /\ Record(Judged("scope_check", ScopeReasons))
    /\ UNCHANGED <<inputVars, tree, suite, verdict>>

FrozenHashCheck ==
    /\ Reaches("frozen_hash_check")
    /\ Record(Judged("frozen_hash_check", FrozenReasons))
    /\ UNCHANGED <<inputVars, tree, suite, verdict>>

(* A configured command runs in the working tree. *)
RunCommand ==
    IF CommandsWrite
    THEN tree' \in [Path -> Content \cup {Absent}]
    ELSE UNCHANGED tree

(* The linter times out or prints no JSON, or reports files: only those the  *)
(* task may write count against it, the others are mentioned in a note.    *)
LintCheck ==
    /\ Reaches("lint")
    /\ RunCommand
    /\ \/ Record(Result("lint", "FAILED", {"timeout or harness_error"}))
       \/ \E diagnostics \in SUBSET Path :
             LET inScope == diagnostics \cap (task.writable \cup task.creatable) IN
             Record(Result("lint", IF inScope = {} THEN "PASSED" ELSE "FAILED", diagnostics))
    /\ UNCHANGED <<inputVars, suite, verdict>>

(* Mutant: coverage is measured whatever the type. *)
BrokenRunHarness ==
    /\ Reaches("tests_pass")
    /\ ~suite.ran
    /\ RunCommand
    /\ suite' \in HarnessRun("implementation")
    /\ UNCHANGED <<inputVars, results, verdict>>

(* The suite runs once; gates 4 to 6 share its report. *)
RunHarness ==
    /\ Reaches("tests_pass")
    /\ ~suite.ran
    /\ RunCommand
    /\ suite' \in HarnessRun(task.type)
    /\ UNCHANGED <<inputVars, results, verdict>>

(* The command is refused or cannot be started: the exception leaves       *)
(* run_gates, and no proof is made.                                        *)
CommandRaises ==
    /\ Reaches("lint") \/ (Reaches("tests_pass") /\ ~suite.ran)
    /\ verdict' = "raised"
    /\ UNCHANGED <<inputVars, tree, suite, results>>

TestsPassCheck ==
    /\ Reaches("tests_pass")
    /\ suite.ran
    /\ Record(TestsPass)
    /\ UNCHANGED <<inputVars, tree, suite, verdict>>

CriteriaCoverageCheck ==
    /\ Reaches("criteria_coverage")
    /\ Record(CriteriaCoverage)
    /\ UNCHANGED <<inputVars, tree, suite, verdict>>

CoverageDeltaCheck ==
    /\ Reaches("coverage_delta")
    /\ Record(CoverageDelta)
    /\ UNCHANGED <<inputVars, tree, suite, verdict>>

CountsAsPassed(result) ==
    \/ result.status = "PASSED"
    \/ /\ result.name = "coverage_delta"
       /\ task.type \in CoverageNotApplicable
       /\ result.status = "SKIPPED"

Aggregate ==
    /\ verdict = None
    /\ Len(results) = Len(GateOrder)
    /\ verdict' = IF \A i \in 1 .. Len(results) : CountsAsPassed(results[i])
                  THEN "PASS" ELSE "FAIL"
    /\ UNCHANGED <<inputVars, tree, suite, results>>

Next ==
    \/ SkipGate \/ ScopeCheck \/ FrozenHashCheck \/ LintCheck \/ RunHarness \/ CommandRaises
    \/ TestsPassCheck \/ CriteriaCoverageCheck \/ CoverageDeltaCheck \/ Aggregate

Spec == Init /\ [][Next]_vars

-----------------------------------------------------------------------------
(* Properties *)

(* What is going to be committed: the tree at the moment of a PASS holds no   *)
(* change outside the scope, none the agent did not declare, and every     *)
(* frozen file as it was at the claim, with none added.                    *)
PassedTreeIsInScope ==
    verdict = "PASS" =>
        /\ \A p \in Path \ StatePath :
              /\ (tree[p] # base[p]) = (p \in declared)
              /\ tree[p] # base[p] =>
                    p \in (IF base[p] = Absent THEN task.creatable ELSE task.writable)
        /\ \A p \in task.frozen : tree[p] = base[p]

(* A PASS of an implementation rests on a suite that ran to the end without   *)
(* a failure and on every cited test passing; a PASS of tests rests on a   *)
(* suite in which the cited tests exist and something is red.              *)
PassHasEvidence ==
    verdict = "PASS" =>
        /\ suite.ran /\ ~suite.timed_out
        /\ suite.report /\ suite.collectors_failed = {}
        /\ task.type = "implementation" =>
              /\ \A t \in task.criteria : suite.outcomes[t] = "passed"
              /\ \A t \in Test : suite.outcomes[t] \notin {"failed", "error"}
        /\ task.type = "test_authoring" =>
              /\ \A t \in task.criteria : suite.outcomes[t] # Absent
              /\ \E t \in Test : suite.outcomes[t] \in {"failed", "error"}

(* Nothing of the working tree is executed before both audits passed. *)
NothingRunsUnaudited ==
    (suite.ran \/ (Len(results) >= 3 /\ results[3].status # "SKIPPED")) =>
        results[1].status = "PASSED" /\ results[2].status = "PASSED"

(* A proof shows the whole contract in order, and stops at the first failure: *)
(* whatever follows it is recorded as skipped.                             *)
ProofIsComplete ==
    verdict \in {"PASS", "FAIL"} =>
        /\ Len(results) = Len(GateOrder)
        /\ \A i \in 1 .. Len(results) : results[i].name = GateOrder[i]
        /\ \A i, j \in 1 .. Len(results) :
              i < j /\ results[i].status = "FAILED" => results[j].status = "SKIPPED"

-----------------------------------------------------------------------------
(* What the repository says and the code does not keep.                    *)

(* With a harness, a FAIL has a failed gate to name: a scaffold task, and the  *)
(* expected import-error red of the tests, refute it.                      *)
FailNamesAGate ==
    verdict = "FAIL" /\ hasHarness =>
        \E i \in 1 .. Len(results) : results[i].status = "FAILED"

(* A gate that failed says what to correct: a suite whose tests only have  *)
(* errors refutes it.                                                      *)
FailedGateSaysWhy ==
    \A i \in 1 .. Len(results) : results[i].status = "FAILED" => results[i].says

(* An implementation that passed has been run by at least one test: one    *)
(* without criteria and an empty suite refute it.                          *)
PassRanATest ==
    verdict = "PASS" /\ task.type = "implementation" =>
        \E t \in Test : suite.outcomes[t] = "passed"
=============================================================================
