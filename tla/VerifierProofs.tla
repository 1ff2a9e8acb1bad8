--------------------------- MODULE VerifierProofs ---------------------------
(***************************************************************************)
(* What a run of the gate pipeline guarantees for every set of files, of   *)
(* tests and of declared changes, and every answer of the commands.        *)
(***************************************************************************)
EXTENDS Verifier, TLAPS

(* The gates are recorded in order. *)
InOrder ==
    /\ Len(results) <= 6
    /\ \A i \in 1 .. Len(results) : results[i].name = GateOrder[i]

(* Only skips follow a failure. *)
StopsAtFailure ==
    \A i, j \in 1 .. Len(results) :
        i < j /\ results[i].status = "FAILED" => results[j].status = "SKIPPED"

(* A verdict waits for the last gate. *)
VerdictIsLast == verdict \in {"PASS", "FAIL"} => Len(results) = 6

BothAuditsPassed ==
    Len(results) >= 2 /\ results[1].status = "PASSED" /\ results[2].status = "PASSED"

SuiteIsAudited == suite.ran => BothAuditsPassed

LintIsAudited == Len(results) >= 3 /\ results[3].status # "SKIPPED" => BothAuditsPassed

(* The audits are never skipped but after a failure. *)
AuditsRun ==
    /\ Len(results) >= 1 => results[1].status # "SKIPPED"
    /\ Len(results) >= 2 /\ results[2].status = "SKIPPED" => results[1].status = "FAILED"

PipelineInv ==
    InOrder /\ StopsAtFailure /\ VerdictIsLast /\ SuiteIsAudited /\ LintIsAudited /\ AuditsRun

-----------------------------------------------------------------------------

LEMMA OrderFacts ==
    /\ Len(GateOrder) = 6
    /\ GateOrder[1] = "scope_check" /\ GateOrder[2] = "frozen_hash_check"
    /\ GateOrder[3] = "lint" /\ GateOrder[4] = "tests_pass"
    /\ GateOrder[5] = "criteria_coverage" /\ GateOrder[6] = "coverage_delta"
BY DEF GateOrder

(* A gate name stands for a position. *)
LEMMA GatePosition ==
    ASSUME TypeOK, Len(results) < Len(GateOrder)
    PROVE  /\ Len(results) \in 0 .. 5
           /\ Gate = "scope_check" => Len(results) = 0
           /\ Gate = "frozen_hash_check" => Len(results) = 1
           /\ Gate = "lint" => Len(results) = 2
           /\ Gate = "tests_pass" => Len(results) = 3
           /\ Gate = "criteria_coverage" => Len(results) = 4
           /\ Gate = "coverage_delta" => Len(results) = 5
           /\ Gate \in NeedsHarness \cup {"scope_check", "frozen_hash_check"}
           /\ Gate \in NeedsHarness => Len(results) >= 2
<1>1. Len(results) \in 0 .. 5
  <2>1. results \in Seq(GateResult)
    BY DEF TypeOK
  <2>2. Len(results) \in Nat
    BY <2>1
  <2>3. Len(results) < 6
    BY DEF GateOrder
  <2>4. \A k \in Nat : k < 6 => k \in 0 .. 5
    OBVIOUS
  <2> QED
    BY <2>2, <2>3, <2>4, Zenon
<1>2. Gate = GateOrder[Len(results) + 1]
  BY DEF Gate
<1>3. CASE Len(results) = 0
  BY <1>3, <1>2, OrderFacts DEF NeedsHarness
<1>4. CASE Len(results) = 1
  BY <1>4, <1>2, OrderFacts DEF NeedsHarness
<1>5. CASE Len(results) = 2
  BY <1>5, <1>2, OrderFacts DEF NeedsHarness
<1>6. CASE Len(results) = 3
  BY <1>6, <1>2, OrderFacts DEF NeedsHarness
<1>7. CASE Len(results) = 4
  BY <1>7, <1>2, OrderFacts DEF NeedsHarness
<1>8. CASE Len(results) = 5
  BY <1>8, <1>2, OrderFacts DEF NeedsHarness
<1> QED
  BY <1>1, <1>3, <1>4, <1>5, <1>6, <1>7, <1>8

LEMMA ResultType ==
    ASSUME NEW name \in NeedsHarness \cup {"scope_check", "frozen_hash_check"},
           NEW status \in {"PASSED", "FAILED", "SKIPPED"}, NEW reasons
    PROVE  /\ Result(name, status, reasons) \in GateResult
           /\ Result(name, status, reasons).name = name
           /\ Result(name, status, reasons).status = status
BY DEF Result, GateResult

LEMMA JudgedType ==
    ASSUME NEW name \in NeedsHarness \cup {"scope_check", "frozen_hash_check"}, NEW reasons
    PROVE  /\ Judged(name, reasons) \in GateResult
           /\ Judged(name, reasons).name = name
           /\ Judged(name, reasons).status = IF reasons = {} THEN "PASSED" ELSE "FAILED"
BY ResultType DEF Judged

LEMMA SuiteGatesType ==
    /\ TestsPass \in GateResult /\ TestsPass.name = "tests_pass"
    /\ CriteriaCoverage \in GateResult /\ CriteriaCoverage.name = "criteria_coverage"
    /\ CoverageDelta \in GateResult /\ CoverageDelta.name = "coverage_delta"
<1>1. {"tests_pass", "criteria_coverage", "coverage_delta"} \subseteq NeedsHarness
  BY DEF NeedsHarness
<1>2. /\ TestAuthoringVerdict \in GateResult
      /\ TestAuthoringVerdict.name = "tests_pass"
  BY <1>1, ResultType DEF TestAuthoringVerdict
<1>3. TestsPass \in GateResult /\ TestsPass.name = "tests_pass"
  <2>1. "tests_pass" \in NeedsHarness \cup {"scope_check", "frozen_hash_check"}
    BY <1>1
  <2> DEFINE early == task.type # "scaffold" /\ (suite.timed_out \/ ~suite.report)
             red == task.type = "test_authoring" /\ ~suite.timed_out /\ suite.report
  <2>2. CASE task.type = "scaffold"
    BY <2>1, <2>2, ResultType DEF TestsPass
  <2>3. CASE early
    <3>1. TestsPass = Result("tests_pass", "FAILED", {"timeout or harness_error"})
      BY <2>3, Zenon DEF TestsPass
    <3> QED
      BY <3>1, <2>1, ResultType
  <2>4. CASE red
    <3>1. TestsPass = TestAuthoringVerdict
      BY <2>4 DEF TestsPass
    <3> QED
      BY <3>1, <1>2
  <2>5. CASE task.type # "scaffold" /\ ~early /\ ~red
    <3>1. TestsPass = IF suite.collectors_failed # {}
                      THEN Result("tests_pass", "FAILED", {"collection_error"})
                      ELSE Result("tests_pass", IF Failures = {} THEN "PASSED" ELSE "FAILED",
                                  Tests("failed"))
      BY <2>5 DEF TestsPass
    <3> QED
      BY <3>1, <2>1, ResultType
  <2> QED
    BY <2>2, <2>3, <2>4, <2>5
<1>4. CriteriaCoverage \in GateResult /\ CriteriaCoverage.name = "criteria_coverage"
  BY <1>1, ResultType, JudgedType DEF CriteriaCoverage
<1>5. CoverageDelta \in GateResult /\ CoverageDelta.name = "coverage_delta"
  BY <1>1, ResultType, JudgedType DEF CoverageDelta
<1> QED
  BY <1>3, <1>4, <1>5

(* A step that reaches a gate with nothing failed behind it has both audits.  *)
LEMMA NothingFailedYet ==
    ASSUME TypeOK, PipelineInv, ~ShortCircuited, Len(results) >= 2
    PROVE  BothAuditsPassed
<1>1. results[1] \in GateResult /\ results[2] \in GateResult /\ 1 \in 1 .. Len(results) /\ 2 \in 1 .. Len(results)
  BY DEF TypeOK
<1>2. results[1].status # "FAILED" /\ results[2].status # "FAILED"
  BY <1>1 DEF ShortCircuited
<1> QED
  BY <1>1, <1>2 DEF PipelineInv, AuditsRun, BothAuditsPassed, GateResult

(* What recording a result takes and what it keeps. *)
Records(r) ==
    /\ verdict = None
    /\ Len(results) < Len(GateOrder)
    /\ r \in GateResult
    /\ r.name = Gate
    /\ results' = Append(results, r)
    /\ UNCHANGED <<inputVars, suite, verdict>>
    /\ ShortCircuited => r.status = "SKIPPED"
    /\ r.status = "SKIPPED" => ShortCircuited \/ Len(results) >= 2

LEMMA RecordingKeepsInv ==
    ASSUME TypeOK, PipelineInv, NEW r, Records(r)
    PROVE  PipelineInv' /\ results' \in Seq(GateResult)
<1> DEFINE n == Len(results)
<1>1. /\ results \in Seq(GateResult) /\ n \in 0 .. 5 /\ r \in GateResult
      /\ results' = Append(results, r)
  BY GatePosition DEF TypeOK, Records
<1>2. /\ results' \in Seq(GateResult) /\ Len(results') = n + 1
      /\ results'[n + 1] = r
      /\ \A i \in 1 .. n : results'[i] = results[i]
  BY <1>1
<1>3. \A i \in 1 .. n : results[i] \in GateResult
  BY <1>1
<1>0. n \in 0 .. 5
  BY <1>1
<1> HIDE DEF n
<1>4. InOrder'
  <2>1. r.name = GateOrder[n + 1]
    BY DEF Records, Gate, n
  <2>2. \A i \in 1 .. n : results[i].name = GateOrder[i]
    BY DEF PipelineInv, InOrder, n
  <2> QED
    BY <1>1, <1>2, <2>1, <2>2 DEF InOrder
<1>5. StopsAtFailure'
  <2> SUFFICES ASSUME NEW i \in 1 .. n + 1, NEW j \in 1 .. n + 1,
                      i < j, results'[i].status = "FAILED"
               PROVE  results'[j].status = "SKIPPED"
    BY <1>2 DEF StopsAtFailure
  <2>1. i \in 1 .. n /\ results[i].status = "FAILED"
    BY <1>1, <1>2
  <2>2. CASE j = n + 1
    <3>1. ShortCircuited
      BY <2>1 DEF ShortCircuited, n
    <3>2. r.status = "SKIPPED"
      BY <3>1 DEF Records
    <3> QED
      BY <2>2, <3>2, <1>2
  <2>3. CASE j \in 1 .. n
    BY <2>1, <2>3, <1>2 DEF PipelineInv, StopsAtFailure, n
  <2>4. j = n + 1 \/ j \in 1 .. n
    BY <1>0
  <2> QED
    BY <2>2, <2>3, <2>4
<1>6. VerdictIsLast'
  BY DEF Records, VerdictIsLast, None
<1>7. BothAuditsPassed => BothAuditsPassed'
  BY <1>1, <1>2 DEF BothAuditsPassed, n
<1>8. SuiteIsAudited'
  BY <1>7 DEF PipelineInv, SuiteIsAudited, Records
<1>9. LintIsAudited'
  <2>1. CASE n >= 3
    BY <2>1, <1>1, <1>2, <1>7 DEF PipelineInv, LintIsAudited, n
  <2>2. CASE n = 2
    BY <2>2, <1>1, <1>2, <1>7, NothingFailedYet DEF LintIsAudited, Records, n
  <2>3. CASE n < 2
    BY <2>3, <1>1, <1>2 DEF LintIsAudited
  <2> QED
    BY <2>1, <2>2, <2>3, <1>1
<1>10. AuditsRun'
  <2>1. CASE n = 0
    <3>1. ~ShortCircuited
      BY <2>1 DEF ShortCircuited, n
    <3> QED
      BY <2>1, <3>1, <1>2 DEF AuditsRun, Records, n
  <2>2. CASE n = 1
    <3>1. results'[1] = results[1] /\ results'[2] = r /\ Len(results') = 2
      BY <2>2, <1>2
    <3>2. r.status = "SKIPPED" => results[1].status = "FAILED"
      BY <2>2 DEF ShortCircuited, Records, n
    <3>3. results[1].status # "SKIPPED"
      BY <2>2 DEF PipelineInv, AuditsRun, n
    <3> QED
      BY <3>1, <3>2, <3>3 DEF AuditsRun
  <2>3. CASE n >= 2
    BY <2>3, <1>1, <1>2 DEF PipelineInv, AuditsRun, n
  <2> QED
    BY <2>1, <2>2, <2>3, <1>1
<1> QED
  BY <1>2, <1>4, <1>5, <1>6, <1>8, <1>9, <1>10 DEF PipelineInv

(* Six of the actions record one result and leave the suite and the verdict.  *)
Recording ==
    \/ SkipGate \/ ScopeCheck \/ FrozenHashCheck \/ LintCheck
    \/ TestsPassCheck \/ CriteriaCoverageCheck \/ CoverageDeltaCheck

LEMMA RecordingRecords ==
    ASSUME TypeOK, Recording
    PROVE  \E r : Records(r)
<1> DEFINE names == NeedsHarness \cup {"scope_check", "frozen_hash_check"}
<1>0. ASSUME NEW name, Reaches(name)
      PROVE  /\ verdict = None /\ Len(results) < Len(GateOrder) /\ name = Gate
             /\ ~ShortCircuited /\ name \in names
             /\ name \in NeedsHarness => Len(results) >= 2
  BY <1>0, GatePosition DEF Reaches
<1>1. CASE SkipGate
  <2> DEFINE r == Result(Gate, "SKIPPED", {"skipped"})
  <2>1. /\ verdict = None /\ Len(results) < Len(GateOrder)
        /\ ShortCircuited \/ Gate \in NeedsHarness
        /\ results' = Append(results, r)
        /\ UNCHANGED <<inputVars, suite, verdict>>
    BY <1>1 DEF SkipGate, Record
  <2>2. Gate \in names /\ (Gate \in NeedsHarness => Len(results) >= 2)
    BY <2>1, GatePosition
  <2>3. r \in GateResult /\ r.name = Gate /\ r.status = "SKIPPED"
    BY <2>2, ResultType
  <2>4. Records(r)
    BY <2>1, <2>2, <2>3 DEF Records
  <2> QED
    BY <2>4
<1>2. CASE ScopeCheck
  <2> DEFINE r == Judged("scope_check", ScopeReasons)
  <2>1. Reaches("scope_check") /\ results' = Append(results, r)
        /\ UNCHANGED <<inputVars, suite, verdict>>
    BY <1>2 DEF ScopeCheck, Record
  <2>2. r \in GateResult /\ r.name = "scope_check" /\ r.status # "SKIPPED"
    BY JudgedType
  <2>3. Records(r)
    BY <1>0, <2>1, <2>2 DEF Records
  <2> QED
    BY <2>3
<1>3. CASE FrozenHashCheck
  <2> DEFINE r == Judged("frozen_hash_check", FrozenReasons)
  <2>1. Reaches("frozen_hash_check") /\ results' = Append(results, r)
        /\ UNCHANGED <<inputVars, suite, verdict>>
    BY <1>3 DEF FrozenHashCheck, Record
  <2>2. r \in GateResult /\ r.name = "frozen_hash_check" /\ r.status # "SKIPPED"
    BY JudgedType
  <2>3. Records(r)
    BY <1>0, <2>1, <2>2 DEF Records
  <2> QED
    BY <2>3
<1>n. {"lint", "tests_pass", "criteria_coverage", "coverage_delta"} \subseteq NeedsHarness
  BY DEF NeedsHarness
<1>4. CASE LintCheck
  <2>1. Reaches("lint") /\ UNCHANGED <<inputVars, suite, verdict>>
    BY <1>4 DEF LintCheck
  <2>2. ASSUME NEW status \in {"PASSED", "FAILED"}, NEW reasons,
               Record(Result("lint", status, reasons))
        PROVE  \E r : Records(r)
    <3> DEFINE r == Result("lint", status, reasons)
    <3>1. r \in GateResult /\ r.name = "lint" /\ r.status # "SKIPPED"
      BY <1>n, ResultType
    <3>2. results' = Append(results, r)
      BY <2>2 DEF Record
    <3> HIDE DEF r
    <3>3. Records(r)
      BY <1>0, <1>n, <2>1, <3>1, <3>2 DEF Records
    <3> QED
      BY <3>3
  <2>3. CASE Record(Result("lint", "FAILED", {"timeout or harness_error"}))
    BY <2>2, <2>3
  <2>4. CASE ~ Record(Result("lint", "FAILED", {"timeout or harness_error"}))
    <3>1. PICK diagnostics \in SUBSET Path :
             Record(Result("lint",
                           IF diagnostics \cap (task.writable \cup task.creatable) = {}
                           THEN "PASSED" ELSE "FAILED", diagnostics))
      BY <1>4, <2>4 DEF LintCheck
    <3> DEFINE status == IF diagnostics \cap (task.writable \cup task.creatable) = {}
                         THEN "PASSED" ELSE "FAILED"
    <3>2. status \in {"PASSED", "FAILED"}
      OBVIOUS
    <3>3. Record(Result("lint", status, diagnostics))
      BY <3>1
    <3> HIDE DEF status
    <3> QED
      BY <2>2, <3>2, <3>3
  <2> QED
    BY <2>3, <2>4
<1>5. CASE TestsPassCheck
  <2>1. Reaches("tests_pass") /\ results' = Append(results, TestsPass)
        /\ UNCHANGED <<inputVars, suite, verdict>>
    BY <1>5 DEF TestsPassCheck, Record
  <2>2. Records(TestsPass)
    BY <1>0, <1>n, <2>1, SuiteGatesType DEF Records
  <2> QED
    BY <2>2
<1>6. CASE CriteriaCoverageCheck
  <2>1. Reaches("criteria_coverage") /\ results' = Append(results, CriteriaCoverage)
        /\ UNCHANGED <<inputVars, suite, verdict>>
    BY <1>6 DEF CriteriaCoverageCheck, Record
  <2>2. Records(CriteriaCoverage)
    BY <1>0, <1>n, <2>1, SuiteGatesType DEF Records
  <2> QED
    BY <2>2
<1>7. CASE CoverageDeltaCheck
  <2>1. Reaches("coverage_delta") /\ results' = Append(results, CoverageDelta)
        /\ UNCHANGED <<inputVars, suite, verdict>>
    BY <1>7 DEF CoverageDeltaCheck, Record
  <2>2. Records(CoverageDelta)
    BY <1>0, <1>n, <2>1, SuiteGatesType DEF Records
  <2> QED
    BY <2>2
<1> QED
  BY <1>1, <1>2, <1>3, <1>4, <1>5, <1>6, <1>7 DEF Recording

LEMMA NextCases ==
    ASSUME [Next]_vars
    PROVE  Recording \/ RunHarness \/ CommandRaises \/ Aggregate \/ UNCHANGED vars
BY DEF Next, Recording

(* RunCommand leaves files where files were. *)
LEMMA TreeKeepsType ==
    ASSUME TypeOK, RunCommand
    PROVE  tree' \in [Path -> Content \cup {Absent}]
BY DEF TypeOK, RunCommand

LEMMA TypeStep ==
    ASSUME TypeOK, [Next]_vars, results' \in Seq(GateResult)
    PROVE  TypeOK'
<1> USE DEF TypeOK
<1>1. CASE SkipGate \/ ScopeCheck \/ FrozenHashCheck \/ TestsPassCheck
           \/ CriteriaCoverageCheck \/ CoverageDeltaCheck
  BY <1>1 DEF SkipGate, ScopeCheck, FrozenHashCheck, TestsPassCheck,
              CriteriaCoverageCheck, CoverageDeltaCheck, inputVars
<1>2. CASE LintCheck
  BY <1>2, TreeKeepsType DEF LintCheck, inputVars
<1>3. CASE RunHarness
  BY <1>3, TreeKeepsType DEF RunHarness, inputVars
<1>4. CASE CommandRaises
  BY <1>4 DEF CommandRaises, inputVars
<1>5. CASE Aggregate
  BY <1>5 DEF Aggregate, inputVars
<1>6. CASE UNCHANGED vars
  BY <1>6 DEF vars, inputVars
<1> HIDE DEF TypeOK
<1> QED
  BY <1>1, <1>2, <1>3, <1>4, <1>5, <1>6 DEF Next

LEMMA PipelineStep ==
    ASSUME TypeOK, PipelineInv, [Next]_vars
    PROVE  PipelineInv' /\ TypeOK'
<1>1. CASE Recording
  <2>1. PICK r : Records(r)
    BY <1>1, RecordingRecords
  <2> QED
    BY <2>1, RecordingKeepsInv, TypeStep
<1>2. CASE RunHarness
  <2>1. BothAuditsPassed
    <3>1. Gate = "tests_pass" /\ ~ShortCircuited /\ Len(results) < Len(GateOrder)
      BY <1>2 DEF RunHarness, Reaches
    <3>2. Len(results) = 3
      BY <3>1, GatePosition
    <3> QED
      BY <3>1, <3>2, NothingFailedYet
  <2>2. results' = results /\ verdict' = verdict
    BY <1>2 DEF RunHarness
  <2>3. results' \in Seq(GateResult)
    BY <2>2 DEF TypeOK
  <2>4. PipelineInv'
    BY <2>1, <2>2 DEF PipelineInv, InOrder, StopsAtFailure, VerdictIsLast, SuiteIsAudited,
                     LintIsAudited, AuditsRun, BothAuditsPassed
  <2> QED
    BY <2>3, <2>4, TypeStep
<1>3. CASE CommandRaises \/ Aggregate \/ UNCHANGED vars
  <2>1. results' = results /\ suite' = suite
    BY <1>3 DEF CommandRaises, Aggregate, vars
  <2>2. VerdictIsLast'
    BY <1>3, OrderFacts DEF CommandRaises, Aggregate, vars, VerdictIsLast, PipelineInv
  <2>3. results' \in Seq(GateResult)
    BY <2>1 DEF TypeOK
  <2>4. PipelineInv'
    BY <2>1, <2>2 DEF PipelineInv, InOrder, StopsAtFailure, SuiteIsAudited,
                     LintIsAudited, AuditsRun, BothAuditsPassed
  <2> QED
    BY <2>3, <2>4, TypeStep
<1> QED
  BY <1>1, <1>2, <1>3, NextCases

LEMMA PipelineInit == Init => TypeOK /\ PipelineInv
<1> SUFFICES ASSUME Init PROVE TypeOK /\ PipelineInv
  OBVIOUS
<1>1. results = <<>> /\ Len(results) = 0 /\ verdict = "none" /\ ~suite.ran
  BY DEF Init, NotRun, None
<1>2. PipelineInv
  BY <1>1 DEF PipelineInv, InOrder, StopsAtFailure, VerdictIsLast, SuiteIsAudited,
              LintIsAudited, AuditsRun
<1>3. base \in [Path -> Content \cup {Absent}]
  BY DEF Init, Content
<1>4. TypeOK
  BY <1>1, <1>3, VerifierAssumption DEF Init, TypeOK, None
<1> QED
  BY <1>2, <1>4

LEMMA PipelineInvariant == Spec => [](TypeOK /\ PipelineInv)
BY PipelineInit, PipelineStep, PTL DEF Spec

(* Every variable of the pipeline keeps its type: what a gate records is a *)
(* gate result, whatever the report it reads.                              *)
THEOREM VerifierTypeCorrect == Spec => []TypeOK
BY PipelineInvariant, PTL

(* Nothing of the working tree is executed, linter or suite, before scope_check *)
(* and frozen_hash_check have passed.                                      *)
THEOREM AuditsComeFirst == Spec => []NothingRunsUnaudited
<1>1. TypeOK /\ PipelineInv => NothingRunsUnaudited
  BY DEF PipelineInv, SuiteIsAudited, LintIsAudited, BothAuditsPassed, NothingRunsUnaudited
<1> QED
  BY <1>1, PipelineInvariant, PTL

(* A proof lists the six gates in order, and only skips after a failure.   *)
THEOREM ProofsShowEveryGate == Spec => []ProofIsComplete
<1>1. TypeOK /\ PipelineInv => ProofIsComplete
  BY OrderFacts DEF PipelineInv, InOrder, StopsAtFailure, VerdictIsLast, ProofIsComplete
<1> QED
  BY <1>1, PipelineInvariant, PTL

-----------------------------------------------------------------------------
(* What a PASS says of the tree *)

ScopeHeld == Len(results) >= 1 /\ results[1].status = "PASSED" => ScopeReasons = {}

FrozenHeld == Len(results) >= 2 /\ results[2].status = "PASSED" => FrozenReasons = {}

PassIsEarned ==
    verdict = "PASS" =>
        Len(results) = 6 /\ \A i \in 1 .. Len(results) : CountsAsPassed(results[i])

AuditInv == ScopeHeld /\ FrozenHeld /\ PassIsEarned

LEMMA AppendInjective ==
    ASSUME NEW S, NEW s \in Seq(S), NEW a \in S, NEW b \in S, Append(s, a) = Append(s, b)
    PROVE  a = b
<1>1. Append(s, a)[Len(s) + 1] = a /\ Append(s, b)[Len(s) + 1] = b
  OBVIOUS
<1> QED
  BY <1>1

LEMMA NoReasons ==
    ASSUME NEW kind, NEW S, {kind} \X S = {}
    PROVE  S = {}
<1>1. \A x \in S : <<kind, x>> \in {kind} \X S
  OBVIOUS
<1> QED
  BY <1>1

LEMMA SameTreeSameReasons ==
    ASSUME UNCHANGED <<inputVars, tree>>
    PROVE  ScopeReasons' = ScopeReasons /\ FrozenReasons' = FrozenReasons
BY DEF inputVars, ScopeReasons, FrozenReasons, Changed, OutOfScope, FrozenAtClaim, FrozenNow

LEMMA TreeStands ==
    ASSUME ~CommandsWrite, [Next]_vars
    PROVE  UNCHANGED <<inputVars, tree>>
BY DEF Next, vars, inputVars, SkipGate, ScopeCheck, FrozenHashCheck, LintCheck, RunHarness,
       CommandRaises, TestsPassCheck, CriteriaCoverageCheck, CoverageDeltaCheck, Aggregate,
       RunCommand

LEMMA InputsStand ==
    ASSUME [Next]_vars
    PROVE  UNCHANGED inputVars
BY DEF Next, vars, SkipGate, ScopeCheck, FrozenHashCheck, LintCheck, RunHarness,
       CommandRaises, TestsPassCheck, CriteriaCoverageCheck, CoverageDeltaCheck, Aggregate

(* Only Aggregate passes, and it looks at every result. *)
LEMMA EarnedStep ==
    ASSUME TypeOK, PipelineInv, PassIsEarned, [Next]_vars
    PROVE  PassIsEarned'
<1>1. task' = task
  BY InputsStand DEF inputVars
<1>2. CASE Recording
  <2>1. PICK r : Records(r)
    BY <1>2, RecordingRecords
  <2> QED
    BY <2>1 DEF Records, None, PassIsEarned
<1>3. CASE RunHarness \/ CommandRaises \/ Aggregate \/ UNCHANGED vars
  <2>1. results' = results
    BY <1>3 DEF RunHarness, CommandRaises, Aggregate, vars
  <2>2. CASE verdict' = verdict \/ verdict' = "raised"
    BY <2>2, <2>1, <1>1 DEF PassIsEarned, CountsAsPassed
  <2>3. CASE Aggregate
    BY <2>3, <2>1, <1>1, OrderFacts DEF Aggregate, PassIsEarned, CountsAsPassed
  <2> QED
    BY <1>3, <2>2, <2>3 DEF RunHarness, CommandRaises, vars
<1> QED
  BY <1>2, <1>3, NextCases

LEMMA AuditStep ==
    ASSUME ~CommandsWrite, TypeOK, PipelineInv, AuditInv, [Next]_vars
    PROVE  AuditInv'
<1>0. ScopeReasons' = ScopeReasons /\ FrozenReasons' = FrozenReasons
  BY TreeStands, SameTreeSameReasons
<1>1. CASE Recording
  <2>1. PICK r : Records(r)
    BY <1>1, RecordingRecords
  <2> DEFINE n == Len(results)
  <2>2. results \in Seq(GateResult) /\ r \in GateResult /\ results' = Append(results, r)
        /\ verdict' = "none"
    BY <2>1 DEF Records, TypeOK, None
  <2>3. /\ n \in Nat /\ Len(results') = n + 1 /\ results'[n + 1] = r
        /\ \A i \in 1 .. n : results'[i] = results[i]
    BY <2>2
  <2>4. n = 0 => (r.status = "PASSED" => ScopeReasons = {})
    <3> SUFFICES ASSUME n = 0, r.status = "PASSED" PROVE ScopeReasons = {}
      OBVIOUS
    <3>1. Gate = "scope_check"
      BY OrderFacts DEF Gate
    <3>2. ~ShortCircuited
      BY <2>1 DEF Records
    <3>3. ScopeCheck
      BY <1>1, <3>1, <3>2 DEF Recording, SkipGate, Reaches, FrozenHashCheck, LintCheck,
         TestsPassCheck, CriteriaCoverageCheck, CoverageDeltaCheck, NeedsHarness
    <3>4. results' = Append(results, Judged("scope_check", ScopeReasons))
      BY <3>3 DEF ScopeCheck, Record
    <3>5. r = Judged("scope_check", ScopeReasons)
      <4> DEFINE q == Judged("scope_check", ScopeReasons)
      <4>1. q \in GateResult
        BY JudgedType
      <4>2. Append(results, r) = Append(results, q)
        BY <2>2, <3>4
      <4> HIDE DEF q
      <4>3. r = q
        BY <2>2, <4>1, <4>2, AppendInjective
      <4> QED
        BY <4>3 DEF q
    <3> QED
      BY <3>5, JudgedType
  <2>5. n = 1 => (r.status = "PASSED" => FrozenReasons = {})
    <3> SUFFICES ASSUME n = 1, r.status = "PASSED" PROVE FrozenReasons = {}
      OBVIOUS
    <3>1. Gate = "frozen_hash_check"
      BY OrderFacts DEF Gate
    <3>2. ~ShortCircuited
      BY <2>1 DEF Records
    <3>3. FrozenHashCheck
      BY <1>1, <3>1, <3>2 DEF Recording, SkipGate, Reaches, ScopeCheck, LintCheck,
         TestsPassCheck, CriteriaCoverageCheck, CoverageDeltaCheck, NeedsHarness
    <3>4. results' = Append(results, Judged("frozen_hash_check", FrozenReasons))
      BY <3>3 DEF FrozenHashCheck, Record
    <3>5. r = Judged("frozen_hash_check", FrozenReasons)
      <4> DEFINE q == Judged("frozen_hash_check", FrozenReasons)
      <4>1. q \in GateResult
        BY JudgedType
      <4>2. Append(results, r) = Append(results, q)
        BY <2>2, <3>4
      <4> HIDE DEF q
      <4>3. r = q
        BY <2>2, <4>1, <4>2, AppendInjective
      <4> QED
        BY <4>3 DEF q
    <3> QED
      BY <3>5, JudgedType
  <2> HIDE DEF n
  <2>6. ScopeHeld'
    <3>1. CASE n = 0
      BY <3>1, <2>3, <2>4, <1>0 DEF ScopeHeld
    <3>2. CASE n # 0
      BY <3>2, <2>3, <1>0 DEF AuditInv, ScopeHeld, n
    <3> QED
      BY <3>1, <3>2
  <2>7. FrozenHeld'
    <3>1. CASE n = 1
      BY <3>1, <2>3, <2>5, <1>0 DEF FrozenHeld
    <3>2. CASE n = 0
      BY <3>2, <2>3 DEF FrozenHeld
    <3>3. CASE n >= 2
      <4>1. results'[2] = results[2]
        BY <3>3, <2>3
      <4> QED
        BY <3>3, <4>1, <1>0 DEF AuditInv, FrozenHeld, n
    <3> QED
      BY <3>1, <3>2, <3>3, <2>3
  <2>8. PassIsEarned'
    BY EarnedStep DEF AuditInv
  <2> QED
    BY <2>6, <2>7, <2>8 DEF AuditInv
<1>2. CASE RunHarness \/ CommandRaises \/ Aggregate \/ UNCHANGED vars
  <2>1. results' = results
    BY <1>2 DEF RunHarness, CommandRaises, Aggregate, vars
  <2>2. ScopeHeld' /\ FrozenHeld'
    BY <1>0, <2>1 DEF AuditInv, ScopeHeld, FrozenHeld
  <2>5. PassIsEarned'
    BY EarnedStep DEF AuditInv
  <2> QED
    BY <2>2, <2>5 DEF AuditInv
<1> QED
  BY <1>1, <1>2, NextCases

LEMMA AuditsBindTheTree ==
    ASSUME TypeOK, PipelineInv, AuditInv
    PROVE  PassedTreeIsInScope
<1> SUFFICES ASSUME verdict = "PASS"
             PROVE  /\ \A p \in Path \ StatePath :
                          /\ (tree[p] # base[p]) = (p \in declared)
                          /\ tree[p] # base[p] =>
                                p \in (IF base[p] = Absent THEN task.creatable ELSE task.writable)
                    /\ \A p \in task.frozen : tree[p] = base[p]
  BY DEF PassedTreeIsInScope
<1>1. Len(results) = 6 /\ CountsAsPassed(results[1]) /\ CountsAsPassed(results[2])
  BY DEF AuditInv, PassIsEarned
<1>2. results[1].name = "scope_check" /\ results[2].name = "frozen_hash_check"
  BY <1>1, OrderFacts DEF PipelineInv, InOrder
<1>3. ScopeReasons = {} /\ FrozenReasons = {}
  BY <1>1, <1>2 DEF CountsAsPassed, AuditInv, ScopeHeld, FrozenHeld
<1>4. /\ \A p \in Changed : ~OutOfScope(p)
      /\ Changed \ declared = {} /\ declared \ Changed = {}
  <2>1. /\ {"out_of_scope_write"} \X {p \in Changed : OutOfScope(p)} = {}
        /\ {"undeclared_change"} \X (Changed \ declared) = {}
        /\ {"phantom_change"} \X (declared \ Changed) = {}
    BY <1>3 DEF ScopeReasons
  <2>2. {p \in Changed : OutOfScope(p)} = {} /\ Changed \ declared = {} /\ declared \ Changed = {}
    BY <2>1, NoReasons
  <2> QED
    BY <2>2
<1>5. /\ FrozenAtClaim \ FrozenNow = {} /\ FrozenNow \ FrozenAtClaim = {}
      /\ \A p \in FrozenAtClaim \cap FrozenNow : tree[p] = base[p]
  <2> DEFINE altered == {p \in FrozenAtClaim \cap FrozenNow : tree[p] # base[p]}
  <2>1. /\ {"frozen_file_deleted"} \X (FrozenAtClaim \ FrozenNow) = {}
        /\ {"frozen_file_added"} \X (FrozenNow \ FrozenAtClaim) = {}
        /\ {"frozen_file_modified"} \X altered = {}
    BY <1>3 DEF FrozenReasons
  <2>2. FrozenAtClaim \ FrozenNow = {} /\ FrozenNow \ FrozenAtClaim = {} /\ altered = {}
    BY <2>1, NoReasons
  <2> QED
    BY <2>2
<1>6. \A p \in Path \ StatePath :
          /\ (tree[p] # base[p]) = (p \in declared)
          /\ tree[p] # base[p] =>
                p \in (IF base[p] = Absent THEN task.creatable ELSE task.writable)
  BY <1>4 DEF Changed, OutOfScope
<1>7. \A p \in task.frozen : tree[p] = base[p]
  BY <1>5 DEF FrozenAtClaim, FrozenNow
<1> QED
  BY <1>6, <1>7

(* When the configured commands leave the tree alone, the tree a PASS is   *)
(* given for holds the declared changes and no other, each in scope, and   *)
(* every frozen file as it was at the claim: what gates 1 and 2 are for.   *)
THEOREM PassBindsTheTree ==
    ASSUME ~CommandsWrite
    PROVE  Spec => []PassedTreeIsInScope
<1>1. Init => AuditInv
  BY DEF Init, AuditInv, ScopeHeld, FrozenHeld, PassIsEarned, None
<1>2. TypeOK /\ PipelineInv /\ AuditInv /\ [Next]_vars => AuditInv'
  BY AuditStep
<1>3. TypeOK /\ PipelineInv /\ AuditInv => PassedTreeIsInScope
  BY AuditsBindTheTree
<1> QED
  BY <1>1, <1>2, <1>3, PipelineInvariant, PTL DEF Spec

-----------------------------------------------------------------------------
(* What a PASS says of the suite                                           *)

(* What gate 4 has seen when it passed ... *)
SuiteEvidence ==
    /\ suite.ran /\ ~suite.timed_out /\ suite.report
    /\ task.type \in {"implementation", "test_authoring"}
    /\ task.type = "implementation" => suite.collectors_failed = {} /\ Failures = {}
    /\ suite.collectors_failed = {} /\ task.type = "test_authoring" => Failures # {}

(* ... and gate 5: a red by import error is not evidence for a criterion.  *)
CriteriaEvidence ==
    /\ task.type = "test_authoring" => suite.collectors_failed = {}
    /\ EvidenceMissing = {}

EvidenceInv ==
    /\ PassIsEarned
    /\ Len(results) >= 4 /\ results[4].status = "PASSED" => SuiteEvidence
    /\ Len(results) >= 5 /\ results[5].status = "PASSED" => CriteriaEvidence

LEMMA TestsPassNeedsEvidence ==
    ASSUME TypeOK, suite.ran, TestsPass.status = "PASSED"
    PROVE  SuiteEvidence
<1>0. "tests_pass" \in NeedsHarness \cup {"scope_check", "frozen_hash_check"}
  BY DEF NeedsHarness
<1> DEFINE early == task.type # "scaffold" /\ (suite.timed_out \/ ~suite.report)
           red == task.type = "test_authoring" /\ ~suite.timed_out /\ suite.report
<1>1. task.type # "scaffold"
  BY <1>0, ResultType DEF TestsPass
<1>2. ~early
  <2>1. early => TestsPass = Result("tests_pass", "FAILED", {"timeout or harness_error"})
    BY Zenon DEF TestsPass
  <2> QED
    BY <2>1, <1>0, ResultType
<1>3. task.type \in {"implementation", "test_authoring"} /\ ~suite.timed_out /\ suite.report
  BY <1>1, <1>2 DEF TypeOK, TaskType
<1>4. CASE task.type = "test_authoring"
  <2>1. TestsPass = TestAuthoringVerdict
    BY <1>2, <1>3, <1>4 DEF TestsPass
  <2>2. ASSUME suite.collectors_failed = {}, Failures = {} PROVE FALSE
    <3>1. TestAuthoringVerdict = Result("tests_pass", "FAILED", {"tests_not_red"})
      BY <2>2 DEF TestAuthoringVerdict
    <3> QED
      BY <3>1, <2>1, <1>0, ResultType
  <2> QED
    BY <1>3, <1>4, <2>2 DEF SuiteEvidence
<1>5. CASE task.type = "implementation"
  <2>1. TestsPass = IF suite.collectors_failed # {}
                    THEN Result("tests_pass", "FAILED", {"collection_error"})
                    ELSE Result("tests_pass", IF Failures = {} THEN "PASSED" ELSE "FAILED",
                                Tests("failed"))
    BY <1>2, <1>5 DEF TestsPass
  <2>2. suite.collectors_failed = {} /\ Failures = {}
    BY <2>1, <1>0, ResultType
  <2> QED
    BY <1>3, <1>5, <2>2 DEF SuiteEvidence
<1> QED
  BY <1>3, <1>4, <1>5

LEMMA CriteriaCoverageNeedsEvidence ==
    ASSUME TypeOK, CriteriaCoverage.status = "PASSED"
    PROVE  CriteriaEvidence
<1> DEFINE name == "criteria_coverage"
           early == task.type # "scaffold" /\ ~suite.report
           none == task.type = "test_authoring" /\ suite.report /\ suite.collectors_failed # {}
<1>0. name \in NeedsHarness \cup {"scope_check", "frozen_hash_check"}
  BY DEF NeedsHarness
<1>1. task.type # "scaffold"
  BY <1>0, ResultType DEF CriteriaCoverage
<1>2. ~early
  <2>1. early => CriteriaCoverage = Result(name, "FAILED", {"harness_error"})
    BY Zenon DEF CriteriaCoverage
  <2> QED
    BY <2>1, <1>0, ResultType
<1>3. ~none
  <2>1. none => CriteriaCoverage = Result(name, "SKIPPED", {"not_applicable"})
    BY DEF CriteriaCoverage
  <2> QED
    BY <2>1, <1>0, ResultType
<1>4. CriteriaCoverage = Judged(name, EvidenceMissing)
  BY <1>1, <1>2, <1>3 DEF CriteriaCoverage
<1> QED
  BY <1>0, <1>1, <1>2, <1>3, <1>4, JudgedType DEF CriteriaEvidence

LEMMA EvidenceStep ==
    ASSUME TypeOK, PipelineInv, EvidenceInv, [Next]_vars
    PROVE  EvidenceInv'
<1>0. UNCHANGED inputVars /\ PassIsEarned'
  BY InputsStand, EarnedStep DEF EvidenceInv
<1>same. ASSUME UNCHANGED suite
         PROVE  SuiteEvidence' = SuiteEvidence /\ CriteriaEvidence' = CriteriaEvidence
  BY <1>0, <1>same DEF inputVars, SuiteEvidence, CriteriaEvidence, Failures, Tests, EvidenceMissing
<1>1. CASE Recording
  <2>1. PICK r : Records(r)
    BY <1>1, RecordingRecords
  <2> DEFINE n == Len(results)
  <2>2. /\ results \in Seq(GateResult) /\ r \in GateResult /\ results' = Append(results, r)
        /\ suite' = suite /\ (ShortCircuited => r.status = "SKIPPED")
    BY <2>1 DEF Records, TypeOK
  <2>3. /\ n \in Nat /\ Len(results') = n + 1 /\ results'[n + 1] = r
        /\ \A i \in 1 .. n : results'[i] = results[i]
    BY <2>2
  <2>4. n = 3 => (r.status = "PASSED" => SuiteEvidence)
    <3> SUFFICES ASSUME n = 3, r.status = "PASSED" PROVE SuiteEvidence
      OBVIOUS
    <3>1. Gate = "tests_pass"
      BY OrderFacts DEF Gate
    <3>2. ~ShortCircuited
      BY <2>2
    <3>3. CASE SkipGate
      <4> DEFINE q == Result(Gate, "SKIPPED", {"skipped"})
      <4>1. q \in GateResult /\ q.status = "SKIPPED"
        BY <3>1, ResultType DEF NeedsHarness
      <4>2. Append(results, r) = Append(results, q)
        BY <2>2, <3>3 DEF SkipGate, Record
      <4> HIDE DEF q
      <4>3. r = q
        BY <2>2, <4>1, <4>2, AppendInjective
      <4> QED
        BY <4>1, <4>3
    <3>4. CASE ~SkipGate
      <4>1. TestsPassCheck
        BY <1>1, <3>1, <3>4 DEF Recording, Reaches, ScopeCheck, FrozenHashCheck, LintCheck,
           CriteriaCoverageCheck, CoverageDeltaCheck
      <4>2. suite.ran /\ Append(results, r) = Append(results, TestsPass)
        BY <2>2, <4>1 DEF TestsPassCheck, Record
      <4>3. r = TestsPass
        BY <2>2, <4>2, SuiteGatesType, AppendInjective
      <4> QED
        BY <4>2, <4>3, TestsPassNeedsEvidence
    <3> QED
      BY <3>3, <3>4
  <2>5. n = 4 => (r.status = "PASSED" => CriteriaEvidence)
    <3> SUFFICES ASSUME n = 4, r.status = "PASSED" PROVE CriteriaEvidence
      OBVIOUS
    <3>1. Gate = "criteria_coverage"
      BY OrderFacts DEF Gate
    <3>3. CASE SkipGate
      <4> DEFINE q == Result(Gate, "SKIPPED", {"skipped"})
      <4>1. q \in GateResult /\ q.status = "SKIPPED"
        BY <3>1, ResultType DEF NeedsHarness
      <4>2. Append(results, r) = Append(results, q)
        BY <2>2, <3>3 DEF SkipGate, Record
      <4> HIDE DEF q
      <4>3. r = q
        BY <2>2, <4>1, <4>2, AppendInjective
      <4> QED
        BY <4>1, <4>3
    <3>4. CASE ~SkipGate
      <4>1. CriteriaCoverageCheck
        BY <1>1, <3>1, <3>4 DEF Recording, Reaches, ScopeCheck, FrozenHashCheck, LintCheck,
           TestsPassCheck, CoverageDeltaCheck
      <4>2. Append(results, r) = Append(results, CriteriaCoverage)
        BY <2>2, <4>1 DEF CriteriaCoverageCheck, Record
      <4>3. r = CriteriaCoverage
        BY <2>2, <4>2, SuiteGatesType, AppendInjective
      <4> QED
        BY <4>3, CriteriaCoverageNeedsEvidence
    <3> QED
      BY <3>3, <3>4
  <2>6. SuiteEvidence' = SuiteEvidence /\ CriteriaEvidence' = CriteriaEvidence
    BY <1>same, <2>2
  <2>7. /\ n >= 4 => results'[4] = results[4]
        /\ n >= 5 => results'[5] = results[5]
    BY <2>3
  <2>8. /\ n >= 4 /\ results[4].status = "PASSED" => SuiteEvidence
        /\ n >= 5 /\ results[5].status = "PASSED" => CriteriaEvidence
    BY DEF EvidenceInv
  <2> HIDE DEF n
  <2> QED
    BY <1>0, <2>3, <2>4, <2>5, <2>6, <2>7, <2>8 DEF EvidenceInv
<1>2. CASE RunHarness
  <2>1. Len(results) = 3 /\ results' = results
    BY <1>2, GatePosition DEF RunHarness, Reaches
  <2>2. Len(results') = 3
    BY <2>1
  <2> QED
    BY <1>0, <2>2 DEF EvidenceInv
<1>3. CASE CommandRaises \/ Aggregate \/ UNCHANGED vars
  <2>1. results' = results /\ suite' = suite
    BY <1>3 DEF CommandRaises, Aggregate, vars
  <2>2. SuiteEvidence' = SuiteEvidence /\ CriteriaEvidence' = CriteriaEvidence
    BY <1>same, <2>1
  <2> QED
    BY <1>0, <2>1, <2>2 DEF EvidenceInv
<1> QED
  BY <1>1, <1>2, <1>3, NextCases

(* A PASS rests on a suite that ran: for an implementation every cited test *)
(* passed and nothing failed, for tests the cited ones exist and one is    *)
(* red.  Skips, failed collections and missing reports never pass for it,  *)
(* whatever the commands write to the tree.                                *)
THEOREM PassRestsOnEvidence == Spec => []PassHasEvidence
<1>1. Init => EvidenceInv
  BY DEF Init, EvidenceInv, PassIsEarned, None
<1>2. TypeOK /\ PipelineInv /\ EvidenceInv /\ [Next]_vars => EvidenceInv'
  BY EvidenceStep
<1>3. ASSUME TypeOK, PipelineInv, EvidenceInv, verdict = "PASS"
      PROVE  SuiteEvidence /\ CriteriaEvidence
  <2>1. Len(results) = 6 /\ CountsAsPassed(results[4]) /\ CountsAsPassed(results[5])
    BY <1>3 DEF EvidenceInv, PassIsEarned
  <2>2. results[4].name = "tests_pass" /\ results[5].name = "criteria_coverage"
    BY <2>1, <1>3, OrderFacts DEF PipelineInv, InOrder
  <2> QED
    BY <2>1, <2>2, <1>3 DEF CountsAsPassed, EvidenceInv
<1>4. TypeOK /\ PipelineInv /\ EvidenceInv => PassHasEvidence
  <2> SUFFICES ASSUME TypeOK, SuiteEvidence, CriteriaEvidence
               PROVE  PassHasEvidence
    BY <1>3 DEF PassHasEvidence
  <2>1. suite.collectors_failed = {} /\ suite.ran /\ ~suite.timed_out /\ suite.report
    BY DEF SuiteEvidence, CriteriaEvidence
  <2>2. task.criteria \subseteq Test
    BY DEF TypeOK
  <2>3. ASSUME task.type = "implementation"
        PROVE  /\ \A t \in task.criteria : suite.outcomes[t] = "passed"
               /\ \A t \in Test : suite.outcomes[t] \notin {"failed", "error"}
    BY <2>2, <2>3 DEF SuiteEvidence, CriteriaEvidence, Failures, Tests, EvidenceMissing
  <2>4. ASSUME task.type = "test_authoring"
        PROVE  /\ \A t \in task.criteria : suite.outcomes[t] # Absent
               /\ \E t \in Test : suite.outcomes[t] \in {"failed", "error"}
    BY <2>1, <2>2, <2>4 DEF SuiteEvidence, CriteriaEvidence, Failures, Tests, EvidenceMissing
  <2> QED
    BY <2>1, <2>3, <2>4 DEF PassHasEvidence
<1> QED
  BY <1>1, <1>2, <1>4, PipelineInvariant, PTL DEF Spec
=============================================================================
