------------------------------- MODULE Fanout -------------------------------
(***************************************************************************)
(* The fan-out of candidates (cli/src/candidate_fanout.rs): children that  *)
(* run this program in work trees of their own, a few threads at a time,   *)
(* the validation the parent makes of what they leave, a second child for  *)
(* a patch that fails, and the choice of one patch for the parent's tree.  *)
(***************************************************************************)
EXTENDS Validation

CONSTANTS
    Candidates,     \* the hypotheses, best first: a sequence without repetitions
    HypothesisScore, \* [ToSet(Candidates) -> Nat]
    Patches,        \* what a child may leave in its tree
    PatchInfo,      \* [Patches -> PatchRecord]
    NoPatch,        \* an untouched tree
    Leavings,       \* what a child may leave: its telling lines in order, a patch, in time
    TestOutputs,    \* what a test run of the parent may print
    Promoted,       \* the run's own scope, a set of at most one test
    Tests,          \* the tests a regression scope is chosen from
    Label,          \* the run's test label, a set of at most one test
    Setups          \* the settings a fan-out is run with

QualityFlags == {"deletion_heavy", "comment_only", "fallback_only", "placeholder_marker",
                 "broad_exception_swallow", "dynamic_code_execution", "repeated_added_line",
                 "incomplete_sibling_update"}

PatchRecord == [tests : BOOLEAN, source : BOOLEAN, aligned : BOOLEAN, added : Nat,
                removed : Nat, flags : SUBSET QualityFlags]

SetupRecord == [max : Nat, concurrency : Nat \ {0}, stop : Nat, wall : BOOLEAN,
                strengthening : BOOLEAN, arbiter : BOOLEAN, margin : Nat, arbiterMax : Nat,
                strong : BOOLEAN]

ASSUME FanoutAssumption ==
    /\ Candidates \in Seq(ToSet(Candidates)) /\ Cardinality(ToSet(Candidates)) = Len(Candidates)
    /\ HypothesisScore \in [ToSet(Candidates) -> Nat]
    /\ NoPatch \notin Patches
    /\ PatchInfo \in [Patches -> PatchRecord]
    /\ Setups \subseteq SetupRecord
    /\ \A left \in Leavings :
        left.lines \in Seq(STRING) /\ left.patch \in Patches \cup {NoPatch}

VARIABLES
    setup,      \* one of Setups
    fpc,        \* where the parent is
    launchedUpTo, \* how many of Candidates were started
    overdue,    \* the deadline of the fan-out has passed
    cand,       \* what is known of each candidate, and where its thread is
    testEnv,    \* who set SW_TEST_TIMEOUT_SECONDS and SW_TEST_STOP_ON_FAILURE last
    decision,   \* the candidate selected and by what
    parentTree  \* the patch applied to the parent's work tree

fanoutVars == <<setup, fpc, launchedUpTo, overdue, cand, testEnv, decision, parentTree>>

Ids == ToSet(Candidates)
None == "none"

\* marks: the telling lines of the current epoch; seen: those of all epochs; log: whether
\* the parent's last log shows tests that did not import or run; excluded: the issue scope that passed, while its regression scope
\* is run; tested: the patch the parent's last verdict of this epoch is about; proven:
\* the one the recorded provenance is about; printed: what the last child really wrote.
Fresh == [at |-> "waiting", patch |-> NoPatch, marks |-> {}, seen |-> {}, log |-> FALSE, timedOut |-> FALSE,
          second |-> FALSE, scope |-> {}, excluded |-> {}, verdict |-> None, saved |-> None,
          tested |-> NoPatch, proven |-> NoPatch, printed |-> {}]

FanoutStarted ==
    /\ launchedUpTo = 0 /\ overdue = FALSE
    /\ cand = [c \in Ids |-> Fresh]
    /\ testEnv = None
    /\ decision = [choice |-> None, selector |-> None, field |-> {}]
    /\ parentTree = NoPatch

FanoutInit == setup \in Setups /\ fpc = "collecting" /\ FanoutStarted

Update(c, new) == cand' = [cand EXCEPT ![c] = new]

-----------------------------------------------------------------------------
(* What makes a candidate.                                                 *)

Info(c) == PatchInfo[cand[c].patch]
HasPatch(c) == cand[c].patch # NoPatch
ChangedLines(c) == IF HasPatch(c) THEN Info(c).added + Info(c).removed ELSE 0
Aligned(c) == HasPatch(c) /\ Info(c).aligned
Signal(c) == selection_signal(cand[c].marks)

Weighs(c, flag, weight) == IF flag \in Info(c).flags THEN weight ELSE 0

Penalty(c) ==
    IF ~HasPatch(c) THEN 0
    ELSE Weighs(c, "deletion_heavy", 35) + Weighs(c, "comment_only", 80)
            + Weighs(c, "fallback_only", 45) + Weighs(c, "placeholder_marker", 55)
            + Weighs(c, "broad_exception_swallow", 45) + Weighs(c, "dynamic_code_execution", 50)
            + Weighs(c, "repeated_added_line", 30) + Weighs(c, "incomplete_sibling_update", 25)
            + (IF Info(c).added = 0 /\ Info(c).removed > 0 THEN 70 ELSE 0)

Broken == {"syntax", "collection", "did_not_run"}

candidate_rejection_reasons(c) ==
    {r \in {"empty_patch", "non_authoritative_patch_path", "test_file_touched", "output",
            "final_verification_failed"} :
        \/ r = "empty_patch" /\ ~HasPatch(c)
        \/ r = "non_authoritative_patch_path" /\ ~(HasPatch(c) /\ Info(c).source)
        \/ r = "test_file_touched" /\ HasPatch(c) /\ Info(c).tests
        \/ r = "output" /\ (cand[c].seen \cap Broken # {} \/ cand[c].log)
        \/ r = "final_verification_failed" /\ Signal(c) = "fail"}

Selectable(c) == cand[c].at = "done" /\ candidate_rejection_reasons(c) = {}

SignalScore(signal) ==
    CASE signal = "pass" -> 120
      [] signal = "source_scope_pass" -> 60
      [] signal = "regression_pass" -> 30
      [] signal = "feedback_pass" -> 25
      [] OTHER -> -45

Lesser(m, n) == IF m < n THEN m ELSE n

score_execution(c) ==
    Lesser(HypothesisScore[c], 200) + 30 + SignalScore(Signal(c))
        + (IF Aligned(c) THEN 30 ELSE 0)
        - (IF "import" \in cand[c].seen THEN 20 ELSE 0)
        - (IF cand[c].timedOut THEN 10 ELSE 0)
        - (IF "repair_fail" \in cand[c].seen THEN 10 ELSE 0)
        - Penalty(c) - Lesser(ChangedLines(c), 80)

\* Twice the median of the changed lines; without any there is none, nor a distance to it.
MedianX2(ids) ==
    LET sized == {c \in ids : ChangedLines(c) > 0}
        n == Cardinality(sized)
        place(c) == Cardinality({d \in sized : ChangedLines(d) < ChangedLines(c)})
        at(k) == CHOOSE lines \in {ChangedLines(c) : c \in sized} :
                    \E c \in sized : /\ ChangedLines(c) = lines /\ place(c) <= k
                                     /\ \A d \in sized : place(d) <= k => ChangedLines(d) <= lines
    IN IF sized = {} THEN 0
       ELSE IF n % 2 = 1 THEN 2 * at(n \div 2) ELSE at(n \div 2 - 1) + at(n \div 2)

Distance(c, median) ==
    IF 2 * ChangedLines(c) > median THEN 2 * ChangedLines(c) - median
    ELSE median - 2 * ChangedLines(c)

Position(c) == CHOOSE i \in DOMAIN Candidates : Candidates[i] = c

\* Two keys compared field by field; the smaller one comes first.
Precedes(k, l) ==
    \E i \in DOMAIN k : k[i] < l[i] /\ \A j \in 1 .. i - 1 : k[j] = l[j]

compare_execution_rank(c, median) ==
    <<-score_execution(c), Distance(c, median), Penalty(c), -HypothesisScore[c],
      ChangedLines(c), Position(c)>>

Yes(b) == IF b THEN 1 ELSE 0

compare_static_risk_tiebreak(c) ==
    <<-validation_signal_rank(Signal(c)), -Yes(Aligned(c)), Penalty(c), Yes(cand[c].timedOut),
      ChangedLines(c), -score_execution(c), -HypothesisScore[c], Position(c)>>

\* The candidates in the order of their keys.
InOrder(ids, key) ==
    [i \in 1 .. Cardinality(ids) |->
        CHOOSE c \in ids : Cardinality({d \in ids : Precedes(key[d], key[c])}) = i - 1]

RankedCandidates ==
    LET ids == {c \in Ids : Selectable(c)}
        median == MedianX2(ids)
        key == [c \in ids |-> compare_execution_rank(c, median)]
    IN IF ids = {} THEN <<>> ELSE InOrder(ids, key)

-----------------------------------------------------------------------------
(* A candidate's thread.                                                   *)

Timeless == setup.wall => ~overdue

should_attempt(c) ==
    /\ setup.strengthening /\ ~cand[c].second
    /\ Signal(c) = "fail" /\ HasPatch(c)
    /\ Timeless

\* The tree could not be set up or read, a child could not be started, or its time is over: the candidate is dropped.
DropCandidate(c) ==
    /\ cand[c].at = "child" \/ (cand[c].at = "judge" /\ should_attempt(c))
    /\ Update(c, [cand[c] EXCEPT !.at = "dropped"])
    /\ UNCHANGED <<setup, fpc, launchedUpTo, overdue, testEnv, decision, parentTree>>

ScopeFor(c) ==
    IF select_issue_scope(Promoted) # {} /\ cand[c].verdict = None
    THEN select_issue_scope(Promoted)
    ELSE select_regression_scope(Tests, HasPatch(c) /\ Info(c).source, cand[c].excluded, Label)

candidate_needs_parent_validation(marks) ==
    selection_signal(marks) \in {"source_scope_pass", "regression_pass", "feedback_pass",
                                 "unavailable", "none"}

\* Whether the parent has the tests run, or the candidate is strengthened or done.
AfterChild(record) ==
    IF record.patch # NoPatch /\ candidate_needs_parent_validation(record.marks) THEN "validate"
    ELSE "judge"

\* Mutant: no line tells the epochs apart.
ChildLeftInOneEpoch(c, left, kept) ==
    /\ kept \in 0 .. Len(left.lines)
    /\ LET marks == ToSet(SubSeq(left.lines, 1, kept)) \cup cand[c].marks
           new == [cand[c] EXCEPT !.patch = left.patch, !.marks = marks, !.seen = @ \cup marks,
                                  !.timedOut = @ \/ left.late, !.printed = ToSet(left.lines),
                                  !.tested = NoPatch, !.excluded = {}, !.verdict = None,
                                  !.second = cand[c].at = "judge"]
       IN Update(c, [new EXCEPT !.at = AfterChild(new)])
    /\ UNCHANGED <<setup, fpc, launchedUpTo, overdue, testEnv, decision, parentTree>>

\* A child prints its lines and leaves a patch, or is killed at its time.  Lines its
\* readers send after the channel was drained are lost.
ChildLeft(c, left, kept) ==
    /\ kept \in 0 .. Len(left.lines)
    /\ LET marks == ToSet(SubSeq(left.lines, 1, kept))
           new == [cand[c] EXCEPT !.patch = left.patch, !.marks = marks, !.seen = @ \cup marks,
                                  !.timedOut = @ \/ left.late, !.printed = ToSet(left.lines),
                                  !.tested = NoPatch, !.excluded = {}, !.verdict = None,
                                  !.second = cand[c].at = "judge"]
       IN Update(c, [new EXCEPT !.at = AfterChild(new)])
    /\ UNCHANGED <<setup, fpc, launchedUpTo, overdue, testEnv, decision, parentTree>>

RunChild(c, left, kept) ==
    /\ cand[c].at = "child"
    /\ Timeless
    /\ ChildLeft(c, left, kept)

\* The parent's verdict is appended to the child's output.
Verdict(record, signal) ==
    [record EXCEPT !.at = "judge", !.tested = record.patch,
                   !.marks = @ \cup {CASE signal = "fail" -> "parent_fail"
                                      [] signal = "source_scope_pass" -> "parent_source_scope_pass"
                                      [] signal = "regression_pass" -> "parent_regression_pass"
                                      [] signal = "feedback_pass" -> "parent_feedback_pass"
                                      [] signal = "unavailable" -> "parent_unavailable"}]

\* A regression scope that cannot be run any more leaves the issue scope's verdict.
SkipValidation(c) ==
    /\ cand[c].at = "validate"
    /\ ScopeFor(c) = {} \/ ~Timeless
    /\ Update(c, IF cand[c].verdict # None THEN Verdict(cand[c], cand[c].verdict)
                 ELSE [Verdict(cand[c], "unavailable") EXCEPT
                            !.log = FALSE,
                            !.proven = IF ScopeFor(c) = {} THEN NoPatch ELSE cand[c].patch])
    /\ UNCHANGED <<setup, fpc, launchedUpTo, overdue, testEnv, decision, parentTree>>

\* The variables of the process, which all candidates' threads share, are saved ...
SaveTestEnv(c) ==
    /\ cand[c].at = "validate"
    /\ ScopeFor(c) # {} /\ Timeless
    /\ Update(c, [cand[c] EXCEPT !.at = "set", !.saved = testEnv, !.scope = ScopeFor(c)])
    /\ UNCHANGED <<setup, fpc, launchedUpTo, overdue, testEnv, decision, parentTree>>

\* ... set for one test run ...
SetTestEnv(c) ==
    /\ cand[c].at = "set"
    /\ testEnv' = c
    /\ Update(c, [cand[c] EXCEPT !.at = "test"])
    /\ UNCHANGED <<setup, fpc, launchedUpTo, overdue, decision, parentTree>>

LogShowsBroken(out) ==
    out.exit \in {4, 5} \/ out.signs \cap {"import_or_syntax", "no_tests"} # {}

\* ... and restored after it.  The tree is put back as it was before the run, and an
\* issue scope that passes is followed by a regression scope.
RunTest(c, out) ==
    /\ cand[c].at = "test"
    /\ LET test == CHOOSE t \in cand[c].scope : TRUE
           signal == assess_against_baseline(out, test.baseline)
           first == cand[c].verdict = None
           issue == first /\ cand[c].scope = select_issue_scope(Promoted)
           total == IF first THEN signal ELSE IF signal = "fail" THEN "fail"
                    ELSE cand[c].verdict
           new == [cand[c] EXCEPT !.log = LogShowsBroken(out) \/ (~first /\ @),
                                  !.proven = cand[c].patch, !.verdict = total]
       IN Update(c, IF issue /\ signal = "source_scope_pass"
                    THEN [new EXCEPT !.at = "restore", !.excluded = {test.path}]
                    ELSE [Verdict(new, total) EXCEPT !.at = "restore"])
    /\ UNCHANGED <<setup, fpc, launchedUpTo, overdue, testEnv, decision, parentTree>>

RestoreTestEnv(c) ==
    /\ cand[c].at = "restore"
    /\ testEnv' = cand[c].saved
    /\ Update(c, [cand[c] EXCEPT !.at = IF cand[c].tested = cand[c].patch THEN "judge"
                                       ELSE "validate",
                                 !.scope = {}, !.saved = None])
    /\ UNCHANGED <<setup, fpc, launchedUpTo, overdue, decision, parentTree>>

\* A patch that fails gets one more child, whose output opens a new epoch.
Strengthen(c, left, kept) ==
    /\ cand[c].at = "judge"
    /\ should_attempt(c)
    /\ ChildLeft(c, left, kept)

Finish(c) ==
    /\ cand[c].at = "judge"
    /\ ~should_attempt(c)
    /\ Update(c, [cand[c] EXCEPT !.at = "done"])
    /\ UNCHANGED <<setup, fpc, launchedUpTo, overdue, testEnv, decision, parentTree>>

-----------------------------------------------------------------------------
(* The parent.                                                             *)

Finished(c) == cand[c].at \in {"done", "dropped"}
Started == {Candidates[i] : i \in 1 .. launchedUpTo}
Limit == Lesser(Len(Candidates), IF setup.max = 0 THEN 1 ELSE setup.max)

fanout_budget_stop_reason ==
    \/ ~Timeless
    \/ /\ setup.stop > 0
       /\ Cardinality({c \in Started : cand[c].at = "done" /\ cand[c].timedOut /\ HasPatch(c)})
            >= setup.stop

DeadlinePasses ==
    /\ fpc = "collecting" /\ setup.wall /\ ~overdue
    /\ overdue' = TRUE
    /\ UNCHANGED <<setup, fpc, launchedUpTo, cand, testEnv, decision, parentTree>>

StartChunk ==
    /\ fpc = "collecting"
    /\ \A c \in Started : Finished(c)
    /\ launchedUpTo < Limit /\ ~fanout_budget_stop_reason
    /\ launchedUpTo' = Lesser(launchedUpTo + setup.concurrency, Limit)
    /\ cand' = [c \in Ids |-> IF Position(c) \in launchedUpTo + 1 .. launchedUpTo'
                              THEN [Fresh EXCEPT !.at = "child"] ELSE cand[c]]
    /\ UNCHANGED <<setup, fpc, overdue, testEnv, decision, parentTree>>

StopCollecting ==
    /\ fpc = "collecting"
    /\ \A c \in Started : Finished(c)
    /\ launchedUpTo = Limit \/ fanout_budget_stop_reason
    /\ fpc' = "selecting"
    /\ UNCHANGED <<setup, launchedUpTo, overdue, cand, testEnv, decision, parentTree>>

selection_needs_arbitration(ranked) ==
    LET weak(c) == Signal(c) \in {"unavailable", "none"}
    IN /\ Len(ranked) > 1
       /\ ~(Signal(ranked[1]) = "pass" /\ Signal(ranked[2]) # "pass")
       /\ \/ weak(ranked[1]) /\ weak(ranked[2])
          \/ score_execution(ranked[1]) - score_execution(ranked[2]) <= setup.margin

ArbitrationField(ranked) ==
    ToSet(SubSeq(ranked, 1, Lesser(Len(ranked), IF setup.arbiterMax = 0 THEN 1
                                                 ELSE setup.arbiterMax)))

static_risk_tiebreak_index(field) ==
    InOrder(field, [c \in field |-> compare_static_risk_tiebreak(c)])[1]

\* Mutant: whatever may be selected may be chosen.
ArbiterAllowedAny(chosen, fallback) == Selectable(chosen)

arbiter_selection_allowed(chosen, fallback) ==
    LET rank(c) == validation_signal_rank(Signal(c))
    IN  IF rank(chosen) # rank(fallback) THEN rank(chosen) > rank(fallback)
        ELSE IF Penalty(chosen) # Penalty(fallback) THEN Penalty(chosen) < Penalty(fallback)
        ELSE IF Aligned(chosen) # Aligned(fallback) THEN Aligned(chosen)
        ELSE rank(chosen) <= 1 => ChangedLines(chosen) <= ChangedLines(fallback) + 8

\* answer is the candidate a model names, if it answers in time and names one.
Select(answer) ==
    /\ fpc = "selecting"
    /\ \E ranked \in {RankedCandidates} :
        IF ranked = <<>>
        THEN decision' = [choice |-> None, selector |-> "none", field |-> {}]
        ELSE IF ~(selection_needs_arbitration(ranked) /\ setup.arbiter)
        THEN decision' = [choice |-> ranked[1], selector |-> "heuristic", field |-> {ranked[1]}]
        ELSE \E field \in {ArbitrationField(ranked)} :
             \E fallback \in {static_risk_tiebreak_index(field)} :
                decision' = IF answer \in field /\ arbiter_selection_allowed(answer, fallback)
                            THEN [choice |-> answer, selector |-> "llm_arbiter", field |-> field]
                            ELSE [choice |-> fallback, selector |-> "static_risk_tiebreak",
                                  field |-> field]
    /\ fpc' = "applying"
    /\ UNCHANGED <<setup, launchedUpTo, overdue, cand, testEnv, parentTree>>

clean_source_candidate(c, allowTimeout) ==
    /\ HasPatch(c) /\ (allowTimeout \/ ~cand[c].timedOut)
    /\ Aligned(c) /\ Penalty(c) = 0
    /\ ChangedLines(c) \in 1 .. 48
    /\ cand[c].seen \cap Broken = {} /\ ~cand[c].log
    /\ Info(c).source /\ ~Info(c).tests

early_lane_static_selection_allowed(c) ==
    CASE Signal(c) = "pass" -> Info(c).source
      [] Signal(c) = "fail" -> FALSE
      [] OTHER -> clean_source_candidate(c, Signal(c) = "source_scope_pass")

selection_allowed_to_apply(c) ==
    Selectable(c) /\ (setup.strong => early_lane_static_selection_allowed(c))

\* The patch chosen is applied to the parent's tree, if git takes it.
Apply(taken) ==
    /\ fpc = "applying"
    /\ LET c == decision.choice
       IN parentTree' = IF c # None /\ taken THEN IF selection_allowed_to_apply(c)
                                                THEN cand[c].patch ELSE NoPatch
                        ELSE NoPatch
    /\ fpc' = "ended"
    /\ UNCHANGED <<setup, launchedUpTo, overdue, cand, testEnv, decision>>

CandidateStep(c) ==
    \/ DropCandidate(c)
    \/ /\ cand[c].at \in {"child", "judge"}
       /\ \E left \in Leavings : \E kept \in {0, Len(left.lines)} :
            RunChild(c, left, kept) \/ Strengthen(c, left, kept)
    \/ SkipValidation(c) \/ SaveTestEnv(c) \/ SetTestEnv(c) \/ RestoreTestEnv(c) \/ Finish(c)
    \/ \E out \in TestOutputs : RunTest(c, out)

FanoutNext ==
    \/ \E c \in Ids : CandidateStep(c)
    \/ DeadlinePasses \/ StartChunk \/ StopCollecting
    \/ \E answer \in Ids \cup {None} : Select(answer)
    \/ \E taken \in BOOLEAN : Apply(taken)

FanoutSpec == FanoutInit /\ [][FanoutNext]_fanoutVars

-----------------------------------------------------------------------------
(* What the fan-out promises.                                              *)

ParentMarks == {"parent_fail", "parent_source_scope_pass", "parent_regression_pass",
                "parent_feedback_pass", "parent_unavailable"}

\* A child is started with a depth at which it starts no children, so that a verdict of a
\* parent in its output is its parent's.
ChildrenGiveNoVerdict == \A left \in Leavings : ToSet(left.lines) \cap ParentMarks = {}

\* The verdict that counts for a candidate is about the patch that would be applied,
\* whatever its second child changed (candidate_fanout.rs, CANDIDATE_EVIDENCE_EPOCH).
VerdictIsOfPatch ==
    \A c \in Ids : cand[c].at = "done" /\ cand[c].marks \cap ParentMarks # {}
                        => cand[c].tested = cand[c].patch

\* Whatever a model answers, no candidate it had to choose from is better validated
\* than the one applied.
ArbiterWeakensNothing ==
    parentTree # NoPatch =>
        \A c \in decision.field :
            validation_signal_rank(Signal(c)) <= validation_signal_rank(Signal(decision.choice))

\* A candidate whose last child reported that its final verification failed is not applied.
FailureIsHeard ==
    parentTree # NoPatch => "final_fail" \notin cand[decision.choice].printed


=============================================================================
