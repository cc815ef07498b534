----------------------------- MODULE Validation -----------------------------
(***************************************************************************)
(* What a test run says about a patch (cli/src/repair_feedback.rs,         *)
(* validation_oracle.rs, candidate_validation.rs, candidate_evidence.rs).  *)
(* The output of a run is a record: exit, the exit code it reports;        *)
(* signs, the texts its classification looks for; fingerprint, its failure *)
(* lines; refers, that it names a file the patch changed; forbidden, that  *)
(* it quotes the benchmark's own answers.                                  *)
(***************************************************************************)
EXTENDS Integers, FiniteSets, SequencesExt

CONSTANT NoBaseline     \* no outcome of this scope on the untouched tree is recorded

NoExit == -1

Kinds == {"passed", "assertion_failure", "syntax_or_collection", "invalid_scope",
          "env_unavailable", "timeout", "unknown_failure"}

\* The first group of texts that occurs decides, before the exit code is looked at.
classify_output(out) ==
    CASE "unavailable" \in out.signs -> "env_unavailable"
      [] "timed_out" \in out.signs /\ "unavailable" \notin out.signs -> "timeout"
      [] /\ {"unavailable", "timed_out"} \cap out.signs = {}
         /\ out.exit = 5 \/ "no_tests" \in out.signs -> "invalid_scope"
      [] /\ {"unavailable", "timed_out", "no_tests"} \cap out.signs = {} /\ out.exit # 5
         /\ out.exit = 4 \/ "import_or_syntax" \in out.signs -> "syntax_or_collection"
      [] OTHER -> IF "failure" \in out.signs THEN "assertion_failure"
                  ELSE IF out.exit = 0 THEN "passed" ELSE "unknown_failure"

IsBlockingKind(kind) ==
    kind \in {"assertion_failure", "syntax_or_collection", "unknown_failure"}

Decision(tier, blocking) == [tier |-> tier, blocking |-> blocking]
Skip == Decision("validation_unavailable", FALSE)
Feedback == Decision("feedback_only", FALSE)
Structural == Decision("structural_patch_check", TRUE)
Trusted(kind) == Decision("trusted_public_scope", IsBlockingKind(kind))
Forbidden == Decision("forbidden_oracle", FALSE)

\* Without a recorded outcome only a failure to import what was changed counts.
classify_repair_scope(kind, out, runnable) ==
    CASE out.forbidden -> Forbidden
      [] ~out.forbidden /\ kind \in {"env_unavailable", "invalid_scope", "timeout"} -> Skip
      [] ~out.forbidden /\ kind = "passed" -> IF runnable THEN Trusted(kind) ELSE Feedback
      [] ~out.forbidden /\ kind = "syntax_or_collection" -> IF out.refers THEN Structural ELSE Skip
      [] OTHER -> Feedback

TaskRelated(baseline) == baseline.relation = "task_related"
SameFailure(out, baseline) ==
    baseline.fingerprint # "" /\ baseline.fingerprint = out.fingerprint

PassDecision(baseline) ==
    IF baseline # NoBaseline /\ (baseline.kind = "passed" \/ TaskRelated(baseline))
    THEN Trusted("passed") ELSE Feedback

FailDecision(kind, out, baseline) ==
    CASE baseline = NoBaseline -> classify_repair_scope(kind, out, FALSE)
      [] baseline # NoBaseline /\ baseline.kind = "passed" -> Trusted(kind)
      [] baseline # NoBaseline /\ baseline.kind # "passed" /\ TaskRelated(baseline) ->
            IF out.refers THEN Structural ELSE Trusted(kind)
      [] baseline # NoBaseline /\ baseline.kind # "passed" /\ ~TaskRelated(baseline) ->
            IF ~SameFailure(out, baseline) /\ out.refers THEN Structural ELSE Feedback

\* A tree that does not import is judged before its scope is.
classify_candidate_scope_against_baseline(kind, out, baseline) ==
    LET again == kind = "syntax_or_collection" /\ baseline # NoBaseline
                    /\ SameFailure(out, baseline)
        broken == kind = "syntax_or_collection" /\ ~again /\ out.refers
    IN CASE out.forbidden -> Forbidden
         [] ~out.forbidden /\ again -> IF TaskRelated(baseline) THEN Trusted(kind) ELSE Feedback
         [] ~out.forbidden /\ broken -> Structural
         [] ~out.forbidden /\ ~again /\ ~broken ->
                CASE kind \in {"env_unavailable", "invalid_scope", "timeout"} -> Skip
                  [] kind = "passed" -> PassDecision(baseline)
                  [] OTHER -> FailDecision(kind, out, baseline)

assess_against_baseline(out, baseline) ==
    LET kind == classify_output(out)
    IN IF kind = "passed"
       THEN IF baseline # NoBaseline /\ baseline.kind = "passed" THEN "regression_pass"
            ELSE IF baseline # NoBaseline /\ TaskRelated(baseline) THEN "source_scope_pass"
            ELSE "feedback_pass"
       ELSE IF classify_candidate_scope_against_baseline(kind, out, baseline).blocking
            THEN "fail" ELSE "unavailable"

-----------------------------------------------------------------------------
(* Two runs of the same tests compared.                                    *)

delta_for(provenance, before, after) ==
    CASE after \in {"env_unavailable", "timeout"} -> "unavailable"
      [] after \in {"invalid_scope", "syntax_or_collection"} /\ provenance # "structural" -> "invalid"
      [] OTHER ->
            IF before = "passed" THEN IF after = "passed" THEN "unchanged_pass" ELSE "regressed"
            ELSE IF after # "passed" THEN "unchanged_fail"
            ELSE IF provenance \in {"task_reproducer", "structural"} THEN "fixed"
            ELSE "unchanged_pass"

delta_for_observations(provenance, before, after, printBefore, printAfter) ==
    LET broad == delta_for(provenance, before, after)
    IN IF broad = "unchanged_fail" /\ printBefore # "" /\ printAfter # ""
          /\ printBefore # printAfter
       THEN "changed_fail" ELSE broad

\* Only tests that pass now and failed before count as fixed, whoever wrote them, and
\* tests that passed before are never counted as failing as they did.
ASSUME DeltaIsChange ==
    \A provenance \in {"task_reproducer", "structural", "repository"},
       before, after \in Kinds, printBefore, printAfter \in {"", "p", "q"} :
        LET delta == delta_for_observations(provenance, before, after, printBefore, printAfter)
        IN /\ delta = "fixed" => before # "passed" /\ after = "passed"
           /\ before = "passed" => delta \notin {"fixed", "unchanged_fail", "changed_fail"}

-----------------------------------------------------------------------------
(* Which tests a parent runs for a candidate.  A test is a record: path in *)
(* a total order, origins, what brought it up, relation to the sources the *)
(* patch changed, and its baseline.                                        *)

OriginBonus(origin) ==
    CASE origin = "public" -> 0
      [] origin = "advisory" -> 350
      [] origin = "runnable" -> 300
      [] origin = "child_runnable" -> 500
      [] origin = "child" -> 250

\* A public test that is not related to what was changed is not proposed.
ScoreOf(test, changedSources) ==
    {test.relation + OriginBonus(o) : o \in {o \in test.origins :
        ~changedSources \/ test.relation > 0 \/ OriginBonus(o) > 0}}

TestScore(test, changedSources) ==
    CHOOSE n \in ScoreOf(test, changedSources) : \A k \in ScoreOf(test, changedSources) : k <= n

\* The promoted scope of the run, if it failed for the task's sake before.
select_issue_scope(promoted) ==
    {test \in promoted : test.baseline # NoBaseline /\ test.baseline.kind # "passed"
                            /\ TaskRelated(test.baseline)}

\* Without any such file it is the label of the run, if there is one.
select_regression_scope(tests, changedSources, excluded, label) ==
    LET fit == {test \in tests :
                   /\ ScoreOf(test, changedSources) # {}
                   /\ test.path \notin excluded
                   /\ test.baseline = NoBaseline \/ test.baseline.kind = "passed"}
        score == [test \in fit |-> TestScore(test, changedSources)]
    IN IF fit = {} THEN label
       ELSE {test \in fit : \A other \in fit \ {test} :
                \/ score[test] > score[other]
                \/ score[test] = score[other] /\ test.path < other.path}

-----------------------------------------------------------------------------
(* What a child's output and its parent's verdict amount to.  marks are    *)
(* the telling lines of the latest epoch.                                  *)

Failing == {"final_fail", "parent_fail", "repair_fail"}

EvidenceKind(marks) ==
    CASE marks \cap Failing # {} -> "concrete_fail"
      [] marks \cap Failing = {} /\ "final_pass" \in marks -> "canonical_pass"
      [] OTHER ->
            IF marks \cap {"parent_source_scope_pass", "baseline_repaired"} # {}
            THEN "issue_mapped_pass"
            ELSE IF marks \cap {"parent_regression_pass", "repair_regression_pass"} # {}
            THEN "regression_pass"
            ELSE IF "trusted_scope_pass" \in marks THEN "trusted_scope_pass"
            ELSE IF marks \cap {"parent_feedback_pass", "scoped_pass"} # {} THEN "feedback_pass"
            ELSE IF marks \cap {"final_unavailable", "parent_unavailable"} # {}
            THEN "unavailable" ELSE "did_not_run"

selection_signal(marks) ==
    LET kind == EvidenceKind(marks)
    IN CASE kind = "concrete_fail" -> "fail"
         [] kind = "canonical_pass" -> "pass"
         [] kind = "issue_mapped_pass" -> "source_scope_pass"
         [] kind \in {"regression_pass", "trusted_scope_pass"} -> "regression_pass"
         [] kind = "did_not_run" -> "none"
         [] OTHER -> kind

validation_signal_rank(signal) ==
    CASE signal = "pass" -> 4
      [] signal = "source_scope_pass" -> 3
      [] signal = "regression_pass" -> 2
      [] signal = "fail" -> 0
      [] OTHER -> 1

=============================================================================
