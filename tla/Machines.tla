------------------------------- MODULE Machines ------------------------------
(***************************************************************************)
(* The workflows the command line carries with it (cli/src/main.rs), what  *)
(* a problem-shape lane changes in them, and the names the loop goes to    *)
(* without asking the definition.                                          *)
(*                                                                         *)
(* A state is [on, tools, limit, next]: where its events lead, the classes *)
(* of tools it allows, max_iterations and safe_next.                       *)
(***************************************************************************)
EXTENDS Naturals, FiniteSets

CONSTANT NoState

Final == [on |-> <<>>, tools |-> {}, limit |-> 0, next |-> NoState]

State(on, tools, limit, next) ==
    [on |-> on, tools |-> tools, limit |-> limit, next |-> next]

States(machine) == DOMAIN machine.states
On(machine, s) == machine.states[s].on
IsFinalState(machine, s) == machine.states[s] = Final

reading == {"read", "test"}
editing == {"read", "test", "edit"}

-----------------------------------------------------------------------------
(* The definitions.  localizing is done by the program, without a model.   *)

BugFixMachine ==
    [initial |-> "localizing",
     states |-> [
        localizing |-> State([LOCALIZED |-> "planning", FAIL |-> "failed"], {}, 0, NoState),
        planning |-> State([PLAN_READY |-> "implementing", DONE |-> "implementing",
                            FAIL |-> "failed"], reading, 10, "implementing"),
        implementing |-> State([DONE |-> "testing", FAIL |-> "failed"], editing, 15, "testing"),
        testing |-> State([TESTS_PASS |-> "review", TESTS_FAIL |-> "implementing",
                           FAIL |-> "failed"], reading, 3, NoState),
        review |-> State([APPROVED |-> "completed", REJECTED |-> "implementing",
                          TESTS_PASS |-> "implementing", TESTS_FAIL |-> "implementing"],
                         {"read", "diff"}, 3, NoState),
        completed |-> Final,
        failed |-> Final]]

StructuredMachine ==
    [initial |-> "localizing",
     states |-> [
        localizing |-> State([LOCALIZED |-> "scope_selecting", FAIL |-> "failed"],
                             {}, 0, NoState),
        scope_selecting |-> State([SCOPE_READY |-> "hypothesizing", DONE |-> "hypothesizing",
                                   NEED_MORE_CONTEXT |-> "scope_selecting", FAIL |-> "failed"],
                                  reading, 4, "hypothesizing"),
        hypothesizing |-> State([HYPOTHESIS_READY |-> "patch_planning",
                                 DONE |-> "patch_planning", NEED_SCOPE |-> "scope_selecting",
                                 FAIL |-> "failed"],
                                reading \cup {"reproduce"}, 5, "patch_planning"),
        patch_planning |-> State([PATCH_READY |-> "editing", DONE |-> "editing",
                                  NEED_EVIDENCE |-> "hypothesizing", FAIL |-> "failed"],
                                 {"read", "diff"}, 3, "editing"),
        editing |-> State([DONE |-> "micro_validation", PATCH_READY |-> "micro_validation",
                           NEED_PLAN |-> "patch_planning", FAIL |-> "failed"],
                          editing, 8, "micro_validation"),
        micro_validation |-> State([TESTS_PASS |-> "completion_audit",
                                    TRUSTED_PASS |-> "completion_audit",
                                    TASK_EVIDENCE_NEEDED |-> "task_evidence_acquisition",
                                    VALIDATION_FEEDBACK_ONLY |-> "failure_triage",
                                    VALIDATION_UNAVAILABLE |-> "failure_triage",
                                    TESTS_FAIL |-> "failure_triage", FAIL |-> "failed"],
                                   reading \cup {"reproduce"}, 2, NoState),
        task_evidence_acquisition |->
            State([TASK_EVIDENCE_FIXED |-> "completion_audit",
                   TASK_EVIDENCE_CHANGED |-> "completion_audit",
                   TASK_EVIDENCE_REPAIR |-> "failure_triage",
                   TASK_EVIDENCE_UNAVAILABLE |-> "failure_triage",
                   DONE |-> "failure_triage", FAIL |-> "failure_triage"],
                  {"read", "diff", "reproduce"}, 2, "failure_triage"),
        failure_triage |-> State([SAME_FAILURE |-> "patch_planning",
                                  COLLECTION_ERROR |-> "patch_planning",
                                  NO_TESTS_COLLECTED |-> "scope_selecting",
                                  RUNNER_UNAVAILABLE |-> "patch_planning",
                                  OVERSIZED_OR_TEST_EDIT |-> "patch_planning",
                                  TESTS_FAIL |-> "patch_planning",
                                  NEED_SCOPE |-> "scope_selecting", PATCH_READY |-> "editing",
                                  DONE |-> "patch_planning", FAIL |-> "failed"],
                                 reading \cup {"diff"}, 4, "patch_planning"),
        completion_audit |-> State([APPROVED |-> "review", DONE |-> "review",
                                    TRUSTED_PASS |-> "review",
                                    VALIDATION_UNAVAILABLE |-> "failure_triage",
                                    VALIDATION_FEEDBACK_ONLY |-> "failure_triage",
                                    REJECTED |-> "patch_planning",
                                    TESTS_FAIL |-> "failure_triage", FAIL |-> "failed"],
                                   reading \cup {"diff"}, 3, "review"),
        review |-> State([APPROVED |-> "completed", DONE |-> "completed",
                          REJECTED |-> "patch_planning", TESTS_PASS |-> "completion_audit",
                          TESTS_FAIL |-> "failure_triage", FAIL |-> "failed"],
                         {"read", "diff"}, 3, NoState),
        completed |-> Final,
        failed |-> Final]]

SpeedMachine ==
    [initial |-> "localizing",
     states |-> [
        localizing |-> State([LOCALIZED |-> "targeting", FAIL |-> "failed"], {}, 0, NoState),
        targeting |-> State([SCOPE_READY |-> "editing", HYPOTHESIS_READY |-> "editing",
                             DONE |-> "editing", NEED_MORE_CONTEXT |-> "targeting",
                             FAIL |-> "failed"], reading, 4, "editing"),
        editing |-> State([DONE |-> "micro_validation", PATCH_READY |-> "micro_validation",
                           NEED_EVIDENCE |-> "targeting", FAIL |-> "failed"],
                          editing \cup {"diff"}, 7, "micro_validation"),
        micro_validation |-> State([TESTS_PASS |-> "review", TRUSTED_PASS |-> "review",
                                    VALIDATION_UNAVAILABLE |-> "review",
                                    VALIDATION_FEEDBACK_ONLY |-> "review",
                                    COLLECTION_ERROR |-> "editing", TESTS_FAIL |-> "editing",
                                    FAIL |-> "failed"],
                                   reading \cup {"diff"}, 2, "review"),
        review |-> State([APPROVED |-> "completed", DONE |-> "completed",
                          REJECTED |-> "editing", TESTS_FAIL |-> "editing",
                          FAIL |-> "failed"], {"read", "diff"}, 2, NoState),
        completed |-> Final,
        failed |-> Final]]

GreenfieldMachine ==
    [initial |-> "understanding",
     states |-> [
        understanding |-> State([UNDERSTOOD |-> "test_writing", DONE |-> "test_writing",
                                 FAIL |-> "failed"], {"read"}, 5, "test_writing"),
        test_writing |-> State([TESTS_WRITTEN |-> "red_check", DONE |-> "red_check",
                                FAIL |-> "failed"], {"read", "edit", "create"}, 8, "red_check"),
        red_check |-> State([TESTS_RED |-> "implementing", TESTS_PASS |-> "test_writing",
                             DONE |-> "implementing", FAIL |-> "failed"], {"test"}, 3, NoState),
        implementing |-> State([DONE |-> "green_check", TESTS_PASS |-> "green_check",
                                FAIL |-> "failed"],
                               editing \cup {"create"}, 20, "green_check"),
        green_check |-> State([APPROVED |-> "completed", DONE |-> "completed",
                               TESTS_FAIL |-> "implementing", TESTS_PASS |-> "completed",
                               FAIL |-> "failed"], reading \cup {"diff"}, 3, NoState),
        completed |-> Final,
        failed |-> Final]]

ControlFlatMachine ==
    [initial |-> "solving",
     states |-> [
        solving |-> State([DONE |-> "completed", FAIL |-> "failed"],
                          editing \cup {"diff"}, 20, NoState),
        completed |-> Final,
        failed |-> Final]]

\* hardcoded_bug_fix_machine_for_variant: an unknown variant is the structured one.
VariantMachine(variant) ==
    CASE variant = "speed" -> SpeedMachine
      [] variant = "legacy" -> BugFixMachine
      [] OTHER -> StructuredMachine

HardcodedMachines ==
    {BugFixMachine, StructuredMachine, SpeedMachine, GreenfieldMachine, ControlFlatMachine}

-----------------------------------------------------------------------------
(* Problem-shape lanes.                                                    *)

\* set_state_max_iterations
WithLimits(machine, limits) ==
    [machine EXCEPT !.states = [s \in States(machine) |->
        IF s \in DOMAIN limits THEN [machine.states[s] EXCEPT !.limit = limits[s]]
        ELSE machine.states[s]]]

\* set_state_transition_target: not when the target is missing; the event need
\* not have been there.
Retarget(machine, s, event, target) ==
    IF target \notin States(machine) \/ s \notin States(machine) THEN machine
    ELSE [machine EXCEPT !.states[s].on =
            [e \in DOMAIN @ \cup {event} |-> IF e = event THEN target ELSE @[e]]]

ScaledTo(scope, hypotheses, plan, edit, triage) ==
    [scope_selecting |-> scope, hypothesizing |-> hypotheses, patch_planning |-> plan,
     editing |-> edit, failure_triage |-> triage]

Lanes == {"focused", "exploratory", "ambiguous", "balanced"}

FocusedLane(machine) ==
    LET m == WithLimits(machine, ScaledTo(3, 5, 3, 7, 3))
    IN Retarget(Retarget(m, "failure_triage", "SAME_FAILURE", "patch_planning"),
                "failure_triage", "TESTS_FAIL", "patch_planning")

ExploratoryLane(machine) ==
    LET m == WithLimits(machine, ScaledTo(7, 6, 4, 5, 5))
    IN Retarget(Retarget(Retarget(Retarget(m,
            "patch_planning", "NEED_EVIDENCE", "scope_selecting"),
            "failure_triage", "SAME_FAILURE", "scope_selecting"),
            "failure_triage", "TESTS_FAIL", "hypothesizing"),
            "failure_triage", "DONE", "scope_selecting")

AmbiguousLane(machine) ==
    LET m == WithLimits(machine, ScaledTo(5, 6, 4, 6, 5))
    IN Retarget(Retarget(m, "failure_triage", "SAME_FAILURE", "hypothesizing"),
                "failure_triage", "TESTS_FAIL", "hypothesizing")

BalancedLane(machine) == WithLimits(machine, ScaledTo(4, 5, 3, 7, 4))

\* apply_problem_shape_machine_policy
InLane(machine, lane) ==
    CASE lane = "focused" -> FocusedLane(machine)
      [] lane = "exploratory" -> ExploratoryLane(machine)
      [] lane = "ambiguous" -> AmbiguousLane(machine)
      [] lane = "balanced" -> BalancedLane(machine)

\* Every event and every safe_next of a machine leads to a state it has, and from
\* every state but "failed" a run can still complete.
Workable(machine) ==
    LET Leads(s) == {On(machine, s)[e] : e \in DOMAIN On(machine, s)}
    IN /\ machine.initial \in States(machine)
       /\ \A s \in States(machine) :
            Leads(s) \subseteq States(machine)
            /\ machine.states[s].next \in States(machine) \cup {NoState}
       /\ \A past \in SUBSET States(machine) :
            "completed" \in past /\ (\A s \in States(machine) : Leads(s) \cap past # {} => s \in past)
                => States(machine) \ {"failed"} \subseteq past

\* No lane takes that from a machine it changes, a missing target included.
ASSUME LanesStayWorkable ==
    \A machine \in HardcodedMachines :
        Workable(machine) /\ \A lane \in Lanes : Workable(InLane(machine, lane))

-----------------------------------------------------------------------------
(* Names.                                                                  *)

IsImplementation(s) == s \in {"implementing", "editing"}
IsValidation(s) == s \in {"testing", "micro_validation"}
IsReviewLike(s) == s \in {"review", "completion_audit"}

\* The states in which the step budget does not end the loop.
IsEndgame(s) ==
    IsValidation(s) \/ IsReviewLike(s) \/ s \in {"completed", "green_check", "red_check"}

ImplementationState(machine) ==
    IF "editing" \in States(machine) THEN "editing" ELSE "implementing"

FailureTriageState(machine) ==
    IF "failure_triage" \in States(machine) THEN "failure_triage"
    ELSE ImplementationState(machine)

TrustedPassState(machine) ==
    IF "completion_audit" \in States(machine) THEN "completion_audit" ELSE "review"

TaskEvidenceState(machine) ==
    IF "task_evidence_acquisition" \in States(machine) THEN "task_evidence_acquisition"
    ELSE TrustedPassState(machine)

\* A child of a fan-out goes on to review what it could not validate.
UnavailableState(machine, child) ==
    IF child THEN TrustedPassState(machine) ELSE FailureTriageState(machine)

LocalizedNext(machine) ==
    IF "localizing" \in States(machine) /\ "LOCALIZED" \in DOMAIN On(machine, "localizing")
    THEN On(machine, "localizing").LOCALIZED ELSE "planning"

EvidenceRefreshState(machine) ==
    IF "patch_planning" \in States(machine) THEN "patch_planning"
    ELSE IF "hypothesizing" \in States(machine) THEN "hypothesizing"
    ELSE ImplementationState(machine)

ReplanState(machine) ==
    IF "patch_planning" \in States(machine) THEN "patch_planning"
    ELSE ImplementationState(machine)

=============================================================================
