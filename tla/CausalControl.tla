---------------------------- MODULE CausalControl ----------------------------
(***************************************************************************)
(* The causal mode of the command line: the repair controller              *)
(* (causal_repair.rs), the best checkpoint (causal_checkpoint.rs), the      *)
(* serial policy (causal_control.rs) and what main.rs records in them.      *)
(*                                                                         *)
(* A signal is what a test scope showed relative to its baseline, a delta   *)
(* what the task's own reproducer showed.  A mark is a fact a checkpoint    *)
(* counts as evidence for its patch.                                       *)
(***************************************************************************)
EXTENDS Integers, FiniteSets

CONSTANTS
    SafetyBudget,       \* safety_edit_budget, at least 2
    ReproducerBlocks    \* edits refused before a reproducer was tried

ASSUME CausalAssumption == SafetyBudget \in Nat /\ SafetyBudget >= 2 /\ ReproducerBlocks \in Nat

PassLike(signal) == signal \in {"regression_pass", "task_improved", "structural_pass"}

NoBest == [tree |-> {"no checkpoint"}, ev |-> {}]

NoCausal ==
    [ctl |-> "prepared", ev |-> {}, best |-> NoBest, edits |-> 0, last |-> "none",
     repeats |-> 0, used |-> FALSE, qualified |-> FALSE, blocks |-> ReproducerBlocks,
     accepted |-> {"no snapshot"}, shown |-> {}]

-----------------------------------------------------------------------------
(* The controller.  An event it does not expect leaves it where it is.     *)

Started(ctl) == ctl \notin {"prepared", "frozen"}

\* next_state
CtlNext(ctl, event) ==
    CASE event = "freeze" -> "frozen"
      [] event = "mapped" /\ ctl = "prepared" -> "mapped"
      [] event = "qualified" /\ Started(ctl) -> "reproducer"
      [] event = "no_oracle" /\ ctl = "mapped" -> "direct"
      [] event = "planned" /\ Started(ctl) -> "planned"
      [] event = "applied" /\ ctl = "planned" -> "applied"
      [] event = "structural_pass" /\ ctl = "applied" -> "structural"
      [] event \in {"structural_failure", "unavailable", "regression_failure"} /\ Started(ctl)
           -> "planned"
      [] event = "delta_fixed" /\ ctl = "structural" -> "fixed"
      [] event = "delta_other" /\ ctl = "structural" -> "planned"
      [] event = "regression_pass" /\ ctl \in {"structural", "fixed"} -> "regression"
      [] OTHER -> ctl

Record(c, event) == [c EXCEPT !.ctl = CtlNext(@, event)]

-----------------------------------------------------------------------------
(* Checkpoints.                                                            *)

MarksOf(signal) ==
    CASE signal = "structural_pass" -> {"structural"}
      [] signal = "task_improved" -> {"structural", "task"}
      [] signal = "regression_pass" -> {"structural", "regression"}
      [] OTHER -> {}

MarksOfDelta(delta) == IF delta = "fixed" THEN {"structural", "fixed"} ELSE {}

Quality(ev) ==
    (IF "fixed" \in ev THEN 8 ELSE 0) + (IF "task" \in ev THEN 4 ELSE 0)
        + (IF "regression" \in ev THEN 2 ELSE 0) + (IF "structural" \in ev THEN 1 ELSE 0)

\* should_replace: more evidence, or as much for a patch that contains the old one.
Replaces(old, new) ==
    \/ old = NoBest
    \/ Quality(new.ev) > Quality(old.ev)
    \/ Quality(new.ev) = Quality(old.ev) /\ old.tree \subseteq new.tree /\ old.tree # new.tree

\* begin_patch.  It compares fingerprints of two formats (tools::patch_fingerprint
\* and stable_hash), so the evidence is always cleared.
BeginPatch(c) == [c EXCEPT !.ev = {}]

\* observe_scope and observe_reproducer, then consider_current.
Observe(c, tree, marks) ==
    LET ev == c.ev \cup marks
        new == [tree |-> tree, ev |-> ev]
    IN [c EXCEPT !.ev = ev,
                 !.best = IF ev # {} /\ tree # {} /\ Replaces(@, new) THEN new ELSE @,
                 !.shown = @ \cup {<<tree, m>> : m \in marks}]

HasCheckpoint(c) == c.best # NoBest

-----------------------------------------------------------------------------
(* What main.rs records.                                                   *)

\* write_task_reproducer: qualified, or no causal oracle.
ReproducerWritten(c, qualifies) ==
    LET d == Record(Record(c, IF qualifies THEN "qualified" ELSE "no_oracle"), "planned")
    IN IF qualifies THEN [d EXCEPT !.qualified = TRUE] ELSE d

\* record_causal_reproducer_result of run_task_reproducer
ReproducerRan(c, tree, delta) ==
    CASE delta = "invalid" -> Record(c, "structural_failure")
      [] delta = "unavailable" -> Record(c, "unavailable")
      [] OTHER -> Observe(Record(Record(c, "structural_pass"),
                                 IF delta = "fixed" THEN "delta_fixed" ELSE "delta_other"),
                          tree, MarksOfDelta(delta))

\* record_post_patch_task_evidence_result: the controller only takes note.
EvidenceAcquired(c, tree, delta) == Observe(c, tree, MarksOfDelta(delta))

\* prepare_causal_patch
PatchPrepared(c) ==
    LET d == Record(BeginPatch(c), "no_oracle")
    IN Record(Record(d, "planned"), "applied")

\* record_causal_structural_checkpoint
StructuralCheckpoint(c, tree) ==
    Observe(Record(c, "structural_pass"), tree, {"structural"})

\* record_causal_scope_validation
ScopeValidated(c, tree, signal) ==
    LET passing == IF c.ctl = "applied" THEN Record(c, "structural_pass") ELSE c
        d == CASE signal = "regression_pass" -> Record(passing, "regression_pass")
               [] signal \in {"task_improved", "structural_pass"} -> passing
               [] signal = "regression_failure" -> Record(c, "regression_failure")
               [] signal = "structural_failure" -> Record(c, "structural_failure")
               [] signal = "unavailable" -> Record(c, "unavailable")
               [] OTHER -> Record(c, "planned")
    IN Observe(d, tree, MarksOf(signal))

\* record_causal_validation_unavailable
ScopeUnavailable(c) == Record(c, "unavailable")

-----------------------------------------------------------------------------
(* The serial policy.                                                      *)

\* evidence_tier
Tier(qualified, delta, signal) ==
    CASE qualified -> IF delta = "fixed" /\ PassLike(signal) THEN "efficacy" ELSE "none"
      [] ~qualified /\ signal = "task_improved" -> "efficacy"
      [] ~qualified /\ signal \in {"regression_pass", "structural_pass"} -> "safety"
      [] OTHER -> "none"

\* first_clean_candidate_gate
FirstClean(qualified, delta, signal, blocking) ==
    ~blocking /\ Tier(qualified, delta, signal) = "efficacy"

\* decide.  A delta of "none" is a reproducer that did not run.
Decide(c, delta, signal, blocking) ==
    IF FirstClean(c.qualified, delta, signal, blocking) THEN "accept"
    ELSE IF delta = "changed" /\ PassLike(signal) /\ ~blocking THEN "audit_changed"
    ELSE IF ~c.qualified /\ delta = "none" /\ signal = "regression_pass" /\ ~blocking
            /\ HasCheckpoint(c)
    THEN IF c.used THEN "audit_regression" ELSE "acquire"
    ELSE IF c.edits >= SafetyBudget /\ HasCheckpoint(c) THEN "audit_bounded"
    ELSE IF ~blocking /\ Tier(c.qualified, delta, signal) # "none" THEN "refine"
    ELSE IF c.last = signal /\ c.repeats >= 1 /\ HasCheckpoint(c) THEN "reset"
    ELSE "repair"

\* What the decision leaves in the policy; the signature of a failure is its signal.
Decided(c, route, signal) ==
    CASE route = "repair" -> [c EXCEPT !.last = signal,
                                       !.repeats = IF c.last = signal THEN @ + 1 ELSE 1]
      [] route = "acquire" -> [c EXCEPT !.used = TRUE, !.last = "none", !.repeats = 0]
      [] OTHER -> [c EXCEPT !.last = "none", !.repeats = 0]

\* restore_best: what the tree becomes.
BestPatch(c, tree) == IF HasCheckpoint(c) THEN c.best.tree ELSE tree

=============================================================================
