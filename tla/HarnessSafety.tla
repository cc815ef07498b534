---------------------------- MODULE HarnessSafety ----------------------------
(***************************************************************************)
(* What the command line's loop promises.                                  *)
(***************************************************************************)
EXTENDS HarnessRun

\* A run ends: the step budget, its grace and the limits of the states bound it,
\* whatever the model answers (main.rs, the head of 'agent_loop).
HarnessEnds == <>(pc = "done")

\* A run that announced its completion, or accepted a candidate, hands over files that
\* parse: no test passes on a candidate that does not, and at "completed" the syntax guard
\* sends the loop back otherwise, and the bank, which is asked after the guard, may not
\* bring a broken file back (main.rs, pre_completion_python_syntax_guard).
\* A run that comes to "completed" with its budget spent is aborted before the guard, and
\* announces nothing; the best checkpoint of the causal mode, restored after the guard,
\* is not held to it: see EvidenceIsOwn.
Announced ==
    at = "completed" /\ at \in States(Machine) /\ IsFinalState(Machine, at) /\ ~OverBudget

CompletedIsClean ==
    pc = "done" /\ (Announced \/ causal.accepted # NoTree) =>
        ~Broken(tree) \/ (mode.causal /\ causal.accepted = NoTree /\ tree = causal.best.tree)

\* What a checkpoint counts as evidence was shown of its own tree: "It retains only a real
\* working tree diff paired with typed internal evidence" (causal_checkpoint.rs).  The
\* code takes the evidence of an earlier patch for every tree it looks at until the next
\* patch is prepared, so this does not hold.
EvidenceIsOwn ==
    causal.best # NoBest =>
        \A m \in causal.best.ev : <<causal.best.tree, m>> \in causal.shown

\* A hypothesis that was given up stays given up: until localization is done again,
\* which only a generated machine may do, the ones before the active one never change,
\* and no file is proposed twice (promote_patch_hypothesis_path refuses a revisit).
GivenUpStaysGivenUp ==
    [][/\ at # "localizing" =>
            /\ hyps'.active >= hyps.active
            /\ \A i \in 1 .. hyps.active - 1 : hyps'.list[i] = hyps.list[i]
       /\ IsInjective(hyps'.list)
      ]_harnessVars

\* What a run hands over is the best it has verified: the candidate the serial policy
\* accepted, as nothing writes between the acceptance and the end (main.rs, the causal
\* branch of run_tests), or, with a bank that holds a candidate worth more than any
\* untested patch, a tree that passed the trusted scope (restore_best_before_final).
BestTreeHandedOver ==
    pc = "done" =>
        /\ causal.accepted # NoTree => tree = causal.accepted
        /\ mode.bank /\ Restorable(bank) # {} /\ Best(Restorable(bank)).score >= 120
             => tree \in passed

=============================================================================
