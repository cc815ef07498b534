---------------------------- MODULE CandidateBank ----------------------------
(***************************************************************************)
(* The patches a run of the command line keeps for later                   *)
(* (cli/src/candidate_bank.rs): which ones are taken, how they are ranked,  *)
(* and when one of them replaces the working tree.                         *)
(*                                                                         *)
(* A tree is the set of edits it carries.  A candidate is [id, tree,       *)
(* changed, kind, scope, sig, hits, score]: kind is "failed", "feedback"    *)
(* (a pass of a scope that cannot complete a task) or "trusted".            *)
(***************************************************************************)
EXTENDS Integers, FiniteSets, Functions

CONSTANTS
    Edits,          \* what the model may write
    KindOf,         \* [Edits -> {"plain", "oversized", "broken", "test"}]
    BankSize,       \* SW_CANDIDATE_BANK_MAX
    EarlyStopScore, \* SW_CANDIDATE_BANK_EARLY_STOP_MIN_SCORE
    OversizeLines   \* the lines of an oversized edit; any other has one

ASSUME BankAssumption ==
    /\ IsFiniteSet(Edits)
    /\ KindOf \in [Edits -> {"plain", "oversized", "broken", "test"}]
    /\ BankSize \in Nat /\ EarlyStopScore \in Int /\ OversizeLines \in Nat \ {0}

LinesIn(edits) ==
    Cardinality(edits)
        + (OversizeLines - 1) * Cardinality({e \in edits : KindOf[e] = "oversized"})

TouchesTests(edits) == \E e \in edits : KindOf[e] = "test"

\* patch_has_authoritative_source: something changed, and nothing but source.
Authoritative(edits) == edits # {} /\ ~TouchesTests(edits)

Over(lines, free) == IF lines > free THEN lines - free ELSE 0

-----------------------------------------------------------------------------
(* Ranking.  The edits of a model are in one source file.                  *)

\* score_candidate; a test output without a syntax error.
ScoreFailed(edits, same) ==
    100 - Over(LinesIn(edits), 4) - 6 * (IF same > 0 THEN same - 1 ELSE 0)

ScorePass(edits, feedbackOnly, hits) ==
    (IF feedbackOnly THEN 45 + 8 * (IF hits > 4 THEN 3 ELSE hits - 1) ELSE 140)
        - Over(LinesIn(edits), 8)

ScoreCurrent(edits) == IF edits = {} THEN -1000 ELSE 100 - Over(LinesIn(edits), 4)

\* The last of the best: of equals the one with fewer lines, then the later one.
Better(c, d) ==
    \/ c.score > d.score
    \/ c.score = d.score /\ LinesIn(c.changed) < LinesIn(d.changed)
    \/ c.score = d.score /\ LinesIn(c.changed) = LinesIn(d.changed) /\ c.id > d.id

Best(held) == CHOOSE c \in held : \A d \in held \ {c} : Better(c, d)

\* prune: of equals the later one goes first.
Worst(held) ==
    CHOOSE c \in held : \A d \in held \ {c} :
        \/ d.score > c.score
        \/ d.score = c.score /\ LinesIn(d.changed) < LinesIn(c.changed)
        \/ d.score = c.score /\ LinesIn(d.changed) = LinesIn(c.changed) /\ d.id < c.id

Pruned(held) == IF Cardinality(held) > BankSize THEN held \ {Worst(held)} ELSE held

-----------------------------------------------------------------------------
(* Taking candidates.                                                      *)

EmptyBank == [next |-> 1, held |-> {}]

Added(bank, candidate) == [next |-> bank.next + 1, held |-> Pruned(bank.held \cup {candidate})]

\* record_failed_candidate: not a second one with the same files and signature.
RecordFailed(bank, tree, changed, scope, sig, same) ==
    IF ~Authoritative(changed)
       \/ \E c \in bank.held : c.kind = "failed" /\ c.sig = sig
    THEN bank
    ELSE Added(bank, [id |-> bank.next, tree |-> tree, changed |-> changed, kind |-> "failed",
                      scope |-> scope, sig |-> sig, hits |-> 0,
                      score |-> ScoreFailed(changed, same)])

PassesAt(bank, scope) == {c \in bank.held : c.kind # "failed" /\ c.scope = scope}

FeedbackElsewhere(bank, scope) ==
    {c \in bank.held : c.kind = "feedback" /\ c.scope # scope}

\* A feedback pass that was seen in one more scope.
Reinforced(bank, changed, c) ==
    [bank EXCEPT !.held = (@ \ {c}) \cup
        {[c EXCEPT !.hits = @ + 1, !.score = ScorePass(changed, TRUE, c.hits + 1)]}]

\* record_feedback_pass_candidate.  A pass of the same files in the same scope is
\* already held, whatever the patch was; a feedback pass in another scope only
\* adds to what the first one is worth.
RecordPass(bank, tree, changed, scope, feedbackOnly) ==
    IF ~Authoritative(changed) \/ PassesAt(bank, scope) # {} THEN bank
    ELSE IF feedbackOnly /\ FeedbackElsewhere(bank, scope) # {}
    THEN Reinforced(bank, changed, CHOOSE c \in FeedbackElsewhere(bank, scope) : TRUE)
    ELSE Added(bank, [id |-> bank.next, tree |-> tree, changed |-> changed,
                      kind |-> IF feedbackOnly THEN "feedback" ELSE "trusted",
                      scope |-> scope, sig |-> "pass", hits |-> 1,
                      score |-> ScorePass(changed, feedbackOnly, 1)])

-----------------------------------------------------------------------------
(* Giving them back.                                                       *)

\* final_restore_allowed and restore_allowed_without_early_stop.  Because neither
\* allows a feedback candidate, feedback_only_branch_can_discard_current, which
\* asks for one among them, never holds.
Restorable(bank) == {c \in bank.held : c.kind = "trusted" /\ Authoritative(c.changed)}

\* reanchor_allowed
Reanchors(bank) == {c \in bank.held : c.kind # "failed" /\ Authoritative(c.changed)}

\* restore_best_for_stagnation
StagnationRestores(bank) ==
    /\ Restorable(bank) # {}
    /\ Best(Restorable(bank)).score >= EarlyStopScore

\* Mutant: only a run without a patch gets the best candidate.
FinalRestoresNothing(bank, changed) == Restorable(bank) # {} /\ changed = {}

\* restore_best_before_final: nothing was changed, or what was is 20 points worse.
FinalRestores(bank, changed) ==
    /\ Restorable(bank) # {}
    /\ \/ changed = {}
       \/ Best(Restorable(bank)).score - ScoreCurrent(changed) >= 20

BestTree(bank) == Best(Restorable(bank)).tree

=============================================================================
