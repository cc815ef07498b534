---------------------------- MODULE HarnessProofs ----------------------------
(***************************************************************************)
(* Proofs about the command line's loop, for any edits and files, any      *)
(* limits, any generated machine and every way of starting a run: what a   *)
(* run hands over, and what becomes of a hypothesis that was given up.     *)
(*                                                                         *)
(* The inductive invariant says what the loop may find when it ends: every *)
(* trusted candidate of the bank is a tree that passed, the candidates of  *)
(* a bank can be told apart, an accepted candidate is the tree and the end *)
(* is near, and a turn is never worked on in a final state.                *)
(***************************************************************************)
EXTENDS HarnessSafety, FiniteSetTheorems, SequenceTheorems, TLAPS

Clean == {t \in Trees : ~Broken(t)}

CausalFields == {"ctl", "ev", "best", "edits", "last", "repeats", "used", "qualified", "blocks",
                 "accepted", "shown"}

\* What is needed of the causal record: its best checkpoint is a tree.
IsCausal(c) ==
    /\ DOMAIN c = CausalFields
    /\ c.best # NoBest => c.best.tree \in Trees

CandidateFields == {"id", "tree", "changed", "kind", "scope", "sig", "hits", "score"}

\* What is needed of a candidate: a trusted one is worth no more than a pass without a
\* fault.
IsCandidate(c) ==
    /\ DOMAIN c = CandidateFields
    /\ c.id \in Nat
    /\ c.kind = "trusted" =>
         c.tree \in Trees /\ c.changed \in Trees /\ c.score \in Int /\ c.score <= 140

Hypotheses == [list : Seq(Files), found : SUBSET Files, active : Nat \ {0}, steps : Nat,
               exhausted : BOOLEAN, repaired : Nat]

HarnessTypeOK ==
    /\ mode \in Modes
    /\ tree \in Trees
    /\ snap \in Trees \cup {NoTree}
    /\ cand \in Trees \cup {NoTree}
    /\ hyps \in Hypotheses
    /\ IsCausal(causal)
    /\ passed \subseteq Clean

\* The hypotheses: no file twice, and one of them is active if there is one.
HypothesesInv ==
    /\ IsInjective(hyps.list)
    /\ hyps.active # 1 => hyps.active <= Len(hyps.list)

\* The bank's candidates differ by their number.
IsBank(b) ==
    /\ b = [next |-> b.next, held |-> b.held]
    /\ b.next \in Nat
    /\ \A c \in b.held : IsCandidate(c) /\ c.id < b.next
    /\ \A c, d \in b.held : c.id = d.id => c = d

\* A trusted candidate is a tree that passed.  Nothing is trusted in causal mode.
Backed(b, trees) == \A c \in b.held : c.kind = "trusted" => c.tree \in trees /\ ~mode.causal

BankInv == IsBank(bank) /\ Backed(bank, passed)

\* A turn is not worked on in a final state.
InTurn == pc \in {"answer", "calls", "edited", "move"}

TurnInv == InTurn => at \in States(Machine) /\ ~IsFinalState(Machine, at)

Ended == pc \in {"final", "verify", "done"}

\* An accepted candidate is what the run ends with.
AcceptedInv ==
    causal.accepted # NoTree =>
        mode.causal /\ Ended /\ tree = causal.accepted /\ ~Broken(tree)

\* What comes to the end, and what leaves it.
EndInv ==
    /\ pc = "final" /\ Announced => ~Broken(tree)
    /\ pc \in {"verify", "done"} /\ Announced =>
         ~Broken(tree) \/ (mode.causal /\ causal.accepted = NoTree /\ tree = causal.best.tree)
    /\ pc \in {"verify", "done"} /\ mode.bank /\ Restorable(bank) # {}
            /\ Best(Restorable(bank)).score >= 120
         => tree \in passed

HarnessInv ==
    HarnessTypeOK /\ HypothesesInv /\ BankInv /\ TurnInv /\ AcceptedInv /\ EndInv

-----------------------------------------------------------------------------
(* Trees.                                                                  *)

\* The files of a change can be counted.
LEMMA LinesType == ASSUME NEW edits \in Trees PROVE LinesIn(edits) \in Nat
<1>1. IsFiniteSet(edits) /\ IsFiniteSet({e \in edits : KindOf[e] = "oversized"})
  BY BankAssumption, FS_Subset DEF Trees
<1>2. Cardinality(edits) \in Nat /\ Cardinality({e \in edits : KindOf[e] = "oversized"}) \in Nat
  BY <1>1, FS_CardinalityType
<1>3. OversizeLines - 1 \in Nat
  BY BankAssumption
<1> QED BY <1>2, <1>3 DEF LinesIn

\* A tree and its snapshot are told apart by the edits one of them lacks.
LEMMA DiffersType ==
    ASSUME NEW t \in Trees, NEW s \in Trees \cup {NoTree} PROVE Differs(t, s) \in Trees
  BY DEF Differs, Trees

\* A patch as it is is worth at most 100, a pass at most 140.
LEMMA ScoresBounded ==
    ASSUME NEW edits \in Trees
    PROVE  /\ ScorePass(edits, FALSE, 1) \in Int /\ ScorePass(edits, FALSE, 1) <= 140
           /\ edits # {} => ScoreCurrent(edits) \in Int /\ ScoreCurrent(edits) <= 100
<1>1. ASSUME NEW n \in Nat, NEW m \in Nat PROVE Over(n, m) \in Nat
  BY DEF Over
<1>2. Over(LinesIn(edits), 8) \in Nat /\ Over(LinesIn(edits), 4) \in Nat
  BY <1>1, LinesType
<1> QED BY <1>2 DEF ScorePass, ScoreCurrent

-----------------------------------------------------------------------------
(* The best candidate.                                                     *)

LEMMA LeastNumber == ASSUME NEW S \in SUBSET Nat, S # {} PROVE \E n \in S : \A m \in S : n <= m
<1>1. PICK n \in S : \A m \in S : ~ (<<m, n>> \in OpToRel(<, Nat))
  BY NatLessThanWellFounded, WFMin, Zenon
<1>2. ASSUME NEW m \in S PROVE n <= m
  <2>1. m \in Nat /\ n \in Nat
    OBVIOUS
  <2>2. ~ (m < n)
    BY <1>1, <2>1, Zenon DEF OpToRel
  <2> QED BY <2>1, <2>2
<1> QED BY <1>2

\* Of the candidates that may be handed over one is better than every other.
LEMMA BestExists ==
    ASSUME NEW b, IsBank(b), Restorable(b) # {}
    PROVE  Best(Restorable(b)) \in Restorable(b)
<1> DEFINE H == Restorable(b)
<1>1. \A c \in H : /\ c \in b.held /\ c.score \in Int /\ 140 - c.score \in Nat
                   /\ LinesIn(c.changed) \in Nat /\ c.id \in Nat /\ b.next - c.id \in Nat
  BY LinesType DEF Restorable, IsBank, IsCandidate
<1>2. PICK x \in H : \A d \in H : d.score <= x.score
  <2> DEFINE S == {140 - c.score : c \in H}
  <2>1. S \in SUBSET Nat /\ S # {}
    BY <1>1
  <2>2. PICK n \in S : \A m \in S : n <= m
    BY <2>1, LeastNumber
  <2>3. PICK c \in H : n = 140 - c.score
    OBVIOUS
  <2>4. ASSUME NEW d \in H PROVE d.score <= c.score
    <3>1. 140 - c.score <= 140 - d.score
      BY <2>2, <2>3
    <3> QED BY <3>1, <1>1
  <2> QED BY <2>4
<1> DEFINE H1 == {d \in H : d.score = x.score}
<1>3. PICK y \in H1 : \A d \in H1 : LinesIn(y.changed) <= LinesIn(d.changed)
  <2> DEFINE S == {LinesIn(c.changed) : c \in H1}
  <2>1. S \in SUBSET Nat /\ S # {}
    BY <1>1
  <2>2. PICK n \in S : \A m \in S : n <= m
    BY <2>1, LeastNumber
  <2> QED BY <2>2
<1> DEFINE H2 == {d \in H1 : LinesIn(d.changed) = LinesIn(y.changed)}
<1>4. PICK z \in H2 : \A d \in H2 : d.id <= z.id
  <2> DEFINE S == {b.next - c.id : c \in H2}
  <2>1. S \in SUBSET Nat /\ S # {}
    BY <1>1, y \in H2
  <2>2. PICK n \in S : \A m \in S : n <= m
    BY <2>1, LeastNumber
  <2>3. PICK c \in H2 : n = b.next - c.id
    OBVIOUS
  <2>4. ASSUME NEW d \in H2 PROVE d.id <= c.id
    <3>1. b.next - c.id <= b.next - d.id
      BY <2>2, <2>3
    <3> QED BY <3>1, <1>1 DEF IsBank
  <2> QED BY <2>4
<1>5. ASSUME NEW d \in H \ {z} PROVE Better(z, d)
  <2>1. CASE d \notin H1
    BY <2>1, <1>1, <1>2, <1>4 DEF Better
  <2>2. CASE d \in H1 \ H2
    BY <2>2, <1>1, <1>3, <1>4 DEF Better
  <2>3. CASE d \in H2
    <3>1. d.id # z.id
      BY <2>3, <1>1, <1>4 DEF IsBank
    <3> QED BY <2>3, <3>1, <1>1, <1>4 DEF Better
  <2> QED BY <2>1, <2>2, <2>3
<1>6. \E c \in Restorable(b) : \A d \in Restorable(b) \ {c} : Better(c, d)
  BY <1>4, <1>5
<1> QED BY <1>6, Zenon DEF Best

-----------------------------------------------------------------------------
(* The bank.                                                               *)

LEMMA PrunedIsSmaller ==
    ASSUME NEW held PROVE Pruned(held) \subseteq held
  BY DEF Pruned

\* A candidate that is added has a number of its own.
LEMMA AddedIsBank ==
    ASSUME NEW b, IsBank(b), NEW trees, Backed(b, trees),
           NEW c, IsCandidate(c), c.id = b.next,
           c.kind = "trusted" => c.tree \in trees /\ ~mode.causal
    PROVE  IsBank(Added(b, c)) /\ Backed(Added(b, c), trees)
<1> DEFINE h == Pruned(b.held \cup {c})
<1>1. h \subseteq b.held \cup {c}
  BY PrunedIsSmaller
<1> HIDE DEF h
<1>2. Added(b, c) = [next |-> b.next + 1, held |-> h]
  BY DEF Added, h
<1>3. IsBank([next |-> b.next + 1, held |-> h])
  <2>1. \A x \in h : IsCandidate(x) /\ x.id < b.next + 1
    BY <1>1 DEF IsBank, IsCandidate
  <2>2. \A x, y \in h : x.id = y.id => x = y
    BY <1>1 DEF IsBank, IsCandidate
  <2>3. b.next + 1 \in Nat
    BY DEF IsBank
  <2> QED BY <2>1, <2>2, <2>3 DEF IsBank
<1>4. Backed([next |-> b.next + 1, held |-> h], trees)
  BY <1>1 DEF Backed
<1> QED BY <1>2, <1>3, <1>4

\* record_failed_candidate takes nothing that is trusted.
LEMMA RecordFailedKeepsBank ==
    ASSUME NEW b, IsBank(b), NEW trees, Backed(b, trees),
           NEW t, NEW changed, NEW scope, NEW sig, NEW same
    PROVE  /\ IsBank(RecordFailed(b, t, changed, scope, sig, same))
           /\ Backed(RecordFailed(b, t, changed, scope, sig, same), trees)
<1> DEFINE c == [id |-> b.next, tree |-> t, changed |-> changed, kind |-> "failed",
                 scope |-> scope, sig |-> sig, hits |-> 0, score |-> ScoreFailed(changed, same)]
<1>1. IsCandidate(c) /\ c.id = b.next /\ c.kind # "trusted"
  BY DEF IsCandidate, CandidateFields, IsBank
<1> HIDE DEF c
<1>2. IsBank(Added(b, c)) /\ Backed(Added(b, c), trees)
  BY <1>1, AddedIsBank
<1>3. RecordFailed(b, t, changed, scope, sig, same) \in {b, Added(b, c)}
  BY DEF RecordFailed, c
<1> QED BY <1>2, <1>3

\* A feedback pass that is worth more stays what it is.
LEMMA ReinforcedIsBank ==
    ASSUME NEW b, IsBank(b), NEW trees, Backed(b, trees), NEW changed,
           NEW c \in b.held, c.kind = "feedback"
    PROVE  IsBank(Reinforced(b, changed, c)) /\ Backed(Reinforced(b, changed, c), trees)
<1> DEFINE again == [c EXCEPT !.hits = @ + 1, !.score = ScorePass(changed, TRUE, c.hits + 1)]
           held == (b.held \ {c}) \cup {again}
<1>1. DOMAIN c = CandidateFields /\ c.id \in Nat /\ c.id < b.next
  BY DEF IsBank, IsCandidate
<1>2. DOMAIN again = CandidateFields /\ again.id = c.id /\ again.kind = "feedback"
  BY <1>1 DEF CandidateFields
<1>3. Reinforced(b, changed, c) = [next |-> b.next, held |-> held]
  BY DEF Reinforced, IsBank
<1> HIDE DEF again
<1>4. IsCandidate(again)
  BY <1>1, <1>2 DEF IsCandidate
<1>5. \A x \in held : IsCandidate(x) /\ x.id < b.next
  BY <1>1, <1>2, <1>4 DEF IsBank
<1>6. \A x, y \in held : x.id = y.id => x = y
  BY <1>2 DEF IsBank
<1>7. \A x \in held : x.kind = "trusted" => x.tree \in trees /\ ~mode.causal
  BY <1>2 DEF Backed
<1> HIDE DEF held
<1>8. IsBank([next |-> b.next, held |-> held]) /\ Backed([next |-> b.next, held |-> held], trees)
  BY <1>5, <1>6, <1>7 DEF IsBank, Backed
<1> QED BY <1>3, <1>8

\* record_feedback_pass_candidate trusts a tree that passed.
LEMMA RecordPassKeepsBank ==
    ASSUME NEW b, IsBank(b), NEW trees, Backed(b, trees), NEW t \in Trees, NEW changed \in Trees,
           NEW scope, NEW feedbackOnly \in BOOLEAN, feedbackOnly \/ (t \in trees /\ ~mode.causal)
    PROVE  /\ IsBank(RecordPass(b, t, changed, scope, feedbackOnly))
           /\ Backed(RecordPass(b, t, changed, scope, feedbackOnly), trees)
<1> DEFINE n == [id |-> b.next, tree |-> t, changed |-> changed,
                 kind |-> IF feedbackOnly THEN "feedback" ELSE "trusted",
                 scope |-> scope, sig |-> "pass", hits |-> 1,
                 score |-> ScorePass(changed, feedbackOnly, 1)]
           known == FeedbackElsewhere(b, scope)
           old == CHOOSE c \in known : TRUE
<1>1. IsBank(Added(b, n)) /\ Backed(Added(b, n), trees)
  <2>1. DOMAIN n = CandidateFields /\ n.id = b.next /\ n.id \in Nat
    BY DEF CandidateFields, IsBank
  <2>2. n.kind = "trusted" => /\ ~feedbackOnly /\ n.tree = t /\ n.changed = changed
                              /\ n.score = ScorePass(changed, FALSE, 1)
    OBVIOUS
  <2> HIDE DEF n
  <2>3. IsCandidate(n)
    BY <2>1, <2>2, ScoresBounded DEF IsCandidate
  <2> QED BY <2>1, <2>2, <2>3, AddedIsBank
<1>2. ASSUME known # {}
      PROVE  IsBank(Reinforced(b, changed, old)) /\ Backed(Reinforced(b, changed, old), trees)
  <2>1. old \in known
    BY <1>2
  <2>2. old \in b.held /\ old.kind = "feedback"
    BY <2>1 DEF FeedbackElsewhere
  <2> HIDE DEF old
  <2> QED BY <2>2, ReinforcedIsBank
<1>3. \/ RecordPass(b, t, changed, scope, feedbackOnly) = b
      \/ RecordPass(b, t, changed, scope, feedbackOnly) = Added(b, n)
      \/ known # {} /\ RecordPass(b, t, changed, scope, feedbackOnly) = Reinforced(b, changed, old)
  BY Zenon DEF RecordPass
<1> HIDE DEF n, known, old
<1> QED BY <1>1, <1>2, <1>3

\* A bank stays backed when more trees have passed.
LEMMA BackedByMore ==
    ASSUME NEW b, NEW trees, NEW more, trees \subseteq more, Backed(b, trees)
    PROVE  Backed(b, more)
  BY DEF Backed

\* What may be handed over is a tree that passed.
LEMMA BestIsBacked ==
    ASSUME NEW b, IsBank(b), NEW trees, Backed(b, trees), Restorable(b) # {}
    PROVE  /\ BestTree(b) \in trees /\ ~mode.causal
           /\ Best(Restorable(b)).score \in Int
<1>1. Best(Restorable(b)) \in Restorable(b)
  BY BestExists
<1> QED BY <1>1 DEF BestTree, Restorable, Backed, IsBank, IsCandidate

-----------------------------------------------------------------------------
(* The causal mode.                                                        *)

\* A step of the causal mode that accepts nothing.
Keeps(c, d) == IsCausal(d) /\ d.accepted = c.accepted

LEMMA KeepsTransitive ==
    ASSUME NEW c, NEW d, NEW e, Keeps(c, d), Keeps(d, e) PROVE Keeps(c, e)
  BY DEF Keeps

LEMMA RecordKeeps ==
    ASSUME NEW c, IsCausal(c), NEW event
    PROVE  Keeps(c, Record(c, event)) /\ Record(c, event).best = c.best
  BY DEF Keeps, IsCausal, Record, CausalFields

LEMMA BeginPatchKeeps == ASSUME NEW c, IsCausal(c) PROVE Keeps(c, BeginPatch(c))
  BY DEF Keeps, IsCausal, BeginPatch, CausalFields

LEMMA ObserveKeeps ==
    ASSUME NEW c, IsCausal(c), NEW t \in Trees, NEW marks PROVE Keeps(c, Observe(c, t, marks))
<1> DEFINE ev == c.ev \cup marks
           best == IF ev # {} /\ t # {} /\ Replaces(c.best, [tree |-> t, ev |-> ev])
                   THEN [tree |-> t, ev |-> ev] ELSE c.best
           shown == c.shown \cup {<<t, m>> : m \in marks}
<1>1. best # NoBest => best.tree \in Trees
  BY DEF IsCausal
<1>2. Observe(c, t, marks) = [c EXCEPT !.ev = ev, !.best = best, !.shown = shown]
  BY DEF Observe
<1> HIDE DEF ev, best, shown
<1> QED BY <1>1, <1>2 DEF Keeps, IsCausal, CausalFields

LEMMA ReproducerWrittenKeeps ==
    ASSUME NEW c, IsCausal(c), NEW qualifies PROVE Keeps(c, ReproducerWritten(c, qualifies))
<1> DEFINE r == Record(c, IF qualifies THEN "qualified" ELSE "no_oracle")
           d == Record(r, "planned")
<1>1. Keeps(c, r) /\ IsCausal(r)
  BY RecordKeeps DEF Keeps
<1>2. Keeps(r, d)
  BY <1>1, RecordKeeps
<1>3. Keeps(c, d)
  BY <1>1, <1>2, KeepsTransitive
<1> HIDE DEF d
<1>4. Keeps(c, [d EXCEPT !.qualified = TRUE])
  BY <1>3 DEF Keeps, IsCausal, CausalFields
<1>5. ReproducerWritten(c, qualifies) \in {d, [d EXCEPT !.qualified = TRUE]}
  BY DEF ReproducerWritten, d
<1> QED BY <1>3, <1>4, <1>5

LEMMA EvidenceAcquiredKeeps ==
    ASSUME NEW c, IsCausal(c), NEW t \in Trees, NEW delta
    PROVE  Keeps(c, EvidenceAcquired(c, t, delta))
  BY ObserveKeeps DEF EvidenceAcquired

LEMMA ReproducerRanKeeps ==
    ASSUME NEW c, IsCausal(c), NEW t \in Trees, NEW delta PROVE Keeps(c, ReproducerRan(c, t, delta))
<1> DEFINE r == Record(c, "structural_pass")
           d == Record(r, IF delta = "fixed" THEN "delta_fixed" ELSE "delta_other")
           o == Observe(d, t, MarksOfDelta(delta))
<1>1. Keeps(c, r) /\ IsCausal(r)
  BY RecordKeeps DEF Keeps
<1>2. Keeps(r, d) /\ IsCausal(d)
  BY <1>1, RecordKeeps DEF Keeps
<1>3. Keeps(c, o)
  BY <1>1, <1>2, ObserveKeeps, KeepsTransitive
<1>4. ReproducerRan(c, t, delta) \in {Record(c, "structural_failure"), Record(c, "unavailable"), o}
  BY DEF ReproducerRan
<1> QED BY <1>3, <1>4, RecordKeeps

LEMMA PatchPreparedKeeps == ASSUME NEW c, IsCausal(c) PROVE Keeps(c, PatchPrepared(c))
<1> DEFINE b == BeginPatch(c)
           d == Record(b, "no_oracle")
           e == Record(d, "planned")
<1>1. Keeps(c, b) /\ IsCausal(b)
  BY BeginPatchKeeps DEF Keeps
<1>2. Keeps(b, d) /\ IsCausal(d)
  BY <1>1, RecordKeeps DEF Keeps
<1>3. Keeps(d, e) /\ IsCausal(e)
  BY <1>2, RecordKeeps DEF Keeps
<1>4. Keeps(e, Record(e, "applied"))
  BY <1>3, RecordKeeps
<1>5. PatchPrepared(c) = Record(e, "applied")
  BY DEF PatchPrepared
<1> HIDE DEF b, d, e
<1> QED BY <1>1, <1>2, <1>3, <1>4, <1>5, KeepsTransitive

LEMMA StructuralCheckpointKeeps ==
    ASSUME NEW c, IsCausal(c), NEW t \in Trees PROVE Keeps(c, StructuralCheckpoint(c, t))
<1>1. Keeps(c, Record(c, "structural_pass")) /\ IsCausal(Record(c, "structural_pass"))
  BY RecordKeeps DEF Keeps
<1> QED BY <1>1, ObserveKeeps, KeepsTransitive DEF StructuralCheckpoint

LEMMA ScopeValidatedKeeps ==
    ASSUME NEW c, IsCausal(c), NEW t \in Trees, NEW signal
    PROVE  Keeps(c, ScopeValidated(c, t, signal))
<1>1. Keeps(c, c)
  BY DEF Keeps
<1>2. PICK passing : /\ Keeps(c, passing)
                     /\ passing = IF c.ctl = "applied" THEN Record(c, "structural_pass") ELSE c
  BY <1>1, RecordKeeps
<1>3. Keeps(c, Record(passing, "regression_pass"))
  BY <1>2, RecordKeeps, KeepsTransitive DEF Keeps
<1> DEFINE d == CASE signal = "regression_pass" -> Record(passing, "regression_pass")
                  [] signal \in {"task_improved", "structural_pass"} -> passing
                  [] signal = "regression_failure" -> Record(c, "regression_failure")
                  [] signal = "structural_failure" -> Record(c, "structural_failure")
                  [] signal = "unavailable" -> Record(c, "unavailable")
                  [] OTHER -> Record(c, "planned")
<1>4. d \in {Record(passing, "regression_pass"), passing, Record(c, "regression_failure"),
             Record(c, "structural_failure"), Record(c, "unavailable"), Record(c, "planned")}
  OBVIOUS
<1>5. ScopeValidated(c, t, signal) = Observe(d, t, MarksOf(signal))
  BY <1>2 DEF ScopeValidated
<1> HIDE DEF d
<1>6. Keeps(c, d) /\ IsCausal(d)
  BY <1>2, <1>3, <1>4, RecordKeeps DEF Keeps
<1> QED BY <1>5, <1>6, ObserveKeeps, KeepsTransitive

LEMMA ScopeUnavailableKeeps ==
    ASSUME NEW c, IsCausal(c) PROVE Keeps(c, ScopeUnavailable(c))
  BY RecordKeeps DEF ScopeUnavailable

LEMMA DecidedKeeps ==
    ASSUME NEW c, IsCausal(c), NEW route, NEW signal PROVE Keeps(c, Decided(c, route, signal))
  BY DEF Keeps, IsCausal, Decided, CausalFields

\* Only a policy with a checkpoint goes back to it.
LEMMA AuditNeedsCheckpoint ==
    ASSUME NEW c, IsCausal(c), NEW delta, NEW signal, NEW blocking,
           Decide(c, delta, signal, blocking) = "audit_bounded"
    PROVE  c.best.tree \in Trees
  BY DEF Decide, HasCheckpoint, IsCausal

\* What is accepted was not seen to be blocked, and its tests passed.
LEMMA AcceptedPasses ==
    ASSUME NEW c, NEW delta, NEW signal, NEW blocking,
           Decide(c, delta, signal, blocking) = "accept"
    PROVE  PassLike(signal)
  BY DEF Decide, FirstClean, Tier, PassLike

\* The best checkpoint is a tree.
LEMMA BestPatchType ==
    ASSUME NEW c, IsCausal(c), NEW t \in Trees
    PROVE  BestPatch(c, t) \in Trees /\ (BestPatch(c, t) = t \/ BestPatch(c, t) = c.best.tree)
  BY DEF BestPatch, HasCheckpoint, IsCausal

-----------------------------------------------------------------------------
(* What an ordinary step of the loop does.                                 *)

TreeStep ==
    tree' \in Trees /\ snap' \in Trees \cup {NoTree} /\ cand' \in Trees \cup {NoTree}

\* The property's step, of hypotheses that stay what they must be.
HypothesesStep ==
    /\ hyps' \in Hypotheses
    /\ IsInjective(hyps'.list)
    /\ hyps'.active # 1 => hyps'.active <= Len(hyps'.list)
    /\ at # "localizing" =>
        /\ hyps'.active >= hyps.active
        /\ \A i \in 1 .. hyps.active - 1 : hyps'.list[i] = hyps.list[i]

BankStep == IsBank(bank') /\ Backed(bank', passed') /\ passed' \subseteq Clean

CausalStep == Keeps(causal, causal')

\* The loop is not left for good, and only from a state that is not final or without
\* a broken file.
PlaceStep ==
    /\ ~Ended
    /\ pc' \notin {"verify", "done"}
    /\ InTurn' => at' \in States(Machine) /\ ~IsFinalState(Machine, at')
    /\ pc' = "final" /\ Announced' => ~Broken(tree')

Ordinary ==
    UNCHANGED mode /\ TreeStep /\ HypothesesStep /\ BankStep /\ CausalStep /\ PlaceStep

LEMMA OrdinaryKeepsInv == ASSUME HarnessInv, Ordinary PROVE HarnessInv'
<1>1. HarnessTypeOK'
  BY DEF HarnessInv, HarnessTypeOK, Ordinary, TreeStep, HypothesesStep, BankStep, CausalStep, Keeps
<1>2. HypothesesInv'
  BY DEF HypothesesInv, Ordinary, HypothesesStep
<1>3. BankInv'
  BY DEF BankInv, Ordinary, BankStep, Backed
<1>4. TurnInv'
  BY DEF TurnInv, Ordinary, PlaceStep, Machine
<1>5. AcceptedInv' /\ causal'.accepted = NoTree
  BY DEF HarnessInv, AcceptedInv, Ordinary, CausalStep, Keeps, PlaceStep
<1>6. EndInv'
  BY DEF EndInv, Ordinary, PlaceStep
<1> QED BY <1>1, <1>2, <1>3, <1>4, <1>5, <1>6 DEF HarnessInv

LEMMA SameWork == ASSUME HarnessInv, UNCHANGED work PROVE TreeStep
  BY DEF HarnessInv, HarnessTypeOK, work, TreeStep

LEMMA SameHypotheses == ASSUME HarnessInv, UNCHANGED hyps PROVE HypothesesStep
  BY DEF HarnessInv, HarnessTypeOK, HypothesesInv, HypothesesStep, Hypotheses

LEMMA SameBank == ASSUME HarnessInv, UNCHANGED <<bank, passed>> PROVE BankStep
  BY DEF HarnessInv, HarnessTypeOK, BankInv, BankStep

LEMMA SameCausal == ASSUME HarnessInv, UNCHANGED causal PROVE CausalStep
  BY DEF HarnessInv, HarnessTypeOK, CausalStep, Keeps

LEMMA SameRecords == ASSUME HarnessInv, UNCHANGED records PROVE BankStep /\ CausalStep
  BY SameBank, SameCausal DEF records

\* A step that goes on at the top of the loop.
LEMMA ToTheTop == ASSUME ~Ended, pc' = "top" PROVE PlaceStep
  BY DEF PlaceStep, InTurn

\* A step of a turn.
LEMMA OfTheTurn ==
    ASSUME HarnessInv, InTurn, UNCHANGED <<mode, at>>,
           pc' \in {"answer", "calls", "edited", "move", "final", "top"}
    PROVE  PlaceStep
  BY DEF HarnessInv, TurnInv, InTurn, Ended, PlaceStep, Announced, Machine

LEMMA SnapshotsAreTrees ==
    ASSUME HarnessInv PROVE SnapTree \in Trees /\ CandTree \in Trees /\ Changed \in Trees
  BY DiffersType DEF HarnessInv, HarnessTypeOK, SnapTree, CandTree, Changed

LEMMA NextIsNext ==
    ASSUME NEW h \in Hypotheses, NEW n \in Nat \ {0}
    PROVE  /\ [h EXCEPT !.active = n, !.steps = 0] \in Hypotheses
           /\ [h EXCEPT !.active = n, !.steps = 0].list = h.list
           /\ [h EXCEPT !.active = n, !.steps = 0].active = n
  BY DEF Hypotheses

LEMMA RepairedIsSame ==
    ASSUME NEW h \in Hypotheses, NEW n \in Nat
    PROVE  /\ [h EXCEPT !.repaired = n] \in Hypotheses
           /\ [h EXCEPT !.repaired = n].list = h.list
           /\ [h EXCEPT !.repaired = n].active = h.active
  BY DEF Hypotheses

\* The next hypothesis leaves the ones before it as they are.
LEMMA NextKeepsHypotheses ==
    ASSUME HarnessInv, HasNext, NEW repaired \in Nat,
           hyps' \in {NextHypothesis, [NextHypothesis EXCEPT !.repaired = repaired]}
    PROVE  HypothesesStep
<1>1. /\ hyps \in Hypotheses /\ hyps.active \in Nat \ {0} /\ hyps.active + 1 \in Nat \ {0}
      /\ hyps.list \in Seq(Files) /\ Len(hyps.list) \in Nat /\ hyps.active < Len(hyps.list)
  BY DEF HarnessInv, HarnessTypeOK, Hypotheses, HasNext
<1>2. NextHypothesis = [hyps EXCEPT !.active = hyps.active + 1, !.steps = 0]
  BY DEF NextHypothesis
<1>3. /\ NextHypothesis \in Hypotheses /\ NextHypothesis.list = hyps.list
      /\ NextHypothesis.active = hyps.active + 1
  <2> DEFINE n == [hyps EXCEPT !.active = hyps.active + 1, !.steps = 0]
  <2>1. n \in Hypotheses /\ n.list = hyps.list /\ n.active = hyps.active + 1
    BY <1>1, NextIsNext, Zenon
  <2> QED BY <1>2, <2>1, Zenon
<1>4. hyps' \in Hypotheses /\ hyps'.list = hyps.list /\ hyps'.active = hyps.active + 1
  BY <1>3, RepairedIsSame
<1>5. IsInjective(hyps'.list)
  BY <1>4 DEF HarnessInv, HypothesesInv
<1>6. hyps'.active <= Len(hyps'.list) /\ hyps'.active >= hyps.active
  BY <1>1, <1>4
<1> QED BY <1>4, <1>5, <1>6 DEF HypothesesStep

\* Nothing but the list and the active one matters.
LEMMA SameList ==
    ASSUME HarnessInv, hyps' \in Hypotheses, hyps'.list = hyps.list, hyps'.active = hyps.active
    PROVE  HypothesesStep
  BY DEF HarnessInv, HarnessTypeOK, HypothesesInv, Hypotheses, HypothesesStep

LEMMA ExhaustedIsSameList ==
    ASSUME HarnessInv
    PROVE  Exhausted \in Hypotheses /\ Exhausted.list = hyps.list /\ Exhausted.active = hyps.active
  BY DEF HarnessInv, HarnessTypeOK, Hypotheses, Exhausted

OneToOne(s, n) == \A p, q \in 1 .. n : s[p] = s[q] => p = q

\* t is s with f put in after place a.
HasInserted(s, t, n, a, f) ==
    /\ \A p \in 1 .. a : t[p] = s[p]
    /\ t[a + 1] = f
    /\ \A p \in a + 1 .. n : t[p + 1] = s[p]

\* A value put in an enumeration it is not in.
LEMMA InsertedOnce ==
    ASSUME NEW s, NEW t, NEW n \in Nat, NEW a \in Nat, a <= n, NEW f,
           OneToOne(s, n), \A p \in 1 .. n : s[p] # f, HasInserted(s, t, n, a, f)
    PROVE  OneToOne(t, n + 1)
<1> USE DEF OneToOne, HasInserted
<1>1. ASSUME NEW p \in 1 .. n + 1, NEW q \in 1 .. n + 1, t[p] = t[q], p < q PROVE FALSE
  <2>1. p \in Int /\ q \in Int /\ 1 <= p /\ q <= n + 1
    OBVIOUS
  <2>2. CASE q <= a
    <3>1. p \in 1 .. a /\ q \in 1 .. a /\ p \in 1 .. n /\ q \in 1 .. n
      BY <1>1, <2>1, <2>2
    <3> QED BY <1>1, <3>1
  <2>3. CASE q = a + 1
    <3>1. p \in 1 .. a /\ p \in 1 .. n
      BY <1>1, <2>1, <2>3
    <3> QED BY <1>1, <2>3, <3>1
  <2>4. CASE q > a + 1
    <3>1. q - 1 \in a + 1 .. n /\ q - 1 \in 1 .. n /\ (q - 1) + 1 = q
      BY <2>1, <2>4
    <3>2. t[q] = s[q - 1]
      BY <3>1
    <3>3. CASE p <= a
      <4>1. p \in 1 .. a /\ p \in 1 .. n /\ p # q - 1
        BY <2>1, <2>4, <3>3
      <4> QED BY <1>1, <3>1, <3>2, <4>1
    <3>4. CASE p = a + 1
      BY <1>1, <3>1, <3>2, <3>4
    <3>5. CASE p > a + 1
      <4>1. p - 1 \in a + 1 .. n /\ p - 1 \in 1 .. n /\ (p - 1) + 1 = p /\ p - 1 # q - 1
        BY <1>1, <2>1, <3>5
      <4>2. t[p] = s[p - 1]
        BY <4>1
      <4> QED BY <1>1, <3>1, <3>2, <4>1, <4>2
    <3> QED BY <2>1, <3>3, <3>4, <3>5
  <2> QED BY <2>1, <2>2, <2>3, <2>4
<1>2. ASSUME NEW p \in 1 .. n + 1, NEW q \in 1 .. n + 1, t[p] = t[q] PROVE p = q
  <2>1. p < q \/ q < p \/ p = q
    OBVIOUS
  <2> QED BY <1>1, <1>2, <2>1
<1> QED BY <1>2

Inserted(s, a, f) == SubSeq(s, 1, a) \o <<f>> \o SubSeq(s, a + 1, Len(s))

\* The two parts of the list around it.
LEMMA InsertedParts ==
    ASSUME NEW s \in Seq(Files), NEW a \in Nat, a <= Len(s)
    PROVE  /\ SubSeq(s, 1, a) \in Seq(Files) /\ Len(SubSeq(s, 1, a)) = a
           /\ \A p \in 1 .. a : SubSeq(s, 1, a)[p] = s[p]
           /\ SubSeq(s, a + 1, Len(s)) \in Seq(Files)
           /\ Len(SubSeq(s, a + 1, Len(s))) = Len(s) - a
           /\ \A p \in 1 .. Len(s) - a : SubSeq(s, a + 1, Len(s))[p] = s[a + p]
<1>0. Len(s) \in Nat
  OBVIOUS
<1>1. \A p \in 1 .. a : s[p] \in Files
  OBVIOUS
<1>2. \A p \in a + 1 .. Len(s) : s[p] \in Files
  OBVIOUS
<1> DEFINE n == Len(s)
           b == SubSeq(s, 1, a)
           e == SubSeq(s, a + 1, Len(s))
<1>3. /\ b \in Seq(Files) /\ Len(b) = IF 1 <= a THEN a - 1 + 1 ELSE 0
      /\ \A p \in 1 .. a - 1 + 1 : b[p] = s[1 + p - 1]
  BY <1>1, SubSeqProperties
<1>4. /\ e \in Seq(Files) /\ Len(e) = IF a + 1 <= n THEN n - (a + 1) + 1 ELSE 0
      /\ \A p \in 1 .. n - (a + 1) + 1 : e[p] = s[a + 1 + p - 1]
  BY <1>0, <1>2, SubSeqProperties
<1>5. n \in Nat /\ a <= n
  BY <1>0
<1> HIDE DEF n, b, e
<1>6. Len(b) = a /\ n - (a + 1) + 1 = n - a
  BY <1>3, <1>5
<1>7. Len(e) = n - a
  BY <1>4, <1>5
<1>8. \A p \in 1 .. a : b[p] = s[p]
  <2> TAKE p \in 1 .. a
  <2>1. 1 + p - 1 = p /\ p \in 1 .. a - 1 + 1
    OBVIOUS
  <2> QED BY <1>3, <2>1
<1>9. \A p \in 1 .. n - a : e[p] = s[a + p]
  <2> TAKE p \in 1 .. n - a
  <2>1. a + 1 + p - 1 = a + p /\ p \in 1 .. n - (a + 1) + 1
    BY <1>5
  <2> QED BY <1>4, <2>1
<1> QED BY <1>3, <1>4, <1>6, <1>7, <1>8, <1>9, Zenon DEF n, b, e

LEMMA JoinedParts ==
    ASSUME NEW b \in Seq(Files), NEW e \in Seq(Files)
    PROVE  /\ b \o e \in Seq(Files) /\ Len(b \o e) = Len(b) + Len(e)
           /\ \A p \in 1 .. Len(b) : (b \o e)[p] = b[p]
           /\ \A p \in 1 .. Len(e) : (b \o e)[Len(b) + p] = e[p]
  OBVIOUS

LEMMA InsertedAt ==
    ASSUME NEW s \in Seq(Files), NEW a \in Nat, a <= Len(s), NEW f \in Files
    PROVE  /\ Inserted(s, a, f) \in Seq(Files) /\ Len(Inserted(s, a, f)) = Len(s) + 1
           /\ HasInserted(s, Inserted(s, a, f), Len(s), a, f)
<1> DEFINE n == Len(s)
           b == SubSeq(s, 1, a)
           e == SubSeq(s, a + 1, Len(s))
           o == <<f>>
           m == b \o o
           t == m \o e
<1>1. /\ b \in Seq(Files) /\ Len(b) = a /\ \A p \in 1 .. a : b[p] = s[p]
      /\ e \in Seq(Files) /\ Len(e) = n - a /\ \A p \in 1 .. n - a : e[p] = s[a + p]
  BY InsertedParts
<1>2. o \in Seq(Files) /\ Len(o) = 1 /\ o[1] = f
  OBVIOUS
<1>3. Inserted(s, a, f) = t /\ n \in Nat /\ a <= n
  BY DEF Inserted
<1> HIDE DEF n, b, e, o
<1>4. /\ m \in Seq(Files) /\ Len(m) = Len(b) + Len(o)
      /\ \A p \in 1 .. Len(b) : m[p] = b[p]
      /\ \A p \in 1 .. Len(o) : m[Len(b) + p] = o[p]
  BY <1>1, <1>2, JoinedParts, Zenon
<1> HIDE DEF m
<1>5. /\ t \in Seq(Files) /\ Len(t) = Len(m) + Len(e)
      /\ \A p \in 1 .. Len(m) : t[p] = m[p]
      /\ \A p \in 1 .. Len(e) : t[Len(m) + p] = e[p]
  BY <1>1, <1>4, JoinedParts, Zenon
<1> HIDE DEF t
<1>6. Len(m) = a + 1 /\ Len(t) = n + 1
  BY <1>1, <1>2, <1>3, <1>4, <1>5
<1>7. \A p \in 1 .. a : t[p] = s[p]
  <2> TAKE p \in 1 .. a
  <2>1. p \in 1 .. Len(b) /\ p \in 1 .. Len(m)
    BY <1>1, <1>6
  <2> QED BY <1>1, <1>4, <1>5, <2>1
<1>8. t[a + 1] = f
  <2>1. 1 \in 1 .. Len(o) /\ Len(b) + 1 = a + 1 /\ a + 1 \in 1 .. Len(m)
    BY <1>1, <1>2, <1>6
  <2>2. m[a + 1] = o[1]
    BY <1>4, <2>1
  <2> QED BY <1>2, <1>5, <2>1, <2>2
<1>9. \A p \in a + 1 .. n : t[p + 1] = s[p]
  <2> TAKE p \in a + 1 .. n
  <2>1. p - a \in 1 .. n - a /\ Len(m) + (p - a) = p + 1 /\ a + (p - a) = p
    BY <1>3, <1>6
  <2>2. t[Len(m) + (p - a)] = e[p - a]
    BY <1>1, <1>5, <2>1
  <2>3. e[p - a] = s[a + (p - a)]
    BY <1>1, <2>1
  <2> QED BY <2>1, <2>2, <2>3
<1>10. HasInserted(s, t, n, a, f)
  BY <1>7, <1>8, <1>9 DEF HasInserted
<1> QED BY <1>3, <1>5, <1>6, <1>10, Zenon DEF n

\* A file put in after place a of a list it is not in.
LEMMA InsertedIsInjective ==
    ASSUME NEW s \in Seq(Files), NEW a \in Nat, a <= Len(s), NEW f \in Files, IsInjective(s),
           \A p \in 1 .. Len(s) : s[p] # f
    PROVE  IsInjective(Inserted(s, a, f))
<1> DEFINE t == Inserted(s, a, f)
           n == Len(s)
<1>1. t \in Seq(Files) /\ Len(t) = n + 1 /\ HasInserted(s, t, n, a, f)
  BY InsertedAt, Zenon
<1>2. OneToOne(s, n) /\ n \in Nat
  <2>1. DOMAIN s = 1 .. n /\ n \in Nat
    OBVIOUS
  <2> QED BY <2>1 DEF IsInjective, OneToOne
<1> HIDE DEF t
<1>3. DOMAIN t = 1 .. n + 1
  BY <1>1, <1>2
<1>4. OneToOne(t, n + 1)
  BY <1>1, <1>2, InsertedOnce, Zenon
<1>5. IsInjective(t)
  BY <1>3, <1>4, Zenon DEF IsInjective, OneToOne
<1> QED BY <1>5 DEF t

Chosen(h, l, n) == [h EXCEPT !.list = l, !.active = n, !.steps = 0, !.repaired = 0]

LEMMA PromotedValue ==
    ASSUME NEW h \in Hypotheses, NEW l \in Seq(Files), NEW n \in Nat \ {0}
    PROVE  /\ Chosen(h, l, n) \in Hypotheses
           /\ Chosen(h, l, n).list = l /\ Chosen(h, l, n).active = n
  BY DEF Hypotheses, Chosen

\* promote_patch_hypothesis_path: the file is one of those to come, or becomes one.
LEMMA PromotedKeepsHypotheses ==
    ASSUME HarnessInv, hyps.list # <<>>, NEW f \in Files, ~Revisits(f), hyps' = Promoted(f)
    PROVE  HypothesesStep
<1> DEFINE l == hyps.list
           a == hyps.active
           n == Len(l)
           later == {i \in a .. Len(l) : l[i] = f}
<1>1. /\ hyps \in Hypotheses /\ l \in Seq(Files) /\ n \in Nat /\ IsInjective(l)
      /\ a \in Nat \ {0} /\ a \in Nat /\ a <= n
  BY DEF HarnessInv, HarnessTypeOK, HypothesesInv, Hypotheses
<1>2. CASE later # {}
  <2> DEFINE i == CHOOSE k \in later : TRUE
             g == Chosen(hyps, l, i)
  <2>1. i \in later
    BY <1>2
  <2>2. hyps' = [hyps EXCEPT !.active = i, !.steps = 0, !.repaired = 0]
    BY <1>2, Zenon DEF Promoted
  <2> HIDE DEF i
  <2>3. i \in Nat \ {0} /\ i >= a /\ i <= n
    BY <1>1, <2>1
  <2>4. g \in Hypotheses /\ g.list = l /\ g.active = i
    BY <1>1, <2>3, PromotedValue
  <2>5. hyps' = g
    BY <1>1, <2>2 DEF Hypotheses, Chosen
  <2> HIDE DEF g, l
  <2> QED BY <1>1, <2>3, <2>4, <2>5 DEF HypothesesStep, l
<1>3. CASE later = {}
  <2> DEFINE t == Inserted(l, a, f)
             k == a + 1
             g == Chosen(hyps, t, k)
  <2>1. hyps' = g
    BY <1>3, Zenon DEF Promoted, Inserted, Chosen
  <2>2. \A i \in 1 .. n : l[i] # f
    BY <1>1, <1>3 DEF Revisits
  <2>3. t \in Seq(Files) /\ Len(t) = n + 1 /\ HasInserted(l, t, n, a, f)
    BY <1>1, InsertedAt, Zenon
  <2>4. IsInjective(t)
    BY <1>1, <2>2, InsertedIsInjective, Zenon
  <2> HIDE DEF t
  <2>5. k \in Nat \ {0} /\ k = a + 1
    BY <1>1
  <2> HIDE DEF k
  <2>6. g \in Hypotheses /\ g.list = t /\ g.active = k
    <3>1. hyps \in Hypotheses
      BY <1>1
    <3>2. t \in Seq(Files)
      BY <2>3
    <3>3. k \in Nat \ {0}
      BY <2>5
    <3> QED BY <3>1, <3>2, <3>3, PromotedValue
  <2> HIDE DEF g
  <2>7. a + 1 <= Len(t) /\ a + 1 >= a /\ \A i \in 1 .. a - 1 : t[i] = l[i]
    BY <1>1, <2>3 DEF HasInserted
  <2> QED BY <2>1, <2>3, <2>4, <2>5, <2>6, <2>7 DEF HypothesesStep
<1> QED BY <1>2, <1>3

-----------------------------------------------------------------------------
(* Steps that are alike.                                                   *)

\* Nothing but the place, and what the property does not ask about, changes.
LEMMA JustMoves ==
    ASSUME HarnessInv, UNCHANGED <<mode, work, hyps, records>>, PlaceStep PROVE Ordinary
  BY SameWork, SameHypotheses, SameRecords DEF Ordinary

\* Nothing but the working tree does.
LEMMA JustWrites ==
    ASSUME HarnessInv, UNCHANGED <<mode, hyps, records>>, TreeStep, PlaceStep PROVE Ordinary
  BY SameHypotheses, SameRecords DEF Ordinary

LEMMA SameAnnounced ==
    ASSUME UNCHANGED <<mode, at, step>>
    PROVE  Announced' <=> Announced
  BY DEF Announced, Machine, OverBudget

\* A tree that is a snapshot of this run.
LEMMA WithSnapshot ==
    ASSUME HarnessInv, tree' \in {tree, SnapTree, CandTree}, snap' \in {snap, CandTree},
           cand' \in {cand, tree}
    PROVE  TreeStep
<1>1. SnapTree \in Trees /\ CandTree \in Trees
  BY SnapshotsAreTrees
<1> QED BY <1>1 DEF HarnessInv, HarnessTypeOK, TreeStep

\* The best candidate, when there is one, is a tree without a broken file.
LEMMA BestIsClean ==
    ASSUME HarnessInv, Restorable(bank) # {}
    PROVE  /\ BestTree(bank) \in passed /\ BestTree(bank) \in Trees /\ ~Broken(BestTree(bank))
           /\ ~mode.causal
<1>1. BestTree(bank) \in passed /\ ~mode.causal
  BY BestIsBacked DEF HarnessInv, BankInv
<1> QED BY <1>1 DEF HarnessInv, HarnessTypeOK, Clean

-----------------------------------------------------------------------------
(* The head of the loop.                                                   *)

LEMMA GiveUpIsOrdinary == ASSUME HarnessInv, GiveUp PROVE Ordinary
<1>1. UNCHANGED <<mode, at, step, work, hyps, records>> /\ pc = "top" /\ pc' = "final"
  BY DEF GiveUp, Stop, memory
<1>2. ~Announced
  BY DEF GiveUp, Announced
<1>3. PlaceStep
  BY <1>1, <1>2, SameAnnounced DEF PlaceStep, Ended, InTurn
<1> QED BY <1>1, <1>3, JustMoves

LEMMA ArriveIsOrdinary == ASSUME HarnessInv, NEW blocks \in BOOLEAN, Arrive(blocks) PROVE Ordinary
<1>1. UNCHANGED <<mode, step, work, hyps, records>> /\ pc = "top"
  BY DEF Arrive, Looping, memory
<1>2. PlaceStep
  <2>1. CASE pc' = "top"
    BY <1>1, <2>1, ToTheTop DEF Ended
  <2>2. CASE pc' # "top"
    <3>1. pc' = "final" /\ UNCHANGED at /\ (at = "completed" => ~Broken(tree))
      BY <2>2 DEF Arrive, GoTo, Stop
    <3>2. Announced' => ~Broken(tree')
      BY <1>1, <3>1, SameAnnounced DEF Announced, work
    <3> QED BY <1>1, <3>1, <3>2 DEF PlaceStep, Ended, InTurn
  <2> QED BY <2>1, <2>2
<1> QED BY <1>1, <1>2, JustMoves

\* What is left of a run that stops with the best candidate.
LEMMA StopWithBestIsOrdinary ==
    ASSUME HarnessInv, EarlyStop, StopWithBest, ~Ended PROVE Ordinary
<1>1. /\ UNCHANGED <<mode, hyps, records, snap, cand>> /\ pc' = "final"
      /\ tree' = BestTree(bank)
  BY DEF StopWithBest, Stop
<1>2. BestTree(bank) \in Trees /\ ~Broken(BestTree(bank))
  BY BestIsClean DEF EarlyStop, StagnationRestores
<1>3. TreeStep
  BY <1>1, <1>2 DEF TreeStep, HarnessInv, HarnessTypeOK
<1>4. PlaceStep
  BY <1>1, <1>2 DEF PlaceStep, InTurn
<1> QED BY <1>1, <1>3, <1>4, JustWrites

LEMMA StartNextIsOrdinary ==
    ASSUME HarnessInv, HasNext, StartNext, ~Ended PROVE Ordinary
<1>1. /\ UNCHANGED <<mode, records, snap, cand>> /\ pc' = "top" /\ tree' = SnapTree
      /\ hyps' = NextHypothesis
  BY DEF StartNext, GoTo
<1>2. TreeStep
  BY <1>1, WithSnapshot
<1>3. HypothesesStep
  BY <1>1, NextKeepsHypotheses
<1>4. PlaceStep
  BY <1>1, ToTheTop
<1> QED BY <1>1, <1>2, <1>3, <1>4, SameRecords DEF Ordinary

LEMMA SpendHypothesisIsOrdinary == ASSUME HarnessInv, SpendHypothesis PROVE Ordinary
<1>1. pc = "top" /\ ~Ended
  BY DEF SpendHypothesis, Running, Looping, Ended
<1>2. CASE EarlyStop /\ StopWithBest
  BY <1>1, <1>2, StopWithBestIsOrdinary
<1>3. CASE HasNext /\ StartNext
  BY <1>1, <1>3, StartNextIsOrdinary
<1>4. CASE /\ hyps' = [Exhausted EXCEPT !.steps = 0] /\ Stay
           /\ UNCHANGED <<mode, step, work, cache, tally, blocked, mind, records>>
  <2>1. Exhausted \in Hypotheses /\ Exhausted.list = hyps.list /\ Exhausted.active = hyps.active
    BY ExhaustedIsSameList
  <2>2. hyps' \in Hypotheses /\ hyps'.list = hyps.list /\ hyps'.active = hyps.active
    BY <1>4, <2>1 DEF Hypotheses
  <2>3. HypothesesStep
    BY <2>2, SameList
  <2>4. PlaceStep
    BY <1>1, <1>4, ToTheTop DEF Stay, place
  <2> QED BY <1>4, <2>3, <2>4, SameWork, SameRecords DEF Ordinary
<1> QED BY <1>2, <1>3, <1>4 DEF SpendHypothesis

\* What localization comes up with.
LEMMA RankedIsHypotheses ==
    ASSUME HarnessInv
    PROVE  Ranked \in Hypotheses /\ IsInjective(Ranked.list) /\ Ranked.active = 1
<1> DEFINE l == IF mode.tournament THEN mode.hypotheses ELSE <<>>
           f == {mode.hypotheses[i] : i \in DOMAIN mode.hypotheses}
<1>1. mode \in Mode /\ IsInjective(mode.hypotheses)
  BY ModeAssumption DEF HarnessInv, HarnessTypeOK
<1>2. mode.hypotheses \in Seq(Files)
  BY <1>1 DEF Mode
<1>3. IsInjective(<<>>)
  BY DEF IsInjective
<1>4. l \in Seq(Files) /\ IsInjective(l)
  BY <1>1, <1>2, <1>3
<1>5. f \in SUBSET Files
  BY <1>2
<1> HIDE DEF f
<1>6. Ranked = [NoHypotheses EXCEPT !.list = l, !.exhausted = l = <<>>, !.found = f]
  BY Zenon DEF Ranked, f
<1> HIDE DEF l
<1>7. (l = <<>>) \in BOOLEAN
  OBVIOUS
<1>8. Ranked = [list |-> l, found |-> f, active |-> 1, steps |-> 0,
                exhausted |-> (l = <<>>), repaired |-> 0]
  BY <1>6 DEF NoHypotheses
<1> QED BY <1>4, <1>5, <1>7, <1>8 DEF Hypotheses

\* Localization, or a fan-out in its place, begins with new hypotheses.
LEMMA LocalizingIsOrdinary ==
    ASSUME HarnessInv, Localizing, TreeStep, PlaceStep PROVE Ordinary
<1>1. /\ UNCHANGED <<mode, bank, passed>> /\ at = "localizing"
      /\ hyps' = [Ranked EXCEPT !.steps = IF hyps.active = 1 THEN hyps.steps ELSE 0]
      /\ causal' = IF mode.causal THEN Record(causal, "mapped") ELSE causal
  BY DEF Localizing
<1>2. hyps' \in Hypotheses /\ hyps'.list = Ranked.list /\ hyps'.active = 1
  <2>1. hyps.steps \in Nat
    BY DEF HarnessInv, HarnessTypeOK, Hypotheses
  <2>2. PICK n \in Nat : hyps' = [Ranked EXCEPT !.steps = n]
    BY <1>1, <2>1
  <2> QED BY <2>2, RankedIsHypotheses DEF Hypotheses
<1>3. HypothesesStep
  BY <1>1, <1>2, RankedIsHypotheses DEF HypothesesStep
<1>4. CausalStep
  BY <1>1, RecordKeeps, SameCausal DEF HarnessInv, HarnessTypeOK, CausalStep
<1> QED BY <1>1, <1>3, <1>4, SameBank DEF Ordinary

LEMMA LocalizeIsOrdinary == ASSUME HarnessInv, Localize PROVE Ordinary
<1>1. UNCHANGED work /\ pc = "top" /\ pc' = "top"
  BY DEF Localize, Localizing, Entering, Running, Looping, GoTo, work
<1>2. TreeStep /\ PlaceStep
  BY <1>1, SameWork, ToTheTop DEF Ended
<1> QED BY <1>2, LocalizingIsOrdinary DEF Localize

LEMMA FanOutIsOrdinary == ASSUME HarnessInv, NEW found \in Trees, FanOut(found) PROVE Ordinary
<1>1. /\ tree' = found /\ ~Broken(found) /\ UNCHANGED <<snap, cand>>
      /\ pc = "top" /\ pc' = "final"
  BY DEF FanOut, Localizing, Entering, Running, Looping, Stop
<1>2. TreeStep /\ PlaceStep
  BY <1>1 DEF HarnessInv, HarnessTypeOK, TreeStep, PlaceStep, Ended, InTurn
<1> QED BY <1>2, LocalizingIsOrdinary DEF FanOut

-----------------------------------------------------------------------------
(* A validation state, and the limits of a state.                          *)

LEMMA UnvalidatedIsOrdinary == ASSUME HarnessInv, NEW target, Unvalidated(target) PROVE Ordinary
<1>1. /\ UNCHANGED <<mode, work, hyps, bank, passed>> /\ pc = "top" /\ pc' = "top"
      /\ causal' = IF mode.causal THEN ScopeUnavailable(causal) ELSE causal
  BY DEF Unvalidated, Validating, Entering, Running, Looping, GoTo, memory
<1>2. CausalStep
  BY <1>1, ScopeUnavailableKeeps, SameCausal DEF HarnessInv, HarnessTypeOK, CausalStep
<1>3. PlaceStep
  BY <1>1, ToTheTop DEF Ended
<1> QED BY <1>1, <1>2, <1>3, SameWork, SameHypotheses, SameBank DEF Ordinary

\* What a run records of a candidate, none of it trusted in causal mode.
LEMMA BankedStep ==
    ASSUME HarnessInv, passed' \in SUBSET Clean, passed \subseteq passed',
           NEW scope, NEW sig, NEW same, NEW feedbackOnly \in BOOLEAN,
           feedbackOnly \/ (tree \in passed' /\ ~mode.causal),
           bank' \in {bank, RecordPass(bank, tree, Changed, scope, feedbackOnly),
                      RecordFailed(bank, tree, Changed, scope, sig, same)}
    PROVE  BankStep
<1>1. IsBank(bank) /\ Backed(bank, passed')
  BY BackedByMore DEF HarnessInv, BankInv
<1>2. tree \in Trees /\ Changed \in Trees
  BY SnapshotsAreTrees DEF HarnessInv, HarnessTypeOK
<1> DEFINE p == RecordPass(bank, tree, Changed, scope, feedbackOnly)
           f == RecordFailed(bank, tree, Changed, scope, sig, same)
<1>3. IsBank(p) /\ Backed(p, passed')
  BY <1>1, <1>2, RecordPassKeepsBank
<1>4. IsBank(f) /\ Backed(f, passed')
  BY <1>1, RecordFailedKeepsBank
<1>5. bank' \in {bank, p, f}
  OBVIOUS
<1> HIDE DEF p, f
<1> QED BY <1>1, <1>3, <1>4, <1>5 DEF BankStep

LEMMA ValidateCausallyIsOrdinary ==
    ASSUME HarnessInv, NEW signal, ValidateCausally(signal) PROVE Ordinary
<1>1. /\ UNCHANGED <<mode, work, hyps, passed>> /\ pc = "top" /\ pc' = "top"
      /\ causal' = ScopeValidated(causal, tree, signal)
      /\ bank' \in {bank, RecordPass(bank, tree, Changed, "state", TRUE),
                    RecordFailed(bank, tree, Changed, "state", signal, tally.same + 1)}
  BY DEF ValidateCausally, Validating, Entering, Running, Looping, GoTo, memory
<1>2. CausalStep
  BY <1>1, ScopeValidatedKeeps DEF HarnessInv, HarnessTypeOK, CausalStep
<1>3. PlaceStep
  BY <1>1, ToTheTop DEF Ended
<1>4. BankStep
  BY <1>1, BankedStep DEF HarnessInv, HarnessTypeOK
<1> QED BY <1>1, <1>2, <1>3, <1>4, SameWork, SameHypotheses DEF Ordinary

LEMMA ValidatePassesIsOrdinary == ASSUME HarnessInv, ValidatePasses PROVE Ordinary
<1>1. /\ UNCHANGED <<mode, work, hyps, causal>> /\ pc = "top" /\ pc' = "top"
      /\ ~mode.causal /\ ~Broken(tree)
      /\ passed' = IF mode.scope = "trusted" THEN passed \cup {tree} ELSE passed
      /\ mode.scope # "none"
      /\ bank' \in {bank, RecordPass(bank, tree, Changed, "state", mode.scope = "feedback")}
  BY DEF ValidatePasses, Trusting, Validating, Entering, Running, Looping, GoTo, memory
<1>2. mode.scope \in {"feedback", "trusted"}
  BY <1>1, ModeAssumption DEF HarnessInv, HarnessTypeOK, Mode
<1>3. passed' \in SUBSET Clean /\ passed \subseteq passed'
  BY <1>1 DEF HarnessInv, HarnessTypeOK, Clean
<1> DEFINE feedbackOnly == mode.scope = "feedback"
<1>4. feedbackOnly \in BOOLEAN /\ (feedbackOnly \/ (tree \in passed' /\ ~mode.causal))
  BY <1>1, <1>2
<1>5. bank' \in {bank, RecordPass(bank, tree, Changed, "state", feedbackOnly),
                 RecordFailed(bank, tree, Changed, "state", "none", 0)}
  BY <1>1
<1> HIDE DEF feedbackOnly
<1>6. BankStep
  BY <1>3, <1>4, <1>5, BankedStep
<1>7. PlaceStep
  BY <1>1, ToTheTop DEF Ended
<1> QED BY <1>1, <1>6, <1>7, SameWork, SameHypotheses, SameCausal DEF Ordinary

LEMMA ValidateFailsIsOrdinary == ASSUME HarnessInv, ValidateFails PROVE Ordinary
<1>1. /\ UNCHANGED <<mode, cand, hyps, records>> /\ pc = "top" /\ pc' = "top"
      /\ tree' \in {tree, SnapTree, CandTree} /\ snap' \in {snap, CandTree}
  BY DEF ValidateFails, Validating, Entering, Running, Looping, GoTo
<1>2. TreeStep
  BY <1>1, WithSnapshot
<1>3. PlaceStep
  BY <1>1, ToTheTop DEF Ended
<1> QED BY <1>1, <1>2, <1>3, JustWrites

LEMMA EvidenceTimeoutIsOrdinary == ASSUME HarnessInv, EvidenceTimeout PROVE Ordinary
<1>1. UNCHANGED <<mode, work, hyps, records>> /\ pc = "top" /\ pc' = "top"
  BY DEF EvidenceTimeout, Open, Running, Looping, GoTo, memory
<1> QED BY <1>1, JustMoves, ToTheTop DEF Ended

LEMMA HardLimitIsOrdinary == ASSUME HarnessInv, HardLimit PROVE Ordinary
<1>1. UNCHANGED <<mode, work, hyps, records>> /\ pc = "top" /\ pc' = "top"
  BY DEF HardLimit, Open, Running, Looping, GoTo, memory
<1> QED BY <1>1, JustMoves, ToTheTop DEF Ended

LEMMA AskIsOrdinary == ASSUME HarnessInv, Ask PROVE Ordinary
<1>1. /\ UNCHANGED <<mode, at, work, records>> /\ pc = "top" /\ pc' = "answer"
      /\ at \in States(Machine) /\ ~IsFinalState(Machine, at)
      /\ hyps' \in {hyps, [hyps EXCEPT !.steps = @ + 1]}
  BY DEF Ask, Open, Running, Looping
<1>2. hyps' \in Hypotheses /\ hyps'.list = hyps.list /\ hyps'.active = hyps.active
  BY <1>1 DEF HarnessInv, HarnessTypeOK, Hypotheses
<1>3. PlaceStep
  BY <1>1 DEF PlaceStep, Ended
<1> QED BY <1>1, <1>2, <1>3, SameList, SameWork, SameRecords DEF Ordinary

LEMMA TopOfLoopIsOrdinary == ASSUME HarnessInv, TopOfLoop PROVE Ordinary
  BY GiveUpIsOrdinary, ArriveIsOrdinary, SpendHypothesisIsOrdinary, LocalizeIsOrdinary,
     FanOutIsOrdinary, UnvalidatedIsOrdinary, ValidateCausallyIsOrdinary,
     ValidatePassesIsOrdinary, ValidateFailsIsOrdinary, EvidenceTimeoutIsOrdinary,
     HardLimitIsOrdinary, AskIsOrdinary
  DEF TopOfLoop, ValidateUnscoped, ValidateUncollected, ValidateUnrun

-----------------------------------------------------------------------------
(* The answer.                                                             *)

LEMMA AtTheAnswer == ASSUME pc = "answer" PROVE InTurn /\ ~Ended
  BY DEF InTurn, Ended

LEMMA WireErrorIsOrdinary == ASSUME HarnessInv, WireError PROVE Ordinary
<1>1. /\ UNCHANGED <<mode, at, work, hyps, records>> /\ pc = "answer" /\ pc' \in {"top", "final"}
  BY DEF WireError, Stop, Back
<1> QED BY <1>1, AtTheAnswer, OfTheTurn, JustMoves

LEMMA AnswerLostIsOrdinary == ASSUME HarnessInv, AnswerLost PROVE Ordinary
<1>1. UNCHANGED <<mode, at, work, hyps, records>> /\ pc = "answer" /\ pc' = "final"
  BY DEF AnswerLost, Stop, memory
<1> QED BY <1>1, AtTheAnswer, OfTheTurn, JustMoves

LEMMA AnswerIsOrdinary == ASSUME HarnessInv, NEW n, NEW event, Answer(n, event) PROVE Ordinary
<1>1. UNCHANGED <<mode, at, work, hyps, records>> /\ pc = "answer" /\ pc' = "calls"
  BY DEF Answer
<1> QED BY <1>1, AtTheAnswer, OfTheTurn, JustMoves

LEMMA OneMoreEdit ==
    ASSUME HarnessInv, NEW e \in Edits, tree' \in {tree, tree \cup {e}},
           snap' = snap, cand' \in {cand, tree}
    PROVE  TreeStep
  BY DEF HarnessInv, HarnessTypeOK, TreeStep, Trees

LEMMA FileBlockIsOrdinary ==
    ASSUME HarnessInv, NEW e \in Edits, NEW event, FileBlock(e, event) PROVE Ordinary
<1>1. /\ UNCHANGED <<mode, at, snap, cand, hyps, records>> /\ tree' = tree \cup {e}
      /\ pc = "answer" /\ pc' = "calls"
  BY DEF FileBlock
<1> QED BY <1>1, AtTheAnswer, OfTheTurn, OneMoreEdit, JustWrites

LEMMA FileBlockRefusedIsOrdinary == ASSUME HarnessInv, FileBlockRefused PROVE Ordinary
<1>1. UNCHANGED <<mode, at, work, hyps, records>> /\ pc = "answer" /\ pc' = "top"
  BY DEF FileBlockRefused, Back
<1> QED BY <1>1, AtTheAnswer, OfTheTurn, JustMoves

LEMMA TruncatedWriteIsOrdinary ==
    ASSUME HarnessInv, NEW e \in Edits, TruncatedWrite(e) PROVE Ordinary
<1>1. /\ UNCHANGED <<mode, at, snap, cand, hyps, records>> /\ tree' = tree \cup {e}
      /\ pc = "answer" /\ pc' = "top"
  BY DEF TruncatedWrite, Back
<1> QED BY <1>1, AtTheAnswer, OfTheTurn, OneMoreEdit, JustWrites

\* The tree of the snapshot, and hypotheses that are the same or the next ones.
LEMMA StartsOver ==
    ASSUME HarnessInv, UNCHANGED <<mode, snap, cand, records>>, ~Ended, pc' = "top",
           tree' \in {tree, SnapTree, CandTree}, HypothesesStep
    PROVE  Ordinary
  BY WithSnapshot, ToTheTop, SameRecords DEF Ordinary

LEMMA UnreadableIsOrdinary ==
    ASSUME HarnessInv, NEW worth \in BOOLEAN, Unreadable(worth) PROVE Ordinary
<1>1. ~Ended
  BY DEF Unreadable, Ended
<1>2. UNCHANGED <<mode, snap, cand, records>> /\ pc' = "top" /\ tree' \in {tree, SnapTree, CandTree}
  BY DEF Unreadable, Back, GoTo, work
<1>3. HypothesesStep
  <2>1. CASE UNCHANGED hyps
    BY <2>1, SameHypotheses
  <2>2. CASE hyps' = [hyps EXCEPT !.repaired = hyps.active]
    <3>1. hyps \in Hypotheses /\ hyps.active \in Nat
      BY DEF HarnessInv, HarnessTypeOK, Hypotheses
    <3>2. hyps' \in Hypotheses /\ hyps'.list = hyps.list /\ hyps'.active = hyps.active
      BY <2>2, <3>1, RepairedIsSame
    <3> QED BY <3>2, SameList
  <2>3. CASE HasNext /\ hyps' = [NextHypothesis EXCEPT !.repaired = 0]
    BY <2>3, NextKeepsHypotheses
  <2>4. CASE hyps' = Exhausted
    BY <2>4, ExhaustedIsSameList, SameList
  <2> QED BY <2>1, <2>2, <2>3, <2>4 DEF Unreadable
<1> QED BY <1>1, <1>2, <1>3, StartsOver

LEMMA AnsweringIsOrdinary == ASSUME HarnessInv, Answering PROVE Ordinary
  BY WireErrorIsOrdinary, AnswerLostIsOrdinary, AnswerIsOrdinary, FileBlockIsOrdinary,
     FileBlockRefusedIsOrdinary, TruncatedWriteIsOrdinary, UnreadableIsOrdinary
  DEF Answering

-----------------------------------------------------------------------------
(* The calls.                                                              *)

LEMMA AtTheCalls == ASSUME Calling PROVE pc = "calls" /\ InTurn /\ ~Ended
  BY DEF Calling, InTurn, Ended

\* A call in place, after which the next one is worked on.
LEMMA NextCall ==
    ASSUME HarnessInv, Calling, UNCHANGED <<mode, at>>, pc' \in {"calls", "edited"} PROVE PlaceStep
  BY AtTheCalls, OfTheTurn

LEMMA CallIgnoredIsOrdinary == ASSUME HarnessInv, NEW event, CallIgnored(event) PROVE Ordinary
<1>1. Calling /\ UNCHANGED <<mode, at, pc, work, hyps, records>>
  BY DEF CallIgnored, place, memory
<1> QED BY <1>1, AtTheCalls, NextCall, JustMoves

LEMMA CallTransitionIsOrdinary ==
    ASSUME HarnessInv, NEW event, CallTransition(event) PROVE Ordinary
<1>1. Calling /\ UNCHANGED <<mode, at, pc, work, hyps, records>>
  BY DEF CallTransition, place, memory
<1> QED BY <1>1, AtTheCalls, NextCall, JustMoves

LEMMA ReadIsOrdinary == ASSUME HarnessInv, NEW f \in Files, Read(f) PROVE Ordinary
<1>1. Calling /\ UNCHANGED <<mode, at, pc, work, hyps, records>>
  BY DEF Read, place
<1> QED BY <1>1, AtTheCalls, NextCall, JustMoves

\* What the causal mode notes of a call.
LEMMA JustNotes ==
    ASSUME HarnessInv, UNCHANGED <<mode, hyps, bank, passed>>, TreeStep, CausalStep, PlaceStep
    PROVE  Ordinary
  BY SameHypotheses, SameBank DEF Ordinary

LEMMA WriteReproducerIsOrdinary ==
    ASSUME HarnessInv, NEW qualifies, NEW delta, WriteReproducer(qualifies, delta) PROVE Ordinary
<1>1. /\ Calling /\ UNCHANGED <<mode, at, pc, work, hyps, bank, passed>>
      /\ causal' \in {causal, EvidenceAcquired([causal EXCEPT !.qualified = TRUE], tree, delta),
                      ReproducerWritten(causal, qualifies)}
  BY DEF WriteReproducer, place, memory
<1>2. Keeps(causal, causal) /\ IsCausal(causal) /\ tree \in Trees
  BY DEF Keeps, HarnessInv, HarnessTypeOK
<1>3. Keeps(causal, ReproducerWritten(causal, qualifies))
  BY <1>2, ReproducerWrittenKeeps
<1> DEFINE c == [causal EXCEPT !.qualified = TRUE]
<1>4. Keeps(causal, c) /\ IsCausal(c)
  BY <1>2 DEF Keeps, IsCausal, CausalFields
<1> HIDE DEF c
<1>5. Keeps(causal, EvidenceAcquired(c, tree, delta))
  BY <1>2, <1>4, EvidenceAcquiredKeeps, KeepsTransitive
<1>6. CausalStep
  BY <1>1, <1>2, <1>3, <1>5 DEF CausalStep, c
<1> QED BY <1>1, <1>6, AtTheCalls, NextCall, SameWork, JustNotes

LEMMA RunReproducerIsOrdinary == ASSUME HarnessInv, NEW delta, RunReproducer(delta) PROVE Ordinary
<1>1. /\ Calling /\ UNCHANGED <<mode, at, pc, work, hyps, bank, passed>>
      /\ causal' \in {EvidenceAcquired(causal, tree, delta), ReproducerRan(causal, tree, delta)}
  BY DEF RunReproducer, place, memory
<1>2. CausalStep
  BY <1>1, EvidenceAcquiredKeeps, ReproducerRanKeeps DEF HarnessInv, HarnessTypeOK, CausalStep
<1> QED BY <1>1, <1>2, AtTheCalls, NextCall, SameWork, JustNotes

LEMMA WriteUnguardedIsOrdinary ==
    ASSUME HarnessInv, NEW e \in Edits, WriteUnguarded(e) PROVE Ordinary
<1>1. /\ Calling /\ UNCHANGED <<mode, at, pc, snap, cand, hyps, records>> /\ tree' = tree \cup {e}
  BY DEF WriteUnguarded, place
<1> QED BY <1>1, AtTheCalls, NextCall, OneMoreEdit, JustWrites

LEMMA BadPathIsOrdinary ==
    ASSUME HarnessInv, NEW refresh, NEW switch, BadPath(refresh, switch) PROVE Ordinary
<1>1. Calling /\ ~Ended
  BY AtTheCalls DEF BadPath, Editing
<1>2. CASE UNCHANGED <<mode, work, hyps, records>> /\ pc' = "top"
  BY <1>1, <1>2, ToTheTop, JustMoves
<1>3. CASE HasNext /\ StartNext
  BY <1>1, <1>3, StartNextIsOrdinary
<1>4. CASE UNCHANGED <<mode, place, work, records>> /\ hyps' \in {hyps, Exhausted}
  <2>1. HypothesesStep
    BY <1>4, SameHypotheses, ExhaustedIsSameList, SameList
  <2>2. PlaceStep
    BY <1>1, <1>4, AtTheCalls, NextCall DEF place
  <2> QED BY <1>4, <2>1, <2>2, SameWork, SameRecords DEF Ordinary
<1> QED BY <1>2, <1>3, <1>4 DEF BadPath, GoTo

LEMMA EditRefusedIsOrdinary == ASSUME HarnessInv, NEW e, EditRefused(e) PROVE Ordinary
<1>1. Calling /\ UNCHANGED <<mode, at, pc, work, hyps, records>>
  BY DEF EditRefused, Editing, place
<1> QED BY <1>1, AtTheCalls, NextCall, JustMoves

LEMMA EditDriftsIsOrdinary ==
    ASSUME HarnessInv, NEW e \in Edits, EditDrifts(e) PROVE Ordinary
<1>1. /\ ~Ended /\ pc' = "top" /\ UNCHANGED <<mode, work, records>>
      /\ Tournament
      /\ UNCHANGED hyps \/ (~Revisits(FileOf[e]) /\ hyps' = Promoted(FileOf[e]))
  BY AtTheCalls DEF EditDrifts, Editing, Drifts, OffHypothesis, Promotable, GoTo
<1>2. HypothesesStep
  <2>1. FileOf[e] \in Files /\ hyps.list # <<>>
    BY <1>1, LimitAssumption DEF Tournament
  <2> QED BY <1>1, <2>1, SameHypotheses, PromotedKeepsHypotheses
<1> QED BY <1>1, <1>2, ToTheTop, SameWork, SameRecords DEF Ordinary

LEMMA EditOutsideIsOrdinary == ASSUME HarnessInv, NEW e, EditOutside(e) PROVE Ordinary
<1>1. Calling /\ UNCHANGED <<mode, at, pc, work, hyps, records>>
  BY DEF EditOutside, Editing, place
<1> QED BY <1>1, AtTheCalls, NextCall, JustMoves

LEMMA EditTooEarlyIsOrdinary == ASSUME HarnessInv, NEW e, EditTooEarly(e) PROVE Ordinary
<1>1. /\ ~Ended /\ pc' = "top" /\ UNCHANGED <<mode, work, hyps, bank, passed>>
      /\ causal' = [causal EXCEPT !.blocks = @ - 1]
  BY AtTheCalls DEF EditTooEarly, InPlace, Editing, GoTo
<1>2. CausalStep
  BY <1>1 DEF HarnessInv, HarnessTypeOK, CausalStep, Keeps, IsCausal, CausalFields
<1> QED BY <1>1, <1>2, ToTheTop, SameWork, JustNotes

LEMMA EditGatedIsOrdinary == ASSUME HarnessInv, NEW e \in Edits, EditGated(e) PROVE Ordinary
<1>1. /\ Calling /\ UNCHANGED <<mode, at, pc, tree, snap, hyps, records>> /\ cand' \in {cand, tree}
  BY DEF EditGated, InPlace, Editing, place, SnapshotCandidate
<1> QED BY <1>1, AtTheCalls, NextCall, OneMoreEdit, JustWrites

LEMMA EditFailsIsOrdinary == ASSUME HarnessInv, NEW e \in Edits, EditFails(e) PROVE Ordinary
<1>1. /\ Calling /\ UNCHANGED <<mode, at, pc, snap, hyps, records>> /\ cand' \in {cand, tree}
      /\ tree' \in {tree, tree \cup {e}}
  BY DEF EditFails, Ready, InPlace, Editing, place, SnapshotCandidate
<1> QED BY <1>1, AtTheCalls, NextCall, OneMoreEdit, JustWrites

LEMMA EditUnchangedIsOrdinary ==
    ASSUME HarnessInv, NEW e \in Edits, EditUnchanged(e) PROVE Ordinary
<1>1. /\ ~Ended /\ pc' = "top" /\ UNCHANGED <<mode, tree, snap, hyps, bank, passed>>
      /\ cand' \in {cand, tree} /\ causal' = Record(causal, "structural_failure")
  BY AtTheCalls DEF EditUnchanged, Ready, InPlace, Editing, Triage, GoTo, SnapshotCandidate
<1>2. CausalStep
  BY <1>1, RecordKeeps DEF HarnessInv, HarnessTypeOK, CausalStep
<1> QED BY <1>1, <1>2, ToTheTop, OneMoreEdit, JustNotes

LEMMA EditRejectedIsOrdinary ==
    ASSUME HarnessInv, NEW e \in Edits, EditRejected(e) PROVE Ordinary
<1>1. /\ ~Ended /\ pc' = "top" /\ UNCHANGED <<mode, tree, snap, hyps, bank, passed>>
      /\ cand' \in {cand, tree} /\ causal' = Record(causal, "structural_failure")
  BY AtTheCalls DEF EditRejected, Ready, InPlace, Editing, Triage, GoTo
<1>2. CausalStep
  BY <1>1, RecordKeeps DEF HarnessInv, HarnessTypeOK, CausalStep
<1> QED BY <1>1, <1>2, ToTheTop, OneMoreEdit, JustNotes

LEMMA EditLandsIsOrdinary == ASSUME HarnessInv, NEW e \in Edits, EditLands(e) PROVE Ordinary
<1> DEFINE t == tree \cup {e}
           p == PatchPrepared(causal)
           c == StructuralCheckpoint(p, t)
           d == [c EXCEPT !.edits = @ + 1]
<1>1. /\ Calling /\ UNCHANGED <<mode, at, snap, hyps, bank, passed>> /\ pc' = "edited"
      /\ cand' \in {cand, tree} /\ tree' = t
  BY DEF EditLands, Ready, InPlace, Editing, SnapshotCandidate
<1>2. causal' \in {causal, d}
  BY Zenon DEF EditLands
<1>3. t \in Trees /\ IsCausal(causal) /\ Keeps(causal, causal)
  BY DEF HarnessInv, HarnessTypeOK, Trees, Keeps
<1> HIDE DEF t
<1>4. Keeps(causal, p) /\ IsCausal(p)
  BY <1>3, PatchPreparedKeeps DEF Keeps
<1> HIDE DEF p
<1>5. Keeps(causal, c) /\ IsCausal(c)
  BY <1>3, <1>4, StructuralCheckpointKeeps, KeepsTransitive DEF Keeps
<1> HIDE DEF c
<1>6. Keeps(c, d)
  BY <1>5 DEF Keeps, IsCausal, CausalFields
<1> HIDE DEF d
<1>7. CausalStep
  BY <1>2, <1>3, <1>5, <1>6, KeepsTransitive DEF CausalStep
<1>8. TreeStep
  BY <1>1, OneMoreEdit DEF t
<1> QED BY <1>1, <1>7, <1>8, NextCall, JustNotes

LEMMA CallIsOrdinary == ASSUME HarnessInv, Call PROVE Ordinary
  BY CallIgnoredIsOrdinary, CallTransitionIsOrdinary, ReadIsOrdinary, WriteReproducerIsOrdinary,
     RunReproducerIsOrdinary, BadPathIsOrdinary, WriteUnguardedIsOrdinary, EditRefusedIsOrdinary,
     EditDriftsIsOrdinary, EditOutsideIsOrdinary, EditTooEarlyIsOrdinary, EditGatedIsOrdinary,
     EditFailsIsOrdinary, EditUnchangedIsOrdinary, EditRejectedIsOrdinary, EditLandsIsOrdinary
  DEF Call

-----------------------------------------------------------------------------
(* After an edit, without the causal mode, and after the calls.            *)

LEMMA AtTheTest == ASSUME Plainly PROVE pc = "edited" /\ InTurn /\ ~Ended /\ ~mode.causal
  BY DEF Plainly, Testing, InTurn, Ended

\* The next call, or the top of the loop.
LEMMA GoesOn ==
    ASSUME HarnessInv, InTurn, UNCHANGED mode,
           pc' = "top" \/ (pc' \in {"calls", "move"} /\ UNCHANGED at)
    PROVE  PlaceStep
<1>1. ~Ended
  BY DEF InTurn, Ended
<1> QED BY <1>1, ToTheTop, OfTheTurn

LEMMA SourceTestIsOrdinary ==
    ASSUME HarnessInv, NEW blocking, SourceTest(blocking) PROVE Ordinary
<1>1. /\ Plainly /\ UNCHANGED <<mode, work, hyps, causal, passed>>
      /\ pc' = "top" \/ (pc' = "calls" /\ UNCHANGED at)
      /\ bank' \in {bank, RecordPass(bank, tree, Changed, "source", TRUE),
                    RecordFailed(bank, tree, Changed, "source", "none", 0)}
  BY DEF SourceTest, Resume, GoTo, Banked
<1>2. BankStep
  BY <1>1, BankedStep DEF HarnessInv, HarnessTypeOK
<1> QED BY <1>1, <1>2, AtTheTest, GoesOn, SameWork, SameHypotheses, SameCausal DEF Ordinary

LEMMA InconclusiveIsOrdinary == ASSUME HarnessInv, NEW target, Inconclusive(target) PROVE Ordinary
<1>1. Plainly /\ UNCHANGED <<mode, work, hyps, records>> /\ pc' = "top"
  BY DEF Inconclusive, GoTo, memory
<1> QED BY <1>1, AtTheTest, GoesOn, JustMoves

LEMMA TestPassesIsOrdinary == ASSUME HarnessInv, TestPasses PROVE Ordinary
<1> DEFINE feedbackOnly == mode.scope # "trusted"
<1>1. /\ Plainly /\ UNCHANGED <<mode, work, hyps, causal>> /\ pc' = "top" /\ ~Broken(tree)
      /\ passed' = IF feedbackOnly THEN passed ELSE passed \cup {tree}
      /\ bank' \in {bank, RecordPass(bank, tree, Changed, "edit", feedbackOnly),
                    RecordFailed(bank, tree, Changed, "edit", "none", 0)}
  BY DEF TestPasses, Tested, GoTo, Banked
<1>2. passed' \in SUBSET Clean /\ passed \subseteq passed'
  BY <1>1 DEF HarnessInv, HarnessTypeOK, Clean
<1>3. feedbackOnly \in BOOLEAN /\ (feedbackOnly \/ (tree \in passed' /\ ~mode.causal))
  BY <1>1, AtTheTest
<1> HIDE DEF feedbackOnly
<1>4. BankStep
  BY <1>1, <1>2, <1>3, BankedStep
<1> QED BY <1>1, <1>4, AtTheTest, GoesOn, SameWork, SameHypotheses, SameCausal DEF Ordinary

\* The hypotheses, as a fault or a plateau leaves them.
LEMMA KeptNextOrExhausted ==
    ASSUME HarnessInv,
           UNCHANGED hyps \/ hyps' = Exhausted \/ (HasNext /\ hyps' = NextHypothesis)
    PROVE  HypothesesStep
  BY SameHypotheses, ExhaustedIsSameList, SameList, NextKeepsHypotheses

LEMMA DiscardIsOrdinary ==
    ASSUME HarnessInv, Plainly, NEW restored \in {SnapTree, CandTree}, NEW kept,
           Discard(restored, kept)
    PROVE  Ordinary
<1>1. /\ UNCHANGED <<mode, snap, cand, records>> /\ tree' = restored
      /\ pc' = "top" \/ (pc' = "calls" /\ UNCHANGED at)
      /\ UNCHANGED hyps \/ hyps' = Exhausted \/ (HasNext /\ hyps' = NextHypothesis)
  BY DEF Discard, GoTo, Resume
<1>2. TreeStep
  BY <1>1, WithSnapshot
<1> QED BY <1>1, <1>2, KeptNextOrExhausted, AtTheTest, GoesOn, SameRecords DEF Ordinary

LEMMA TestFailsIsOrdinary == ASSUME HarnessInv, NEW sig, TestFails(sig) PROVE Ordinary
<1> DEFINE same == IF tally.sig = sig THEN tally.same + 1 ELSE 1
<1>1. /\ Plainly /\ UNCHANGED <<mode, snap, cand, causal, passed>>
      /\ tree' \in {tree, SnapTree, CandTree}
      /\ pc' = "top" \/ (pc' = "calls" /\ UNCHANGED at)
      /\ UNCHANGED hyps \/ hyps' = Exhausted \/ (HasNext /\ hyps' = NextHypothesis)
      /\ bank' \in {bank, RecordPass(bank, tree, Changed, "edit", TRUE),
                    RecordFailed(bank, tree, Changed, "edit", sig, same)}
  BY DEF TestFails, Tested, GoTo, Resume, Banked
<1> HIDE DEF same
<1>2. TreeStep
  BY <1>1, WithSnapshot
<1>3. BankStep
  BY <1>1, BankedStep DEF HarnessInv, HarnessTypeOK
<1> QED BY <1>1, <1>2, <1>3, KeptNextOrExhausted, AtTheTest, GoesOn, SameCausal DEF Ordinary

LEMMA PlainTestIsOrdinary ==
    ASSUME HarnessInv, AutoTest, ~mode.causal PROVE Ordinary
<1>1. ~ \E d \in Deltas \cup {"none"} :
          \/ CausalTestUnscoped(d)
          \/ \E blocking \in BOOLEAN, s \in Signals : CausalTest(d, s, blocking)
  BY DEF CausalTest, CausalTestUnscoped, CausalTesting
<1>2. CASE TestFailsSandboxed \/ TestFailsOversized
  BY <1>2, DiscardIsOrdinary DEF TestFailsSandboxed, TestFailsOversized, Tested
<1>3. CASE TestUnavailable \/ TestUncollected \/ TestUnrun
  BY <1>3, InconclusiveIsOrdinary DEF TestUnavailable, TestUncollected, TestUnrun
<1> QED BY <1>1, <1>2, <1>3, SourceTestIsOrdinary, TestPassesIsOrdinary, TestFailsIsOrdinary
    DEF AutoTest

LEMMA EscalateIsOrdinary ==
    ASSUME HarnessInv, pc = "calls", NEW t, NEW h \in {hyps, Exhausted}, Escalate(t, h)
    PROVE  Ordinary
<1>1. /\ UNCHANGED <<mode, at, snap, cand, records>> /\ pc' = "move" /\ hyps' = h
      /\ tree' \in {tree, SnapTree, CandTree}
  BY DEF Escalate
<1>2. TreeStep
  BY <1>1, WithSnapshot
<1> QED BY <1>1, <1>2, KeptNextOrExhausted, GoesOn, SameRecords DEF Ordinary, InTurn

LEMMA AfterCallsIsOrdinary == ASSUME HarnessInv, AfterCalls PROVE Ordinary
<1> DEFINE t == Counted
<1>1. pc = "calls" /\ ~Ended
  BY DEF AfterCalls, Ended
<1>2. CASE Escalate(t, hyps) \/ Escalate(t, Exhausted)
  BY <1>1, <1>2, EscalateIsOrdinary
<1>3. CASE EarlyStop /\ StopWithBest
  BY <1>1, <1>3, StopWithBestIsOrdinary
<1>4. CASE HasNext /\ StartNext
  BY <1>1, <1>4, StartNextIsOrdinary
<1> QED BY <1>2, <1>3, <1>4 DEF AfterCalls

-----------------------------------------------------------------------------
(* The transition.                                                         *)

LEMMA AtTheMove == ASSUME Moving PROVE pc = "move" /\ InTurn /\ ~Ended
  BY DEF Moving, InTurn, Ended

LEMMA MoveNowhereIsOrdinary == ASSUME HarnessInv, MoveNowhere PROVE Ordinary
<1>1. Moving /\ UNCHANGED <<mode, work, hyps, records>> /\ pc' = "top"
  BY DEF MoveNowhere, Back, memory
<1> QED BY <1>1, AtTheMove, GoesOn, JustMoves

LEMMA MoveFailIsOrdinary == ASSUME HarnessInv, MoveFail PROVE Ordinary
<1>1. /\ Moving /\ UNCHANGED <<mode, snap, cand, records>> /\ pc' = "top"
      /\ tree' \in {tree, SnapTree, CandTree}
      /\ UNCHANGED hyps \/ hyps' = Exhausted \/ (HasNext /\ hyps' = NextHypothesis)
  BY DEF MoveFail, Triage, GoTo, Back, work, memory
<1>2. HypothesesStep
  BY <1>1, KeptNextOrExhausted
<1> QED BY <1>1, <1>2, AtTheMove, StartsOver

LEMMA MoveIsOrdinary == ASSUME HarnessInv, Move PROVE Ordinary
<1> DEFINE target == On(Machine, at)[turn.event]
           base == IF IsImplementation(target) THEN tree ELSE snap
<1>1. /\ Moving /\ UNCHANGED <<mode, cand, hyps, bank, passed>> /\ pc' = "top"
      /\ snap' = base
      /\ tree' = tree \/ (tree' = base /\ base # NoTree)
      /\ causal' \in {causal, Record(causal, "structural_failure")}
  BY DEF Move, GoTo
<1>2. base \in {tree, snap}
  OBVIOUS
<1> HIDE DEF base
<1>3. TreeStep
  BY <1>1, <1>2 DEF HarnessInv, HarnessTypeOK, TreeStep
<1>4. CausalStep
  BY <1>1, RecordKeeps, SameCausal DEF HarnessInv, HarnessTypeOK, CausalStep
<1> QED BY <1>1, <1>3, <1>4, AtTheMove, GoesOn, JustNotes

-----------------------------------------------------------------------------
(* After an edit, in causal mode: a candidate may be accepted.             *)

\* Nothing is accepted before the end.
LEMMA SettleElsewhereIsOrdinary ==
    ASSUME HarnessInv, Testing, NEW seen, Keeps(causal, seen), NEW delta, NEW signal, NEW blocking,
           Settle(seen, delta, signal, blocking),
           Decide(seen, delta, signal, blocking) # "accept"
    PROVE  Ordinary
<1> DEFINE route == Decide(seen, delta, signal, blocking)
           decided == Decided(seen, route, signal)
<1>1. /\ UNCHANGED <<mode, snap, cand, hyps, bank, passed>> /\ pc' = "top"
      /\ causal' = decided
      /\ \/ tree' \in {tree, {}}
         \/ route = "audit_bounded" /\ tree' = seen.best.tree
  BY DEF Settle, GoTo
<1>2. IsCausal(seen) /\ Keeps(seen, decided)
  BY DecidedKeeps DEF Keeps
<1> HIDE DEF decided
<1>3. CausalStep
  BY <1>1, <1>2, KeepsTransitive DEF CausalStep
<1>4. tree' \in Trees
  BY <1>1, <1>2, AuditNeedsCheckpoint DEF HarnessInv, HarnessTypeOK, Trees
<1>5. TreeStep
  BY <1>1, <1>4 DEF HarnessInv, HarnessTypeOK, TreeStep
<1>6. InTurn
  BY DEF Testing, InTurn
<1> QED BY <1>1, <1>3, <1>5, <1>6, GoesOn, JustNotes

\* What is accepted passed, and has no broken file.
LEMMA SettleAccepts ==
    ASSUME HarnessInv, Testing, mode.causal, NEW seen, Keeps(causal, seen), NEW delta, NEW signal,
           NEW blocking, Broken(tree) => ~PassLike(signal),
           Settle(seen, delta, signal, blocking),
           Decide(seen, delta, signal, blocking) = "accept"
    PROVE  HarnessInv' /\ HypothesesStep
<1> DEFINE decided == Decided(seen, "accept", signal)
           taken == [decided EXCEPT !.accepted = tree]
<1>1. /\ UNCHANGED <<mode, at, step, tree, snap, cand, hyps, bank, passed>> /\ pc' = "final"
      /\ causal' = Record(taken, "freeze")
  BY DEF Settle, Stop
<1>2. Keeps(seen, decided) /\ IsCausal(decided)
  BY DecidedKeeps DEF Keeps
<1> HIDE DEF decided
<1>3. IsCausal(taken) /\ taken.accepted = tree
  BY <1>2 DEF IsCausal, CausalFields
<1> HIDE DEF taken
<1>4. IsCausal(causal') /\ causal'.accepted = tree
  BY <1>1, <1>3, RecordKeeps DEF Keeps
<1>5. ~Broken(tree)
  BY AcceptedPasses
<1>6. at \in States(Machine) /\ ~IsFinalState(Machine, at)
  BY DEF HarnessInv, TurnInv, InTurn, Testing
<1>7. ~Announced'
  BY <1>1, <1>6, SameAnnounced DEF Announced
<1>8. HypothesesStep
  BY <1>1, SameHypotheses
<1>9. HarnessTypeOK' /\ HypothesesInv' /\ BankInv'
  BY <1>1, <1>4 DEF HarnessInv, HarnessTypeOK, HypothesesInv, BankInv, Backed
<1>10. TurnInv' /\ EndInv'
  BY <1>1, <1>7 DEF TurnInv, InTurn, EndInv
<1>11. AcceptedInv'
  BY <1>1, <1>4, <1>5 DEF AcceptedInv, Ended
<1> QED BY <1>8, <1>9, <1>10, <1>11 DEF HarnessInv

LEMMA CausalTestKeeps ==
    ASSUME HarnessInv, mode.causal, AutoTest PROVE HarnessInv' /\ HypothesesStep
<1>1. ~Plainly
  BY DEF Plainly
<1>2. /\ ~TestUnavailable /\ ~TestUncollected /\ ~TestUnrun
      /\ ~TestPasses /\ ~TestFailsSandboxed /\ ~TestFailsOversized
      /\ \A sig : ~TestFails(sig)
      /\ \A blocking : ~SourceTest(blocking)
  <2>1. ~TestUnavailable /\ ~TestUncollected /\ ~TestUnrun
    BY <1>1, Zenon DEF TestUnavailable, TestUncollected, TestUnrun, Inconclusive
  <2>2. ~TestPasses /\ ~TestFailsSandboxed /\ ~TestFailsOversized
    BY <1>1, Zenon DEF TestPasses, TestFailsSandboxed, TestFailsOversized, Tested
  <2>3. \A sig : ~TestFails(sig)
    BY <1>1, Zenon DEF TestFails, Tested
  <2>4. \A blocking : ~SourceTest(blocking)
    BY <1>1, Zenon DEF SourceTest
  <2> QED BY <2>1, <2>2, <2>3, <2>4
<1>3. ASSUME Testing, NEW seen, Keeps(causal, seen), NEW delta, NEW signal, NEW blocking,
             Broken(tree) => ~PassLike(signal), Settle(seen, delta, signal, blocking)
      PROVE  HarnessInv' /\ HypothesesStep
  <2>1. CASE Decide(seen, delta, signal, blocking) = "accept"
    BY <1>3, <2>1, SettleAccepts
  <2>2. CASE Decide(seen, delta, signal, blocking) # "accept"
    <3>1. Ordinary
      BY <1>3, <2>2, SettleElsewhereIsOrdinary
    <3> QED BY <3>1, OrdinaryKeepsInv DEF Ordinary
  <2> QED BY <2>1, <2>2
<1>4. IsCausal(causal) /\ tree \in Trees /\ Keeps(causal, causal)
  BY DEF HarnessInv, HarnessTypeOK, Keeps
<1>5. ASSUME NEW delta
      PROVE  Keeps(causal, AfterReproducer(delta)) /\ IsCausal(AfterReproducer(delta))
  BY <1>4, ReproducerRanKeeps DEF AfterReproducer, Keeps
<1>6. CASE \E delta \in Deltas \cup {"none"}, blocking \in BOOLEAN, signal \in Signals :
             CausalTest(delta, signal, blocking)
  <2>1. PICK delta \in Deltas \cup {"none"}, blocking \in BOOLEAN, signal \in Signals :
               CausalTest(delta, signal, blocking)
    BY <1>6
  <2> DEFINE seen == ScopeValidated(AfterReproducer(delta), tree, signal)
  <2>2. Keeps(causal, seen)
    BY <1>4, <1>5, ScopeValidatedKeeps, KeepsTransitive
  <2>3. Testing /\ (Broken(tree) => ~PassLike(signal)) /\ Settle(seen, delta, signal, blocking)
    BY <2>1 DEF CausalTest, CausalTesting
  <2> HIDE DEF seen
  <2> QED BY <2>2, <2>3, <1>3
<1>7. CASE \E delta \in Deltas \cup {"none"} : CausalTestUnscoped(delta)
  <2>1. PICK delta \in Deltas \cup {"none"} : CausalTestUnscoped(delta)
    BY <1>7
  <2> DEFINE seen == ScopeUnavailable(AfterReproducer(delta))
  <2>2. Keeps(causal, seen)
    BY <1>5, ScopeUnavailableKeeps, KeepsTransitive
  <2>3. Testing /\ Settle(seen, delta, "unavailable", FALSE) /\ ~PassLike("unavailable")
    BY <2>1 DEF CausalTestUnscoped, CausalTesting, PassLike
  <2> HIDE DEF seen
  <2> QED BY <2>2, <2>3, <1>3
<1> QED BY <1>2, <1>6, <1>7, Zenon DEF AutoTest

-----------------------------------------------------------------------------
(* The end.                                                                *)

\* The bank's best candidate is worth more than any patch that was not tested.
LEMMA WorthRestores ==
    ASSUME HarnessInv, Restorable(bank) # {}, Best(Restorable(bank)).score >= 120
    PROVE  FinalRestores(bank, Changed)
<1>1. Changed \in Trees
  BY SnapshotsAreTrees
<1>2. Best(Restorable(bank)).score \in Int
  BY BestIsBacked DEF HarnessInv, BankInv
<1>3. CASE Changed = {}
  BY <1>3 DEF FinalRestores
<1>4. CASE Changed # {}
  <2>1. ScoreCurrent(Changed) \in Int /\ ScoreCurrent(Changed) <= 100
    BY <1>1, <1>4, ScoresBounded
  <2> QED BY <1>2, <2>1 DEF FinalRestores
<1> QED BY <1>3, <1>4

LEMMA HandOverKeeps == ASSUME HarnessInv, HandOver PROVE HarnessInv' /\ HypothesesStep
<1> DEFINE banked == mode.bank /\ FinalRestores(bank, Changed)
           kept == IF banked THEN BestTree(bank) ELSE tree
           chosen == mode.causal /\ causal.accepted = NoTree
<1>1. /\ UNCHANGED <<mode, at, step, snap, cand, hyps, bank, passed>>
      /\ pc = "final" /\ pc' \in {"verify", "done"}
      /\ tree' = IF chosen THEN BestPatch(causal, kept) ELSE kept
      /\ causal' = IF chosen THEN Record(causal, "freeze") ELSE causal
  BY DEF HandOver, memory
<1>2. IsCausal(causal) /\ tree \in Trees /\ passed \subseteq Clean
  BY DEF HarnessInv, HarnessTypeOK
<1>3. banked => kept \in passed /\ kept \in Trees /\ ~Broken(kept) /\ ~mode.causal
  BY BestIsClean DEF FinalRestores
<1>4. kept \in Trees /\ (kept = tree \/ banked)
  BY <1>2, <1>3
<1> HIDE DEF kept
<1>5. IsCausal(causal') /\ causal'.accepted = causal.accepted /\ causal'.best = causal.best
  BY <1>1, <1>2, RecordKeeps DEF Keeps
<1>6. tree' \in Trees
  BY <1>1, <1>2, <1>4, BestPatchType
<1>7. HypothesesStep
  BY <1>1, SameHypotheses
<1>8. HarnessTypeOK' /\ HypothesesInv' /\ BankInv' /\ TurnInv'
  BY <1>1, <1>5, <1>6 DEF HarnessInv, HarnessTypeOK, HypothesesInv, BankInv, Backed, TurnInv, InTurn
<1>9. AcceptedInv'
  <2>1. ASSUME causal.accepted # NoTree PROVE mode.causal /\ tree = causal.accepted /\ ~Broken(tree)
    BY <2>1 DEF HarnessInv, AcceptedInv
  <2>2. ASSUME causal.accepted # NoTree PROVE tree' = tree
    BY <2>1, <2>2, <1>1, <1>3, <1>4
  <2> QED BY <1>1, <1>5, <2>1, <2>2 DEF AcceptedInv, Ended
<1>10. EndInv'
  <2>1. ASSUME Announced'
        PROVE  \/ ~Broken(tree')
               \/ mode'.causal /\ causal'.accepted = NoTree /\ tree' = causal'.best.tree
    <3>1. ~Broken(tree)
      BY <1>1, <2>1, SameAnnounced DEF HarnessInv, EndInv
    <3>2. ~Broken(kept)
      BY <3>1, <1>3, <1>4
    <3> QED BY <1>1, <1>2, <1>4, <1>5, <3>2, BestPatchType
  <2>2. ASSUME mode'.bank, Restorable(bank') # {}, Best(Restorable(bank')).score >= 120
        PROVE  tree' \in passed'
    <3>1. banked
      BY <1>1, <2>2, WorthRestores
    <3> QED BY <1>1, <1>3, <3>1
  <2>3. pc' # "final"
    BY <1>1
  <2> QED BY <2>1, <2>2, <2>3 DEF EndInv
<1> QED BY <1>7, <1>8, <1>9, <1>10 DEF HarnessInv

\* The last verification changes the report alone.
LEMMA VerifyKeeps ==
    ASSUME HarnessInv, pc = "verify", pc' = "done",
           UNCHANGED <<mode, at, step, work, hyps, bank, causal, passed>>
    PROVE  HarnessInv' /\ HypothesesStep
<1>1. UNCHANGED <<tree, snap, cand>>
  BY DEF work
<1>2. HypothesesStep
  BY SameHypotheses
<1>3. HarnessTypeOK' /\ HypothesesInv' /\ BankInv' /\ TurnInv' /\ AcceptedInv'
  BY <1>1 DEF HarnessInv, HarnessTypeOK, HypothesesInv, BankInv, Backed, TurnInv,
              InTurn, AcceptedInv, Ended
<1>4. EndInv'
  BY <1>1, SameAnnounced DEF HarnessInv, EndInv
<1> QED BY <1>2, <1>3, <1>4 DEF HarnessInv

LEMMA EndingKeeps == ASSUME HarnessInv, Ending PROVE HarnessInv' /\ HypothesesStep
<1>1. CASE HandOver
  BY <1>1, HandOverKeeps
<1>2. CASE VerifyInVain \/ \E p, blocking \in BOOLEAN : Verify(p, blocking)
  <2>1. /\ pc = "verify" /\ pc' = "done"
        /\ UNCHANGED <<mode, at, step, work, hyps, bank, causal, passed>>
    BY <1>2 DEF Verify, VerifyInVain, memory
  <2> QED BY <2>1, VerifyKeeps
<1> QED BY <1>1, <1>2 DEF Ending

-----------------------------------------------------------------------------
(* The theorems.                                                           *)

LEMMA InitHarness == ASSUME HarnessInit PROVE HarnessInv
<1>1. /\ mode \in Modes /\ pc = "top" /\ tree = {} /\ snap = NoTree /\ cand = NoTree
      /\ hyps = NoHypotheses /\ bank = EmptyBank /\ causal = NoCausal /\ passed = {}
  BY DEF HarnessInit, StartedAt
<1>2. /\ hyps \in Hypotheses /\ hyps.list = <<>> /\ hyps.active = 1
  BY <1>1 DEF NoHypotheses, Hypotheses
<1>3. IsInjective(<<>>)
  BY DEF IsInjective
<1>4. IsCausal(causal) /\ causal.accepted = NoTree
  <2>1. DOMAIN NoCausal = CausalFields /\ NoCausal.best = NoBest
    BY DEF NoCausal, CausalFields
  <2>2. NoCausal.accepted = NoTree
    BY DEF NoCausal, NoTree
  <2> QED BY <1>1, <2>1, <2>2 DEF IsCausal
<1>5. HarnessTypeOK
  BY <1>1, <1>2, <1>4 DEF HarnessTypeOK, Trees
<1>6. HypothesesInv /\ BankInv
  BY <1>1, <1>2, <1>3 DEF HypothesesInv, BankInv, IsBank, Backed, EmptyBank
<1>7. TurnInv /\ AcceptedInv /\ EndInv
  BY <1>1, <1>4 DEF TurnInv, InTurn, AcceptedInv, EndInv
<1> QED BY <1>5, <1>6, <1>7 DEF HarnessInv

LEMMA HarnessStep == ASSUME HarnessInv, HarnessNext PROVE HarnessInv' /\ HypothesesStep
<1>1. CASE Ordinary
  BY <1>1, OrdinaryKeepsInv DEF Ordinary
<1>2. CASE AutoTest
  BY <1>1, <1>2, CausalTestKeeps, PlainTestIsOrdinary
<1>3. CASE Ending
  BY <1>3, EndingKeeps
<1> QED BY <1>1, <1>2, <1>3, TopOfLoopIsOrdinary, AnsweringIsOrdinary, CallIsOrdinary,
           AfterCallsIsOrdinary, MoveNowhereIsOrdinary, MoveFailIsOrdinary, MoveIsOrdinary
    DEF HarnessNext

LEMMA HarnessStutter ==
    ASSUME HarnessInv, UNCHANGED harnessVars PROVE HarnessInv'
<1>1. UNCHANGED <<mode, pc, at, step, tree, snap, cand, hyps, bank, causal, passed>>
  BY DEF harnessVars, place, work, memory, records
<1>2. HarnessTypeOK' /\ HypothesesInv' /\ BankInv' /\ AcceptedInv'
  BY <1>1 DEF HarnessInv, HarnessTypeOK, HypothesesInv, BankInv, Backed, AcceptedInv, Ended
<1>3. TurnInv'
  BY <1>1 DEF HarnessInv, TurnInv, InTurn, Machine
<1>4. EndInv'
  BY <1>1, SameAnnounced DEF HarnessInv, EndInv
<1> QED BY <1>2, <1>3, <1>4 DEF HarnessInv

\* The invariant of the loop: what the run's limits, the machine it is in and the order
\* of its steps leave possible (main.rs, 'agent_loop).
THEOREM HarnessInvariant == HarnessSpec => []HarnessInv
<1>1. HarnessInit => HarnessInv
  BY InitHarness
<1>2. HarnessInv /\ [HarnessNext]_harnessVars => HarnessInv'
  BY HarnessStep, HarnessStutter
<1> QED BY <1>1, <1>2, PTL DEF HarnessSpec

\* A run that announced its completion or accepted a candidate hands over files that
\* parse, its best checkpoint excepted (main.rs, pre_completion_python_syntax_guard).
THEOREM CompletionIsClean == HarnessSpec => []CompletedIsClean
<1>1. HarnessInv => CompletedIsClean
  BY DEF HarnessInv, AcceptedInv, EndInv, CompletedIsClean
<1> QED BY <1>1, HarnessInvariant, PTL

\* A run hands over what it accepted, or a tree that passed the trusted scope, when its
\* bank holds one that is worth more than any untested patch (restore_best_before_final).
THEOREM BestIsHandedOver == HarnessSpec => []BestTreeHandedOver
<1>1. HarnessInv => BestTreeHandedOver
  BY DEF HarnessInv, AcceptedInv, EndInv, BestTreeHandedOver
<1> QED BY <1>1, HarnessInvariant, PTL

\* A hypothesis that was given up is never active again, and no file is proposed twice
\* (promote_patch_hypothesis_path).
THEOREM HypothesesGiveUpForGood == HarnessSpec => GivenUpStaysGivenUp
<1> DEFINE Kept == /\ at # "localizing" =>
                        /\ hyps'.active >= hyps.active
                        /\ \A i \in 1 .. hyps.active - 1 : hyps'.list[i] = hyps.list[i]
                   /\ IsInjective(hyps'.list)
<1>1. HarnessInv /\ [HarnessNext]_harnessVars => [Kept]_harnessVars
  BY HarnessStep DEF HypothesesStep
<1> HIDE DEF Kept
<1>2. HarnessSpec => [][Kept]_harnessVars
  BY <1>1, HarnessInvariant, PTL DEF HarnessSpec
<1> QED BY <1>2 DEF Kept, GivenUpStaysGivenUp

=============================================================================
