------------------------------ MODULE HarnessRun -----------------------------
(***************************************************************************)
(* The rest of a turn of the command line's loop: the tests that run by    *)
(* themselves after an edit, the escalation when nothing moves, the        *)
(* transition the answer asks for, and what is handed over at the end.     *)
(***************************************************************************)
EXTENDS HarnessCalls

CONSTANTS
    Signatures,     \* what failing test outputs are told apart by
    Signals,        \* the results of a scope that occur
    Deltas          \* the results of a reproducer that occur

ASSUME OutcomeAssumption ==
    /\ Signals \subseteq {"regression_pass", "task_improved", "structural_pass",
                          "regression_failure", "structural_failure", "unavailable",
                          "inconclusive"}
    /\ Deltas \subseteq {"fixed", "changed", "unchanged", "regressed", "invalid", "unavailable"}

Testing == pc = "edited"
Resume == pc' = "calls" /\ UNCHANGED <<at, inState, turn>>

Banked(b) == IF mode.bank THEN b ELSE bank

-----------------------------------------------------------------------------
(* After an edit, in causal mode.                                          *)

Routed(route) ==
    CASE route = "acquire" -> TaskEvidenceState(Machine)
      [] route \in {"audit_changed", "audit_regression", "audit_bounded"}
           -> TrustedPassState(Machine)
      [] route = "reset" -> IF "hypothesizing" \in States(Machine) THEN "hypothesizing"
                            ELSE FailureTriageState(Machine)
      [] OTHER -> FailureTriageState(Machine)

\* The reproducer runs if one is qualified.
AfterReproducer(delta) ==
    IF causal.qualified THEN ReproducerRan(causal, tree, delta) ELSE causal

CausalTesting(delta) == Testing /\ mode.causal /\ (causal.qualified \/ delta = "none")

\* The serial policy decides where the candidate goes.
Settle(seen, delta, signal, blocking) ==
    LET route == Decide(seen, delta, signal, blocking)
        decided == Decided(seen, route, signal)
    IN /\ causal' = IF route = "accept"
                    THEN Record([decided EXCEPT !.accepted = tree], "freeze") ELSE decided
       /\ tree' = CASE route = "audit_bounded" -> seen.best.tree
                    [] route = "reset" -> {}
                    [] OTHER -> tree
       /\ cache' = IF route = "reset" THEN NoCache ELSE cache
       /\ blocked' = IF route = "reset" THEN blocked \cup {turn.edit} ELSE blocked
       /\ IF route = "accept" THEN Stop ELSE GoTo(Routed(route))
       /\ UNCHANGED <<mode, step, snap, cand, hyps, tally, mind, bank, passed, report>>

\* A scope derived from the sources is tested, if there is one.
CausalTest(delta, signal, blocking) ==
    /\ CausalTesting(delta)
    /\ Broken(tree) => ~PassLike(signal)
    /\ Settle(ScopeValidated(AfterReproducer(delta), tree, signal), delta, signal, blocking)

CausalTestUnscoped(delta) ==
    /\ CausalTesting(delta)
    /\ Settle(ScopeUnavailable(AfterReproducer(delta)), delta, "unavailable", FALSE)

-----------------------------------------------------------------------------
(* After an edit, otherwise.                                               *)

Plainly == Testing /\ ~mode.causal

\* Where the tests at hand may not complete the task, or there are none, those of
\* the edited sources go first.
SourceTest(blocking) ==
    /\ Plainly
    /\ mode.scope # "trusted"
    /\ Broken(tree) => blocking
    /\ \/ /\ blocking
          /\ tally' = [tally EXCEPT !.edit = @ + 1]
          /\ Resume
          /\ UNCHANGED bank
       \/ /\ ~blocking
          /\ bank' = Banked(RecordPass(bank, tree, Changed, "source", TRUE))
          /\ GoTo(UnavailableState(Machine, mode.child))
          /\ UNCHANGED tally
    /\ UNCHANGED <<mode, step, work, cache, hyps, blocked, mind, causal, passed, report>>

Inconclusive(target) ==
    /\ Plainly
    /\ GoTo(target)
    /\ UNCHANGED <<mode, step, work, memory, records>>

\* No scope, no environment, or no trust in the scope.
TestUnavailable == Inconclusive(UnavailableState(Machine, mode.child))

\* A collection failure elsewhere.
TestUncollected ==
    Inconclusive(IF mode.scope = "feedback" THEN UnavailableState(Machine, mode.child)
                 ELSE FailureTriageState(Machine))

\* No result, no test, or nothing that changed.
TestUnrun == Inconclusive(UnavailableState(Machine, mode.child))

Tested == Plainly /\ Changed # {}

TestPasses ==
    /\ Tested
    /\ ~Broken(tree)
    /\ IF mode.scope = "trusted"
       THEN /\ bank' = Banked(RecordPass(bank, tree, Changed, "edit", FALSE))
            /\ passed' = passed \cup {tree}
            /\ tally' = [tally EXCEPT !.sig = "none", !.same = 0, !.diag = FALSE]
            /\ blocked' = {}
            /\ GoTo(IF "completion_audit" \in States(Machine) THEN TrustedPassState(Machine)
                    ELSE "completed")
       ELSE /\ bank' = Banked(RecordPass(bank, tree, Changed, "edit", TRUE))
            /\ GoTo(UnavailableState(Machine, mode.child))
            /\ UNCHANGED <<passed, tally, blocked>>
    /\ UNCHANGED <<mode, step, work, cache, hyps, mind, causal, report>>

\* update_reanchor_quarantine_for_paths
ToxicFiles ==
    IF Limit["toxic"] = 0 \/ ~(Broken(tree) \/ Oversized(Changed)) THEN {}
    ELSE {FileOf[e] : e \in Changed} \cap BestFiles
NewlyToxic == {f \in ToxicFiles : tally.toxic[f] + 1 = Limit["toxic"]}
OversizedFiles == {FileOf[e] : e \in {x \in Changed : KindOf[x] = "oversized"}}

Restored(t) ==
    LET oversize == [f \in Files |-> IF f \in OversizedFiles THEN t.oversize[f] + 1
                                     ELSE t.oversize[f]]
    IN [t EXCEPT !.toxic = [f \in Files |-> IF f \in ToxicFiles THEN @[f] + 1 ELSE @[f]],
                 !.oversize = oversize,
                 !.recovery = @ \cup {f \in OversizedFiles : oversize[f] >= Limit["oversize"]}]

\* The edit is taken back and may not be made again; a file that is poison to the
\* bank's best candidate costs the hypothesis.
Discard(restored, kept) ==
    /\ tree' = restored
    /\ blocked' = blocked \cup {turn.edit}
    /\ LET switches == NewlyToxic # {} /\ Tournament
       IN \/ /\ switches /\ HasNext
             /\ cache' = NoCache
             /\ hyps' = NextHypothesis
             /\ tally' = FreshAttempt(Restored(tally))
             /\ GoTo(ReplanState(Machine))
          \/ /\ switches => ~HasNext
             /\ cache' = kept
             /\ hyps' = IF switches THEN Exhausted ELSE hyps
             /\ tally' = [Restored(tally) EXCEPT !.edit = @ + 1]
             /\ Resume
    /\ UNCHANGED <<mode, step, snap, cand, mind, records>>

Sandboxed == mode.sandbox /\ (Oversized(Changed) \/ TouchesTests(Changed) \/ Broken(tree))

TestFailsSandboxed ==
    /\ Tested
    /\ Sandboxed
    /\ Discard(CandTree, Reread(cache))

\* Without a sandbox an oversized patch costs everything since the snapshot.
TestFailsOversized ==
    /\ Tested
    /\ ~Sandboxed /\ Oversized(Changed)
    /\ Discard(SnapTree, Reopened(cache))

\* The failure is counted while it stays the same.
TestFails(sig) ==
    /\ Tested
    /\ ~Sandboxed /\ ~Oversized(Changed)
    /\ LET same == IF tally.sig = sig THEN tally.same + 1 ELSE 1
           hard == same >= Limit["plateau"]
           t == [tally EXCEPT !.sig = sig, !.same = same, !.diag = @ \/ hard]
       IN /\ bank' = IF mode.scope = "feedback" THEN bank
                     ELSE Banked(RecordFailed(bank, tree, Changed, "edit", sig, same))
          /\ \/ /\ ~(hard /\ mode.sandbox)
                /\ tally' = [t EXCEPT !.edit = @ + 1]
                /\ Resume
                /\ UNCHANGED <<tree, cache, hyps, blocked>>
             \/ /\ hard /\ mode.sandbox
                /\ tree' = CandTree
                /\ blocked' = blocked \cup {turn.edit}
                /\ tally' = FreshAttempt(t)
                /\ IF Tournament /\ HasNext
                   THEN /\ cache' = NoCache
                        /\ hyps' = NextHypothesis
                        /\ GoTo(ReplanState(Machine))
                   ELSE /\ cache' = Reread(cache)
                        /\ hyps' = IF Tournament THEN Exhausted ELSE hyps
                        /\ GoTo(IF "failure_triage" \in States(Machine) THEN "failure_triage"
                                ELSE ReplanState(Machine))
    /\ UNCHANGED <<mode, step, snap, cand, mind, causal, passed, report>>

-----------------------------------------------------------------------------
(* After the calls of a turn.                                              *)

\* A look at the files answers what the plateau and the oversized edits asked for.
Noted(t) ==
    IF ~turn.looked THEN t
    ELSE [t EXCEPT !.diag = FALSE, !.same = IF @ > 0 THEN @ - 1 ELSE 0, !.recovery = {}]

Counted ==
    LET t == Noted(tally)
    IN IF Implementing /\ ~turn.wrote /\ ~turn.gate THEN [t EXCEPT !.edit = @ + 1] ELSE t

\* Another way of asking, then another model and a fresh start, then both.
Escalate(t, h) ==
    /\ hyps' = h
    /\ tally' = t
    /\ pc' = "move" /\ UNCHANGED <<at, inState>>
    /\ LET thinks == ~mind.reasoning /\ ~mind.escalated /\ t.edit >= Limit["think"]
           escalates == ~mind.escalated /\ ~thinks /\ t.edit >= Limit["escalate"]
           last == mind.escalated /\ ~mind.reasoning /\ t.edit >= Limit["last"]
       IN \/ /\ Implementing /\ (thinks \/ last)
             /\ mind' = [mind EXCEPT !.reasoning = TRUE]
             /\ UNCHANGED <<tree, cache>>
          \/ /\ Implementing /\ escalates
             /\ mind' = [reasoning |-> FALSE, escalated |-> TRUE]
             /\ tree' = IF mode.causal THEN tree ELSE SnapTree
             /\ cache' = Unknown(cache)
          \/ /\ ~(Implementing /\ (thinks \/ escalates \/ last))
             /\ UNCHANGED <<mind, tree, cache>>
    /\ UNCHANGED <<mode, step, snap, cand, blocked, turn, records>>

Stalled(t) == Implementing /\ Tournament /\ t.edit >= Limit["stall"]

AfterCalls ==
    /\ pc = "calls" /\ turn.left = 0
    /\ LET t == Counted
           stops == t.edit >= Limit["early"] /\ EarlyStop
       IN \/ ~Stalled(t) /\ Escalate(t, hyps)
          \/ /\ Stalled(t) /\ stops
             /\ StopWithBest
             /\ tally' = t
          \/ /\ Stalled(t) /\ ~stops /\ HasNext
             /\ StartNext
             /\ blocked' = {}
             /\ tally' = [FreshAttempt(t) EXCEPT !.parse = 0]
          \/ /\ Stalled(t) /\ ~stops /\ ~HasNext
             /\ Escalate(t, Exhausted)

-----------------------------------------------------------------------------
(* The transition.                                                         *)

Moving == pc = "move"

MoveNowhere ==
    /\ Moving
    /\ turn.event \notin Events
    /\ Back
    /\ UNCHANGED <<mode, step, work, memory, records>>

DeclinesEvidence == mode.causal /\ at = "task_evidence_acquisition"

\* FAIL: the evidence is declined; or another model starts again; or, in causal mode,
\* the next hypothesis does; or the run fails.
MoveFail ==
    /\ Moving
    /\ turn.event = "FAIL"
    /\ \/ /\ DeclinesEvidence
          /\ Triage
          /\ UNCHANGED <<work, memory>>
       \/ /\ ~DeclinesEvidence /\ ~mode.causal /\ ~mind.escalated
          /\ tally' = [tally EXCEPT !.edit = 4]
          /\ mind' = [reasoning |-> FALSE, escalated |-> TRUE]
          /\ tree' = SnapTree
          /\ cache' = [cache EXCEPT !.modified = {}]
          /\ Back
          /\ UNCHANGED <<snap, cand, hyps, blocked>>
       \/ /\ ~DeclinesEvidence /\ mode.causal /\ ~hyps.exhausted /\ HasNext
          /\ tree' = SnapTree
          /\ cache' = NoCache
          /\ hyps' = NextHypothesis
          /\ tally' = FreshAttempt(tally)
          /\ GoTo(ReplanState(Machine))
          /\ UNCHANGED <<snap, cand, blocked, mind>>
       \/ /\ ~DeclinesEvidence
          /\ IF mode.causal THEN hyps.exhausted \/ ~HasNext ELSE mind.escalated
          /\ GoTo("failed")
          /\ UNCHANGED <<work, memory>>
    /\ UNCHANGED <<mode, step, records>>

\* A state is left with a patch of a decent size, or not at all.  The snapshot is
\* taken on the way into an implementation state.
Move ==
    /\ Moving
    /\ turn.event \in Events \ {"FAIL"}
    /\ LET target == On(Machine, at)[turn.event]
           base == IF IsImplementation(target) THEN tree ELSE snap
           diff == Differs(tree, base)
       IN /\ \/ /\ Implementing /\ (diff = {} \/ Oversized(diff))
                /\ tree' = IF diff = {} \/ base = NoTree THEN tree ELSE base
                /\ causal' = IF mode.causal /\ diff # {} THEN Record(causal, "structural_failure")
                             ELSE causal
                /\ pc' = "top" /\ inState' = inState + 1 /\ turn' = NoTurn
                /\ UNCHANGED <<at, cache>>
             \/ /\ ~(Implementing /\ (diff = {} \/ Oversized(diff)))
                /\ GoTo(target)
                /\ cache' = Unknown(cache)
                /\ UNCHANGED <<tree, causal>>
          /\ snap' = base
    /\ UNCHANGED <<mode, step, cand, hyps, tally, blocked, mind, bank, passed, report>>

-----------------------------------------------------------------------------
(* The end.                                                                *)

\* The bank's best candidate, then the best checkpoint, unless one was accepted.
HandOver ==
    /\ pc = "final"
    /\ LET banked == mode.bank /\ FinalRestores(bank, Changed)
           kept == IF banked THEN BestTree(bank) ELSE tree
           chosen == mode.causal /\ causal.accepted = NoTree
       IN /\ tree' = IF chosen THEN BestPatch(causal, kept) ELSE kept
          /\ causal' = IF chosen THEN Record(causal, "freeze") ELSE causal
          /\ report' = IF banked THEN "none" ELSE report
          /\ pc' = IF mode.causal THEN "done" ELSE "verify"
    /\ UNCHANGED <<mode, at, inState, step, snap, cand, memory, turn, bank, passed>>

\* The tests one last time: of the selected candidate's scope, or of the run's.
Verify(passes, blocking) ==
    /\ pc = "verify"
    /\ Broken(tree) => ~passes
    /\ report' = CASE tree = {} -> "fail"
                   [] tree # {} /\ blocking -> "fail"
                   [] tree # {} /\ ~blocking /\ (report = "selected" \/ mode.scope = "trusted")
                        -> IF passes THEN "pass" ELSE "fail"
                   [] tree # {} /\ ~blocking /\ report # "selected" /\ mode.scope = "feedback"
                        /\ Broken(tree) -> "fail"
                   [] OTHER -> "unavailable"
    /\ pc' = "done"
    /\ UNCHANGED <<mode, at, inState, step, work, memory, turn, bank, causal, passed>>

\* The run's tests could not be run.
VerifyInVain ==
    /\ pc = "verify"
    /\ tree # {}
    /\ report' = "unavailable"
    /\ pc' = "done"
    /\ UNCHANGED <<mode, at, inState, step, work, memory, turn, bank, causal, passed>>

-----------------------------------------------------------------------------
(* A run.                                                                  *)

TopOfLoop ==
    \/ GiveUp
    \/ \E blocks \in BOOLEAN : Arrive(blocks)
    \/ SpendHypothesis
    \/ Localize
    \/ \E found \in Trees : FanOut(found)
    \/ ValidateUnscoped \/ ValidateUncollected \/ ValidateUnrun
    \/ \E s \in Signals : ValidateCausally(s)
    \/ ValidatePasses \/ ValidateFails
    \/ EvidenceTimeout
    \/ HardLimit
    \/ Ask

Answering ==
    \/ WireError
    \/ AnswerLost
    \/ \E n \in 0 .. CallsPerTurn, ev \in Events \cup {"none"} : Answer(n, ev)
    \/ \E e \in Edits, ev \in Events \cup {"none"} : FileBlock(e, ev)
    \/ FileBlockRefused
    \/ \E e \in Edits : TruncatedWrite(e)
    \/ \E worth \in BOOLEAN : Unreadable(worth)

Call ==
    \/ \E ev \in Events \cup {"none"} : CallIgnored(ev) \/ CallTransition(ev)
    \/ \E f \in Files : Read(f)
    \/ \E q \in BOOLEAN, d \in Deltas : WriteReproducer(q, d)
    \/ \E d \in Deltas : RunReproducer(d)
    \/ \E refresh, switch \in BOOLEAN : BadPath(refresh, switch)
    \/ \E e \in Edits :
        \/ WriteUnguarded(e)
        \/ EditRefused(e)
        \/ EditDrifts(e)
        \/ EditOutside(e)
        \/ EditTooEarly(e)
        \/ EditGated(e)
        \/ EditFails(e)
        \/ EditUnchanged(e)
        \/ EditRejected(e)
        \/ EditLands(e)

AutoTest ==
    \/ \E d \in Deltas \cup {"none"}, blocking \in BOOLEAN, s \in Signals : CausalTest(d, s, blocking)
    \/ \E d \in Deltas \cup {"none"} : CausalTestUnscoped(d)
    \/ \E blocking \in BOOLEAN : SourceTest(blocking)
    \/ TestUnavailable \/ TestUncollected \/ TestUnrun
    \/ TestPasses
    \/ TestFailsSandboxed
    \/ TestFailsOversized
    \/ \E sig \in Signatures : TestFails(sig)

Ending ==
    \/ HandOver
    \/ \E p, blocking \in BOOLEAN : Verify(p, blocking)
    \/ VerifyInVain

HarnessNext ==
    \/ TopOfLoop
    \/ Answering
    \/ Call
    \/ AutoTest
    \/ AfterCalls
    \/ MoveNowhere \/ MoveFail \/ Move
    \/ Ending

\* Every step is a step of the one thread of the loop: a program that is not
\* stopped goes on, and every call to a model or a test ends, by its timeout.
HarnessFairness == WF_harnessVars(HarnessNext)

HarnessSpec == HarnessInit /\ [][HarnessNext]_harnessVars /\ HarnessFairness

=============================================================================
