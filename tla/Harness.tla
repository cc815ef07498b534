------------------------------- MODULE Harness -------------------------------
(***************************************************************************)
(* One run of the command line's agent loop (cli/src/main.rs) on a working  *)
(* tree: the state it is in, the tree and its snapshots, what the loop      *)
(* remembers of what the model read, tried and failed, and the steps of the *)
(* loop that need no tool call.  HarnessCalls adds the calls.               *)
(*                                                                         *)
(* A tree is the set of edits it carries; the files as the run found them   *)
(* are the empty set.  The model behind the loop may answer anything: its   *)
(* answers are chosen by \E.  Tests, and the task's reproducer, depend on   *)
(* the tree only in that they do not pass on one with a broken file.        *)
(***************************************************************************)
EXTENDS Machines, CandidateBank, CausalControl, Sequences

CONSTANTS
    GeneratedMachine,   \* a machine generate_machine may come up with
    Files,
    FileOf,         \* [Edits -> Files]
    Wordy,          \* the edits whose text has "error", "not found" or "BLOCKED" in it
    Modes,          \* the configurations a run may be started in; see Mode
    Grace,          \* 5: what the endgame may take beyond the steps asked for
    Limit,          \* the thresholds; see LimitAssumption
    CallsPerTurn,
    MaxReads        \* reads of a behaviour (bound)

Thresholds == {"parse", "stall", "off", "path", "hypothesis", "wire", "locus", "plateau",
               "oversize", "toxic", "early", "think", "escalate", "last"}

ASSUME LimitAssumption ==
    /\ Limit \in [Thresholds -> Nat]
    /\ \A t \in Thresholds \ {"hypothesis", "toxic"} : Limit[t] > 0
    /\ Grace \in Nat /\ MaxReads \in Nat
    /\ CallsPerTurn \in Nat \ {0}
    /\ FileOf \in [Edits -> Files] /\ Wordy \subseteq Edits

VARIABLES
    mode,       \* one of Modes
    pc,         \* where the loop is
    at,         \* current_state
    step,       \* model calls so far
    inState,    \* steps_in_current_state
    tree,       \* the working tree
    snap,       \* SNAPSHOTS: the tree to compare with and to restore
    cand,       \* CANDIDATE_SNAPSHOTS: the tree before the last write
    cache,      \* read_cache, read_paths, modified_files, observation_cache
    hyps,       \* the patch hypotheses: files, best first
    tally,      \* the consecutive-failure counters
    blocked,    \* blocked_repeated_edit_fingerprints
    mind,       \* which model is asked: reasoning_mode, escalated_model
    turn,       \* the answer being worked on
    bank,       \* the candidate bank
    causal,     \* the causal controller, checkpoints and policy
    passed,     \* history: trees that passed a scope that can complete the task
    report      \* the final verification; "selected" while a fan-out's patch is handed on

place == <<pc, at, inState>>
work == <<tree, snap, cand>>
memory == <<cache, hyps, tally, blocked, mind>>
records == <<bank, causal, passed, report>>
harnessVars == <<mode, place, step, work, memory, turn, records>>

NoTree == {"no snapshot"}
Trees == SUBSET Edits

\* The arguments and environment a run is started with: steps is max_steps, asked the
\* argument a configuration's max_steps takes the place of, variant names the machine,
\* scope the test scope of the environment and what it may decide, hypotheses the
\* files localization ranks, bank and early the candidate bank and its early stop,
\* strict the guards on test files and on edits outside what localization found.
Mode == [steps : Nat, asked : Nat, causal : BOOLEAN, variant : {"speed", "legacy", "structured", "control", "generated"},
         sandbox : BOOLEAN, tournament : BOOLEAN, reset : BOOLEAN, native : BOOLEAN,
         child : BOOLEAN, strict : BOOLEAN, scope : {"none", "feedback", "trusted"}, bank : BOOLEAN,
         early : BOOLEAN, hypotheses : Seq(Files)]

\* A file is ranked once (ProblemShape: by_path).
ASSUME ModeAssumption ==
    \A m \in Modes : m \in Mode /\ IsInjective(m.hypotheses)

\* The causal mode has the structured machine whatever the variant.
Machine ==
    IF mode.variant = "control" THEN ControlFlatMachine
    ELSE IF mode.causal THEN StructuredMachine
    ELSE IF mode.variant = "generated" THEN GeneratedMachine
    ELSE VariantMachine(mode.variant)

FileIn(t, f) == {e \in t : FileOf[e] = f}
Broken(t) == \E e \in t : KindOf[e] = "broken"
Oversized(t) == \E e \in t : KindOf[e] = "oversized"

\* all_diff_stats: against the last snapshot, nothing before there is one.
Differs(t, s) == IF s = NoTree THEN {} ELSE (t \ s) \cup (s \ t)
Changed == Differs(tree, snap)

-----------------------------------------------------------------------------
(* What a restore forgets.                                                 *)

NoCache == [modified |-> {}, known |-> {}, read |-> {}, seen |-> {}]

Reopened(c) == [c EXCEPT !.modified = {}, !.read = {}]
Reread(c) == [c EXCEPT !.modified = {}, !.read = {}, !.seen = {}]
Unknown(c) == [c EXCEPT !.modified = {}, !.read = {}, !.known = {}]

Quiet == [edit |-> 0, off |-> 0, path |-> 0, parse |-> 0, wire |-> 0, same |-> 0,
          sig |-> "none", diag |-> FALSE, refreshed |-> FALSE, locus |-> 0,
          oversize |-> [f \in Files |-> 0], recovery |-> {}, toxic |-> [f \in Files |-> 0],
          reads |-> 0]

\* What an attempt that is given up leaves behind of its counters.
FreshAttempt(t) ==
    [t EXCEPT !.same = 0, !.diag = FALSE, !.edit = 0, !.off = 0, !.path = 0]

NoTurn == [left |-> 0, event |-> "none", wrote |-> FALSE, gate |-> FALSE, looked |-> FALSE,
           edit |-> "none"]

SnapTree == IF snap = NoTree THEN tree ELSE snap
CandTree == IF cand = NoTree THEN tree ELSE cand

Active == hyps.list[hyps.active]
Tournament == mode.tournament /\ ~hyps.exhausted /\ hyps.list # <<>>

NoHypotheses ==
    [list |-> <<>>, found |-> {}, active |-> 1, steps |-> 0, exhausted |-> FALSE, repaired |-> 0]

\* What localization comes up with: the files it found are hypotheses in a tournament.
Ranked ==
    LET list == IF mode.tournament THEN mode.hypotheses ELSE <<>>
    IN [NoHypotheses EXCEPT !.list = list, !.exhausted = list = <<>>,
            !.found = {mode.hypotheses[i] : i \in DOMAIN mode.hypotheses}]

\* advance_patch_hypothesis
HasNext == hyps.active < Len(hyps.list)
NextHypothesis == [hyps EXCEPT !.active = @ + 1, !.steps = 0]
Exhausted == [hyps EXCEPT !.exhausted = TRUE]

\* Where the loop goes on.  An answer is forgotten when the loop is left or begins anew.
GoTo(s) == pc' = "top" /\ at' = s /\ inState' = 0 /\ turn' = NoTurn
Back == pc' = "top" /\ turn' = NoTurn /\ UNCHANGED <<at, inState>>
Stop == pc' = "final" /\ turn' = NoTurn /\ UNCHANGED <<at, inState>>
Stay == UNCHANGED <<place, turn>>

-----------------------------------------------------------------------------

\* A run that has come to state s without an edit: the snapshot it took on the way,
\* the hypotheses it has and what the causal mode noted.
StartedAt(s, snapshot, hypotheses, noted) ==
    /\ pc = "top" /\ at = s /\ step = 0 /\ inState = 0
    /\ tree = {} /\ snap = snapshot /\ cand = NoTree
    /\ cache = NoCache
    /\ hyps = hypotheses
    /\ tally = Quiet
    /\ blocked = {}
    /\ mind = [reasoning |-> FALSE, escalated |-> FALSE]
    /\ turn = NoTurn
    /\ bank = EmptyBank
    /\ causal = noted
    /\ passed = {}
    /\ report = "none"

HarnessInit ==
    /\ mode \in Modes
    /\ StartedAt(Machine.initial, NoTree, NoHypotheses, NoCausal)

-----------------------------------------------------------------------------
(* The head of the loop, until the model is asked.                         *)

OverBudget == (step > mode.steps /\ ~IsEndgame(at)) \/ step > mode.asked + Grace

Looping == pc = "top" /\ ~OverBudget /\ at \in States(Machine)
Running == Looping /\ ~IsFinalState(Machine, at)

GiveUp ==
    /\ pc = "top"
    /\ OverBudget \/ at \notin States(Machine)
    /\ Stop
    /\ UNCHANGED <<mode, step, work, memory, records>>

\* Mutant: the syntax guard is missing.
ArriveUnchecked(repairBlocks) ==
    /\ Looping
    /\ IsFinalState(Machine, at)
    /\ IF at = "completed" /\ repairBlocks /\ tree # {}
       THEN GoTo(FailureTriageState(Machine))
       ELSE Stop
    /\ UNCHANGED <<mode, step, work, memory, records>>

\* A final state: "completed" is left again while a file does not parse, or when
\* the tests derived from the changed sources fail.
Arrive(repairBlocks) ==
    /\ Looping
    /\ IsFinalState(Machine, at)
    /\ IF at = "completed" /\ (Broken(tree) \/ (repairBlocks /\ tree # {}))
       THEN GoTo(FailureTriageState(Machine))
       ELSE Stop
    /\ UNCHANGED <<mode, step, work, memory, records>>

HypothesisDue ==
    /\ mode.reset /\ Tournament
    /\ IsImplementation(at)
    /\ Limit["hypothesis"] > 0 /\ hyps.steps >= Limit["hypothesis"]

EarlyStop == mode.bank /\ mode.early /\ StagnationRestores(bank)

\* Stagnation ends the run with the best candidate.
StopWithBest ==
    /\ tree' = BestTree(bank)
    /\ cache' = NoCache
    /\ Stop
    /\ UNCHANGED <<mode, step, snap, cand, hyps, blocked, mind, records>>

\* The next hypothesis starts from the snapshot.
StartNext ==
    /\ tree' = SnapTree
    /\ cache' = NoCache
    /\ hyps' = NextHypothesis
    /\ GoTo(ReplanState(Machine))
    /\ UNCHANGED <<mode, step, snap, cand, mind, records>>

SpendHypothesis ==
    /\ Running
    /\ HypothesisDue
    /\ \/ EarlyStop /\ StopWithBest /\ UNCHANGED tally
       \/ /\ ~EarlyStop /\ HasNext
          /\ StartNext
          /\ blocked' = {}
          /\ tally' = [FreshAttempt(tally) EXCEPT !.parse = 0]
       \/ /\ ~EarlyStop /\ ~HasNext
          /\ hyps' = [Exhausted EXCEPT !.steps = 0]
          /\ Stay
          /\ UNCHANGED <<mode, step, work, cache, tally, blocked, mind, records>>

Entering == Running /\ ~HypothesisDue /\ inState = 0

Localizing ==
    /\ Entering
    /\ at = "localizing"
    /\ hyps' = [Ranked EXCEPT !.steps = IF hyps.active = 1 THEN hyps.steps ELSE 0]
    /\ tally' = [tally EXCEPT !.off = 0]
    /\ causal' = IF mode.causal THEN Record(causal, "mapped") ELSE causal
    /\ UNCHANGED <<mode, step, snap, cand, blocked, mind, bank, passed>>

\* The program ranks files without a model (see Localization).
Localize ==
    /\ Localizing
    /\ GoTo(LocalizedNext(Machine))
    /\ UNCHANGED <<tree, cache, report>>

\* A fan-out found a patch, and nothing is left to do.
FanOut(found) ==
    /\ Localizing
    /\ ~mode.causal /\ ~mode.child
    /\ ~Broken(found)
    /\ tree' = found
    /\ cache' = NoCache
    /\ report' = "selected"
    /\ Stop

-----------------------------------------------------------------------------
(* A validation state runs the tests by itself.                            *)

Validating == Entering /\ IsValidation(at)

Unvalidated(target) ==
    /\ Validating
    /\ GoTo(target)
    /\ causal' = IF mode.causal THEN ScopeUnavailable(causal) ELSE causal
    /\ UNCHANGED <<mode, step, work, memory, bank, passed, report>>

\* There is no scope.
ValidateUnscoped ==
    mode.scope = "none" /\ Unvalidated(UnavailableState(Machine, mode.child))

\* A collection failure that the patch did not cause.
ValidateUncollected ==
    mode.scope # "none" /\ Unvalidated(UnavailableState(Machine, mode.child))

\* The runner gave no result.
ValidateUnrun == mode.scope # "none" /\ Unvalidated(FailureTriageState(Machine))

\* In causal mode the result is one more observation, and a candidate for the bank.
ValidateCausally(signal) ==
    /\ Validating
    /\ mode.causal /\ mode.scope # "none"
    /\ Broken(tree) => ~PassLike(signal)
    /\ causal' = ScopeValidated(causal, tree, signal)
    /\ bank' = IF ~mode.bank THEN bank
               ELSE IF PassLike(signal) THEN RecordPass(bank, tree, Changed, "state", TRUE)
               ELSE RecordFailed(bank, tree, Changed, "state", signal, tally.same + 1)
    /\ GoTo(IF PassLike(signal) THEN TrustedPassState(Machine)
            ELSE FailureTriageState(Machine))
    /\ UNCHANGED <<mode, step, work, memory, passed, report>>

Trusting == mode.scope = "trusted"

ValidatePasses ==
    /\ Validating
    /\ ~mode.causal /\ mode.scope # "none" /\ ~Broken(tree)
    /\ bank' = IF mode.bank THEN RecordPass(bank, tree, Changed, "state", mode.scope = "feedback")
               ELSE bank
    /\ passed' = IF Trusting THEN passed \cup {tree} ELSE passed
    /\ GoTo(IF Trusting THEN TrustedPassState(Machine) ELSE UnavailableState(Machine, mode.child))
    /\ UNCHANGED <<mode, step, work, memory, causal, report>>

\* A patch with a structural fault is taken back; any other stays.
ValidateFails ==
    /\ Validating
    /\ ~mode.causal /\ mode.scope # "none"
    /\ LET rejected == /\ Changed # {}
                       /\ Oversized(Changed) \/ TouchesTests(Changed) \/ Broken(tree)
       IN /\ tree' = IF rejected THEN CandTree ELSE tree
          /\ snap' = IF rejected THEN CandTree ELSE snap
          /\ cache' = IF rejected THEN Reopened(cache) ELSE cache
    /\ GoTo(FailureTriageState(Machine))
    /\ UNCHANGED <<mode, step, cand, hyps, tally, blocked, mind, records>>

-----------------------------------------------------------------------------
(* Limits of a state, and the question to the model.                       *)

Open == Running /\ ~HypothesisDue /\ (inState = 0 => at # "localizing" /\ ~IsValidation(at))

EvidenceOver == mode.causal /\ at = "task_evidence_acquisition" /\ inState >= 2

EvidenceTimeout ==
    /\ Open
    /\ EvidenceOver
    /\ GoTo(FailureTriageState(Machine))
    /\ UNCHANGED <<mode, step, work, memory, records>>

StateLimit == Machine.states[at].limit
AtLimit == inState > 3 * StateLimit

\* Where a state that was never left goes.
ForcedNext ==
    LET onward == {e \in DOMAIN On(Machine, at) : e # "FAIL"}
    IN IF Machine.states[at].next # NoState THEN {Machine.states[at].next}
       ELSE IF onward # {} THEN {On(Machine, at)[e] : e \in onward}
       ELSE {"failed"}

\* Mutant: an implementation state without an edit keeps its count.
HardLimitNoReset ==
    /\ Open
    /\ ~EvidenceOver
    /\ AtLimit
    /\ \/ /\ IsImplementation(at) /\ Changed = {}
          /\ Stay
       \/ /\ ~(IsImplementation(at) /\ Changed = {})
          /\ \E s \in ForcedNext : GoTo(s)
    /\ UNCHANGED <<mode, step, work, memory, records>>

HardLimit ==
    /\ Open
    /\ ~EvidenceOver
    /\ AtLimit
    /\ \/ /\ IsImplementation(at) /\ Changed = {}
          /\ inState' = IF 3 * StateLimit > 5 THEN 3 * StateLimit - 5 ELSE 0
          /\ UNCHANGED <<pc, at, turn>>
       \/ /\ ~(IsImplementation(at) /\ Changed = {})
          /\ \E s \in ForcedNext : GoTo(s)
    /\ UNCHANGED <<mode, step, work, memory, records>>

Ask ==
    /\ Open
    /\ ~EvidenceOver
    /\ ~AtLimit
    /\ pc' = "answer"
    /\ step' = step + 1
    /\ inState' = inState + 1
    /\ hyps' = IF Tournament /\ IsImplementation(at) THEN [hyps EXCEPT !.steps = @ + 1]
               ELSE hyps
    /\ turn' = NoTurn
    /\ UNCHANGED <<mode, at, work, cache, tally, blocked, mind, records>>

=============================================================================
