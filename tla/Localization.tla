----------------------------- MODULE Localization -----------------------------
(***************************************************************************)
(* The state "localizing" of the command line (cli/src/main.rs): a probe of *)
(* the tests, the ranking of the source files, the attempts to find a test  *)
(* scope that runs, the policy and the route they lead to, and the fan-out  *)
(* lanes of that route.  No model is asked.  What children find is chosen   *)
(* here; Fanout models how they are run and how one of them is selected.    *)
(***************************************************************************)
EXTENDS Ranking

CONSTANTS
    NoScope,
    TestFiles,      \* test files a scope may consist of
    Labels,         \* test labels
    FileOfLabel,    \* [Labels -> TestFiles]: django_label_test_file
    Cases,          \* what a run may be started on; see Case
    MaxTries,       \* SW_SCOPE_VALIDATION_MAX_CANDIDATES
    TryTime,        \* SW_SCOPE_VALIDATION_TOTAL_SECONDS, in tries that time out
    LaneTime        \* seconds until the fan-out's deadline, in minutes

ASSUME LocalizationAssumption ==
    /\ FileOfLabel \in [Labels -> TestFiles]
    /\ MaxTries \in Nat \ {0} /\ TryTime \in Nat \ {0} /\ LaneTime \in Nat

VARIABLES
    case,       \* one of Cases
    lpc,        \* where localization is
    env,        \* the SW_TEST_* variables: scope and what a pass of it may decide
    saved,      \* previous_can_complete, previous_scope_authority, previous_scope_trusted
    litter,     \* what test runs left in the working tree: "tracked", "untracked" files
    tests,      \* source_test_candidates, best first
    attempts,   \* validation_attempts still to be made
    clock,      \* time spent on attempts, then on lanes
    fallback,   \* runnable_fallback_files or _label
    baselines,  \* record_baseline_scope_outcome: scopes and what they gave
    shape,
    policy,
    route,
    ranked,     \* all_patch_hypotheses
    hypotheses, \* patch_hypotheses
    lanes,      \* escalation lanes still to be tried
    launched,   \* history: how often a child was started for a hypothesis
    timeouts,   \* route_timeout_count
    outcome     \* "none", or "applied" when a fan-out's patch is in the tree

lscope == <<env, saved, tests, attempts, fallback, baselines>>
lplan == <<shape, policy, route, ranked>>
lfan == <<hypotheses, lanes, launched, timeouts, outcome>>
localizationVars == <<case, lpc, lscope, lplan, lfan, litter, clock>>

\* evidence is that of the sources; found the test files and labels the first probe
\* names; mapped the tests the map of tests derives from the sources; options the
\* environment; pinned, that a child is told its hypothesis.
Case == [evidence : [Sources -> [explicit : BOOLEAN, strong : Nat, medium : Nat, weak : Nat,
                                 classes : Nat, first : Nat, missing : Nat, other : Nat,
                                 hop : 0 .. 3, source : BOOLEAN]],
         scope : {NoScope} \cup (SUBSET TestFiles \ {{}}), complete : BOOLEAN,
         files : Seq(TestFiles), labels : Seq(Labels), mapped : Seq(TestFiles),
         strict : BOOLEAN, groupsLast : BOOLEAN, labelsFirst : BOOLEAN, sandbox : BOOLEAN,
         pinned : {NoScope} \cup Sources,
         options : [clu : BOOLEAN, workflow : BOOLEAN, aggressive : BOOLEAN, refresh : BOOLEAN,
                    tournament : BOOLEAN, scout : BOOLEAN, escalation : BOOLEAN,
                    promotedFanout : BOOLEAN, feature : BOOLEAN, fanout : BOOLEAN,
                    depth : Nat, maxDepth : Nat]]

Scope(files, label) == [files |-> files, label |-> label]
NoPlan == [lane |-> "none"]

LocalizationStarted ==
    /\ env = [scope |-> case.scope, complete |-> case.complete, authority |-> "given",
              trusted |-> TRUE]
    /\ saved = env
    /\ litter = {}
    /\ tests = <<>> /\ attempts = <<>> /\ baselines = {}
    /\ fallback = NoScope
    /\ clock = 0 /\ timeouts = 0
    /\ shape = NoPlan /\ policy = NoPlan /\ route = NoPlan
    /\ ranked = <<>> /\ hypotheses = <<>> /\ lanes = <<>>
    /\ launched = [f \in Sources |-> 0]
    /\ outcome = "none"

LocalizationInit == case \in Cases /\ lpc = "probe" /\ LocalizationStarted

-----------------------------------------------------------------------------
(* The probe and the attempts at a scope.                                  *)

\* A test run in the working tree leaves what it leaves: restore_tracked_test_side_effects
\* takes back what all_diff_stats lists and git tracks, and before the first snapshot
\* all_diff_stats lists files git does not track.
Littered(left) == litter' = IF case.sandbox THEN litter ELSE litter \cup left

Probe(correlated, left) ==
    /\ lpc = "probe"
    /\ correlated => case.scope # NoScope
    /\ Littered(left)
    /\ shape' = [lane |-> "none", trusted |-> correlated]
    /\ lpc' = IF case.scope = NoScope THEN "plan" ELSE "shape"
    /\ UNCHANGED <<case, lscope, policy, route, ranked, lfan, clock>>

Singles(seq) == [i \in 1 .. AtMost(Len(seq), 5) |-> <<seq[i]>>]

\* One by one, and all together first or last.
Groups(seq) ==
    LET all == IF Len(seq) > 1 THEN <<seq>> ELSE <<>>
    IN IF case.groupsLast THEN Singles(seq) \o all ELSE all \o Singles(seq)

SelectedFiles ==
    LET new(a, b) == SelectSeq(b, LAMBDA x : x \notin ToSet(a))
    IN IF case.strict /\ case.mapped # <<>> THEN case.mapped \o new(case.mapped, case.files)
       ELSE IF case.files = <<>> /\ case.labels = <<>> THEN case.mapped
       ELSE case.files

PlannedAttempts ==
    LET byFile == [i \in DOMAIN Groups(SelectedFiles) |->
                        Scope(ToSet(Groups(SelectedFiles)[i]), NoScope)]
        byLabel == [i \in DOMAIN Groups(case.labels) |->
                        Scope({}, Groups(case.labels)[i][1])]
        all == IF case.labelsFirst THEN byLabel \o byFile ELSE byFile \o byLabel
    IN SubSeq(all, 1, AtMost(Len(all), MaxTries))

\* While scopes are tried, a pass decides nothing.
PlanScopes ==
    /\ lpc = "plan"
    /\ tests' = case.mapped
    /\ IF PlannedAttempts = <<>>
       THEN lpc' = "shape" /\ UNCHANGED <<env, saved, attempts>>
       ELSE /\ lpc' = "try"
            /\ attempts' = PlannedAttempts
            /\ saved' = env
            /\ env' = [env EXCEPT !.complete = FALSE, !.authority = "feedback", !.trusted = FALSE]
    /\ UNCHANGED <<case, fallback, baselines, lplan, lfan, litter, clock>>

MatchesSource(scope) ==
    \/ scope.files \cap ToSet(tests) # {}
    \/ scope.label # NoScope /\ FileOfLabel[scope.label] \in ToSet(tests)

Usable(result) == result \in {"passed", "failed"}

\* Mutant: a scope whose tests fail on the untouched tree will do.
TryScopeAny(result, time, left) ==
    /\ lpc = "try"
    /\ attempts # <<>> /\ clock < TryTime
    /\ case.strict => MatchesSource(Head(attempts))
    /\ Littered(left)
    /\ clock' = clock + time
    /\ baselines' = IF Usable(result) THEN baselines \cup {<<Head(attempts), result>>}
                    ELSE baselines
    /\ fallback' = IF Usable(result) /\ fallback = NoScope THEN Head(attempts) ELSE fallback
    /\ attempts' = Tail(attempts)
    /\ UNCHANGED <<case, lpc, env, saved, tests, lplan, lfan>>

\* The first scope that passes on the tree as it was found is kept.
TryScope(result, time, left) ==
    /\ lpc = "try"
    /\ attempts # <<>> /\ clock < TryTime
    /\ case.strict => MatchesSource(Head(attempts))
    /\ Littered(left)
    /\ clock' = clock + time
    /\ baselines' = IF Usable(result) THEN baselines \cup {<<Head(attempts), result>>}
                    ELSE baselines
    /\ fallback' = IF result = "passed" /\ fallback = NoScope THEN Head(attempts) ELSE fallback
    /\ attempts' = Tail(attempts)
    /\ UNCHANGED <<case, lpc, env, saved, tests, lplan, lfan>>

\* Mutant: a scope that is passed over stays first in line.
SkipScopeAgain ==
    /\ lpc = "try"
    /\ attempts # <<>>
    /\ case.strict /\ ~MatchesSource(Head(attempts))
    /\ UNCHANGED localizationVars

SkipScope ==
    /\ lpc = "try"
    /\ attempts # <<>>
    /\ case.strict /\ ~MatchesSource(Head(attempts))
    /\ attempts' = Tail(attempts)
    /\ UNCHANGED <<case, lpc, env, saved, tests, fallback, baselines, lplan, lfan, litter, clock>>

TriesOver ==
    attempts # <<>> => clock >= TryTime /\ (case.strict => MatchesSource(Head(attempts)))

\* The variables are put back; a scope that was found is promoted, for feedback.
SettleScopes ==
    /\ lpc = "try"
    /\ TriesOver
    /\ env' = IF fallback = NoScope THEN saved
              ELSE [scope |-> fallback, complete |-> FALSE, authority |-> "feedback",
                    trusted |-> FALSE]
    /\ attempts' = <<>>
    /\ clock' = 0
    /\ lpc' = "shape"
    /\ UNCHANGED <<case, saved, tests, fallback, baselines, lplan, lfan, litter>>

-----------------------------------------------------------------------------
(* The plan.                                                               *)

\* A child works on the hypothesis it was started for, ranked or not.
Ranked(s, p) ==
    LET files == [i \in DOMAIN s.top |-> s.top[i].path]
    IN IF ~case.options.tournament /\ ~case.options.clu THEN <<>>
       ELSE IF case.pinned # NoScope THEN <<case.pinned>>
       ELSE IF case.options.clu THEN SubSeq(files, 1, AtMost(Len(files), AtLeast(p.bankMax, 1)))
       ELSE files

Plan ==
    /\ lpc = "shape"
    /\ \E s \in {Shape(case.evidence, shape.trusted, fallback # NoScope, Len(tests))} :
       \E p \in {IF case.options.clu THEN Policy(s, case.options) ELSE NoPlan} :
       \E all \in {Ranked(s, p)} :
          /\ shape' = s
          /\ policy' = p
          /\ route' = Route(p, s, Len(all), case.options)
          /\ ranked' = all
          /\ hypotheses' = IF case.options.scout
                           THEN SubSeq(all, 1, AtMost(Len(all), route'.keep)) ELSE all
          /\ lanes' = route'.lanes
          /\ lpc' = IF ~ParentEnabled(route', case.options) THEN "ended"
                    ELSE IF route'.lanes # <<>> /\ all # <<>> THEN "lanes"
                    ELSE IF Len(hypotheses') > 1 THEN "fanout" ELSE "ended"
    /\ UNCHANGED <<case, lscope, launched, timeouts, outcome, litter, clock>>

-----------------------------------------------------------------------------
(* The fan-out.                                                            *)

Launch(files) == launched' = [f \in Sources |-> launched[f] + (IF f \in files THEN 1 ELSE 0)]

NextOf(seq, n) == ToSet(SubSeq(seq, 1, AtMost(Len(seq), n)))

\* The next hypotheses of the ranking that no lane has tried.
LaneFiles(lane) == NextOf(SelectSeq(ranked, LAMBDA f : launched[f] = 0), lane.limit)

LanesOver == lanes = <<>> \/ clock >= LaneTime

\* A lane's batch may discriminate, which ends the escalation, or add time-outs that do.
RunLane(discriminates, late, minutes) ==
    /\ lpc = "lanes"
    /\ ~LanesOver
    /\ late \leq Cardinality(LaneFiles(Head(lanes)))
    /\ LaneFiles(Head(lanes)) = {} => ~discriminates /\ minutes = 0
    /\ Launch(LaneFiles(Head(lanes)))
    /\ clock' = clock + minutes
    /\ timeouts' = timeouts + late
    /\ lanes' = IF discriminates \/ (Scout.timeouts > 0 /\ timeouts' >= Scout.timeouts)
                THEN <<>> ELSE Tail(lanes)
    /\ UNCHANGED <<case, lpc, lscope, lplan, hypotheses, outcome, litter>>

\* All batches compete.  If none wins, the sequential loop gets the whole ranking back.
LaneTournament(applied) ==
    /\ lpc = "lanes"
    /\ LanesOver
    /\ applied => \E f \in Sources : launched[f] > 0
    /\ outcome' = IF applied THEN "applied" ELSE "none"
    /\ hypotheses' = IF applied THEN hypotheses ELSE ranked
    /\ lpc' = "ended"
    /\ UNCHANGED <<case, lscope, lplan, lanes, launched, timeouts, litter, clock>>

PlainFanout(applied) ==
    /\ lpc = "fanout"
    /\ Launch(ToSet(hypotheses))
    /\ outcome' = IF applied THEN "applied" ELSE "none"
    /\ lpc' = "ended"
    /\ UNCHANGED <<case, lscope, lplan, hypotheses, lanes, timeouts, litter, clock>>

LocalizationNext ==
    \/ \E c \in BOOLEAN, left \in SUBSET {"tracked", "untracked"} : Probe(c, left)
    \/ PlanScopes
    \/ \E result \in {"passed", "failed", "unusable"}, time \in 0 .. 1,
          left \in SUBSET {"tracked", "untracked"} : TryScope(result, time, left)
    \/ SkipScope
    \/ SettleScopes
    \/ Plan
    \/ \E d \in BOOLEAN, late \in 0 .. 1, minutes \in 0 .. 1 : RunLane(d, late, minutes)
    \/ \E applied \in BOOLEAN : LaneTournament(applied) \/ PlainFanout(applied)

LocalizationSpec == LocalizationInit /\ [][LocalizationNext]_localizationVars

-----------------------------------------------------------------------------
(* What localization promises.                                             *)

\* The scope a run ends localization with is the one it was given, with the power it
\* had, or one that passed on the untouched tree and completes nothing.
ScopeGainsNoPower ==
    lpc = "ended" =>
        \/ env = [scope |-> case.scope, complete |-> case.complete, authority |-> "given",
                  trusted |-> TRUE]
        \/ <<env.scope, "passed">> \in baselines /\ ~env.complete /\ ~env.trusted


=============================================================================
