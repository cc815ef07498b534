------------------------------- MODULE Ranking -------------------------------
(***************************************************************************)
(* How the command line ranks source files before a model is asked, and    *)
(* what it decides from the ranking alone: the shape of the problem, the   *)
(* solver policy with its workflow lane, and the route of a fan-out        *)
(* (cli/src/main.rs).                                                      *)
(*                                                                         *)
(* Evidence of a file: explicit, the task names its path; strong, medium   *)
(* and weak, the lines its grep patterns hit; classes, the definitions of  *)
(* named classes and their ancestors in it; first, missing and other, what *)
(* class introspection located in it; hop, how far the import trace had to *)
(* go, 0 when it never came by; source, that its path is one of a source.  *)
(***************************************************************************)
EXTENDS Integers, FiniteSets, SequencesExt

CONSTANTS
    Sources,        \* the repository's source files
    PathOrder,      \* [Sources -> Nat]: the order of their paths
    TopLimit,       \* SW_PROBLEM_SHAPE_TOP_FILES
    Scout           \* the settings of the scout; see ScoutAssumption

ASSUME RankingAssumption ==
    /\ PathOrder \in [Sources -> Nat]
    /\ \A f, g \in Sources : PathOrder[f] = PathOrder[g] => f = g
    /\ TopLimit \in Nat \ {0}

ASSUME ScoutAssumption ==
    Scout \in [topFiles : Nat, ratio : Nat, hypotheses : Nat, cheap : Nat, promotedRatio : Nat,
               promotedScore : Nat, promoted : Nat, progressive : Nat, full : Nat,
               wall : Nat, timeouts : Nat]

AtMost(n, limit) == IF n < limit THEN n ELSE limit
AtLeast(n, limit) == IF n > limit THEN n ELSE limit

-----------------------------------------------------------------------------
(* Scores.                                                                 *)

Introspected(e) == e.first + e.missing + e.other

FoundScore(e) ==
    (IF e.explicit THEN 100 ELSE 0) + 8 * e.strong + 4 * e.medium + e.weak
        + 35 * e.classes + 80 * e.first + 20 * e.missing + 8 * e.other

\* The import trace scores only what nothing else did.
FileScore(e) ==
    IF FoundScore(e) = 0 /\ e.hop > 0 THEN 4 - e.hop ELSE FoundScore(e)

Before(f, g, score) ==
    score[f] > score[g] \/ (score[f] = score[g] /\ PathOrder[f] < PathOrder[g])

Sorted(files, score) ==
    [i \in 1 .. Cardinality(files) |->
        CHOOSE f \in files : Cardinality({g \in files : Before(g, f, score)}) = i - 1]

\* ProblemShape::from_ranked_files weighs the same evidence once more.
ShapeScore(e) ==
    FileScore(e) + (IF e.explicit THEN 200 ELSE 0) + 10 * Introspected(e)
        + (IF e.explicit \/ Introspected(e) > 0 THEN 3 ELSE IF e.hop > 0 THEN 5 ELSE 0)

TopFiles(evidence) ==
    LET score == [f \in Sources |-> ShapeScore(evidence[f])]
        ranked == {f \in Sources : FileScore(evidence[f]) > 0 /\ evidence[f].source}
        sorted == Sorted(ranked, score)
        files == SubSeq(sorted, 1, AtMost(Len(sorted), TopLimit))
    IN [i \in DOMAIN files |-> [path |-> files[i], score |-> score[files[i]],
                                explicit |-> evidence[files[i]].explicit]]

Shape(evidence, trusted, promoted, advisory) ==
    [top |-> TopFiles(evidence), trusted |-> trusted, promoted |-> promoted,
     advisory |-> advisory]

-----------------------------------------------------------------------------
(* CluSolverPolicy.                                                        *)

TopScore(shape) == IF shape.top = <<>> THEN 0 ELSE shape.top[1].score
SecondScore(shape) == IF Len(shape.top) < 2 THEN 0 ELSE shape.top[2].score

Ratio(shape) ==
    IF SecondScore(shape) > 0 THEN (TopScore(shape) * 100) \div SecondScore(shape)
    ELSE IF TopScore(shape) > 0 THEN 999 ELSE 0

Explicit(shape) == shape.top # <<>> /\ shape.top[1].explicit
Scoped(shape) == shape.trusted \/ shape.promoted
Concentrated(shape) == TopScore(shape) > 0 /\ (Len(shape.top) <= 2 \/ Ratio(shape) >= 180)

DominantUntrusted(shape) ==
    /\ ~Scoped(shape) /\ Concentrated(shape)
    /\ TopScore(shape) >= 120
    /\ Explicit(shape) \/ Ratio(shape) >= 250

StrongPromoted(shape) ==
    /\ shape.promoted /\ ~shape.trusted
    /\ TopScore(shape) >= 120
    /\ Explicit(shape) \/ Ratio(shape) >= 180

FlatOrWide(shape) == Len(shape.top) >= 4 \/ (SecondScore(shape) > 0 /\ Ratio(shape) < 140)

WeakTournament(shape, options) ==
    /\ options.workflow /\ options.aggressive
    /\ ~Scoped(shape) /\ ~DominantUntrusted(shape)
    /\ \/ FlatOrWide(shape) \/ Cardinality(Sources) >= 3 \/ shape.advisory >= 2
       \/ Ratio(shape) < 200 \/ TopScore(shape) < 160

Profile(shape, options) ==
    CASE DominantUntrusted(shape) /\ ~options.workflow -> "focused_source_untrusted_scope"
      [] WeakTournament(shape, options) -> "ambiguous_multi_locus"
      [] ~Scoped(shape) /\ ~WeakTournament(shape, options)
            /\ (DominantUntrusted(shape) => options.workflow) -> "weak_scope_exploration"
      [] StrongPromoted(shape) -> "promoted_dominant_source_locus"
      [] shape.promoted /\ ~shape.trusted /\ ~StrongPromoted(shape) -> "promoted_scope_exploration"
      [] shape.trusted /\ Concentrated(shape) -> "focused_validated_locus"
      [] shape.trusted /\ ~Concentrated(shape) /\ FlatOrWide(shape) -> "ambiguous_multi_locus"
      [] OTHER -> "balanced"

\* Without the workflow the lanes of two profiles are others.
LaneOf(profile, workflow) ==
    CASE profile \in {"focused_source_untrusted_scope", "focused_validated_locus"} -> "retention"
      [] profile \in {"weak_scope_exploration", "promoted_dominant_source_locus"} -> "agentless"
      [] profile = "promoted_scope_exploration" -> IF workflow THEN "reanchor" ELSE "agentless"
      [] profile = "ambiguous_multi_locus" -> "reanchor"
      [] OTHER -> IF workflow THEN "reanchor" ELSE "balanced"

BankMax(profile, hard) ==
    CASE profile = "focused_source_untrusted_scope" -> 1
      [] profile = "focused_validated_locus" -> 4
      [] profile \in {"weak_scope_exploration", "promoted_dominant_source_locus"} -> 6
      [] profile = "balanced" -> IF hard THEN 8 ELSE 6
      [] OTHER -> 8

Policy(shape, options) ==
    LET profile == Profile(shape, options)
        lane == LaneOf(profile, options.workflow)
        refresh == options.workflow /\ options.refresh /\ lane # "retention"
    IN [profile |-> profile, lane |-> lane,
        bankMax |-> BankMax(profile, options.workflow /\ options.aggressive),
        reanchor |-> lane # "retention",
        earlyStop |-> refresh,
        hypothesisSteps |-> IF refresh THEN 14 ELSE 0]

-----------------------------------------------------------------------------
(* The route of a fan-out.                                                 *)

CheapLane(policy, shape, count) ==
    /\ policy.profile = "focused_validated_locus" /\ policy.lane = "retention"
    /\ shape.trusted /\ ~shape.promoted
    /\ Len(shape.top) \in 1 .. Scout.topFiles
    /\ Ratio(shape) >= Scout.ratio
    /\ count \in 1 .. Scout.hypotheses

PromotedLane(policy, shape, count) ==
    \/ policy.profile = "promoted_dominant_source_locus"
    \/ /\ shape.promoted /\ count > 0
       /\ Ratio(shape) >= Scout.promotedRatio
       /\ TopScore(shape) >= Scout.promotedScore

\* What the scout decides before the process looks at its own depth.  Without a
\* policy the fan-out is a full one.
ScoutedRoute(policy, shape, count, options) ==
    CASE ~options.clu ->
            [name |-> "full", fanout |-> TRUE, keep |-> count]
      [] options.clu /\ CheapLane(policy, shape, count) ->
            [name |-> "cheap", fanout |-> FALSE, keep |-> AtMost(count, AtLeast(Scout.cheap, 1))]
      [] /\ options.clu /\ ~CheapLane(policy, shape, count)
         /\ PromotedLane(policy, shape, count) /\ ~options.promotedFanout ->
            [name |-> "promoted", fanout |-> FALSE,
             keep |-> AtMost(count, AtLeast(Scout.promoted, 1))]
      [] OTHER ->
            [name |-> "progressive", fanout |-> TRUE,
             keep |-> AtMost(count, AtLeast(Scout.progressive, 1))]

EscalationLanes(count) ==
    <<[name |-> "probe", limit |-> AtLeast(Scout.cheap, 1)],
      [name |-> "progressive", limit |-> AtLeast(Scout.progressive, 1)],
      [name |-> "full", limit |-> AtMost(count, AtLeast(Scout.full, 1))]>>

\* A child never fans out again, and neither does a program built without the feature.
Route(policy, shape, count, options) ==
    LET scouted == ScoutedRoute(policy, shape, count, options)
        barred == options.depth > 0 \/ ~options.feature
    IN IF ~options.scout
       THEN [name |-> "off", fanout |-> TRUE, keep |-> count, lanes |-> <<>>]
       ELSE [name |-> IF ~options.feature THEN "disabled" ELSE IF barred THEN "child"
                      ELSE scouted.name,
             fanout |-> scouted.fanout /\ ~barred,
             keep |-> scouted.keep,
             lanes |-> IF barred \/ ~options.escalation \/ count = 0 THEN <<>>
                       ELSE EscalationLanes(count)]

\* What apply_runtime_env and Config::from_env make of it: whether this process may
\* start children.
ParentEnabled(route, options) ==
    /\ options.feature
    /\ options.depth = 0 /\ options.maxDepth > 0
    /\ IF options.scout /\ ~route.fanout THEN FALSE
       ELSE (options.scout /\ route.name = "progressive") \/ options.fanout

=============================================================================
