------------------------------ MODULE MCSolver ------------------------------
(***************************************************************************)
(* Localization on three source files and two test files, and a fan-out of *)
(* two candidates.                                                          *)
(***************************************************************************)
EXTENDS Localization, Fanout, TLC

Bare == [explicit |-> FALSE, strong |-> 0, medium |-> 0, weak |-> 0, classes |-> 0, first |-> 0,
         missing |-> 0, other |-> 0, hop |-> 0, source |-> TRUE]

\* A task that names one file, one whose words hit everywhere, one that names a class,
\* and one of which only an import is known.
Named == ("f" :> [Bare EXCEPT !.explicit = TRUE, !.strong = 1]) @@ ("g" :> [Bare EXCEPT !.weak = 1])
            @@ ("h" :> [Bare EXCEPT !.hop = 2])
Flat == ("f" :> [Bare EXCEPT !.medium = 2]) @@ ("g" :> [Bare EXCEPT !.strong = 1])
            @@ ("h" :> [Bare EXCEPT !.weak = 6])
Class == ("f" :> [Bare EXCEPT !.classes = 1, !.first = 1]) @@ ("g" :> [Bare EXCEPT !.classes = 1])
            @@ ("h" :> [Bare EXCEPT !.source = FALSE, !.strong = 9])
Import == ("f" :> [Bare EXCEPT !.hop = 1]) @@ ("g" :> Bare) @@ ("h" :> Bare)

Options == [clu |-> TRUE, workflow |-> TRUE, aggressive |-> FALSE, refresh |-> TRUE,
            tournament |-> TRUE, scout |-> TRUE, escalation |-> TRUE, promotedFanout |-> FALSE,
            feature |-> TRUE, fanout |-> TRUE, depth |-> 0, maxDepth |-> 1]

Base == [evidence |-> Flat, scope |-> NoScope, complete |-> TRUE, files |-> <<"t">>,
         labels |-> <<>>, mapped |-> <<"t">>, strict |-> TRUE, groupsLast |-> FALSE,
         labelsFirst |-> FALSE, sandbox |-> FALSE, pinned |-> NoScope, options |-> Options]

MCCases ==
    {[Base EXCEPT !.evidence = e, !.options = o] :
        e \in {Named, Flat, Class, Import},
        o \in {Options,
               [Options EXCEPT !.aggressive = TRUE, !.escalation = FALSE],
               [Options EXCEPT !.workflow = FALSE, !.promotedFanout = TRUE],
               [Options EXCEPT !.clu = FALSE, !.scout = FALSE],
               [Options EXCEPT !.depth = 1], [Options EXCEPT !.depth = 1, !.scout = FALSE],
               [Options EXCEPT !.feature = FALSE],
               [Options EXCEPT !.maxDepth = 0, !.scout = FALSE]}}
      \cup {[Base EXCEPT !.scope = {"t"}, !.evidence = e] : e \in {Named, Flat, Class}}
      \cup {[Base EXCEPT !.files = <<"t", "u">>, !.labels = <<"l", "m">>, !.mapped = <<"u">>,
                         !.strict = s, !.groupsLast = g, !.labelsFirst = ~g] :
                s \in BOOLEAN, g \in BOOLEAN}
      \cup {[Base EXCEPT !.pinned = "g", !.sandbox = TRUE, !.options.depth = 1],
            [Base EXCEPT !.files = <<>>], [Base EXCEPT !.files = <<>>, !.mapped = <<>>]}

MCPathOrder == ("f" :> 1) @@ ("g" :> 2) @@ ("h" :> 3)
MCFileOfLabel == ("l" :> "t") @@ ("m" :> "u")
MCScout == [topFiles |-> 3, ratio |-> 180, hypotheses |-> 4, cheap |-> 1, promotedRatio |-> 180,
            promotedScore |-> 120, promoted |-> 2, progressive |-> 1, full |-> 3, wall |-> 4,
            timeouts |-> 2]

-----------------------------------------------------------------------------

MCCandidates == <<"h1", "h2">>
MCHypothesisScore == ("h1" :> 90) @@ ("h2" :> 80)

Plain == [tests |-> FALSE, source |-> TRUE, aligned |-> TRUE, added |-> 3, removed |-> 1,
          flags |-> {}]
MCPatchInfo == ("good" :> Plain)
    @@ ("wide" :> [Plain EXCEPT !.added = 40, !.aligned = FALSE])
    @@ ("tests" :> [Plain EXCEPT !.tests = TRUE])
    @@ ("stub" :> [Plain EXCEPT !.added = 0, !.flags = {"placeholder_marker"}])

Failed == [kind |-> "assertion_failure", relation |-> "task_related", fingerprint |-> "e"]
Passed == [kind |-> "passed", relation |-> "regression", fingerprint |-> ""]
TestAt(path, relation, baseline) ==
    [path |-> path, origins |-> {"public", "runnable"}, relation |-> relation,
     baseline |-> baseline]

MCPromoted == {TestAt(1, 0, Failed)}
MCTests == {TestAt(1, 1000, Failed), TestAt(2, 300, Passed), TestAt(3, 20, NoBaseline)}

Output(exit, signs, fingerprint, refers) ==
    [exit |-> exit, signs |-> signs, fingerprint |-> fingerprint, refers |-> refers,
     forbidden |-> FALSE]
MCTestOutputs == {Output(0, {}, "", FALSE), Output(NoExit, {"failure"}, "e", FALSE)}

Left(lines, patch, late) == [lines |-> lines, patch |-> patch, late |-> late]
MCLeavings ==
    {Left(<<"repair_fail", "final_fail">>, "good", FALSE),
     Left(<<"repair_regression_pass", "final_pass">>, "stub", FALSE),
     Left(<<"scoped_pass", "final_unavailable">>, "wide", FALSE),
     Left(<<"syntax">>, "good", FALSE),
     Left(<<>>, "good", TRUE), Left(<<"final_pass">>, "tests", FALSE)}

Setup == [max |-> 2, concurrency |-> 2, stop |-> 0, wall |-> FALSE, strengthening |-> FALSE,
          arbiter |-> TRUE, margin |-> 30, arbiterMax |-> 3, strong |-> FALSE]
MCSetups == {Setup, [Setup EXCEPT !.max = 1, !.strengthening = TRUE, !.wall = TRUE],
             [Setup EXCEPT !.concurrency = 1, !.stop = 1, !.strong = TRUE, !.margin = 0]}

ASSUME MCChildrenGiveNoVerdict == ChildrenGiveNoVerdict

-----------------------------------------------------------------------------

\* Each part by itself, the other one idle.
MCInit ==
    \/ LocalizationInit /\ setup = Setup /\ fpc = "ended" /\ FanoutStarted
    \/ FanoutInit /\ case = Base /\ lpc = "ended" /\ LocalizationStarted

MCNext == \/ LocalizationNext /\ UNCHANGED fanoutVars
          \/ FanoutNext /\ UNCHANGED localizationVars

MCSpec == MCInit /\ [][MCNext]_<<localizationVars, fanoutVars>>
            /\ WF_<<localizationVars, fanoutVars>>(MCNext)

\* Whatever was begun ends: localization by its own limits, a fan-out because children
\* and test runs are killed at their timeouts.
SolverEnds == <>(lpc = "ended" /\ fpc = "ended")

=============================================================================
