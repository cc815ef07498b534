----------------------------- MODULE MCHarness -----------------------------
(***************************************************************************)
(* The command line's loop on two files, with one way of starting it for   *)
(* each machine: a tournament of hypotheses with a candidate bank, a       *)
(* generated machine with a test scope that proves nothing, with none, a   *)
(* run whose budget is spent when it comes to its end, the flat control    *)
(* and the causal mode.  MCEvidence has the causal mode alone, with more   *)
(* time and two calls a turn.                                              *)
(***************************************************************************)
EXTENDS HarnessSafety, TLC

CONSTANTS Starts

Base == [steps |-> 4, asked |-> 4, causal |-> FALSE, variant |-> "speed", sandbox |-> TRUE, tournament |-> FALSE,
         reset |-> FALSE, native |-> TRUE, child |-> FALSE, strict |-> FALSE,
         scope |-> "trusted", bank |-> FALSE, early |-> FALSE, hypotheses |-> <<"f", "g">>]

Asked(m, steps) == [m EXCEPT !.steps = steps, !.asked = steps]

Tournaments ==
    [Base EXCEPT !.tournament = TRUE, !.reset = TRUE, !.bank = TRUE, !.early = TRUE]

Start ==
    [tournament |-> Tournaments,
     raw |-> Asked([Tournaments EXCEPT !.native = FALSE], 2),
     generated |-> Asked([Base EXCEPT !.variant = "generated", !.scope = "feedback",
                                      !.sandbox = FALSE, !.strict = TRUE, !.bank = TRUE,
                                      !.hypotheses = <<"f">>], 3),
     unscoped |-> Asked([Base EXCEPT !.variant = "generated", !.scope = "none", !.sandbox = FALSE,
                                     !.native = FALSE, !.hypotheses = <<"f">>], 2),
     control |-> Asked([Base EXCEPT !.variant = "control", !.scope = "none", !.native = FALSE], 2),
     aborted |-> [Base EXCEPT !.native = FALSE, !.steps = 2, !.asked = 1,
                        !.hypotheses = <<"f">>],
     causal |-> [Base EXCEPT !.causal = TRUE, !.variant = "structured", !.tournament = TRUE],
     patient |-> Asked([Base EXCEPT !.causal = TRUE, !.variant = "structured"], 6),
     rawCausal |-> Asked([Base EXCEPT !.causal = TRUE, !.variant = "structured",
                                      !.native = FALSE], 1)]

MCModes == {Start[s] : s \in Starts}

MCFileOf == [e \in Edits |-> IF e = "x" THEN "g" ELSE "f"]
MCKindOf == [e \in Edits |-> CASE e = "p" -> "plain" [] e = "x" -> "oversized" [] e = "b" -> "broken"]

MCLimit == [t \in Thresholds |->
    CASE t = "hypothesis" -> 4
      [] t \in {"wire", "stall", "plateau", "early", "locus"} -> 2
      [] t \in {"toxic", "oversize", "path", "parse"} -> 1
      [] t = "think" -> 1
      [] t = "escalate" -> 2
      [] t \in {"last", "off"} -> 3]

\* A machine of few states whose limits are soon reached.
MCGenerated ==
    [initial |-> "planning",
     states |-> [
        planning |-> State([DONE |-> "implementing"], reading, 0, NoState),
        implementing |-> State([DONE |-> "testing", FAIL |-> "failed"], editing, 0, NoState),
        testing |-> State([TESTS_PASS |-> "completed", TESTS_FAIL |-> "implementing"],
                          reading, 0, NoState),
        completed |-> Final,
        failed |-> Final]]

\* The short runs start at the beginning, the long ones at their first edit, after
\* the program localized and the model planned without writing anything; in causal
\* mode it may have tried a reproducer.
MCInit ==
    /\ mode \in Modes
    /\ LET mapped == Record(NoCausal, "mapped")
       IN \/ /\ ~mode.native /\ ~mode.causal
             /\ StartedAt(Machine.initial, NoTree, NoHypotheses, NoCausal)
          \/ /\ mode.native \/ mode.causal
             /\ \E noted \in IF ~mode.causal THEN {NoCausal}
                             ELSE IF mode.steps = 1 THEN {mapped}
                             ELSE {ReproducerWritten(mapped, q) : q \in BOOLEAN} :
                    StartedAt(ImplementationState(Machine), {},
                              IF mode.variant = "generated" THEN NoHypotheses ELSE Ranked, noted)

MCSpec == MCInit /\ [][HarnessNext]_harnessVars /\ HarnessFairness

=============================================================================
