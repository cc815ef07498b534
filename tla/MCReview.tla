------------------------------ MODULE MCReview ------------------------------
(***************************************************************************)
(* One client, one workflow with a review gate and an interrupt.           *)
(***************************************************************************)
EXTENDS GatewaySafety

State(on, tools) ==
    [final |-> FALSE, on |-> on, safe_next |-> None, tools |-> tools, denied |-> {}]

Final == [final |-> TRUE, on |-> << >>, safe_next |-> None, tools |-> None, denied |-> {}]

Ship ==
    [initial |-> "work", context |-> {}, guards |-> {}, debug |-> FALSE,
     approval_mode |-> "ui", adr |-> FALSE,
     interrupts |-> [tests |-> "fix"],
     states |->
       [work   |-> State([READY |-> Simple("check")], {"edit"}),
        check  |-> State([SUBMIT |-> Full("deploy", {}, TRUE), REWORK |-> Simple("work")], {"test"}),
        deploy |-> State([DONE |-> Simple("done")], None),
        fix    |-> State([BACK |-> Simple(ReturnTarget)], {"edit", "test"}),
        done   |-> Final]]

MCMachine == [ship |-> Ship]

\* The same, with a tool of its own in the reviewed state.
MCGateMachine == [ship |-> [Ship EXCEPT !.states.deploy.tools = {"release"}]]

MCSameName == {<<"deploy", "deploy">>}
MCOverlap == {<<"RE", "READY">>, <<"RE", "REWORK">>}
MCKeys == {<< >>}
MCEvents == {"READY", "SUBMIT", "deploy", "RE", "DONE", "BACK"}

\* What the proofs ask of a catalogue, this one has; only an interrupt and a
\* tool list move its workflow while it waits for a review.
ASSUME MCReviewCatalogue ==
    /\ NoForks /\ ChildrenReturn /\ Closed /\ Flat /\ ChildrenMoveByEvents
    /\ ~ ReviewsKeepStill

=============================================================================
