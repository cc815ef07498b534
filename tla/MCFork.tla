------------------------------- MODULE MCFork -------------------------------
(***************************************************************************)
(* A workflow that forks, worked on by its client and by a pane on one of  *)
(* the branches.                                                           *)
(***************************************************************************)
EXTENDS GatewaySafety

State(on) == [final |-> FALSE, on |-> on, safe_next |-> None, tools |-> None, denied |-> {}]

Final == [State(<< >>) EXCEPT !.final = TRUE]

Split ==
    Fork(<<[name |-> "lint", initial |-> "work", terminal |-> "branch_done"],
           [name |-> "test", initial |-> "work", terminal |-> "branch_done"]>>,
         "all", "review", "failed")

Fan ==
    [initial |-> "plan", context |-> {}, guards |-> {}, debug |-> FALSE,
     approval_mode |-> "ui", adr |-> FALSE, interrupts |-> << >>,
     states |->
       [plan        |-> State([SPLIT |-> Split]),
        work        |-> State([DONE |-> Simple("branch_done")]),
        branch_done |-> Final,
        review      |-> State([PASS |-> Simple("completed")]),
        completed   |-> Final,
        failed      |-> Final]]

MCMachine == [fan |-> Fan]
MCKeys == {<< >>, <<"lint">>, <<"test">>}
MCPanes == {<< >>, <<"lint">>}

\* All that the proofs ask of a catalogue with forks.
ASSUME MCForkCatalogue == NoReviews /\ ForksStandAlone /\ OneLevel

=============================================================================
