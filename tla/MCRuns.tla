------------------------------- MODULE MCRuns -------------------------------
(***************************************************************************)
(* One client with two catalogues, one of them in a behaviour: two runs of *)
(* a small workflow whose last step is reviewed, or one run of a workflow  *)
(* that is interrupted, invokes a child and starts with a decision record. *)
(***************************************************************************)
EXTENDS GatewaySafety, TLC

State(on) == [final |-> FALSE, on |-> on, safe_next |-> None, tools |-> None, denied |-> {}]

Final == [State(<< >>) EXCEPT !.final = TRUE]

Release ==
    [initial |-> "work", context |-> {}, guards |-> {}, debug |-> TRUE,
     approval_mode |-> "ui", adr |-> FALSE, interrupts |-> << >>,
     states |->
       [work |-> State([SUBMIT |-> Full("done", {}, TRUE), GIVE_UP |-> Simple("failed")]),
        done |-> Final,
        failed |-> Final]]

Build ==
    [initial |-> "start", context |-> {}, guards |-> {}, debug |-> FALSE,
     approval_mode |-> "external", adr |-> TRUE, interrupts |-> [spec |-> "fix"],
     states |->
       [start  |-> State([SCAN |-> Invoke("scan", "wrap", None)]),
        wrap   |-> State([SUBMIT |-> Full("done", {}, TRUE), STOP |-> Simple("failed")]),
        fix    |-> State([BACK |-> Simple(ReturnTarget)]),
        done   |-> Final,
        failed |-> Final]]

\* The child: an interrupt that returns, an event that only fits by default,
\* and a guarded verdict.
Scan ==
    [initial |-> "look", context |-> {}, guards |-> {"clean"}, debug |-> FALSE,
     approval_mode |-> "ui", adr |-> FALSE, interrupts |-> [spec |-> "redo"],
     states |->
       [redo   |-> State([BACK |-> Simple(ReturnTarget)]),
        look   |-> [State([SKIP |-> Simple("look")]) EXCEPT !.safe_next = "judge"],
        judge  |-> State([SUBMIT |-> Guarded(<<[target |-> "ok", guards |-> {"clean"}],
                                               [target |-> "failed", guards |-> {}]>>)]),
        ok     |-> Final,
        failed |-> Final]]

Record ==
    [Scan EXCEPT !.initial = "record", !.guards = {}, !.interrupts = << >>,
                 !.states = [record |-> State([SUBMIT |-> Simple("recorded")]),
                             recorded |-> Final]]

MCMachine == "release" :> Release @@ "build" :> Build @@ "scan" :> Scan @@ "adr-record" :> Record
MCKeys == {<< >>}

\* All that the proofs ask of a catalogue, here with children to ask it of.
ASSUME MCRunsCatalogue ==
    /\ NoForks /\ ChildrenReturn /\ Closed /\ Flat /\ ChildrenMoveByEvents /\ ReviewsKeepStill
    /\ IsChild("scan") /\ IsChild(ADR) /\ ReturnBound(Scan) = {"redo"}

MostRuns == [release |-> 2, build |-> 1]

\* A context's facts are only looked at by a guard, and "release" has none.
Plain(s) ==
    s # None /\ s.wf = "release" =>
      s.ctx.facts = {} /\ (s.pending # None => s.pending.ctx.facts = {})

\* How much of the catalogue is explored: all runs of a behaviour are of one workflow,
\* and "build" has one.
OneWorkflow ==
    /\ \A r, q \in DOMAIN rows : rows[r].wf = rows[q].wf
    /\ \A r \in DOMAIN rows :
         /\ rows[r].wf \in DOMAIN MostRuns /\ Cardinality(DOMAIN rows) <= MostRuns[rows[r].wf]
         /\ Plain(rows[r].ckpt)
    /\ \A k \in Keys : Plain(sessions[k])
    /\ \A a \in DOMAIN service : service[a].ctx.facts = {}

=============================================================================
