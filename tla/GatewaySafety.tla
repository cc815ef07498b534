---------------------------- MODULE GatewaySafety ----------------------------
(***************************************************************************)
(* What the gateway promises about approvals, runs, subflows, interrupts   *)
(* and forks.                                                              *)
(***************************************************************************)
EXTENDS Gateway

-----------------------------------------------------------------------------
(* Types.                                                                  *)

IsContext(c) ==
    /\ DOMAIN c = {"facts", "ret", "fork"}
    /\ c.facts \subseteq Facts

IsSession(s) ==
    /\ DOMAIN s = {"id", "wf", "state", "ctx", "pending", "subflow"}
    /\ s.id \in Keys
    /\ s.wf \in DOMAIN Machine
    /\ IsContext(s.ctx)
    /\ s.pending # None => s.pending.id \in Approvals /\ IsContext(s.pending.ctx)
    /\ s.subflow # None => s.subflow.wf \in DOMAIN Machine /\ IsContext(s.subflow.ctx)

RunStatus == {"running", "paused", "stopped", "completed", "blocked", "failed"}

IsRow(row) ==
    /\ DOMAIN row = {"wf", "sid", "status", "state", "ckpt", "audit"}
    /\ row.wf \in DOMAIN Machine
    /\ row.status \in RunStatus
    /\ IsSession(row.ckpt)
    /\ row.audit \in [Approvals -> Nat]

IsGateway(g) ==
    /\ DOMAIN g = {"sid", "active", "run"}
    /\ g.sid \in Keys
    /\ g.active \in DOMAIN Machine \cup {None}
    /\ g.run # None => g.run \in DOMAIN rows

SessionsOK ==
    /\ DOMAIN sessions = Keys
    /\ \A k \in Keys : sessions[k] # None => IsSession(sessions[k]) /\ sessions[k].id = k

GatewaysOK ==
    /\ DOMAIN gw = Transports
    /\ \A t \in Transports : gw[t] # None => IsGateway(gw[t])

RowsOK ==
    /\ DOMAIN rows \subseteq Runs
    /\ \A r \in DOMAIN rows : IsRow(rows[r])

WritesOK ==
    /\ \A w \in appends : w.run \in DOMAIN rows /\ w.approval \in DOMAIN service
    /\ \A w \in ends : w.run \in DOMAIN rows /\ w.status \in RunStatus

ServiceOK ==
    /\ DOMAIN service \subseteq Approvals
    /\ \A a \in DOMAIN service :
         /\ DOMAIN service[a] = {"status", "run", "from", "to", "ctx"}
         /\ service[a].status \in {"pending", "approved", "rejected"}
         /\ IsContext(service[a].ctx)

\* The type invariant.  Sessions are stored under their own id, and every run
\* that a transport or a spawned write names has a row.
TypeOK ==
    /\ SessionsOK
    /\ GatewaysOK
    /\ RowsOK
    /\ WritesOK
    /\ ServiceOK
    /\ parked \in {0} \cup Approvals
    /\ faults \in 0 .. MaxFaults

-----------------------------------------------------------------------------
(* Approvals.                                                              *)

Approved(a) == a \in DOMAIN service /\ service[a].status = "approved"

\* A state of def that, as its author wrote it, is entered only by a reviewed
\* transition.
EnteredOnlyByReview(def, state) ==
    /\ ~ def.debug
    /\ state # def.initial
    /\ \A i \in DOMAIN def.interrupts : def.interrupts[i] # state
    /\ \A s \in DOMAIN def.states : def.states[s].safe_next # state
    /\ \A t \in Transitions(def) : state \in AllTargets(t) => RequiresApproval(t)
    /\ \A t \in Forks(def) : state \notin ForkStates(t)
    /\ \A t \in Transitions(def) :
         t.kind \in {"fork", "invoke"} /\ t.on_fail = None => state # "failed"
    /\ def.adr => state # "failed"

\* The same, and no tool list through which a tool call could enter it.
Gated(def, state) == EnteredOnlyByReview(def, state) /\ def.states[state].tools = None

Reviewed(state) == \E a \in DOMAIN service : Approved(a) /\ service[a].to = state

\* A workflow with local reviews is in a gated state only if a reviewer has
\* approved a transition into it: handle_transition parks it, whatever
\* crashes, interrupts, polls, callbacks and recoveries come in between.
GateHonoured ==
    \A k \in Keys : sessions[k] # None /\ Def(sessions[k]).approval_mode = "ui" =>
        \A state \in DOMAIN Def(sessions[k]).states :
            sessions[k].state = state /\ Gated(Def(sessions[k]), state) => Reviewed(state)

\* The same for every state its author put behind a review, tool list or not:
\* "A review-marked transition should never silently advance" (gateway.rs).
ReviewNeverSkipped ==
    \A k \in Keys : sessions[k] # None /\ Def(sessions[k]).approval_mode = "ui" =>
        \A state \in DOMAIN Def(sessions[k]).states :
            sessions[k].state = state /\ EnteredOnlyByReview(Def(sessions[k]), state) => Reviewed(state)

\* A decision is in a run's history at most once, however often its receipt is
\* replayed after a crash or a failed save (record_run_transition).
ApprovalAuditedOnce ==
    \A r \in DOMAIN rows : \A a \in Approvals : rows[r].audit[a] <= 1

\* The history holds a decision only if the reviewer approved it.
AuditImpliesApproved ==
    \A r \in DOMAIN rows : \A a \in Approvals : rows[r].audit[a] > 0 => Approved(a)

\* ... and it is the history of the run the decision was asked for.
AuditInOwnRun ==
    \A r \in DOMAIN rows : \A a \in Approvals : rows[r].audit[a] > 0 => service[a].run = r

\* A parked transition can be recovered if the process is lost: while its run
\* is running, the row holds a checkpoint with this very approval, one that
\* from_checkpoint accepts (persist_approval_checkpoint saves before the
\* approval is presented).
ParkIsDurable ==
    \A t \in Transports : Ready(t) /\ gw[t].run # None /\ Cur(t).pending # None =>
        LET row == rows[gw[t].run]
        IN  row.status = "running" =>
              /\ row.ckpt.pending # None
              /\ row.ckpt.pending.id = Cur(t).pending.id
              /\ CheckpointOK(row.ckpt, t, row.state)

-----------------------------------------------------------------------------
(* Runs.                                                                   *)

\* A paused run can be resumed: from_checkpoint accepts what pause saved.
PausedIsResumable ==
    \A r \in DOMAIN rows : rows[r].status = "paused" =>
        CheckpointOK(rows[r].ckpt, rows[r].sid, rows[r].state)

-----------------------------------------------------------------------------
(* Subflows and interrupts.                                                *)

\* A session is in a state of the definition it runs, and so is the parent it
\* has suspended: no event, return, join or approval leads outside.
StateDefined ==
    \A k \in Keys : sessions[k] # None =>
        LET s == sessions[k]
        IN  /\ s.state \in DOMAIN Def(s).states
            /\ s.subflow # None => s.subflow.state \in DOMAIN Machine[s.subflow.wf].states

\* The state an interrupt handler returns to is one of the definition that
\* was interrupted.
ReturnIsLocal ==
    \A k \in Keys : sessions[k] # None /\ sessions[k].ctx.ret # None =>
        sessions[k].ctx.ret \in DOMAIN Def(sessions[k]).states

\* A child workflow is active only until it reaches a final state: then its
\* parent goes on.
SubflowReturns ==
    \A k \in Keys : sessions[k] # None /\ sessions[k].subflow # None =>
        ~ IsFinal(Def(sessions[k]), sessions[k].state)

\* The workflow a run was started with is the one its session runs, or the
\* parent that waits for it: no sequence of subflows, pauses and recoveries
\* loses it.
RunKeepsWorkflow ==
    \A t \in Transports : Ready(t) /\ gw[t].run # None =>
        LET s == Cur(t)
        IN  \/ s.wf = rows[gw[t].run].wf
            \/ s.subflow # None /\ s.subflow.wf = rows[gw[t].run].wf

-----------------------------------------------------------------------------
(* What the author of a catalogue can see to.  The properties above hold   *)
(* for the catalogues that satisfy some of these; GateProofs says which.   *)

\* No workflow has a parallel section.
NoForks == \A wf \in DOMAIN Machine : Forks(Machine[wf]) = {}

\* wf runs as the child of another workflow, or as its decision record.
IsChild(wf) ==
    \/ wf = ADR /\ \E w \in DOMAIN Machine : Machine[w].adr
    \/ \E w \in DOMAIN Machine : \E t \in Transitions(Machine[w]) :
         t.kind = "invoke" /\ t.machine = wf

\* Where the parent goes on when the child it invoked by t has failed.
FailTarget(t) == IF t.on_fail = None THEN "failed" ELSE t.on_fail

\* No state is entered because of the tools it lists.
ToolsMoveNothing(def) == \A s \in DOMAIN def.states : def.states[s].tools = None

\* A transition of def is parked for a local review.
MayPark(def) == def.approval_mode = "ui" /\ \E t \in Transitions(def) : RequiresApproval(t)

\* Every name a workflow mentions is one of its states.
Closed ==
    \A wf \in DOMAIN Machine :
        LET def   == Machine[wf]
            names == DOMAIN def.states
        IN  /\ def.initial \in names
            /\ \A i \in DOMAIN def.interrupts : def.interrupts[i] \in names
            /\ \A s \in names : def.states[s].safe_next \in names \cup {None}
            /\ \A t \in Transitions(def) :
                 IF t.kind = "invoke" THEN {t.on_complete, FailTarget(t)} \subseteq names
                 ELSE AllTargets(t) \subseteq names \cup {ReturnTarget}
            /\ def.adr => "failed" \in names

\* What a session records of the workflow it suspends; None is no such record.
Names == UNION {DOMAIN Machine[wf].states : wf \in DOMAIN Machine}

Contexts == [facts : SUBSET Facts, ret : Names \cup {None}, fork : {None}]

Suspended ==
    [wf : DOMAIN Machine, state : Names, ctx : Contexts,
     on_complete : Names, on_fail : Names \cup {None}]

ASSUME NoneAssumption == None \notin Suspended

\* Of the states X none is final, and the only way out of X is $return.
Encloses(def, X) ==
    \A s \in X :
        /\ ~ def.states[s].final
        /\ def.states[s].safe_next \in X \cup {None}
        /\ \A e \in DOMAIN def.states[s].on :
             LET t == def.states[s].on[e]
             IN  IF t.kind = "invoke" THEN {t.on_complete, FailTarget(t)} \subseteq X
                 ELSE AllTargets(t) \subseteq X \cup {ReturnTarget}

\* The states from which a workflow must return before it can end.
ReturnBound(def) == UNION {X \in SUBSET DOMAIN def.states : Encloses(def, X)}

\* A child that is interrupted returns before it ends; so it leaves nothing
\* in _interrupt_return that its parent would take over.
ChildrenReturn ==
    \A wf \in DOMAIN Machine : LET def == Machine[wf] IN
        IsChild(wf) /\ DOMAIN def.interrupts # {} =>
            /\ \A i \in DOMAIN def.interrupts : def.interrupts[i] \in ReturnBound(def)
            /\ ~ def.debug
            /\ ToolsMoveNothing(def)

\* A child moves by its events only, and does not start in a final state.
ChildrenMoveByEvents ==
    \A wf \in DOMAIN Machine : LET def == Machine[wf] IN
        IsChild(wf) =>
            /\ ~ def.debug
            /\ ToolsMoveNothing(def)
            /\ ~ MayPark(def)
            /\ ~ IsFinal(def, def.initial)

\* A child has no child of its own.
Flat ==
    \A wf \in DOMAIN Machine :
        IsChild(wf) => \A t \in Transitions(Machine[wf]) : t.kind # "invoke"

\* Nothing moves a workflow that waits for a review.
ReviewsKeepStill ==
    \A wf \in DOMAIN Machine :
        MayPark(Machine[wf]) =>
            DOMAIN Machine[wf].interrupts = {} /\ ToolsMoveNothing(Machine[wf])

\* No transition is parked for a local review.
NoReviews == \A wf \in DOMAIN Machine : ~ MayPark(Machine[wf])

\* A workflow that forks is no child and has none, and each of its forks has a branch.
ForksStandAlone ==
    \A wf \in DOMAIN Machine : Forks(Machine[wf]) # {} =>
        /\ ~ IsChild(wf)
        /\ \A t \in Transitions(Machine[wf]) :
             t.kind # "invoke" /\ (t.kind = "fork" => DOMAIN t.branches # {})

\* What a session may record of one of the forks; None is no such record.
ForkRecord(t) ==
    [order : {[i \in DOMAIN t.branches |-> t.branches[i].name]},
     status : [{t.branches[i].name : i \in DOMAIN t.branches} -> {"pending", "running", "completed"}],
     join : {t.join}, on_complete : {t.on_complete}, on_fail : {t.on_fail}]

ASSUME NoneIsNoFork ==
    \A wf \in DOMAIN Machine : \A t \in Forks(Machine[wf]) : None \notin ForkRecord(t)

\* A branch has no branches.
OneLevel == Keys \subseteq Seq(STRING) /\ \A k \in Keys : Len(k) <= 1

-----------------------------------------------------------------------------
(* Forks.                                                                  *)

\* A fork under "all" ends, other than by deactivation or loss of the process,
\* only in its on_complete state and with every branch but the last reported
\* before: no load, pane or branch gives it up (BRANCH_DONE, load_workflow).
JoinWaitsForAll ==
    [][\A k \in Keys :
         (/\ sessions[k] # None /\ HasFork(sessions[k])
          /\ sessions[k].ctx.fork.join = "all"
          /\ sessions'[k] # None /\ ~ HasFork(sessions'[k])
          /\ ~ \E t \in Transports : Deactivate(t) /\ gw[t].sid = k)
         => LET fork == sessions[k].ctx.fork
            IN  /\ Cardinality(DOMAIN fork.status \ Completed(fork)) <= 1
                /\ sessions'[k].state = fork.on_complete]_vars

=============================================================================
