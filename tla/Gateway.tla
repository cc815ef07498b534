------------------------------ MODULE Gateway ------------------------------
(***************************************************************************)
(* The MCP gateway with durable run storage: the transports of one client  *)
(* (its root connection and the panes it opens on fork branches), the      *)
(* sessions they share in one session manager, the run rows in the         *)
(* database, the writes a handler spawns without waiting for them, and the *)
(* approval service.                                                       *)
(*                                                                         *)
(* Every request of a transport is handled under that transport's lock, so *)
(* a handler is one action.  What can happen in between are the steps of   *)
(* the other transports, the spawned writes reaching the database in any   *)
(* order, the decisions of the reviewers, and the loss of the process with *)
(* everything it holds in memory.  A request to the database or to the     *)
(* approval service may take effect although its answer is lost; crashes   *)
(* and lost answers together are bounded by MaxFaults.                     *)
(***************************************************************************)
EXTENDS Session

CONSTANTS
    Keys,           \* session keys: sequences of branch names below the root
    Transports,     \* the keys some client connection uses, a subset of Keys
    Runs,           \* run ids, 1 .. n
    Approvals,      \* approval ids, 1 .. n
    Events,         \* the events a client may send
    Tools,          \* the tools a client may call
    Default,        \* the workflow a new session is created with
    MaxFaults,      \* crashes and lost answers
    MaxWrites       \* record_run_end updates in flight at a time

\* The built-in workflow that records a decision.
ADR == "adr-record"

ASSUME CatalogueAssumption ==
    /\ Default \in DOMAIN Machine
    /\ \A wf \in DOMAIN Machine :
         /\ Machine[wf].context \subseteq Facts
         /\ Machine[wf].adr => ADR \in DOMAIN Machine

\* A transition has one of the shapes of TransitionDef.
ASSUME TransitionAssumption ==
    \A wf \in DOMAIN Machine : \A t \in Transitions(Machine[wf]) :
        /\ t.kind \in {"full", "guarded", "fork", "invoke"}
        /\ t.kind = "invoke" => t.on_complete # None

ASSUME BoundsAssumption ==
    /\ Transports \subseteq Keys
    /\ Approvals \subseteq Nat
    /\ MaxFaults \in Nat

VARIABLES
    sessions,   \* [Keys -> None or a session], the session manager
    gw,         \* [Transports -> None or [sid, active, run]], the Gateway objects
    rows,       \* the table workflow_runs: a function from some of Runs to rows
    appends,    \* spawned appends of an approved transition to a run's history
    ends,       \* spawned record_run_end updates
    service,    \* the approval service: a function from some of Approvals to records
    parked,     \* how many approval ids have been generated
    faults

vars == <<sessions, gw, rows, appends, ends, service, parked, faults>>
memory == <<sessions, gw>>
storage == <<rows, appends, ends>>

-----------------------------------------------------------------------------
(* A transport's view.                                                     *)

NewGateway(t) == [sid |-> t, active |-> None, run |-> None]

Connected(t) == gw[t] # None

\* session_manager.get(&self.session_id)
Cur(t) == sessions[gw[t].sid]

Ready(t) == Connected(t) /\ Cur(t) # None

Put(t, s) == sessions' = [sessions EXCEPT ![gw[t].sid] = s]

NextRun == {r \in Runs \ DOMAIN rows : \A q \in Runs : q < r => q \in DOMAIN rows}

\* Function f with x added to its domain.
Extended(f, x, v) == [y \in DOMAIN f \cup {x} |-> IF y = x THEN v ELSE f[y]]

\* final_run_status
FinalRunStatus(state) == IF state \in {"blocked", "failed"} THEN state ELSE "completed"

\* Mutant: the write is spawned for a transport without a run, too.
EndWriteAlways(run, state, status) == {[run |-> run, state |-> state, status |-> status]}

EndWrite(run, state, status) ==
    IF run = None THEN {} ELSE {[run |-> run, state |-> state, status |-> status]}

AppendWrite(t, a) ==
    IF gw[t].run = None THEN {} ELSE {[run |-> gw[t].run, transport |-> t, approval |-> a]}

Fault == faults < MaxFaults /\ faults' = faults + 1

-----------------------------------------------------------------------------
(* Connecting, loading, pausing and ending a workflow.                     *)

\* A first request of a transport: the session may exist already, made by a
\* fork of the parent.
Connect(t) ==
    /\ ~ Connected(t)
    /\ gw' = [gw EXCEPT ![t] = NewGateway(t)]
    /\ sessions' = IF sessions[t] # None THEN sessions
                   ELSE [sessions EXCEPT ![t] = NewSession(t, Default)]
    /\ UNCHANGED <<storage, service, parked, faults>>

\* The session a fresh load prepares: the decision record, if the workflow
\* asks for one, runs before its initial state.
Prepared(key, wf) ==
    LET s == NewSession(key, wf)
    IN  IF ~ Machine[wf].adr THEN {s}
        ELSE {StartSubflow(s, ADR, c, Machine[wf].initial, "failed")
              : c \in Patched(NewContext(Machine[ADR]))}

NewRow(wf, s) ==
    [wf |-> wf, sid |-> s.id, status |-> "running", state |-> s.state,
     ckpt |-> s, audit |-> [a \in Approvals |-> 0]]

\* The workflows validate_definition accepts.
Valid == {wf \in DOMAIN Machine : Validate(Machine[wf])}

\* Mutant: a load gives up the fork of the session it replaces.
MayLoadOverFork(t, wf) == Connected(t) /\ wf \in Valid

MayLoad(t, wf) ==
    /\ Connected(t)
    /\ wf \in Valid
    /\ Cur(t) # None => ~ HasFork(Cur(t))

Load(t, wf) ==
    /\ MayLoad(t, wf)
    /\ \E r \in NextRun, s \in Prepared(gw[t].sid, wf) :
         /\ rows' = Extended(rows, r, NewRow(wf, s))
         /\ Put(t, s)
         /\ gw' = [gw EXCEPT ![t].active = wf, ![t].run = r]
    /\ UNCHANGED <<appends, ends, service, parked, faults>>

\* The row was inserted, but neither the answer nor the check that follows
\* came through: an error, and the session is left as it was.
LoadUnconfirmed(t, wf) ==
    /\ MayLoad(t, wf)
    /\ \E r \in NextRun, s \in Prepared(gw[t].sid, wf) :
         rows' = Extended(rows, r, NewRow(wf, s))
    /\ Fault
    /\ UNCHANGED <<memory, appends, ends, service, parked>>

\* paused_run
MayResume(t, r) ==
    /\ MayLoad(t, rows[r].wf)
    /\ rows[r].status = "paused"
    /\ rows[r].sid = gw[t].sid
    /\ CheckpointOK(rows[r].ckpt, gw[t].sid, rows[r].state)

\* Mutant: the transport keeps the run id it had.
ResumeKeepingRun(t, r) ==
    /\ MayResume(t, r)
    /\ rows' = [rows EXCEPT ![r].status = "running"]
    /\ Put(t, rows[r].ckpt)
    /\ gw' = [gw EXCEPT ![t].active = rows[r].wf]
    /\ UNCHANGED <<appends, ends, service, parked, faults>>

Resume(t, r) ==
    /\ MayResume(t, r)
    /\ rows' = [rows EXCEPT ![r].status = "running"]
    /\ Put(t, rows[r].ckpt)
    /\ gw' = [gw EXCEPT ![t].active = rows[r].wf, ![t].run = r]
    /\ UNCHANGED <<appends, ends, service, parked, faults>>

ResumeUnconfirmed(t, r) ==
    /\ MayResume(t, r)
    /\ rows' = [rows EXCEPT ![r].status = "running"]
    /\ Fault
    /\ UNCHANGED <<memory, appends, ends, service, parked>>

\* Mutant: the row keeps the state it had.
PausedRowOldState(t) ==
    [rows EXCEPT ![gw[t].run].status = "paused", ![gw[t].run].ckpt = Cur(t)]

PausedRow(t) ==
    [rows EXCEPT ![gw[t].run].status = "paused", ![gw[t].run].state = Cur(t).state,
                 ![gw[t].run].ckpt = Cur(t)]

\* The row's status is not looked at; the run id is kept.
Pause(t) ==
    /\ Ready(t)
    /\ gw[t].run # None
    /\ rows' = PausedRow(t)
    /\ gw' = [gw EXCEPT ![t].active = None]
    /\ UNCHANGED <<sessions, appends, ends, service, parked, faults>>

PauseUnconfirmed(t) ==
    /\ Ready(t)
    /\ gw[t].run # None
    /\ rows' = PausedRow(t)
    /\ Fault
    /\ UNCHANGED <<memory, appends, ends, service, parked>>

Deactivate(t) ==
    /\ Connected(t)
    /\ IF Cur(t) = None THEN UNCHANGED <<sessions, ends>>
       ELSE /\ Put(t, [Cur(t) EXCEPT !.ctx.fork = None])
            /\ ends' = IF IsFinal(Def(Cur(t)), Cur(t).state) THEN ends
                       ELSE ends \cup EndWrite(gw[t].run, Cur(t).state, "stopped")
    /\ Cardinality(ends') <= MaxWrites
    /\ gw' = [gw EXCEPT ![t].active = None, ![t].run = None]
    /\ UNCHANGED <<rows, appends, service, parked, faults>>

-----------------------------------------------------------------------------
(* statewright_transition.                                                 *)

\* INTERRUPT:name, before anything else is looked at.
Interrupted(s, name) ==
    UpdateState(s, Def(s).interrupts[name], [s.ctx EXCEPT !.ret = s.state])

MayInterrupt(s, name) == name \in DOMAIN Def(s).interrupts /\ s.ctx.ret = None

Interrupt(t) ==
    /\ Ready(t)
    /\ \E name \in DOMAIN Def(Cur(t)).interrupts :
         MayInterrupt(Cur(t), name) /\ Put(t, Interrupted(Cur(t), name))
    /\ UNCHANGED <<gw, storage, service, parked, faults>>

BranchDone(t) ==
    /\ Ready(t)
    /\ HasFork(Cur(t))
    /\ \E b \in DOMAIN Cur(t).ctx.fork.status : Put(t, BranchFinished(Cur(t), b))
    /\ UNCHANGED <<gw, storage, service, parked, faults>>

\* What handle_transition finds for an ordinary event.
Outcomes(t, e) ==
    IF ~ Ready(t) THEN {}
    ELSE LET s == Cur(t)
         IN  IF s.pending # None \/ IsFinal(Def(s), s.state) THEN {}
             ELSE Resolve(Def(s), s.state, e, s.ctx)

NeedsReview(t, r) == RequiresApproval(r.via) /\ Def(Cur(t)).approval_mode = "ui"

\* persist_approval_checkpoint finds the row it may update.
MayPersist(t) ==
    /\ gw[t].run # None
    /\ rows[gw[t].run].sid = t
    /\ rows[gw[t].run].status = "running"

\* Mutant: the state is saved, the checkpoint is not.
PersistedStateOnly(t, s) == [rows EXCEPT ![gw[t].run].state = s.state]

Persisted(t, s) ==
    [rows EXCEPT ![gw[t].run].state = s.state, ![gw[t].run].ckpt = s]

Parked(t, r, c) ==
    SetPending(Cur(t), [id |-> parked + 1, from |-> Cur(t).state, to |-> r.state, ctx |-> c])

\* The transition is not applied: the session keeps its state and context,
\* and the checkpoint is saved before the approval is presented.
Park(t, e) ==
    /\ parked + 1 \in Approvals
    /\ \E r \in Outcomes(t, e) : \E c \in Patched(r.ctx) :
         /\ NeedsReview(t, r)
         /\ MayPersist(t)
         /\ Put(t, Parked(t, r, c))
         /\ rows' = Persisted(t, Parked(t, r, c))
    /\ parked' = parked + 1
    /\ UNCHANGED <<gw, appends, ends, service, faults>>

\* The checkpoint was written, but not confirmed: the approval is dropped
\* from the session again.
ParkUnconfirmed(t, e) ==
    /\ parked + 1 \in Approvals
    /\ \E r \in Outcomes(t, e) : \E c \in Patched(r.ctx) :
         /\ NeedsReview(t, r)
         /\ MayPersist(t)
         /\ rows' = Persisted(t, Parked(t, r, c))
    /\ parked' = parked + 1
    /\ Fault
    /\ UNCHANGED <<memory, appends, ends, service>>

BranchKey(key, b) == Append(key, b)

BranchesAt(key, fork, k) ==
    {i \in DOMAIN fork.branches : BranchKey(key, fork.branches[i].name) = k}

\* The parent stays where it is, with the fork in its context, and the
\* sessions of the branches are set up.
Forked(t, fork, c) ==
    [k \in Keys |->
        IF k = gw[t].sid
        THEN UpdateState(Cur(t), Cur(t).state,
                         [c EXCEPT !.fork = ForkContext(fork), !.ret = None])
        ELSE LET at == BranchesAt(gw[t].sid, fork, k)
             IN  IF at = {} THEN sessions[k]
                 ELSE BranchSession(sessions[k], k, Cur(t).wf, fork.branches[Min(at)])]

StartFork(t, e) ==
    /\ \E r \in Outcomes(t, e) : \E c \in Patched(r.ctx) :
         /\ ~ NeedsReview(t, r)
         /\ r.via.kind = "fork"
         /\ \A i \in DOMAIN r.via.branches : BranchKey(gw[t].sid, r.via.branches[i].name) \in Keys
         /\ sessions' = Forked(t, r.via, c)
    /\ UNCHANGED <<gw, storage, service, parked, faults>>

\* The parent is suspended where it is, with the context it has; the data of
\* the event is not used.
InvokeSubflow(t, e) ==
    /\ \E r \in Outcomes(t, e) :
         /\ r.via.kind = "invoke"
         /\ r.via.machine \in DOMAIN Machine
         /\ \E c \in Patched(NewContext(Machine[r.via.machine])) :
              Put(t, StartSubflow(Cur(t), r.via.machine, c, r.via.on_complete, r.via.on_fail))
    /\ UNCHANGED <<gw, storage, service, parked, faults>>

Advance(t, e) ==
    /\ \E r \in Outcomes(t, e) : \E c \in Patched(r.ctx) :
         LET s     == UpdateState(Cur(t), r.state, c)
             final == IsFinal(Def(s), r.state)
         IN  /\ ~ NeedsReview(t, r)
             /\ r.via.kind \notin {"fork", "invoke"}
             /\ IF final /\ s.subflow # None
                THEN \E s2 \in CompleteSubflow(s) : Put(t, s2)
                ELSE Put(t, s)
             /\ ends' = IF final /\ s.subflow = None
                        THEN ends \cup EndWrite(gw[t].run, r.state, FinalRunStatus(r.state))
                        ELSE ends
    /\ Cardinality(ends') <= MaxWrites
    /\ UNCHANGED <<gw, rows, appends, service, parked, faults>>

\* load_workflow(branch = b): this transport works on the branch's session
\* from now on.
SwitchBranch(t) ==
    /\ Ready(t)
    /\ HasFork(Cur(t))
    /\ \E b \in DOMAIN Cur(t).ctx.fork.status :
         /\ BranchKey(gw[t].sid, b) \in Keys
         /\ sessions[BranchKey(gw[t].sid, b)] # None
         /\ gw' = [gw EXCEPT ![t].sid = BranchKey(gw[t].sid, b)]
    /\ UNCHANGED <<sessions, storage, service, parked, faults>>

\* statewright_force_state, with data that names neither _interrupt_return nor
\* _fork (this handler does not strip them).
ForceState(t) ==
    /\ Ready(t)
    /\ Def(Cur(t)).debug
    /\ \E state \in DOMAIN Def(Cur(t)).states, c \in Patched(Cur(t).ctx) :
         Put(t, UpdateState(ClearPending(Cur(t)), state, c))
    /\ UNCHANGED <<gw, storage, service, parked, faults>>

-----------------------------------------------------------------------------
(* Tool calls: the part of them that moves a workflow.                     *)

\* The host's pre-tool hook asks the gateway; a parked workflow denies.
AdapterPreTool(t, tool) ==
    /\ Ready(t)
    /\ gw[t].active # None
    /\ Cur(t).pending = None
    /\ \E state \in ImplicitTargets(Def(Cur(t)), Cur(t).state, Cur(t).ctx, tool) :
         Put(t, UpdateState(Cur(t), state, Cur(t).ctx))
    /\ UNCHANGED <<gw, storage, service, parked, faults>>

\* A call that goes through the gateway to an upstream server.
UpstreamTool(t, tool) ==
    /\ Ready(t)
    /\ gw[t].active # None
    /\ \E state \in ImplicitTargets(Def(Cur(t)), Cur(t).state, Cur(t).ctx, tool) :
         Put(t, UpdateState(Cur(t), state, Cur(t).ctx))
    /\ UNCHANGED <<gw, storage, service, parked, faults>>

\* An edited file is one that an interrupt watches.
FileEdited(t) ==
    \E name \in DOMAIN Def(Cur(t)).interrupts :
        MayInterrupt(Cur(t), name) /\ Put(t, Interrupted(Cur(t), name))

\* A call the state allows, of which the upstream server reports an edit.
UpstreamEdit(t, tool) ==
    /\ Ready(t)
    /\ gw[t].active # None
    /\ Permitted(Def(Cur(t)), Cur(t).state, tool)
    /\ FileEdited(t)
    /\ UNCHANGED <<gw, storage, service, parked, faults>>

\* The host's post-tool hook reports an edit.
AdapterPostTool(t) ==
    /\ Ready(t)
    /\ gw[t].active # None
    /\ FileEdited(t)
    /\ UNCHANGED <<gw, storage, service, parked, faults>>

-----------------------------------------------------------------------------
(* Approvals.                                                              *)

\* recover_pending_approval, for a transport that owns no workflow.  The
\* gateway is created on the way if there is none, its session is not.
RecoverPendingApproval(t, r) ==
    LET g == IF Connected(t) THEN gw[t] ELSE NewGateway(t)
    IN  /\ g.run = None
        /\ g.active = None
        /\ rows[r].sid = t
        /\ rows[r].status = "running"
        /\ CheckpointOK(rows[r].ckpt, g.sid, rows[r].state)
        /\ rows[r].ckpt.pending # None
        /\ rows[r].ckpt.wf \in Valid
        /\ sessions' = [sessions EXCEPT ![g.sid] = rows[r].ckpt]
        /\ gw' = [gw EXCEPT ![t] = [g EXCEPT !.active = rows[r].wf, !.run = r]]
        /\ UNCHANGED <<storage, service, parked, faults>>

\* A poll for an approval that no run has: the gateway is created, and stays
\* without a session.
PollUnknown(t) ==
    /\ ~ Connected(t)
    /\ gw' = [gw EXCEPT ![t] = NewGateway(t)]
    /\ UNCHANGED <<sessions, storage, service, parked, faults>>

\* A poll of the client: approval_projection tells the service of the parked
\* transition, which records it the first time.
PresentApproval(t) ==
    /\ Ready(t)
    /\ gw[t].run # None
    /\ LET p == Cur(t).pending
       IN  /\ p # None
           /\ p.id \notin DOMAIN service
           /\ service' = Extended(service, p.id,
                [status |-> "pending", run |-> gw[t].run, from |-> p.from, to |-> p.to, ctx |-> p.ctx])
    /\ UNCHANGED <<memory, storage, parked, faults>>

\* A reviewer decides, once; the context may be edited.
Decide(a) ==
    /\ service[a].status = "pending"
    /\ \E status \in {"approved", "rejected"}, c \in Patched(service[a].ctx) :
         service' = [service EXCEPT ![a].status = status, ![a].ctx = c]
    /\ UNCHANGED <<memory, storage, parked, faults>>

\* Mutant: any decision applies the transition.
ResolvedAlways(s, receipt) ==
    IF s.pending = None THEN s
    ELSE ClearPending(UpdateState(s, s.pending.to, receipt.ctx))

\* apply_approval_receipt: the session the receipt leaves.
Resolved(s, receipt) ==
    IF s.pending = None THEN s
    ELSE IF receipt.status = "approved"
         THEN ClearPending(UpdateState(s, s.pending.to, receipt.ctx))
         ELSE ClearPending(s)

\* The receipt of a decided approval may be applied: it is this run's, and
\* the session has no other transition parked.
MayApply(t, a) ==
    /\ Ready(t)
    /\ service[a].status # "pending"
    /\ gw[t].run = service[a].run
    /\ LET p == Cur(t).pending
       IN  p # None => /\ p.id = a
                       /\ p.from = service[a].from
                       /\ p.to = service[a].to

\* Mutant: a rejection is appended as well.
ReceiptAppendsAlways(t, a) ==
    IF Cur(t).pending # None THEN appends \cup AppendWrite(t, a) ELSE appends

ReceiptAppends(t, a) ==
    IF Cur(t).pending # None /\ service[a].status = "approved"
    THEN appends \cup AppendWrite(t, a)
    ELSE appends

\* A poll that gets a decided receipt: it is applied, and then the session as
\* it is now is saved, if the row may still be updated.
ApplyReceipt(t, a) ==
    /\ MayApply(t, a)
    /\ Put(t, Resolved(Cur(t), service[a]))
    /\ appends' = ReceiptAppends(t, a)
    /\ rows' = IF MayPersist(t) THEN Persisted(t, Resolved(Cur(t), service[a])) ELSE rows
    /\ UNCHANGED <<gw, ends, service, parked, faults>>

\* The same, when the save fails.
ApplyReceiptUnsaved(t, a) ==
    /\ MayApply(t, a)
    /\ Put(t, Resolved(Cur(t), service[a]))
    /\ appends' = ReceiptAppends(t, a)
    /\ Fault
    /\ UNCHANGED <<gw, rows, ends, service, parked>>

\* The service calls the gateway about a decision; nothing is saved.
ApprovalCallback(t, a) ==
    /\ Ready(t)
    /\ service[a].status # "pending"
    /\ LET s == Cur(t)
       IN  /\ s.pending # None
           /\ s.pending.id = a
           /\ IF service[a].status = "approved"
              THEN /\ \E c \in Patched(s.pending.ctx) :
                        Put(t, UpdateState(ClearPending(s), s.pending.to, c))
                   /\ appends' = appends \cup AppendWrite(t, a)
              ELSE /\ Put(t, ClearPending(s))
                   /\ UNCHANGED appends
    /\ UNCHANGED <<gw, rows, ends, service, parked, faults>>

-----------------------------------------------------------------------------
(* The database, and the loss of the process.                              *)

\* Mutant: the history is not searched for an entry of this approval.
AppendLandsAgain(w) ==
    /\ w \in appends
    /\ appends' = appends \ {w}
    /\ rows' = IF rows[w.run].sid = w.transport
               THEN [rows EXCEPT ![w.run].audit[w.approval] = @ + 1]
               ELSE rows
    /\ UNCHANGED <<memory, ends, service, parked, faults>>

\* The append finds its run by id and transport and is skipped if the history
\* holds an entry of this approval already.
AppendLands(w) ==
    /\ w \in appends
    /\ appends' = appends \ {w}
    /\ rows' = IF rows[w.run].sid = w.transport /\ rows[w.run].audit[w.approval] = 0
               THEN [rows EXCEPT ![w.run].audit[w.approval] = @ + 1]
               ELSE rows
    /\ UNCHANGED <<memory, ends, service, parked, faults>>

EndLands(w) ==
    /\ w \in ends
    /\ ends' = ends \ {w}
    /\ rows' = [rows EXCEPT ![w.run].status = w.status, ![w.run].state = w.state]
    /\ UNCHANGED <<memory, appends, service, parked, faults>>

\* Of the spawned writes, those that had left the process still land.
Crash ==
    /\ sessions' = [k \in Keys |-> None]
    /\ gw' = [t \in Transports |-> None]
    /\ appends' \in SUBSET appends
    /\ ends' \in SUBSET ends
    /\ Fault
    /\ UNCHANGED <<rows, service, parked>>

-----------------------------------------------------------------------------
Init ==
    /\ sessions = [k \in Keys |-> None]
    /\ gw = [t \in Transports |-> None]
    /\ rows = << >>
    /\ appends = {}
    /\ ends = {}
    /\ service = << >>
    /\ parked = 0
    /\ faults = 0

Lifecycle(t) ==
    \/ Connect(t)
    \/ \E wf \in DOMAIN Machine : Load(t, wf) \/ LoadUnconfirmed(t, wf)
    \/ \E r \in DOMAIN rows : Resume(t, r) \/ ResumeUnconfirmed(t, r)
    \/ Pause(t) \/ PauseUnconfirmed(t) \/ Deactivate(t)

Transition(t) ==
    \/ Interrupt(t) \/ BranchDone(t) \/ SwitchBranch(t) \/ ForceState(t)
    \/ \E e \in Events : \/ Park(t, e) \/ ParkUnconfirmed(t, e)
                         \/ StartFork(t, e) \/ InvokeSubflow(t, e) \/ Advance(t, e)

ToolCall(t) ==
    \/ \E tool \in Tools : \/ AdapterPreTool(t, tool) \/ UpstreamTool(t, tool)
                           \/ UpstreamEdit(t, tool)
    \/ AdapterPostTool(t)

Approval(t) ==
    \/ \E r \in DOMAIN rows : RecoverPendingApproval(t, r)
    \/ PollUnknown(t) \/ PresentApproval(t)
    \/ \E a \in DOMAIN service : \/ ApplyReceipt(t, a) \/ ApplyReceiptUnsaved(t, a)
                                 \/ ApprovalCallback(t, a)

Next ==
    \/ \E t \in Transports : Lifecycle(t) \/ Transition(t) \/ ToolCall(t) \/ Approval(t)
    \/ \E a \in DOMAIN service : Decide(a)
    \/ \E w \in appends : AppendLands(w)
    \/ \E w \in ends : EndLands(w)
    \/ Crash

Spec == Init /\ [][Next]_vars

=============================================================================
