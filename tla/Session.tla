------------------------------ MODULE Session ------------------------------
(***************************************************************************)
(* The gateway's session record (session.rs) and what the session manager  *)
(* does to one: create, update_state, start_subflow, complete_subflow, the *)
(* checkpoint and from_checkpoint.  Pure operators, no state.              *)
(*                                                                         *)
(*    id        instance_id, the key of the session in the manager         *)
(*    wf        the definition, as the name it has in Machine              *)
(*    state     current_state                                              *)
(*    ctx       context                                                    *)
(*    pending   pending_approval: None or [id, from, to, ctx]              *)
(*    subflow   None or the suspended parent                               *)
(*              [wf, state, ctx, on_complete, on_fail]                     *)
(*                                                                         *)
(* The counters a transition resets (iterations, files, bytes) and         *)
(* previous_state decide nothing here and are left out.                    *)
(***************************************************************************)
EXTENDS ToolPolicy

CONSTANTS
    Machine,    \* [workflow name -> definition], the catalogue
    Facts       \* the guards a context may satisfy

Def(s) == Machine[s.wf]

HasFork(s) == s.ctx.fork # None

-----------------------------------------------------------------------------
(* Contexts.                                                               *)

EmptyContext == [facts |-> {}, ret |-> None, fork |-> None]

NewContext(def) == [EmptyContext EXCEPT !.facts = def.context]

\* apply_context_patch with data from which _interrupt_return and _fork have
\* been stripped: any guard may hold afterwards.
Patched(ctx) == {[ctx EXCEPT !.facts = F] : F \in SUBSET Facts}

\* apply_context_patch of a whole context over another: its keys win.
Merged(under, over) ==
    Patched([under EXCEPT !.ret  = IF over.ret  = None THEN @ ELSE over.ret,
                          !.fork = IF over.fork = None THEN @ ELSE over.fork])

-----------------------------------------------------------------------------
(* Sessions.                                                               *)

NewSession(id, wf) ==
    [id |-> id, wf |-> wf, state |-> Machine[wf].initial,
     ctx |-> NewContext(Machine[wf]), pending |-> None, subflow |-> None]

UpdateState(s, state, ctx) == [s EXCEPT !.state = state, !.ctx = ctx]

\* set_pending_approval and clear_pending_approval.
SetPending(s, pending) == [s EXCEPT !.pending = pending]

ClearPending(s) == [s EXCEPT !.pending = None]

\* Mutant: the child's own name is recorded as that of the suspended workflow.
StartSubflowMisnamed(s, wf, ctx, on_complete, on_fail) ==
    [s EXCEPT !.wf = wf, !.state = Machine[wf].initial, !.ctx = ctx,
              !.subflow = [wf |-> wf, state |-> s.state, ctx |-> s.ctx,
                           on_complete |-> on_complete, on_fail |-> on_fail]]

\* A subflow already in progress is overwritten.
StartSubflow(s, wf, ctx, on_complete, on_fail) ==
    [s EXCEPT !.wf = wf, !.state = Machine[wf].initial, !.ctx = ctx,
              !.subflow = [wf |-> s.wf, state |-> s.state, ctx |-> s.ctx,
                           on_complete |-> on_complete, on_fail |-> on_fail]]

\* Mutant: the suspended parent is looked at and not taken.
CompleteSubflowKept(s) ==
    LET p      == s.subflow
        target == IF s.state # "failed" THEN p.on_complete
                  ELSE IF p.on_fail = None THEN "failed" ELSE p.on_fail
    IN  {[s EXCEPT !.wf = p.wf, !.state = target, !.ctx = c] : c \in Merged(p.ctx, s.ctx)}

\* The child's final state decides which way the parent goes on, with the
\* child's context patched over its own.
CompleteSubflow(s) ==
    LET p      == s.subflow
        target == IF s.state # "failed" THEN p.on_complete
                  ELSE IF p.on_fail = None THEN "failed" ELSE p.on_fail
    IN  {[s EXCEPT !.wf = p.wf, !.state = target, !.ctx = c, !.subflow = None]
         : c \in Merged(p.ctx, s.ctx)}

\* from_checkpoint accepts checkpoint c for the session id and the state of
\* its run row.
CheckpointOK(c, id, state) ==
    /\ c.id = id
    /\ c.state = state
    /\ state \in DOMAIN Def(c).states
    /\ c.pending # None => /\ c.pending.from = state
                           /\ c.pending.to \in DOMAIN Def(c).states

-----------------------------------------------------------------------------
(* Forks.                                                                  *)

\* The _fork entry the parent's context gets: the first branch is running.
ForkContext(t) ==
    [order |-> [i \in DOMAIN t.branches |-> t.branches[i].name],
     status |-> [b \in {t.branches[i].name : i \in DOMAIN t.branches} |->
                   IF b = t.branches[1].name THEN "running" ELSE "pending"],
     join |-> t.join, on_complete |-> t.on_complete, on_fail |-> t.on_fail]

Finished(fork, b) == [fork EXCEPT !.status[b] = "completed"]

Completed(fork) == {b \in DOMAIN fork.status : fork.status[b] = "completed"}

JoinMet(fork) == IF fork.join = "any" THEN Completed(fork) # {}
                                      ELSE Completed(fork) = DOMAIN fork.status

JoinFailed(fork) ==
    fork.join = "all" /\ \E b \in DOMAIN fork.status : fork.status[b] = "failed"

\* The next branch still pending, if any, becomes the running one.
NextBranch(fork) ==
    LET pending == {i \in DOMAIN fork.order : fork.status[fork.order[i]] = "pending"}
    IN  IF pending = {} THEN fork
        ELSE [fork EXCEPT !.status[fork.order[Min(pending)]] = "running"]

\* BRANCH_DONE:b on a session with a fork.
BranchFinished(s, b) ==
    LET fork  == Finished(s.ctx.fork, b)
        clear == [s.ctx EXCEPT !.fork = None]
    IN  IF JoinMet(fork) THEN UpdateState(s, fork.on_complete, clear)
        ELSE IF JoinFailed(fork)
             THEN UpdateState(s, IF fork.on_fail = None THEN "failed" ELSE fork.on_fail, clear)
             ELSE UpdateState(s, s.state, [s.ctx EXCEPT !.fork = NextBranch(fork)])

\* What the fork handler makes of the session of a branch: created anew,
\* unless the one there has a fork of its own, and then put in its state.
BranchSession(old, key, wf, branch) ==
    LET s == IF old # None /\ HasFork(old) THEN old ELSE NewSession(key, wf)
    IN  UpdateState(s, branch.initial, EmptyContext)

=============================================================================
