---------------------------- MODULE GatewayProofs ----------------------------
(***************************************************************************)
(* Proofs about the gateway, for every catalogue of workflows, every set   *)
(* of transports, runs and approvals, and every number of faults.          *)
(***************************************************************************)
EXTENDS GatewaySafety, TLAPS

-----------------------------------------------------------------------------
(* Contexts and sessions.                                                  *)

\* Patching a context gives a context.
LEMMA PatchedContext ==
    ASSUME NEW c, IsContext(c), NEW d \in Patched(c)
    PROVE  IsContext(d)
BY DEF IsContext, Patched

\* The context of a definition is one.
LEMMA NewContextOK ==
    ASSUME NEW wf \in DOMAIN Machine
    PROVE  IsContext(NewContext(Machine[wf]))
BY CatalogueAssumption DEF IsContext, NewContext, EmptyContext

\* Merging two contexts gives a context.
LEMMA MergedContext ==
    ASSUME NEW c, NEW over, IsContext(c), NEW d \in Merged(c, over)
    PROVE  IsContext(d)
<1> DEFINE m == [c EXCEPT !.ret  = IF over.ret  = None THEN @ ELSE over.ret,
                          !.fork = IF over.fork = None THEN @ ELSE over.fork]
<1>1. IsContext(m)
  BY DEF IsContext
<1>2. d \in Patched(m)
  BY DEF Merged
<1> HIDE DEF m
<1> QED
  BY <1>1, <1>2, PatchedContext

\* Setting the return state or the fork keeps a context a context.
LEMMA MarkedContext ==
    ASSUME NEW c, IsContext(c), NEW v
    PROVE  /\ IsContext([c EXCEPT !.ret = v])
           /\ IsContext([c EXCEPT !.fork = v])
BY DEF IsContext

\* A new session has its key and a known workflow.
LEMMA NewSessionOK ==
    ASSUME NEW k \in Keys, NEW wf \in DOMAIN Machine
    PROVE  IsSession(NewSession(k, wf)) /\ NewSession(k, wf).id = k
BY NewContextOK DEF IsSession, NewSession

\* A session moved to another state and context is a session with the same id.
LEMMA UpdateStateOK ==
    ASSUME NEW s, IsSession(s), NEW state, NEW c, IsContext(c)
    PROVE  IsSession(UpdateState(s, state, c)) /\ UpdateState(s, state, c).id = s.id
BY DEF IsSession, UpdateState

\* So is one whose approval is cleared.
LEMMA ClearPendingOK ==
    ASSUME NEW s, IsSession(s)
    PROVE  IsSession(ClearPending(s)) /\ ClearPending(s).id = s.id
BY DEF IsSession, ClearPending

\* Parking a transition with a known approval id keeps a session a session.
LEMMA SetPendingOK ==
    ASSUME NEW s, IsSession(s), NEW a \in Approvals, NEW from, NEW to, NEW c, IsContext(c)
    PROVE  LET p == [id |-> a, from |-> from, to |-> to, ctx |-> c]
           IN  IsSession(SetPending(s, p)) /\ SetPending(s, p).id = s.id
BY DEF IsSession, SetPending

\* Starting a child workflow keeps a session a session.
LEMMA StartSubflowOK ==
    ASSUME NEW s, IsSession(s), NEW wf \in DOMAIN Machine, NEW c, IsContext(c), NEW oc, NEW of
    PROVE  LET s2 == StartSubflow(s, wf, c, oc, of)
           IN  IsSession(s2) /\ s2.id = s.id
BY DEF IsSession, StartSubflow

\* Completing it gives the parent's workflow back, in a well-formed session.
LEMMA CompleteSubflowOK ==
    ASSUME NEW s, IsSession(s), s.subflow # None, NEW s2 \in CompleteSubflow(s)
    PROVE  IsSession(s2) /\ s2.id = s.id
<1> DEFINE p == s.subflow
           target == IF s.state # "failed" THEN p.on_complete
                     ELSE IF p.on_fail = None THEN "failed" ELSE p.on_fail
<1>1. PICK c \in Merged(p.ctx, s.ctx) :
        s2 = [s EXCEPT !.wf = p.wf, !.state = target, !.ctx = c, !.subflow = None]
  BY DEF CompleteSubflow
<1>2. IsContext(c)
  BY MergedContext DEF IsSession
<1> QED
  BY <1>1, <1>2 DEF IsSession

\* The context a resolved transition is entered with is a context.
LEMMA EnterContext ==
    ASSUME NEW ctx, IsContext(ctx), NEW target, NEW r \in Enter(target, ctx)
    PROVE  IsContext(r.ctx)
<1>1. r.ctx = ctx \/ r.ctx = [ctx EXCEPT !.ret = None]
  BY DEF Enter
<1> QED
  BY <1>1 DEF IsContext

\* Whichever branch a transition takes.
LEMMA TakeContext ==
    ASSUME NEW def, NEW tr, NEW ctx, IsContext(ctx), NEW r \in Take(def, tr, ctx)
    PROVE  IsContext(r.ctx)
<1>1. CASE tr.kind = "guarded"
  <2>1. r \in TakeBranch(def, tr.branches, ctx)
    BY <1>1 DEF Take
  <2>2. \E target : r \in Enter(target, ctx)
    BY <2>1 DEF TakeBranch
  <2> QED
    BY <2>2, EnterContext
<1>2. CASE tr.kind # "guarded"
  <2>1. r \in Enter(Target(tr), ctx)
    BY <1>2 DEF Take
  <2> QED
    BY <2>1, EnterContext
<1> QED
  BY <1>1, <1>2

\* Whatever resolve_transition makes of an event.
LEMMA ResolveContext ==
    ASSUME NEW def, NEW state, NEW e, NEW ctx, IsContext(ctx),
           NEW r \in Resolve(def, state, e, ctx)
    PROVE  IsContext(r.ctx)
<1> DEFINE sd == def.states[state]
           results(tr) == {[state |-> q.state, ctx |-> q.ctx, via |-> tr] : q \in Take(def, tr, ctx)}
<1>1. state \in DOMAIN def.states
  BY DEF Resolve
<1>2. CASE FallsBack(sd, e)
  <2>1. r \in {[state |-> sd.safe_next, ctx |-> ctx, via |-> Simple(sd.safe_next)]}
    BY <1>1, <1>2 DEF Resolve
  <2> QED
    BY <2>1
<1>3. CASE ~ FallsBack(sd, e)
  <2>1. r \in UNION {results(sd.on[ev]) : ev \in Matches(sd, e)}
    BY <1>1, <1>3 DEF Resolve
  <2>2. PICK ev \in Matches(sd, e) : r \in results(sd.on[ev])
    BY <2>1
  <2>3. PICK q \in Take(def, sd.on[ev], ctx) : r.ctx = q.ctx
    BY <2>2
  <2> QED
    BY <2>3, TakeContext
<1> QED
  BY <1>2, <1>3

\* Reporting a branch keeps a session a session.
LEMMA BranchFinishedOK ==
    ASSUME NEW s, IsSession(s), NEW b
    PROVE  IsSession(BranchFinished(s, b)) /\ BranchFinished(s, b).id = s.id
<1>1. /\ IsContext([s.ctx EXCEPT !.fork = None])
      /\ IsContext([s.ctx EXCEPT !.fork = NextBranch(Finished(s.ctx.fork, b))])
  BY DEF IsSession, IsContext
<1>2. \E state, c : IsContext(c) /\ BranchFinished(s, b) = UpdateState(s, state, c)
  BY <1>1 DEF BranchFinished
<1> QED
  BY <1>2, UpdateStateOK

\* The session of a branch, new or taken over, has the branch's key.
LEMMA BranchSessionOK ==
    ASSUME NEW k \in Keys, NEW wf \in DOMAIN Machine, NEW branch, NEW old,
           old # None => IsSession(old) /\ old.id = k
    PROVE  LET s == BranchSession(old, k, wf, branch) IN IsSession(s) /\ s.id = k
<1>1. PICK s : /\ IsSession(s)
               /\ s.id = k
               /\ BranchSession(old, k, wf, branch) = UpdateState(s, branch.initial, EmptyContext)
  BY NewSessionOK DEF BranchSession
<1>2. IsContext(EmptyContext)
  BY DEF IsContext, EmptyContext
<1> QED
  BY <1>1, <1>2, UpdateStateOK

-----------------------------------------------------------------------------
(* How the variables may change without breaking their types.              *)

\* What TypeOK says of the session a transport works on.
LEMMA CurOK ==
    ASSUME TypeOK, NEW t \in Transports, Ready(t)
    PROVE  /\ IsGateway(gw[t])
           /\ gw[t].sid \in Keys
           /\ IsSession(Cur(t))
           /\ Cur(t).id = gw[t].sid
BY DEF TypeOK, SessionsOK, GatewaysOK, IsGateway, Ready, Connected, Cur

\* Storing a session under its id.
LEMMA PutOK ==
    ASSUME SessionsOK, NEW t \in Transports, NEW s, IsSession(s), s.id = gw[t].sid,
           gw[t].sid \in Keys, Put(t, s)
    PROVE  SessionsOK'
BY DEF SessionsOK, Put

\* A step of the session manager alone.
LEMMA OnlySessions ==
    ASSUME TypeOK, SessionsOK', UNCHANGED <<gw, storage, service, parked, faults>>
    PROVE  TypeOK'
BY DEF TypeOK, GatewaysOK, IsGateway, RowsOK, WritesOK, ServiceOK, storage

\* The rows may change as long as rows stay rows.
RowsStay ==
    /\ DOMAIN rows \subseteq DOMAIN rows'
    /\ DOMAIN rows' \subseteq Runs
    /\ \A r \in DOMAIN rows' : IsRow(rows'[r])

\* Writing a session, a state and a status into a row.
LEMMA RowUpdateOK ==
    ASSUME RowsOK, NEW q \in DOMAIN rows,
           NEW status \in RunStatus, NEW state, NEW s, IsSession(s)
    PROVE  /\ rows' = [rows EXCEPT ![q].status = status] => RowsStay
           /\ rows' = [rows EXCEPT ![q].state = state, ![q].ckpt = s] => RowsStay
           /\ rows' = [rows EXCEPT ![q].status = status, ![q].state = state] => RowsStay
           /\ rows' = [rows EXCEPT ![q].status = status, ![q].state = state, ![q].ckpt = s] => RowsStay
BY DEF RowsStay, RowsOK, IsRow

\* The row a load inserts is a row.
LEMMA NewRowOK ==
    ASSUME NEW wf \in DOMAIN Machine, NEW s, IsSession(s)
    PROVE  IsRow(NewRow(wf, s))
BY DEF IsRow, NewRow, RunStatus

\* Inserting it keeps the table well formed.
LEMMA InsertOK ==
    ASSUME RowsOK, NEW q \in Runs, NEW wf \in DOMAIN Machine, NEW s, IsSession(s),
           rows' = Extended(rows, q, NewRow(wf, s))
    PROVE  RowsStay /\ q \in DOMAIN rows'
<1>1. IsRow(NewRow(wf, s))
  BY NewRowOK
<1> QED
  BY <1>1 DEF RowsStay, RowsOK, Extended

\* A step of the rows alone.
LEMMA RowsStayOK ==
    ASSUME TypeOK, RowsStay
    PROVE  /\ RowsOK'
           /\ UNCHANGED gw => GatewaysOK'
           /\ UNCHANGED <<appends, ends, service>> => WritesOK'
BY DEF TypeOK, RowsStay, RowsOK, GatewaysOK, IsGateway, WritesOK

\* Saving a session as the checkpoint of the run a transport holds.
LEMMA PersistedOK ==
    ASSUME TypeOK, NEW t \in Transports, IsGateway(gw[t]), MayPersist(t),
           NEW s, IsSession(s), rows' = Persisted(t, s)
    PROVE  RowsStay
<1>1. gw[t].run \in DOMAIN rows
  BY DEF MayPersist, IsGateway
<1> QED
  BY <1>1 DEF Persisted, RowsStay, TypeOK, RowsOK, IsRow

\* One transport gets another workflow and run, one transport a new session id.
LEMMA GatewayUpdateOK ==
    ASSUME TypeOK, RowsStay, NEW t \in Transports, IsGateway(gw[t]),
           NEW active \in DOMAIN Machine \cup {None},
           NEW run, run # None => run \in DOMAIN rows',
           gw' = [gw EXCEPT ![t].active = active, ![t].run = run]
    PROVE  GatewaysOK'
BY DEF TypeOK, GatewaysOK, IsGateway, RowsStay

-----------------------------------------------------------------------------
(* The type invariant.                                                     *)

\* Connecting, loading, resuming, pausing and ending keep the types.
LEMMA LifecycleType ==
    ASSUME TypeOK, NEW t \in Transports, Lifecycle(t)
    PROVE  TypeOK'
<1> USE DEF storage, memory
<1>1. CASE Connect(t)
  <2>1. t \in Keys
    BY BoundsAssumption
  <2>2. IsSession(NewSession(t, Default)) /\ NewSession(t, Default).id = t
    BY <2>1, NewSessionOK, CatalogueAssumption
  <2>3. SessionsOK'
    BY <1>1, <2>1, <2>2 DEF Connect, TypeOK, SessionsOK
  <2>4. GatewaysOK'
    BY <1>1, <2>1 DEF Connect, NewGateway, TypeOK, GatewaysOK, IsGateway
  <2> QED
    BY <1>1, <2>3, <2>4 DEF Connect, TypeOK, RowsOK, WritesOK, ServiceOK
<1>2. ASSUME NEW wf \in DOMAIN Machine, MayLoad(t, wf), NEW s \in Prepared(gw[t].sid, wf)
      PROVE  IsSession(s) /\ s.id = gw[t].sid /\ gw[t].sid \in Keys /\ IsGateway(gw[t])
  <2>1. gw[t].sid \in Keys /\ IsGateway(gw[t])
    BY <1>2 DEF MayLoad, Connected, TypeOK, GatewaysOK, IsGateway
  <2>2. IsSession(NewSession(gw[t].sid, wf)) /\ NewSession(gw[t].sid, wf).id = gw[t].sid
    BY <2>1, NewSessionOK
  <2>3. CASE ~ Machine[wf].adr
    BY <1>2, <2>1, <2>2, <2>3 DEF Prepared
  <2>4. CASE Machine[wf].adr
    <3>1. ADR \in DOMAIN Machine
      BY <2>4, CatalogueAssumption
    <3>2. PICK c \in Patched(NewContext(Machine[ADR])) :
            s = StartSubflow(NewSession(gw[t].sid, wf), ADR, c, Machine[wf].initial, "failed")
      BY <1>2, <2>4 DEF Prepared
    <3>3. IsContext(c)
      BY <3>1, NewContextOK, PatchedContext
    <3> QED
      BY <2>1, <2>2, <3>1, <3>2, <3>3, StartSubflowOK
  <2> QED
    BY <2>3, <2>4
<1>3. ASSUME NEW wf \in DOMAIN Machine, Load(t, wf)
      PROVE  TypeOK'
  <2>1. PICK r \in NextRun, s \in Prepared(gw[t].sid, wf) :
          /\ rows' = Extended(rows, r, NewRow(wf, s))
          /\ Put(t, s)
          /\ gw' = [gw EXCEPT ![t].active = wf, ![t].run = r]
    BY <1>3 DEF Load
  <2>2. IsSession(s) /\ s.id = gw[t].sid /\ gw[t].sid \in Keys /\ IsGateway(gw[t])
    BY <1>2, <1>3 DEF Load
  <2>3. RowsStay /\ r \in DOMAIN rows'
    BY <2>1, <2>2, InsertOK DEF TypeOK, NextRun
  <2>4. SessionsOK'
    BY <2>1, <2>2, PutOK DEF TypeOK
  <2>5. GatewaysOK'
    BY <2>1, <2>2, <2>3, GatewayUpdateOK
  <2> QED
    BY <1>3, <2>3, <2>4, <2>5, RowsStayOK DEF Load, TypeOK, ServiceOK
<1>4. ASSUME NEW wf \in DOMAIN Machine, LoadUnconfirmed(t, wf)
      PROVE  TypeOK'
  <2>1. PICK r \in NextRun, s \in Prepared(gw[t].sid, wf) :
          rows' = Extended(rows, r, NewRow(wf, s))
    BY <1>4 DEF LoadUnconfirmed
  <2>2. IsSession(s)
    BY <1>2, <1>4 DEF LoadUnconfirmed
  <2>3. RowsStay
    BY <2>1, <2>2, InsertOK DEF TypeOK, NextRun
  <2> QED
    BY <1>4, <2>3, RowsStayOK, BoundsAssumption
    DEF LoadUnconfirmed, Fault, TypeOK, SessionsOK, ServiceOK
<1>5. ASSUME NEW r \in DOMAIN rows, MayResume(t, r)
      PROVE  /\ IsRow(rows[r]) /\ IsSession(rows[r].ckpt)
             /\ rows[r].ckpt.id = gw[t].sid
             /\ IsGateway(gw[t]) /\ gw[t].sid \in Keys
             /\ rows' = [rows EXCEPT ![r].status = "running"] => RowsStay
  <2>1. IsRow(rows[r]) /\ IsSession(rows[r].ckpt)
    BY <1>5 DEF TypeOK, RowsOK, IsRow
  <2>2. rows' = [rows EXCEPT ![r].status = "running"] => RowsStay
    BY <2>1, RowUpdateOK DEF TypeOK, RunStatus
  <2> QED
    BY <1>5, <2>1, <2>2
    DEF MayResume, CheckpointOK, MayLoad, Connected, TypeOK, GatewaysOK, IsGateway
<1>6. ASSUME NEW r \in DOMAIN rows, Resume(t, r)
      PROVE  TypeOK'
  <2>1. RowsStay /\ IsRow(rows[r]) /\ IsGateway(gw[t])
    BY <1>5, <1>6 DEF Resume
  <2>2. SessionsOK'
    BY <1>5, <1>6, PutOK DEF Resume, TypeOK
  <2>3. r \in DOMAIN rows' /\ rows[r].wf \in DOMAIN Machine
    BY <2>1 DEF RowsStay, IsRow
  <2>4. GatewaysOK'
    BY <1>6, <2>1, <2>3, GatewayUpdateOK DEF Resume
  <2> QED
    BY <1>6, <2>1, <2>2, <2>4, RowsStayOK DEF Resume, TypeOK, ServiceOK
<1>7. ASSUME NEW r \in DOMAIN rows, ResumeUnconfirmed(t, r)
      PROVE  TypeOK'
  <2>1. RowsStay
    BY <1>5, <1>7 DEF ResumeUnconfirmed
  <2> QED
    BY <1>7, <2>1, RowsStayOK, BoundsAssumption
    DEF ResumeUnconfirmed, Fault, TypeOK, SessionsOK, ServiceOK
<1>8. ASSUME Ready(t), gw[t].run # None, rows' = PausedRow(t)
      PROVE  RowsStay /\ IsGateway(gw[t])
  <2>1. gw[t].run \in DOMAIN rows /\ IsSession(Cur(t)) /\ IsGateway(gw[t])
    BY <1>8, CurOK DEF IsGateway
  <2> QED
    BY <1>8, <2>1, RowUpdateOK DEF PausedRow, TypeOK, RunStatus
<1>9. CASE Pause(t)
  <2>1. RowsStay /\ IsGateway(gw[t])
    BY <1>8, <1>9 DEF Pause
  <2>2. GatewaysOK'
    BY <1>9, <2>1 DEF Pause, TypeOK, GatewaysOK, IsGateway, RowsStay
  <2> QED
    BY <1>9, <2>1, <2>2, RowsStayOK DEF Pause, TypeOK, SessionsOK, ServiceOK
<1>10. CASE PauseUnconfirmed(t)
  <2>1. RowsStay
    BY <1>8, <1>10 DEF PauseUnconfirmed
  <2> QED
    BY <1>10, <2>1, RowsStayOK, BoundsAssumption
    DEF PauseUnconfirmed, Fault, TypeOK, SessionsOK, ServiceOK
<1>11. CASE Deactivate(t)
  <2>1. IsGateway(gw[t]) /\ gw[t].sid \in Keys
    BY <1>11 DEF Deactivate, Connected, TypeOK, GatewaysOK, IsGateway
  <2>2. RowsStay
    BY <1>11 DEF Deactivate, RowsStay, TypeOK, RowsOK
  <2>3. GatewaysOK'
    BY <1>11, <2>1, <2>2, GatewayUpdateOK DEF Deactivate
  <2>4. CASE Cur(t) = None
    BY <1>11, <2>2, <2>3, <2>4, RowsStayOK DEF Deactivate, TypeOK, SessionsOK, ServiceOK
  <2>5. CASE Cur(t) # None
    <3>1. IsSession(Cur(t)) /\ Cur(t).id = gw[t].sid
      BY <1>11, <2>5, CurOK DEF Deactivate, Ready
    <3>2. LET s == [Cur(t) EXCEPT !.ctx.fork = None] IN IsSession(s) /\ s.id = gw[t].sid
      BY <3>1 DEF IsSession, IsContext
    <3>3. SessionsOK'
      BY <1>11, <2>1, <2>5, <3>2, PutOK DEF Deactivate, TypeOK
    <3>4. ends' \subseteq ends \cup EndWrite(gw[t].run, Cur(t).state, "stopped")
      BY <1>11, <2>5 DEF Deactivate
    <3>5. WritesOK'
      BY <1>11, <2>1, <3>4 DEF Deactivate, EndWrite, TypeOK, WritesOK, IsGateway, RunStatus
    <3> QED
      BY <1>11, <2>3, <3>3, <3>5 DEF Deactivate, TypeOK, RowsOK, ServiceOK
  <2> QED
    BY <2>4, <2>5
<1> QED
  BY <1>1, <1>3, <1>4, <1>6, <1>7, <1>9, <1>10, <1>11 DEF Lifecycle

\* What handle_transition hands on, patched or not, is a context.
LEMMA OutcomeContext ==
    ASSUME TypeOK, NEW t \in Transports, NEW e, NEW r \in Outcomes(t, e), NEW c \in Patched(r.ctx)
    PROVE  Ready(t) /\ IsContext(r.ctx) /\ IsContext(c)
<1>1. Ready(t) /\ r \in Resolve(Def(Cur(t)), Cur(t).state, e, Cur(t).ctx)
  BY DEF Outcomes
<1>2. IsContext(Cur(t).ctx)
  BY <1>1, CurOK DEF IsSession
<1>3. IsContext(r.ctx)
  BY <1>1, <1>2, ResolveContext
<1> QED
  BY <1>1, <1>3, PatchedContext

\* A step that only stores a well-formed session keeps the types.
LEMMA PutType ==
    ASSUME TypeOK, NEW t \in Transports, Ready(t), NEW s, IsSession(s), s.id = Cur(t).id,
           Put(t, s), UNCHANGED <<gw, storage, service, parked, faults>>
    PROVE  TypeOK'
<1>1. SessionsOK'
  BY CurOK, PutOK DEF TypeOK
<1> QED
  BY <1>1, OnlySessions

\* Moving to another state with a well-formed context is such a step.
LEMMA MoveType ==
    ASSUME TypeOK, NEW t \in Transports, Ready(t), NEW state, NEW c, IsContext(c),
           Put(t, UpdateState(Cur(t), state, c)),
           UNCHANGED <<gw, storage, service, parked, faults>>
    PROVE  TypeOK'
BY CurOK, UpdateStateOK, PutType

\* An interrupt moves the session.
LEMMA InterruptType ==
    ASSUME TypeOK, NEW t \in Transports, Ready(t), NEW name,
           Put(t, Interrupted(Cur(t), name)),
           UNCHANGED <<gw, storage, service, parked, faults>>
    PROVE  TypeOK'
<1>1. IsContext([Cur(t).ctx EXCEPT !.ret = Cur(t).state])
  BY CurOK, MarkedContext DEF IsSession
<1> QED
  BY <1>1, MoveType DEF Interrupted

\* A fork leaves well-formed sessions under their keys.
LEMMA ForkedOK ==
    ASSUME TypeOK, NEW t \in Transports, Ready(t), NEW fork, NEW c, IsContext(c)
    PROVE  LET f == Forked(t, fork, c)
           IN  /\ DOMAIN f = Keys
               /\ \A k \in Keys : f[k] # None => IsSession(f[k]) /\ f[k].id = k
<1> DEFINE f == Forked(t, fork, c)
           d == [c EXCEPT !.fork = ForkContext(fork), !.ret = None]
<1>1. DOMAIN f = Keys
  BY DEF Forked
<1>2. IsSession(Cur(t)) /\ Cur(t).id = gw[t].sid /\ Cur(t).wf \in DOMAIN Machine
  BY CurOK DEF IsSession
<1>3. ASSUME NEW k \in Keys, f[k] # None
      PROVE  IsSession(f[k]) /\ f[k].id = k
  <2>1. CASE k = gw[t].sid
    <3>1. f[k] = UpdateState(Cur(t), Cur(t).state, d)
      BY <2>1 DEF Forked
    <3>2. IsContext(d)
      BY DEF IsContext
    <3> HIDE DEF d, f
    <3> QED
      BY <1>2, <2>1, <3>1, <3>2, UpdateStateOK
  <2>2. CASE k # gw[t].sid
    <3> DEFINE at == BranchesAt(gw[t].sid, fork, k)
    <3>1. f[k] = IF at = {} THEN sessions[k]
                 ELSE BranchSession(sessions[k], k, Cur(t).wf, fork.branches[Min(at)])
      BY <2>2 DEF Forked
    <3>2. sessions[k] # None => IsSession(sessions[k]) /\ sessions[k].id = k
      BY DEF TypeOK, SessionsOK
    <3> HIDE DEF at, f
    <3> QED
      BY <1>2, <1>3, <3>1, <3>2, BranchSessionOK
  <2> QED
    BY <2>1, <2>2
<1> QED
  BY <1>1, <1>3

\* Every branch of statewright_transition keeps the types.
LEMMA TransitionType ==
    ASSUME TypeOK, NEW t \in Transports, Transition(t)
    PROVE  TypeOK'
<1>1. CASE Interrupt(t)
  BY <1>1, InterruptType DEF Interrupt
<1>2. CASE BranchDone(t)
  <2>1. PICK b : Put(t, BranchFinished(Cur(t), b))
    BY <1>2 DEF BranchDone
  <2>2. Ready(t)
    BY <1>2 DEF BranchDone
  <2>3. IsSession(BranchFinished(Cur(t), b)) /\ BranchFinished(Cur(t), b).id = Cur(t).id
    BY <2>2, CurOK, BranchFinishedOK
  <2> QED
    BY <1>2, <2>1, <2>2, <2>3, PutType DEF BranchDone
<1>3. CASE SwitchBranch(t)
  <2>1. PICK k \in Keys : gw' = [gw EXCEPT ![t].sid = k]
    BY <1>3 DEF SwitchBranch
  <2>2. Ready(t)
    BY <1>3 DEF SwitchBranch
  <2>3. GatewaysOK'
    BY <1>3, <2>1, <2>2, CurOK DEF SwitchBranch, storage, TypeOK, GatewaysOK, IsGateway
  <2> QED
    BY <1>3, <2>3 DEF SwitchBranch, storage, TypeOK, SessionsOK, RowsOK, WritesOK, ServiceOK
<1>4. CASE ForceState(t)
  <2>1. PICK state \in DOMAIN Def(Cur(t)).states, c \in Patched(Cur(t).ctx) :
          Put(t, UpdateState(ClearPending(Cur(t)), state, c))
    BY <1>4 DEF ForceState
  <2>2. Ready(t)
    BY <1>4 DEF ForceState
  <2>3. IsContext(c)
    BY <2>2, CurOK, PatchedContext DEF IsSession
  <2>4. IsSession(ClearPending(Cur(t))) /\ ClearPending(Cur(t)).id = Cur(t).id
    BY <2>2, CurOK, ClearPendingOK
  <2> DEFINE s == UpdateState(ClearPending(Cur(t)), state, c)
  <2>5. IsSession(s) /\ s.id = Cur(t).id
    BY <2>3, <2>4, UpdateStateOK
  <2> QED
    BY <1>4, <2>1, <2>2, <2>5, PutType DEF ForceState
<1>5. ASSUME NEW e, parked + 1 \in Approvals,
             NEW r \in Outcomes(t, e), NEW c \in Patched(r.ctx), MayPersist(t)
      PROVE  /\ Ready(t)
             /\ IsSession(Parked(t, r, c)) /\ Parked(t, r, c).id = Cur(t).id
             /\ rows' = Persisted(t, Parked(t, r, c)) => RowsStay
  <2>1. Ready(t) /\ IsContext(c)
    BY <1>5, OutcomeContext
  <2>2. IsSession(Cur(t)) /\ IsGateway(gw[t])
    BY <2>1, CurOK
  <2>3. IsSession(Parked(t, r, c)) /\ Parked(t, r, c).id = Cur(t).id
    BY <1>5, <2>1, <2>2, SetPendingOK DEF Parked
  <2>4. rows' = Persisted(t, Parked(t, r, c)) => RowsStay
    BY <1>5, <2>2, <2>3, PersistedOK
  <2> QED
    BY <2>1, <2>3, <2>4
<1>6. ASSUME NEW e, Park(t, e)
      PROVE  TypeOK'
  <2>1. PICK r, c :
          /\ r \in Outcomes(t, e) /\ c \in Patched(r.ctx)
          /\ MayPersist(t)
          /\ Put(t, Parked(t, r, c))
          /\ rows' = Persisted(t, Parked(t, r, c))
    BY <1>6 DEF Park
  <2>2. Ready(t) /\ IsSession(Parked(t, r, c)) /\ Parked(t, r, c).id = Cur(t).id /\ RowsStay
    BY <1>5, <1>6, <2>1 DEF Park
  <2>3. SessionsOK'
    BY <2>1, <2>2, CurOK, PutOK DEF TypeOK
  <2> QED
    BY <1>6, <2>2, <2>3, RowsStayOK DEF Park, TypeOK, ServiceOK
<1>7. ASSUME NEW e, ParkUnconfirmed(t, e)
      PROVE  TypeOK'
  <2>1. PICK r, c :
          /\ r \in Outcomes(t, e) /\ c \in Patched(r.ctx)
          /\ MayPersist(t) /\ rows' = Persisted(t, Parked(t, r, c))
    BY <1>7 DEF ParkUnconfirmed
  <2>2. RowsStay
    BY <1>5, <1>7, <2>1 DEF ParkUnconfirmed
  <2> QED
    BY <1>7, <2>2, RowsStayOK, BoundsAssumption
    DEF ParkUnconfirmed, Fault, memory, TypeOK, SessionsOK, ServiceOK
<1>8. ASSUME NEW e, StartFork(t, e)
      PROVE  TypeOK'
  <2>1. PICK r, c : /\ r \in Outcomes(t, e) /\ c \in Patched(r.ctx)
                    /\ sessions' = Forked(t, r.via, c)
    BY <1>8 DEF StartFork
  <2>2. Ready(t) /\ IsContext(c)
    BY <2>1, OutcomeContext
  <2>3. SessionsOK'
    BY <2>1, <2>2, ForkedOK DEF SessionsOK
  <2> QED
    BY <1>8, <2>3, OnlySessions DEF StartFork
<1>9. ASSUME NEW e, InvokeSubflow(t, e)
      PROVE  TypeOK'
  <2>1. PICK r \in Outcomes(t, e) :
          /\ r.via.machine \in DOMAIN Machine
          /\ \E c \in Patched(NewContext(Machine[r.via.machine])) :
               Put(t, StartSubflow(Cur(t), r.via.machine, c, r.via.on_complete, r.via.on_fail))
    BY <1>9 DEF InvokeSubflow
  <2>2. PICK c \in Patched(NewContext(Machine[r.via.machine])) :
          Put(t, StartSubflow(Cur(t), r.via.machine, c, r.via.on_complete, r.via.on_fail))
    BY <2>1
  <2>3. Ready(t)
    BY <2>1 DEF Outcomes
  <2>4. IsContext(c)
    BY <2>1, NewContextOK, PatchedContext
  <2> DEFINE s == StartSubflow(Cur(t), r.via.machine, c, r.via.on_complete, r.via.on_fail)
  <2>5. IsSession(s) /\ s.id = Cur(t).id
    BY <2>1, <2>3, <2>4, CurOK, StartSubflowOK
  <2> QED
    BY <1>9, <2>2, <2>3, <2>5, PutType DEF InvokeSubflow
<1>10. ASSUME NEW e, Advance(t, e)
       PROVE  TypeOK'
  <2>1. PICK r, c :
          /\ r \in Outcomes(t, e) /\ c \in Patched(r.ctx)
          /\ LET s     == UpdateState(Cur(t), r.state, c)
                 final == IsFinal(Def(s), r.state)
             IN  /\ IF final /\ s.subflow # None
                    THEN \E s2 \in CompleteSubflow(s) : Put(t, s2)
                    ELSE Put(t, s)
                 /\ ends' = IF final /\ s.subflow = None
                            THEN ends \cup EndWrite(gw[t].run, r.state, FinalRunStatus(r.state))
                            ELSE ends
    BY <1>10 DEF Advance
  <2> DEFINE s == UpdateState(Cur(t), r.state, c)
  <2>2. Ready(t) /\ IsContext(c)
    BY <2>1, OutcomeContext
  <2>3. IsGateway(gw[t]) /\ IsSession(s) /\ s.id = gw[t].sid
    BY <2>2, CurOK, UpdateStateOK
  <2>4. \E s2 : IsSession(s2) /\ s2.id = gw[t].sid /\ Put(t, s2)
    <3> HIDE DEF s
    <3>1. CASE Put(t, s)
      BY <2>3, <3>1
    <3>2. CASE s.subflow # None /\ \E s2 \in CompleteSubflow(s) : Put(t, s2)
      BY <2>3, <3>2, CompleteSubflowOK
    <3> QED
      BY <2>1, <3>1, <3>2 DEF s
  <2>5. SessionsOK'
    BY <2>2, <2>4, CurOK, PutOK DEF TypeOK
  <2>6. FinalRunStatus(r.state) \in RunStatus
    BY DEF FinalRunStatus, RunStatus
  <2>7. ends' \subseteq ends \cup EndWrite(gw[t].run, r.state, FinalRunStatus(r.state))
    BY <2>1
  <2>8. WritesOK'
    BY <1>10, <2>3, <2>6, <2>7 DEF Advance, EndWrite, TypeOK, WritesOK, IsGateway
  <2> QED
    BY <1>10, <2>5, <2>8 DEF Advance, TypeOK, GatewaysOK, IsGateway, RowsOK, ServiceOK
<1> QED
  BY <1>1, <1>2, <1>3, <1>4, <1>6, <1>7, <1>8, <1>9, <1>10 DEF Transition

\* A tool call that moves the workflow keeps the types.
LEMMA ToolCallType ==
    ASSUME TypeOK, NEW t \in Transports, ToolCall(t)
    PROVE  TypeOK'
<1>1. ASSUME NEW tool, AdapterPreTool(t, tool) \/ UpstreamTool(t, tool)
      PROVE  TypeOK'
  <2>1. Ready(t) /\ UNCHANGED <<gw, storage, service, parked, faults>>
    BY <1>1 DEF AdapterPreTool, UpstreamTool
  <2>2. PICK state : Put(t, UpdateState(Cur(t), state, Cur(t).ctx))
    BY <1>1 DEF AdapterPreTool, UpstreamTool
  <2>3. IsContext(Cur(t).ctx)
    BY <2>1, CurOK DEF IsSession
  <2> QED
    BY <2>1, <2>2, <2>3, MoveType
<1>2. CASE AdapterPostTool(t)
  BY <1>2, InterruptType DEF AdapterPostTool, FileEdited
<1>3. ASSUME NEW tool, UpstreamEdit(t, tool)
      PROVE  TypeOK'
  BY <1>3, InterruptType DEF UpstreamEdit, FileEdited
<1> QED
  BY <1>1, <1>2, <1>3 DEF ToolCall

\* Applying a decided receipt gives a well-formed session.
LEMMA ResolvedOK ==
    ASSUME TypeOK, NEW s, IsSession(s), NEW a \in DOMAIN service
    PROVE  IsSession(Resolved(s, service[a])) /\ Resolved(s, service[a]).id = s.id
<1>1. IsContext(service[a].ctx)
  BY DEF TypeOK, ServiceOK
<1> DEFINE moved == UpdateState(s, s.pending.to, service[a].ctx)
<1>2. IsSession(moved) /\ moved.id = s.id
  BY <1>1, UpdateStateOK
<1> HIDE DEF moved
<1>3. IsSession(ClearPending(moved)) /\ ClearPending(moved).id = s.id
  BY <1>2, ClearPendingOK
<1>4. IsSession(ClearPending(s)) /\ ClearPending(s).id = s.id
  BY ClearPendingOK
<1> QED
  BY <1>3, <1>4 DEF Resolved, moved

\* So does spawning the append of an approval for the run a transport holds.
LEMMA AppendOK ==
    ASSUME TypeOK, NEW t \in Transports, Ready(t), NEW a \in DOMAIN service,
           appends' \subseteq appends \cup AppendWrite(t, a), UNCHANGED <<ends, service>>, RowsStay
    PROVE  WritesOK'
<1>1. IsGateway(gw[t])
  BY CurOK
<1> QED
  BY <1>1 DEF AppendWrite, TypeOK, WritesOK, IsGateway, RowsStay

\* Recovery, polls and callbacks keep the types.
LEMMA ApprovalType ==
    ASSUME TypeOK, NEW t \in Transports, Approval(t)
    PROVE  TypeOK'
<1> USE DEF storage, memory
<1>1. ASSUME NEW r \in DOMAIN rows, RecoverPendingApproval(t, r)
      PROVE  TypeOK'
  <2> DEFINE g == IF Connected(t) THEN gw[t] ELSE NewGateway(t)
  <2>1. IsGateway(g)
    BY BoundsAssumption DEF Connected, NewGateway, TypeOK, GatewaysOK, IsGateway
  <2>2. /\ rows[r].ckpt.id = g.sid
        /\ sessions' = [sessions EXCEPT ![g.sid] = rows[r].ckpt]
        /\ gw' = [gw EXCEPT ![t] = [g EXCEPT !.active = rows[r].wf, !.run = r]]
        /\ UNCHANGED <<storage, service, parked, faults>>
    BY <1>1 DEF RecoverPendingApproval, CheckpointOK
  <2> HIDE DEF g
  <2>3. IsRow(rows[r]) /\ IsSession(rows[r].ckpt) /\ rows[r].wf \in DOMAIN Machine
    BY <2>2 DEF TypeOK, RowsOK, IsRow
  <2>4. SessionsOK'
    BY <2>1, <2>2, <2>3 DEF TypeOK, SessionsOK, IsGateway
  <2>5. GatewaysOK'
    BY <2>1, <2>2, <2>3 DEF TypeOK, GatewaysOK, IsGateway
  <2> QED
    BY <2>2, <2>4, <2>5 DEF TypeOK, RowsOK, WritesOK, ServiceOK
<1>2. CASE PresentApproval(t)
  <2>1. /\ Cur(t).pending.id \in Approvals
        /\ IsContext(Cur(t).pending.ctx)
    BY <1>2, CurOK DEF PresentApproval, IsSession
  <2>2. ServiceOK'
    BY <1>2, <2>1 DEF PresentApproval, Extended, TypeOK, ServiceOK
  <2> QED
    BY <1>2, <2>2
    DEF PresentApproval, Extended, TypeOK, SessionsOK, GatewaysOK, IsGateway, RowsOK, WritesOK
<1>3. ASSUME NEW a \in DOMAIN service, ApplyReceipt(t, a) \/ ApplyReceiptUnsaved(t, a)
      PROVE  TypeOK'
  <2> DEFINE s == Resolved(Cur(t), service[a])
  <2>1. Ready(t) /\ Put(t, s)
    BY <1>3 DEF ApplyReceipt, ApplyReceiptUnsaved, MayApply
  <2>2. IsSession(s) /\ s.id = gw[t].sid /\ gw[t].sid \in Keys /\ IsGateway(gw[t])
    BY <2>1, CurOK, ResolvedOK
  <2>3. rows' = rows \/ (MayPersist(t) /\ rows' = Persisted(t, s))
    BY <1>3 DEF ApplyReceipt, ApplyReceiptUnsaved
  <2> HIDE DEF s
  <2>4. SessionsOK'
    BY <2>1, <2>2, PutOK DEF TypeOK
  <2>5. RowsStay
    <3>1. CASE rows' = rows
      BY <3>1 DEF RowsStay, TypeOK, RowsOK
    <3>2. CASE MayPersist(t) /\ rows' = Persisted(t, s)
      BY <2>2, <3>2, PersistedOK
    <3> QED
      BY <2>3, <3>1, <3>2
  <2>6. WritesOK'
    <3>1. appends' \subseteq appends \cup AppendWrite(t, a) /\ UNCHANGED <<ends, service>>
      BY <1>3 DEF ApplyReceipt, ApplyReceiptUnsaved, ReceiptAppends
    <3> QED
      BY <2>1, <2>5, <3>1, AppendOK
  <2>7. faults' \in 0 .. MaxFaults
    BY <1>3, BoundsAssumption DEF ApplyReceipt, ApplyReceiptUnsaved, Fault, TypeOK
  <2>8. UNCHANGED <<gw, service, parked>>
    BY <1>3 DEF ApplyReceipt, ApplyReceiptUnsaved
  <2> QED
    BY <2>4, <2>5, <2>6, <2>7, <2>8, RowsStayOK DEF TypeOK, ServiceOK
<1>4. ASSUME NEW a \in DOMAIN service, ApprovalCallback(t, a)
      PROVE  TypeOK'
  <2>1. Ready(t) /\ Cur(t).pending # None
    BY <1>4 DEF ApprovalCallback
  <2>2. IsSession(Cur(t)) /\ Cur(t).id = gw[t].sid /\ gw[t].sid \in Keys
    BY <2>1, CurOK
  <2>3. IsSession(ClearPending(Cur(t))) /\ ClearPending(Cur(t)).id = gw[t].sid
    BY <2>2, ClearPendingOK
  <2>4. \E s : IsSession(s) /\ s.id = gw[t].sid /\ Put(t, s)
    <3>1. CASE service[a].status = "approved"
      <4>1. PICK c \in Patched(Cur(t).pending.ctx) :
              Put(t, UpdateState(ClearPending(Cur(t)), Cur(t).pending.to, c))
        BY <1>4, <3>1 DEF ApprovalCallback
      <4>2. IsContext(c)
        BY <2>1, <2>2, PatchedContext DEF IsSession
      <4> QED
        BY <2>3, <4>1, <4>2, UpdateStateOK
    <3>2. CASE service[a].status # "approved"
      BY <1>4, <2>3, <3>2 DEF ApprovalCallback
    <3> QED
      BY <3>1, <3>2
  <2>5. SessionsOK'
    BY <2>2, <2>4, PutOK DEF TypeOK
  <2>6. RowsStay
    BY <1>4 DEF ApprovalCallback, RowsStay, TypeOK, RowsOK
  <2>7. appends' \subseteq appends \cup AppendWrite(t, a) /\ UNCHANGED <<ends, service>>
    BY <1>4 DEF ApprovalCallback
  <2>8. WritesOK'
    BY <2>1, <2>6, <2>7, AppendOK
  <2> QED
    BY <1>4, <2>5, <2>6, <2>8, RowsStayOK DEF ApprovalCallback, TypeOK, ServiceOK
<1>5. CASE PollUnknown(t)
  <2>1. GatewaysOK'
    BY <1>5, BoundsAssumption DEF PollUnknown, NewGateway, TypeOK, GatewaysOK, IsGateway
  <2> QED
    BY <1>5, <2>1 DEF PollUnknown, TypeOK, SessionsOK, RowsOK, WritesOK, ServiceOK
<1> QED
  BY <1>1, <1>2, <1>3, <1>4, <1>5 DEF Approval

\* The database, the reviewers and the loss of the process keep the types.
LEMMA EnvironmentType ==
    ASSUME TypeOK,
           \/ \E a \in DOMAIN service : Decide(a)
           \/ \E w \in appends : AppendLands(w)
           \/ \E w \in ends : EndLands(w)
           \/ Crash
    PROVE  TypeOK'
<1> USE DEF storage, memory
<1>1. ASSUME NEW a \in DOMAIN service, Decide(a)
      PROVE  TypeOK'
  <2>1. PICK status \in {"approved", "rejected"}, c \in Patched(service[a].ctx) :
          service' = [service EXCEPT ![a].status = status, ![a].ctx = c]
    BY <1>1 DEF Decide
  <2>2. IsContext(c)
    BY <1>1, PatchedContext DEF Decide, TypeOK, ServiceOK
  <2>3. ServiceOK'
    BY <2>1, <2>2 DEF TypeOK, ServiceOK
  <2> QED
    BY <1>1, <2>3
    DEF Decide, TypeOK, SessionsOK, GatewaysOK, IsGateway, RowsOK, WritesOK
<1>2. ASSUME NEW w \in appends, AppendLands(w)
      PROVE  TypeOK'
  <2>1. w.run \in DOMAIN rows /\ w.approval \in Approvals
    BY DEF TypeOK, WritesOK, ServiceOK
  <2>2. RowsStay
    <3>1. CASE rows' = rows
      BY <3>1 DEF RowsStay, TypeOK, RowsOK
    <3>2. CASE rows' = [rows EXCEPT ![w.run].audit[w.approval] = @ + 1]
      BY <2>1, <3>2 DEF RowsStay, TypeOK, RowsOK, IsRow
    <3> QED
      BY <1>2, <3>1, <3>2 DEF AppendLands
  <2>3. WritesOK'
    BY <1>2, <2>2 DEF AppendLands, TypeOK, WritesOK, RowsStay
  <2> QED
    BY <1>2, <2>2, <2>3, RowsStayOK DEF AppendLands, TypeOK, SessionsOK, ServiceOK
<1>3. ASSUME NEW w \in ends, EndLands(w)
      PROVE  TypeOK'
  <2>1. w.run \in DOMAIN rows /\ w.status \in RunStatus
    BY DEF TypeOK, WritesOK
  <2>2. RowsStay
    BY <1>3, <2>1 DEF EndLands, RowsStay, TypeOK, RowsOK, IsRow
  <2>3. WritesOK'
    BY <1>3, <2>2 DEF EndLands, TypeOK, WritesOK, RowsStay
  <2> QED
    BY <1>3, <2>2, <2>3, RowsStayOK DEF EndLands, TypeOK, SessionsOK, ServiceOK
<1>4. CASE Crash
  BY <1>4, BoundsAssumption
  DEF Crash, Fault, TypeOK, SessionsOK, GatewaysOK, RowsOK, WritesOK, ServiceOK
<1> QED
  BY <1>1, <1>2, <1>3, <1>4

\* Every reachable state is well typed: in particular a session is stored
\* under its own id and every run that a transport or a spawned write names
\* has a row, whatever is lost on the way.
THEOREM TypeCorrect == Spec => []TypeOK
<1>1. Init => TypeOK
  BY BoundsAssumption
  DEF Init, TypeOK, SessionsOK, GatewaysOK, RowsOK, WritesOK, ServiceOK
<1>2. TypeOK /\ [Next]_vars => TypeOK'
  <2> SUFFICES ASSUME TypeOK, [Next]_vars PROVE TypeOK'
    OBVIOUS
  <2>1. CASE UNCHANGED vars
    BY <2>1
    DEF vars, TypeOK, SessionsOK, GatewaysOK, IsGateway, RowsOK, WritesOK, ServiceOK
  <2>2. CASE Next
    BY <2>2, LifecycleType, TransitionType, ToolCallType, ApprovalType, EnvironmentType DEF Next
  <2> QED
    BY <2>1, <2>2
<1> QED
  BY <1>1, <1>2, PTL DEF Spec

-----------------------------------------------------------------------------
(* The history of a run records an approval at most once, and only after a *)
(* reviewer gave it.                                                       *)

\* Both are about writes that have landed; the strengthening is about those
\* still in flight, which may be duplicates and may land after a crash.
AuditInv ==
    /\ \A w \in appends : Approved(w.approval)
    /\ \A r \in DOMAIN rows : \A a \in Approvals :
         /\ rows[r].audit[a] <= 1
         /\ rows[r].audit[a] > 0 => Approved(a)

\* The histories of a step that appends nothing: those of new rows are empty.
AuditStays ==
    \A r \in DOMAIN rows' :
        \/ r \in DOMAIN rows /\ rows'[r].audit = rows[r].audit
        \/ \A a \in Approvals : rows'[r].audit[a] = 0

\* A decision of a reviewer is never taken back.
ApprovalStays == \A a : Approved(a) => Approved(a)'

\* What is left to show of a step to see that it keeps AuditInv.
LEMMA AuditStep ==
    ASSUME AuditInv, AuditStays, ApprovalStays,
           \A w \in appends' : w \in appends \/ Approved(w.approval)
    PROVE  AuditInv'
BY DEF AuditInv, AuditStays, ApprovalStays

\* Only the reviewers and a first presentation change the service's records.
LEMMA ServiceStays ==
    ASSUME UNCHANGED service
    PROVE  ApprovalStays
BY DEF ApprovalStays, Approved

\* Writing anything but its history into a row keeps the histories.
LEMMA AuditUpdate ==
    ASSUME TypeOK, NEW q \in DOMAIN rows, NEW status, NEW state, NEW s
    PROVE  /\ rows' = rows => AuditStays
           /\ rows' = [rows EXCEPT ![q].status = status] => AuditStays
           /\ rows' = [rows EXCEPT ![q].state = state, ![q].ckpt = s] => AuditStays
           /\ rows' = [rows EXCEPT ![q].status = status, ![q].state = state] => AuditStays
           /\ rows' = [rows EXCEPT ![q].status = status, ![q].state = state, ![q].ckpt = s] => AuditStays
BY DEF AuditStays, TypeOK, RowsOK, IsRow

\* A new row has an empty history.
LEMMA AuditInsert ==
    ASSUME NEW q, NEW wf, NEW s, rows' = Extended(rows, q, NewRow(wf, s))
    PROVE  AuditStays
BY DEF AuditStays, Extended, NewRow

\* Every step of a transport keeps AuditInv: it may spawn an append, but only
\* of an approval that was given.
LEMMA TransportAudit ==
    ASSUME TypeOK, AuditInv, NEW t \in Transports,
           Lifecycle(t) \/ Transition(t) \/ ToolCall(t) \/ Approval(t)
    PROVE  AuditInv'
<1> USE DEF storage, memory
<1>1. CASE Lifecycle(t)
  <2>1. UNCHANGED <<appends, service>>
    BY <1>1 DEF Lifecycle, Connect, Load, LoadUnconfirmed, Resume, ResumeUnconfirmed,
                Pause, PauseUnconfirmed, Deactivate
  <2>2. AuditStays
    <3>1. CASE Connect(t) \/ Deactivate(t)
      BY <3>1 DEF Connect, Deactivate, AuditStays
    <3>2. ASSUME NEW wf, Load(t, wf) \/ LoadUnconfirmed(t, wf)
          PROVE  AuditStays
      BY <3>2, AuditInsert DEF Load, LoadUnconfirmed
    <3>3. ASSUME NEW r \in DOMAIN rows, Resume(t, r) \/ ResumeUnconfirmed(t, r)
          PROVE  AuditStays
      BY <3>3, AuditUpdate DEF Resume, ResumeUnconfirmed
    <3>4. CASE Pause(t) \/ PauseUnconfirmed(t)
      <4>1. gw[t].run \in DOMAIN rows /\ rows' = PausedRow(t)
        BY <3>4, CurOK DEF Pause, PauseUnconfirmed, IsGateway
      <4> QED
        BY <4>1, AuditUpdate DEF PausedRow
    <3> QED
      BY <1>1, <3>1, <3>2, <3>3, <3>4 DEF Lifecycle
  <2> QED
    BY <2>1, <2>2, AuditStep, ServiceStays
<1>2. CASE Transition(t)
  <2>1. UNCHANGED <<appends, service>>
    BY <1>2 DEF Transition, Interrupt, BranchDone, SwitchBranch, ForceState, Park,
                ParkUnconfirmed, StartFork, InvokeSubflow, Advance
  <2>2. AuditStays
    <3>1. CASE UNCHANGED rows
      BY <3>1 DEF AuditStays
    <3>2. ASSUME NEW e, Park(t, e) \/ ParkUnconfirmed(t, e)
          PROVE  AuditStays
      <4>1. PICK s : Ready(t) /\ gw[t].run # None /\ rows' = Persisted(t, s)
        BY <3>2 DEF Park, ParkUnconfirmed, MayPersist, Outcomes
      <4>2. gw[t].run \in DOMAIN rows
        BY <4>1, CurOK DEF IsGateway
      <4> QED
        BY <4>1, <4>2, AuditUpdate DEF Persisted
    <3>3. (\E e \in Events : Park(t, e) \/ ParkUnconfirmed(t, e)) \/ UNCHANGED rows
      BY <1>2 DEF Transition, Interrupt, BranchDone, SwitchBranch, ForceState, StartFork,
                  InvokeSubflow, Advance
    <3> QED
      BY <3>1, <3>2, <3>3
  <2> QED
    BY <2>1, <2>2, AuditStep, ServiceStays
<1>3. CASE ToolCall(t)
  <2>1. UNCHANGED <<rows, appends, service>>
    BY <1>3 DEF ToolCall, AdapterPreTool, UpstreamTool, UpstreamEdit, AdapterPostTool
  <2> QED
    BY <2>1, AuditStep, ServiceStays DEF AuditStays
<1>4. CASE Approval(t)
  <2>1. ASSUME NEW r, RecoverPendingApproval(t, r)
        PROVE  AuditInv'
    <3>1. UNCHANGED <<rows, appends, service>>
      BY <2>1 DEF RecoverPendingApproval
    <3> QED
      BY <3>1, AuditStep, ServiceStays DEF AuditStays
  <2>2. CASE PresentApproval(t)
    <3>1. UNCHANGED <<rows, appends>>
      BY <2>2 DEF PresentApproval
    <3>2. ApprovalStays
      BY <2>2 DEF PresentApproval, Extended, ApprovalStays, Approved
    <3> QED
      BY <3>1, <3>2, AuditStep DEF AuditStays
  <2>3. ASSUME NEW a \in DOMAIN service, ApplyReceipt(t, a) \/ ApplyReceiptUnsaved(t, a)
        PROVE  AuditInv'
    <3>1. UNCHANGED service /\ Ready(t) /\ appends' = ReceiptAppends(t, a)
      BY <2>3 DEF ApplyReceipt, ApplyReceiptUnsaved, MayApply
    <3>2. \A w \in appends' : w \in appends \/ Approved(w.approval)
      BY <3>1 DEF ReceiptAppends, AppendWrite, Approved
    <3>3. AuditStays
      <4>1. CASE UNCHANGED rows
        BY <4>1 DEF AuditStays
      <4>2. CASE MayPersist(t) /\ rows' = Persisted(t, Resolved(Cur(t), service[a]))
        <5>1. gw[t].run \in DOMAIN rows
          BY <3>1, <4>2, CurOK DEF MayPersist, IsGateway
        <5> QED
          BY <4>2, <5>1, AuditUpdate DEF Persisted
      <4> QED
        BY <2>3, <4>1, <4>2 DEF ApplyReceipt, ApplyReceiptUnsaved
    <3> QED
      BY <3>1, <3>2, <3>3, AuditStep, ServiceStays
  <2>4. ASSUME NEW a \in DOMAIN service, ApprovalCallback(t, a)
        PROVE  AuditInv'
    <3>1. UNCHANGED <<rows, service>>
      BY <2>4 DEF ApprovalCallback
    <3>2. \A w \in appends' : w \in appends \/ Approved(w.approval)
      BY <2>4 DEF ApprovalCallback, AppendWrite, Approved
    <3> QED
      BY <3>1, <3>2, AuditStep, ServiceStays DEF AuditStays
  <2>5. CASE PollUnknown(t)
    <3>1. UNCHANGED <<rows, appends, service>>
      BY <2>5 DEF PollUnknown
    <3> QED
      BY <3>1, AuditStep, ServiceStays DEF AuditStays
  <2> QED
    BY <1>4, <2>1, <2>2, <2>3, <2>4, <2>5 DEF Approval
<1> QED
  BY <1>1, <1>2, <1>3, <1>4

\* So do the database, the reviewers and the loss of the process.
LEMMA EnvironmentAudit ==
    ASSUME TypeOK, AuditInv,
           \/ \E a \in DOMAIN service : Decide(a)
           \/ \E w \in appends : AppendLands(w)
           \/ \E w \in ends : EndLands(w)
           \/ Crash
    PROVE  AuditInv'
<1> USE DEF storage, memory
<1>1. ASSUME NEW a \in DOMAIN service, Decide(a)
      PROVE  AuditInv'
  <2>1. UNCHANGED <<rows, appends>>
    BY <1>1 DEF Decide
  <2>2. ApprovalStays
    BY <1>1 DEF Decide, ApprovalStays, Approved
  <2> QED
    BY <2>1, <2>2, AuditStep DEF AuditStays
<1>2. ASSUME NEW w \in appends, AppendLands(w)
      PROVE  AuditInv'
  <2>1. /\ w.run \in DOMAIN rows /\ w.approval \in Approvals
        /\ rows[w.run].audit \in [Approvals -> Nat]
        /\ Approved(w.approval)
    BY DEF TypeOK, WritesOK, ServiceOK, RowsOK, IsRow, AuditInv
  <2>2. UNCHANGED service /\ appends' \subseteq appends
    BY <1>2 DEF AppendLands
  <2>3. CASE UNCHANGED rows
    BY <2>2, <2>3, AuditStep, ServiceStays DEF AuditStays
  <2>4. CASE /\ rows[w.run].audit[w.approval] = 0
             /\ rows' = [rows EXCEPT ![w.run].audit[w.approval] = @ + 1]
    <3>1. \A b : Approved(b)' <=> Approved(b)
      BY <2>2 DEF Approved
    <3>2. ASSUME NEW r \in DOMAIN rows, NEW b \in Approvals
          PROVE  \/ rows'[r].audit[b] = rows[r].audit[b]
                 \/ b = w.approval /\ rows'[r].audit[b] = 1
      BY <2>1, <2>4 DEF TypeOK, RowsOK, IsRow
    <3>3. DOMAIN rows' = DOMAIN rows
      BY <2>4
    <3> QED
      BY <2>1, <2>2, <3>1, <3>2, <3>3 DEF AuditInv
  <2> QED
    BY <1>2, <2>3, <2>4 DEF AppendLands
<1>3. ASSUME NEW w \in ends, EndLands(w)
      PROVE  AuditInv'
  <2>1. w.run \in DOMAIN rows
    BY DEF TypeOK, WritesOK
  <2>2. AuditStays
    BY <1>3, <2>1, AuditUpdate DEF EndLands
  <2>3. UNCHANGED <<appends, service>>
    BY <1>3 DEF EndLands
  <2> QED
    BY <2>2, <2>3, AuditStep, ServiceStays
<1>4. CASE Crash
  <2>1. UNCHANGED <<rows, service>> /\ appends' \subseteq appends
    BY <1>4 DEF Crash
  <2> QED
    BY <2>1, AuditStep, ServiceStays DEF AuditStays
<1> QED
  BY <1>1, <1>2, <1>3, <1>4

\* AuditInv is an invariant.
LEMMA AuditInvariant == Spec => []AuditInv
<1>1. Init => AuditInv
  BY DEF Init, AuditInv
<1>2. TypeOK /\ AuditInv /\ [Next]_vars => AuditInv'
  <2> SUFFICES ASSUME TypeOK, AuditInv, [Next]_vars PROVE AuditInv'
    OBVIOUS
  <2>1. CASE UNCHANGED vars
    BY <2>1, AuditStep, ServiceStays DEF vars, AuditStays
  <2>2. CASE Next
    BY <2>2, TransportAudit, EnvironmentAudit DEF Next
  <2> QED
    BY <2>1, <2>2
<1> QED
  BY <1>1, <1>2, TypeCorrect, PTL DEF Spec

\* However often the receipt of a decision is replayed (a second poll, a
\* callback beside a poll, a recovery after a lost save), the run's history
\* holds it at most once.
THEOREM AuditedOnce == Spec => []ApprovalAuditedOnce
<1>1. AuditInv => ApprovalAuditedOnce
  BY DEF AuditInv, ApprovalAuditedOnce
<1> QED
  BY <1>1, AuditInvariant, PTL

\* The history of a run holds a decision only if a reviewer approved it.
THEOREM AuditSound == Spec => []AuditImpliesApproved
<1>1. AuditInv => AuditImpliesApproved
  BY DEF AuditInv, AuditImpliesApproved
<1> QED
  BY <1>1, AuditInvariant, PTL

=============================================================================
