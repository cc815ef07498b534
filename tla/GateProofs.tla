----------------------------- MODULE GateProofs -----------------------------
(***************************************************************************)
(* What the gateway promises about reviews, runs, interrupts and children, *)
(* proved for catalogues without forks, and about forks, proved for        *)
(* catalogues with them, for any number of transports, runs, approvals,    *)
(* crashes and lost answers.                                               *)
(***************************************************************************)
EXTENDS GatewayProofs, FiniteSetTheorems

-----------------------------------------------------------------------------
(* The invariant, first what it says of one session.  R is the set of the  *)
(* states that a reviewer has approved.                                    *)

\* A gated state is a reviewed one.
Passed(wf, x, R) ==
    x \in DOMAIN Machine[wf].states /\ Machine[wf].approval_mode = "ui" /\ Gated(Machine[wf], x)
        => x \in R

Entered(wf, x, R) == (Closed => x \in DOMAIN Machine[wf].states) /\ Passed(wf, x, R)

\* A child that has to return is in a state from which it does.
Handles(wf, x, ret) ==
    IsChild(wf) /\ ret # None =>
        x \in ReturnBound(Machine[wf]) /\ DOMAIN Machine[wf].interrupts # {}

\* In state x of wf, to return to ret.
Placed(wf, x, ret, R) ==
    /\ Entered(wf, x, R)
    /\ ret # None => Entered(wf, ret, R)
    /\ Handles(wf, x, ret)

\* A context of a catalogue without forks.
ContextSound(c) == c.fork = None /\ (Closed => c \in Contexts)

\* The suspended parent p can go on.
ParentSound(p, R) ==
    /\ Placed(p.wf, p.on_complete, p.ctx.ret, R)
    /\ Placed(p.wf, FailTarget(p), p.ctx.ret, R)
    /\ Closed => p.state \in DOMAIN Machine[p.wf].states
    /\ ContextSound(p.ctx)

\* The transition p that is parked in state x of wf can be applied.
PendingSound(wf, x, p, R) ==
    /\ MayPark(Machine[wf])
    /\ Closed => p.to \in DOMAIN Machine[wf].states
    /\ p.ctx.ret # None => Entered(wf, p.ctx.ret, R)
    /\ Handles(wf, p.to, p.ctx.ret)
    /\ ContextSound(p.ctx)
    /\ ReviewsKeepStill => p.from = x

\* A child has not ended.
ChildSound(wf, x, ret) ==
    /\ IsChild(wf)
    /\ ChildrenMoveByEvents =>
         /\ ~ IsFinal(Machine[wf], x)
         /\ ret # None => ~ IsFinal(Machine[wf], ret)

Sound(s, R) ==
    /\ Placed(s.wf, s.state, s.ctx.ret, R)
    /\ ContextSound(s.ctx)
    /\ s.pending # None => PendingSound(s.wf, s.state, s.pending, R)
    /\ s.subflow # None => ParentSound(s.subflow, R) /\ ChildSound(s.wf, s.state, s.ctx.ret)

\* The hypotheses under which a run keeps its workflow.
Tracked == Flat /\ Closed

\* s runs wf, or wf is the parent that waits for it.
Carries(s, wf) == IF s.subflow = None THEN s.wf = wf ELSE s.subflow.wf = wf

-----------------------------------------------------------------------------
(* ... then of the rows, the transports and the service.                   *)

\* The states reviewers have approved, according to the service's records sv.
ApprovedIn(sv) == {a \in DOMAIN sv : sv[a].status = "approved"}

ReviewedIn(sv) == {sv[a].to : a \in ApprovedIn(sv)}

\* The parked transition p is the one that the service knows by its id, if it
\* knows it, as a transition of run r; n ids have been given out.
PendingFiled(p, r, sv, n) ==
    /\ p.id <= n
    /\ p.id \in DOMAIN sv =>
         /\ sv[p.id].run = r
         /\ sv[p.id].to = p.to
         /\ sv[p.id].ctx.ret = p.ctx.ret

RowSound(r, row, sv, n) ==
    /\ Sound(row.ckpt, ReviewedIn(sv))
    /\ row.ckpt.id = row.sid
    /\ Tracked => Carries(row.ckpt, row.wf)
    /\ row.status \in {"running", "paused"} => row.ckpt.state = row.state
    /\ row.ckpt.pending # None =>
         /\ PendingFiled(row.ckpt.pending, r, sv, n)
         /\ row.status = "running" => row.ckpt.pending.from = row.state

RowsSound == \A r \in DOMAIN rows : RowSound(r, rows[r], service, parked)

\* No two checkpoints hold the same approval.
PendingsApart ==
    \A r, q \in DOMAIN rows :
        (rows[r].ckpt.pending # None /\ rows[q].ckpt.pending # None
          /\ rows[r].ckpt.pending.id = rows[q].ckpt.pending.id) => r = q

SessionsSound ==
    \A k \in Keys : sessions[k] # None => Sound(sessions[k], ReviewedIn(service))

\* A transport works on its own session and in a run of its own.
TransportSound(t) ==
    gw[t] # None =>
        /\ gw[t].sid = t
        /\ gw[t].run # None =>
             /\ rows[gw[t].run].sid = t
             /\ Tracked /\ sessions[t] # None => Carries(sessions[t], rows[gw[t].run].wf)

\* What is parked in a session is parked in the checkpoint of one of its runs,
\* the transport's if it has one.
Backed(t) ==
    sessions[t] # None /\ sessions[t].pending # None =>
        \E r \in DOMAIN rows :
            /\ rows[r].sid = t
            /\ rows[r].ckpt.pending = sessions[t].pending
            /\ gw[t] # None /\ gw[t].run # None => gw[t].run = r

TransportsSound == \A t \in Transports : TransportSound(t) /\ Backed(t)

ServiceSound ==
    \A a \in DOMAIN service : a <= parked /\ ContextSound(service[a].ctx)

WritesSound ==
    /\ \A w \in appends : service[w.approval].run = w.run
    /\ \A w \in ends : w.status \notin {"running", "paused"}

RunsInv ==
    /\ SessionsSound
    /\ RowsSound
    /\ PendingsApart
    /\ TransportsSound
    /\ ServiceSound
    /\ WritesSound
    /\ AuditInOwnRun

-----------------------------------------------------------------------------
(* Where a transition leads.                                               *)

\* A target is entered as it is, or as the state to return to.
LEMMA EnterShape ==
    ASSUME NEW target, NEW ctx, IsContext(ctx), NEW q \in Enter(target, ctx)
    PROVE  \/ q.state = target /\ target # ReturnTarget /\ q.ctx = ctx
           \/ /\ target = ReturnTarget /\ ctx.ret # None /\ q.state = ctx.ret
              /\ IsContext(q.ctx) /\ q.ctx.ret = None
              /\ ContextSound(ctx) => ContextSound(q.ctx)
BY DEF Enter, IsContext, ContextSound, Contexts

\* Whichever branch is taken, its target is one of all_targets.
LEMMA TakeTarget ==
    ASSUME NEW def, NEW tr, tr.kind \in {"full", "guarded", "fork", "invoke"},
           tr.kind = "invoke" => tr.on_complete # None,
           NEW ctx, NEW q \in Take(def, tr, ctx)
    PROVE  \E target \in AllTargets(tr) : q \in Enter(target, ctx)
<1>1. CASE tr.kind = "guarded"
  <2>1. q \in TakeBranch(def, tr.branches, ctx)
    BY <1>1 DEF Take
  <2>2. \E i \in DOMAIN tr.branches : q \in Enter(tr.branches[i].target, ctx)
    BY <2>1 DEF TakeBranch
  <2>3. AllTargets(tr) = {tr.branches[i].target : i \in DOMAIN tr.branches}
    BY <1>1 DEF AllTargets
  <2> QED
    BY <2>2, <2>3
<1>2. CASE tr.kind # "guarded"
  <2>1. q \in Enter(Target(tr), ctx)
    BY <1>2 DEF Take
  <2>2. Target(tr) \in AllTargets(tr)
    BY <1>2 DEF Target, AllTargets
  <2> QED
    BY <2>1, <2>2
<1> QED
  BY <1>1, <1>2

\* r is what an event makes of state and ctx: by one of the state's own
\* transitions, or by its safe_next.
ByTransition(def, state, ctx, r) ==
    \E ev \in DOMAIN def.states[state].on :
        /\ r.via = def.states[state].on[ev]
        /\ \E target \in AllTargets(r.via) : \E q \in Enter(target, ctx) :
             r.state = q.state /\ r.ctx = q.ctx

ByDefault(def, state, ctx, r) ==
    /\ def.states[state].safe_next # None
    /\ r.via = Simple(def.states[state].safe_next)
    /\ r.state = def.states[state].safe_next
    /\ r.ctx = ctx

\* A transition of a state is one of the definition.
LEMMA OwnTransition ==
    ASSUME NEW def, NEW state \in DOMAIN def.states, NEW ev \in DOMAIN def.states[state].on
    PROVE  def.states[state].on[ev] \in Transitions(def)
BY DEF Transitions

\* resolve_transition does nothing else.
LEMMA ResolveShape ==
    ASSUME NEW wf \in DOMAIN Machine, NEW state, NEW e, NEW ctx,
           NEW r \in Resolve(Machine[wf], state, e, ctx)
    PROVE  /\ state \in DOMAIN Machine[wf].states
           /\ ByTransition(Machine[wf], state, ctx, r) \/ ByDefault(Machine[wf], state, ctx, r)
<1> DEFINE def == Machine[wf]
           sd == def.states[state]
           results(tr) == {[state |-> q.state, ctx |-> q.ctx, via |-> tr] : q \in Take(def, tr, ctx)}
<1>1. state \in DOMAIN def.states
  BY DEF Resolve
<1>2. CASE FallsBack(sd, e)
  <2>1. r \in {[state |-> sd.safe_next, ctx |-> ctx, via |-> Simple(sd.safe_next)]}
    BY <1>1, <1>2 DEF Resolve
  <2> QED
    BY <1>1, <1>2, <2>1 DEF ByDefault, FallsBack
<1>3. CASE ~ FallsBack(sd, e)
  <2>1. r \in UNION {results(sd.on[ev]) : ev \in Matches(sd, e)}
    BY <1>1, <1>3 DEF Resolve
  <2>2. PICK ev \in Matches(sd, e) : r \in results(sd.on[ev])
    BY <2>1
  <2>3. ev \in DOMAIN sd.on
    BY DEF Matches, ByTarget, BySubstring
  <2>4. PICK q \in Take(def, sd.on[ev], ctx) :
          r = [state |-> q.state, ctx |-> q.ctx, via |-> sd.on[ev]]
    BY <2>2
  <2>5. sd.on[ev] \in Transitions(def)
    BY <1>1, <2>3, OwnTransition
  <2>6. \E target \in AllTargets(sd.on[ev]) : q \in Enter(target, ctx)
    BY <2>5, TakeTarget, TransitionAssumption
  <2> QED
    BY <1>1, <2>3, <2>4, <2>6 DEF ByTransition
<1> QED
  BY <1>2, <1>3

\* The largest of the enclosures is one.
LEMMA ReturnBoundEncloses ==
    ASSUME NEW def
    PROVE  Encloses(def, ReturnBound(def))
<1> DEFINE B == ReturnBound(def)
<1> SUFFICES ASSUME NEW s \in B
             PROVE  /\ ~ def.states[s].final
                    /\ def.states[s].safe_next \in B \cup {None}
                    /\ \A e \in DOMAIN def.states[s].on :
                         LET t == def.states[s].on[e]
                         IN  IF t.kind = "invoke" THEN {t.on_complete, FailTarget(t)} \subseteq B
                             ELSE AllTargets(t) \subseteq B \cup {ReturnTarget}
  BY DEF Encloses
<1>1. PICK X \in SUBSET DOMAIN def.states : Encloses(def, X) /\ s \in X
  BY DEF ReturnBound
<1>2. X \subseteq B
  BY <1>1 DEF ReturnBound
<1> HIDE DEF B
<1> QED
  BY <1>1, <1>2 DEF Encloses

\* A state of the enclosure is a state, and not final.
LEMMA ReturnBoundOpen ==
    ASSUME NEW def, NEW x \in ReturnBound(def)
    PROVE  x \in DOMAIN def.states /\ ~ def.states[x].final /\ ~ IsFinal(def, x)
<1>1. x \in DOMAIN def.states
  BY DEF ReturnBound
<1>2. ~ def.states[x].final
  BY ReturnBoundEncloses DEF Encloses
<1> QED
  BY <1>1, <1>2 DEF IsFinal

\* An event leads to a state of the workflow, not around a review, and a child
\* that has to return still does.
LEMMA ResolveLands ==
    ASSUME NEW wf \in DOMAIN Machine, NEW state, NEW e, NEW ctx, NEW R, IsContext(ctx),
           Placed(wf, state, ctx.ret, R), NEW r \in Resolve(Machine[wf], state, e, ctx)
    PROVE  /\ IsContext(r.ctx)
           /\ r.ctx.ret \in {ctx.ret, None}
           /\ ContextSound(ctx) => ContextSound(r.ctx)
           /\ Closed => r.state \in DOMAIN Machine[wf].states
           /\ Passed(wf, r.state, R) \/ (RequiresApproval(r.via) /\ r.state \in AllTargets(r.via))
           /\ Handles(wf, r.state, r.ctx.ret)
<1> DEFINE def == Machine[wf]
           sd  == def.states[state]
<1>1. state \in DOMAIN def.states
  BY ResolveShape
<1>2. CASE ByDefault(def, state, ctx, r)
  <2>1. /\ r.ctx = ctx
        /\ r.state = sd.safe_next
        /\ sd.safe_next # None
    BY <1>2 DEF ByDefault
  <2>2. Closed => sd.safe_next \in DOMAIN def.states
    BY <1>1, <2>1 DEF Closed
  <2>3. ~ Gated(def, sd.safe_next)
    BY <1>1 DEF Gated, EnteredOnlyByReview
  <2>4. ASSUME IsChild(wf), ctx.ret # None
        PROVE  sd.safe_next \in ReturnBound(def)
    <3>1. state \in ReturnBound(def)
      BY <2>4 DEF Placed, Handles
    <3> QED
      BY <2>1, <3>1, ReturnBoundEncloses DEF Encloses
  <2> QED
    BY <2>1, <2>2, <2>3, <2>4 DEF Passed, Placed, Handles
<1>3. CASE ByTransition(def, state, ctx, r)
  <2>1. PICK ev \in DOMAIN sd.on :
          /\ r.via = sd.on[ev]
          /\ \E target \in AllTargets(r.via) : \E q \in Enter(target, ctx) :
               r.state = q.state /\ r.ctx = q.ctx
    BY <1>3 DEF ByTransition
  <2>2. PICK target \in AllTargets(r.via) : \E q \in Enter(target, ctx) :
          r.state = q.state /\ r.ctx = q.ctx
    BY <2>1
  <2>3. r.via \in Transitions(def)
    BY <1>1, <2>1, OwnTransition
  <2>4. CASE target = ReturnTarget
    <3>1. /\ ctx.ret # None /\ r.state = ctx.ret /\ IsContext(r.ctx)
          /\ r.ctx.ret = None /\ (ContextSound(ctx) => ContextSound(r.ctx))
      BY <2>2, <2>4, EnterShape
    <3> QED
      BY <3>1 DEF Placed, Entered, Handles
  <2>5. CASE target # ReturnTarget
    <3>1. r.state = target /\ r.ctx = ctx
      BY <2>2, <2>5, EnterShape
    <3>2. AllTargets(r.via) \subseteq {r.via.on_complete, FailTarget(r.via)} \/ r.via.kind # "invoke"
      BY DEF AllTargets, FailTarget
    <3>3. Closed => target \in DOMAIN def.states
      BY <2>3, <2>5, <3>2 DEF Closed
    <3>4. RequiresApproval(r.via) \/ ~ Gated(def, target)
      BY <2>3 DEF Gated, EnteredOnlyByReview
    <3>5. ASSUME IsChild(wf), ctx.ret # None
          PROVE  target \in ReturnBound(def)
      <4>1. state \in ReturnBound(def)
        BY <3>5 DEF Placed, Handles
      <4> QED
        BY <2>1, <2>5, <3>2, <4>1, ReturnBoundEncloses DEF Encloses
    <3> QED
      BY <3>1, <3>3, <3>4, <3>5 DEF Passed, Placed, Handles
  <2> QED
    BY <2>4, <2>5
<1> QED
  BY <1>2, <1>3, ResolveShape

-----------------------------------------------------------------------------
(* What the operations do to a sound session.                              *)

\* s2 is s further on: the same session, in the same run, with the transition
\* that was parked or with none.
Follows(s, s2) ==
    /\ s2.id = s.id
    /\ s2.pending \in {s.pending, None}
    /\ \A wf : Tracked /\ Carries(s, wf) => Carries(s2, wf)

\* Reviews that come later do no harm.
LEMMA SoundGrows ==
    ASSUME NEW s, NEW R, NEW R2, R \subseteq R2, Sound(s, R)
    PROVE  Sound(s, R2)
BY DEF Sound, Placed, Entered, Passed, ParentSound, PendingSound

\* The initial state of a workflow is no gated one.
LEMMA InitialPlaced ==
    ASSUME NEW wf \in DOMAIN Machine, NEW R
    PROVE  Placed(wf, Machine[wf].initial, None, R)
BY DEF Placed, Entered, Passed, Handles, Closed, Gated, EnteredOnlyByReview

\* Contexts: of a new session, and patched.
LEMMA NewContextSound ==
    ASSUME NEW wf \in DOMAIN Machine
    PROVE  /\ ContextSound(NewContext(Machine[wf]))
           /\ NewContext(Machine[wf]).ret = None
BY CatalogueAssumption DEF ContextSound, Contexts, NewContext, EmptyContext

\* Data patched into a context leaves its return state and its fork alone.
LEMMA PatchedSound ==
    ASSUME NEW c, IsContext(c), NEW d \in Patched(c)
    PROVE  /\ IsContext(d)
           /\ d.ret = c.ret
           /\ ContextSound(c) => ContextSound(d)
BY PatchedContext DEF IsContext, Patched, ContextSound, Contexts

\* A new session is sound and carries its workflow.
LEMMA NewSessionSound ==
    ASSUME NEW k, NEW wf \in DOMAIN Machine, NEW R
    PROVE  /\ Sound(NewSession(k, wf), R)
           /\ Carries(NewSession(k, wf), wf)
           /\ NewSession(k, wf).id = k
           /\ NewSession(k, wf).pending = None
BY InitialPlaced, NewContextSound DEF Sound, Carries, NewSession

\* A child starts, in a sound session from which nothing is parked.
LEMMA StartSubflowSound ==
    ASSUME NEW s, IsSession(s), s.pending = None,
           NEW m \in DOMAIN Machine, IsChild(m),
           NEW c, c.ret = None, ContextSound(c), NEW oc, NEW of, NEW R,
           ParentSound([wf |-> s.wf, state |-> s.state, ctx |-> s.ctx,
                        on_complete |-> oc, on_fail |-> of], R)
    PROVE  LET s2 == StartSubflow(s, m, c, oc, of)
           IN  /\ Sound(s2, R)
               /\ s2.id = s.id /\ s2.pending = None
               /\ Tracked => Carries(s2, s.wf)
<1> DEFINE p  == [wf |-> s.wf, state |-> s.state, ctx |-> s.ctx,
                  on_complete |-> oc, on_fail |-> of]
           s2 == StartSubflow(s, m, c, oc, of)
<1>1. /\ s2.id = s.id /\ s2.pending = None
      /\ s2.wf = m /\ s2.state = Machine[m].initial /\ s2.ctx = c /\ s2.subflow = p
  BY DEF IsSession, StartSubflow
<1>2. p.wf = s.wf
  OBVIOUS
<1>3. ChildSound(m, Machine[m].initial, None)
  BY DEF ChildSound, ChildrenMoveByEvents
<1>4. Closed => p # None
  <2> SUFFICES ASSUME Closed PROVE p \in Suspended
    BY NoneAssumption
  <2>1. /\ s.wf \in DOMAIN Machine
        /\ oc \in DOMAIN Machine[s.wf].states
        /\ FailTarget(p) \in DOMAIN Machine[s.wf].states
        /\ s.state \in DOMAIN Machine[s.wf].states
        /\ s.ctx \in Contexts
    BY DEF IsSession, ParentSound, Placed, Entered, ContextSound
  <2>2. of \in Names \cup {None}
    BY <2>1 DEF FailTarget, Names
  <2> QED
    BY <2>1, <2>2 DEF Suspended, Names
<1> HIDE DEF p, s2
<1>5. Sound(s2, R)
  BY <1>1, <1>3, InitialPlaced DEF p, Sound
<1>6. Tracked => Carries(s2, s.wf)
  BY <1>1, <1>2, <1>4 DEF Carries, Tracked
<1> QED
  BY <1>1, <1>5, <1>6 DEF s2

\* The session a load prepares is sound and carries the workflow loaded.
LEMMA PreparedSound ==
    ASSUME NEW k \in Keys, NEW wf \in DOMAIN Machine, NEW s \in Prepared(k, wf), NEW R
    PROVE  /\ Sound(s, R)
           /\ Tracked => Carries(s, wf)
           /\ s.id = k /\ s.pending = None
<1> DEFINE n == NewSession(k, wf)
<1>1. CASE ~ Machine[wf].adr
  <2>1. s = n
    BY <1>1 DEF Prepared
  <2> QED
    BY <2>1, NewSessionSound
<1>2. CASE Machine[wf].adr
  <2>1. ADR \in DOMAIN Machine /\ IsChild(ADR)
    BY <1>2, CatalogueAssumption DEF IsChild
  <2>2. PICK c \in Patched(NewContext(Machine[ADR])) :
          s = StartSubflow(n, ADR, c, Machine[wf].initial, "failed")
    BY <1>2 DEF Prepared
  <2>3. c.ret = None /\ ContextSound(c)
    BY <2>1, NewContextOK, NewContextSound, PatchedSound
  <2>4. /\ IsSession(n) /\ n.pending = None /\ n.wf = wf /\ n.state = Machine[wf].initial
        /\ n.id = k /\ n.ctx.ret = None /\ ContextSound(n.ctx)
    BY NewSessionOK, NewContextSound DEF NewSession
  <2>5. Placed(wf, "failed", None, R)
    BY <1>2 DEF Placed, Entered, Passed, Handles, Closed, Gated, EnteredOnlyByReview
  <2> DEFINE p == [wf |-> n.wf, state |-> n.state, ctx |-> n.ctx,
                   on_complete |-> Machine[wf].initial, on_fail |-> "failed"]
  <2>6. /\ p.wf = wf /\ p.state = Machine[wf].initial /\ p.ctx.ret = None /\ ContextSound(p.ctx)
        /\ p.on_complete = Machine[wf].initial /\ FailTarget(p) = "failed"
    BY <2>4 DEF FailTarget
  <2>7. Closed => Machine[wf].initial \in DOMAIN Machine[wf].states
    BY DEF Closed
  <2> HIDE DEF n
  <2>8. ParentSound(p, R)
    <3> HIDE DEF p
    <3> QED
      BY <2>5, <2>6, <2>7, InitialPlaced DEF ParentSound
  <2> QED
    BY <2>1, <2>2, <2>3, <2>4, <2>8, StartSubflowSound
<1> QED
  BY <1>1, <1>2

\* An interrupt moves to its target and notes the state to return to.
LEMMA InterruptedSound ==
    ASSUME ChildrenReturn, NEW s, IsSession(s), NEW R, Sound(s, R),
           NEW name, MayInterrupt(s, name)
    PROVE  Sound(Interrupted(s, name), R) /\ Follows(s, Interrupted(s, name))
<1> DEFINE def == Machine[s.wf]
           x   == def.interrupts[name]
           c   == [s.ctx EXCEPT !.ret = s.state]
           s2  == Interrupted(s, name)
<1>1. /\ name \in DOMAIN def.interrupts
      /\ s.wf \in DOMAIN Machine
      /\ IsContext(s.ctx)
  BY DEF MayInterrupt, Def, IsSession
<1>2. /\ s2.id = s.id /\ s2.wf = s.wf /\ s2.state = x /\ s2.ctx = c
      /\ s2.pending = s.pending /\ s2.subflow = s.subflow
  BY DEF Interrupted, UpdateState, IsSession, Def
<1>3. c.ret = s.state /\ ContextSound(c)
  <2>1. Closed => s.state \in Names
    BY <1>1 DEF Sound, Placed, Entered, Names
  <2> QED
    BY <1>1, <2>1 DEF IsContext, Sound, ContextSound, Contexts
<1>4. Entered(s.wf, x, R)
  BY <1>1 DEF Entered, Passed, Closed, Gated, EnteredOnlyByReview
<1>5. IsChild(s.wf) => x \in ReturnBound(def)
  BY <1>1 DEF ChildrenReturn
<1>6. Placed(s.wf, x, s.state, R)
  BY <1>1, <1>4, <1>5 DEF Placed, Handles, Sound
<1>7. s.pending # None => PendingSound(s.wf, x, s.pending, R)
  BY <1>1 DEF Sound, PendingSound, ReviewsKeepStill
<1>8. s.subflow # None => ChildSound(s.wf, x, s.state)
  <2>1. x \in ReturnBound(def) => ~ IsFinal(def, x)
    BY ReturnBoundOpen
  <2> QED
    BY <1>5, <2>1 DEF Sound, ChildSound
<1> HIDE DEF x, c, s2
<1>9. Sound(s2, R)
  BY <1>2, <1>3, <1>6, <1>7, <1>8 DEF Sound
<1>10. Follows(s, s2)
  BY <1>2 DEF Follows, Carries
<1> QED
  BY <1>9, <1>10 DEF s2

\* statewright_force_state, which only a debug workflow has.
LEMMA ForcedSound ==
    ASSUME ChildrenReturn, NEW s, IsSession(s), NEW R, Sound(s, R), Def(s).debug,
           NEW x \in DOMAIN Def(s).states, NEW c \in Patched(s.ctx)
    PROVE  LET s2 == UpdateState(ClearPending(s), x, c)
           IN  Sound(s2, R) /\ Follows(s, s2)
<1> DEFINE s2 == UpdateState(ClearPending(s), x, c)
<1>1. /\ s.wf \in DOMAIN Machine /\ IsContext(s.ctx)
      /\ Machine[s.wf].debug /\ x \in DOMAIN Machine[s.wf].states
  BY DEF IsSession, Def
<1>2. /\ s2.id = s.id /\ s2.wf = s.wf /\ s2.state = x /\ s2.ctx = c
      /\ s2.pending = None /\ s2.subflow = s.subflow
  BY DEF UpdateState, ClearPending, IsSession
<1>3. c.ret = s.ctx.ret /\ ContextSound(c)
  BY <1>1, PatchedSound DEF Sound
<1>4. Placed(s.wf, x, c.ret, R)
  BY <1>1, <1>3 DEF Sound, Placed, Entered, Passed, Gated, EnteredOnlyByReview, Handles, ChildrenReturn
<1>5. s.subflow # None => ChildSound(s.wf, x, c.ret)
  BY <1>1 DEF Sound, ChildSound, ChildrenMoveByEvents
<1> HIDE DEF s2
<1>6. Sound(s2, R)
  BY <1>2, <1>3, <1>4, <1>5 DEF Sound
<1>7. Follows(s, s2)
  BY <1>2 DEF Follows, Carries
<1> QED
  BY <1>6, <1>7 DEF s2

\* A rejected transition is dropped.
LEMMA ClearedSound ==
    ASSUME NEW s, IsSession(s), NEW R, Sound(s, R)
    PROVE  Sound(ClearPending(s), R) /\ Follows(s, ClearPending(s))
<1> DEFINE s2 == ClearPending(s)
<1>1. /\ s2.id = s.id /\ s2.wf = s.wf /\ s2.state = s.state /\ s2.ctx = s.ctx
      /\ s2.pending = None /\ s2.subflow = s.subflow
  BY DEF ClearPending, IsSession
<1> HIDE DEF s2
<1>2. Sound(s2, R) /\ Follows(s, s2)
  BY <1>1 DEF Sound, Follows, Carries
<1> QED
  BY <1>2 DEF s2

\* An approved transition is applied, with the context it was approved with.
LEMMA AppliedSound ==
    ASSUME NEW s, IsSession(s), NEW R, Sound(s, R), s.pending # None, s.pending.to \in R,
           NEW c, c.ret = s.pending.ctx.ret, ContextSound(c)
    PROVE  LET s2 == ClearPending(UpdateState(s, s.pending.to, c))
               s3 == UpdateState(ClearPending(s), s.pending.to, c)
           IN  s2 = s3 /\ Sound(s2, R) /\ Follows(s, s2)
<1> DEFINE s2 == ClearPending(UpdateState(s, s.pending.to, c))
           s3 == UpdateState(ClearPending(s), s.pending.to, c)
           p  == s.pending
<1>1. s2 = s3
  BY DEF UpdateState, ClearPending, IsSession
<1>2. /\ s2.id = s.id /\ s2.wf = s.wf /\ s2.state = p.to /\ s2.ctx = c
      /\ s2.pending = None /\ s2.subflow = s.subflow
  BY DEF UpdateState, ClearPending, IsSession
<1>3. PendingSound(s.wf, s.state, p, R)
  BY DEF Sound
<1>4. Placed(s.wf, p.to, c.ret, R)
  BY <1>3 DEF PendingSound, Placed, Entered, Passed
<1>5. s.subflow # None => ChildSound(s.wf, p.to, c.ret)
  BY <1>3 DEF Sound, PendingSound, ChildSound, ChildrenMoveByEvents, IsSession
<1> HIDE DEF s2, s3
<1>6. Sound(s2, R) /\ Follows(s, s2)
  BY <1>2, <1>4, <1>5 DEF Sound, Follows, Carries
<1> QED
  BY <1>1, <1>6 DEF s2, s3

\* A tool call moves a workflow to a state that lists the tool, which no gated
\* state does, and no child with an interrupt.
LEMMA ImplicitSound ==
    ASSUME ChildrenReturn, NEW s, IsSession(s), NEW R, Sound(s, R),
           NEW tool, NEW x \in ImplicitTargets(Def(s), s.state, s.ctx, tool)
    PROVE  LET s2 == UpdateState(s, x, s.ctx)
           IN  Sound(s2, R) /\ Follows(s, s2)
<1> DEFINE def == Machine[s.wf]
           s2  == UpdateState(s, x, s.ctx)
<1>1. s.wf \in DOMAIN Machine /\ IsContext(s.ctx) /\ Placed(s.wf, s.state, s.ctx.ret, R)
  BY DEF IsSession, Sound
<1>2. PICK ev \in ImplicitEvents(def, s.state, tool) :
        \E r \in Resolve(def, s.state, ev, s.ctx) : x = r.state
  BY DEF ImplicitTargets, Def
<1>3. PICK r \in Resolve(def, s.state, ev, s.ctx) : x = r.state
  BY <1>2
<1> DEFINE tr == def.states[s.state].on[ev]
<1>4. /\ ev \in DOMAIN def.states[s.state].on
      /\ Target(tr) \in DOMAIN def.states
      /\ def.states[Target(tr)].tools # None
  BY DEF ImplicitEvents
<1>5. ~ ToolsMoveNothing(def)
  BY <1>4 DEF ToolsMoveNothing
<1>6. Closed => x \in DOMAIN def.states
  BY <1>1, <1>3, ResolveLands
<1>7. Passed(s.wf, x, R)
  <2>1. CASE ~ RequiresApproval(r.via)
    BY <1>1, <1>3, <2>1, ResolveLands
  <2>2. CASE RequiresApproval(r.via) /\ x \in AllTargets(r.via)
    <3>1. r.via = tr
      <4>1. Matches(def.states[s.state], ev) = {ev} /\ ~ FallsBack(def.states[s.state], ev)
        BY <1>4 DEF Matches, FallsBack
      <4>2. s.state \in DOMAIN def.states
        BY <1>1, ResolveShape
      <4> DEFINE results(t) == {[state |-> q.state, ctx |-> q.ctx, via |-> t]
                                : q \in Take(def, t, s.ctx)}
      <4>3. r \in UNION {results(def.states[s.state].on[e]) : e \in {ev}}
        BY <4>1, <4>2 DEF Resolve
      <4> QED
        BY <4>3
    <3>2. x = Target(tr)
      BY <2>2, <3>1 DEF RequiresApproval, AllTargets, Target
    <3>3. ~ Gated(def, x)
      BY <1>4, <3>2 DEF Gated
    <3> QED
      BY <3>3 DEF Passed
  <2> QED
    BY <1>1, <1>3, <2>1, <2>2, ResolveLands
<1>8. IsChild(s.wf) => s.ctx.ret = None
  BY <1>1, <1>5 DEF Placed, Handles, ChildrenReturn
<1>9. Placed(s.wf, x, s.ctx.ret, R)
  BY <1>1, <1>6, <1>7, <1>8 DEF Placed, Entered, Handles
<1>10. s.pending # None => PendingSound(s.wf, x, s.pending, R)
  BY <1>1, <1>5 DEF Sound, PendingSound, ReviewsKeepStill
<1>11. s.subflow # None => ChildSound(s.wf, x, s.ctx.ret)
  BY <1>1, <1>5 DEF Sound, ChildSound, ChildrenMoveByEvents
<1>12. /\ s2.id = s.id /\ s2.wf = s.wf /\ s2.state = x /\ s2.ctx = s.ctx
       /\ s2.pending = s.pending /\ s2.subflow = s.subflow
  BY DEF UpdateState, IsSession
<1> HIDE DEF s2
<1>13. Sound(s2, R) /\ Follows(s, s2)
  BY <1>9, <1>10, <1>11, <1>12 DEF Sound, Follows, Carries
<1> QED
  BY <1>13 DEF s2

\* A child that is invoked: its parent waits for it, to go on in a state that
\* no review protects.
LEMMA InvokedSound ==
    ASSUME NEW s, IsSession(s), NEW R, Sound(s, R), s.pending = None, NEW e,
           NEW r \in Resolve(Def(s), s.state, e, s.ctx),
           r.via.kind = "invoke", r.via.machine \in DOMAIN Machine,
           NEW c \in Patched(NewContext(Machine[r.via.machine]))
    PROVE  LET s2 == StartSubflow(s, r.via.machine, c, r.via.on_complete, r.via.on_fail)
           IN  Sound(s2, R) /\ Follows(s, s2)
<1> DEFINE def == Machine[s.wf]
           m   == r.via.machine
           oc  == r.via.on_complete
           of  == r.via.on_fail
           p   == [wf |-> s.wf, state |-> s.state, ctx |-> s.ctx,
                   on_complete |-> oc, on_fail |-> of]
<1>1. s.wf \in DOMAIN Machine /\ IsContext(s.ctx) /\ Placed(s.wf, s.state, s.ctx.ret, R)
  BY DEF IsSession, Sound
<1>2. PICK ev \in DOMAIN def.states[s.state].on : r.via = def.states[s.state].on[ev]
  <2>1. ~ ByDefault(def, s.state, s.ctx, r)
    BY DEF ByDefault, Simple, Full
  <2> QED
    BY <1>1, <2>1, ResolveShape DEF Def, ByTransition
<1>3. s.state \in DOMAIN def.states /\ r.via \in Transitions(def)
  BY <1>1, <1>2, ResolveShape, OwnTransition DEF Def
<1>4. IsChild(m)
  BY <1>1, <1>3 DEF IsChild
<1>5. c.ret = None /\ ContextSound(c)
  BY NewContextOK, NewContextSound, PatchedSound
<1>6. oc # None /\ oc \in AllTargets(r.via) /\ ~ RequiresApproval(r.via)
  BY <1>1, <1>3, TransitionAssumption DEF AllTargets, RequiresApproval
<1>7. of = None \/ of \in AllTargets(r.via)
  BY DEF AllTargets
<1>8. ~ Gated(def, oc) /\ ~ Gated(def, FailTarget(r.via))
  BY <1>3, <1>6, <1>7 DEF Gated, EnteredOnlyByReview, FailTarget
<1>9. Closed => oc \in DOMAIN def.states /\ FailTarget(r.via) \in DOMAIN def.states
  BY <1>1, <1>3 DEF Closed
<1>10. IsChild(s.wf) /\ s.ctx.ret # None =>
         oc \in ReturnBound(def) /\ FailTarget(r.via) \in ReturnBound(def)
  <2> SUFFICES ASSUME s.state \in ReturnBound(def)
               PROVE  {r.via.on_complete, FailTarget(r.via)} \subseteq ReturnBound(def)
    BY <1>1 DEF Placed, Handles
  <2>1. Encloses(def, ReturnBound(def))
    BY ReturnBoundEncloses
  <2> QED
    BY <1>2, <2>1 DEF Encloses
<1>11. ParentSound(p, R)
  <2>1. /\ p.wf = s.wf /\ p.state = s.state /\ p.ctx = s.ctx
        /\ p.on_complete = oc /\ FailTarget(p) = FailTarget(r.via)
    BY DEF FailTarget
  <2>2. /\ Placed(s.wf, oc, s.ctx.ret, R)
        /\ Placed(s.wf, FailTarget(r.via), s.ctx.ret, R)
    BY <1>1, <1>8, <1>9, <1>10 DEF Placed, Entered, Passed, Handles
  <2> HIDE DEF p, oc, of
  <2> QED
    BY <1>3, <2>1, <2>2 DEF ParentSound, Sound
<1> DEFINE s2 == StartSubflow(s, m, c, oc, of)
<1>12. /\ Sound(s2, R)
       /\ s2.id = s.id /\ s2.pending = None
       /\ Tracked => Carries(s2, s.wf)
  <2> HIDE DEF m, oc, of
  <2> QED
    BY <1>4, <1>5, <1>11, StartSubflowSound DEF m
<1>13. Flat => s.subflow = None
  BY <1>1, <1>3 DEF Flat, Sound, ChildSound
<1> HIDE DEF s2
<1>14. Follows(s, s2)
  BY <1>12, <1>13 DEF Follows, Carries, Tracked
<1> QED
  BY <1>12, <1>14 DEF s2

\* A transition is parked: the session stays where it is.
LEMMA ParkedSound ==
    ASSUME NEW s, IsSession(s), NEW R, Sound(s, R), s.pending = None, NEW e,
           NEW r \in Resolve(Def(s), s.state, e, s.ctx), NEW c \in Patched(r.ctx),
           RequiresApproval(r.via), Def(s).approval_mode = "ui", NEW a
    PROVE  LET s2 == SetPending(s, [id |-> a, from |-> s.state, to |-> r.state, ctx |-> c])
           IN  Sound(s2, R) /\ (\A wf : Carries(s, wf) => Carries(s2, wf))
<1> DEFINE def == Machine[s.wf]
           p   == [id |-> a, from |-> s.state, to |-> r.state, ctx |-> c]
           s2  == SetPending(s, p)
<1>1. s.wf \in DOMAIN Machine /\ IsContext(s.ctx) /\ Placed(s.wf, s.state, s.ctx.ret, R)
  BY DEF IsSession, Sound
<1>2. r.via \in Transitions(def)
  <2>1. ~ ByDefault(def, s.state, s.ctx, r)
    BY DEF ByDefault, Simple, Full, RequiresApproval
  <2> QED
    BY <1>1, <2>1, ResolveShape, OwnTransition DEF Def, ByTransition
<1>3. MayPark(def)
  BY <1>2 DEF MayPark, Def
<1>4. /\ IsContext(r.ctx)
      /\ r.ctx.ret \in {s.ctx.ret, None}
      /\ ContextSound(r.ctx)
      /\ Closed => r.state \in DOMAIN def.states
      /\ Handles(s.wf, r.state, r.ctx.ret)
  BY <1>1, ResolveLands DEF Sound, Def
<1>5. c.ret = r.ctx.ret /\ ContextSound(c)
  BY <1>4, PatchedSound
<1>6. p.to = r.state /\ p.from = s.state /\ p.ctx = c
  OBVIOUS
<1>7. /\ s2.wf = s.wf /\ s2.state = s.state /\ s2.ctx = s.ctx
      /\ s2.pending = p /\ s2.subflow = s.subflow
  BY DEF SetPending, IsSession
<1> HIDE DEF p, s2
<1>8. PendingSound(s.wf, s.state, p, R)
  BY <1>1, <1>3, <1>4, <1>5, <1>6 DEF PendingSound, Placed
<1>9. Sound(s2, R) /\ (\A wf : Carries(s, wf) => Carries(s2, wf))
  BY <1>7, <1>8 DEF Sound, Carries
<1> QED
  BY <1>9 DEF s2, p

\* A child that ends leaves its parent sound.
LEMMA CompletedSound ==
    ASSUME NEW s, IsSession(s), s.subflow # None, s.pending = None,
           NEW R, ParentSound(s.subflow, R), IsContext(s.subflow.ctx),
           ContextSound(s.ctx), s.ctx.ret = None, NEW s2 \in CompleteSubflow(s)
    PROVE  /\ Sound(s2, R)
           /\ s2.id = s.id /\ s2.pending = None
           /\ s2.subflow = None /\ s2.wf = s.subflow.wf
<1> DEFINE p == s.subflow
           target == IF s.state # "failed" THEN p.on_complete
                     ELSE IF p.on_fail = None THEN "failed" ELSE p.on_fail
           m == [p.ctx EXCEPT !.ret  = IF s.ctx.ret  = None THEN @ ELSE s.ctx.ret,
                              !.fork = IF s.ctx.fork = None THEN @ ELSE s.ctx.fork]
<1>1. PICK c \in Merged(p.ctx, s.ctx) :
        s2 = [s EXCEPT !.wf = p.wf, !.state = target, !.ctx = c, !.subflow = None]
  BY DEF CompleteSubflow
<1>2. IsContext(m) /\ m.ret = p.ctx.ret /\ ContextSound(m)
  BY DEF IsContext, ContextSound, Contexts, ParentSound
<1>3. c \in Patched(m)
  BY DEF Merged
<1> HIDE DEF m
<1>4. c.ret = p.ctx.ret /\ ContextSound(c)
  BY <1>2, <1>3, PatchedSound
<1>5. target \in {p.on_complete, FailTarget(p)}
  BY DEF FailTarget
<1>6. Placed(p.wf, target, p.ctx.ret, R)
  BY <1>5 DEF ParentSound
<1>7. /\ s2.id = s.id /\ s2.wf = p.wf /\ s2.state = target /\ s2.ctx = c
      /\ s2.pending = None /\ s2.subflow = None
  BY <1>1 DEF IsSession
<1> HIDE DEF target
<1> QED
  BY <1>4, <1>6, <1>7 DEF Sound

\* An event: the session moves, and if a child ends its parent goes on.
LEMMA AdvancedSound ==
    ASSUME NEW s, IsSession(s), NEW R, Sound(s, R), s.pending = None, NEW e,
           NEW r \in Resolve(Def(s), s.state, e, s.ctx), NEW c \in Patched(r.ctx),
           ~ (RequiresApproval(r.via) /\ Def(s).approval_mode = "ui"), NEW s2,
           LET s1 == UpdateState(s, r.state, c)
           IN  IF IsFinal(Def(s1), r.state) /\ s1.subflow # None
               THEN s2 \in CompleteSubflow(s1)
               ELSE s2 = s1
    PROVE  Sound(s2, R) /\ Follows(s, s2)
<1> DEFINE def == Machine[s.wf]
           s1  == UpdateState(s, r.state, c)
<1>1. s.wf \in DOMAIN Machine /\ IsContext(s.ctx) /\ Placed(s.wf, s.state, s.ctx.ret, R)
  BY DEF IsSession, Sound
<1>2. /\ IsContext(r.ctx)
      /\ r.ctx.ret \in {s.ctx.ret, None}
      /\ ContextSound(r.ctx)
      /\ Closed => r.state \in DOMAIN def.states
      /\ Passed(s.wf, r.state, R) \/ RequiresApproval(r.via)
      /\ Handles(s.wf, r.state, r.ctx.ret)
  BY <1>1, ResolveLands DEF Sound, Def
<1>3. IsContext(c) /\ c.ret = r.ctx.ret /\ ContextSound(c)
  BY <1>2, PatchedSound
<1>4. Placed(s.wf, r.state, c.ret, R)
  BY <1>1, <1>2, <1>3 DEF Placed, Entered, Passed, Def
<1>5. /\ s1.id = s.id /\ s1.wf = s.wf /\ s1.state = r.state /\ s1.ctx = c
      /\ s1.pending = None /\ s1.subflow = s.subflow
  BY DEF UpdateState, IsSession
<1>6. IsSession(s1)
  BY <1>3, UpdateStateOK
<1> HIDE DEF s1
<1>7. CASE IsFinal(def, r.state) /\ s.subflow # None
  <2>1. s2 \in CompleteSubflow(s1)
    BY <1>5, <1>7 DEF Def, s1
  <2>2. ParentSound(s.subflow, R) /\ IsChild(s.wf) /\ IsContext(s.subflow.ctx)
    BY <1>7 DEF Sound, ChildSound, IsSession
  <2>3. c.ret = None
    BY <1>4, <1>7, <2>2, ReturnBoundOpen DEF Placed, Handles
  <2>4. /\ Sound(s2, R)
        /\ s2.id = s1.id /\ s2.pending = None
        /\ s2.subflow = None /\ s2.wf = s1.subflow.wf
    BY <1>3, <1>5, <1>6, <1>7, <2>1, <2>2, <2>3, CompletedSound
  <2> QED
    BY <1>5, <1>7, <2>4 DEF Follows, Carries
<1>8. CASE ~ (IsFinal(def, r.state) /\ s.subflow # None)
  <2>1. s2 = s1
    BY <1>5, <1>8 DEF Def, s1
  <2>2. s.subflow # None => ChildSound(s.wf, r.state, c.ret)
    BY <1>2, <1>3, <1>8 DEF Sound, ChildSound
  <2> QED
    BY <1>3, <1>4, <1>5, <2>1, <2>2 DEF Sound, Follows, Carries
<1> QED
  BY <1>7, <1>8

-----------------------------------------------------------------------------
(* How the variables may change without breaking the invariant.            *)

\* A transport that works on its own session, and what it works on.
LEMMA OwnSession ==
    ASSUME TypeOK, RunsInv, NEW t \in Transports, Connected(t)
    PROVE  /\ t \in Keys
           /\ gw[t].sid = t
           /\ Cur(t) = sessions[t]
           /\ Cur(t) # None => /\ IsSession(Cur(t)) /\ Cur(t).id = t
                               /\ Sound(Cur(t), ReviewedIn(service))
           /\ gw[t].run # None => /\ gw[t].run \in DOMAIN rows
                                  /\ rows[gw[t].run].sid = t
BY BoundsAssumption DEF TypeOK, SessionsOK, GatewaysOK, IsGateway, RunsInv, SessionsSound,
    TransportsSound, TransportSound, Connected, Cur

\* A step of transport t: it leaves the sessions of the others and the
\* checkpoints of their runs alone.
LEMMA TransportStep ==
    ASSUME TypeOK, TypeOK', RunsInv, NEW t \in Transports,
           \A k \in Keys : k # t => sessions'[k] = sessions[k],
           \A u \in Transports : u # t => gw'[u] = gw[u],
           sessions'[t] # None => Sound(sessions'[t], ReviewedIn(service')),
           TransportSound(t)', Backed(t)',
           DOMAIN rows \subseteq DOMAIN rows',
           \A r \in DOMAIN rows : rows'[r].sid = rows[r].sid /\ rows'[r].wf = rows[r].wf,
           \A r \in DOMAIN rows : rows[r].sid # t => rows'[r].ckpt = rows[r].ckpt,
           ReviewedIn(service) \subseteq ReviewedIn(service'),
           RowsSound', PendingsApart', ServiceSound', WritesSound', AuditInOwnRun'
    PROVE  RunsInv'
<1>1. SessionsSound'
  <2> SUFFICES ASSUME NEW k \in Keys, sessions'[k] # None
               PROVE  Sound(sessions'[k], ReviewedIn(service'))
    BY DEF SessionsSound
  <2>1. CASE k # t
    BY <2>1, SoundGrows DEF RunsInv, SessionsSound
  <2> QED
    BY <2>1
<1>2. ASSUME NEW u \in Transports, u # t
      PROVE  TransportSound(u)' /\ Backed(u)'
  <2>1. u \in Keys
    BY BoundsAssumption
  <2>2. TransportSound(u) /\ Backed(u)
    BY DEF RunsInv, TransportsSound
  <2>3. gw[u] # None /\ gw[u].run # None => gw[u].run \in DOMAIN rows
    BY DEF TypeOK, GatewaysOK, IsGateway
  <2>4. TransportSound(u)'
    BY <1>2, <2>1, <2>2, <2>3 DEF TransportSound
  <2>5. Backed(u)'
    BY <1>2, <2>1, <2>2 DEF Backed
  <2> QED
    BY <2>4, <2>5
<1>3. TransportsSound'
  BY <1>2 DEF TransportsSound
<1> QED
  BY <1>1, <1>3 DEF RunsInv

\* Nothing happens to the rows, the service and the numbering.
LEMMA RowsAlone ==
    ASSUME RunsInv, UNCHANGED <<rows, service, parked>>
    PROVE  /\ RowsSound' /\ PendingsApart' /\ ServiceSound' /\ AuditInOwnRun'
           /\ DOMAIN rows \subseteq DOMAIN rows'
           /\ \A r \in DOMAIN rows : rows'[r].sid = rows[r].sid /\ rows'[r].wf = rows[r].wf
           /\ \A r \in DOMAIN rows : rows'[r].ckpt = rows[r].ckpt
           /\ ReviewedIn(service) \subseteq ReviewedIn(service')
BY DEF RunsInv, RowsSound, PendingsApart, ServiceSound, AuditInOwnRun

\* More ids and more reviews do a row no harm that the service agrees with.
LEMMA RowSoundGrows ==
    ASSUME NEW r, NEW row, NEW sv, NEW n \in Nat, NEW m \in Nat, n <= m,
           RowSound(r, row, sv, n), row.ckpt.pending # None => row.ckpt.pending.id \in Nat
    PROVE  RowSound(r, row, sv, m)
BY DEF RowSound, PendingFiled

\* One row is written: its audit, owner and workflow stay, and what is parked
\* in it now was parked in it or is new.
LEMMA OneRow ==
    ASSUME TypeOK, TypeOK', RunsInv, NEW q \in DOMAIN rows,
           DOMAIN rows' = DOMAIN rows,
           \A r \in DOMAIN rows : r # q => rows'[r] = rows[r],
           rows'[q].sid = rows[q].sid, rows'[q].wf = rows[q].wf, rows'[q].audit = rows[q].audit,
           RowSound(q, rows'[q], service, parked'),
           rows'[q].ckpt.pending # None =>
             \/ rows'[q].ckpt.pending = rows[q].ckpt.pending
             \/ rows'[q].ckpt.pending.id = parked + 1,
           parked' \in {parked, parked + 1}, UNCHANGED service
    PROVE  /\ RowsSound' /\ PendingsApart' /\ ServiceSound' /\ AuditInOwnRun'
           /\ DOMAIN rows \subseteq DOMAIN rows'
           /\ \A r \in DOMAIN rows : rows'[r].sid = rows[r].sid /\ rows'[r].wf = rows[r].wf
           /\ ReviewedIn(service) \subseteq ReviewedIn(service')
<1>1. parked \in Nat /\ parked' \in Nat /\ parked <= parked' /\ DOMAIN service \subseteq Nat
  <2>1. parked \in Nat
    BY BoundsAssumption DEF TypeOK
  <2>2. DOMAIN service \subseteq Nat
    BY BoundsAssumption DEF TypeOK, ServiceOK
  <2> QED
    BY <2>1, <2>2
<1>2. ASSUME NEW r \in DOMAIN rows, rows[r].ckpt.pending # None
      PROVE  rows[r].ckpt.pending.id \in Nat /\ rows[r].ckpt.pending.id <= parked
  <2>1. RowSound(r, rows[r], service, parked)
    BY DEF RunsInv, RowsSound
  <2>2. IsSession(rows[r].ckpt)
    BY DEF TypeOK, RowsOK, IsRow
  <2> QED
    BY <1>2, <2>1, <2>2, BoundsAssumption DEF RowSound, PendingFiled, IsSession
<1>3. RowsSound'
  <2> SUFFICES ASSUME NEW r \in DOMAIN rows
               PROVE  RowSound(r, rows'[r], service', parked')
    BY DEF RowsSound
  <2>1. CASE r # q
    BY <1>1, <1>2, <2>1, RowSoundGrows DEF RunsInv, RowsSound
  <2> QED
    BY <2>1
<1>4. PendingsApart'
  <2> SUFFICES ASSUME NEW r \in DOMAIN rows, NEW r2 \in DOMAIN rows, r # r2,
                      rows'[r].ckpt.pending # None, rows'[r2].ckpt.pending # None
               PROVE  rows'[r].ckpt.pending.id # rows'[r2].ckpt.pending.id
    BY DEF PendingsApart
  <2>1. CASE r = q
    BY <1>1, <1>2, <2>1 DEF RunsInv, PendingsApart
  <2>2. CASE r2 = q
    BY <1>1, <1>2, <2>2 DEF RunsInv, PendingsApart
  <2>3. CASE r # q /\ r2 # q
    BY <2>3 DEF RunsInv, PendingsApart
  <2> QED
    BY <2>1, <2>2, <2>3
<1>5. ServiceSound'
  <2> SUFFICES ASSUME NEW a \in DOMAIN service
               PROVE  a <= parked' /\ ContextSound(service[a].ctx)
    BY DEF ServiceSound
  <2>1. a <= parked /\ ContextSound(service[a].ctx) /\ a \in Nat
    BY <1>1 DEF RunsInv, ServiceSound
  <2> QED
    BY <1>1, <2>1
<1>6. AuditInOwnRun'
  <2>1. \A r \in DOMAIN rows : rows'[r].audit = rows[r].audit
    OBVIOUS
  <2> QED
    BY <2>1 DEF RunsInv, AuditInOwnRun
<1> QED
  BY <1>3, <1>4, <1>5, <1>6

\* The session of a transport moves on; only writes are spawned.
LEMMA MoveStep ==
    ASSUME TypeOK, TypeOK', RunsInv, NEW t \in Transports, Ready(t), NEW s2, Put(t, s2),
           Sound(s2, ReviewedIn(service)), Follows(Cur(t), s2),
           UNCHANGED <<gw, rows, service, parked>>, WritesSound'
    PROVE  RunsInv'
<1>1. /\ t \in Keys /\ gw[t].sid = t /\ Cur(t) = sessions[t]
      /\ sessions[t] # None /\ gw[t] # None
  BY OwnSession DEF Ready, Connected
<1>2. sessions' = [sessions EXCEPT ![t] = s2] /\ DOMAIN sessions = Keys
  BY <1>1 DEF Put, TypeOK, SessionsOK
<1>3. sessions'[t] = s2 /\ \A k \in Keys : k # t => sessions'[k] = sessions[k]
  BY <1>1, <1>2
<1>4. TransportSound(t) /\ Backed(t)
  BY DEF RunsInv, TransportsSound
<1>5. TransportSound(t)'
  BY <1>1, <1>3, <1>4 DEF TransportSound, Follows
<1>6. Backed(t)'
  BY <1>1, <1>3, <1>4 DEF Backed, Follows
<1>7. /\ RowsSound' /\ PendingsApart' /\ ServiceSound' /\ AuditInOwnRun'
      /\ DOMAIN rows \subseteq DOMAIN rows'
      /\ \A r \in DOMAIN rows : rows'[r].sid = rows[r].sid /\ rows'[r].wf = rows[r].wf
      /\ \A r \in DOMAIN rows : rows'[r].ckpt = rows[r].ckpt
      /\ ReviewedIn(service) \subseteq ReviewedIn(service')
  BY RowsAlone
<1>8. Sound(sessions'[t], ReviewedIn(service')) /\ \A u \in Transports : u # t => gw'[u] = gw[u]
  BY <1>3
<1> QED
  BY <1>3, <1>5, <1>6, <1>7, <1>8, TransportStep

\* Interrupts, by an event or by an edited file (Interrupt, UpstreamEdit,
\* AdapterPostTool).
LEMMA InterruptStep ==
    ASSUME ChildrenReturn, TypeOK, TypeOK', RunsInv, NEW t \in Transports, Ready(t),
           \E name \in DOMAIN Def(Cur(t)).interrupts :
               MayInterrupt(Cur(t), name) /\ Put(t, Interrupted(Cur(t), name)),
           UNCHANGED <<gw, storage, service, parked, faults>>
    PROVE  RunsInv'
<1>1. PICK name : MayInterrupt(Cur(t), name) /\ Put(t, Interrupted(Cur(t), name))
  OBVIOUS
<1>2. IsSession(Cur(t)) /\ Sound(Cur(t), ReviewedIn(service))
  BY OwnSession DEF Ready
<1>3. WritesSound'
  BY DEF storage, RunsInv, WritesSound
<1>4. UNCHANGED <<gw, rows, service, parked>>
  BY DEF storage
<1> QED
  BY <1>1, <1>2, <1>3, <1>4, InterruptedSound, MoveStep

\* A tool call that moves the workflow (AdapterPreTool, UpstreamTool).
LEMMA ImplicitStep ==
    ASSUME ChildrenReturn, TypeOK, TypeOK', RunsInv, NEW t \in Transports, Ready(t), NEW tool,
           \E x \in ImplicitTargets(Def(Cur(t)), Cur(t).state, Cur(t).ctx, tool) :
               Put(t, UpdateState(Cur(t), x, Cur(t).ctx)),
           UNCHANGED <<gw, storage, service, parked, faults>>
    PROVE  RunsInv'
<1>1. PICK x \in ImplicitTargets(Def(Cur(t)), Cur(t).state, Cur(t).ctx, tool) :
        Put(t, UpdateState(Cur(t), x, Cur(t).ctx))
  OBVIOUS
<1>2. IsSession(Cur(t)) /\ Sound(Cur(t), ReviewedIn(service))
  BY OwnSession DEF Ready
<1>3. WritesSound'
  BY DEF storage, RunsInv, WritesSound
<1>4. UNCHANGED <<gw, rows, service, parked>>
  BY DEF storage
<1> QED
  BY <1>1, <1>2, <1>3, <1>4, ImplicitSound, MoveStep

\* Calls of tools keep the invariant.
LEMMA ToolCallStep ==
    ASSUME ChildrenReturn, TypeOK, TypeOK', RunsInv, NEW t \in Transports, ToolCall(t)
    PROVE  RunsInv'
<1>1. ASSUME NEW tool, AdapterPreTool(t, tool) \/ UpstreamTool(t, tool)
      PROVE  RunsInv'
  BY <1>1, ImplicitStep DEF AdapterPreTool, UpstreamTool
<1>2. ASSUME NEW tool, UpstreamEdit(t, tool)
      PROVE  RunsInv'
  BY <1>2, InterruptStep DEF UpstreamEdit, FileEdited
<1>3. CASE AdapterPostTool(t)
  BY <1>3, InterruptStep DEF AdapterPostTool, FileEdited
<1> QED
  BY <1>1, <1>2, <1>3 DEF ToolCall

\* What handle_transition works on.
LEMMA OutcomeOf ==
    ASSUME TypeOK, RunsInv, NEW t \in Transports, NEW e, NEW r \in Outcomes(t, e)
    PROVE  /\ Ready(t)
           /\ IsSession(Cur(t)) /\ Sound(Cur(t), ReviewedIn(service))
           /\ Cur(t).pending = None
           /\ r \in Resolve(Def(Cur(t)), Cur(t).state, e, Cur(t).ctx)
<1>1. Ready(t)
  BY DEF Outcomes
<1>2. /\ Cur(t).pending = None
      /\ r \in Resolve(Def(Cur(t)), Cur(t).state, e, Cur(t).ctx)
  BY <1>1 DEF Outcomes
<1> QED
  BY <1>1, <1>2, OwnSession DEF Ready

\* Without forks there is nothing to fork.
LEMMA NoForkStarts ==
    ASSUME NoForks, TypeOK, RunsInv, NEW t \in Transports, NEW e
    PROVE  ~ StartFork(t, e)
<1> SUFFICES ASSUME NEW r \in Outcomes(t, e), r.via.kind = "fork"
             PROVE  FALSE
  BY DEF StartFork
<1> DEFINE wf == Cur(t).wf
<1>1. wf \in DOMAIN Machine /\ r \in Resolve(Machine[wf], Cur(t).state, e, Cur(t).ctx)
  BY OutcomeOf DEF IsSession, Def
<1>2. ~ ByDefault(Machine[wf], Cur(t).state, Cur(t).ctx, r)
  BY DEF ByDefault, Simple, Full
<1> HIDE DEF wf
<1>3. r.via \in Transitions(Machine[wf])
  BY <1>1, <1>2, ResolveShape, OwnTransition DEF ByTransition
<1> QED
  BY <1>1, <1>3 DEF NoForks, Forks

\* ... and no branch to report or to work on.
LEMMA NoBranches ==
    ASSUME TypeOK, RunsInv, NEW t \in Transports
    PROVE  ~ BranchDone(t) /\ ~ SwitchBranch(t)
BY OwnSession DEF BranchDone, SwitchBranch, HasFork, Ready, Sound, ContextSound

\* A child is invoked.
LEMMA InvokeStep ==
    ASSUME TypeOK, TypeOK', RunsInv, NEW t \in Transports, NEW e, InvokeSubflow(t, e)
    PROVE  RunsInv'
<1>1. PICK r \in Outcomes(t, e) :
        /\ r.via.kind = "invoke"
        /\ r.via.machine \in DOMAIN Machine
        /\ \E c \in Patched(NewContext(Machine[r.via.machine])) :
             Put(t, StartSubflow(Cur(t), r.via.machine, c, r.via.on_complete, r.via.on_fail))
  BY DEF InvokeSubflow
<1>2. PICK c \in Patched(NewContext(Machine[r.via.machine])) :
        Put(t, StartSubflow(Cur(t), r.via.machine, c, r.via.on_complete, r.via.on_fail))
  BY <1>1
<1>3. WritesSound'
  BY DEF InvokeSubflow, storage, RunsInv, WritesSound
<1>4. UNCHANGED <<gw, rows, service, parked>>
  BY DEF InvokeSubflow, storage
<1> DEFINE s2 == StartSubflow(Cur(t), r.via.machine, c, r.via.on_complete, r.via.on_fail)
<1>5. Sound(s2, ReviewedIn(service)) /\ Follows(Cur(t), s2)
  BY <1>1, OutcomeOf, InvokedSound
<1> HIDE DEF s2
<1> QED
  BY <1>2, <1>3, <1>4, <1>5, OutcomeOf, MoveStep DEF s2

\* A state is forced.
LEMMA ForceStep ==
    ASSUME ChildrenReturn, TypeOK, TypeOK', RunsInv, NEW t \in Transports, ForceState(t)
    PROVE  RunsInv'
<1>1. PICK x \in DOMAIN Def(Cur(t)).states, c \in Patched(Cur(t).ctx) :
        Put(t, UpdateState(ClearPending(Cur(t)), x, c))
  BY DEF ForceState
<1>2. IsSession(Cur(t)) /\ Sound(Cur(t), ReviewedIn(service)) /\ Ready(t) /\ Def(Cur(t)).debug
  BY OwnSession DEF ForceState, Ready
<1>3. WritesSound'
  BY DEF ForceState, storage, RunsInv, WritesSound
<1>4. UNCHANGED <<gw, rows, service, parked>>
  BY DEF ForceState, storage
<1> QED
  BY <1>1, <1>2, <1>3, <1>4, ForcedSound, MoveStep

\* An ordinary event.
LEMMA AdvanceStep ==
    ASSUME TypeOK, TypeOK', RunsInv, NEW t \in Transports, NEW e, Advance(t, e)
    PROVE  RunsInv'
<1>1. PICK r \in Outcomes(t, e) : \E c \in Patched(r.ctx) :
        LET s     == UpdateState(Cur(t), r.state, c)
            final == IsFinal(Def(s), r.state)
        IN  /\ ~ NeedsReview(t, r)
            /\ r.via.kind \notin {"fork", "invoke"}
            /\ IF final /\ s.subflow # None
               THEN \E s2 \in CompleteSubflow(s) : Put(t, s2)
               ELSE Put(t, s)
            /\ ends' = IF final /\ s.subflow = None
                       THEN ends \cup EndWrite(gw[t].run, r.state, FinalRunStatus(r.state))
                       ELSE ends
  BY DEF Advance
<1>2. PICK c \in Patched(r.ctx) :
        LET s     == UpdateState(Cur(t), r.state, c)
            final == IsFinal(Def(s), r.state)
        IN  /\ ~ NeedsReview(t, r)
            /\ IF final /\ s.subflow # None
               THEN \E s2 \in CompleteSubflow(s) : Put(t, s2)
               ELSE Put(t, s)
            /\ ends' = IF final /\ s.subflow = None
                       THEN ends \cup EndWrite(gw[t].run, r.state, FinalRunStatus(r.state))
                       ELSE ends
  BY <1>1
<1>3. UNCHANGED <<gw, rows, appends, service, parked>>
  BY DEF Advance
<1>4. WritesSound'
  <2>1. ends' \subseteq ends \cup EndWrite(gw[t].run, r.state, FinalRunStatus(r.state))
    BY <1>2
  <2> QED
    BY <1>3, <2>1 DEF EndWrite, FinalRunStatus, RunsInv, WritesSound
<1> DEFINE s1 == UpdateState(Cur(t), r.state, c)
<1>5. PICK s2 : /\ Put(t, s2)
                /\ IF IsFinal(Def(s1), r.state) /\ s1.subflow # None
                   THEN s2 \in CompleteSubflow(s1)
                   ELSE s2 = s1
  BY <1>2
<1>6. ~ (RequiresApproval(r.via) /\ Def(Cur(t)).approval_mode = "ui")
  BY <1>2 DEF NeedsReview
<1>7. Sound(s2, ReviewedIn(service)) /\ Follows(Cur(t), s2)
  BY <1>5, <1>6, OutcomeOf, AdvancedSound
<1> QED
  BY <1>3, <1>4, <1>5, <1>7, OutcomeOf, MoveStep

\* A row is inserted with a session in which nothing is parked.
LEMMA InsertedRow ==
    ASSUME TypeOK, RunsInv, NEW wf \in DOMAIN Machine, NEW k \in Keys, NEW s \in Prepared(k, wf),
           NEW q \in NextRun, rows' = Extended(rows, q, NewRow(wf, s)),
           UNCHANGED <<service, parked>>
    PROVE  /\ RowsSound' /\ PendingsApart' /\ ServiceSound' /\ AuditInOwnRun'
           /\ DOMAIN rows \subseteq DOMAIN rows'
           /\ \A r \in DOMAIN rows : rows'[r] = rows[r]
           /\ q \in DOMAIN rows' /\ rows'[q].sid = k /\ rows'[q].wf = wf
           /\ ReviewedIn(service) \subseteq ReviewedIn(service')
<1> DEFINE new == NewRow(wf, s)
<1>1. /\ Sound(s, ReviewedIn(service)) /\ (Tracked => Carries(s, wf))
      /\ s.id = k /\ s.pending = None
  BY PreparedSound
<1>2. /\ new.wf = wf /\ new.sid = s.id /\ new.state = s.state /\ new.ckpt = s
      /\ new.audit = [a \in Approvals |-> 0]
  BY DEF NewRow
<1>3. q \notin DOMAIN rows
  BY DEF NextRun
<1> HIDE DEF new
<1>4. rows' = [y \in DOMAIN rows \cup {q} |-> IF y = q THEN new ELSE rows[y]]
  BY DEF Extended, new
<1>5. /\ DOMAIN rows' = DOMAIN rows \cup {q}
      /\ rows'[q] = new
      /\ \A r \in DOMAIN rows : rows'[r] = rows[r]
  BY <1>3, <1>4
<1>6. RowSound(q, new, service, parked)
  BY <1>1, <1>2 DEF RowSound
<1>7. RowsSound'
  BY <1>5, <1>6 DEF RowsSound, RunsInv
<1>8. PendingsApart'
  BY <1>1, <1>2, <1>5 DEF PendingsApart, RunsInv
<1>9. AuditInOwnRun'
  BY <1>2, <1>5 DEF AuditInOwnRun, RunsInv
<1>10. ServiceSound'
  BY DEF ServiceSound, RunsInv
<1> QED
  BY <1>1, <1>2, <1>5, <1>7, <1>8, <1>9, <1>10

\* A workflow is loaded; the answer may be lost.
LEMMA LoadStep ==
    ASSUME TypeOK, TypeOK', RunsInv, NEW t \in Transports, NEW wf \in DOMAIN Machine,
           Load(t, wf) \/ LoadUnconfirmed(t, wf)
    PROVE  RunsInv'
<1>1. /\ t \in Keys /\ gw[t].sid = t /\ gw[t] # None
  BY OwnSession DEF Load, LoadUnconfirmed, MayLoad, Connected
<1>2. PICK q \in NextRun, s \in Prepared(t, wf) :
        /\ rows' = Extended(rows, q, NewRow(wf, s))
        /\ \/ Put(t, s) /\ gw' = [gw EXCEPT ![t].active = wf, ![t].run = q]
           \/ UNCHANGED <<sessions, gw>>
  BY <1>1 DEF Load, LoadUnconfirmed, memory
<1>3. UNCHANGED <<appends, ends, service, parked>>
  BY DEF Load, LoadUnconfirmed
<1>4. /\ RowsSound' /\ PendingsApart' /\ ServiceSound' /\ AuditInOwnRun'
      /\ DOMAIN rows \subseteq DOMAIN rows'
      /\ \A r \in DOMAIN rows : rows'[r] = rows[r]
      /\ q \in DOMAIN rows' /\ rows'[q].sid = t /\ rows'[q].wf = wf
      /\ ReviewedIn(service) \subseteq ReviewedIn(service')
  BY <1>1, <1>2, <1>3, InsertedRow
<1>5. WritesSound'
  BY <1>3 DEF RunsInv, WritesSound
<1>6. /\ Sound(s, ReviewedIn(service')) /\ (Tracked => Carries(s, wf)) /\ s.pending = None
  BY <1>1, PreparedSound
<1>7. DOMAIN sessions = Keys /\ DOMAIN gw = Transports /\ DOMAIN gw[t] = {"sid", "active", "run"}
  BY <1>1 DEF TypeOK, SessionsOK, GatewaysOK, IsGateway
<1>8. CASE Put(t, s) /\ gw' = [gw EXCEPT ![t].active = wf, ![t].run = q]
  <2>1. /\ sessions'[t] = s /\ \A k \in Keys : k # t => sessions'[k] = sessions[k]
        /\ gw'[t].sid = t /\ gw'[t].run = q
        /\ \A u \in Transports : u # t => gw'[u] = gw[u]
    BY <1>1, <1>7, <1>8 DEF Put
  <2>2. TransportSound(t)'
    BY <1>4, <1>6, <2>1 DEF TransportSound
  <2>3. Backed(t)'
    BY <1>6, <2>1 DEF Backed
  <2> QED
    BY <1>4, <1>5, <1>6, <2>1, <2>2, <2>3, TransportStep
<1>9. CASE UNCHANGED <<sessions, gw>>
  <2>1. TransportSound(t) /\ Backed(t) /\ (gw[t].run # None => gw[t].run \in DOMAIN rows)
    BY <1>1 DEF RunsInv, TransportsSound, TypeOK, GatewaysOK, IsGateway
  <2>2. TransportSound(t)'
    BY <1>4, <1>9, <2>1 DEF TransportSound
  <2>3. Backed(t)'
    BY <1>4, <1>9, <2>1 DEF Backed
  <2>4. sessions'[t] # None => Sound(sessions'[t], ReviewedIn(service'))
    BY <1>1, <1>3, <1>9 DEF RunsInv, SessionsSound
  <2> QED
    BY <1>4, <1>5, <1>9, <2>2, <2>3, <2>4, TransportStep
<1> QED
  BY <1>2, <1>8, <1>9

\* A paused run is resumed; the answer may be lost.
LEMMA ResumeStep ==
    ASSUME TypeOK, TypeOK', RunsInv, NEW t \in Transports, NEW q \in DOMAIN rows,
           Resume(t, q) \/ ResumeUnconfirmed(t, q)
    PROVE  RunsInv'
<1>1. /\ t \in Keys /\ gw[t].sid = t /\ gw[t] # None
  BY OwnSession DEF Resume, ResumeUnconfirmed, MayResume, MayLoad, Connected
<1>2. /\ rows[q].status = "paused" /\ rows[q].sid = t
      /\ CheckpointOK(rows[q].ckpt, t, rows[q].state)
  BY <1>1 DEF Resume, ResumeUnconfirmed, MayResume
<1>3. UNCHANGED <<appends, ends, service, parked>>
  BY DEF Resume, ResumeUnconfirmed
<1>4. rows' = [rows EXCEPT ![q].status = "running"]
  BY DEF Resume, ResumeUnconfirmed
<1>5. IsRow(rows[q])
  BY DEF TypeOK, RowsOK
<1>6. /\ DOMAIN rows' = DOMAIN rows
      /\ \A r \in DOMAIN rows : r # q => rows'[r] = rows[r]
      /\ rows'[q].sid = rows[q].sid /\ rows'[q].wf = rows[q].wf /\ rows'[q].audit = rows[q].audit
      /\ rows'[q].ckpt = rows[q].ckpt /\ rows'[q].state = rows[q].state
      /\ rows'[q].status = "running"
  BY <1>4, <1>5 DEF IsRow
<1>7. RowSound(q, rows[q], service, parked)
  BY DEF RunsInv, RowsSound
<1>8. RowSound(q, rows'[q], service, parked')
  BY <1>2, <1>3, <1>6, <1>7 DEF RowSound, CheckpointOK
<1>9. /\ RowsSound' /\ PendingsApart' /\ ServiceSound' /\ AuditInOwnRun'
      /\ DOMAIN rows \subseteq DOMAIN rows'
      /\ \A r \in DOMAIN rows : rows'[r].sid = rows[r].sid /\ rows'[r].wf = rows[r].wf
      /\ ReviewedIn(service) \subseteq ReviewedIn(service')
  BY <1>3, <1>6, <1>8, OneRow
<1>10. \A r \in DOMAIN rows : rows'[r].ckpt = rows[r].ckpt
  BY <1>6
<1>11. WritesSound'
  BY <1>3 DEF RunsInv, WritesSound
<1>12. DOMAIN sessions = Keys /\ DOMAIN gw = Transports /\ DOMAIN gw[t] = {"sid", "active", "run"}
  BY <1>1 DEF TypeOK, SessionsOK, GatewaysOK, IsGateway
<1>13. CASE Resume(t, q)
  <2>1. /\ sessions'[t] = rows[q].ckpt /\ \A k \in Keys : k # t => sessions'[k] = sessions[k]
        /\ gw'[t].sid = t /\ gw'[t].run = q
        /\ \A u \in Transports : u # t => gw'[u] = gw[u]
    BY <1>1, <1>12, <1>13 DEF Resume, Put
  <2>2. TransportSound(t)'
    BY <1>2, <1>6, <1>7, <2>1 DEF TransportSound, RowSound
  <2>3. Backed(t)'
    BY <1>2, <1>6, <2>1 DEF Backed
  <2>4. Sound(sessions'[t], ReviewedIn(service'))
    BY <1>3, <1>7, <2>1 DEF RowSound
  <2> QED
    BY <1>9, <1>10, <1>11, <2>1, <2>2, <2>3, <2>4, TransportStep
<1>14. CASE ResumeUnconfirmed(t, q)
  <2>1. TransportSound(t) /\ Backed(t) /\ (gw[t].run # None => gw[t].run \in DOMAIN rows)
    BY <1>1 DEF RunsInv, TransportsSound, TypeOK, GatewaysOK, IsGateway
  <2>2. UNCHANGED <<sessions, gw>>
    BY <1>14 DEF ResumeUnconfirmed, memory
  <2>3. TransportSound(t)'
    BY <1>9, <2>1, <2>2 DEF TransportSound
  <2>4. Backed(t)'
    BY <1>9, <1>10, <2>1, <2>2 DEF Backed
  <2>5. sessions'[t] # None => Sound(sessions'[t], ReviewedIn(service'))
    BY <1>1, <1>3, <2>2 DEF RunsInv, SessionsSound
  <2> QED
    BY <1>9, <1>10, <1>11, <2>2, <2>3, <2>4, <2>5, TransportStep
<1> QED
  BY <1>13, <1>14

\* A run is paused, or its pausing is not confirmed.
LEMMA PauseStep ==
    ASSUME TypeOK, TypeOK', RunsInv, NEW t \in Transports, Pause(t) \/ PauseUnconfirmed(t)
    PROVE  RunsInv'
<1> DEFINE q == gw[t].run
           s == sessions[t]
<1>1. /\ t \in Keys /\ gw[t].sid = t /\ gw[t] # None /\ Cur(t) = s /\ s # None
      /\ q # None /\ q \in DOMAIN rows /\ rows[q].sid = t
      /\ IsSession(s) /\ s.id = t /\ Sound(s, ReviewedIn(service))
  BY OwnSession DEF Pause, PauseUnconfirmed, Ready, Connected
<1>2. rows' = [rows EXCEPT ![q].status = "paused", ![q].state = s.state, ![q].ckpt = s]
  BY <1>1 DEF Pause, PauseUnconfirmed, PausedRow
<1>3. UNCHANGED <<sessions, appends, ends, service, parked>>
  BY DEF Pause, PauseUnconfirmed, memory
<1>4. DOMAIN gw = Transports /\ DOMAIN gw[t] = {"sid", "active", "run"} /\ IsRow(rows[q])
  BY <1>1 DEF TypeOK, GatewaysOK, IsGateway, RowsOK
<1>5. /\ gw'[t].sid = t /\ gw'[t].run = q
      /\ \A u \in Transports : u # t => gw'[u] = gw[u]
  <2>1. CASE UNCHANGED gw
    BY <1>1, <2>1
  <2>2. CASE gw' = [gw EXCEPT ![t].active = None]
    BY <1>1, <1>4, <2>2
  <2> QED
    BY <2>1, <2>2 DEF Pause, PauseUnconfirmed, memory
<1>6. /\ DOMAIN rows' = DOMAIN rows
      /\ \A r \in DOMAIN rows : r # q => rows'[r] = rows[r]
      /\ rows'[q].sid = rows[q].sid /\ rows'[q].wf = rows[q].wf /\ rows'[q].audit = rows[q].audit
      /\ rows'[q].ckpt = s /\ rows'[q].state = s.state /\ rows'[q].status = "paused"
  BY <1>1, <1>2, <1>4 DEF IsRow
<1>7. TransportSound(t) /\ Backed(t) /\ RowSound(q, rows[q], service, parked)
  BY <1>1 DEF RunsInv, TransportsSound, RowsSound
<1>8. Tracked => Carries(s, rows[q].wf)
  BY <1>1, <1>7 DEF TransportSound
<1>9. s.pending # None => rows[q].ckpt.pending = s.pending
  BY <1>1, <1>7 DEF Backed
<1> HIDE DEF q, s
<1>10. RowSound(q, rows'[q], service, parked')
  BY <1>1, <1>3, <1>6, <1>7, <1>8, <1>9 DEF RowSound
<1>11. /\ RowsSound' /\ PendingsApart' /\ ServiceSound' /\ AuditInOwnRun'
       /\ DOMAIN rows \subseteq DOMAIN rows'
       /\ \A r \in DOMAIN rows : rows'[r].sid = rows[r].sid /\ rows'[r].wf = rows[r].wf
       /\ ReviewedIn(service) \subseteq ReviewedIn(service')
  BY <1>1, <1>3, <1>6, <1>9, <1>10, OneRow
<1>12. WritesSound'
  BY <1>3 DEF RunsInv, WritesSound
<1>13. TransportSound(t)'
  BY <1>1, <1>3, <1>5, <1>6, <1>8 DEF TransportSound, s
<1>14. Backed(t)'
  BY <1>1, <1>3, <1>5, <1>6, <1>9 DEF Backed, s
<1>15. Sound(sessions'[t], ReviewedIn(service'))
  BY <1>1, <1>3 DEF s
<1>16. \A r \in DOMAIN rows : rows[r].sid # t => rows'[r].ckpt = rows[r].ckpt
  BY <1>1, <1>6
<1> QED
  BY <1>3, <1>5, <1>11, <1>12, <1>13, <1>14, <1>15, <1>16, TransportStep

\* A workflow is given up.
LEMMA DeactivateStep ==
    ASSUME TypeOK, TypeOK', RunsInv, NEW t \in Transports, Deactivate(t)
    PROVE  RunsInv'
<1> DEFINE s == sessions[t]
<1>1. /\ t \in Keys /\ gw[t].sid = t /\ gw[t] # None /\ Cur(t) = s
      /\ s # None => IsSession(s) /\ s.id = t /\ Sound(s, ReviewedIn(service))
  BY OwnSession DEF Deactivate, Connected
<1>2. UNCHANGED <<rows, appends, service, parked>>
  BY DEF Deactivate
<1>3. /\ DOMAIN sessions = Keys /\ DOMAIN gw = Transports
      /\ DOMAIN gw[t] = {"sid", "active", "run"}
  BY <1>1 DEF TypeOK, SessionsOK, GatewaysOK, IsGateway
<1>4. /\ gw'[t].sid = t /\ gw'[t].run = None
      /\ \A u \in Transports : u # t => gw'[u] = gw[u]
  BY <1>1, <1>3 DEF Deactivate
<1>5. s # None => sessions' = [sessions EXCEPT ![t] = [s EXCEPT !.ctx.fork = None]]
  BY <1>1 DEF Deactivate, Put
<1>6. s = None => sessions' = sessions
  BY <1>1 DEF Deactivate
<1>7. \A k \in Keys : k # t => sessions'[k] = sessions[k]
  BY <1>3, <1>5, <1>6
<1>8. /\ sessions'[t] # None => /\ s # None
                                /\ sessions'[t].pending = s.pending
                                /\ Sound(sessions'[t], ReviewedIn(service'))
  <2> DEFINE c  == [s.ctx EXCEPT !.fork = None]
             s2 == [s EXCEPT !.ctx.fork = None]
  <2> SUFFICES ASSUME s # None
               PROVE  s2.pending = s.pending /\ Sound(s2, ReviewedIn(service'))
    BY <1>1, <1>3, <1>5, <1>6
  <2>1. IsSession(s) /\ Sound(s, ReviewedIn(service')) /\ IsContext(s.ctx)
    BY <1>1, <1>2 DEF IsSession
  <2>2. c.ret = s.ctx.ret /\ ContextSound(c)
    BY <2>1 DEF IsContext, Sound, ContextSound, Contexts
  <2>3. /\ s2.wf = s.wf /\ s2.state = s.state /\ s2.ctx = c
        /\ s2.pending = s.pending /\ s2.subflow = s.subflow
    BY <2>1 DEF IsSession
  <2> HIDE DEF c, s2
  <2> QED
    BY <2>1, <2>2, <2>3 DEF Sound
<1>9. WritesSound'
  <2>1. ends' \subseteq ends \cup EndWrite(gw[t].run, s.state, "stopped")
    BY <1>1 DEF Deactivate
  <2> QED
    BY <1>2, <2>1 DEF EndWrite, RunsInv, WritesSound
<1>10. Backed(t)
  BY DEF RunsInv, TransportsSound
<1>11. TransportSound(t)'
  BY <1>4 DEF TransportSound
<1>12. Backed(t)'
  BY <1>2, <1>4, <1>8, <1>10 DEF Backed
<1> HIDE DEF s
<1>13. /\ RowsSound' /\ PendingsApart' /\ ServiceSound' /\ AuditInOwnRun'
       /\ DOMAIN rows \subseteq DOMAIN rows'
       /\ \A r \in DOMAIN rows : rows'[r].sid = rows[r].sid /\ rows'[r].wf = rows[r].wf
       /\ \A r \in DOMAIN rows : rows'[r].ckpt = rows[r].ckpt
       /\ ReviewedIn(service) \subseteq ReviewedIn(service')
  BY <1>2, RowsAlone
<1> QED
  BY <1>4, <1>7, <1>8, <1>9, <1>11, <1>12, <1>13, TransportStep

\* A transport connects, with or without a session.
LEMMA ConnectStep ==
    ASSUME TypeOK, TypeOK', RunsInv, NEW t \in Transports, Connect(t) \/ PollUnknown(t)
    PROVE  RunsInv'
<1>1. t \in Keys /\ gw[t] = None /\ DOMAIN sessions = Keys /\ DOMAIN gw = Transports
  BY BoundsAssumption DEF Connect, PollUnknown, Connected, TypeOK, SessionsOK, GatewaysOK
<1>2. UNCHANGED <<rows, appends, ends, service, parked>>
  BY DEF Connect, PollUnknown, storage
<1>3. gw' = [gw EXCEPT ![t] = NewGateway(t)]
  BY DEF Connect, PollUnknown
<1>4. /\ gw'[t].sid = t /\ gw'[t].run = None
      /\ \A u \in Transports : u # t => gw'[u] = gw[u]
  BY <1>1, <1>3 DEF NewGateway
<1>5. /\ \A k \in Keys : k # t => sessions'[k] = sessions[k]
      /\ \/ sessions'[t] = sessions[t]
         \/ sessions'[t] = NewSession(t, Default)
  BY <1>1 DEF Connect, PollUnknown
<1>6. sessions'[t] # None => Sound(sessions'[t], ReviewedIn(service'))
  BY <1>1, <1>2, <1>5, NewSessionSound, CatalogueAssumption DEF RunsInv, SessionsSound
<1>7. Backed(t) /\ NewSession(t, Default).pending = None
  BY NewSessionSound, CatalogueAssumption DEF RunsInv, TransportsSound
<1>8. TransportSound(t)'
  BY <1>4 DEF TransportSound
<1>9. Backed(t)'
  BY <1>2, <1>4, <1>5, <1>7 DEF Backed
<1>10. WritesSound'
  BY <1>2 DEF RunsInv, WritesSound
<1>11. /\ RowsSound' /\ PendingsApart' /\ ServiceSound' /\ AuditInOwnRun'
       /\ DOMAIN rows \subseteq DOMAIN rows'
       /\ \A r \in DOMAIN rows : rows'[r].sid = rows[r].sid /\ rows'[r].wf = rows[r].wf
       /\ \A r \in DOMAIN rows : rows'[r].ckpt = rows[r].ckpt
       /\ ReviewedIn(service) \subseteq ReviewedIn(service')
  BY <1>2, RowsAlone
<1> QED
  BY <1>4, <1>5, <1>6, <1>8, <1>9, <1>10, <1>11, TransportStep

\* Connecting, loading, resuming, pausing and ending keep the invariant.
LEMMA LifecycleStep ==
    ASSUME TypeOK, TypeOK', RunsInv, NEW t \in Transports, Lifecycle(t)
    PROVE  RunsInv'
BY ConnectStep, LoadStep, ResumeStep, PauseStep, DeactivateStep DEF Lifecycle


-----------------------------------------------------------------------------
(* Transitions that are parked.                                            *)

\* A transition is parked, with its checkpoint; the answer may be lost.
LEMMA ParkStep ==
    ASSUME TypeOK, TypeOK', RunsInv, NEW t \in Transports, NEW e,
           Park(t, e) \/ ParkUnconfirmed(t, e)
    PROVE  RunsInv'
<1> DEFINE q == gw[t].run
           s == sessions[t]
<1>1. PICK r \in Outcomes(t, e) : \E c \in Patched(r.ctx) :
        /\ NeedsReview(t, r)
        /\ MayPersist(t)
        /\ rows' = Persisted(t, Parked(t, r, c))
        /\ Put(t, Parked(t, r, c)) \/ UNCHANGED memory
  BY DEF Park, ParkUnconfirmed
<1>2. PICK c \in Patched(r.ctx) :
        /\ NeedsReview(t, r)
        /\ MayPersist(t)
        /\ rows' = Persisted(t, Parked(t, r, c))
        /\ Put(t, Parked(t, r, c)) \/ UNCHANGED memory
  BY <1>1
<1> DEFINE p  == [id |-> parked + 1, from |-> s.state, to |-> r.state, ctx |-> c]
           s2 == SetPending(s, p)
<1>3. UNCHANGED <<gw, appends, ends, service>> /\ parked' = parked + 1
  BY DEF Park, ParkUnconfirmed, memory
<1>4. /\ t \in Keys /\ gw[t] # None /\ gw[t].sid = t /\ Cur(t) = s /\ s # None
      /\ q # None /\ q \in DOMAIN rows /\ rows[q].sid = t /\ rows[q].status = "running"
      /\ IsSession(s) /\ s.id = t /\ Sound(s, ReviewedIn(service)) /\ s.pending = None
  BY <1>2, OutcomeOf, OwnSession DEF MayPersist, Ready, Connected
<1>5. Sound(s2, ReviewedIn(service)) /\ (\A wf : Carries(s, wf) => Carries(s2, wf))
  BY <1>2, <1>4, OutcomeOf, ParkedSound DEF NeedsReview
<1>6. Parked(t, r, c) = s2
  BY <1>4 DEF Parked
<1>7. /\ p.id = parked + 1 /\ p.from = s.state
      /\ s2.id = t /\ s2.state = s.state /\ s2.pending = p
  BY <1>4 DEF SetPending, IsSession
<1> HIDE DEF p, s2
<1>8. rows' = [rows EXCEPT ![q].state = s2.state, ![q].ckpt = s2]
  BY <1>2, <1>6 DEF Persisted
<1>9. IsRow(rows[q]) /\ DOMAIN sessions = Keys /\ parked \in Nat
  BY <1>4, BoundsAssumption DEF TypeOK, RowsOK, SessionsOK
<1>10. /\ DOMAIN rows' = DOMAIN rows
       /\ \A r2 \in DOMAIN rows : r2 # q => rows'[r2] = rows[r2]
       /\ rows'[q].sid = rows[q].sid /\ rows'[q].wf = rows[q].wf /\ rows'[q].audit = rows[q].audit
       /\ rows'[q].ckpt = s2 /\ rows'[q].state = s.state /\ rows'[q].status = "running"
  BY <1>4, <1>7, <1>8, <1>9 DEF IsRow
<1>11. TransportSound(t) /\ Backed(t)
  BY DEF RunsInv, TransportsSound
<1>12. Tracked => Carries(s2, rows[q].wf)
  BY <1>4, <1>5, <1>11 DEF TransportSound
<1>13. parked + 1 \notin DOMAIN service
  <2>1. \A a \in DOMAIN service : a <= parked
    BY DEF RunsInv, ServiceSound
  <2> QED
    BY <1>9, <2>1
<1> HIDE DEF q, s
<1>14. RowSound(q, rows'[q], service, parked')
  BY <1>3, <1>4, <1>5, <1>7, <1>9, <1>10, <1>12, <1>13 DEF RowSound, PendingFiled
<1>15. /\ RowsSound' /\ PendingsApart' /\ ServiceSound' /\ AuditInOwnRun'
       /\ DOMAIN rows \subseteq DOMAIN rows'
       /\ \A r2 \in DOMAIN rows : rows'[r2].sid = rows[r2].sid /\ rows'[r2].wf = rows[r2].wf
       /\ ReviewedIn(service) \subseteq ReviewedIn(service')
  <2>1. rows'[q].ckpt.pending.id = parked + 1
    BY <1>7, <1>10
  <2> QED
    BY <1>3, <1>4, <1>10, <1>14, <2>1, OneRow
<1>16. WritesSound'
  BY <1>3 DEF RunsInv, WritesSound
<1>17. \/ sessions'[t] = s2 /\ \A k \in Keys : k # t => sessions'[k] = sessions[k]
       \/ sessions' = sessions
  <2>1. CASE Put(t, s2)
    BY <1>4, <1>9, <2>1 DEF Put
  <2> QED
    BY <1>2, <1>6, <2>1 DEF memory
<1>18. TransportSound(t)'
  BY <1>3, <1>4, <1>10, <1>11, <1>12, <1>17 DEF TransportSound, q
<1>19. Backed(t)'
  BY <1>3, <1>4, <1>10, <1>17 DEF Backed, q, s
<1>20. sessions'[t] # None => Sound(sessions'[t], ReviewedIn(service'))
  BY <1>3, <1>4, <1>5, <1>17 DEF s
<1>21. \A r2 \in DOMAIN rows : rows[r2].sid # t => rows'[r2].ckpt = rows[r2].ckpt
  BY <1>4, <1>10
<1>22. /\ \A k \in Keys : k # t => sessions'[k] = sessions[k]
       /\ \A u \in Transports : u # t => gw'[u] = gw[u]
  BY <1>3, <1>17
<1> QED
  BY <1>15, <1>16, <1>18, <1>19, <1>20, <1>21, <1>22, TransportStep

\* Events keep the invariant.
LEMMA TransitionStep ==
    ASSUME NoForks, ChildrenReturn, TypeOK, TypeOK', RunsInv, NEW t \in Transports, Transition(t)
    PROVE  RunsInv'
<1>1. CASE Interrupt(t)
  BY <1>1, InterruptStep DEF Interrupt
<1>2. CASE BranchDone(t) \/ SwitchBranch(t)
  BY <1>2, NoBranches
<1>3. CASE ForceState(t)
  BY <1>3, ForceStep
<1>4. ASSUME NEW e \in Events, Park(t, e) \/ ParkUnconfirmed(t, e)
      PROVE  RunsInv'
  BY <1>4, ParkStep
<1>5. ASSUME NEW e \in Events, StartFork(t, e)
      PROVE  RunsInv'
  BY <1>5, NoForkStarts
<1>6. ASSUME NEW e \in Events, InvokeSubflow(t, e) \/ Advance(t, e)
      PROVE  RunsInv'
  BY <1>6, InvokeStep, AdvanceStep
<1> QED
  BY <1>1, <1>2, <1>3, <1>4, <1>5, <1>6 DEF Transition


-----------------------------------------------------------------------------
(* Polls, recoveries, receipts and callbacks.                              *)

\* A parked run is recovered by a transport that has none.
LEMMA RecoverStep ==
    ASSUME TypeOK, TypeOK', RunsInv, NEW t \in Transports, NEW q \in DOMAIN rows,
           RecoverPendingApproval(t, q)
    PROVE  RunsInv'
<1> DEFINE g == IF Connected(t) THEN gw[t] ELSE NewGateway(t)
<1>1. t \in Keys /\ g.sid = t /\ DOMAIN g = {"sid", "active", "run"}
  BY OwnSession, BoundsAssumption
  DEF Connected, NewGateway, TypeOK, GatewaysOK, IsGateway
<1>2. /\ rows[q].sid = t
      /\ sessions' = [sessions EXCEPT ![t] = rows[q].ckpt]
      /\ gw' = [gw EXCEPT ![t] = [g EXCEPT !.active = rows[q].wf, !.run = q]]
      /\ UNCHANGED <<rows, appends, ends, service, parked>>
  BY <1>1 DEF RecoverPendingApproval, storage
<1> HIDE DEF g
<1>3. DOMAIN sessions = Keys /\ DOMAIN gw = Transports
  BY DEF TypeOK, SessionsOK, GatewaysOK
<1>4. /\ sessions'[t] = rows[q].ckpt /\ \A k \in Keys : k # t => sessions'[k] = sessions[k]
      /\ gw'[t].sid = t /\ gw'[t].run = q
      /\ \A u \in Transports : u # t => gw'[u] = gw[u]
  BY <1>1, <1>2, <1>3
<1>5. RowSound(q, rows[q], service, parked)
  BY DEF RunsInv, RowsSound
<1>6. /\ RowsSound' /\ PendingsApart' /\ ServiceSound' /\ AuditInOwnRun'
      /\ DOMAIN rows \subseteq DOMAIN rows'
      /\ \A r \in DOMAIN rows : rows'[r].sid = rows[r].sid /\ rows'[r].wf = rows[r].wf
      /\ \A r \in DOMAIN rows : rows'[r].ckpt = rows[r].ckpt
      /\ ReviewedIn(service) \subseteq ReviewedIn(service')
  BY <1>2, RowsAlone
<1>7. TransportSound(t)'
  BY <1>2, <1>4, <1>5 DEF TransportSound, RowSound
<1>8. Backed(t)'
  BY <1>2, <1>4 DEF Backed
<1>9. Sound(sessions'[t], ReviewedIn(service'))
  BY <1>2, <1>4, <1>5 DEF RowSound
<1>10. WritesSound'
  BY <1>2 DEF RunsInv, WritesSound
<1> QED
  BY <1>4, <1>6, <1>7, <1>8, <1>9, <1>10, TransportStep

\* The service learns of a parked transition.
LEMMA PresentStep ==
    ASSUME TypeOK, TypeOK', RunsInv, AuditImpliesApproved, NEW t \in Transports,
           PresentApproval(t)
    PROVE  RunsInv'
<1> DEFINE q == gw[t].run
           p == sessions[t].pending
           new == [status |-> "pending", run |-> q, from |-> p.from, to |-> p.to, ctx |-> p.ctx]
<1>1. /\ t \in Keys /\ gw[t] # None /\ Cur(t) = sessions[t] /\ sessions[t] # None
      /\ q # None /\ q \in DOMAIN rows /\ rows[q].sid = t
      /\ Sound(sessions[t], ReviewedIn(service))
  BY OwnSession DEF PresentApproval, Ready, Connected
<1>2. p # None /\ p.id \notin DOMAIN service /\ service' = Extended(service, p.id, new)
  BY <1>1 DEF PresentApproval
<1>3. UNCHANGED <<sessions, gw, rows, appends, ends, parked>>
  BY DEF PresentApproval, memory, storage
<1>4. TransportSound(t) /\ Backed(t) /\ RowSound(q, rows[q], service, parked)
  BY <1>1 DEF RunsInv, TransportsSound, RowsSound
<1>5. rows[q].ckpt.pending = p
  BY <1>1, <1>2, <1>4 DEF Backed
<1>6. p.id <= parked
  BY <1>2, <1>4, <1>5 DEF RowSound, PendingFiled
<1>7. ContextSound(p.ctx)
  BY <1>1, <1>2 DEF Sound, PendingSound
<1>8. new.status = "pending" /\ new.run = q /\ new.to = p.to /\ new.ctx = p.ctx
  OBVIOUS
<1> HIDE DEF new
<1>9. service' = [y \in DOMAIN service \cup {p.id} |-> IF y = p.id THEN new ELSE service[y]]
  BY <1>2 DEF Extended
<1>10. /\ DOMAIN service' = DOMAIN service \cup {p.id}
       /\ service'[p.id] = new
       /\ \A a \in DOMAIN service : service'[a] = service[a]
  BY <1>2, <1>9
<1> HIDE DEF q, p
<1>11. ApprovedIn(service') = ApprovedIn(service)
  BY <1>2, <1>8, <1>10 DEF ApprovedIn
<1>12. ReviewedIn(service') = ReviewedIn(service)
  BY <1>10, <1>11 DEF ReviewedIn, ApprovedIn
<1>13. RowsSound'
  <2> SUFFICES ASSUME NEW r \in DOMAIN rows
               PROVE  RowSound(r, rows[r], service', parked)
    BY <1>3 DEF RowsSound
  <2>1. RowSound(r, rows[r], service, parked)
    BY DEF RunsInv, RowsSound
  <2> DEFINE p2 == rows[r].ckpt.pending
  <2>2. p2 # None => PendingFiled(p2, r, service', parked)
    <3>1. CASE p2 # None /\ p2.id = p.id
      <4>1. r = q
        BY <1>1, <1>2, <1>5, <3>1 DEF RunsInv, PendingsApart
      <4> QED
        BY <1>5, <1>6, <1>8, <1>10, <4>1 DEF PendingFiled
    <3>2. CASE p2 # None /\ p2.id # p.id
      BY <1>10, <2>1, <3>2 DEF RowSound, PendingFiled
    <3> QED
      BY <3>1, <3>2
  <2> QED
    BY <1>12, <2>1, <2>2 DEF RowSound
<1>14. PendingsApart'
  BY <1>3 DEF RunsInv, PendingsApart
<1>15. ServiceSound'
  BY <1>3, <1>6, <1>7, <1>8, <1>10 DEF RunsInv, ServiceSound
<1>16. WritesSound'
  BY <1>3, <1>10 DEF RunsInv, WritesSound, TypeOK, WritesOK
<1>17. AuditInOwnRun'
  BY <1>3, <1>10 DEF RunsInv, AuditInOwnRun, AuditImpliesApproved, Approved
<1>18. TransportSound(t)' /\ Backed(t)'
  BY <1>3, <1>4 DEF TransportSound, Backed
<1>19. Sound(sessions'[t], ReviewedIn(service'))
  BY <1>1, <1>3, <1>12
<1> QED
  BY <1>3, <1>12, <1>13, <1>14, <1>15, <1>16, <1>17, <1>18, <1>19, TransportStep

\* What the service has on record is what is parked in the session.
LEMMA OnRecord ==
    ASSUME TypeOK, RunsInv, NEW t \in Transports, Ready(t), Cur(t).pending # None,
           Cur(t).pending.id \in DOMAIN service
    PROVE  LET p == Cur(t).pending
               record == service[p.id]
           IN  /\ record.to = p.to
               /\ record.ctx.ret = p.ctx.ret
               /\ gw[t].run # None => record.run = gw[t].run
<1>1. Cur(t) = sessions[t] /\ sessions[t] # None /\ gw[t] # None /\ Backed(t)
  BY OwnSession DEF Ready, Connected, RunsInv, TransportsSound
<1>2. PICK r \in DOMAIN rows : /\ rows[r].ckpt.pending = Cur(t).pending
                               /\ gw[t].run # None => gw[t].run = r
  BY <1>1 DEF Backed
<1>3. RowSound(r, rows[r], service, parked)
  BY DEF RunsInv, RowsSound
<1> QED
  BY <1>2, <1>3 DEF RowSound, PendingFiled

\* A session after a receipt.
LEMMA ReceiptSound ==
    ASSUME TypeOK, RunsInv, NEW t \in Transports, NEW a \in DOMAIN service, MayApply(t, a)
    PROVE  LET s2 == Resolved(Cur(t), service[a])
           IN  /\ Sound(s2, ReviewedIn(service))
               /\ Follows(Cur(t), s2)
               /\ s2.pending = None
<1> DEFINE s == Cur(t)
           p == s.pending
           s2 == Resolved(s, service[a])
           R == ReviewedIn(service)
<1>1. Ready(t) /\ IsSession(s) /\ Sound(s, R)
  BY OwnSession DEF MayApply, Ready
<1>2. CASE p = None
  BY <1>1, <1>2 DEF Resolved, Follows
<1>3. CASE p # None /\ service[a].status = "approved"
  <2>1. p.id = a /\ service[a].to = p.to /\ service[a].ctx.ret = p.ctx.ret
    BY <1>1, <1>3, OnRecord DEF MayApply
  <2>2. p.to \in R
    BY <1>3, <2>1 DEF ReviewedIn, ApprovedIn
  <2>3. ContextSound(service[a].ctx)
    BY DEF RunsInv, ServiceSound
  <2>4. s2 = ClearPending(UpdateState(s, p.to, service[a].ctx))
    BY <1>3 DEF Resolved
  <2>5. s2.pending = None
    BY <1>1, <2>4 DEF ClearPending, UpdateState, IsSession
  <2>6. Sound(s2, R) /\ Follows(s, s2)
    <3> HIDE DEF R, s2, s
    <3> QED
      BY <1>1, <1>3, <2>1, <2>2, <2>3, <2>4, AppliedSound
  <2> QED
    BY <2>5, <2>6
<1>4. CASE p # None /\ service[a].status # "approved"
  <2>1. s2 = ClearPending(s)
    BY <1>4 DEF Resolved
  <2>2. s2.pending = None
    BY <1>1, <2>1 DEF ClearPending, IsSession
  <2>3. Sound(s2, R) /\ Follows(s, s2)
    <3> HIDE DEF R, s2, s
    <3> QED
      BY <1>1, <2>1, ClearedSound
  <2> QED
    BY <2>2, <2>3
<1> QED
  BY <1>2, <1>3, <1>4

\* A poll applies a receipt and saves the session, if it may and if it can.
LEMMA ReceiptStep ==
    ASSUME TypeOK, TypeOK', RunsInv, NEW t \in Transports, NEW a \in DOMAIN service,
           ApplyReceipt(t, a) \/ ApplyReceiptUnsaved(t, a)
    PROVE  RunsInv'
<1> DEFINE q == gw[t].run
           s2 == Resolved(Cur(t), service[a])
<1>1. MayApply(t, a) /\ Put(t, s2) /\ appends' = ReceiptAppends(t, a)
  BY DEF ApplyReceipt, ApplyReceiptUnsaved
<1>2. UNCHANGED <<gw, ends, service, parked>>
  BY DEF ApplyReceipt, ApplyReceiptUnsaved
<1>3. /\ Ready(t) /\ t \in Keys /\ gw[t] # None /\ gw[t].sid = t /\ Cur(t) = sessions[t]
      /\ sessions[t] # None /\ Cur(t).id = t
      /\ q # None => q \in DOMAIN rows
  BY <1>1, OwnSession DEF MayApply, Ready, Connected
<1>4. /\ Sound(s2, ReviewedIn(service))
      /\ Follows(Cur(t), s2)
      /\ s2.pending = None
  BY <1>1, ReceiptSound
<1> HIDE DEF s2
<1>5. WritesSound'
  <2>1. appends' \subseteq appends \cup AppendWrite(t, a)
    BY <1>1 DEF ReceiptAppends
  <2>2. \A w \in AppendWrite(t, a) : w.approval = a /\ w.run = service[a].run
    BY <1>1 DEF AppendWrite, MayApply
  <2> QED
    BY <1>2, <2>1, <2>2 DEF RunsInv, WritesSound
<1>6. CASE UNCHANGED rows
  BY <1>1, <1>2, <1>3, <1>4, <1>5, <1>6, MoveStep
<1>7. CASE MayPersist(t) /\ rows' = [rows EXCEPT ![q].state = s2.state, ![q].ckpt = s2]
  <2>1. q \in DOMAIN rows /\ rows[q].sid = t /\ rows[q].status = "running" /\ IsRow(rows[q])
    BY <1>3, <1>7 DEF MayPersist, TypeOK, RowsOK
  <2>2. /\ DOMAIN rows' = DOMAIN rows
        /\ \A r \in DOMAIN rows : r # q => rows'[r] = rows[r]
        /\ rows'[q].sid = rows[q].sid /\ rows'[q].wf = rows[q].wf
        /\ rows'[q].audit = rows[q].audit
        /\ rows'[q].ckpt = s2 /\ rows'[q].state = s2.state
    BY <1>7, <2>1 DEF IsRow
  <2>3. TransportSound(t)
    BY DEF RunsInv, TransportsSound
  <2>4. Tracked => Carries(s2, rows[q].wf)
    BY <1>3, <1>4, <1>7, <2>3 DEF TransportSound, Follows, MayPersist
  <2>5. s2.id = t
    BY <1>3, <1>4 DEF Follows
  <2>6. DOMAIN sessions = Keys
    BY DEF TypeOK, SessionsOK
  <2>7. sessions'[t] = s2 /\ \A k \in Keys : k # t => sessions'[k] = sessions[k]
    BY <1>1, <1>3, <2>6 DEF Put
  <2>8. TransportSound(t)'
    BY <1>2, <1>3, <2>1, <2>2, <2>4, <2>7 DEF TransportSound
  <2>9. Backed(t)'
    BY <1>4, <2>7 DEF Backed
  <2> HIDE DEF q
  <2>10. RowSound(q, rows'[q], service, parked')
    BY <1>2, <1>4, <2>1, <2>2, <2>4, <2>5 DEF RowSound
  <2>11. /\ RowsSound' /\ PendingsApart' /\ ServiceSound' /\ AuditInOwnRun'
         /\ DOMAIN rows \subseteq DOMAIN rows'
         /\ \A r \in DOMAIN rows : rows'[r].sid = rows[r].sid /\ rows'[r].wf = rows[r].wf
         /\ ReviewedIn(service) \subseteq ReviewedIn(service')
    BY <1>2, <1>4, <2>1, <2>2, <2>10, OneRow
  <2>12. Sound(sessions'[t], ReviewedIn(service'))
    BY <1>2, <1>4, <2>7
  <2>13. \A r \in DOMAIN rows : rows[r].sid # t => rows'[r].ckpt = rows[r].ckpt
    BY <2>1, <2>2
  <2>14. \A u \in Transports : u # t => gw'[u] = gw[u]
    BY <1>2
  <2> QED
    BY <1>5, <2>7, <2>8, <2>9, <2>11, <2>12, <2>13, <2>14, TransportStep
<1> QED
  BY <1>6, <1>7 DEF ApplyReceipt, ApplyReceiptUnsaved, Persisted, s2

\* The service calls the gateway about a decision.
LEMMA CallbackStep ==
    ASSUME TypeOK, TypeOK', RunsInv, NEW t \in Transports, NEW a \in DOMAIN service,
           ApprovalCallback(t, a)
    PROVE  RunsInv'
<1> DEFINE s == Cur(t)
           p == s.pending
           R == ReviewedIn(service)
<1>1. Ready(t) /\ p # None /\ p.id = a /\ IsSession(s) /\ Sound(s, R)
  BY OwnSession DEF ApprovalCallback, Ready
<1>2. UNCHANGED <<gw, rows, ends, service, parked>>
  BY DEF ApprovalCallback
<1>3. /\ service[a].to = p.to
      /\ gw[t].run # None => service[a].run = gw[t].run
  BY <1>1, OnRecord
<1>4. WritesSound'
  <2>1. appends' \subseteq appends \cup AppendWrite(t, a)
    BY DEF ApprovalCallback
  <2>2. \A w \in AppendWrite(t, a) : w.approval = a /\ w.run = service[a].run
    BY <1>3 DEF AppendWrite
  <2> QED
    BY <1>2, <2>1, <2>2 DEF RunsInv, WritesSound
<1>5. CASE service[a].status = "approved"
  <2>1. PICK c \in Patched(p.ctx) : Put(t, UpdateState(ClearPending(s), p.to, c))
    BY <1>5 DEF ApprovalCallback
  <2>2. p.to \in R
    BY <1>3, <1>5 DEF ReviewedIn, ApprovedIn
  <2>3. IsContext(p.ctx) /\ ContextSound(p.ctx)
    BY <1>1 DEF IsSession, Sound, PendingSound
  <2>4. c.ret = p.ctx.ret /\ ContextSound(c)
    BY <2>3, PatchedSound
  <2> DEFINE s2 == UpdateState(ClearPending(s), p.to, c)
  <2>5. Sound(s2, R) /\ Follows(s, s2)
    <3> HIDE DEF R
    <3> QED
      BY <1>1, <2>2, <2>4, AppliedSound
  <2> HIDE DEF s2
  <2> QED
    BY <1>1, <1>2, <1>4, <2>1, <2>5, MoveStep DEF s2
<1>6. CASE service[a].status # "approved"
  <2>1. Put(t, ClearPending(s))
    BY <1>6 DEF ApprovalCallback
  <2>2. Sound(ClearPending(s), R) /\ Follows(s, ClearPending(s))
    <3> HIDE DEF R
    <3> QED
      BY <1>1, ClearedSound
  <2> QED
    BY <1>1, <1>2, <1>4, <2>1, <2>2, MoveStep
<1> QED
  BY <1>5, <1>6

\* Approvals keep the invariant.
LEMMA ApprovalStep ==
    ASSUME TypeOK, TypeOK', RunsInv, AuditImpliesApproved, NEW t \in Transports, Approval(t)
    PROVE  RunsInv'
BY ConnectStep, RecoverStep, PresentStep, ReceiptStep, CallbackStep DEF Approval


-----------------------------------------------------------------------------
(* The reviewers, the database and the loss of the process.                *)

\* The sessions and the transports stay, and so do the checkpoints of the runs.
LEMMA StayStep ==
    ASSUME TypeOK, RunsInv, UNCHANGED <<sessions, gw>>,
           DOMAIN rows' = DOMAIN rows,
           \A r \in DOMAIN rows : /\ rows'[r].sid = rows[r].sid /\ rows'[r].wf = rows[r].wf
                                  /\ rows'[r].ckpt = rows[r].ckpt,
           ReviewedIn(service) \subseteq ReviewedIn(service')
    PROVE  SessionsSound' /\ TransportsSound' /\ PendingsApart'
<1>1. SessionsSound'
  BY SoundGrows DEF RunsInv, SessionsSound
<1>2. ASSUME NEW t \in Transports
      PROVE  TransportSound(t)' /\ Backed(t)'
  <2>1. TransportSound(t) /\ Backed(t)
    BY DEF RunsInv, TransportsSound
  <2>2. gw[t] # None /\ gw[t].run # None => gw[t].run \in DOMAIN rows
    BY DEF TypeOK, GatewaysOK, IsGateway
  <2>3. TransportSound(t)'
    BY <2>1, <2>2 DEF TransportSound
  <2>4. Backed(t)'
    BY <2>1 DEF Backed
  <2> QED
    BY <2>3, <2>4
<1>3. PendingsApart'
  BY DEF RunsInv, PendingsApart
<1> QED
  BY <1>1, <1>2, <1>3 DEF TransportsSound

\* A reviewer decides.
LEMMA DecideStep ==
    ASSUME TypeOK, RunsInv, AuditImpliesApproved, NEW a \in DOMAIN service, Decide(a)
    PROVE  RunsInv'
<1>1. PICK status \in {"approved", "rejected"}, c \in Patched(service[a].ctx) :
        service' = [service EXCEPT ![a].status = status, ![a].ctx = c]
  BY DEF Decide
<1>2. UNCHANGED <<sessions, gw, rows, appends, ends, parked>> /\ service[a].status = "pending"
  BY DEF Decide, memory, storage
<1>3. IsContext(service[a].ctx) /\ DOMAIN service[a] = {"status", "run", "from", "to", "ctx"}
  BY DEF TypeOK, ServiceOK
<1>4. c.ret = service[a].ctx.ret /\ (ContextSound(service[a].ctx) => ContextSound(c))
  BY <1>3, PatchedSound
<1>5. /\ DOMAIN service' = DOMAIN service
      /\ service'[a].status = status /\ service'[a].ctx = c
      /\ \A b \in DOMAIN service : b # a => service'[b] = service[b]
      /\ \A b \in DOMAIN service : service'[b].run = service[b].run /\ service'[b].to = service[b].to
  BY <1>1, <1>3
<1>6. ReviewedIn(service) \subseteq ReviewedIn(service')
  <2>1. ApprovedIn(service) \subseteq ApprovedIn(service')
    BY <1>2, <1>5 DEF ApprovedIn
  <2>2. ApprovedIn(service) \subseteq DOMAIN service
    BY DEF ApprovedIn
  <2> QED
    BY <1>5, <2>1, <2>2 DEF ReviewedIn
<1>7. SessionsSound' /\ TransportsSound' /\ PendingsApart'
  BY <1>2, <1>6, StayStep
<1>8. RowsSound'
  <2> SUFFICES ASSUME NEW r \in DOMAIN rows
               PROVE  RowSound(r, rows[r], service', parked)
    BY <1>2 DEF RowsSound
  <2>1. RowSound(r, rows[r], service, parked)
    BY DEF RunsInv, RowsSound
  <2>2. Sound(rows[r].ckpt, ReviewedIn(service'))
    BY <1>6, <2>1, SoundGrows DEF RowSound
  <2>3. ASSUME NEW p, PendingFiled(p, r, service, parked)
        PROVE  PendingFiled(p, r, service', parked)
    BY <1>4, <1>5, <2>3 DEF PendingFiled
  <2> QED
    BY <2>1, <2>2, <2>3 DEF RowSound
<1>9. ServiceSound'
  BY <1>2, <1>4, <1>5 DEF RunsInv, ServiceSound
<1>10. WritesSound'
  BY <1>2, <1>5 DEF RunsInv, WritesSound, TypeOK, WritesOK
<1>11. AuditInOwnRun'
  BY <1>2, <1>5 DEF RunsInv, AuditInOwnRun, AuditImpliesApproved, Approved
<1> QED
  BY <1>7, <1>8, <1>9, <1>10, <1>11 DEF RunsInv

\* An append of a decision reaches the database.
LEMMA AppendStep ==
    ASSUME TypeOK, RunsInv, NEW w \in appends, AppendLands(w)
    PROVE  RunsInv'
<1>1. /\ UNCHANGED <<sessions, gw, ends, service, parked>>
      /\ appends' \subseteq appends
  BY DEF AppendLands, memory
<1>2. /\ w.run \in DOMAIN rows /\ IsRow(rows[w.run]) /\ w.approval \in Approvals
      /\ service[w.approval].run = w.run
  BY DEF TypeOK, WritesOK, ServiceOK, RowsOK, RunsInv, WritesSound
<1>3. /\ DOMAIN rows' = DOMAIN rows
      /\ \A r \in DOMAIN rows : /\ rows'[r].sid = rows[r].sid /\ rows'[r].wf = rows[r].wf
                                /\ rows'[r].ckpt = rows[r].ckpt
                                /\ rows'[r].status = rows[r].status
                                /\ rows'[r].state = rows[r].state
      /\ \A r \in DOMAIN rows, b \in Approvals :
           \/ rows'[r].audit[b] = rows[r].audit[b]
           \/ r = w.run /\ b = w.approval
  BY <1>2 DEF AppendLands, IsRow
<1>4. SessionsSound' /\ TransportsSound' /\ PendingsApart'
  BY <1>1, <1>3, StayStep
<1>5. RowsSound'
  BY <1>1, <1>3 DEF RunsInv, RowsSound, RowSound
<1>6. ServiceSound' /\ WritesSound'
  BY <1>1 DEF RunsInv, ServiceSound, WritesSound
<1>7. AuditInOwnRun'
  BY <1>1, <1>2, <1>3 DEF RunsInv, AuditInOwnRun
<1> QED
  BY <1>4, <1>5, <1>6, <1>7 DEF RunsInv

\* The end of a run reaches the database.
LEMMA EndStep ==
    ASSUME TypeOK, TypeOK', RunsInv, NEW w \in ends, EndLands(w)
    PROVE  RunsInv'
<1> DEFINE q == w.run
<1>1. /\ UNCHANGED <<sessions, gw, appends, service, parked>>
      /\ ends' \subseteq ends
      /\ rows' = [rows EXCEPT ![q].status = w.status, ![q].state = w.state]
  BY DEF EndLands, memory
<1>2. q \in DOMAIN rows /\ IsRow(rows[q]) /\ w.status \notin {"running", "paused"}
  BY DEF TypeOK, WritesOK, RowsOK, RunsInv, WritesSound
<1> HIDE DEF q
<1>3. /\ DOMAIN rows' = DOMAIN rows
      /\ \A r \in DOMAIN rows : r # q => rows'[r] = rows[r]
      /\ rows'[q].sid = rows[q].sid /\ rows'[q].wf = rows[q].wf /\ rows'[q].audit = rows[q].audit
      /\ rows'[q].ckpt = rows[q].ckpt /\ rows'[q].status = w.status
  BY <1>1, <1>2 DEF IsRow
<1>4. RowSound(q, rows'[q], service, parked')
  <2>1. RowSound(q, rows[q], service, parked)
    BY <1>2 DEF RunsInv, RowsSound
  <2> QED
    BY <1>1, <1>2, <1>3, <2>1 DEF RowSound
<1>5. RowsSound' /\ PendingsApart' /\ ServiceSound' /\ AuditInOwnRun'
  BY <1>1, <1>2, <1>3, <1>4, OneRow
<1>6. SessionsSound' /\ TransportsSound'
  BY <1>1, <1>2, <1>3, StayStep
<1>7. WritesSound'
  BY <1>1 DEF RunsInv, WritesSound
<1> QED
  BY <1>5, <1>6, <1>7 DEF RunsInv

\* The process is lost.
LEMMA CrashStep ==
    ASSUME TypeOK, RunsInv, Crash
    PROVE  RunsInv'
<1>1. /\ sessions' = [k \in Keys |-> None] /\ gw' = [t \in Transports |-> None]
      /\ UNCHANGED <<rows, service, parked>>
      /\ appends' \subseteq appends /\ ends' \subseteq ends
  BY DEF Crash
<1>2. \A t \in Transports : t \in Keys
  BY BoundsAssumption
<1>3. SessionsSound' /\ TransportsSound'
  BY <1>1, <1>2 DEF SessionsSound, TransportsSound, TransportSound, Backed
<1>4. RowsSound' /\ PendingsApart' /\ ServiceSound' /\ AuditInOwnRun'
  BY <1>1, RowsAlone
<1>5. WritesSound'
  BY <1>1 DEF RunsInv, WritesSound
<1> QED
  BY <1>3, <1>4, <1>5 DEF RunsInv

-----------------------------------------------------------------------------
(* RunsInv is an invariant.                                                *)

\* It holds before the first request.
LEMMA RunsInit ==
    ASSUME Init
    PROVE  RunsInv
<1>1. \A t \in Transports : t \in Keys
  BY BoundsAssumption
<1>2. DOMAIN rows = {} /\ DOMAIN service = {}
  BY DEF Init
<1> QED
  BY <1>1, <1>2
  DEF Init, RunsInv, SessionsSound, RowsSound, PendingsApart, TransportsSound, TransportSound,
      Backed, ServiceSound, WritesSound, AuditInOwnRun

\* Every step keeps it.
LEMMA RunsNext ==
    ASSUME NoForks, ChildrenReturn, TypeOK, TypeOK', AuditImpliesApproved, RunsInv, [Next]_vars
    PROVE  RunsInv'
<1>1. CASE UNCHANGED vars
  <2>1. UNCHANGED <<sessions, gw, rows, appends, ends, service, parked>>
    BY <1>1 DEF vars
  <2>2. SessionsSound' /\ TransportsSound'
    BY <2>1, StayStep
  <2>3. RowsSound' /\ PendingsApart' /\ ServiceSound' /\ AuditInOwnRun'
    BY <2>1, RowsAlone
  <2>4. WritesSound'
    BY <2>1 DEF RunsInv, WritesSound
  <2> QED
    BY <2>2, <2>3, <2>4 DEF RunsInv
<1>2. ASSUME NEW t \in Transports, Lifecycle(t) \/ Transition(t) \/ ToolCall(t) \/ Approval(t)
      PROVE  RunsInv'
  BY <1>2, LifecycleStep, TransitionStep, ToolCallStep, ApprovalStep
<1>3. ASSUME NEW a \in DOMAIN service, Decide(a)
      PROVE  RunsInv'
  BY <1>3, DecideStep
<1>4. ASSUME NEW w \in appends, AppendLands(w)
      PROVE  RunsInv'
  BY <1>4, AppendStep
<1>5. ASSUME NEW w \in ends, EndLands(w)
      PROVE  RunsInv'
  BY <1>5, EndStep
<1>6. CASE Crash
  BY <1>6, CrashStep
<1> QED
  BY <1>1, <1>2, <1>3, <1>4, <1>5, <1>6 DEF Next

\* Whatever the transports, reviewers and crashes do, in whatever order.
LEMMA RunsInvariant ==
    ASSUME NoForks, ChildrenReturn
    PROVE  Spec => []RunsInv
<1>1. Init => RunsInv
  BY RunsInit
<1>2. TypeOK /\ TypeOK' /\ AuditImpliesApproved /\ RunsInv /\ [Next]_vars => RunsInv'
  BY RunsNext
<1> QED
  BY <1>1, <1>2, TypeCorrect, AuditSound, PTL DEF Spec

-----------------------------------------------------------------------------
(* What follows from it.                                                   *)

\* The history of a run holds only decisions that were asked for in that run:
\* no receipt polled, called back or recovered by another transport or after
\* another load reaches it (record_run_transition).
THEOREM AuditedInOwnRun ==
    ASSUME NoForks, ChildrenReturn
    PROVE  Spec => []AuditInOwnRun
<1>1. RunsInv => AuditInOwnRun
  BY DEF RunsInv
<1>2. Spec => []RunsInv
  BY RunsInvariant
<1> QED
  BY <1>1, <1>2, PTL

\* A workflow with local reviews is in a gated state only if a reviewer has
\* approved a transition into it (handle_transition).
THEOREM GateIsHonoured ==
    ASSUME NoForks, ChildrenReturn
    PROVE  Spec => []GateHonoured
<1>1. RunsInv => GateHonoured
  <2> SUFFICES ASSUME RunsInv, NEW k \in Keys, sessions[k] # None,
                      Def(sessions[k]).approval_mode = "ui",
                      NEW state \in DOMAIN Def(sessions[k]).states,
                      sessions[k].state = state, Gated(Def(sessions[k]), state)
               PROVE  Reviewed(state)
    BY DEF GateHonoured
  <2>1. Passed(sessions[k].wf, state, ReviewedIn(service))
    BY DEF RunsInv, SessionsSound, Sound, Placed, Entered
  <2>2. state \in ReviewedIn(service)
    BY <2>1 DEF Passed, Def
  <2> QED
    BY <2>2 DEF ReviewedIn, ApprovedIn, Reviewed, Approved
<1>2. Spec => []RunsInv
  BY RunsInvariant
<1> QED
  BY <1>1, <1>2, PTL

\* A parked transition survives the loss of the process: the row of a running
\* run holds a checkpoint with it that from_checkpoint accepts
\* (persist_approval_checkpoint, recover_pending_approval).
THEOREM ParkingIsDurable ==
    ASSUME NoForks, ChildrenReturn, Closed
    PROVE  Spec => []ParkIsDurable
<1>1. TypeOK /\ RunsInv => ParkIsDurable
  <2> SUFFICES ASSUME TypeOK, RunsInv, NEW t \in Transports,
                      Ready(t), gw[t].run # None, Cur(t).pending # None,
                      rows[gw[t].run].status = "running"
               PROVE  LET row == rows[gw[t].run]
                      IN  /\ row.ckpt.pending # None
                          /\ row.ckpt.pending.id = Cur(t).pending.id
                          /\ CheckpointOK(row.ckpt, t, row.state)
    BY DEF ParkIsDurable
  <2> DEFINE q == gw[t].run
             row == rows[q]
  <2>1. Cur(t) = sessions[t] /\ sessions[t] # None /\ gw[t] # None /\ q \in DOMAIN rows /\ row.sid = t
    BY OwnSession DEF Ready, Connected
  <2>2. Backed(t) /\ RowSound(q, row, service, parked)
    BY <2>1 DEF RunsInv, TransportsSound, RowsSound
  <2>3. row.ckpt.pending = Cur(t).pending
    BY <2>1, <2>2 DEF Backed
  <2> HIDE DEF q, row
  <2>4. row.ckpt.pending # None /\ row.status = "running"
    BY <2>3 DEF q, row
  <2>5. row.ckpt.id = t /\ row.ckpt.state = row.state /\ row.ckpt.pending.from = row.state
    BY <2>1, <2>2, <2>4 DEF RowSound
  <2>6. /\ row.ckpt.state \in DOMAIN Def(row.ckpt).states
        /\ row.ckpt.pending.to \in DOMAIN Def(row.ckpt).states
    BY <2>2, <2>4 DEF RowSound, Sound, Placed, Entered, PendingSound, Def
  <2> QED
    BY <2>3, <2>4, <2>5, <2>6 DEF CheckpointOK, q, row
<1>2. Spec => []RunsInv
  BY RunsInvariant
<1> QED
  BY <1>1, <1>2, TypeCorrect, PTL

\* A paused run can be resumed: from_checkpoint accepts what handle_pause
\* saved, if nothing moves a workflow while it waits for a review.
THEOREM PausedRunsResume ==
    ASSUME NoForks, ChildrenReturn, Closed, ReviewsKeepStill
    PROVE  Spec => []PausedIsResumable
<1>1. RunsInv => PausedIsResumable
  <2> SUFFICES ASSUME RunsInv, NEW r \in DOMAIN rows, rows[r].status = "paused"
               PROVE  CheckpointOK(rows[r].ckpt, rows[r].sid, rows[r].state)
    BY DEF PausedIsResumable
  <2> DEFINE row == rows[r]
  <2>1. RowSound(r, row, service, parked)
    BY DEF RunsInv, RowsSound
  <2>2. row.ckpt.id = row.sid /\ row.ckpt.state = row.state /\ Sound(row.ckpt, ReviewedIn(service))
    BY <2>1 DEF RowSound
  <2> HIDE DEF row
  <2>3. row.ckpt.state \in DOMAIN Def(row.ckpt).states
    BY <2>2 DEF Sound, Placed, Entered, Def
  <2>4. row.ckpt.pending # None =>
          /\ row.ckpt.pending.from = row.state
          /\ row.ckpt.pending.to \in DOMAIN Def(row.ckpt).states
    BY <2>2 DEF Sound, PendingSound, Def
  <2>5. CheckpointOK(row.ckpt, row.sid, row.state)
    BY <2>2, <2>3, <2>4 DEF CheckpointOK
  <2> QED
    BY <2>5 DEF row
<1>2. Spec => []RunsInv
  BY RunsInvariant
<1> QED
  BY <1>1, <1>2, PTL

\* No event, return, interrupt, review or end of a child leads out of the
\* workflow a session runs, or out of the one that waits for it
\* (resolve_transition, complete_subflow).
THEOREM StatesStayDefined ==
    ASSUME NoForks, ChildrenReturn, Closed
    PROVE  Spec => []StateDefined
<1>1. RunsInv => StateDefined
  BY DEF RunsInv, SessionsSound, StateDefined, Sound, Placed, Entered, ParentSound, Def
<1>2. Spec => []RunsInv
  BY RunsInvariant
<1> QED
  BY <1>1, <1>2, PTL

\* The state an interrupt handler returns to is one of the workflow that is
\* running then (_interrupt_return, across subflows, reviews and recoveries).
THEOREM ReturnsStayLocal ==
    ASSUME NoForks, ChildrenReturn, Closed
    PROVE  Spec => []ReturnIsLocal
<1>1. RunsInv => ReturnIsLocal
  BY DEF RunsInv, SessionsSound, ReturnIsLocal, Sound, Placed, Entered, Def
<1>2. Spec => []RunsInv
  BY RunsInvariant
<1> QED
  BY <1>1, <1>2, PTL

\* A child workflow that has ended has given way to its parent
\* (complete_subflow), also after a pause, a resume or a recovery.
THEOREM SubflowsReturn ==
    ASSUME NoForks, ChildrenReturn, ChildrenMoveByEvents
    PROVE  Spec => []SubflowReturns
<1>1. RunsInv => SubflowReturns
  BY DEF RunsInv, SessionsSound, SubflowReturns, Sound, ChildSound, Def
<1>2. Spec => []RunsInv
  BY RunsInvariant
<1> QED
  BY <1>1, <1>2, PTL

\* A run keeps the workflow it was started with, through subflows, pauses and
\* recoveries (load_workflow, paused_run).
THEOREM RunsKeepWorkflow ==
    ASSUME NoForks, ChildrenReturn, Flat, Closed
    PROVE  Spec => []RunKeepsWorkflow
<1>1. TypeOK /\ RunsInv => RunKeepsWorkflow
  <2> SUFFICES ASSUME TypeOK, RunsInv, NEW t \in Transports, Ready(t), gw[t].run # None
               PROVE  \/ Cur(t).wf = rows[gw[t].run].wf
                      \/ /\ Cur(t).subflow # None
                         /\ Cur(t).subflow.wf = rows[gw[t].run].wf
    BY DEF RunKeepsWorkflow
  <2>1. Cur(t) = sessions[t] /\ sessions[t] # None /\ gw[t] # None /\ TransportSound(t)
    BY OwnSession DEF Ready, Connected, RunsInv, TransportsSound
  <2> QED
    BY <2>1 DEF TransportSound, Carries, Tracked
<1>2. Spec => []RunsInv
  BY RunsInvariant
<1> QED
  BY <1>1, <1>2, TypeCorrect, PTL

-----------------------------------------------------------------------------
(* Forks, in catalogues whose forks stand alone and are not reviewed.      *)

\* A fork as a session of wf keeps it: no branch is ever marked failed.
IsFork(wf, f) == \E t \in Forks(Machine[wf]) : f \in ForkRecord(t)

\* Only a root session forks, by one of its workflow's forks; a suspended parent has not.
ForkSound(s) ==
    /\ s.pending = None
    /\ HasFork(s) => s.id = << >> /\ IsFork(s.wf, s.ctx.fork)
    /\ s.subflow # None => Forks(Def(s)) = {} /\ s.subflow.ctx.fork = None

\* A session that is put in the place of s does not give up its fork.
Waits(s, s2) ==
    HasFork(s) /\ s.ctx.fork.join = "all" /\ ~ HasFork(s2) =>
        /\ Cardinality(DOMAIN s.ctx.fork.status \ Completed(s.ctx.fork)) <= 1
        /\ s2.state = s.ctx.fork.on_complete

RowsFork == \A r \in DOMAIN rows : ForkSound(rows[r].ckpt)

ForkInv ==
    /\ \A k \in Keys : sessions[k] # None => ForkSound(sessions[k])
    /\ RowsFork
    /\ DOMAIN service = {}

\* What a step does that is no deactivation.
ForkStep ==
    /\ ForkInv'
    /\ \A k \in Keys : sessions[k] # None /\ sessions'[k] # None => Waits(sessions[k], sessions'[k])

\* Without reviews nothing is parked.
LEMMA NothingParks ==
    ASSUME NoReviews, TypeOK, NEW t \in Transports, NEW e, NEW r \in Outcomes(t, e)
    PROVE  ~ NeedsReview(t, r)
<1> DEFINE wf == Cur(t).wf
<1>1. Ready(t) /\ r \in Resolve(Def(Cur(t)), Cur(t).state, e, Cur(t).ctx)
  BY DEF Outcomes
<1>2. wf \in DOMAIN Machine /\ Def(Cur(t)) = Machine[wf]
  BY <1>1, CurOK DEF IsSession, Def
<1> HIDE DEF wf
<1>3. CASE ByDefault(Machine[wf], Cur(t).state, Cur(t).ctx, r)
  BY <1>3 DEF ByDefault, Simple, Full, NeedsReview, RequiresApproval
<1>4. CASE ByTransition(Machine[wf], Cur(t).state, Cur(t).ctx, r)
  <2>1. r.via \in Transitions(Machine[wf])
    BY <1>1, <1>2, <1>4, ResolveShape, OwnTransition DEF ByTransition
  <2> QED
    BY <1>2, <2>1 DEF NoReviews, MayPark, NeedsReview
<1> QED
  BY <1>1, <1>2, <1>3, <1>4, ResolveShape

\* A fork or an invocation is one of the workflow's, and resolving an event touches no fork.
LEMMA OutcomeFork ==
    ASSUME TypeOK, NEW t \in Transports, NEW e, NEW r \in Outcomes(t, e)
    PROVE  /\ r.ctx.fork = Cur(t).ctx.fork
           /\ r.via.kind \in {"fork", "invoke"} => r.via \in Transitions(Def(Cur(t)))
<1> DEFINE wf == Cur(t).wf
<1>1. Ready(t) /\ r \in Resolve(Def(Cur(t)), Cur(t).state, e, Cur(t).ctx)
  BY DEF Outcomes
<1>2. wf \in DOMAIN Machine /\ Def(Cur(t)) = Machine[wf] /\ IsContext(Cur(t).ctx)
  BY <1>1, CurOK DEF IsSession, Def
<1> HIDE DEF wf
<1>3. CASE ByDefault(Machine[wf], Cur(t).state, Cur(t).ctx, r)
  BY <1>3 DEF ByDefault, Simple, Full
<1>4. CASE ByTransition(Machine[wf], Cur(t).state, Cur(t).ctx, r)
  <2>1. r.via \in Transitions(Machine[wf])
    BY <1>1, <1>2, <1>4, ResolveShape, OwnTransition DEF ByTransition
  <2>2. PICK target : \E q \in Enter(target, Cur(t).ctx) : r.ctx = q.ctx
    BY <1>4 DEF ByTransition
  <2>3. r.ctx.fork = Cur(t).ctx.fork
    BY <1>2, <2>2 DEF Enter, IsContext
  <2> QED
    BY <1>2, <2>1, <2>3
<1> QED
  BY <1>1, <1>2, <1>3, <1>4, ResolveShape

\* Moving a session keeps its fork.
LEMMA MovedFork ==
    ASSUME NEW s, IsSession(s), ForkSound(s), NEW state, NEW c, IsContext(c),
           c.fork = s.ctx.fork
    PROVE  LET s2 == UpdateState(s, state, c) IN ForkSound(s2) /\ Waits(s, s2)
BY DEF IsSession, ForkSound, UpdateState, HasFork, Waits, Def

\* Patching a context keeps its fork.
LEMMA PatchedFork ==
    ASSUME NEW c, IsContext(c), NEW d \in Patched(c)
    PROVE  d.fork = c.fork
BY DEF IsContext, Patched

LEMMA NewContextFork ==
    ASSUME NEW wf \in DOMAIN Machine
    PROVE  NewContext(Machine[wf]).fork = None
BY DEF NewContext, EmptyContext

\* A fork goes on as a fork when a branch ends or starts.
LEMMA ForkGoesOn ==
    ASSUME NEW wf \in DOMAIN Machine, NEW f, IsFork(wf, f), NEW b, NEW v \in {"running", "completed"}
    PROVE  /\ IsFork(wf, [f EXCEPT !.status[b] = v])
           /\ f # None
BY NoneIsNoFork DEF IsFork, ForkRecord

LEMMA NextBranchGoesOn ==
    ASSUME NEW wf \in DOMAIN Machine, NEW f, IsFork(wf, f)
    PROVE  IsFork(wf, NextBranch(f))
<1>1. \A b : IsFork(wf, [f EXCEPT !.status[b] = "running"])
  BY ForkGoesOn
<1> QED
  BY <1>1 DEF NextBranch

\* A session of a workflow, new or with its decision record, has no fork.
LEMMA PreparedFork ==
    ASSUME ForksStandAlone, NEW k \in Keys, NEW wf \in DOMAIN Machine, NEW s \in Prepared(k, wf)
    PROVE  ForkSound(s) /\ ~ HasFork(s)
<1> DEFINE s1 == NewSession(k, wf)
<1>1. ForkSound(s1) /\ ~ HasFork(s1) /\ IsSession(s1) /\ s1.ctx.fork = None
  BY NewSessionOK DEF ForkSound, NewSession, NewContext, EmptyContext, HasFork
<1>2. CASE ~ Machine[wf].adr
  BY <1>1, <1>2 DEF Prepared
<1>3. CASE Machine[wf].adr
  <2>1. ADR \in DOMAIN Machine /\ IsChild(ADR)
    BY <1>3, CatalogueAssumption DEF IsChild
  <2>2. Forks(Machine[ADR]) = {}
    BY <2>1 DEF ForksStandAlone
  <2>3. PICK c \in Patched(NewContext(Machine[ADR])) :
          s = StartSubflow(s1, ADR, c, Machine[wf].initial, "failed")
    BY <1>3 DEF Prepared
  <2>4. c.fork = None
    BY <2>1, <2>3, NewContextOK, NewContextFork, PatchedFork
  <2>5. s1.pending = None
    BY DEF NewSession
  <2> HIDE DEF s1
  <2> QED
    BY <1>1, <2>2, <2>3, <2>4, <2>5 DEF StartSubflow, IsSession, ForkSound, HasFork, Def
<1> QED
  BY <1>2, <1>3

\* A branch that is reported ends the fork if it is the last, and in its on_complete
\* state.
LEMMA FinishedFork ==
    ASSUME NEW s, IsSession(s), ForkSound(s), HasFork(s), NEW b \in DOMAIN s.ctx.fork.status
    PROVE  LET s2 == BranchFinished(s, b) IN ForkSound(s2) /\ Waits(s, s2)
<1> DEFINE old == s.ctx.fork
           fork == Finished(old, b)
           clear == [s.ctx EXCEPT !.fork = None]
           on == [s.ctx EXCEPT !.fork = NextBranch(fork)]
<1>1. /\ IsFork(s.wf, old) /\ IsContext(s.ctx) /\ s.id = << >> /\ s.wf \in DOMAIN Machine
      /\ s.pending = None /\ s.subflow = None
  BY DEF ForkSound, IsSession, IsFork, Def
<1>2. /\ DOMAIN fork.status = DOMAIN old.status
      /\ fork.join = old.join /\ fork.on_complete = old.on_complete
      /\ Completed(fork) \subseteq Completed(old) \cup {b}
  BY <1>1 DEF Finished, IsFork, ForkRecord, Completed
<1>8. IsFork(s.wf, fork)
  BY <1>1, ForkGoesOn DEF Finished
<1>3. IsContext(clear) /\ clear.fork = None
  BY <1>1 DEF IsContext
<1>4. IsFork(s.wf, on.fork) /\ IsContext(on) /\ on.fork # None
  <2>1. IsFork(s.wf, NextBranch(fork)) /\ NextBranch(fork) # None
    BY <1>1, <1>8, NextBranchGoesOn, ForkGoesOn
  <2> HIDE DEF fork
  <2> QED
    BY <1>1, <2>1 DEF IsContext
<1>5. ~ JoinFailed(fork)
  BY <1>8 DEF JoinFailed, IsFork, ForkRecord
<1> HIDE DEF fork, clear, on
<1>6. CASE JoinMet(fork)
  <2>1. BranchFinished(s, b) = UpdateState(s, fork.on_complete, clear)
    BY <1>6 DEF BranchFinished, fork, clear
  <2>2. old.join = "all" => DOMAIN old.status \ Completed(old) \subseteq {b}
    BY <1>2, <1>6 DEF JoinMet
  <2>3. old.join = "all" => Cardinality(DOMAIN old.status \ Completed(old)) <= 1
    <3>1. IsFiniteSet({b}) /\ Cardinality({b}) = 1
      BY FS_Singleton
    <3> QED
      BY <2>2, <3>1, FS_Subset
  <2> QED
    BY <1>1, <1>2, <1>3, <2>1, <2>3 DEF UpdateState, IsSession, ForkSound, HasFork, Waits
<1>7. CASE ~ JoinMet(fork)
  <2>1. BranchFinished(s, b) = UpdateState(s, s.state, on)
    BY <1>5, <1>7 DEF BranchFinished, fork, on
  <2> QED
    BY <1>1, <1>4, <2>1 DEF UpdateState, IsSession, ForkSound, HasFork, Waits
<1> QED
  BY <1>6, <1>7

\* A session that is put in its place keeps the invariant if it is sound and waits.
LEMMA PutFork ==
    ASSUME TypeOK, ForkInv, NEW t \in Transports, Connected(t), NEW s, Put(t, s), ForkSound(s),
           Cur(t) # None => Waits(Cur(t), s), RowsFork', UNCHANGED service
    PROVE  ForkStep
<1>1. gw[t].sid \in Keys /\ sessions' = [sessions EXCEPT ![gw[t].sid] = s] /\ DOMAIN sessions = Keys
  BY DEF TypeOK, GatewaysOK, SessionsOK, IsGateway, Connected, Put
<1>2. ASSUME NEW k \in Keys
      PROVE  /\ sessions'[k] # None => ForkSound(sessions'[k])
             /\ sessions[k] # None /\ sessions'[k] # None => Waits(sessions[k], sessions'[k])
  BY <1>1 DEF ForkInv, Cur, Waits
<1> QED
  BY <1>2 DEF ForkInv, ForkStep

\* The rows stay as they are.
LEMMA SameRows ==
    ASSUME ForkInv, UNCHANGED rows
    PROVE  RowsFork'
BY DEF ForkInv, RowsFork

\* What a transport works on.
LEMMA CurFork ==
    ASSUME TypeOK, ForkInv, NEW t \in Transports, Ready(t)
    PROVE  /\ IsSession(Cur(t)) /\ ForkSound(Cur(t)) /\ Connected(t)
           /\ Cur(t).pending = None /\ Cur(t).id = gw[t].sid /\ gw[t].sid \in Keys
BY CurOK DEF ForkInv, Cur, Ready, Connected, ForkSound

\* Nothing happens to the sessions.
LEMMA SessionsStay ==
    ASSUME ForkInv, RowsFork', UNCHANGED <<sessions, service>>
    PROVE  ForkStep
BY DEF ForkInv, ForkStep, Waits

\* The session of a transport moves on.
LEMMA MoveFork ==
    ASSUME TypeOK, ForkInv, NEW t \in Transports, Ready(t), NEW state, NEW c, IsContext(c),
           c.fork = Cur(t).ctx.fork, Put(t, UpdateState(Cur(t), state, c)),
           UNCHANGED <<rows, service>>
    PROVE  ForkStep
BY CurFork, MovedFork, PutFork, SameRows

\* An interrupt, by an event or by an edited file.
LEMMA InterruptFork ==
    ASSUME TypeOK, ForkInv, NEW t \in Transports, Ready(t), NEW name,
           Put(t, Interrupted(Cur(t), name)), UNCHANGED <<rows, service>>
    PROVE  ForkStep
<1>1. IsContext([Cur(t).ctx EXCEPT !.ret = Cur(t).state])
  BY CurFork, MarkedContext DEF IsSession
<1>2. [Cur(t).ctx EXCEPT !.ret = Cur(t).state].fork = Cur(t).ctx.fork
  BY CurFork DEF IsSession, IsContext
<1> QED
  BY <1>1, <1>2, MoveFork DEF Interrupted

\* Calls of tools.
LEMMA ToolCallFork ==
    ASSUME TypeOK, ForkInv, NEW t \in Transports, ToolCall(t)
    PROVE  ForkStep
<1>1. Ready(t) /\ UNCHANGED <<rows, service>>
  BY DEF ToolCall, AdapterPreTool, UpstreamTool, UpstreamEdit, AdapterPostTool, storage
<1>2. ASSUME NEW tool, AdapterPreTool(t, tool) \/ UpstreamTool(t, tool)
      PROVE  ForkStep
  <2>1. PICK x : Put(t, UpdateState(Cur(t), x, Cur(t).ctx))
    BY <1>2 DEF AdapterPreTool, UpstreamTool
  <2>2. IsContext(Cur(t).ctx)
    BY <1>1, CurFork DEF IsSession
  <2> QED
    BY <1>1, <2>1, <2>2, MoveFork
<1>3. ASSUME FileEdited(t)
      PROVE  ForkStep
  BY <1>1, <1>3, InterruptFork DEF FileEdited
<1> QED
  BY <1>2, <1>3 DEF ToolCall, UpstreamEdit, AdapterPostTool

\* The row a load inserts is as sound as its session.
LEMMA InsertedFork ==
    ASSUME ForkInv, NEW q, NEW wf, NEW s, ForkSound(s),
           rows' = Extended(rows, q, NewRow(wf, s))
    PROVE  RowsFork'
BY DEF ForkInv, RowsFork, Extended, NewRow

\* Connecting, loading, resuming and pausing.
LEMMA LifecycleFork ==
    ASSUME ForksStandAlone, TypeOK, ForkInv, NEW t \in Transports, Lifecycle(t), ~ Deactivate(t)
    PROVE  ForkStep
<1>1. CASE Connect(t)
  <2>1. t \in Keys /\ RowsFork' /\ UNCHANGED service
    BY <1>1, BoundsAssumption, SameRows DEF Connect, storage
  <2>2. CASE sessions[t] # None
    <3>1. UNCHANGED sessions
      BY <1>1, <2>2 DEF Connect
    <3> QED
      BY <2>1, <3>1, SessionsStay
  <2>3. CASE sessions[t] = None
    <3>1. sessions' = [sessions EXCEPT ![t] = NewSession(t, Default)]
      BY <1>1, <2>3 DEF Connect
    <3>2. ForkSound(NewSession(t, Default))
      BY DEF NewSession, NewContext, EmptyContext, ForkSound, HasFork
    <3>3. ASSUME NEW k \in Keys
          PROVE  /\ sessions'[k] # None => ForkSound(sessions'[k])
                 /\ sessions[k] # None /\ sessions'[k] # None => Waits(sessions[k], sessions'[k])
      BY <2>3, <3>1, <3>2 DEF ForkInv, Waits, TypeOK, SessionsOK
    <3> QED
      BY <2>1, <3>3 DEF ForkInv, ForkStep
  <2> QED
    BY <2>2, <2>3
<1>2. ASSUME NEW wf, Load(t, wf) \/ LoadUnconfirmed(t, wf)
      PROVE  ForkStep
  <2>1. /\ MayLoad(t, wf) /\ wf \in DOMAIN Machine /\ Connected(t) /\ gw[t].sid \in Keys
        /\ UNCHANGED service
    BY <1>2 DEF Load, LoadUnconfirmed, MayLoad, Valid, TypeOK, GatewaysOK, IsGateway, Connected
  <2>2. PICK q \in NextRun, s \in Prepared(gw[t].sid, wf) :
          /\ rows' = Extended(rows, q, NewRow(wf, s))
          /\ Put(t, s) \/ UNCHANGED sessions
    <3>1. CASE Load(t, wf)
      BY <3>1 DEF Load
    <3>2. CASE LoadUnconfirmed(t, wf)
      BY <3>2 DEF LoadUnconfirmed, memory
    <3> QED
      BY <1>2, <3>1, <3>2
  <2>3. ForkSound(s)
    BY <2>1, PreparedFork
  <2>4. RowsFork'
    BY <2>2, <2>3, InsertedFork
  <2>5. Cur(t) # None => Waits(Cur(t), s)
    BY <2>1 DEF MayLoad, Waits
  <2> QED
    BY <2>1, <2>2, <2>3, <2>4, <2>5, PutFork, SessionsStay
<1>3. ASSUME NEW r \in DOMAIN rows, Resume(t, r) \/ ResumeUnconfirmed(t, r)
      PROVE  ForkStep
  <2>1. /\ MayLoad(t, rows[r].wf) /\ Connected(t) /\ UNCHANGED service
        /\ rows' = [rows EXCEPT ![r].status = "running"]
        /\ Put(t, rows[r].ckpt) \/ UNCHANGED sessions
    BY <1>3 DEF Resume, ResumeUnconfirmed, MayResume, MayLoad, memory
  <2>2. ForkSound(rows[r].ckpt)
    BY DEF ForkInv, RowsFork
  <2>3. RowsFork'
    BY <2>1 DEF ForkInv, RowsFork, TypeOK, RowsOK, IsRow
  <2>4. Cur(t) # None => Waits(Cur(t), rows[r].ckpt)
    BY <2>1 DEF MayLoad, Waits
  <2> QED
    BY <2>1, <2>2, <2>3, <2>4, PutFork, SessionsStay
<1>4. CASE Pause(t) \/ PauseUnconfirmed(t)
  <2>1. Ready(t) /\ gw[t].run # None /\ rows' = PausedRow(t) /\ UNCHANGED <<sessions, service>>
    BY <1>4 DEF Pause, PauseUnconfirmed, memory
  <2>2. ForkSound(Cur(t))
    BY <2>1, CurFork
  <2>3. RowsFork'
    BY <2>1, <2>2 DEF PausedRow, ForkInv, RowsFork, TypeOK, RowsOK, IsRow
  <2> QED
    BY <2>1, <2>3, SessionsStay
<1> QED
  BY <1>1, <1>2, <1>3, <1>4 DEF Lifecycle

\* A fork starts: only the root session can, and its branches had none.
LEMMA StartsFork ==
    ASSUME ForksStandAlone, OneLevel, TypeOK, ForkInv, NEW t \in Transports, NEW e, StartFork(t, e)
    PROVE  ForkStep
<1>1. PICK r \in Outcomes(t, e) : \E c \in Patched(r.ctx) :
        /\ r.via.kind = "fork"
        /\ \A i \in DOMAIN r.via.branches : BranchKey(gw[t].sid, r.via.branches[i].name) \in Keys
        /\ sessions' = Forked(t, r.via, c)
  BY DEF StartFork
<1>2. PICK c \in Patched(r.ctx) : sessions' = Forked(t, r.via, c)
  BY <1>1
<1>3. UNCHANGED <<rows, service>>
  BY DEF StartFork, storage
<1>4. Ready(t) /\ IsContext(c)
  BY <1>2, OutcomeContext
<1> DEFINE s == Cur(t)
           via == r.via
           sid == gw[t].sid
           d == [c EXCEPT !.fork = ForkContext(via), !.ret = None]
<1>5. /\ IsSession(s) /\ ForkSound(s) /\ s.pending = None /\ s.id = sid /\ sid \in Keys
      /\ s.wf \in DOMAIN Machine
  BY <1>4, CurFork DEF IsSession
<1>6. via \in Forks(Machine[s.wf]) /\ DOMAIN via.branches # {}
  <2>1. via \in Transitions(Machine[s.wf])
    BY <1>1, OutcomeFork DEF Def
  <2> QED
    BY <1>1, <1>5, <2>1 DEF Forks, ForksStandAlone
<1>7. s.subflow = None
  BY <1>5, <1>6 DEF ForkSound, Def
<1> HIDE DEF s, via, sid
<1>8. ASSUME NEW x, BranchKey(sid, x) \in Keys
      PROVE  sid = << >>
  <2>1. sid \in Seq(STRING) /\ Len(sid) <= 1 /\ Len(Append(sid, x)) <= 1
    BY <1>5, <1>8 DEF OneLevel, BranchKey
  <2>2. sid = << >> \/ sid = <<sid[1]>>
    BY <2>1
  <2>3. \A y : Len(Append(<<y>>, x)) = 2
    OBVIOUS
  <2> QED
    BY <2>1, <2>2, <2>3
<1>9. sid = << >>
  <2>1. PICK i \in DOMAIN via.branches : TRUE
    BY <1>6
  <2>2. BranchKey(sid, via.branches[i].name) \in Keys
    BY <1>1 DEF via, sid
  <2> QED
    BY <1>8, <2>2
<1>10. ForkContext(via) \in ForkRecord(via) /\ ForkContext(via) # None
  <2>1. ForkContext(via) \in ForkRecord(via)
    BY DEF ForkContext, ForkRecord
  <2> QED
    BY <1>5, <1>6, <2>1, NoneIsNoFork
<1>11. IsContext(d) /\ d.fork = ForkContext(via)
  BY <1>4 DEF IsContext
<1> HIDE DEF d
<1>12. LET s2 == UpdateState(s, s.state, d) IN ForkSound(s2) /\ Waits(s, s2)
  BY <1>5, <1>6, <1>7, <1>9, <1>10, <1>11
  DEF UpdateState, IsSession, ForkSound, HasFork, Waits, IsFork
<1>13. ASSUME NEW k \in Keys
       PROVE  /\ sessions'[k] # None => ForkSound(sessions'[k])
              /\ sessions[k] # None /\ sessions'[k] # None => Waits(sessions[k], sessions'[k])
  <2>1. CASE k = sid
    <3>1. sessions'[k] = UpdateState(s, s.state, d)
      BY <1>2, <2>1 DEF Forked, s, d, via, sid
    <3>2. sessions[k] = s
      BY <2>1 DEF s, sid, Cur
    <3> QED
      BY <1>12, <3>1, <3>2
  <2>2. CASE k # sid
    <3> DEFINE at == BranchesAt(sid, via, k)
               old == sessions[k]
    <3>1. sessions'[k] = IF at = {} THEN old
                         ELSE BranchSession(old, k, s.wf, via.branches[Min(at)])
      BY <1>2, <2>2 DEF Forked, s, d, via, sid
    <3>2. old # None => ForkSound(old)
      BY DEF ForkInv
    <3>3. CASE at = {}
      BY <3>1, <3>2, <3>3 DEF Waits
    <3>4. CASE at # {}
      <4>1. k # << >>
        BY <1>9, <2>2
      <4>2. old # None => old.id = k
        BY DEF TypeOK, SessionsOK
      <4>3. old # None => ~ HasFork(old)
        BY <3>2, <4>1, <4>2 DEF ForkSound
      <4>4. sessions'[k] = UpdateState(NewSession(k, s.wf), via.branches[Min(at)].initial, EmptyContext)
        BY <3>1, <3>4, <4>3 DEF BranchSession
      <4>5. ForkSound(sessions'[k])
        BY <4>4 DEF UpdateState, NewSession, EmptyContext, ForkSound, HasFork
      <4> QED
        BY <4>3, <4>5 DEF Waits
    <3> QED
      BY <3>3, <3>4
  <2> QED
    BY <2>1, <2>2
<1>14. RowsFork'
  BY <1>3, SameRows
<1> QED
  BY <1>3, <1>13, <1>14 DEF ForkInv, ForkStep

\* A subflow starts: its parent has no forks, and neither has it.
LEMMA InvokesFork ==
    ASSUME ForksStandAlone, TypeOK, ForkInv, NEW t \in Transports, NEW e, InvokeSubflow(t, e)
    PROVE  ForkStep
<1>1. PICK r \in Outcomes(t, e) :
        /\ r.via.kind = "invoke"
        /\ r.via.machine \in DOMAIN Machine
        /\ \E c \in Patched(NewContext(Machine[r.via.machine])) :
             Put(t, StartSubflow(Cur(t), r.via.machine, c, r.via.on_complete, r.via.on_fail))
  BY DEF InvokeSubflow
<1>2. PICK c \in Patched(NewContext(Machine[r.via.machine])) :
        Put(t, StartSubflow(Cur(t), r.via.machine, c, r.via.on_complete, r.via.on_fail))
  BY <1>1
<1>3. UNCHANGED <<rows, service>>
  BY DEF InvokeSubflow, storage
<1>4. Ready(t) /\ r.via \in Transitions(Def(Cur(t)))
  BY <1>1, OutcomeFork DEF Outcomes
<1> DEFINE s == Cur(t)
           s2 == StartSubflow(s, r.via.machine, c, r.via.on_complete, r.via.on_fail)
<1>5. IsSession(s) /\ ForkSound(s) /\ s.pending = None /\ s.wf \in DOMAIN Machine /\ Connected(t)
  BY <1>4, CurFork DEF IsSession
<1>6. Forks(Machine[s.wf]) = {} /\ r.via \in Transitions(Machine[s.wf])
  BY <1>1, <1>4, <1>5 DEF ForksStandAlone, Def
<1>7. Forks(Machine[r.via.machine]) = {}
  BY <1>1, <1>5, <1>6 DEF ForksStandAlone, IsChild
<1>8. c.fork = None
  BY <1>1, <1>2, NewContextOK, NewContextFork, PatchedFork
<1>9. ~ HasFork(s)
  BY <1>5, <1>6 DEF ForkSound, IsFork
<1>10. ForkSound(s2) /\ Waits(s, s2)
  BY <1>5, <1>7, <1>8, <1>9 DEF StartSubflow, IsSession, ForkSound, HasFork, Waits, Def
<1> HIDE DEF s2
<1>11. Put(t, s2)
  BY <1>2 DEF s2
<1> QED
  BY <1>3, <1>5, <1>10, <1>11, PutFork, SameRows

\* An ordinary event; at the end of a child its parent goes on.
LEMMA AdvanceFork ==
    ASSUME TypeOK, ForkInv, NEW t \in Transports, NEW e, Advance(t, e)
    PROVE  ForkStep
<1>1. PICK r \in Outcomes(t, e) : \E c \in Patched(r.ctx) :
        LET s     == UpdateState(Cur(t), r.state, c)
            final == IsFinal(Def(s), r.state)
        IN  IF final /\ s.subflow # None
            THEN \E s2 \in CompleteSubflow(s) : Put(t, s2)
            ELSE Put(t, s)
  BY DEF Advance
<1>2. PICK c \in Patched(r.ctx) :
        LET s     == UpdateState(Cur(t), r.state, c)
            final == IsFinal(Def(s), r.state)
        IN  IF final /\ s.subflow # None
            THEN \E s2 \in CompleteSubflow(s) : Put(t, s2)
            ELSE Put(t, s)
  BY <1>1
<1>3. UNCHANGED <<rows, service>>
  BY DEF Advance
<1>4. Ready(t) /\ IsContext(c) /\ c.fork = Cur(t).ctx.fork
  BY OutcomeContext, OutcomeFork, PatchedFork
<1>5. IsSession(Cur(t)) /\ ForkSound(Cur(t)) /\ Connected(t)
  BY <1>4, CurFork
<1> DEFINE s1 == UpdateState(Cur(t), r.state, c)
<1>6. ForkSound(s1) /\ Waits(Cur(t), s1) /\ IsSession(s1)
  BY <1>4, <1>5, MovedFork, UpdateStateOK
<1>7. CASE Put(t, s1)
  BY <1>3, <1>5, <1>6, <1>7, PutFork, SameRows
<1>8. ASSUME s1.subflow # None, NEW s2 \in CompleteSubflow(s1), Put(t, s2)
      PROVE  ForkStep
  <2>1. Cur(t).subflow # None /\ s1.ctx.fork = None /\ s1.subflow.ctx.fork = None /\ ~ HasFork(Cur(t))
    <3>1. Cur(t).subflow = s1.subflow /\ s1.ctx.fork = Cur(t).ctx.fork
      BY <1>4, <1>5 DEF IsSession, UpdateState
    <3>2. ~ HasFork(Cur(t))
      BY <1>5, <1>8, <3>1 DEF ForkSound, IsFork, Def
    <3> QED
      BY <1>5, <1>8, <3>1, <3>2 DEF ForkSound, HasFork
  <2> HIDE DEF s1
  <2>2. /\ s2.pending = s1.pending /\ s2.subflow = None
        /\ s2.ctx \in Merged(s1.subflow.ctx, s1.ctx)
    BY <1>6, <1>8 DEF CompleteSubflow, IsSession
  <2>3. s2.ctx.fork = None
    <3> DEFINE m == [s1.subflow.ctx EXCEPT
                       !.ret  = IF s1.ctx.ret  = None THEN @ ELSE s1.ctx.ret,
                       !.fork = IF s1.ctx.fork = None THEN @ ELSE s1.ctx.fork]
    <3>1. IsContext(m) /\ m.fork = None
      BY <1>6, <1>8, <2>1 DEF IsSession, IsContext
    <3>2. s2.ctx \in Patched(m)
      BY <2>2 DEF Merged
    <3> HIDE DEF m
    <3> QED
      BY <3>1, <3>2, PatchedFork
  <2>4. ForkSound(s2) /\ Waits(Cur(t), s2)
    BY <1>6, <2>1, <2>2, <2>3 DEF ForkSound, HasFork, Waits
  <2> QED
    BY <1>3, <1>5, <1>8, <2>4, PutFork, SameRows
<1> QED
  BY <1>2, <1>7, <1>8

\* What statewright_transition and statewright_force_state do.
LEMMA TransitionFork ==
    ASSUME NoReviews, ForksStandAlone, OneLevel, TypeOK, ForkInv,
           NEW t \in Transports, Transition(t)
    PROVE  ForkStep
<1>1. CASE Interrupt(t)
  BY <1>1, InterruptFork DEF Interrupt, storage
<1>2. CASE BranchDone(t)
  <2>1. Ready(t) /\ HasFork(Cur(t)) /\ UNCHANGED <<rows, service>>
    BY <1>2 DEF BranchDone, storage
  <2>2. PICK b \in DOMAIN Cur(t).ctx.fork.status : Put(t, BranchFinished(Cur(t), b))
    BY <1>2 DEF BranchDone
  <2> QED
    BY <2>1, <2>2, CurFork, FinishedFork, PutFork, SameRows
<1>3. CASE SwitchBranch(t)
  BY <1>3, SameRows, SessionsStay DEF SwitchBranch, storage
<1>4. CASE ForceState(t)
  <2>1. PICK x \in DOMAIN Def(Cur(t)).states, c \in Patched(Cur(t).ctx) :
          Put(t, UpdateState(ClearPending(Cur(t)), x, c))
    BY <1>4 DEF ForceState
  <2>2. Ready(t) /\ UNCHANGED <<rows, service>>
    BY <1>4 DEF ForceState, storage
  <2>3. IsSession(Cur(t)) /\ ForkSound(Cur(t)) /\ IsContext(Cur(t).ctx) /\ Connected(t)
    BY <2>2, CurFork DEF IsSession
  <2> DEFINE s0 == ClearPending(Cur(t))
             s2 == UpdateState(s0, x, c)
  <2>4. s0.ctx = Cur(t).ctx /\ IsSession(s0) /\ ForkSound(s0)
    BY <2>3, ClearPendingOK DEF ClearPending, IsSession, ForkSound, HasFork, Def
  <2>5. IsContext(c) /\ c.fork = s0.ctx.fork
    BY <2>3, <2>4, PatchedContext, PatchedFork
  <2> HIDE DEF s0
  <2>6. ForkSound(s2) /\ Waits(s0, s2)
    BY <2>4, <2>5, MovedFork
  <2>7. Waits(Cur(t), s2)
    BY <2>4, <2>6 DEF Waits, HasFork
  <2> HIDE DEF s2
  <2>8. Put(t, s2)
    BY <2>1 DEF s0, s2
  <2> QED
    BY <2>2, <2>3, <2>6, <2>7, <2>8, PutFork, SameRows
<1>5. ASSUME NEW e, Park(t, e) \/ ParkUnconfirmed(t, e)
      PROVE  FALSE
  BY <1>5, NothingParks DEF Park, ParkUnconfirmed
<1>6. ASSUME NEW e, StartFork(t, e) \/ InvokeSubflow(t, e) \/ Advance(t, e)
      PROVE  ForkStep
  BY <1>6, StartsFork, InvokesFork, AdvanceFork
<1> QED
  BY <1>1, <1>2, <1>3, <1>4, <1>5, <1>6 DEF Transition

\* Nothing waits for a decision, so nothing is recovered, presented or resolved.
LEMMA ApprovalFork ==
    ASSUME TypeOK, ForkInv, NEW t \in Transports, Approval(t)
    PROVE  ForkStep
<1>1. \A r \in DOMAIN rows : ~ RecoverPendingApproval(t, r)
  BY DEF RecoverPendingApproval, ForkInv, RowsFork, ForkSound
<1>2. ~ PresentApproval(t)
  BY CurFork DEF PresentApproval
<1>3. DOMAIN service = {}
  BY DEF ForkInv
<1>4. PollUnknown(t)
  BY <1>1, <1>2, <1>3 DEF Approval
<1> QED
  BY <1>4, SameRows, SessionsStay DEF PollUnknown, storage

\* A deactivation gives up the fork of its own session only.
LEMMA DeactivateFork ==
    ASSUME TypeOK, ForkInv, NEW t \in Transports, Deactivate(t)
    PROVE  /\ ForkInv'
           /\ \A k \in Keys : k # gw[t].sid => sessions'[k] = sessions[k]
<1>1. UNCHANGED <<rows, service>> /\ RowsFork'
  BY SameRows DEF Deactivate
<1>2. CASE Cur(t) = None
  BY <1>1, <1>2 DEF Deactivate, ForkInv
<1>3. CASE Cur(t) # None
  <2> DEFINE s2 == [Cur(t) EXCEPT !.ctx.fork = None]
  <2>1. Put(t, s2) /\ Ready(t)
    BY <1>3 DEF Deactivate, Ready
  <2>2. ForkSound(s2)
    BY <2>1, CurFork DEF IsSession, IsContext, ForkSound, HasFork, Def
  <2> HIDE DEF s2
  <2>3. sessions' = [sessions EXCEPT ![gw[t].sid] = s2] /\ DOMAIN sessions = Keys
    BY <2>1 DEF Put, TypeOK, SessionsOK
  <2> QED
    BY <1>1, <2>2, <2>3 DEF ForkInv
<1> QED
  BY <1>2, <1>3

\* The spawned writes leave the checkpoints alone, and a crash has no survivors.
LEMMA EnvironmentFork ==
    ASSUME TypeOK, ForkInv,
           \/ \E a \in DOMAIN service : Decide(a)
           \/ \E w \in appends : AppendLands(w)
           \/ \E w \in ends : EndLands(w)
           \/ Crash
           \/ UNCHANGED vars
    PROVE  ForkStep
<1>1. ASSUME NEW w \in appends, AppendLands(w)
      PROVE  ForkStep
  <2>1. DOMAIN rows' = DOMAIN rows /\ \A r \in DOMAIN rows : rows'[r].ckpt = rows[r].ckpt
    BY <1>1 DEF AppendLands, TypeOK, RowsOK, IsRow, WritesOK
  <2>2. RowsFork'
    BY <2>1 DEF ForkInv, RowsFork
  <2> QED
    BY <1>1, <2>2, SessionsStay DEF AppendLands, memory
<1>2. ASSUME NEW w \in ends, EndLands(w)
      PROVE  ForkStep
  <2>1. DOMAIN rows' = DOMAIN rows /\ \A r \in DOMAIN rows : rows'[r].ckpt = rows[r].ckpt
    BY <1>2 DEF EndLands, TypeOK, RowsOK, IsRow, WritesOK
  <2>2. RowsFork'
    BY <2>1 DEF ForkInv, RowsFork
  <2> QED
    BY <1>2, <2>2, SessionsStay DEF EndLands, memory
<1>3. CASE Crash
  BY <1>3, SameRows DEF Crash, ForkInv, ForkStep
<1>4. CASE UNCHANGED vars
  BY <1>4, SameRows, SessionsStay DEF vars
<1>5. ~ \E a \in DOMAIN service : Decide(a)
  BY DEF ForkInv
<1> QED
  BY <1>1, <1>2, <1>3, <1>4, <1>5

\* A step either deactivates a workflow or lets every fork wait.
LEMMA ForkNext ==
    ASSUME NoReviews, ForksStandAlone, OneLevel, TypeOK, ForkInv, [Next]_vars,
           ~ \E t \in Transports : Deactivate(t)
    PROVE  ForkStep
<1>1. ASSUME NEW t \in Transports, Lifecycle(t) \/ Transition(t) \/ ToolCall(t) \/ Approval(t)
      PROVE  ForkStep
  BY <1>1, LifecycleFork, TransitionFork, ToolCallFork, ApprovalFork
<1> QED
  BY <1>1, EnvironmentFork DEF Next

\* A fork under "all" ends only in its on_complete state, when every branch but
\* the last was reported before: no load, resumption, recovery, tool call, pane
\* or branch gives it up (the BRANCH_DONE handler, load_workflow).
THEOREM JoinsWait ==
    ASSUME NoReviews, ForksStandAlone, OneLevel
    PROVE  Spec => JoinWaitsForAll
<1> DEFINE Ends(k) ==
             (/\ sessions[k] # None /\ HasFork(sessions[k])
              /\ sessions[k].ctx.fork.join = "all"
              /\ sessions'[k] # None /\ ~ HasFork(sessions'[k])
              /\ ~ \E t \in Transports : Deactivate(t) /\ gw[t].sid = k)
             => LET fork == sessions[k].ctx.fork
                IN  /\ Cardinality(DOMAIN fork.status \ Completed(fork)) <= 1
                    /\ sessions'[k].state = fork.on_complete
<1>1. Init => ForkInv
  BY DEF Init, ForkInv, RowsFork
<1>2. TypeOK /\ ForkInv /\ [Next]_vars => ForkInv' /\ \A k \in Keys : Ends(k)
  <2> SUFFICES ASSUME TypeOK, ForkInv, [Next]_vars
               PROVE  ForkInv' /\ \A k \in Keys : Ends(k)
    OBVIOUS
  <2>1. ASSUME NEW t \in Transports, Deactivate(t)
        PROVE  ForkInv' /\ \A k \in Keys : Ends(k)
    BY <2>1, DeactivateFork
  <2>2. CASE ~ \E t \in Transports : Deactivate(t)
    <3>1. ForkStep
      BY <2>2, ForkNext
    <3> QED
      BY <3>1 DEF ForkStep, Waits
  <2> QED
    BY <2>1, <2>2
<1> HIDE DEF Ends
<1>3. Spec => [][\A k \in Keys : Ends(k)]_vars
  BY <1>1, <1>2, TypeCorrect, PTL DEF Spec
<1> QED
  BY <1>3 DEF JoinWaitsForAll, Ends

=============================================================================
