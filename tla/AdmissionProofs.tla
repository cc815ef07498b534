-------------------------- MODULE AdmissionProofs ---------------------------
(***************************************************************************)
(* The safety properties of Admission, for every set of clients, calls,    *)
(* workflow, provider and bound.                                           *)
(*                                                                         *)
(* AdmissionInv says what is kept between two steps: a job in the queue or *)
(* with the worker that somebody still waits for is that client's own, and *)
(* the client waits (RequestsOwnJobs); a request that is decided carries   *)
(* the answer to its own question, and the decision it carries is one its  *)
(* state grants (RequestKept).  The effect of a call is a table of the     *)
(* classifier that the proofs never open but for the shape of its answers; *)
(* that its answers are true is the hypothesis ClassifierIsSound.          *)
(***************************************************************************)
EXTENDS Admission, TLAPS

-----------------------------------------------------------------------------
(* The shapes of an effect.                                                *)

Capabilities == {"Write", "BoundedLocalExecution", "GitLocalWrite"}

IsAssessment(det) ==
    /\ det = [risk |-> det.risk, exposure |-> det.exposure, caps |-> det.caps]
    /\ det.caps \subseteq Capabilities
    /\ det.risk \in 0..3

LEMMA LocalEffects ==
    ASSUME NEW classes
    PROVE  local_effect_capability(classes) \subseteq Capabilities
  BY DEF local_effect_capability, Capabilities

LEMMA ShellRiskShape ==
    ASSUME NEW classes, NEW reads
    PROVE  IsAssessment(ShellRisk(classes, reads))
  BY LocalEffects DEF ShellRisk, IsAssessment, assessment, Low, Moderate, High, Critical

LEMMA AstRiskShape ==
    ASSUME NEW ast
    PROVE  IsAssessment(assess_shell_ast(ast))
  BY LocalEffects DEF assess_shell_ast, IsAssessment, assessment, Low, Moderate, High, Critical

LEMMA EvidenceRiskShape ==
    ASSUME NEW classes
    PROVE  IsAssessment(EvidenceRisk(classes))
  BY LocalEffects DEF EvidenceRisk, IsAssessment, assessment, Low, Moderate, High, Critical

LEMMA SomeAssessments ==
    ASSUME NEW risk \in 0..3, NEW exposure
    PROVE  IsAssessment(assessment(risk, exposure, {})) /\ assessment(risk, exposure, {}).risk = risk
  BY DEF IsAssessment, assessment

LEMMA McpShape ==
    ASSUME NEW call
    PROVE  IsAssessment(assess_mcp(call))
<1>1. \E risk \in 0..3 : \E exposure : assess_mcp(call) = assessment(risk, exposure, {})
  <2>1. Low \in 0..3 /\ Moderate \in 0..3 /\ High \in 0..3 /\ Critical \in 0..3
    BY DEF Low, Moderate, High, Critical
  <2>2. \A risk, exposure : assessment(risk, exposure, {}).risk = risk
    BY DEF assessment
  <2>. QED  BY <2>1, <2>2, Zenon DEF assess_mcp
<1>. QED  BY <1>1, SomeAssessments

LEMMA ToolShape ==
    ASSUME NEW call, NEW native
    PROVE  IsAssessment(AssessTool(call, native))
  BY McpShape DEF AssessTool, IsAssessment, assessment, Low, Moderate, High, Critical

LEMMA AssessShape ==
    ASSUME NEW call, NEW native, NEW mode
    PROVE  IsAssessment(Assess(call, native, mode).det)
  BY ShellRiskShape, AstRiskShape, ToolShape DEF Assess, AssessCommand, Preferred, assess_shell

\* A pipeline that can be resolved: what the classifier found to be low
\* stays low.
IsPipeline(p, vector, authorized) ==
    /\ IsAssessment(p.det)
    /\ p.det.risk = Low => p.effective = Low
    /\ p.receipt.vector = vector
    /\ p.authorized => authorized

LEMMA PipelineShape ==
    ASSUME NEW det, NEW request, NEW receipt, NEW authorized, NEW may,
           IsAssessment(det), may => authorized
    PROVE  IsPipeline(pipeline_from_parts(det, request, receipt, may), receipt.vector, authorized)
<1> DEFINE p == pipeline_from_parts(det, request, receipt, may)
<1>1. p.det = det /\ p.receipt = receipt /\ p.authorized = may
  BY DEF pipeline_from_parts
<1>2. det.risk = Low => p.effective = Low
  BY DEF pipeline_from_parts, Low, Moderate
<1> HIDE DEF p
<1>3. IsPipeline(p, receipt.vector, authorized)
  BY <1>1, <1>2 DEF IsPipeline
<1>. QED  BY <1>3 DEF p

\* What an effect may look like: only an authorized answer of the provider
\* decides where the classifier does not.
EffectShape(e, vector, authorized) ==
    /\ e.verdict = "local" => e.caps # {} /\ e.caps \subseteq Capabilities
    /\ e.verdict \in {"read", "local", "known_risk", "uncertain"}
    /\ Resolved(e) /\ e.basis = "semantic" => authorized /\ vector # None

LEMMA ResolvedShape ==
    ASSUME NEW call, NEW p, NEW vector, NEW authorized, IsPipeline(p, vector, authorized)
    PROVE  EffectShape(resolve_effect_with_basis(call, p), vector, authorized)
<1> DEFINE e == resolve_effect_with_basis(call, p)
           caps == IF p.det.caps = {} THEN {"Write"} ELSE p.det.caps
<1>1. \/ e \in {Effect("known_risk", {}, "deterministic"), Effect("read", {}, "deterministic"),
                 Effect("local", caps, "deterministic"), Effect("uncertain", {}, "deterministic"),
                 Effect("uncertain", {}, "semantic")}
      \/ /\ p.authorized /\ p.receipt.vector # None
         /\ e \in {Effect("read", {}, "semantic"), Effect("local", p.det.caps \cup {"Write"}, "semantic")}
  BY DEF resolve_effect_with_basis, IsPipeline, Low, High
<1>2. p.det.caps \subseteq Capabilities
  BY DEF IsPipeline, IsAssessment
<1> HIDE DEF e
<1>3. EffectShape(e, vector, authorized)
  BY <1>1, <1>2 DEF IsPipeline, EffectShape, Effect, Capabilities, Resolved
<1>. QED  BY <1>3 DEF e

LEMMA EvidenceShape ==
    ASSUME NEW call, NEW kind, NEW p, NEW vector, NEW authorized, IsPipeline(p, vector, authorized)
    PROVE  IsPipeline(WithEvidence(call, kind, p), vector, authorized)
<1> DEFINE open == assessment(Moderate, Unknown, p.det.caps)
           det == IF EvidenceHolds(call.evidence) THEN EvidenceRisk(EvidenceClasses(call.evidence.units)) ELSE open
           q == pipeline_from_parts(det, p.request, p.receipt, FALSE)
<1>1. IsAssessment(open)
  BY DEF IsPipeline, IsAssessment, assessment, Moderate
<1> HIDE DEF open
<1>2. IsAssessment(det)
  BY <1>1, EvidenceRiskShape
<1> HIDE DEF det
<1>3. IsPipeline(q, p.receipt.vector, authorized)
  BY <1>2, PipelineShape
<1> HIDE DEF q
<1>4. IsPipeline(q, vector, authorized)
  BY <1>3 DEF IsPipeline
<1>5. WithEvidence(call, kind, p) \in {p, q}
  BY DEF WithEvidence, apply_native_command_evidence, q, det, open
<1>. QED  BY <1>4, <1>5

EffectIndices == AstModes \X BOOLEAN \X CallNames \X {"call", "pre"} \X (Vectors \cup {None})

LEMMA Tables ==
    ASSUME NEW table
    PROVE  Computed(table) = table
  BY DEF Computed

LEMMA TableShape ==
    ASSUME NEW x \in EffectIndices
    PROVE  EffectShape(Effects[x], x[5], x[2])
<1>1. Effects[x] = EffectFrom(Calls[x[3]], x[4], Assessments[<<x[1], x[3], x[4]>>],
                              Receipt(x[3], "Assessed", x[5]), x[2])
  BY Tables DEF Effects, EffectIndices
<1>2. Assessments[<<x[1], x[3], x[4]>>] = Assess(Calls[x[3]], x[4] = "pre", x[1])
  BY Tables DEF Assessments, EffectIndices
<1> DEFINE parts == Assess(Calls[x[3]], x[4] = "pre", x[1])
           receipt == Receipt(x[3], "Assessed", x[5])
           p == pipeline_from_parts(parts.det, parts.request, receipt, x[2])
<1>3. IsPipeline(p, receipt.vector, x[2])
  BY AssessShape, PipelineShape
<1>4. receipt.vector = x[5]
  BY DEF Receipt
<1>5. Effects[x] = resolve_effect_with_basis(Calls[x[3]], WithEvidence(Calls[x[3]], x[4], p))
  BY <1>1, <1>2 DEF EffectFrom
<1> HIDE DEF p
<1>. QED  BY <1>3, <1>4, <1>5, EvidenceShape, ResolvedShape

-----------------------------------------------------------------------------
(* What the checks of the policy leave of an effect.                       *)

\* Effect e of a call that does `does`, as the classifier sees it.
EffectOK(e, vector, authorized, does) ==
    /\ EffectShape(e, vector, authorized)
    /\ EffectSound(e, does)
    /\ does \subseteq EffectKinds

LEMMA RiskAccepted ==
    ASSUME NEW s, NEW e, NEW vector, NEW authorized, EffectShape(e, vector, authorized),
           s.semantic, ~ semantic_effect_risk_denial(s, e)
    PROVE  Resolved(e) /\ (e.basis = "semantic" => StateDef(s).tolerance = "assessed")
  BY DEF semantic_effect_risk_denial, EffectShape, Resolved

LEMMA ReadsAreHarmless ==
    ASSUME NEW e, NEW vector, NEW authorized, NEW does, EffectOK(e, vector, authorized, does),
           e.verdict = "read"
    PROVE  does \subseteq {"unknown"}
  BY DEF EffectOK, EffectSound, Resolved, EffectKinds

\* A call that reads only, or goes to a shell the interceptors of the state of
\* s do not look at.
ReadsIn(s, call) == call.does \subseteq {"unknown"} \/ ShellUnchecked(StateDef(s), call)

\* A shell command that passes the interceptors of an exploratory state reads.
LEMMA InterceptedReads ==
    ASSUME NEW s, NEW call, NEW e, NEW vector, NEW authorized, EffectShape(e, vector, authorized),
           s.semantic, StateDef(s).exploratory, call.tool \in ShellTools,
           ~ ShellUnchecked(StateDef(s), call), Resolved(e),
           ~ pre_call_check_blocks(s, call, e)
    PROVE  e.verdict = "read"
<1> DEFINE tools == {"Read", "Grep", "Glob"}
<1>1. pipeline_effect_has_capability(e, tools)
  <2>1. ~ ShellBlocked(s, call, e)
    BY DEF pre_call_check_blocks, ShellUnchecked
  <2>. QED  BY <2>1 DEF ShellBlocked
<1>2. e.verdict # "local"
  BY <1>1 DEF EffectShape, Capabilities, pipeline_effect_has_capability
<1>. QED  BY <1>2 DEF Resolved

\* The state grants an effect that no check refuses in it.
LEMMA GrantedUnlessDenied ==
    ASSUME NEW s, NEW e, NEW vector, NEW authorized, NEW call, NEW q,
           EffectOK(e, vector, authorized, call.does), Resolved(e), s.semantic,
           ~ semantic_effect_capability_denial(s, e),
           e.basis = "semantic" => StateDef(s).tolerance = "assessed",
           StateDef(s).exploratory => ReadsIn(s, call),
           q.to = s.state, q.receipt.vector = vector
    PROVE  Granted(q, call, authorized)
<1> DEFINE does == call.does
           sd == definition.states[q.to]
           lists(cap) == sd.tools # None /\ cap \in sd.tools /\ cap \notin sd.denied
<1>1. sd = StateDef(s)
  BY DEF StateDef
<1>2. \A cap \in e.caps : e.verdict = "local" => ~ denied(s, cap)
                              /\ (cap \in get_allowed_tools(s) \/ (cap = "Write" /\ StateDef(s).tools = None))
  BY DEF semantic_effect_capability_denial
<1>3. \A cap \in get_allowed_tools(s) : lists(cap)
  BY <1>1 DEF get_allowed_tools
<1>4. does \cap {"destroy", "remote"} = {}
  BY DEF EffectOK, EffectSound
<1>5. "write" \in does => lists("Write") \/ (sd.tools = None /\ "Write" \notin sd.denied)
  BY <1>1, <1>2, <1>3 DEF EffectOK, EffectSound, denied
<1>6. "execute" \in does => lists("BoundedLocalExecution")
  BY <1>1, <1>2, <1>3 DEF EffectOK, EffectSound
<1>7. "commit" \in does => lists("GitLocalWrite")
  BY <1>1, <1>2, <1>3 DEF EffectOK, EffectSound
<1>8. "unknown" \in does => authorized /\ sd.tolerance = "assessed" /\ q.receipt.vector # None
  BY <1>1 DEF EffectOK, EffectSound, EffectShape
<1>9. sd.exploratory => does \subseteq {"unknown"} \/ ShellUnchecked(sd, call)
  BY <1>1 DEF ReadsIn
<1> HIDE DEF sd, does
<1>. QED  BY <1>4, <1>5, <1>6, <1>7, <1>8, <1>9 DEF Granted, sd, does

-----------------------------------------------------------------------------
(* Implicit transitions.                                                   *)

\* Whichever branch is taken, it enters one of the transition's targets.
LEMMA TakeEnters ==
    ASSUME NEW def, NEW ctx, NEW sd, NEW t, ImplicitMove(sd, t), NEW q \in Take(def, t, ctx)
    PROVE  q.state \in AllTargets(t) \cup {Target(t)}
<1>1. ASSUME NEW target \in AllTargets(t) \cup {Target(t)}, q \in Enter(target, ctx)
      PROVE  q.state = target
  BY <1>1 DEF Enter, ImplicitMove
<1>2. CASE t.kind = "guarded"
  <2>1. q \in TakeBranch(def, t.branches, ctx)
    BY <1>2 DEF Take
  <2>2. \E i \in DOMAIN t.branches : q \in Enter(t.branches[i].target, ctx)
    BY <2>1 DEF TakeBranch
  <2>3. AllTargets(t) = {t.branches[i].target : i \in DOMAIN t.branches}
    BY <1>2 DEF AllTargets
  <2>. QED  BY <1>1, <2>2, <2>3
<1>3. CASE t.kind # "guarded"
  <2>1. q \in Enter(Target(t), ctx)
    BY <1>3 DEF Take
  <2>. QED  BY <1>1, <2>1
<1>. QED  BY <1>2, <1>3

\* An event of the state resolves to its own transition.
LEMMA OwnTransition ==
    ASSUME NEW def, NEW state \in DOMAIN def.states, NEW e \in DOMAIN def.states[state].on, NEW ctx,
           NEW res \in Resolve(def, state, e, ctx)
    PROVE  \E q \in Take(def, def.states[state].on[e], ctx) : res.state = q.state
<1> DEFINE sd == def.states[state]
           results(t) == {[state |-> r.state, ctx |-> r.ctx, via |-> t] : r \in Take(def, t, ctx)}
<1>1. ~ FallsBack(sd, e)
  BY DEF FallsBack
<1>2. Matches(sd, e) = {e}
  BY DEF Matches
<1>3. res \in UNION {results(sd.on[x]) : x \in Matches(sd, e)}
  BY <1>1 DEF Resolve
<1>4. res \in results(sd.on[e])
  BY <1>2, <1>3
<1>. QED  BY <1>4

LEMMA ImplicitTargetKept ==
    ASSUME ImplicitMovesKeepTolerance, NEW state, NEW ctx, NEW tool,
           NEW to \in ImplicitTargets(definition, state, ctx, tool)
    PROVE  /\ definition.states[state].tolerance = "assessed" => definition.states[to].tolerance = "assessed"
           /\ definition.states[to].exploratory => definition.states[to].tools # None
<1> DEFINE sd == definition.states[state]
<1>1. state \in DOMAIN definition.states
  BY DEF ImplicitTargets
<1>2. PICK e \in ImplicitEvents(definition, state, tool) :
             \E res \in Resolve(definition, state, e, ctx) : to = res.state
  BY DEF ImplicitTargets
<1>3. PICK res \in Resolve(definition, state, e, ctx) : to = res.state
  BY <1>2
<1>4. e \in DOMAIN sd.on /\ Target(sd.on[e]) \in DOMAIN definition.states
      /\ definition.states[Target(sd.on[e])].tools # None
  BY DEF ImplicitEvents
<1>5. ImplicitMove(sd, sd.on[e])
  BY <1>1, <1>4 DEF ImplicitMovesKeepTolerance
<1>6. PICK q \in Take(definition, sd.on[e], ctx) : res.state = q.state
  BY <1>1, <1>4, OwnTransition
<1>7. to \in AllTargets(sd.on[e]) \cup {Target(sd.on[e])}
  BY <1>3, <1>5, <1>6, TakeEnters
<1>. QED  BY <1>5, <1>7 DEF ImplicitMove

-----------------------------------------------------------------------------
(* The two decisions, in a session with the semantic effect policy.        *)

IsSession(s) ==
    s = [field \in {"state", "ctx", "semantic", "pending", "iterations", "edited"} |-> s[field]]

\* Call call has effect e, and s has accepted its risk.
Accepted(s, call, e, vector, authorized) ==
    /\ IsSession(s) /\ s.semantic
    /\ EffectOK(e, vector, authorized, call.does)
    /\ ~ semantic_effect_risk_denial(s, e)

LEMMA AcceptedIsResolved ==
    ASSUME NEW s, NEW call, NEW e, NEW vector, NEW authorized, Accepted(s, call, e, vector, authorized)
    PROVE  /\ Resolved(e)
           /\ e.basis = "semantic" => StateDef(s).tolerance = "assessed"
           /\ EffectShape(e, vector, authorized)
           /\ EffectOK(e, vector, authorized, call.does)
  BY RiskAccepted DEF Accepted, EffectOK

LEMMA AllowedIsPermitted ==
    ASSUME NEW s, NEW name, NEW d \in enforce_tool_call(s, name), d.kind \in {"allow", "checkpoint"}
    PROVE  PermittedIn(s, name) /\ name # "untrusted" /\ (d.kind = "checkpoint" => is_checkpoint(s))
  BY DEF enforce_tool_call

LEMMA ImplicitIsTarget ==
    ASSUME NEW s, NEW name, NEW d \in enforce_tool_call(s, name), d.kind = "implicit"
    PROVE  d.to \in ImplicitTargets(definition, s.state, s.ctx, name)
  BY DEF enforce_tool_call

\* A client's call that an exploratory state allows reads.
LEMMA ExploratoryPre ==
    ASSUME NEW s, NEW r, NEW call, NEW e, NEW vector, NEW authorized, Accepted(s, call, e, vector, authorized),
           ~ PreToolRefused(r, s, call, e), StateDef(s).exploratory,
           NEW d \in enforce_tool_call(s, PolicyName(s, call, e)), d.kind \in {"allow", "checkpoint"},
           FinalChecks(s, call, e),
           call.info = None /\ native_tool_family(call.tool) = "Read" => call.does \subseteq {"unknown"}
    PROVE  ReadsIn(s, call)
<1> DEFINE name == PolicyName(s, call, e)
<1>1. PermittedIn(s, name) /\ name # "untrusted"
  BY AllowedIsPermitted
<1>2. e.verdict = "read" => call.does \subseteq {"unknown"}
  BY AcceptedIsResolved, ReadsAreHarmless
<1>3. call.tool \in ShellTools => ReadsIn(s, call)
  BY <1>2, AcceptedIsResolved, InterceptedReads DEF FinalChecks, Accepted, ReadsIn
<1>4. CASE denied(s, call.tool)
  <2>1. name = call.tool
    BY <1>4 DEF PolicyName, resolve_adapter_tool_name
  <2>. QED  BY <1>1, <1>4, <2>1 DEF PermittedIn
<1>5. CASE ~ denied(s, call.tool) /\ call.info # None
  <2>1. exploratory_policy_tool(call) # None
    BY <1>5 DEF PreToolRefused
  <2>2. exploratory_policy_tool(call) = "Read" => e.verdict = "read"
    BY <1>5 DEF PreToolRefused
  <2>3. call.tool \in ShellTools \/ exploratory_policy_tool(call) = "Read"
    BY <2>1 DEF exploratory_policy_tool
  <2>. QED  BY <1>2, <1>3, <2>2, <2>3 DEF ReadsIn
<1>6. CASE ~ denied(s, call.tool) /\ call.info = None
  <2>1. name = CASE native_tool_family(call.tool) = "Read" -> "Read"
                 [] native_tool_family(call.tool) = "Command" -> "Bash"
                 [] OTHER -> "untrusted"
    BY <1>6, Zenon DEF PolicyName, resolve_adapter_tool_name
  <2>2. native_tool_family(call.tool) \in {"Read", "Command"}
    BY <1>1, <2>1
  <2>3. native_tool_family(call.tool) = "Command" => call.tool \in ShellTools
    BY DEF native_tool_family, ShellTools
  <2>. QED  BY <1>3, <1>6, <2>2, <2>3 DEF ReadsIn
<1>. QED  BY <1>4, <1>5, <1>6

\* So does a server's tool there; at a checkpoint the capability check does
\* for the interceptors.
LEMMA ExploratoryCall ==
    ASSUME NEW s, NEW call, NEW e, NEW vector, NEW authorized, Accepted(s, call, e, vector, authorized),
           ~ CallRefused(s, call, e), StateDef(s).exploratory,
           ~ semantic_effect_capability_denial(s, e),
           pre_call_check_blocks(s, call, e) => is_checkpoint(s),
           is_checkpoint(s) => StateDef(s).tools # None \/ denied(s, "Write")
    PROVE  ReadsIn(s, call)
<1>1. e.verdict = "read" => call.does \subseteq {"unknown"}
  BY AcceptedIsResolved, ReadsAreHarmless
<1>2. exploratory_policy_tool(call) = "Read" => e.verdict = "read"
  BY DEF CallRefused
<1>3. call.tool \in ShellTools \/ exploratory_policy_tool(call) = "Read"
  BY DEF CallRefused, exploratory_policy_tool
<1>4. CASE call.tool \in ShellTools /\ ~ pre_call_check_blocks(s, call, e)
  BY <1>1, <1>4, AcceptedIsResolved, InterceptedReads DEF Accepted, ReadsIn
<1>5. CASE StateDef(s).tools # None \/ denied(s, "Write")
  <2>1. get_allowed_tools(s) = {}
    BY DEF get_allowed_tools
  <2>2. e.verdict = "local" => \A cap \in e.caps : FALSE
    BY <1>5, <2>1 DEF semantic_effect_capability_denial, Accepted
  <2>3. e.verdict # "local"
    BY <2>2, AcceptedIsResolved DEF EffectShape
  <2>. QED  BY <1>1, <2>3, AcceptedIsResolved DEF Resolved, ReadsIn
<1>. QED  BY <1>1, <1>2, <1>3, <1>4, <1>5 DEF ReadsIn

\* A call that moves the workflow is one the state it moves to grants.
LEMMA ImplicitGranted ==
    ASSUME ImplicitMovesKeepTolerance,
           NEW s, NEW call, NEW e, NEW vector, NEW authorized, Accepted(s, call, e, vector, authorized),
           NEW name, NEW d \in enforce_tool_call(s, name), d.kind = "implicit",
           ~ semantic_effect_capability_denial([s EXCEPT !.state = d.to], e),
           NEW q, q.to = d.to, q.receipt.vector = vector
    PROVE  Granted(q, call, authorized)
<1> DEFINE to == [s EXCEPT !.state = d.to]
<1>1. IsSession(s) /\ s.semantic
  BY DEF Accepted
<1>2. to.state = d.to /\ to.semantic
  BY <1>1 DEF IsSession
<1>3. /\ definition.states[s.state].tolerance = "assessed" => definition.states[d.to].tolerance = "assessed"
      /\ definition.states[d.to].exploratory => definition.states[d.to].tools # None
  BY ImplicitIsTarget, ImplicitTargetKept
<1> HIDE DEF to
<1>4. ~ semantic_effect_capability_denial(to, e)
  BY DEF to
<1>5. e.basis = "semantic" => StateDef(to).tolerance = "assessed"
  BY <1>2, <1>3, AcceptedIsResolved DEF StateDef
<1>6. Resolved(e) /\ EffectShape(e, vector, authorized) /\ EffectOK(e, vector, authorized, call.does)
  BY AcceptedIsResolved
<1>7. StateDef(to).exploratory => call.does \subseteq {"unknown"}
  <2>1. SUFFICES ASSUME StateDef(to).exploratory PROVE call.does \subseteq {"unknown"}
    OBVIOUS
  <2>2. StateDef(to).tools # None
    BY <1>2, <1>3, <2>1 DEF StateDef
  <2>3. get_allowed_tools(to) = {}
    BY <2>1 DEF get_allowed_tools
  <2>4. e.verdict = "local" => \A cap \in e.caps : FALSE
    BY <1>2, <1>4, <2>2, <2>3 DEF semantic_effect_capability_denial
  <2>5. e.verdict = "read"
    BY <1>6, <2>4 DEF EffectShape, Resolved
  <2>. QED  BY <1>6, <2>5, ReadsAreHarmless
<1>. QED  BY <1>2, <1>4, <1>5, <1>6, <1>7, GrantedUnlessDenied DEF ReadsIn

LEMMA PreToolGranted ==
    ASSUME NEW s, NEW r, NEW call, NEW e, NEW vector, NEW authorized, Accepted(s, call, e, vector, authorized),
           ~ PreToolRefused(r, s, call, e),
           NEW d \in enforce_tool_call(s, PolicyName(s, call, e)), d.kind \in {"allow", "checkpoint"},
           FinalChecks(s, call, e),
           call.info = None /\ native_tool_family(call.tool) = "Read" => call.does \subseteq {"unknown"},
           NEW q, q.to = s.state, q.receipt.vector = vector
    PROVE  Granted(q, call, authorized)
<1>1. StateDef(s).exploratory => ReadsIn(s, call)
  BY ExploratoryPre
<1>2. ~ semantic_effect_capability_denial(s, e) /\ s.semantic
  BY DEF FinalChecks, Accepted
<1>. QED  BY <1>1, <1>2, AcceptedIsResolved, GrantedUnlessDenied

LEMMA CallGranted ==
    ASSUME NEW s, NEW call, NEW e, NEW vector, NEW authorized, Accepted(s, call, e, vector, authorized),
           ~ CallRefused(s, call, e), ~ semantic_effect_capability_denial(s, e),
           pre_call_check_blocks(s, call, e) => is_checkpoint(s),
           StateDef(s).exploratory /\ is_checkpoint(s) => StateDef(s).tools # None \/ denied(s, "Write"),
           NEW q, q.to = s.state, q.receipt.vector = vector
    PROVE  Granted(q, call, authorized)
<1>1. StateDef(s).exploratory => ReadsIn(s, call)
  BY ExploratoryCall
<1>2. s.semantic
  BY DEF Accepted
<1>. QED  BY <1>1, <1>2, AcceptedIsResolved, GrantedUnlessDenied

-----------------------------------------------------------------------------
(* The invariant.                                                          *)

IsRequest(q) ==
    q = [field \in {"pc", "kind", "call", "seen", "to", "receipt", "annotate"} |-> q[field]]

\* A request, in a session whose effect policy is `semantic`.
RequestKept(q, semantic, authorized) ==
    /\ IsRequest(q)
    /\ q.pc # "idle" => /\ q.call \in CallNames /\ q.kind \in {"call", "pre"}
                        /\ q.kind = "call" => Calls[q.call].info # None
    /\ q.receipt.vector \in Vectors \cup {None}
    /\ q.receipt.vector # None => q.receipt.tool = q.call
    /\ q.kind = "call" /\ q.pc \in {"waiting", "decide"} => IsSession(q.seen) /\ q.seen.semantic = semantic
    /\ q.pc \in {"moving", "moved"} => q.kind = "pre"
    /\ SoundCatalogue /\ semantic /\ q.pc \in {"moving", "moved", "allowed", "upstream"}
          => Granted(q, Calls[q.call], authorized)

Job == [for : Requesters \cup {None}, call : CallNames]

\* Whoever a job is for still waits, for the answer to this very call.
Owned(job, reqs) ==
    job.for # None => reqs[job.for].pc = "waiting" /\ reqs[job.for].call = job.call

\* No request has two jobs.
RequestsOwnJobs(jobs, taken, reqs) ==
    /\ jobs \in Seq(Job)
    /\ taken # None => taken \in Job /\ Owned(taken, reqs)
    /\ \A i \in DOMAIN jobs :
          /\ Owned(jobs[i], reqs)
          /\ \A j \in DOMAIN jobs : jobs[i].for # None /\ jobs[i].for = jobs[j].for => i = j
          /\ taken # None /\ taken.for # None => jobs[i].for # taken.for

AdmissionInv ==
    /\ config \in [ast : AstModes, authorized : BOOLEAN]
    /\ IsSession(session)
    /\ DOMAIN requests = Requesters
    /\ \A r \in Requesters : RequestKept(requests[r], session.semantic, config.authorized)
    /\ RequestsOwnJobs(queue, worker, requests)

\* The effect of a request is one of the table's.
LEMMA EffectKept ==
    ASSUME AdmissionInv, NEW r \in Requesters, requests[r].pc # "idle"
    PROVE  LET q == requests[r]
           IN  /\ EffectShape(EffectOf(r), q.receipt.vector, config.authorized)
               /\ SoundCatalogue => EffectOK(EffectOf(r), q.receipt.vector, config.authorized, Calls[q.call].does)
<1> DEFINE q == requests[r]
           x == <<config.ast, config.authorized, q.call, q.kind, q.receipt.vector>>
<1>1. q.call \in CallNames /\ q.kind \in {"call", "pre"} /\ q.receipt.vector \in Vectors \cup {None}
      /\ (q.kind = "call" => Calls[q.call].info # None)
  BY DEF AdmissionInv, RequestKept
<1>2. config.ast \in AstModes /\ config.authorized \in BOOLEAN
  BY DEF AdmissionInv
<1>3. x \in EffectIndices
  BY <1>1, <1>2 DEF EffectIndices
<1>4. x[2] = config.authorized /\ x[3] = q.call /\ x[4] = q.kind /\ x[5] = q.receipt.vector
  OBVIOUS
<1>5. EffectOf(r) = Effects[x]
  BY DEF EffectOf
<1> HIDE DEF x, q
<1>6. EffectShape(Effects[x], q.receipt.vector, config.authorized)
  BY <1>3, <1>4, TableShape
<1>7. SoundCatalogue => EffectSound(Effects[x], Calls[q.call].does) /\ Calls[q.call].does \subseteq EffectKinds
  BY <1>1, <1>3, <1>4 DEF SoundCatalogue, ClassifierIsSound, CallsAreKnown, EffectIndices
<1>. QED  BY <1>5, <1>6, <1>7 DEF EffectOK, q

\* A step that changes one request.
OnlyChanges(r) ==
    /\ DOMAIN requests' = Requesters
    /\ \A x \in Requesters \ {r} : requests'[x] = requests[x]

LEMMA RequestStep ==
    ASSUME AdmissionInv, NEW r \in Requesters, OnlyChanges(r),
           RequestKept(requests'[r], session.semantic, config.authorized),
           UNCHANGED config, IsSession(session'), session'.semantic = session.semantic,
           RequestsOwnJobs(queue', worker', requests')
    PROVE  AdmissionInv'
<1>1. \A x \in Requesters : RequestKept(requests'[x], session'.semantic, config'.authorized)
  BY DEF AdmissionInv, OnlyChanges
<1>2. config' \in [ast : AstModes, authorized : BOOLEAN]
  BY DEF AdmissionInv
<1>. QED  BY <1>1, <1>2 DEF AdmissionInv, OnlyChanges

\* Of a request that does not wait there is no job; one nobody waits for may
\* be added.
LEMMA JobsStay ==
    ASSUME AdmissionInv, NEW r \in Requesters, OnlyChanges(r), requests[r].pc # "waiting",
           UNCHANGED worker, NEW c \in CallNames,
           queue' \in {queue, Append(queue, [for |-> None, call |-> c])}
    PROVE  RequestsOwnJobs(queue', worker', requests')
<1>1. RequestsOwnJobs(queue, worker, requests)
  BY DEF AdmissionInv
<1>2. \A job \in Job : Owned(job, requests) => Owned(job, requests')
  BY DEF Owned, OnlyChanges, Job
<1>3. RequestsOwnJobs(queue, worker, requests')
  BY <1>1, <1>2 DEF RequestsOwnJobs
<1>4. CASE queue' = queue
  BY <1>3, <1>4
<1>5. CASE queue' = Append(queue, [for |-> None, call |-> c])
  <2> DEFINE job == [for |-> None, call |-> c]
  <2>1. job \in Job /\ Owned(job, requests') /\ job.for = None
    BY DEF Job, Owned
  <2>2. queue \in Seq(Job)
    BY <1>1 DEF RequestsOwnJobs
  <2> HIDE DEF job
  <2>3. /\ queue' \in Seq(Job) /\ DOMAIN queue' = 1..(Len(queue) + 1)
        /\ \A i \in 1..Len(queue) : queue'[i] = queue[i]
        /\ queue'[Len(queue) + 1] = job
        /\ DOMAIN queue = 1..Len(queue) /\ Len(queue) \in Nat
    BY <1>5, <2>1, <2>2 DEF job
  <2>4. \A i \in DOMAIN queue' : queue'[i].for # None => i \in DOMAIN queue /\ queue'[i] = queue[i]
    BY <2>1, <2>3
  <2>5. \A i \in DOMAIN queue' : Owned(queue'[i], requests')
    BY <1>3, <2>1, <2>3 DEF RequestsOwnJobs
  <2>. QED  BY <1>3, <2>1, <2>3, <2>4, <2>5 DEF RequestsOwnJobs
<1>. QED  BY <1>4, <1>5

-----------------------------------------------------------------------------
(* The steps.                                                              *)

LEMMA IdleKept ==
    ASSUME NEW semantic, NEW authorized
    PROVE  RequestKept(Idle, semantic, authorized)
<1>1. IsRequest(Idle) /\ Idle.pc = "idle" /\ Idle.kind = "pre" /\ Idle.receipt.vector = None
  BY DEF Idle, IsRequest, NoReceipt, Receipt
<1>. QED  BY <1>1 DEF RequestKept

LEMMA InitKept == AdmissionInit => AdmissionInv
<1> SUFFICES ASSUME AdmissionInit PROVE AdmissionInv
  OBVIOUS
<1>1. IsSession(session)
  BY DEF AdmissionInit, FreshSession, IsSession
<1>2. RequestsOwnJobs(queue, worker, requests)
  BY DEF AdmissionInit, RequestsOwnJobs
<1>3. DOMAIN requests = Requesters
      /\ \A r \in Requesters : RequestKept(requests[r], session.semantic, config.authorized)
  BY IdleKept DEF AdmissionInit
<1>. QED  BY <1>1, <1>2, <1>3 DEF AdmissionInit, AdmissionInv

\* What may replace the session.
KeepsPolicy(new, s) == IsSession(new) /\ new.semantic = s.semantic

\* The steps of the session alone.
LEMMA SessionStep ==
    ASSUME AdmissionInv, UNCHANGED <<config, requests, queue, worker>>,
           KeepsPolicy(session', session)
    PROVE  AdmissionInv'
  BY DEF AdmissionInv, KeepsPolicy

LEMMA MoveKeeps ==
    ASSUME NEW s, IsSession(s), NEW state, NEW ctx
    PROVE  KeepsPolicy(update_state(s, state, ctx), s)
  BY DEF IsSession, update_state, KeepsPolicy

LEMMA CountKeeps ==
    ASSUME NEW s, IsSession(s)
    PROVE  KeepsPolicy(Counted(s), s)
  BY DEF IsSession, Counted, KeepsPolicy

LEMMA EditKeeps ==
    ASSUME NEW s, IsSession(s), NEW path
    PROVE  KeepsPolicy([s EXCEPT !.edited = @ \cup {path}], s)
  BY DEF IsSession, KeepsPolicy

LEMMA ParkKeeps ==
    ASSUME NEW s, IsSession(s), NEW pending
    PROVE  KeepsPolicy([s EXCEPT !.pending = pending], s)
  BY DEF IsSession, KeepsPolicy

LEMMA AdapterPostKept ==
    ASSUME AdmissionInv, NEW path, AdapterPost(path)
    PROVE  AdmissionInv'
<1> DEFINE edited == [session EXCEPT !.edited = @ \cup {path}]
           seen == IF path # None THEN edited ELSE session
           noted == Counted(seen)
<1>1. IsSession(session)
  BY DEF AdmissionInv
<1>2. KeepsPolicy(edited, session)
  BY <1>1, EditKeeps
<1>3. session' = noted \/ \E target, ctx : session' = update_state(noted, target, ctx)
  BY DEF AdapterPost
<1> HIDE DEF edited
<1>4. KeepsPolicy(seen, session)
  BY <1>1, <1>2 DEF KeepsPolicy
<1> HIDE DEF seen
<1>5. KeepsPolicy(noted, session)
  BY <1>4, CountKeeps DEF KeepsPolicy
<1> HIDE DEF noted
<1>6. KeepsPolicy(session', session)
  BY <1>3, <1>5, MoveKeeps DEF KeepsPolicy
<1>. QED  BY <1>6, SessionStep DEF AdapterPost

LEMMA HookPostKept ==
    ASSUME AdmissionInv, HookPost
    PROVE  AdmissionInv'
<1>1. KeepsPolicy(Counted(session), session)
  BY CountKeeps DEF AdmissionInv
<1>. QED  BY <1>1, SessionStep DEF HookPost

LEMMA TransitionKept ==
    ASSUME AdmissionInv, NEW e, Transition(e)
    PROVE  AdmissionInv'
<1>1. \/ \E x, ctx : session' = update_state(session, x, ctx)
      \/ \E x : session' = [session EXCEPT !.pending = x]
  BY DEF Transition
<1>2. KeepsPolicy(session', session)
  BY <1>1, MoveKeeps, ParkKeeps DEF AdmissionInv
<1>. QED  BY <1>2, SessionStep DEF Transition

LEMMA DecideKept ==
    ASSUME AdmissionInv, NEW approved, Decide(approved)
    PROVE  AdmissionInv'
<1> DEFINE moved == update_state(session, session.pending[1].state, session.pending[1].ctx)
           decided == IF approved THEN moved ELSE session
<1>1. IsSession(session)
  BY DEF AdmissionInv
<1>2. KeepsPolicy(moved, session)
  BY <1>1, MoveKeeps
<1>3. session' = [decided EXCEPT !.pending = << >>]
  BY DEF Decide
<1> HIDE DEF moved
<1>4. KeepsPolicy(decided, session)
  BY <1>1, <1>2 DEF KeepsPolicy
<1> HIDE DEF decided
<1>5. KeepsPolicy(session', session)
  BY <1>3, <1>4, ParkKeeps DEF KeepsPolicy
<1>. QED  BY <1>5, SessionStep DEF Decide

\* The steps of the queue.
LEMMA WorkerTakesKept ==
    ASSUME AdmissionInv, WorkerTakes
    PROVE  AdmissionInv'
<1>1. RequestsOwnJobs(queue, worker, requests) /\ queue \in Seq(Job) /\ queue # << >> /\ worker = None
  BY DEF AdmissionInv, RequestsOwnJobs, WorkerTakes
<1>2. /\ Head(queue) = queue[1] /\ Tail(queue) \in Seq(Job)
      /\ DOMAIN Tail(queue) = 1..(Len(queue) - 1) /\ DOMAIN queue = 1..Len(queue) /\ Len(queue) \in Nat \ {0}
      /\ \A i \in 1..(Len(queue) - 1) : Tail(queue)[i] = queue[i + 1]
  BY <1>1
<1>3. queue[1] \in Job
  BY <1>1, <1>2
<1>4. \A i \in DOMAIN Tail(queue) : i + 1 \in DOMAIN queue /\ Tail(queue)[i] = queue[i + 1] /\ i \in Nat \ {0}
  BY <1>2
<1>5. RequestsOwnJobs(Tail(queue), queue[1], requests)
  <2>1. Owned(queue[1], requests)
    BY <1>1, <1>2 DEF RequestsOwnJobs
  <2>2. ASSUME NEW i \in DOMAIN Tail(queue)
        PROVE  /\ Owned(Tail(queue)[i], requests)
               /\ queue[1].for # None => Tail(queue)[i].for # queue[1].for
    <3>1. i + 1 \in DOMAIN queue /\ 1 \in DOMAIN queue /\ i + 1 # 1
      BY <1>2, <1>4
    <3>. QED  BY <1>1, <1>4, <3>1 DEF RequestsOwnJobs
  <2>3. ASSUME NEW i \in DOMAIN Tail(queue), NEW j \in DOMAIN Tail(queue),
               Tail(queue)[i].for # None, Tail(queue)[i].for = Tail(queue)[j].for
        PROVE  i = j
    <3>1. i + 1 = j + 1
      BY <1>1, <1>4, <2>3 DEF RequestsOwnJobs
    <3>. QED  BY <1>4, <3>1
  <2>. QED  BY <1>2, <1>3, <2>1, <2>2, <2>3 DEF RequestsOwnJobs
<1>6. RequestsOwnJobs(queue', worker', requests')
  BY <1>2, <1>5 DEF WorkerTakes
<1>. QED  BY <1>6 DEF AdmissionInv, WorkerTakes

LEMMA Forgotten ==
    ASSUME NEW r, NEW job \in Job
    PROVE  LET new == Forget(r, job)
           IN  /\ new \in Job
               /\ new.for # None => new = job /\ new.for # r
  BY RequestersAreNamed DEF Job, Forget

LEMMA SemanticTimeoutKept ==
    ASSUME AdmissionInv, NEW r \in Requesters, SemanticTimeout(r)
    PROVE  AdmissionInv'
<1> DEFINE q == requests[r]
<1>1. RequestKept(q, session.semantic, config.authorized) /\ q.pc = "waiting" /\ DOMAIN requests = Requesters
      /\ IsSession(session) /\ RequestsOwnJobs(queue, worker, requests)
  BY DEF AdmissionInv, SemanticTimeout
<1>2. /\ requests'[r] = [q EXCEPT !.pc = "decide", !.receipt = Receipt(q.call, "Timeout", None)]
      /\ OnlyChanges(r)
  BY <1>1 DEF SemanticTimeout, OnlyChanges
<1>3. RequestKept(requests'[r], session.semantic, config.authorized)
  <2>1. /\ IsRequest(requests'[r]) /\ requests'[r].pc = "decide"
        /\ requests'[r].receipt = Receipt(q.call, "Timeout", None)
        /\ requests'[r].call = q.call /\ requests'[r].kind = q.kind /\ requests'[r].seen = q.seen
    BY <1>1, <1>2 DEF RequestKept, IsRequest
  <2>2. requests'[r].receipt.vector = None
    BY <2>1 DEF Receipt
  <2> HIDE DEF q
  <2>. QED  BY <1>1, <2>1, <2>2 DEF RequestKept
<1>4. RequestsOwnJobs(queue', worker', requests')
  <2>1. /\ queue \in Seq(Job) /\ DOMAIN queue = 1..Len(queue) /\ Len(queue) \in Nat
        /\ \A i \in DOMAIN queue : queue[i] \in Job
    BY <1>1 DEF RequestsOwnJobs
  <2>2. /\ queue' = [i \in DOMAIN queue |-> Forget(r, queue[i])]
        /\ worker' = ForgottenBy(r, worker)
    BY DEF SemanticTimeout
  <2>3. \A i \in DOMAIN queue : queue'[i] \in Job /\ (queue'[i].for # None => queue'[i] = queue[i] /\ queue'[i].for # r)
    BY <2>1, <2>2, Forgotten
  <2>4. queue' \in Seq(Job) /\ DOMAIN queue' = DOMAIN queue
    BY <2>1, <2>2, <2>3
  <2>5. worker' # None => worker # None /\ worker' \in Job
                            /\ (worker'.for # None => worker' = worker /\ worker'.for # r)
    BY <1>1, <2>2, Forgotten DEF RequestsOwnJobs, ForgottenBy
  <2>6. \A job \in Job : job.for # None /\ job.for # r /\ Owned(job, requests) => Owned(job, requests')
    BY <1>2 DEF Owned, OnlyChanges, Job
  <2>7. \A i \in DOMAIN queue' : Owned(queue'[i], requests')
    BY <1>1, <2>3, <2>4, <2>6 DEF RequestsOwnJobs, Owned
  <2>8. worker' # None => Owned(worker', requests')
    BY <1>1, <2>5, <2>6 DEF RequestsOwnJobs, Owned
  <2>. QED  BY <1>1, <2>3, <2>4, <2>5, <2>7, <2>8 DEF RequestsOwnJobs
<1>5. UNCHANGED <<config, session>>
  BY DEF SemanticTimeout
<1>. QED  BY <1>1, <1>2, <1>3, <1>4, <1>5, RequestStep

LEMMA StartKept ==
    ASSUME AdmissionInv, NEW r \in Requesters, requests[r].pc = "idle",
           NEW c \in CallNames, NEW kind \in {"pre", "call"}, Start(r, kind, c)
    PROVE  AdmissionInv'
<1> DEFINE q == [Idle EXCEPT !.pc = IF HasRoom THEN "waiting" ELSE "decide", !.kind = kind, !.call = c,
                             !.seen = IF kind = "call" THEN session ELSE None,
                             !.receipt = IF HasRoom THEN NoReceipt ELSE Receipt(c, "QueueFull", None)]
           job == [for |-> r, call |-> c]
<1>1. DOMAIN requests = Requesters /\ IsSession(session) /\ RequestsOwnJobs(queue, worker, requests)
  BY DEF AdmissionInv
<1>2. requests'[r] = q /\ OnlyChanges(r)
  BY <1>1 DEF Start, OnlyChanges
<1>3. /\ IsRequest(q) /\ q.pc = (IF HasRoom THEN "waiting" ELSE "decide") /\ q.kind = kind /\ q.call = c
      /\ q.seen = (IF kind = "call" THEN session ELSE None)
      /\ q.receipt = (IF HasRoom THEN NoReceipt ELSE Receipt(c, "QueueFull", None))
  BY DEF Idle, IsRequest
<1>4. kind = "call" => Calls[c].info # None
  BY DEF Start
<1> HIDE DEF q
<1>5. q.receipt.vector = None
  BY <1>3 DEF NoReceipt, Receipt
<1>6. RequestKept(requests'[r], session.semantic, config.authorized)
  BY <1>1, <1>2, <1>3, <1>4, <1>5 DEF RequestKept
<1>7. RequestsOwnJobs(queue', worker', requests')
  <2>1. \A x \in Job : x.for # None /\ Owned(x, requests) => x.for # r /\ Owned(x, requests')
    BY <1>2 DEF Owned, OnlyChanges, Job
  <2>2. /\ queue \in Seq(Job) /\ DOMAIN queue = 1..Len(queue) /\ Len(queue) \in Nat
        /\ \A i \in DOMAIN queue : queue[i] \in Job
    BY <1>1 DEF RequestsOwnJobs
  <2>3. /\ \A i \in DOMAIN queue : queue[i].for # r /\ Owned(queue[i], requests')
        /\ worker # None => worker.for # r /\ Owned(worker, requests')
    BY <1>1, <2>1, <2>2, RequestersAreNamed DEF RequestsOwnJobs, Owned
  <2>4. CASE ~ HasRoom
    BY <1>1, <2>3, <2>4 DEF Start, RequestsOwnJobs
  <2>5. CASE HasRoom
    <3>1. job \in Job /\ job.for = r /\ job.call = c
      BY DEF Job
    <3>2. queue' = Append(queue, job) /\ worker' = worker
      BY <2>5 DEF Start
    <3> HIDE DEF job
    <3>3. /\ queue' \in Seq(Job) /\ DOMAIN queue' = 1..(Len(queue) + 1)
          /\ \A i \in 1..Len(queue) : queue'[i] = queue[i]
          /\ queue'[Len(queue) + 1] = job
      BY <2>2, <3>1, <3>2
    <3>4. Owned(job, requests')
      BY <1>2, <1>3, <2>5, <3>1 DEF Owned
    <3>5. \A i \in DOMAIN queue' :
             \/ i \in DOMAIN queue /\ queue'[i] = queue[i] /\ queue'[i].for # r
             \/ i = Len(queue) + 1 /\ queue'[i] = job
      BY <2>2, <2>3, <3>3
    <3>6. \A i \in DOMAIN queue' : Owned(queue'[i], requests')
      BY <2>3, <3>4, <3>5
    <3>7. \A i \in DOMAIN queue' : \A j \in DOMAIN queue' :
             queue'[i].for # None /\ queue'[i].for = queue'[j].for => i = j
      BY <1>1, <3>1, <3>5 DEF RequestsOwnJobs
    <3>8. \A i \in DOMAIN queue' : worker' # None /\ worker'.for # None => queue'[i].for # worker'.for
      BY <1>1, <2>3, <3>1, <3>2, <3>5 DEF RequestsOwnJobs
    <3>9. worker' # None => worker' \in Job /\ Owned(worker', requests')
      BY <1>1, <2>3, <3>2 DEF RequestsOwnJobs
    <3>. QED  BY <3>3, <3>6, <3>7, <3>8, <3>9 DEF RequestsOwnJobs
  <2>. QED  BY <2>4, <2>5
<1>8. UNCHANGED <<config, session>>
  BY DEF Start
<1>. QED  BY <1>1, <1>2, <1>6, <1>7, <1>8, RequestStep

LEMMA ProviderAnswersKept ==
    ASSUME AdmissionInv, NEW vector \in Vectors \cup {None}, ProviderAnswers(vector)
    PROVE  AdmissionInv'
<1>1. /\ DOMAIN requests = Requesters /\ IsSession(session) /\ RequestsOwnJobs(queue, worker, requests)
      /\ worker # None /\ worker' = None /\ queue' = queue /\ UNCHANGED <<config, session>>
  BY DEF AdmissionInv, ProviderAnswers
<1>2. worker \in Job /\ Owned(worker, requests)
  BY <1>1 DEF RequestsOwnJobs
<1>3. CASE ~ (worker.for # None /\ requests[worker.for].pc = "waiting")
  <2>1. requests' = requests
    BY <1>3, Zenon DEF ProviderAnswers
  <2>2. RequestsOwnJobs(queue', worker', requests')
    BY <1>1, <2>1 DEF RequestsOwnJobs
  <2>. QED  BY <1>1, <2>1, <2>2 DEF AdmissionInv
<1>4. CASE worker.for # None /\ requests[worker.for].pc = "waiting"
  <2> DEFINE r == worker.for
             q == requests[r]
             receipt == IF vector = None THEN Receipt(worker.call, "Unavailable", None)
                        ELSE Receipt(worker.call, "Assessed", vector)
  <2>1. r \in Requesters /\ q.pc = "waiting" /\ q.call = worker.call
    BY <1>2, <1>4 DEF Job, Owned
  <2>2. RequestKept(q, session.semantic, config.authorized)
    BY <2>1 DEF AdmissionInv
  <2>3. requests' = [requests EXCEPT ![r].pc = "decide", ![r].receipt = receipt]
    BY <1>4, Zenon DEF ProviderAnswers
  <2> HIDE DEF receipt, r
  <2>4. requests'[r] = [q EXCEPT !.pc = "decide", !.receipt = receipt] /\ OnlyChanges(r)
    BY <1>1, <2>1, <2>3 DEF OnlyChanges
  <2>5. /\ IsRequest(requests'[r]) /\ requests'[r].pc = "decide" /\ requests'[r].receipt = receipt
        /\ requests'[r].call = q.call /\ requests'[r].kind = q.kind /\ requests'[r].seen = q.seen
    BY <2>2, <2>4 DEF RequestKept, IsRequest
  <2>6. receipt.vector = vector /\ receipt.tool = q.call
    BY <2>1 DEF receipt, Receipt
  <2> HIDE DEF q
  <2>7. RequestKept(requests'[r], session.semantic, config.authorized)
    BY <2>1, <2>2, <2>5, <2>6 DEF RequestKept
  <2>8. \A i \in DOMAIN queue : queue[i].for # r
    BY <1>1, <1>4 DEF RequestsOwnJobs, r
  <2>9. \A i \in DOMAIN queue : queue[i] \in Job /\ Owned(queue[i], requests)
    BY <1>1 DEF RequestsOwnJobs
  <2>10. \A i \in DOMAIN queue : Owned(queue[i], requests')
    BY <2>4, <2>8, <2>9 DEF Owned, OnlyChanges, Job
  <2>11. RequestsOwnJobs(queue', worker', requests')
    BY <1>1, <2>10 DEF RequestsOwnJobs
  <2>. QED  BY <1>1, <2>1, <2>4, <2>7, <2>11, RequestStep
<1>. QED  BY <1>3, <1>4

\* A request that does not wait, and that a step of the handlers changes.
LEMMA HandlerStep ==
    ASSUME AdmissionInv, NEW r \in Requesters, requests[r].pc \notin {"idle", "waiting"}, OnlyChanges(r),
           RequestKept(requests'[r], session.semantic, config.authorized),
           UNCHANGED <<config, worker>>, KeepsPolicy(session', session),
           queue' \in {queue, QueueAfter(r)}
    PROVE  AdmissionInv'
<1> DEFINE c == requests[r].call
<1>1. c \in CallNames
  BY DEF AdmissionInv, RequestKept
<1>2. queue' \in {queue, Append(queue, [for |-> None, call |-> c])}
  BY DEF QueueAfter
<1> HIDE DEF c
<1>3. RequestsOwnJobs(queue', worker', requests')
  BY <1>1, <1>2, JobsStay
<1>. QED  BY <1>3, RequestStep DEF KeepsPolicy

LEMMA DeliveredKept ==
    ASSUME AdmissionInv, NEW r \in Requesters, Delivered(r)
    PROVE  AdmissionInv'
<1>1. requests'[r] = Idle /\ OnlyChanges(r) /\ IsSession(session)
  BY DEF AdmissionInv, Delivered, OnlyChanges
<1>2. RequestKept(requests'[r], session.semantic, config.authorized)
  BY <1>1, IdleKept
<1>. QED  BY <1>1, <1>2, HandlerStep DEF Delivered, KeepsPolicy

LEMMA UpstreamReturnsKept ==
    ASSUME AdmissionInv, NEW r \in Requesters, NEW ok, UpstreamReturns(r, ok)
    PROVE  AdmissionInv'
<1> DEFINE path == Calls[requests[r].call].path
           edited == [session EXCEPT !.edited = @ \cup {path}]
<1>1. requests'[r] = Idle /\ OnlyChanges(r) /\ IsSession(session)
  BY DEF AdmissionInv, UpstreamReturns, OnlyChanges
<1>2. RequestKept(requests'[r], session.semantic, config.authorized)
  BY <1>1, IdleKept
<1>3. KeepsPolicy(edited, session)
  BY <1>1, EditKeeps
<1>4. \E noted \in {edited, session} :
         session' = noted \/ \E target, ctx : session' = update_state(noted, target, ctx)
  BY Zenon DEF UpstreamReturns
<1> HIDE DEF edited
<1>5. KeepsPolicy(session', session)
  BY <1>1, <1>3, <1>4, MoveKeeps DEF KeepsPolicy
<1>. QED  BY <1>1, <1>2, <1>5, HandlerStep DEF UpstreamReturns

\* What answering a request makes of it.
LEMMA Answered ==
    ASSUME AdmissionInv, NEW r \in Requesters, NEW allowed \in BOOLEAN, NEW state, Answer(r, allowed, state)
    PROVE  LET q == requests[r]
               new == requests'[r]
           IN  /\ OnlyChanges(r) /\ IsRequest(new)
               /\ new.pc = IF allowed THEN "allowed" ELSE "denied"
               /\ new.to = state /\ new.kind = q.kind /\ new.call = q.call /\ new.receipt = q.receipt
<1> DEFINE q == requests[r]
           pc == IF allowed THEN "allowed" ELSE "denied"
<1>1. DOMAIN requests = Requesters /\ IsRequest(q)
  BY DEF AdmissionInv, RequestKept
<1>2. requests' = [requests EXCEPT ![r] = [q EXCEPT !.pc = pc, !.to = state, !.seen = None]]
  BY <1>1 DEF Answer
<1> HIDE DEF pc
<1>3. requests'[r] = [q EXCEPT !.pc = pc, !.to = state, !.seen = None] /\ OnlyChanges(r)
  BY <1>1, <1>2 DEF OnlyChanges
<1>4. /\ IsRequest(requests'[r]) /\ requests'[r].pc = pc /\ requests'[r].to = state
      /\ requests'[r].kind = q.kind /\ requests'[r].call = q.call /\ requests'[r].receipt = q.receipt
  BY <1>1, <1>3 DEF IsRequest
<1>. QED  BY <1>3, <1>4 DEF pc

\* The state of `new` grants what request q does, if the calls and states
\* are sound; of `new`, only the state and the provider's answer count.
GrantFor(q, state, semantic, authorized) ==
    SoundCatalogue /\ semantic =>
        \A new : new.to = state /\ new.receipt.vector = q.receipt.vector
                    => Granted(new, Calls[q.call], authorized)

LEMMA AnswerKept ==
    ASSUME AdmissionInv, NEW r \in Requesters, requests[r].pc \notin {"idle", "waiting"},
           NEW allowed \in BOOLEAN, NEW state, Answer(r, allowed, state),
           UNCHANGED <<config, session, worker>>, queue' \in {queue, QueueAfter(r)},
           allowed => GrantFor(requests[r], state, session.semantic, config.authorized)
    PROVE  AdmissionInv'
<1> DEFINE q == requests[r]
           new == requests'[r]
<1>1. RequestKept(q, session.semantic, config.authorized) /\ IsSession(session)
  BY DEF AdmissionInv
<1>2. /\ OnlyChanges(r) /\ IsRequest(new)
      /\ new.pc = IF allowed THEN "allowed" ELSE "denied"
      /\ new.to = state /\ new.kind = q.kind /\ new.call = q.call /\ new.receipt = q.receipt
  BY Answered
<1>3. SoundCatalogue /\ session.semantic /\ new.pc \in {"moving", "moved", "allowed", "upstream"}
        => Granted(new, Calls[new.call], config.authorized)
  BY <1>2 DEF GrantFor
<1> HIDE DEF q, new
<1>4. RequestKept(new, session.semantic, config.authorized)
  BY <1>1, <1>2, <1>3 DEF RequestKept, q
<1>. QED  BY <1>1, <1>2, <1>4, HandlerStep DEF KeepsPolicy, new

LEMMA PreToolMovesKept ==
    ASSUME AdmissionInv, NEW r \in Requesters, PreToolMoves(r)
    PROVE  AdmissionInv'
<1> DEFINE q == requests[r]
           new == requests'[r]
<1>1. RequestKept(q, session.semantic, config.authorized) /\ IsSession(session) /\ DOMAIN requests = Requesters
      /\ q.pc = "moving"
  BY DEF AdmissionInv, PreToolMoves
<1>2. new = [q EXCEPT !.pc = "moved"] /\ OnlyChanges(r)
  BY <1>1 DEF PreToolMoves, OnlyChanges
<1>3. /\ IsRequest(new) /\ new.pc = "moved" /\ new.to = q.to /\ new.kind = q.kind /\ new.call = q.call
      /\ new.receipt = q.receipt
  BY <1>1, <1>2 DEF RequestKept, IsRequest
<1> HIDE DEF q, new
<1>4. \A call : Granted(q, call, config.authorized) => Granted(new, call, config.authorized)
  BY <1>3 DEF Granted
<1>5. RequestKept(new, session.semantic, config.authorized)
  BY <1>1, <1>3, <1>4 DEF RequestKept
<1>6. KeepsPolicy(session', session)
  BY <1>1, MoveKeeps DEF PreToolMoves
<1>7. q.pc \notin {"idle", "waiting"}
  BY <1>1
<1>. QED  BY <1>2, <1>5, <1>6, <1>7, HandlerStep DEF PreToolMoves, q, new

LEMMA PreToolFinishesKept ==
    ASSUME AdmissionInv, NEW r \in Requesters, PreToolFinishes(r)
    PROVE  AdmissionInv'
<1> DEFINE q == requests[r]
           passes == FinalChecks(session, CallBy(r), EffectOf(r))
           allowed == passes = TRUE
<1>1. RequestKept(q, session.semantic, config.authorized) /\ q.pc = "moved"
  BY DEF AdmissionInv, PreToolFinishes
<1>2. passes \in BOOLEAN
  BY DEF FinalChecks
<1>3. Answer(r, passes, q.to)
  BY DEF PreToolFinishes
<1>4. GrantFor(q, q.to, session.semantic, config.authorized)
  <2>1. SoundCatalogue /\ session.semantic => Granted(q, Calls[q.call], config.authorized)
    BY <1>1 DEF RequestKept
  <2>2. ASSUME NEW new, new.to = q.to, new.receipt.vector = q.receipt.vector, NEW call,
               Granted(q, call, config.authorized)
        PROVE  Granted(new, call, config.authorized)
    BY <2>2 DEF Granted
  <2>. QED  BY <2>1, <2>2 DEF GrantFor
<1> HIDE DEF passes
<1>6. UNCHANGED <<config, session, worker>> /\ queue' = queue /\ requests[r].pc \notin {"idle", "waiting"}
  BY DEF PreToolFinishes
<1>. QED  BY <1>2, <1>3, <1>4, <1>6, AnswerKept

\* A decision that starts an implicit transition, or hands the call to its
\* server.
LEMMA GrantedKept ==
    ASSUME AdmissionInv, NEW r \in Requesters, requests[r].pc = "decide",
           NEW new, requests' = [requests EXCEPT ![r] = new], IsRequest(new),
           new.call = requests[r].call, new.kind = requests[r].kind, new.receipt = requests[r].receipt,
           \/ new.pc = "moving" /\ new.kind = "pre"
           \/ new.pc = "upstream" /\ new.kind = "call",
           GrantFor(requests[r], new.to, session.semantic, config.authorized),
           UNCHANGED <<config, worker>>, KeepsPolicy(session', session), queue' \in {queue, QueueAfter(r)}
    PROVE  AdmissionInv'
<1> DEFINE q == requests[r]
<1>1. RequestKept(q, session.semantic, config.authorized) /\ DOMAIN requests = Requesters
  BY DEF AdmissionInv
<1>2. requests'[r] = new /\ OnlyChanges(r)
  BY <1>1 DEF OnlyChanges
<1>3. SoundCatalogue /\ session.semantic => Granted(new, Calls[new.call], config.authorized)
  BY DEF GrantFor
<1> HIDE DEF q
<1>4. q.pc = "decide" /\ new.call = q.call /\ new.kind = q.kind /\ new.receipt = q.receipt
  BY DEF q
<1>5. RequestKept(new, session.semantic, config.authorized)
  BY <1>1, <1>3, <1>4 DEF RequestKept
<1>. QED  BY <1>2, <1>5, HandlerStep

LEMMA PreToolDecidesKept ==
    ASSUME AdmissionInv, NEW r \in Requesters, PreToolDecides(r)
    PROVE  AdmissionInv'
<1> DEFINE q == requests[r]
           call == CallBy(r)
           effect == EffectOf(r)
           refused == PreToolRefused(r, session, call, effect)
           passes == FinalChecks(session, call, effect)
           name == PolicyName(session, call, effect)
           to(d) == [session EXCEPT !.state = d.to]
           moving(d) == [requests EXCEPT ![r].pc = "moving", ![r].seen = session, ![r].to = d.to]
<1>1. /\ q.pc = "decide" /\ q.kind = "pre" /\ UNCHANGED <<config, session, worker>>
      /\ queue' \in {queue, QueueAfter(r)} /\ requests[r].pc \notin {"idle", "waiting"}
  BY DEF PreToolDecides
<1>2. RequestKept(q, session.semantic, config.authorized) /\ IsSession(session) /\ call = Calls[q.call]
      /\ q.call \in CallNames
  BY <1>1 DEF AdmissionInv, RequestKept, CallBy
<1>3. SoundCatalogue => EffectOK(effect, q.receipt.vector, config.authorized, call.does)
  BY <1>1, <1>2, EffectKept
<1>4. IF refused THEN Answer(r, FALSE, session.state)
      ELSE \E d \in enforce_tool_call(session, name) :
             \/ d.kind = "block" /\ Answer(r, FALSE, session.state)
             \/ /\ d.kind \in {"allow", "checkpoint"}
                /\ Answer(r, passes, session.state)
             \/ /\ d.kind = "implicit"
                /\ IF semantic_effect_capability_denial(to(d), effect)
                   THEN Answer(r, FALSE, session.state)
                   ELSE requests' = moving(d)
  BY DEF PreToolDecides
<1>5. ~ refused => ~ semantic_effect_risk_denial(session, effect)
  BY DEF PreToolRefused
<1>6. passes \in BOOLEAN
  BY DEF FinalChecks
<1> HIDE DEF call, effect
<1>7. ~ refused /\ SoundCatalogue /\ session.semantic =>
          Accepted(session, call, effect, q.receipt.vector, config.authorized)
  BY <1>2, <1>3, <1>5 DEF Accepted
<1>8. ASSUME Answer(r, FALSE, session.state) PROVE AdmissionInv'
  BY <1>1, <1>8, AnswerKept
<1>9. ASSUME ~ refused, NEW d \in enforce_tool_call(session, name), d.kind \in {"allow", "checkpoint"},
             Answer(r, passes, session.state)
      PROVE  AdmissionInv'
  <2>1. SUFFICES ASSUME passes, SoundCatalogue, session.semantic,
                        NEW new, new.to = session.state, new.receipt.vector = q.receipt.vector
                 PROVE  Granted(new, call, config.authorized)
    <3>1. passes => GrantFor(q, session.state, session.semantic, config.authorized)
      BY <1>2, <2>1 DEF GrantFor
    <3> HIDE DEF passes
    <3>. QED  BY <1>1, <1>5, <1>6, <1>9, <3>1, AnswerKept
  <2>2. call.info = None /\ native_tool_family(call.tool) = "Read" => call.does \subseteq {"unknown"}
    BY <1>2, <2>1 DEF SoundCatalogue, ReadersRead
  <2>. QED  BY <1>7, <1>9, <2>1, <2>2, PreToolGranted
<1>10. ASSUME ~ refused, NEW d \in enforce_tool_call(session, name), d.kind = "implicit",
              ~ semantic_effect_capability_denial(to(d), effect), requests' = moving(d)
       PROVE  AdmissionInv'
  <2> DEFINE new == [q EXCEPT !.pc = "moving", !.seen = session, !.to = d.to]
  <2>1. requests' = [requests EXCEPT ![r] = new]
    BY <1>2, <1>10 DEF RequestKept, AdmissionInv
  <2>2. /\ IsRequest(new) /\ new.pc = "moving" /\ new.kind = "pre" /\ new.to = d.to /\ new.call = q.call
        /\ new.receipt = q.receipt
    BY <1>1, <1>2 DEF RequestKept, IsRequest
  <2> HIDE DEF new
  <2>3. GrantFor(q, d.to, session.semantic, config.authorized)
    <3>1. SUFFICES ASSUME SoundCatalogue, session.semantic,
                          NEW x, x.to = d.to, x.receipt.vector = q.receipt.vector
                   PROVE  Granted(x, call, config.authorized)
      BY <1>2 DEF GrantFor
    <3>. QED  BY <1>7, <1>10, <3>1, ImplicitGranted DEF SoundCatalogue
  <2>4. KeepsPolicy(session', session)
    BY <1>1, <1>2 DEF KeepsPolicy
  <2>. QED  BY <1>1, <2>1, <2>2, <2>3, <2>4, GrantedKept
<1> HIDE DEF refused, passes, name, to, moving
<1>. QED  BY <1>4, <1>8, <1>9, <1>10

\* A server's call is sent on in a state that grants it.
LEMMA SentIsGranted ==
    ASSUME SoundCatalogue, NEW s, NEW call, NEW e, NEW vector, NEW authorized,
           Accepted(s, call, e, vector, authorized), ~ CallRefused(s, call, e),
           NEW name, NEW d \in enforce_tool_call(s, name), d.kind # "block",
           NEW to, to = IF d.kind = "implicit" THEN [s EXCEPT !.state = d.to] ELSE s,
           ~ semantic_effect_capability_denial(to, e),
           d.kind = "allow" => ~ pre_call_check_blocks(s, call, e),
           NEW q, q.to = to.state, q.receipt.vector = vector
    PROVE  Granted(q, call, authorized)
<1>1. d.kind \in {"allow", "checkpoint", "implicit"}
  BY DEF enforce_tool_call
<1>2. CASE d.kind = "implicit"
  <2>1. to = [s EXCEPT !.state = d.to] /\ to.state = d.to
    BY <1>2 DEF Accepted, IsSession
  <2>2. ~ semantic_effect_capability_denial([s EXCEPT !.state = d.to], e)
    BY <2>1
  <2>. QED  BY <1>2, <2>1, <2>2, ImplicitGranted DEF SoundCatalogue
<1>3. CASE d.kind \in {"allow", "checkpoint"}
  <2>1. to = s
    BY <1>3
  <2>2. PermittedIn(s, name) /\ (d.kind = "checkpoint" => is_checkpoint(s))
    BY <1>3, AllowedIsPermitted
  <2>3. pre_call_check_blocks(s, call, e) => is_checkpoint(s)
    BY <1>3, <2>2
  <2>4. StateDef(s).exploratory /\ is_checkpoint(s) => StateDef(s).tools # None \/ denied(s, "Write")
    BY <2>2 DEF SoundCatalogue, CheckpointsListTools, PermittedIn, is_checkpoint, StateDef, denied
  <2>. QED  BY <2>1, <2>3, <2>4, CallGranted
<1>. QED  BY <1>1, <1>2, <1>3

LEMMA ToolsCallDecidesKept ==
    ASSUME AdmissionInv, NEW r \in Requesters, ToolsCallDecides(r)
    PROVE  AdmissionInv'
<1> DEFINE q == requests[r]
           s == q.seen
           call == Calls[q.call]
           effect == EffectOf(r)
           refused == CallRefused(s, call, effect)
           name == IF StateDef(s).exploratory THEN exploratory_policy_tool(call) ELSE call.tool
           to(d) == IF d.kind = "implicit" THEN [s EXCEPT !.state = d.to] ELSE s
           stops(d) == \/ d.kind = "block"
                       \/ semantic_effect_capability_denial(to(d), effect)
                       \/ d.kind = "allow" /\ pre_call_check_blocks(s, call, effect)
           moved(d) == IF d.kind = "implicit" THEN update_state(session, d.to, s.ctx) ELSE session
<1>1. /\ q.pc = "decide" /\ q.kind = "call" /\ UNCHANGED <<config, worker>>
      /\ queue' \in {queue, QueueAfter(r)} /\ requests[r].pc \notin {"idle", "waiting"}
  BY DEF ToolsCallDecides
<1>2. RequestKept(q, session.semantic, config.authorized) /\ IsSession(session) /\ IsSession(s)
      /\ s.semantic = session.semantic
  BY <1>1 DEF AdmissionInv, RequestKept
<1>3. SoundCatalogue => EffectOK(effect, q.receipt.vector, config.authorized, call.does)
  BY <1>1, EffectKept
<1>4. IF refused THEN Answer(r, FALSE, s.state) /\ UNCHANGED session
      ELSE \E d \in enforce_tool_call(s, name) :
             IF stops(d) THEN Answer(r, FALSE, s.state) /\ UNCHANGED session
             ELSE SendUpstream(r, to(d), d.kind = "allow") /\ session' = Counted(moved(d))
  BY DEF ToolsCallDecides
<1>5. ~ refused => ~ semantic_effect_risk_denial(s, effect)
  BY DEF CallRefused
<1> HIDE DEF call, effect
<1>6. ~ refused /\ SoundCatalogue /\ session.semantic =>
          Accepted(s, call, effect, q.receipt.vector, config.authorized)
  BY <1>2, <1>3, <1>5 DEF Accepted
<1>7. ASSUME Answer(r, FALSE, s.state), UNCHANGED session PROVE AdmissionInv'
  BY <1>1, <1>7, AnswerKept
<1>8. ASSUME ~ refused, NEW d \in enforce_tool_call(s, name), ~ stops(d),
             SendUpstream(r, to(d), d.kind = "allow"), session' = Counted(moved(d))
      PROVE  AdmissionInv'
  <2> DEFINE annotate == d.kind = "allow"
             state == to(d).state
             new == [q EXCEPT !.pc = "upstream", !.annotate = annotate, !.to = state]
  <2>1. requests' = [requests EXCEPT ![r] = new]
    <3>1. SendUpstream(r, to(d), annotate)
      BY <1>8
    <3> HIDE DEF to, annotate, name, stops, moved
    <3>. QED  BY <1>2, <3>1 DEF SendUpstream, AdmissionInv, RequestKept
  <2> HIDE DEF annotate, state
  <2>2. /\ IsRequest(new) /\ new.pc = "upstream" /\ new.kind = "call" /\ new.to = state /\ new.call = q.call
        /\ new.receipt = q.receipt
    BY <1>1, <1>2 DEF RequestKept, IsRequest
  <2> HIDE DEF new
  <2>3. GrantFor(q, state, session.semantic, config.authorized)
    <3>1. SUFFICES ASSUME SoundCatalogue, session.semantic,
                          NEW x, x.to = state, x.receipt.vector = q.receipt.vector
                   PROVE  Granted(x, call, config.authorized)
      BY DEF GrantFor, call
    <3>2. d.kind # "block" /\ ~ semantic_effect_capability_denial(to(d), effect)
          /\ (d.kind = "allow" => ~ pre_call_check_blocks(s, call, effect)) /\ x.to = to(d).state
      BY <1>8, <3>1 DEF state
    <3>3. ~ CallRefused(s, call, effect) /\ to(d) = IF d.kind = "implicit" THEN [s EXCEPT !.state = d.to] ELSE s
      BY <1>8
    <3>4. Accepted(s, call, effect, q.receipt.vector, config.authorized)
      BY <1>6, <1>8, <3>1
    <3> HIDE DEF to, name, stops, moved, refused, s
    <3>. QED  BY <3>1, <3>2, <3>3, <3>4, SentIsGranted
  <2>4. KeepsPolicy(session', session)
    <3>1. KeepsPolicy(moved(d), session)
      BY <1>2, MoveKeeps DEF KeepsPolicy
    <3> HIDE DEF moved
    <3>. QED  BY <1>8, <3>1, CountKeeps DEF KeepsPolicy
  <2>. QED  BY <1>1, <2>1, <2>2, <2>3, <2>4, GrantedKept
<1> HIDE DEF refused, name, to, stops, moved, s
<1>. QED  BY <1>4, <1>7, <1>8

LEMMA StepKept ==
    ASSUME AdmissionInv, [AdmissionNext]_admissionVars
    PROVE  AdmissionInv'
<1>1. ASSUME NEW r \in Requesters, Step(r) PROVE AdmissionInv'
  BY <1>1, SemanticTimeoutKept, PreToolDecidesKept, PreToolMovesKept, PreToolFinishesKept,
     ToolsCallDecidesKept, DeliveredKept DEF Step
<1>2. GW \in Requesters
  BY DEF Requesters
<1>3. CASE UNCHANGED admissionVars
  BY <1>3 DEF AdmissionInv, admissionVars
<1>. QED  BY <1>1, <1>2, <1>3, StartKept, WorkerTakesKept, ProviderAnswersKept, UpstreamReturnsKept,
             AdapterPostKept, HookPostKept, TransitionKept, DecideKept DEF AdmissionNext

LEMMA AdmissionInvariant == AdmissionSpec => []AdmissionInv
<1>1. AdmissionInit => AdmissionInv
  BY InitKept
<1>2. AdmissionInv /\ [AdmissionNext]_admissionVars => AdmissionInv'
  BY StepKept
<1>. QED  BY <1>1, <1>2, PTL DEF AdmissionSpec

-----------------------------------------------------------------------------
(* Approvals that are parked while requests wait.                          *)

\* A pre-tool request that is still to be decided, or denied.
InTime(q) == q.kind = "pre" /\ q.pc \in {"waiting", "decide", "denied"}

\* An approval a request has met is still pending, and the request has not
\* got past it.
ParkedInv ==
    /\ DOMAIN parked = Requesters
    /\ \A r \in Requesters : parked[r] # "no" => session.pending # << >> /\ InTime(requests[r])

\* What replaces the session leaves its approval alone.
SamePending(new, s) == IsSession(new) /\ new.pending = s.pending

LEMMA MoveLeavesApproval ==
    ASSUME NEW s, IsSession(s), NEW state, NEW ctx
    PROVE  SamePending(update_state(s, state, ctx), s)
  BY DEF IsSession, update_state, SamePending

LEMMA CountLeavesApproval ==
    ASSUME NEW s, IsSession(s)
    PROVE  SamePending(Counted(s), s)
  BY DEF IsSession, Counted, SamePending

LEMMA EditLeavesApproval ==
    ASSUME NEW s, IsSession(s), NEW path
    PROVE  SamePending([s EXCEPT !.edited = @ \cup {path}], s)
  BY DEF IsSession, SamePending

\* A step that changes one request, at most: what it becomes decides.
LEMMA ParkedRequest ==
    ASSUME ParkedInv, NEW r \in Requesters, OnlyChanges(r), UNCHANGED parked,
           SamePending(session', session),
           parked[r] # "no" => InTime(requests'[r])
    PROVE  ParkedInv'
<1>1. \A x \in Requesters : parked[x] # "no" => InTime(requests'[x])
  BY DEF ParkedInv, OnlyChanges
<1>2. \A x \in Requesters : InTime(requests[x])' = InTime(requests'[x])
  BY DEF InTime
<1>. QED  BY <1>1, <1>2 DEF ParkedInv, SamePending

\* A step of the session alone.
LEMMA ParkedSession ==
    ASSUME ParkedInv, UNCHANGED <<requests, parked>>, SamePending(session', session)
    PROVE  ParkedInv'
  BY DEF ParkedInv, SamePending, InTime

LEMMA ParkedAtStart ==
    ASSUME AdmissionInv, ParkedInv, NEW r \in Requesters,
           NEW c \in CallNames, NEW kind \in {"pre", "call"}, Start(r, kind, c)
    PROVE  ParkedInv'
<1> DEFINE q == [Idle EXCEPT !.pc = IF HasRoom THEN "waiting" ELSE "decide", !.kind = kind, !.call = c,
                             !.seen = IF kind = "call" THEN session ELSE None,
                             !.receipt = IF HasRoom THEN NoReceipt ELSE Receipt(c, "QueueFull", None)]
<1>1. /\ DOMAIN requests = Requesters /\ UNCHANGED session
      /\ requests' = [requests EXCEPT ![r] = q]
      /\ parked' = [parked EXCEPT ![r] = IF kind = "pre" /\ session.pending # << >> THEN "found" ELSE "no"]
  BY DEF AdmissionInv, Start
<1>2. q.pc \in {"waiting", "decide"} /\ q.kind = kind
  BY DEF Idle
<1> HIDE DEF q
<1>. QED  BY <1>1, <1>2 DEF ParkedInv, InTime

\* The decision sees the approval, whenever it was parked.
LEMMA ParkedAtDecision ==
    ASSUME AdmissionInv, ParkedInv, NEW r \in Requesters, PreToolDecides(r)
    PROVE  ParkedInv'
<1>1. DOMAIN requests = Requesters /\ UNCHANGED <<session, parked>> /\ IsSession(session)
  BY DEF AdmissionInv, PreToolDecides
<1>2. OnlyChanges(r)
  <2> DEFINE effect == EffectOf(r)
             call == CallBy(r)
             passes == FinalChecks(session, call, effect)
  <2>1. \/ Answer(r, FALSE, session.state) \/ Answer(r, passes, session.state)
        \/ \E to : requests' = [requests EXCEPT ![r].pc = "moving", ![r].seen = session, ![r].to = to]
    BY Zenon DEF PreToolDecides
  <2> HIDE DEF passes
  <2>. QED  BY <1>1, <2>1 DEF OnlyChanges, Answer
<1>3. session.pending # << >> => Answer(r, FALSE, session.state)
  BY DEF PreToolDecides, PreToolRefused
<1>4. session.pending # << >> => requests'[r].pc = "denied" /\ requests'[r].kind = requests[r].kind
  BY <1>3, Answered
<1>5. parked[r] # "no" => InTime(requests'[r])
  BY <1>4 DEF ParkedInv, InTime
<1>. QED  BY <1>1, <1>2, <1>5, ParkedRequest DEF SamePending

\* The steps of a request that is past it, or whose answer is there.
LEMMA ParkedBehind ==
    ASSUME AdmissionInv, ParkedInv, NEW r \in Requesters,
           PreToolMoves(r) \/ PreToolFinishes(r) \/ ToolsCallDecides(r)
    PROVE  ParkedInv'
<1>1. DOMAIN requests = Requesters /\ IsSession(session) /\ UNCHANGED parked
  BY DEF AdmissionInv, PreToolMoves, PreToolFinishes, ToolsCallDecides
<1>2. parked[r] = "no"
  BY DEF ParkedInv, InTime, PreToolMoves, PreToolFinishes, ToolsCallDecides
<1>3. OnlyChanges(r)
  BY <1>1 DEF OnlyChanges, PreToolMoves, PreToolFinishes, ToolsCallDecides, Answer, SendUpstream
<1>4. SamePending(session', session)
  <2>1. CASE PreToolMoves(r)
    BY <1>1, <2>1, MoveLeavesApproval DEF PreToolMoves
  <2>2. CASE PreToolFinishes(r)
    BY <1>1, <2>2 DEF PreToolFinishes, SamePending
  <2>3. CASE ToolsCallDecides(r)
    <3>1. \/ session' = session \/ session' = Counted(session)
          \/ \E state, ctx : session' = Counted(update_state(session, state, ctx))
      BY <2>3 DEF ToolsCallDecides
    <3>. QED  BY <1>1, <3>1, MoveLeavesApproval, CountLeavesApproval DEF SamePending
  <2>. QED  BY <2>1, <2>2, <2>3
<1>. QED  BY <1>1, <1>2, <1>3, <1>4, ParkedRequest

LEMMA ParkedDelivered ==
    ASSUME AdmissionInv, ParkedInv, NEW r \in Requesters, Delivered(r)
    PROVE  ParkedInv'
<1>1. /\ DOMAIN requests = Requesters /\ UNCHANGED session
      /\ requests' = [requests EXCEPT ![r] = Idle] /\ parked' = [parked EXCEPT ![r] = "no"]
  BY DEF AdmissionInv, Delivered
<1>. QED  BY <1>1 DEF ParkedInv, InTime

\* While a request waits, it goes on waiting for the decision.
LEMMA ParkedTimeout ==
    ASSUME AdmissionInv, ParkedInv, NEW r \in Requesters, SemanticTimeout(r)
    PROVE  ParkedInv'
<1>1. /\ DOMAIN requests = Requesters /\ IsSession(session) /\ UNCHANGED <<session, parked>>
      /\ IsRequest(requests[r])
  BY DEF AdmissionInv, SemanticTimeout, RequestKept
<1>2. OnlyChanges(r) /\ requests'[r].pc = "decide" /\ requests'[r].kind = requests[r].kind
  BY <1>1 DEF SemanticTimeout, OnlyChanges, IsRequest
<1>. QED  BY <1>1, <1>2, ParkedRequest DEF SamePending, ParkedInv, InTime

LEMMA ParkedProvider ==
    ASSUME AdmissionInv, ParkedInv, NEW vector, ProviderAnswers(vector)
    PROVE  ParkedInv'
<1>1. /\ DOMAIN requests = Requesters /\ IsSession(session) /\ UNCHANGED <<session, parked>>
      /\ \A r \in Requesters : IsRequest(requests[r])
  BY DEF AdmissionInv, ProviderAnswers, RequestKept
<1>2. CASE UNCHANGED requests
  BY <1>1, <1>2, ParkedSession DEF SamePending
<1>3. CASE worker.for # None /\ requests[worker.for].pc = "waiting"
  <2> DEFINE r == worker.for
             receipt == IF vector = None THEN Receipt(worker.call, "Unavailable", None)
                        ELSE Receipt(worker.call, "Assessed", vector)
  <2>1. r \in Requesters
    BY <1>3 DEF AdmissionInv, RequestsOwnJobs, Job, ProviderAnswers
  <2>2. requests' = [requests EXCEPT ![r].pc = "decide", ![r].receipt = receipt]
    BY <1>3, Zenon DEF ProviderAnswers
  <2> HIDE DEF r, receipt
  <2>3. OnlyChanges(r) /\ requests'[r].pc = "decide" /\ requests'[r].kind = requests[r].kind
    BY <1>1, <2>1, <2>2 DEF OnlyChanges, IsRequest
  <2>. QED  BY <1>1, <2>1, <2>3, ParkedRequest DEF SamePending, ParkedInv, InTime
<1>. QED  BY <1>2, <1>3, Zenon DEF ProviderAnswers

LEMMA ParkedReturns ==
    ASSUME AdmissionInv, ParkedInv, NEW r \in Requesters, NEW ok, UpstreamReturns(r, ok)
    PROVE  ParkedInv'
<1> DEFINE path == Calls[requests[r].call].path
           edited == [session EXCEPT !.edited = @ \cup {path}]
<1>1. /\ IsSession(session) /\ OnlyChanges(r) /\ UNCHANGED parked /\ requests[r].pc = "upstream"
  BY DEF AdmissionInv, UpstreamReturns, OnlyChanges
<1>2. parked[r] = "no"
  BY <1>1 DEF ParkedInv, InTime
<1>3. SamePending(edited, session)
  BY <1>1, EditLeavesApproval
<1>4. \E noted \in {edited, session} :
         session' = noted \/ \E target, ctx : session' = update_state(noted, target, ctx)
  BY Zenon DEF UpstreamReturns
<1> HIDE DEF edited
<1>5. SamePending(session', session)
  BY <1>1, <1>3, <1>4, MoveLeavesApproval DEF SamePending
<1>. QED  BY <1>1, <1>2, <1>5, ParkedRequest

LEMMA ParkedPost ==
    ASSUME AdmissionInv, ParkedInv, HookPost \/ \E path : AdapterPost(path)
    PROVE  ParkedInv'
<1>1. IsSession(session)
  BY DEF AdmissionInv
<1>2. CASE HookPost
  BY <1>1, <1>2, CountLeavesApproval, ParkedSession DEF HookPost
<1>3. ASSUME NEW path, AdapterPost(path)
      PROVE  ParkedInv'
  <2> DEFINE edited == [session EXCEPT !.edited = @ \cup {path}]
             seen == IF path # None THEN edited ELSE session
             noted == Counted(seen)
  <2>1. SamePending(edited, session)
    BY <1>1, EditLeavesApproval
  <2>2. session' = noted \/ \E target, ctx : session' = update_state(noted, target, ctx)
    BY <1>3 DEF AdapterPost
  <2> HIDE DEF edited
  <2>3. SamePending(seen, session)
    BY <1>1, <2>1 DEF SamePending
  <2> HIDE DEF seen
  <2>4. SamePending(noted, session)
    BY <2>3, CountLeavesApproval DEF SamePending
  <2> HIDE DEF noted
  <2>5. SamePending(session', session)
    BY <2>2, <2>4, MoveLeavesApproval DEF SamePending
  <2>. QED  BY <1>3, <2>5, ParkedSession DEF AdapterPost
<1>. QED  BY <1>2, <1>3

\* An approval is parked when none is pending, for every request that waits.
LEMMA ParkedNow ==
    ASSUME AdmissionInv, ParkedInv, NEW e, Transition(e)
    PROVE  ParkedInv'
<1>1. session.pending = << >> /\ UNCHANGED requests /\ IsSession(session)
  BY DEF Transition, AdmissionInv
<1>2. CASE UNCHANGED parked
  <2>1. \A r \in Requesters : parked[r] = "no"
    BY <1>1 DEF ParkedInv
  <2>. QED  BY <1>2, <2>1 DEF ParkedInv
<1>3. ASSUME NEW x, session' = [session EXCEPT !.pending = <<x>>],
             parked' = [r \in Requesters |-> IF Waits(r) THEN "since" ELSE parked[r]]
      PROVE  ParkedInv'
  <2>1. session'.pending # << >>
    BY <1>1, <1>3 DEF IsSession
  <2>. QED  BY <1>1, <1>3, <2>1 DEF ParkedInv, Waits, InTime
<1>4. \/ UNCHANGED parked
      \/ \E state, ctx : /\ session' = [session EXCEPT !.pending = <<[state |-> state, ctx |-> ctx]>>]
                        /\ parked' = [r \in Requesters |-> IF Waits(r) THEN "since" ELSE parked[r]]
  BY DEF Transition
<1>. QED  BY <1>2, <1>3, <1>4

LEMMA ParkedStep ==
    ASSUME AdmissionInv, ParkedInv, [AdmissionNext]_admissionVars
    PROVE  ParkedInv'
<1>1. ASSUME NEW r \in Requesters, Step(r) PROVE ParkedInv'
  BY <1>1, ParkedTimeout, ParkedAtDecision, ParkedBehind, ParkedDelivered DEF Step
<1>2. ASSUME NEW approved, Decide(approved) PROVE ParkedInv'
  BY <1>2 DEF Decide, ParkedInv
<1>3. CASE UNCHANGED <<session, requests, parked>>
  BY <1>3 DEF ParkedInv, InTime
<1>4. CASE UNCHANGED admissionVars
  BY <1>3, <1>4 DEF admissionVars
<1>5. CASE WorkerTakes
  BY <1>3, <1>5 DEF WorkerTakes
<1>6. GW \in Requesters
  BY DEF Requesters
<1>7. CASE AdmissionNext
  BY <1>1, <1>2, <1>5, <1>6, <1>7, ParkedAtStart, ParkedProvider, ParkedReturns, ParkedPost, ParkedNow
     DEF AdmissionNext
<1>. QED  BY <1>4, <1>7

-----------------------------------------------------------------------------
(* The theorems.                                                           *)

\* Nothing is let through in a session with the semantic effect policy that
\* the state the tool policy was asked about does not grant: whatever the
\* provider answers, whenever it answers, however many requests are served
\* at once and however the session moves meanwhile, if the classifier is
\* right about the calls that are made (ClassifierIsSound) and the workflow
\* keeps to what SoundCatalogue asks of it.
THEOREM EffectsAreGranted ==
    ASSUME SoundCatalogue
    PROVE  AdmissionSpec => []NoUngrantedEffect
<1>1. AdmissionInv => NoUngrantedEffect
  BY DEF AdmissionInv, RequestKept, NoUngrantedEffect
<1>2. AdmissionSpec => []AdmissionInv
  BY AdmissionInvariant
<1>. QED  BY <1>1, <1>2, PTL

\* An approval that is parked at any time before the decision on a pre-tool
\* request denies it, as long as nobody has decided the approval: the request
\* is not let through, nor does it move the session on.
THEOREM ParkedRequestsDenied == AdmissionSpec => []ParkedAdapterDenies
<1>1. AdmissionInit => ParkedInv
  BY DEF AdmissionInit, ParkedInv
<1>2. AdmissionInv /\ ParkedInv /\ [AdmissionNext]_admissionVars => ParkedInv'
  BY ParkedStep
<1>3. ParkedInv => ParkedAdapterDenies
  BY DEF ParkedInv, InTime, ParkedAdapterDenies
<1>. QED  BY <1>1, <1>2, <1>3, AdmissionInvariant, PTL DEF AdmissionSpec

\* A request is decided on the provider's answer to its own question (the
\* job of a request that timed out answers nobody).
THEOREM ReceiptsMatch == AdmissionSpec => []ReceiptIsOwn
<1>1. AdmissionInv => ReceiptIsOwn
  BY DEF AdmissionInv, RequestKept, ReceiptIsOwn
<1>. QED  BY <1>1, AdmissionInvariant, PTL

=============================================================================
