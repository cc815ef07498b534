----------------------------- MODULE Admission ------------------------------
(***************************************************************************)
(* Which tool calls the gateway lets through: handle_tools_call and the    *)
(* adapter's pre-tool call of the gateway (one request at a time), the     *)
(* pre-tool hook of the local hook server (any number at a time, on the    *)
(* runtime's threads, over the same session), and the queue, the worker    *)
(* and the timer between them and the semantic provider.                   *)
(*                                                                         *)
(* The session is what admission reads of the gateway's: state, ctx (see   *)
(* Workflow), semantic (tool_policy_mode = denylist_heuristic_v1), pending *)
(* (empty, or where the transition under review leads), iterations, edited;*)
(* the handlers that move it are in Gateway, here Transition and Decide    *)
(* stand for them.  A state definition has, besides Workflow's fields,     *)
(*    exploratory  intent = exploratory_read_only                          *)
(*    tolerance    "low_local" | "moderate_local" | "assessed"             *)
(*    max_iterations, max_edit_lines, max_files_per_state   None or a      *)
(*                 number                                                  *)
(*    allowed_commands   None or a set of [exe, args]                      *)
(*    commands_tool      allowed_commands_tool: None or a tool             *)
(*    blocked_env  it blocks some variable                                 *)
(***************************************************************************)
EXTENDS Risk

CONSTANTS
    Hooks,          \* requests the hook server may serve at once
    CallOf,         \* the calls that are made, by name
    Def,            \* the workflow definition
    Vectors,        \* what the provider may answer
    QueueCapacity,  \* STATEWRIGHT_SEMANTIC_RISK_QUEUE_CAPACITY
    MaxIterations,  \* bound on the iterations that are counted
    MaxMoves,       \* bound on the transitions of a behaviour
    MaxRequests,    \* bound on the requests of a behaviour
    Concurrent      \* the calls that are made beside others; any other is the
                    \* only one of its behaviour

VARIABLES
    config,     \* [ast: STATEWRIGHT_SHELL_AST_*, authorized: STATEWRIGHT_SYSTEM_ONE_FALLTHROUGH]
    session, requests, queue, worker, moves,
    started,    \* requests so far
    parked      \* per request: no approval is pending, or one that was when a
                \*   pre-tool request came ("found"), or was parked while it
                \*   waited ("since")

admissionVars == <<config, session, requests, queue, worker, moves, started, parked>>

\* (Definitions, which TLC evaluates once, unlike a constant of the model.)
Calls == CallOf
CallNames == DOMAIN Calls
definition == Def

GW == "gateway"
Requesters == Hooks \cup {GW}

ASSUME RequestersAreNamed == None \notin Requesters

-----------------------------------------------------------------------------
(* tool_intent.rs, enforcement.rs.                                         *)

native_tool_family(tool) ==
    CASE tool \in {"Read", "Grep", "Glob", "ToolSearch"} -> "Read"
      [] tool = "Write" -> "Write"
      [] tool \in ShellTools -> "Command"
      [] tool = "WebFetch" -> "Fetch"
      [] tool = "Agent" -> "Agent"
      [] OTHER -> "other"

StateDef(s) == definition.states[s.state]

denied(s, tool) == tool \in StateDef(s).denied

\* get_allowed_tools, an absent list as the empty one.
get_allowed_tools(s) ==
    IF StateDef(s).exploratory \/ StateDef(s).tools = None THEN {}
    ELSE StateDef(s).tools \ StateDef(s).denied

OfFamily(tools, family) == {t \in tools : native_tool_family(t) = family}

FirstOf(tools) == CHOOSE t \in tools : TRUE

\* resolve_adapter_tool_name_with_pipeline_and_origin: the policy name of a
\* native tool.
resolve_adapter_tool_name(s, call, effect) ==
    LET family == native_tool_family(call.tool)
        allowed == get_allowed_tools(s)
        reads == OfFamily(allowed, "Read")
    IN  IF denied(s, call.tool) \/ call.info # None THEN call.tool
        ELSE IF StateDef(s).exploratory
             THEN CASE family = "Read" -> "Read" [] family = "Command" -> "Bash" [] OTHER -> "untrusted"
        ELSE IF call.tool \in allowed \/ family = "other" THEN call.tool
        ELSE IF family = "Command" /\ effect.verdict = "read" /\ "Read" \in allowed THEN "Read"
        ELSE IF family = "Command" /\ readonly_capabilities(call.command) # {} /\ reads # {}
             THEN FirstOf(reads)
        ELSE IF OfFamily(allowed, family) # {} THEN FirstOf(OfFamily(allowed, family))
        ELSE call.tool

\* enforce_tools, with classify_tool_intent for an exploratory state.
PermittedIn(s, tool) ==
    /\ s.state \in DOMAIN definition.states
    /\ IF StateDef(s).exploratory
       THEN ~ denied(s, tool) /\ ~ IsFinal(definition, s.state) /\ tool \in {"Read", "Bash", "get"}
       ELSE Permitted(definition, s.state, tool)

is_checkpoint(s) == /\ StateDef(s).max_iterations # None
                    /\ s.iterations >= StateDef(s).max_iterations

\* enforce_tool_call: what to do, and the state to move to first.
enforce_tool_call(s, tool) ==
    IF tool = "untrusted" \/ IsFinal(definition, s.state) THEN {[kind |-> "block", to |-> None]}
    ELSE IF PermittedIn(s, tool)
         THEN {[kind |-> IF is_checkpoint(s) THEN "checkpoint" ELSE "allow", to |-> None]}
    ELSE IF ImplicitTargets(definition, s.state, s.ctx, tool) # {}
         THEN {[kind |-> "implicit", to |-> t] : t \in ImplicitTargets(definition, s.state, s.ctx, tool)}
    ELSE {[kind |-> "block", to |-> None]}

\* semantic_effect_risk_denial_details.
semantic_effect_risk_denial(s, effect) ==
    /\ s.semantic
    /\ LET tolerance == StateDef(s).tolerance
       IN  \/ effect.verdict \in {"known_risk", "uncertain"}
           \/ effect.basis = "semantic" /\ tolerance # "assessed"
           \/ effect.verdict = "local" /\ tolerance = "low_local" /\ effect.caps # {"GitLocalWrite"}

\* Mutant: one granted capability stands for all an effect needs.
DenialOfEveryCapability(s, effect) ==
    /\ s.semantic
    /\ \/ effect.verdict = "read" /\ denied(s, "Read")
       \/ /\ effect.verdict = "local"
          /\ \A cap \in effect.caps :
                \/ denied(s, cap)
                \/ cap \notin get_allowed_tools(s) /\ (cap = "Write" => StateDef(s).tools # None)

\* semantic_effect_capability_denial_details, in the state the call runs in.
semantic_effect_capability_denial(s, effect) ==
    /\ s.semantic
    /\ \/ effect.verdict = "read" /\ denied(s, "Read")
       \/ /\ effect.verdict = "local"
          /\ \E cap \in effect.caps :
                \/ denied(s, cap)
                \/ cap \notin get_allowed_tools(s) /\ (cap = "Write" => StateDef(s).tools # None)

-----------------------------------------------------------------------------
(* interceptors.rs.                                                        *)

is_edit_tool(tool) == tool = "Write"

pipeline_effect_has_capability(effect, allowed) ==
    CASE effect.verdict = "read" -> "Read" \in allowed
      [] effect.verdict = "local" -> effect.caps \subseteq allowed
      [] OTHER -> FALSE

\* The tool a state calls its shell, and the tools that are looked at as it:
\* that tool, and with one native shell every other.
bash_tool(sd) == IF sd.commands_tool = None THEN "Bash" ELSE sd.commands_tool

is_shell_tool(tool, configured) == tool = configured \/ {tool, configured} \subseteq ShellTools

\* A shell whose commands the interceptors of the state do not look at.
ShellUnchecked(sd, call) == call.tool \in ShellTools /\ ~ is_shell_tool(call.tool, bash_tool(sd))

\* The part of pre_call_check_with_pipeline that reads a shell command.
ShellBlocked(s, call, effect) ==
    LET sd == StateDef(s)
        tools == IF sd.exploratory THEN {"Read", "Grep", "Glob"} ELSE sd.tools
        admitted == pipeline_effect_has_capability(effect, tools)
    IN  \/ call.command = << >>
        \/ sd.blocked_env /\ references_environment_variable(call.command, call.env)
        \/ /\ ~ s.semantic /\ sd.allowed_commands # None
           /\ \A entry \in sd.allowed_commands : ~ matches_allowed_command(call.command, entry)
        \/ /\ sd.exploratory \/ sd.tools # None
           /\ ~ admitted
           /\ \/ s.semantic
              \/ sd.exploratory /\ readonly_capabilities(call.command) = {}
              \/ ~ sd.exploratory /\ ~ check_against_allowed(call.command, tools)

\* pre_call_check_with_pipeline: Block.  A warning lets the call through.
pre_call_check_blocks(s, call, effect) ==
    LET sd == StateDef(s)
    IN  \/ call.zsh /\ call.tool \in ShellTools
        \/ is_shell_tool(call.tool, bash_tool(sd)) /\ ShellBlocked(s, call, effect)
        \/ /\ is_edit_tool(call.tool)
           /\ \/ sd.max_edit_lines # None /\ call.lines > sd.max_edit_lines
              \/ /\ sd.max_files_per_state # None /\ call.path # None
                 /\ call.path \notin s.edited /\ Cardinality(s.edited) >= sd.max_files_per_state

-----------------------------------------------------------------------------
(* exploratory_policy_tool: the policy name of a registered tool.          *)
exploratory_policy_tool(call) ==
    IF call.info = None \/ Hint(call, "read_only") = FALSE \/ Hint(call, "destructive") = TRUE THEN None
    ELSE IF call.tool \in ShellTools THEN "Bash"
    ELSE IF call.tool \in {"Read", "Grep", "Glob"} \/ Hint(call, "read_only") = TRUE THEN "Read"
    ELSE None

\* A table; TLC computes it once, to compare it.
Computed(table) == CHOOSE t \in {table} : t = table

\* A call as the gateway sees it: its own ("call"), or a client's ("pre").
Assessments ==
    Computed([x \in AstModes \X CallNames \X {"call", "pre"} |-> Assess(Calls[x[2]], x[3] = "pre", x[1])])

\* What the evidence of a call makes of its pipeline; only a pre-tool request
\* brings evidence.
WithEvidence(call, kind, p) == IF kind = "pre" THEN apply_native_command_evidence(call, p) ELSE p

\* assess_pipeline_visible, apply_native_command_evidence and what follows
\* from them, by the answer of the provider.
EffectFrom(call, kind, parts, receipt, authorized) ==
    resolve_effect_with_basis(call,
        WithEvidence(call, kind, pipeline_from_parts(parts.det, parts.request, receipt, authorized)))

Effects ==
    Computed([x \in AstModes \X BOOLEAN \X CallNames \X {"call", "pre"} \X (Vectors \cup {None}) |->
        EffectFrom(Calls[x[3]], x[4], Assessments[<<x[1], x[3], x[4]>>],
                   Receipt(x[3], "Assessed", x[5]), x[2])])

CallBy(r) == Calls[requests[r].call]

EffectOf(r) == Effects[<<config.ast, config.authorized, requests[r].call, requests[r].kind,
                         requests[r].receipt.vector>>]

-----------------------------------------------------------------------------
(* Requests.  pc: idle, waiting (for the provider), decide, moving (an     *)
(* implicit transition is decided), moved, upstream (the server has the    *)
(* call), allowed, denied; to: the state a decision is for.                *)

NoReceipt == Receipt(None, "None", None)

Idle == [pc |-> "idle", kind |-> "pre", call |-> CHOOSE c \in CallNames : TRUE,
         seen |-> None, to |-> None, receipt |-> NoReceipt, annotate |-> FALSE]

FreshSession(mode) == [state |-> definition.initial, ctx |-> [facts |-> definition.context, ret |-> None],
                       semantic |-> mode, pending |-> << >>, iterations |-> 0, edited |-> {}]

AdmissionInit ==
    /\ config \in [ast : AstModes, authorized : BOOLEAN]
    /\ \E mode \in BOOLEAN : session = FreshSession(mode)
    /\ requests = [r \in Requesters |-> Idle]
    /\ queue = << >>
    /\ worker = None
    /\ moves = 0
    /\ started = 0
    /\ parked = [r \in Requesters |-> "no"]

\* Answer r: the decision, and the state it was made for.
Answer(r, allowed, state) ==
    requests' = [requests EXCEPT ![r].pc = IF allowed THEN "allowed" ELSE "denied",
                                 ![r].to = state, ![r].seen = None]

\* The answer reaches the client.
Delivered(r) ==
    /\ requests[r].pc \in {"allowed", "denied"}
    /\ requests' = [requests EXCEPT ![r] = Idle]
    /\ parked' = [parked EXCEPT ![r] = "no"]
    /\ UNCHANGED <<config, session, queue, worker, moves, started>>

\* SessionManager::update_state.
update_state(s, state, ctx) ==
    [s EXCEPT !.state = state, !.ctx = ctx, !.iterations = 0, !.edited = {}]

Counted(s) == [s EXCEPT !.iterations = IF @ < MaxIterations THEN @ + 1 ELSE @]

\* try_submit_job: a full queue is an answer too.
HasRoom == Len(queue) < QueueCapacity

\* A request arrives and its question is put in the queue, if there is room.
\* A client asks the hook server about its own tools, not a server's, and
\* sends it no evidence.
\* handle_tools_call keeps the session it read before waiting; a pre-tool
\* request reads it again.
Start(r, kind, c) ==
    /\ started < MaxRequests /\ (started > 0 => c \in Concurrent)
    /\ (r # GW) => (kind = "pre" /\ Calls[c].info = None /\ Calls[c].evidence = None)
    /\ (kind = "call") => (Calls[c].info # None)
    /\ requests' = [requests EXCEPT ![r] =
            [Idle EXCEPT !.pc = IF HasRoom THEN "waiting" ELSE "decide", !.kind = kind, !.call = c,
                         !.seen = IF kind = "call" THEN session ELSE None,
                         !.receipt = IF HasRoom THEN NoReceipt ELSE Receipt(c, "QueueFull", None)]]
    /\ parked' = [parked EXCEPT ![r] = IF kind = "pre" /\ session.pending # << >> THEN "found" ELSE "no"]
    /\ queue' = IF HasRoom THEN Append(queue, [for |-> r, call |-> c]) ELSE queue
    /\ started' = IF c \in Concurrent THEN started + 1 ELSE MaxRequests
    /\ UNCHANGED <<config, session, worker, moves>>

\* The receiver of a request that gave up is gone; its job stays.
Forget(r, job) == IF job.for = r THEN [job EXCEPT !.for = None] ELSE job

ForgottenBy(r, taken) == IF taken = None THEN None ELSE Forget(r, taken)

\* Mutant: the slot a client waits on outlives its timeout.
ForgetNothing(r) ==
    /\ requests[r].pc = "waiting"
    /\ requests' = [requests EXCEPT ![r].pc = "decide", ![r].receipt = Receipt(requests[r].call, "Timeout", None)]
    /\ UNCHANGED <<config, session, queue, worker, moves, started, parked>>

\* Mutant: the clock of a request starts when the worker takes it.
TimeoutOnceTaken(r) ==
    /\ requests[r].pc = "waiting"
    /\ worker # None /\ worker.for = r
    /\ requests' = [requests EXCEPT ![r].pc = "decide", ![r].receipt = Receipt(requests[r].call, "Timeout", None)]
    /\ queue' = [i \in DOMAIN queue |-> Forget(r, queue[i])]
    /\ worker' = ForgottenBy(r, worker)
    /\ UNCHANGED <<config, session, moves, started, parked>>

\* The timer of the request runs from its submission, queue included.
SemanticTimeout(r) ==
    /\ requests[r].pc = "waiting"
    /\ requests' = [requests EXCEPT ![r].pc = "decide", ![r].receipt = Receipt(requests[r].call, "Timeout", None)]
    /\ queue' = [i \in DOMAIN queue |-> Forget(r, queue[i])]
    /\ worker' = ForgottenBy(r, worker)
    /\ UNCHANGED <<config, session, moves, started, parked>>

\* The one worker takes the next job, and answers whoever still waits.
WorkerTakes ==
    /\ worker = None /\ queue # << >>
    /\ worker' = Head(queue)
    /\ queue' = Tail(queue)
    /\ UNCHANGED <<config, session, requests, moves, started, parked>>

ProviderAnswers(vector) ==
    /\ worker # None
    /\ worker' = None
    /\ requests' = IF worker.for # None /\ requests[worker.for].pc = "waiting"
                   THEN [requests EXCEPT ![worker.for].pc = "decide",
                            ![worker.for].receipt = IF vector = None THEN Receipt(worker.call, "Unavailable", None)
                                                    ELSE Receipt(worker.call, "Assessed", vector)]
                   ELSE requests
    /\ UNCHANGED <<config, session, queue, moves, started, parked>>

\* In shadow mode, or when the structured reading did not win, the request
\* made from it is asked too, and nobody waits for the answer.
AlsoAsks(r) ==
    /\ config.ast # "disabled"
    /\ Calls[requests[r].call].command # << >>
    /\ Assessments[<<config.ast, requests[r].call, requests[r].kind>>].request.ast = None

QueueAfter(r) ==
    IF AlsoAsks(r) /\ Len(queue) < QueueCapacity
    THEN Append(queue, [for |-> None, call |-> requests[r].call]) ELSE queue

-----------------------------------------------------------------------------
(* Pre-tool requests (handle_pre_tool, adapter_pre_tool_with_evidence).    *)

\* Mutant: the approval is looked for in the session read before the wait.
PreToolAsksFirst(r, s, call, effect) ==
    \/ parked[r] = "found"
    \/ r = GW /\ call.tool = "Agent"
    \/ call.zsh /\ call.tool \in ShellTools
    \/ semantic_effect_risk_denial(s, effect)
    \/ /\ StateDef(s).exploratory /\ call.info # None /\ ~ denied(s, call.tool)
       /\ \/ exploratory_policy_tool(call) = None
          \/ exploratory_policy_tool(call) = "Read" /\ effect.verdict # "read"

\* What refuses a pre-tool request before the tool policy is asked.
PreToolRefused(r, s, call, effect) ==
    \/ s.pending # << >>
    \/ r = GW /\ call.tool = "Agent"
    \/ call.zsh /\ call.tool \in ShellTools
    \/ semantic_effect_risk_denial(s, effect)
    \/ /\ StateDef(s).exploratory /\ call.info # None /\ ~ denied(s, call.tool)
       /\ \/ exploratory_policy_tool(call) = None
          \/ exploratory_policy_tool(call) = "Read" /\ effect.verdict # "read"

PolicyName(s, call, effect) ==
    IF StateDef(s).exploratory /\ call.info # None /\ ~ denied(s, call.tool)
    THEN exploratory_policy_tool(call)
    ELSE resolve_adapter_tool_name(s, call, effect)

\* pre_tool_policy_response, and the last checks of adapter_pre_tool.
FinalChecks(s, call, effect) ==
    /\ ~ semantic_effect_capability_denial(s, effect)
    /\ ~ pre_call_check_blocks(s, call, effect)

\* The session is read again after the wait.
PreToolDecides(r) ==
    /\ requests[r].pc = "decide" /\ requests[r].kind = "pre"
    /\ \E effect \in {EffectOf(r)} : \E call \in {CallBy(r)} :
         IF PreToolRefused(r, session, call, effect)
         THEN Answer(r, FALSE, session.state)
         ELSE \E d \in enforce_tool_call(session, PolicyName(session, call, effect)) :
                \/ d.kind = "block" /\ Answer(r, FALSE, session.state)
                \/ /\ d.kind \in {"allow", "checkpoint"}
                   /\ Answer(r, FinalChecks(session, call, effect), session.state)
                \/ /\ d.kind = "implicit"
                   /\ IF semantic_effect_capability_denial([session EXCEPT !.state = d.to], effect)
                      THEN Answer(r, FALSE, session.state)
                      ELSE requests' = [requests EXCEPT ![r].pc = "moving", ![r].seen = session, ![r].to = d.to]
    /\ queue' = QueueAfter(r)
    /\ UNCHANGED <<config, session, worker, moves, started, parked>>

\* The decided move is written over whatever the session is by now, with
\* the context that was read.
PreToolMoves(r) ==
    /\ requests[r].pc = "moving"
    /\ session' = update_state(session, requests[r].to, requests[r].seen.ctx)
    /\ requests' = [requests EXCEPT ![r].pc = "moved"]
    /\ UNCHANGED <<config, queue, worker, moves, started, parked>>

\* The session is read once more: it may have been moved on.
PreToolFinishes(r) ==
    /\ requests[r].pc = "moved"
    /\ Answer(r, FinalChecks(session, CallBy(r), EffectOf(r)), requests[r].to)
    /\ UNCHANGED <<config, session, queue, worker, moves, started, parked>>

-----------------------------------------------------------------------------
(* handle_tools_call for a registered tool.                                *)

CallRefused(s, call, effect) ==
    \/ semantic_effect_risk_denial(s, effect)
    \/ /\ StateDef(s).exploratory
       /\ \/ denied(s, call.tool) \/ denied(s, exploratory_policy_tool(call))
          \/ exploratory_policy_tool(call) = None
          \/ exploratory_policy_tool(call) = "Read" /\ effect.verdict # "read"

\* The call goes to the server; the answer is annotated only when the state
\* permitted the tool outright.
SendUpstream(r, s, annotate) ==
    requests' = [requests EXCEPT ![r].pc = "upstream", ![r].annotate = annotate, ![r].to = s.state]

\* The session is the one read before the wait.  Interceptors look at a call
\* that is simply allowed, not at one that moves the workflow or comes at a
\* checkpoint.
ToolsCallDecides(r) ==
    /\ requests[r].pc = "decide" /\ requests[r].kind = "call"
    /\ \E effect \in {EffectOf(r)} : \E call \in {Calls[requests[r].call]} :
         LET s == requests[r].seen
             name == IF StateDef(s).exploratory THEN exploratory_policy_tool(call) ELSE call.tool
         IN
         IF CallRefused(s, call, effect)
         THEN Answer(r, FALSE, s.state) /\ UNCHANGED session
         ELSE \E d \in enforce_tool_call(s, name) :
                LET to == IF d.kind = "implicit" THEN [s EXCEPT !.state = d.to] ELSE s
                IN  IF \/ d.kind = "block"
                       \/ semantic_effect_capability_denial(to, effect)
                       \/ d.kind = "allow" /\ pre_call_check_blocks(s, call, effect)
                    THEN Answer(r, FALSE, s.state) /\ UNCHANGED session
                    ELSE /\ SendUpstream(r, to, d.kind = "allow")
                         /\ session' = Counted(IF d.kind = "implicit"
                                               THEN update_state(session, d.to, s.ctx) ELSE session)
    /\ queue' = QueueAfter(r)
    /\ UNCHANGED <<config, worker, moves, started, parked>>

\* match_interrupts on the edited file, unless s is inside an interrupt; any
\* edit matches here.
InterruptedTo(edit, s) ==
    IF edit /\ DOMAIN definition.interrupts # {} /\ s.ctx.ret = None
    THEN {definition.interrupts[i] : i \in DOMAIN definition.interrupts} ELSE {None}

\* The server answers or fails.  An edit is recorded and may interrupt the
\* state that was read before the call.
UpstreamReturns(r, ok) ==
    /\ requests[r].pc = "upstream"
    /\ LET q == requests[r]
           call == Calls[q.call]
           edit == ok /\ q.annotate /\ is_edit_tool(call.tool) /\ call.path # None
           noted == IF edit THEN [session EXCEPT !.edited = @ \cup {call.path}] ELSE session
       IN  \E target \in InterruptedTo(edit, q.seen) :
             session' = IF target = None THEN noted
                        ELSE update_state(noted, target, [q.seen.ctx EXCEPT !.ret = q.seen.state])
    /\ requests' = [requests EXCEPT ![r] = Idle]
    /\ UNCHANGED <<config, queue, worker, moves, started, parked>>

-----------------------------------------------------------------------------
(* The other handlers of the gateway, while it serves no tool call.        *)

\* The files the calls edit.
EditPaths == {Calls[c].path : c \in {d \in CallNames : is_edit_tool(Calls[d].tool)}}

\* adapter_post_tool and the post-tool hook: the iteration is counted; only
\* the adapter records the edit of `path`.
AdapterPost(path) ==
    /\ requests[GW].pc = "idle" /\ moves < MaxMoves
    /\ LET edit == path # None
           noted == Counted(IF edit THEN [session EXCEPT !.edited = @ \cup {path}] ELSE session)
       IN  \E target \in InterruptedTo(edit, session) :
             session' = IF target = None THEN noted
                        ELSE update_state(noted, target, [session.ctx EXCEPT !.ret = session.state])
    /\ moves' = moves + 1
    /\ UNCHANGED <<config, requests, queue, worker, started, parked>>

HookPost ==
    /\ moves < MaxMoves
    /\ session' = Counted(session)
    /\ moves' = moves + 1
    /\ UNCHANGED <<config, requests, queue, worker, started, parked>>

\* A request that waits while an approval is parked; its decision is still to
\* come.
Waits(r) == requests[r].kind = "pre" /\ requests[r].pc \in {"waiting", "decide"}

\* statewright_transition; one that needs approval is parked instead.
Transition(e) ==
    /\ requests[GW].pc = "idle" /\ moves < MaxMoves
    /\ session.pending = << >>
    /\ \E res \in Resolve(definition, session.state, e, session.ctx) :
         IF RequiresApproval(res.via)
         THEN /\ session' = [session EXCEPT !.pending = <<[state |-> res.state, ctx |-> res.ctx]>>]
              /\ parked' = [r \in Requesters |-> IF Waits(r) THEN "since" ELSE parked[r]]
         ELSE session' = update_state(session, res.state, res.ctx) /\ UNCHANGED parked
    /\ moves' = moves + 1
    /\ UNCHANGED <<config, requests, queue, worker, started>>

\* The parked transition is approved or rejected.
Decide(approved) ==
    /\ requests[GW].pc = "idle" /\ session.pending # << >>
    /\ session' = [(IF approved THEN update_state(session, session.pending[1].state, session.pending[1].ctx)
                    ELSE session) EXCEPT !.pending = << >>]
    /\ parked' = [r \in Requesters |-> "no"]
    /\ UNCHANGED <<config, requests, queue, worker, moves, started>>

Step(r) == \/ SemanticTimeout(r) \/ PreToolDecides(r) \/ PreToolMoves(r) \/ PreToolFinishes(r)
           \/ ToolsCallDecides(r) \/ Delivered(r)

AdmissionNext ==
    \/ \E r \in {q \in Requesters : requests[q].pc = "idle"} : \E c \in CallNames :
          \E kind \in {"pre", "call"} : Start(r, kind, c)
    \/ \E r \in Requesters : Step(r)
    \/ WorkerTakes
    \/ \E v \in Vectors \cup {None} : ProviderAnswers(v)
    \/ \E ok \in BOOLEAN : UpstreamReturns(GW, ok)
    \/ \E path \in EditPaths \cup {None} : AdapterPost(path)
    \/ HookPost
    \/ \E e \in UNION {DOMAIN definition.states[s].on : s \in DOMAIN definition.states} : Transition(e)
    \/ \E approved \in BOOLEAN : Decide(approved)

\* The timer of a waiting request fires and a running handler goes on.  No
\* upstream server is assumed to answer, and no provider.
AdmissionFairness == \A r \in Requesters : WF_admissionVars(Step(r))

AdmissionSpec == AdmissionInit /\ [][AdmissionNext]_admissionVars /\ AdmissionFairness

-----------------------------------------------------------------------------
(* Properties.                                                             *)

\* Nothing a state does not grant is let through, in a session with the
\* semantic effect policy: no effect that is destructive or leaves the
\* machine, no write, bounded execution or commit the state does not list,
\* nothing but reads in an exploratory state.  (One exception: a shell that
\* the state's allowed_commands_tool does not name is passed over by the
\* interceptors, so that even in an exploratory state the tool list alone
\* decides on it.)  An effect nobody can read off the call ("unknown") is
\* let through only where the operator has given the provider authority, the
\* state accepts assessed effects and the provider has answered.  What a call
\* does is read off its command and its evidence by the reader of the model
\* (does), not by the classifier; what the provider answers is arbitrary.
\* The state is the one the tool policy was asked about: another request may
\* have moved the session since.
Granted(q, call, authorized) ==
    LET sd == definition.states[q.to]
        does == call.does
        lists(cap) == sd.tools # None /\ cap \in sd.tools /\ cap \notin sd.denied
    IN  /\ does \cap {"destroy", "remote"} = {}
        /\ "write" \in does => lists("Write") \/ (sd.tools = None /\ "Write" \notin sd.denied)
        /\ "execute" \in does => lists("BoundedLocalExecution")
        /\ "commit" \in does => lists("GitLocalWrite")
        /\ "unknown" \in does => /\ authorized /\ sd.tolerance = "assessed"
                                  /\ q.receipt.vector # None
        /\ sd.exploratory => does \subseteq {"unknown"} \/ ShellUnchecked(sd, call)

NoUngrantedEffect ==
    \A r \in Requesters :
        requests[r].pc \in {"allowed", "upstream"} /\ session.semantic
            => Granted(requests[r], Calls[requests[r].call], config.authorized)

\* An approval that is parked while a pre-tool request waits for the provider,
\* as one that was pending when it came, denies the request as long as it is
\* not decided: the request is neither let through nor does it move the
\* session on (handle_pre_tool and adapter_pre_tool read the session again
\* after the wait, hooks.rs:153, gateway.rs:1664).
ParkedAdapterDenies ==
    \A r \in Requesters : parked[r] # "no" => requests[r].pc \notin {"moving", "moved", "allowed"}

\* The answer a request is decided on is the provider's answer to its own
\* question: the late answer to a question that timed out reaches nobody,
\* not the next request of the same client.
ReceiptIsOwn ==
    \A r \in Requesters :
        requests[r].receipt.vector # None => requests[r].receipt.tool = requests[r].call

\* Every request is answered, or handed to its server, whatever the provider
\* does and however full the queue is.
RequestsAnswered ==
    \A r \in Requesters :
        requests[r].pc \in {"waiting", "decide", "moving", "moved"}
            ~> requests[r].pc \in {"idle", "upstream"}

-----------------------------------------------------------------------------
(* What the theorem on granted effects (AdmissionProofs) asks of the calls *)
(* and of the workflow.                                                    *)

\* The effect kinds a call may have.
EffectKinds == {"destroy", "remote", "write", "execute", "commit", "unknown"}

Resolved(effect) == effect.verdict \in {"read", "local"}

\* The classifier is right about these calls: where it resolves an effect,
\* whatever the provider answers, the call destroys nothing and stays on the
\* machine, what it does is among the capabilities of the verdict, and only
\* the provider's word stands for an effect nobody can read off the call.
EffectSound(effect, does) ==
    LET needs(kind, cap) == kind \in does => effect.verdict = "local" /\ cap \in effect.caps
    IN  Resolved(effect) =>
            /\ does \cap {"destroy", "remote"} = {}
            /\ needs("write", "Write")
            /\ needs("execute", "BoundedLocalExecution")
            /\ needs("commit", "GitLocalWrite")
            /\ "unknown" \in does => effect.basis = "semantic"

ClassifierIsSound ==
    \A x \in AstModes \X BOOLEAN \X CallNames \X {"call", "pre"} \X (Vectors \cup {None}) :
        (x[4] = "call" => Calls[x[3]].info # None) => EffectSound(Effects[x], Calls[x[3]].does)

CallsAreKnown == \A c \in CallNames : Calls[c].does \subseteq EffectKinds

\* A client's own reading tools read.
ReadersRead ==
    \A c \in CallNames :
        Calls[c].info = None /\ native_tool_family(Calls[c].tool) = "Read"
            => Calls[c].does \subseteq {"unknown"}

\* The states a call may move the workflow to (find_implicit_transition)
\* are states, as tolerant of assessed effects as the state that is left,
\* and list tools, the exploratory ones included.  The gateway looks at the
\* tolerance of the state that is left only.
ImplicitMove(sd, t) ==
    /\ t.kind \in {"full", "guarded", "fork", "invoke"}
    /\ \A x \in AllTargets(t) \cup {Target(t)} :
        /\ x # ReturnTarget
        /\ x \in DOMAIN definition.states
        /\ sd.tolerance = "assessed" => definition.states[x].tolerance = "assessed"
        /\ definition.states[x].exploratory => definition.states[x].tools # None

ImplicitMovesKeepTolerance ==
    \A s \in DOMAIN definition.states : \A e \in DOMAIN definition.states[s].on :
        LET t == definition.states[s].on[e]
        IN  Target(t) \in DOMAIN definition.states /\ definition.states[Target(t)].tools # None
                => ImplicitMove(definition.states[s], t)

\* An exploratory state that counts iterations lists its tools or denies
\* Write: at a checkpoint a registered tool is not looked at by the
\* interceptors, and the capability check alone lets a write through where
\* no tools are listed.
CheckpointsListTools ==
    \A s \in DOMAIN definition.states :
        LET sd == definition.states[s]
        IN  sd.exploratory /\ sd.max_iterations # None => sd.tools # None \/ "Write" \in sd.denied

SoundCatalogue ==
    /\ CallsAreKnown /\ ClassifierIsSound /\ ReadersRead
    /\ ImplicitMovesKeepTolerance /\ CheckpointsListTools

=============================================================================
