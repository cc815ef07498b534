-------------------------------- MODULE Risk --------------------------------
(***************************************************************************)
(* risk_assessment.rs and shell_ast_shadow.rs: how risky a tool call is,   *)
(* from its text (deterministic), from what a semantic provider answers,   *)
(* and from evidence a client collects.  Pure operators; the queue and the *)
(* worker that reach the provider are in Admission.                        *)
(*                                                                         *)
(* A call is a record                                                      *)
(*   tool      its name                                                    *)
(*   command   the shell command (see Shell), << >> when it has none       *)
(*   info      None, or the annotations an upstream server registered:     *)
(*             [read_only, destructive, open_world], each TRUE, FALSE or   *)
(*             None                                                        *)
(*   op        what the words of its name say (McpOperationIntent)         *)
(*   selectors the intents of its action/operation/method arguments        *)
(*   payload   "none" | "code" (a script, a query) | "selector" (the       *)
(*             schema has a selector)                                      *)
(*   path      the file it names, or None                                  *)
(*   lines     the size of the edit                                        *)
(*   zsh       it asks for zsh                                             *)
(*   env       its command uses a variable the state may block             *)
(*   evidence  None, or the client's local command evidence                *)
(*   does      what it really does (for the properties; nothing reads it)  *)
(* Risk and exposure are ranks: Low < Moderate < High < Critical, Local <  *)
(* Unknown < External < Account.  Probabilities are whole percents.        *)
(***************************************************************************)
EXTENDS ToolPolicy, Shell, Integers

CONSTANT MaxNodes   \* MAX_EXECUTABLE_NODES

AstModes == {"disabled", "shadow", "authority"}    \* ShellAstMode

Low == 0
Moderate == 1
High == 2
Critical == 3

Local == 0
Unknown == 1
External == 2
Account == 3

-----------------------------------------------------------------------------
(* The structured reading of a command.  An assessment counts executable   *)
(* nodes and units of foreign code; parsed is status = Parsed.             *)

NoAst == [parsed |-> TRUE, nodes |-> 0, units |-> 0, complete |-> 0, opaque |-> 0,
          classes |-> {}, shapes |-> {}]

LimitExceeded == [NoAst EXCEPT !.parsed = FALSE, !.classes = {"Opaque"}]

\* absorb_nested, and the way one node adds to what was found before it.
\* (The sets of one element make TLC evaluate a and b once.)
Absorbed(a, b) ==
    [parsed |-> a.parsed /\ b.parsed, nodes |-> a.nodes + b.nodes,
     units |-> a.units + b.units, complete |-> a.complete + b.complete,
     opaque |-> a.opaque + b.opaque, shapes |-> a.shapes \cup b.shapes,
     classes |-> a.classes \cup b.classes \cup (IF b.parsed THEN {} ELSE {"Opaque"})]

absorb_nested(a, b) == CHOOSE c \in {Absorbed(x, y) : x \in {a}, y \in {b}} : TRUE

\* classify_foreign_code_body: what known patterns say of a body, and
\* whether it is one literal call.
ForeignEvidence(body) ==
    CASE body = "print" -> {"SafeOutput"}
      [] body = "write" -> {"FileWrite"}
      [] body = "rmtree" -> {"Destructive"}
      [] body = "print computed" -> {"SafeOutput"}
      [] OTHER -> {}

classify_foreign_code_body(body) ==
    [NoAst EXCEPT !.units = 1, !.classes = ForeignEvidence(body),
                  !.complete = IF body \in {"print", "write", "rmtree"} THEN 1 ELSE 0]

\* classify_inline_foreign_code: -c or -e, else any argument counts as code
\* that was not read.
classify_inline_foreign_code(s) ==
    IF ~ SimpleTokens(s) \/ s.exe \notin {"python", "perl", "node"} THEN NoAst
    ELSE IF s.exe = "python" THEN classify_foreign_code_body(s.args)
    ELSE [NoAst EXCEPT !.units = 1]

\* classify_heredoc, by command_consumer of the statement's command.
classify_heredoc(s, nested) ==
    CASE s.exe = "sh" -> nested
      [] s.exe \in {"python", "perl", "node"} ->
            absorb_nested([NoAst EXCEPT !.classes = {"Opaque"}], classify_foreign_code_body(s.args))
      [] s.exe \in {"patch", "tee"} -> [NoAst EXCEPT !.classes = {"FileModify"}]
      [] s.exe = "ssh" -> absorb_nested([NoAst EXCEPT !.classes = {"Network", "Opaque"}], nested)
      [] s.exe = "curl" -> [NoAst EXCEPT !.classes = {"Network", "Opaque"}]
      [] s.exe \in {"cat", "rg", "sed", "awk"} -> NoAst
      [] OTHER -> [NoAst EXCEPT !.classes = {"Opaque"}, !.opaque = 1]

\* classify_file_redirect.  The sink and duplicated descriptors are nothing.
classify_file_redirect(s) ==
    [NoAst EXCEPT !.classes = CASE s.redir = "out" -> {"FileWrite"}
                                [] s.redir = "in" -> {"FileRead"}
                                [] OTHER -> {}]

\* ast_proven_git_read: an operation that only reads, by its name.
ast_proven_git_read(s) == s.exe = "git" /\ s.spelling = "bare" /\ s.wrapper = "none"
                          /\ s.args = "status"

\* The classes of a "command" node; its redirections are outside it.
NodeClasses(s, classes) ==
    CASE classes = {"Opaque"} /\ ast_proven_git_read(s) -> {"GitRead"}
      [] classes = {"Passthrough"} /\ readonly_capabilities(<<s>>) # {} -> {"SafeOutput"}
      [] OTHER -> classes

\* sanitize_semantic_shape: a program that is not known by name delegates.
sanitize_semantic_shape(s) ==
    IF s.exe \in {"closeout", "vite", "vitest", "rustfmt", "sha256sum", "tool"}
    THEN [operation |-> FALSE, delegates |-> TRUE] ELSE Shape(s)

\* The node of a segment itself, without its redirection.
OwnNode(s) ==
    IF s.exe = "function" THEN [NoAst EXCEPT !.nodes = 1, !.classes = {"LocalWrite"}]
    ELSE [NoAst EXCEPT !.nodes = 1, !.classes = NodeClasses(s, classify(<<s>>)),
                       !.shapes = IF literal_invocation(s) THEN {sanitize_semantic_shape(s)} ELSE {}]

\* sh -c, python -c and the like.
InlineCode(s, nested) ==
    IF s.exe = "sh" /\ s.args = "-c" /\ SimpleTokens(s) THEN nested
    ELSE classify_inline_foreign_code(s)

\* What walk adds for one segment; nested is the assessment of its inner
\* commands one shell deeper.
Node(s, nested) ==
    IF s.redir = "heredoc"
    THEN absorb_nested(OwnNode([s EXCEPT !.redir = "none", !.args = "alone"]), classify_heredoc(s, nested))
    ELSE absorb_nested(absorb_nested(OwnNode([s EXCEPT !.redir = "none"]),
                                     InlineCode([s EXCEPT !.redir = "none"], nested)),
                       classify_file_redirect(s))

\* The commands of $( ) are nodes of the same tree, after the one around them.
Flat(cmd) == FlattenSeq([i \in DOMAIN cmd |->
                IF cmd[i].text = "nested" THEN <<cmd[i]>> \o cmd[i].inner ELSE <<cmd[i]>>])

\* Nodes are visited in order until there are too many.
Bounded(a) == IF a.nodes > MaxNodes THEN absorb_nested(a, LimitExceeded) ELSE a

Closed(a) == [a EXCEPT !.classes = IF ~ a.parsed THEN @ \cup {"Opaque"}
                                   ELSE IF @ = {} THEN {"Passthrough"} ELSE @]

\* assess_at_depth; nested[i] is the assessment of what is inside the i-th node.
assess_at_depth(cmd, nested) ==
    LET nodes == Flat(cmd)
        step(a, i) == IF a.nodes > MaxNodes THEN absorb_nested(a, LimitExceeded)
                      ELSE absorb_nested(a, Node(nodes[i], nested[i]))
    IN  Closed(Bounded(FoldLeftDomain(step,
            [NoAst EXCEPT !.parsed = \A i \in DOMAIN cmd : cmd[i].text # "broken"], nodes)))

\* assess: one shell inside another; MAX_RECURSIVE_SHELL_DEPTH is 1 here.
OneDeeper(cmd) == assess_at_depth(cmd, [i \in DOMAIN Flat(cmd) |-> LimitExceeded])
assess(cmd) == assess_at_depth(cmd, [i \in DOMAIN Flat(cmd) |-> OneDeeper(Flat(cmd)[i].inner)])

-----------------------------------------------------------------------------
(* Risk of a command.                                                      *)

assessment(risk, exposure, caps) == [risk |-> risk, exposure |-> exposure, caps |-> caps]

\* local_effect_capability: the union of the local effects.
local_effect_capability(classes) ==
    (IF classes \cap {"FileWrite", "FileModify", "LocalWrite"} # {} THEN {"Write"} ELSE {})
      \cup (classes \cap {"BoundedLocalExecution", "GitLocalWrite"})

\* assess_shell, from the classes and the read-only proof.
ShellRisk(classes, reads) ==
    LET caps == local_effect_capability(classes)
    IN  IF "Destructive" \in classes THEN assessment(Critical, Local, {})
        ELSE IF classes \cap {"Network", "GitWrite"} # {} THEN assessment(High, External, {})
        ELSE IF reads # {} THEN assessment(Low, Local, {})
        ELSE assessment(Moderate, IF classes \cap Unresolved # {} \/ caps = {} THEN Unknown ELSE Local, caps)

assess_shell(cmd) == ShellRisk(classify(cmd), readonly_capabilities(cmd))

foreign_wrapper_is_fully_classified(ast) ==
    ast.parsed /\ ast.units > 0 /\ ast.nodes = ast.units /\ ast.units = ast.complete /\ ast.opaque = 0

assess_shell_ast(ast) ==
    LET caps == local_effect_capability(ast.classes)
        covered == foreign_wrapper_is_fully_classified(ast)
        seen == IF covered THEN ast.classes \ Unresolved ELSE ast.classes
    IN  IF "Destructive" \in seen THEN assessment(Critical, Local, {})
        ELSE IF seen \cap {"Network", "GitWrite"} # {} THEN assessment(High, External, {})
        ELSE IF seen \cap Unresolved # {} THEN assessment(Moderate, Unknown, caps)
        ELSE assessment(IF caps # {} THEN Moderate ELSE Low, Local, caps)

\* ast_authority_wins, and the rule of apply_shell_ast_authority for a
\* complete local effect.
ast_authority_wins(legacy, ast, parsed) ==
    /\ parsed
    /\ \/ ast.risk > legacy.risk
       \/ ast.risk = legacy.risk /\ ast.exposure >= legacy.exposure
       \/ /\ legacy.risk = Moderate /\ legacy.exposure = Unknown
          /\ \/ ast.risk = Low /\ ast.exposure = Local
             \/ ast.risk = Moderate /\ ast.exposure = Local /\ ast.caps # {}

\* semantic_request and shell_ast_semantic_request, for a shell call: the
\* shapes the provider is told of.
ShellRequest(cmd, ast) == [shell |-> TRUE, shapes |-> semantic_command_shapes(cmd), ast |-> ast]

\* apply_shell_ast_authority: which of the two readings stands, and the
\* request that goes with it.
Preferred(cmd, legacy, ast, mode) ==
    IF mode = "authority" /\ ast_authority_wins(legacy, assess_shell_ast(ast), ast.parsed)
    THEN [det |-> assess_shell_ast(ast), request |-> [shell |-> TRUE, shapes |-> ast.shapes, ast |-> ast]]
    ELSE [det |-> legacy, request |-> ShellRequest(cmd, None)]

\* assess_invocation, for a call with a command.
AssessCommand(cmd, mode) == Preferred(cmd, assess_shell(cmd), assess(cmd), mode)

-----------------------------------------------------------------------------
(* Risk of any other call.                                                 *)

Hint(call, name) == IF call.info = None THEN None ELSE call.info[name]

selector_intent(call) ==
    LET order == <<"Destructive", "ExternalWrite", "Unknown", "Write", "Read">>
        found == {i \in DOMAIN order : order[i] \in call.selectors}
    IN  IF found = {} THEN None ELSE order[CHOOSE i \in found : \A j \in found : i <= j]

\* mcp_shape's delegates_unknown_effect.
delegates_unknown_effect(call) ==
    \/ selector_intent(call) = "Unknown"
    \/ call.payload = "selector" /\ call.selectors = {}
    \/ call.payload = "code"

\* assess_mcp.
assess_mcp(call) ==
    LET open == Hint(call, "open_world") = TRUE
        readable == Hint(call, "read_only") # FALSE
        byName == IF call.op \in {"Destructive", "ExternalWrite"} THEN assessment(High, Account, {})
                  ELSE IF call.op # "Write" /\ readable /\ (call.op = "Read" \/ call.tool = "Grep")
                  THEN assessment(Low, Local, {})
                  ELSE assessment(Moderate, Unknown, {})
    IN  IF call.tool = "Agent" THEN assessment(High, Unknown, {})
        ELSE IF Hint(call, "destructive") = TRUE THEN assessment(Critical, Account, {})
        ELSE IF /\ Hint(call, "read_only") = TRUE
                /\ call.op \notin {"Write", "Destructive", "ExternalWrite"}
        THEN assessment(Low, IF open THEN External ELSE Local, {})
        ELSE IF open /\ byName.exposure # Account
        THEN assessment(byName.risk, External, {})
        ELSE byName

ShellTools == {"Bash", "terminal"}

\* assess_invocation_with_origin, for a call without a command.  `native`: a
\* hook or an adapter asks, for a tool no server registered.
AssessTool(call, native) ==
    LET own == native /\ call.info = None
        base == IF own /\ call.tool = "Write" THEN assessment(Moderate, Local, {})
                ELSE IF own /\ call.tool = "ToolSearch" THEN assessment(Low, Local, {})
                ELSE IF own /\ call.tool = "WebFetch" THEN assessment(Low, External, {})
                ELSE assess_mcp(call)
    IN  IF \/ call.tool \in ShellTools
           \/ own /\ call.tool = "Write"
           \/ base.risk >= High
        THEN base
        ELSE IF selector_intent(call) \in {"Destructive", "ExternalWrite"} THEN assessment(High, Account, {})
        ELSE IF selector_intent(call) = "Write" \/ delegates_unknown_effect(call)
        THEN assessment(Moderate, Unknown, {})
        ELSE base

\* assess_invocation_with_origin.  A shell call without a command has a
\* request with no shape at all.
Assess(call, native, mode) ==
    IF call.tool \in ShellTools /\ call.command # << >> THEN AssessCommand(call.command, mode)
    ELSE [det |-> AssessTool(call, native),
          request |-> [shell |-> call.tool \in ShellTools, shapes |-> {}, ast |-> None]]

-----------------------------------------------------------------------------
(* The pipeline: the deterministic assessment, and what the provider said  *)
(* of it.  A receipt is [tool, status, vector]; vector is None but when    *)
(* status is Assessed.                                                     *)

Receipt(tool, status, vector) == [tool |-> tool, status |-> status, vector |-> vector]

\* semantic_failsafe_floor.
semantic_failsafe_floor(risk, vector) ==
    LET floor == IF vector.destructive >= 85 \/ vector.irreversible >= 85 THEN Critical
                 ELSE IF vector.external >= 85 THEN High
                 ELSE IF vector.may_write >= 85 THEN Moderate
                 ELSE Low
    IN  IF floor > risk THEN floor ELSE risk

\* pipeline_from_parts: only an unresolved call listens to the provider.
pipeline_from_parts(det, request, receipt, authorized) ==
    [det |-> det, request |-> request, receipt |-> receipt, authorized |-> authorized,
     effective |-> IF det.risk = Moderate /\ det.exposure = Unknown /\ receipt.vector # None
                   THEN semantic_failsafe_floor(det.risk, receipt.vector) ELSE det.risk]

\* has_sufficient_semantic_evidence.
has_sufficient_semantic_evidence(call, request) ==
    IF request.shell
    THEN /\ request.shapes # {}
         /\ \/ /\ request.ast # None
               /\ request.ast.parsed /\ request.ast.nodes > 0 /\ request.ast.classes # {}
               /\ request.ast.units = request.ast.complete
            \/ \A shape \in request.shapes : shape.operation /\ ~ shape.delegates
    ELSE ~ delegates_unknown_effect(call)

\* An effect: a verdict, the capabilities it needs and what decided.
Effect(verdict, caps, basis) == [verdict |-> verdict, caps |-> caps, basis |-> basis]

ReadOnlyVector(v) == /\ v.read_only >= 90 /\ v.may_write <= 10
                     /\ v.destructive <= 5 /\ v.irreversible <= 5 /\ v.external <= 5

LocalWriteVector(v) == /\ v.may_write >= 90 /\ v.reversible >= 80
                       /\ v.destructive <= 5 /\ v.irreversible <= 5 /\ v.external <= 5

\* resolve_effect_with_basis, with deterministic_local_effect and
\* semantic_local_effect.
resolve_effect_with_basis(call, p) ==
    LET det == p.det
        v == p.receipt.vector
        compatible_read == /\ det.caps = {}
                           /\ Hint(call, "read_only") # FALSE
                           /\ call.tool \notin ShellTools => call.op # "Write" /\ selector_intent(call) # "Write"
    IN  IF p.effective >= High THEN Effect("known_risk", {}, "deterministic")
        ELSE IF det.risk = Low
        THEN IF p.effective = Low THEN Effect("read", {}, "deterministic")
             ELSE Effect("local", {"Write"}, "semantic")
        ELSE IF det.exposure = Local
        THEN Effect("local", IF det.caps = {} THEN {"Write"} ELSE det.caps, "deterministic")
        ELSE IF det.exposure # Unknown THEN Effect("known_risk", {}, "deterministic")
        ELSE IF \/ ~ p.authorized
                \/ ~ has_sufficient_semantic_evidence(call, p.request)
                \/ v = None
        THEN Effect("uncertain", {}, "deterministic")
        ELSE IF compatible_read /\ ReadOnlyVector(v) THEN Effect("read", {}, "semantic")
        ELSE IF LocalWriteVector(v) THEN Effect("local", det.caps \cup {"Write"}, "semantic")
        ELSE Effect("uncertain", {}, "semantic")

-----------------------------------------------------------------------------
(* Evidence a client collects about a script it is about to run:           *)
(* [sound, units], sound standing for the schema, the binding to this      *)
(* call, the age and the sizes; a unit is [resolved, bound, same].         *)

\* supported_root: the commands evidence is about.
SupportedRoot(cmd) ==
    /\ Len(cmd) = 1
    /\ literal_invocation(cmd[1])
    /\ \/ cmd[1].exe = "task" /\ cmd[1].args = "target"
       \/ cmd[1].exe = "npm" /\ cmd[1].args \in {"bounded", "run"}
       \/ cmd[1].exe = "node" /\ cmd[1].args = "entrypoint"

\* One resolved unit: a node entry point must be one of the listed files,
\* a rewritten one must be a local vitest.
UnitSound(u) ==
    IF u.resolved[1].exe = "node" /\ u.resolved[1].args = "entrypoint" THEN u.same /\ u.bound
    ELSE ~ u.same => /\ u.resolved[1].exe = "vitest"
                     /\ classify(u.resolved) = {"BoundedLocalExecution"}

UnitClasses(u) ==
    IF u.resolved[1].exe = "node" /\ u.resolved[1].args = "entrypoint" THEN {"BoundedLocalExecution"}
    ELSE assess(u.resolved).classes

EvidenceRisk(classes) ==
    LET caps == local_effect_capability(classes)
    IN  IF "Destructive" \in classes THEN assessment(Critical, Local, caps)
        ELSE IF classes \cap {"Network", "GitWrite"} # {} THEN assessment(High, External, caps)
        ELSE assessment(Moderate, IF classes \cap Unresolved # {} THEN Unknown ELSE Local, caps)

\* The classes of the units, besides the execution itself.
EvidenceClasses(units) ==
    {"BoundedLocalExecution"} \cup UNION {UnitClasses(units[i]) : i \in DOMAIN units}

EvidenceHolds(e) == e.sound /\ \A i \in DOMAIN e.units : UnitSound(e.units[i])

\* apply_native_command_evidence.  Evidence that does not hold leaves the
\* call unresolved, and the provider without authority over it.
apply_native_command_evidence(call, p) ==
    IF \/ call.evidence = None
       \/ call.info # None
       \/ call.tool \notin ShellTools
       \/ p.det.risk >= High
       \/ ~ SupportedRoot(call.command)
    THEN p
    ELSE pipeline_from_parts(IF EvidenceHolds(call.evidence) THEN EvidenceRisk(EvidenceClasses(call.evidence.units))
                             ELSE assessment(Moderate, Unknown, p.det.caps),
                             p.request, p.receipt, FALSE)

=============================================================================
