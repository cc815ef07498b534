------------------------------ MODULE Upstream ------------------------------
(***************************************************************************)
(* upstream.rs: the tool servers the gateway starts and the calls it       *)
(* forwards to them, one line of JSON-RPC for a request and one for its    *)
(* answer.  Whoever reads takes the next line, whatever its id; the        *)
(* gateway serves one message at a time, so that nobody else reads.        *)
(*                                                                         *)
(* A server is external: it answers its requests in order; it may write a  *)
(* line nobody asked for, such as a notification of its own, and it may    *)
(* die, at any time.  The gateway does not start it again.                 *)
(***************************************************************************)
EXTENDS Naturals, Sequences

CONSTANTS
    NoServer,
    Listed,         \* for every configured server, the names tools/list gives
    ToolNames,      \* the names clients call
    MaxCalls        \* bound on the calls

VARIABLES
    stage,      \* of start and, later, of the call: spawn, initialize, discover,
                \*   ready, calling, failed
    at,         \* the server that is being started, or is called
    stdin, stdout, dead,    \* per server: lines written and not yet taken, and
                            \*   whether the process is gone
    noisy,      \* the servers that wrote a line nobody asked for
    found,      \* tools of each server, once discovered
    tool_to_server,
    next_id,    \* per server
    called,     \* calls so far
    answer      \* of the last call: what was assessed, what was asked and what
                \*   was taken for the answer

upstreamVars == <<stage, at, stdin, stdout, dead, noisy, found, tool_to_server, next_id, called,
                  answer>>

ServerIds == DOMAIN Listed

\* start is called with at least one server (main.rs:113).
ASSUME UpstreamAssumption ==
    /\ Len(Listed) \in Nat \ {0}
    /\ ServerIds = 1 .. Len(Listed)
    /\ NoServer \notin ServerIds

NoAnswer == [assessed |-> NoServer, server |-> NoServer, id |-> 0, got |-> 0, from |-> NoServer]

UpstreamInit ==
    /\ stage = "spawn" /\ at = 1
    /\ stdin = [s \in ServerIds |-> << >>]
    /\ stdout = [s \in ServerIds |-> << >>]
    /\ dead = {}
    /\ noisy = {}
    /\ found = [s \in ServerIds |-> << >>]
    /\ tool_to_server = [t \in {} |-> 1]
    /\ next_id = [s \in ServerIds |-> 1]
    /\ called = 0
    /\ answer = NoAnswer

\* write_all and flush: to a process that is gone they may fail.
Writes(s, line) == stdin' = [stdin EXCEPT ![s] = Append(@, line)]

Request(id) == [kind |-> "request", id |-> id]

\* read_line: the next line, or the end of the file as an empty one.
CanRead(s) == stdout[s] # << >> \/ s \in dead

Line(s) == IF stdout[s] = << >> THEN [id |-> 0, from |-> NoServer] ELSE Head(stdout[s])

Taken(s) == stdout' = [stdout EXCEPT ![s] = IF @ = << >> THEN @ ELSE Tail(@)]

EndOfFile(s) == stdout[s] = << >>

-----------------------------------------------------------------------------
(* start, for one server after the other; any failure fails it.            *)

\* spawn_server, and the request of initialize.
Spawn(ok) ==
    /\ stage = "spawn"
    /\ IF ok THEN stage' = "initialize" /\ Writes(at, Request(0))
       ELSE stage' = "failed" /\ UNCHANGED stdin
    /\ UNCHANGED <<at, stdout, dead, noisy, found, tool_to_server, next_id, called, answer>>

StartFails ==
    /\ stage \in {"initialize", "discover"} /\ at \in dead
    /\ stage' = "failed"
    /\ UNCHANGED <<at, stdin, stdout, dead, noisy, found, tool_to_server, next_id, called, answer>>

\* The answer of initialize is read and not looked at; the notification and
\* the request of discover_tools follow.
Initialize ==
    /\ stage = "initialize" /\ CanRead(at)
    /\ Taken(at)
    /\ stdin' = [stdin EXCEPT ![at] = @ \o <<[kind |-> "note", id |-> 0], Request(next_id[at])>>]
    /\ next_id' = [next_id EXCEPT ![at] = @ + 1]
    /\ stage' = "discover"
    /\ UNCHANGED <<at, dead, noisy, found, tool_to_server, called, answer>>

Names(list) == {list[i] : i \in DOMAIN list}

\* discover_tools, and the registration of its tools: a name that several
\* servers list is the last one's.  A line that is another answer, or none,
\* lists no tools, or is no response at all and fails the start.
Discover(parsed) ==
    /\ stage = "discover" /\ CanRead(at)
    /\ ~ parsed => Line(at).id # next_id[at] - 1
    /\ Taken(at)
    /\ IF EndOfFile(at) \/ ~ parsed
       THEN stage' = "failed" /\ UNCHANGED <<at, found, tool_to_server>>
       ELSE LET list == IF Line(at).id = next_id[at] - 1 THEN Listed[at] ELSE << >>
            IN  /\ found' = [found EXCEPT ![at] = list]
                /\ tool_to_server' = [t \in DOMAIN tool_to_server \cup Names(list) |->
                                        IF t \in Names(list) THEN at ELSE tool_to_server[t]]
                /\ stage' = IF at = Len(Listed) THEN "ready" ELSE "spawn"
                /\ at' = IF at = Len(Listed) THEN at ELSE at + 1
    /\ UNCHANGED <<stdin, dead, noisy, next_id, called, answer>>

-----------------------------------------------------------------------------
(* tool_info and call_tool.                                                *)

\* Ambiguous in its own server.
Ambiguous(name) ==
    LET list == found[tool_to_server[name]]
    IN  \E i, j \in DOMAIN list : i # j /\ list[i] = name /\ list[j] = name

\* tool_info: the server whose descriptor is assessed.
tool_info(name) ==
    IF name \notin DOMAIN tool_to_server \/ Ambiguous(name) THEN NoServer ELSE tool_to_server[name]

\* A call while a workflow is active: one of a registered, unambiguous tool is
\* written to its server, if it can be; any other is refused.
CallTool(name, written) ==
    /\ stage = "ready" /\ called < MaxCalls
    /\ called' = called + 1
    /\ IF tool_info(name) = NoServer
       THEN answer' = NoAnswer /\ UNCHANGED <<stage, at, stdin, next_id>>
       ELSE LET s == tool_to_server[name]
            IN  /\ ~ written => s \in dead
                /\ next_id' = [next_id EXCEPT ![s] = @ + 1]
                /\ answer' = [NoAnswer EXCEPT !.assessed = tool_info(name), !.server = s, !.id = next_id[s]]
                /\ IF written THEN Writes(s, Request(next_id[s])) /\ stage' = "calling" /\ at' = s
                   ELSE UNCHANGED <<stage, at, stdin>>
    /\ UNCHANGED <<stdout, dead, noisy, found, tool_to_server>>

\* Mutant: a call stops waiting for a server that is slow.
ReadAnswerInTime ==
    /\ stage = "calling"
    /\ \/ CanRead(at) /\ Taken(at) /\ answer' = [answer EXCEPT !.got = Line(at).id, !.from = Line(at).from]
       \/ ~ CanRead(at) /\ UNCHANGED <<stdout, answer>>
    /\ stage' = "ready"
    /\ UNCHANGED <<at, stdin, dead, noisy, found, tool_to_server, next_id, called>>

\* The next line of the server is the answer; an empty one is an error.
ReadAnswer ==
    /\ stage = "calling" /\ CanRead(at)
    /\ Taken(at)
    /\ answer' = [answer EXCEPT !.got = Line(at).id, !.from = Line(at).from]
    /\ stage' = "ready"
    /\ UNCHANGED <<at, stdin, dead, noisy, found, tool_to_server, next_id, called>>

-----------------------------------------------------------------------------
(* The servers.                                                            *)

ServerTakes(s) ==
    /\ s \notin dead /\ stdin[s] # << >>
    /\ stdin' = [stdin EXCEPT ![s] = Tail(@)]
    /\ stdout' = IF Head(stdin[s]).kind = "note" THEN stdout
                 ELSE [stdout EXCEPT ![s] = Append(@, [id |-> Head(stdin[s]).id, from |-> s])]
    /\ UNCHANGED <<stage, at, dead, noisy, found, tool_to_server, next_id, called, answer>>

\* A line nobody asked for.  (One is enough to put every later answer of the
\* server behind its request for good.)
ServerSays(s) ==
    /\ s \notin dead \cup noisy
    /\ stdout' = [stdout EXCEPT ![s] = Append(@, [id |-> 0, from |-> s])]
    /\ noisy' = noisy \cup {s}
    /\ UNCHANGED <<stage, at, stdin, dead, found, tool_to_server, next_id, called, answer>>

ServerDies(s) ==
    /\ s \notin dead
    /\ dead' = dead \cup {s}
    /\ UNCHANGED <<stage, at, stdin, stdout, noisy, found, tool_to_server, next_id, called, answer>>

UpstreamNext ==
    \/ \E ok \in BOOLEAN : Spawn(ok)
    \/ StartFails
    \/ Initialize
    \/ \E parsed \in BOOLEAN : Discover(parsed)
    \/ \E name \in ToolNames, written \in BOOLEAN : CallTool(name, written)
    \/ ReadAnswer
    \/ \E s \in ServerIds : ServerTakes(s) \/ ServerSays(s) \/ ServerDies(s)

UpstreamSpec == UpstreamInit /\ [][UpstreamNext]_upstreamVars

-----------------------------------------------------------------------------
\* What a call gets comes from the server whose descriptor was assessed, or is
\* an error, and it is the answer to its own request unless that server wrote
\* something nobody asked for: no answer of start-up or of an earlier call that
\* failed is left in the pipe for it (call_tool compares no ids,
\* upstream.rs:150).
AnswerIsOwn ==
    answer.from # NoServer =>
        /\ answer.from = answer.assessed /\ answer.server = answer.assessed
        /\ answer.from \notin noisy => answer.got = answer.id

=============================================================================
