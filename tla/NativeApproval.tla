--------------------------- MODULE NativeApproval --------------------------
(***************************************************************************)
(* Native approvals of one conversation (native_approval.rs) and the       *)
(* native operations that race with them (native_remote.rs).  The broker   *)
(* keeps transports and open prompts; a task of its own waits for the      *)
(* answer to each prompt, without the conversation's lock, and takes the   *)
(* lock when it has one.  Whatever holds the lock is one step.  The        *)
(* approval service (external) keeps the decision: the first commit wins.  *)
(*                                                                         *)
(* A revision is a fresh uuid; here, a number that grows.                  *)
(***************************************************************************)
EXTENDS Naturals, FiniteSets

CONSTANTS
    NoPrompt,
    Transports,
    FormCapable,    \* the transports that negotiated form elicitation
    Requests,       \* JSON-RPC ids of the calls that ask for an approval
    TransportLimit,
    MaxPrompts,
    MaxApprovals,
    MaxRevisions,
    MaxOutages      \* answers of the approval service that are lost

ASSUME NativeAssumption ==
    /\ FormCapable \subseteq Transports
    /\ TransportLimit \in Nat \ {0}
    /\ MaxPrompts \in Nat
    /\ MaxApprovals \in Nat
    /\ MaxRevisions \in Nat
    /\ MaxOutages \in Nat

VARIABLES
    transports,     \* the open transports
    lapsed,         \* transports and nonces whose time is over
    prompts,        \* broker.pending: [nonces -> prompt or NoPrompt]
    tasks,          \* [nonces -> task or NoPrompt]
    revision,       \* native_revision
    parked,         \* the approval the workflow waits for, or 0
    asked,          \* approvals made so far
    verdicts,       \* the service's records
    applied,        \* approvals whose transition was made
    stopped,        \* approvals that were open when the owner stopped the run
    outages

broker == <<transports, lapsed, prompts, tasks>>
service == <<verdicts, outages>>
workflow == <<parked, asked, applied, stopped>>
nativeVars == <<broker, service, workflow, revision>>

Nonces == 1 .. MaxPrompts
Approvals == 1 .. MaxApprovals
Decisions == {"approved", "rejected"}
ReplyKinds == Decisions \cup {"cancel", "invalid"}

NativeInit ==
    /\ transports = {}
    /\ lapsed = {}
    /\ prompts = [n \in Nonces |-> NoPrompt]
    /\ tasks = [n \in Nonces |-> NoPrompt]
    /\ revision = 0
    /\ parked = 0
    /\ asked = 0
    /\ verdicts = [a \in Approvals |-> "unknown"]
    /\ applied = {}
    /\ stopped = {}
    /\ outages = 0

-----------------------------------------------------------------------------
(* The broker.                                                             *)

LiveTransports == transports \ lapsed

\* prune: what is left of the prompts.
LivePrompts ==
    {n \in Nonces : prompts[n] # NoPrompt /\ n \notin lapsed
                    /\ prompts[n].transport \in LiveTransports}

\* owns extends the transport's time as it checks it.
Owns(t) == t \in LiveTransports

\* The broker with only the prompts in kept; a task whose prompt is dropped
\* learns so when its channel closes.
Keep(kept) ==
    /\ prompts' = [n \in Nonces |-> IF n \in kept THEN prompts[n] ELSE NoPrompt]
    /\ tasks' = [n \in Nonces |->
                    IF prompts[n] # NoPrompt /\ n \notin kept /\ tasks[n].answer = "waiting"
                    THEN [tasks[n] EXCEPT !.answer = "dropped"] ELSE tasks[n]]

\* The bound is on what starts something, never on what ends it.
MayGoOn == revision < MaxRevisions

Refreshed == revision' = revision + 1

OpenTransport(t) ==
    /\ t \notin transports
    /\ Cardinality(LiveTransports) < TransportLimit
    /\ transports' = LiveTransports \cup {t}
    /\ lapsed' = lapsed \ {t}
    /\ Keep(LivePrompts)
    /\ UNCHANGED <<service, workflow, revision>>

Lapse(x) ==
    /\ \/ x \in Transports /\ x \in transports
       \/ x \in Nonces /\ prompts[x] # NoPrompt
    /\ x \notin lapsed
    /\ lapsed' = lapsed \cup {x}
    /\ UNCHANGED <<transports, prompts, tasks, service, workflow, revision>>

\* A reply takes the prompt it answers from the broker, well-formed or not.
Reply(t, n, kind) ==
    /\ Owns(t)
    /\ n \in LivePrompts
    /\ prompts[n].transport = t
    /\ transports' = LiveTransports
    /\ prompts' = [m \in Nonces |-> IF m \in LivePrompts \ {n} THEN prompts[m] ELSE NoPrompt]
    /\ tasks' = [tasks EXCEPT ![n].answer = kind]
    /\ UNCHANGED <<lapsed, service, workflow, revision>>

\* notifications/cancelled
CancelRequest(t, request) ==
    /\ Owns(t)
    /\ transports' = LiveTransports
    /\ \E n \in LivePrompts :
        /\ prompts[n].transport = t /\ prompts[n].request = request
        /\ prompts' = [m \in Nonces |->
                        IF m \in LivePrompts \ {n} THEN prompts[m] ELSE NoPrompt]
        /\ tasks' = [tasks EXCEPT ![n].answer = "rpc_cancel"]
    /\ UNCHANGED <<lapsed, service, workflow, revision>>

-----------------------------------------------------------------------------
(* The workflow.                                                           *)

\* Mutant: what the form said is applied, whatever the service has.
ApplyVerdictAnyhow(a) ==
    /\ parked' = IF parked = a THEN 0 ELSE parked
    /\ applied' = IF parked = a THEN applied \cup {a} ELSE applied
    /\ UNCHANGED <<asked, stopped>>

\* apply_approval_receipt, and approval_callback.
ApplyVerdict(a) ==
    /\ parked' = IF parked = a THEN 0 ELSE parked
    /\ applied' = IF parked = a /\ verdicts'[a] = "approved" THEN applied \cup {a} ELSE applied
    /\ UNCHANGED <<asked, stopped>>

\* A native transition that needs a review, with the current revision.
ParkTransition ==
    /\ MayGoOn
    /\ parked = 0
    /\ asked < MaxApprovals
    /\ asked' = asked + 1
    /\ parked' = asked + 1
    /\ Refreshed
    /\ UNCHANGED <<broker, service, applied, stopped>>

\* Any other native operation consumes the revision, whether it succeeds or not.
Mutate ==
    /\ MayGoOn
    /\ Refreshed
    /\ UNCHANGED <<broker, service, workflow>>

\* deactivate also clears the pending approval.
Deactivate ==
    /\ MayGoOn
    /\ parked # 0
    /\ parked' = 0
    /\ stopped' = IF verdicts[parked] \in Decisions THEN stopped ELSE stopped \cup {parked}
    /\ Refreshed
    /\ UNCHANGED <<broker, service, asked, applied>>

\* The reviewer decides on the approval page.
DecideOnPage(a, decision) ==
    /\ verdicts[a] = "pending"
    /\ verdicts' = [verdicts EXCEPT ![a] = decision]
    /\ UNCHANGED <<broker, workflow, revision, outages>>

\* handle_approval_callback, once or more often, sooner or later.
ApprovalCallback(a) ==
    /\ verdicts[a] \in Decisions
    /\ parked = a
    /\ Refreshed
    /\ UNCHANGED verdicts
    /\ ApplyVerdict(a)
    /\ UNCHANGED <<broker, outages>>

-----------------------------------------------------------------------------
(* A request for an approval.                                              *)

\* The prompts that stay when a request comes: those of another revision are
\* of no use any more.
Current == {n \in LivePrompts : prompts[n].revision = revision}

MayPrompt(t) ==
    /\ Owns(t)
    /\ t \in FormCapable
    /\ Current = {}
    /\ parked # 0

\* The service reads or makes its record when it is asked without a decision.
Record(a) == IF verdicts[a] = "unknown" THEN "pending" ELSE verdicts[a]

\* begin, when the reviewer has to be asked.
OpenPrompt(t, request, n) ==
    /\ MayGoOn
    /\ MayPrompt(t)
    /\ Record(parked) = "pending"
    /\ tasks[n] = NoPrompt /\ prompts[n] = NoPrompt
    /\ verdicts' = [verdicts EXCEPT ![parked] = "pending"]
    /\ prompts' = [[m \in Nonces |-> NoPrompt] EXCEPT ![n] =
                    [transport |-> t, request |-> request, revision |-> revision + 1]]
    /\ tasks' = [m \in Nonces |->
                    IF m = n THEN [approval |-> parked, revision |-> revision + 1,
                                   answer |-> "waiting"]
                    ELSE IF prompts[m] # NoPrompt /\ tasks[m].answer = "waiting"
                    THEN [tasks[m] EXCEPT !.answer = "dropped"] ELSE tasks[m]]
    /\ transports' = LiveTransports
    /\ lapsed' = lapsed \ {n}
    /\ Refreshed
    /\ UNCHANGED <<workflow, outages>>

\* begin, when the service already has a decision: it is applied, not asked for.
Reconcile(t) ==
    /\ MayPrompt(t)
    /\ verdicts[parked] \in Decisions
    /\ transports' = LiveTransports
    /\ Keep({})
    /\ Refreshed
    /\ UNCHANGED <<verdicts, outages, lapsed>>
    /\ ApplyVerdict(parked)

\* begin, when the service is unavailable, or the reviewer is someone else.
RefusePrompt(t) ==
    /\ MayPrompt(t)
    /\ verdicts' \in {verdicts, [verdicts EXCEPT ![parked] = Record(parked)]}
    /\ transports' = LiveTransports
    /\ Keep({})
    /\ UNCHANGED <<lapsed, outages, workflow, revision>>

-----------------------------------------------------------------------------
(* The task of a prompt.                                                   *)

\* Mutant: only a prompt the broker has dropped times out.
TimeOutDropped(n) ==
    /\ tasks[n] # NoPrompt
    /\ tasks[n].answer = "waiting"
    /\ prompts[n] = NoPrompt
    /\ tasks' = [tasks EXCEPT ![n].answer = "dropped"]
    /\ UNCHANGED <<transports, lapsed, prompts, service, workflow, revision>>

\* timeout(PROMPT_TTL)
TimeOut(n) ==
    /\ tasks[n] # NoPrompt
    /\ tasks[n].answer = "waiting"
    /\ tasks' = [tasks EXCEPT ![n].answer = "dropped"]
    /\ UNCHANGED <<transports, lapsed, prompts, service, workflow, revision>>

Ended(n) ==
    /\ tasks[n] # NoPrompt
    /\ tasks[n].answer # "waiting"
    /\ prompts' = [prompts EXCEPT ![n] = NoPrompt]
    /\ tasks' = [tasks EXCEPT ![n] = NoPrompt]
    /\ UNCHANGED <<transports, lapsed>>

Unchanged(n) == revision = tasks[n].revision /\ parked = tasks[n].approval

\* The workflow changed while the prompt was open: nothing is submitted.
EndStale(n) ==
    /\ Ended(n)
    /\ tasks[n].answer # "rpc_cancel"
    /\ ~Unchanged(n)
    /\ UNCHANGED <<service, workflow, revision>>

EndCancelled(n) ==
    /\ Ended(n)
    /\ tasks[n].answer = "rpc_cancel"
    /\ IF revision = tasks[n].revision THEN Refreshed ELSE UNCHANGED revision
    /\ UNCHANGED <<service, workflow>>

\* The form was cancelled or badly filled in, or nobody answered.
EndUndecided(n) ==
    /\ Ended(n)
    /\ tasks[n].answer \in {"cancel", "invalid", "dropped"}
    /\ Unchanged(n)
    /\ Refreshed
    /\ UNCHANGED <<service, workflow>>

CommitDecision(a, decision) ==
    verdicts' = [verdicts EXCEPT ![a] = IF @ \in Decisions THEN @ ELSE decision]

\* The decision is sent to the service, and what the service has is applied.
EndDecided(n) ==
    /\ Ended(n)
    /\ tasks[n].answer \in Decisions
    /\ Unchanged(n)
    /\ CommitDecision(tasks[n].approval, tasks[n].answer)
    /\ ApplyVerdict(tasks[n].approval)
    /\ Refreshed
    /\ UNCHANGED outages

\* The service does not answer; it may have the decision or not.
EndUnanswered(n) ==
    /\ Ended(n)
    /\ tasks[n].answer \in Decisions
    /\ Unchanged(n)
    /\ outages < MaxOutages
    /\ outages' = outages + 1
    /\ CommitDecision(tasks[n].approval, tasks[n].answer) \/ UNCHANGED verdicts
    /\ Refreshed
    /\ UNCHANGED workflow

EndTask(n) ==
    EndStale(n) \/ EndCancelled(n) \/ EndUndecided(n) \/ EndDecided(n) \/ EndUnanswered(n)

-----------------------------------------------------------------------------

NativeNext ==
    \/ \E t \in Transports :
        \/ OpenTransport(t)
        \/ \E n \in Nonces, kind \in ReplyKinds : Reply(t, n, kind)
        \/ \E request \in Requests : CancelRequest(t, request)
        \/ \E request \in Requests, n \in Nonces : OpenPrompt(t, request, n)
        \/ Reconcile(t)
        \/ RefusePrompt(t)
    \/ \E x \in Transports \cup Nonces : Lapse(x)
    \/ ParkTransition
    \/ Mutate
    \/ Deactivate
    \/ \E a \in Approvals : ApprovalCallback(a) \/ \E d \in Decisions : DecideOnPage(a, d)
    \/ \E n \in Nonces : TimeOut(n) \/ EndTask(n)

\* A prompt waits for three minutes at most, and its task then runs.
NativeFairness == \A n \in Nonces : WF_nativeVars(TimeOut(n)) /\ WF_nativeVars(EndTask(n))

NativeSpec == NativeInit /\ [][NativeNext]_nativeVars /\ NativeFairness

-----------------------------------------------------------------------------
(* Properties.                                                             *)

\* A transition is made only for an approval the service holds as approved, and in
\* no run the owner stopped while it was undecided, whichever of the form, the page,
\* the callback and the retry comes first or late (begin, finish: "First commit wins";
\* native_remote.rs: "A late authenticated browser callback must not advance a run the
\* owner has stopped").
AppliedIsApproved == \A a \in applied : verdicts[a] = "approved" /\ a \notin stopped

\* Every prompt that was opened comes to an end.
PromptsEnd == \A n \in Nonces : tasks[n] # NoPrompt ~> tasks[n] = NoPrompt

=============================================================================
