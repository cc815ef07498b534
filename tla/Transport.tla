----------------------------- MODULE Transport ------------------------------
(***************************************************************************)
(* remote.rs: the sessions of the remote gateway and the requests that     *)
(* find, create, lock and retire them.  Every request is a task; tasks     *)
(* interleave at their awaits, and one whose client hangs up is dropped    *)
(* there, with its locks (Cancelled).                                      *)
(*                                                                         *)
(* A session is a number, in place of the object in the map; its key is    *)
(* the object's own, except that the conversation of a native client keeps *)
(* its key when a new object takes the place of one that was taken out     *)
(* (SameKey).  Arc::ptr_eq is membership in `sessions`.  What              *)
(* Gateway::handle_message does to the workflow of a session is in         *)
(* Gateway; here it is a new status, which only the retain of web sessions *)
(* reads:                                                                  *)
(*    "none"    no workflow was ever loaded (observed as Inactive)         *)
(*    "active"  active or paused                                           *)
(*    "over"    final or deactivated                                       *)
(* Streamable HTTP, whose sessions are found or made like a conversation,  *)
(* is in Gateway (Connect); the operations on a native session are in      *)
(* NativeApproval.                                                         *)
(***************************************************************************)
EXTENDS Naturals, FiniteSets

CONSTANTS
    NoOne,
    Callers,        \* calls
    Accounts,       \* owners
    Conversing,     \* the accounts that have a native conversation
    OwnerCapacity,  \* 64
    TotalCapacity,  \* 4096
    MaxSessions,    \* bound on the sessions of a behaviour
    MaxDecisions    \* bound on an account's decisions on telemetry

ASSUME TransportAssumption ==
    /\ NoOne \notin Callers
    /\ Conversing \subseteq Accounts

VARIABLES
    sessions,   \* keys in RemoteState::sessions
    made,       \* every session object made: [kind, owner, status, lock, open,
                \*   consent, watermark, withdrawn]
    calls,      \* [pc, owner, key, consent]
    dismissed,  \* sessions that a request of their own owner took out of the
                \*   map (of the model, not of the code)
    account     \* account -> [on, at]: its latest decision on telemetry

transportVars == <<sessions, made, calls, dismissed, account>>

NoConsent == [on |-> FALSE, at |-> 0]

Free == [pc |-> "free", owner |-> NoOne, key |-> 0, consent |-> NoConsent]

\* A new RemoteSession.  Only an event stream's has a receiver that
\* outlives the request.  withdrawn (of the model, not of the code) is the
\* latest withdrawal it has seen.
NewObject(kind, owner, holder) ==
    [kind |-> kind, owner |-> owner, status |-> "none", lock |-> holder, open |-> kind = "sse",
     consent |-> NoConsent, watermark |-> NoConsent, withdrawn |-> 0]

NextKey == Cardinality(DOMAIN made) + 1

Extended(object) == [k \in DOMAIN made \cup {NextKey} |-> IF k = NextKey THEN object ELSE made[k]]

TransportInit ==
    /\ sessions = {}
    /\ made = [k \in {} |-> NewObject("web", NoOne, NoOne)]
    /\ calls = [r \in Callers |-> Free]
    /\ dismissed = {}
    /\ account = [o \in Accounts |-> NoConsent]

At(r, pc) == calls[r].pc = pc

GoesTo(r, pc) == calls' = [calls EXCEPT ![r].pc = pc]

Ends(r) == calls' = [calls EXCEPT ![r] = Free]

Released(k) == [made EXCEPT ![k].lock = NoOne]

\* What a message or a call may leave of the workflow.
Outcomes(k) == {"active", "over", made[k].status}

\* An owner's conversation keeps its key.
SameKey(j, k) ==
    \/ j = k
    \/ made[j].kind = "native" /\ made[k].kind = "native" /\ made[j].owner = made[k].owner

-----------------------------------------------------------------------------
(* handle_modern_http, a load that starts a run.                           *)

\* Mutant: the new session is locked only when it runs.
WebLoadUnguarded(r, owner) ==
    /\ At(r, "free") /\ NextKey <= MaxSessions
    /\ calls' = [calls EXCEPT ![r] = [Free EXCEPT !.pc = "admit", !.owner = owner, !.key = NextKey]]
    /\ made' = Extended(NewObject("web", owner, NoOne))
    /\ UNCHANGED <<sessions, dismissed, account>>

\* The session is made, and locked before anyone can find it.
WebLoad(r, owner) ==
    /\ At(r, "free") /\ NextKey <= MaxSessions
    /\ calls' = [calls EXCEPT ![r] = [Free EXCEPT !.pc = "admit", !.owner = owner, !.key = NextKey]]
    /\ made' = Extended(NewObject("web", owner, r))
    /\ UNCHANGED <<sessions, dismissed, account>>

\* The keys with the prefix of the owner.
OwnerKeys(keys, owner) == {k \in keys : made[k].kind = "web" /\ made[k].owner = owner}

\* retain: what is locked stays, and so does a run that has not ended.
StaysFor(k, owner) ==
    \/ k \notin OwnerKeys(sessions, owner)
    \/ made[k].lock # NoOne
    \/ made[k].status = "active"

Swept(owner) ==
    IF Cardinality(OwnerKeys(sessions, owner)) >= OwnerCapacity
    THEN {k \in sessions : StaysFor(k, owner)} ELSE sessions

\* Admission, under the write lock of the map.
WebAdmit(r) ==
    /\ At(r, "admit")
    /\ LET kept == Swept(calls[r].owner)
           refused == \/ Cardinality(OwnerKeys(kept, calls[r].owner)) >= OwnerCapacity
                      \/ Cardinality(kept) >= TotalCapacity
       IN  IF refused
           THEN /\ sessions' = kept
                /\ made' = Released(calls[r].key)
                /\ Ends(r)
           ELSE /\ sessions' = kept \cup {calls[r].key}
                /\ GoesTo(r, "loading")
                /\ UNCHANGED made
    /\ UNCHANGED <<dismissed, account>>

\* handle_message loads the workflow, or fails; the lock goes with the guard.
WebLoaded(r, ok) ==
    /\ At(r, "loading")
    /\ made' = [made EXCEPT ![calls[r].key].lock = NoOne,
                            ![calls[r].key].status = IF ok THEN "active" ELSE "none"]
    /\ IF ok THEN Ends(r) ELSE GoesTo(r, "remove")
    /\ UNCHANGED <<sessions, dismissed, account>>

\* A load that failed, and a message whose key is revoked or whose answer
\* finds no receiver, take out what the key names, without its lock.
TakenOut(r) ==
    /\ At(r, "remove")
    /\ LET named == {k \in sessions : SameKey(k, calls[r].key)}
       IN  /\ sessions' = sessions \ named
           /\ dismissed' = dismissed \cup {k \in named : made[k].owner = calls[r].owner}
    /\ Ends(r)
    /\ UNCHANGED <<made, account>>

-----------------------------------------------------------------------------
(* handle_modern_http, a call with a handle.                               *)

\* Any key of the map is a handle, of whatever kind and owner; another is an
\* error.
WebCall(r, owner, k) ==
    /\ At(r, "free") /\ k \in sessions
    /\ calls' = [calls EXCEPT ![r] = [Free EXCEPT !.pc = "lock", !.owner = owner, !.key = k]]
    /\ UNCHANGED <<sessions, made, dismissed, account>>

\* lock_owned, for a call, and for the two locks of a message.
Locks(r, from, to) ==
    /\ At(r, from) /\ made[calls[r].key].lock = NoOne
    /\ made' = [made EXCEPT ![calls[r].key].lock = r]
    /\ GoesTo(r, to)
    /\ UNCHANGED <<sessions, dismissed, account>>

\* Mutant: the handle that was looked up before the wait is trusted.
WebProceed(r, bound) ==
    /\ At(r, "recheck")
    /\ IF bound /\ made[calls[r].key].owner = calls[r].owner
       THEN GoesTo(r, "calling") /\ UNCHANGED made
       ELSE Ends(r) /\ made' = Released(calls[r].key)
    /\ UNCHANGED <<sessions, dismissed, account>>

\* Once locked, the map is asked again, and the owner and the resource the
\* request came to are compared with the session's.
WebRecheck(r, bound) ==
    /\ At(r, "recheck")
    /\ IF calls[r].key \in sessions /\ bound /\ made[calls[r].key].owner = calls[r].owner
       THEN GoesTo(r, "calling") /\ UNCHANGED made
       ELSE Ends(r) /\ made' = Released(calls[r].key)
    /\ UNCHANGED <<sessions, dismissed, account>>

\* The call runs: it may end the run, or load another into the session.
WebCalled(r, status) ==
    /\ At(r, "calling") /\ status \in Outcomes(calls[r].key)
    /\ made' = [made EXCEPT ![calls[r].key].lock = NoOne, ![calls[r].key].status = status]
    /\ Ends(r)
    /\ UNCHANGED <<sessions, dismissed, account>>

-----------------------------------------------------------------------------
(* handle_sse.                                                             *)

SseConnect(r, owner) ==
    /\ At(r, "free") /\ NextKey <= MaxSessions
    /\ made' = Extended(NewObject("sse", owner, NoOne))
    /\ sessions' = sessions \cup {NextKey}
    /\ UNCHANGED <<calls, dismissed, account>>

SseClosed(k) ==
    /\ made[k].open
    /\ made' = [made EXCEPT ![k].open = FALSE]
    /\ UNCHANGED <<sessions, calls, dismissed, account>>

-----------------------------------------------------------------------------
(* handle_message: a message to any session of the map, its owner's event  *)
(* stream or not.                                                          *)

MessageArrives(r, owner, k) ==
    /\ At(r, "free") /\ k \in sessions
    /\ calls' = [calls EXCEPT ![r] = [Free EXCEPT !.pc = "verify", !.owner = owner, !.key = k]]
    /\ UNCHANGED <<sessions, made, dismissed, account>>

\* The owner is verified under the lock, which is then let go.  (The second
\* check, once locked again, compares the same two values.)
MessageVerified(r) ==
    /\ At(r, "verify") /\ made[calls[r].key].lock = NoOne
    /\ IF made[calls[r].key].owner = calls[r].owner THEN GoesTo(r, "revalidate") ELSE Ends(r)
    /\ UNCHANGED <<sessions, made, dismissed, account>>

\* fetch_workflows answers, or the key is revoked, or the service is away.
MessageRevalidated(r, ok) ==
    /\ At(r, "revalidate")
    /\ GoesTo(r, IF ok THEN "relock" ELSE "remove")
    /\ UNCHANGED <<sessions, made, dismissed, account>>

\* The message runs on the session it found, in the map or not.  A
\* notification has no answer.
MessageHandled(r, status, answered) ==
    /\ At(r, "messaging") /\ status \in Outcomes(calls[r].key)
    /\ made' = [made EXCEPT ![calls[r].key].lock = NoOne, ![calls[r].key].status = status]
    /\ IF answered THEN GoesTo(r, "send") ELSE Ends(r)
    /\ UNCHANGED <<sessions, dismissed, account>>

\* The lock was let go before the answer goes into the stream.
MessageSent(r) ==
    /\ At(r, "send")
    /\ IF made[calls[r].key].open THEN Ends(r) ELSE GoesTo(r, "remove")
    /\ UNCHANGED <<sessions, made, dismissed, account>>

-----------------------------------------------------------------------------
(* native_remote.rs: the account's decision on telemetry comes with the    *)
(* catalogue, which a request fetches before it waits for its session.     *)

\* The owner turns reporting on or off.
AccountDecides(o, on) ==
    /\ account[o].at < MaxDecisions
    /\ account' = [account EXCEPT ![o] = [on |-> on, at |-> @.at + 1]]
    /\ UNCHANGED <<sessions, made, calls, dismissed>>

\* fetch_workflows and decode_telemetry_consent: a decision that is missing
\* or malformed is none.
NativeFetch(r, owner, consent) ==
    /\ At(r, "free") /\ consent \in {account[owner], NoConsent}
    /\ calls' = [calls EXCEPT ![r] = [Free EXCEPT !.pc = "publish", !.owner = owner, !.consent = consent]]
    /\ UNCHANGED <<sessions, made, dismissed, account>>

NativeKeys(owner) == {k \in sessions : made[k].kind = "native" /\ made[k].owner = owner}

\* The conversation is found or made, under the write lock of the map.
NativePublish(r) ==
    /\ At(r, "publish")
    /\ IF NativeKeys(calls[r].owner) # {}
       THEN /\ \E k \in NativeKeys(calls[r].owner) :
                  calls' = [calls EXCEPT ![r].pc = "observe", ![r].key = k]
            /\ UNCHANGED <<sessions, made>>
       ELSE /\ NextKey <= MaxSessions
            /\ sessions' = sessions \cup {NextKey}
            /\ made' = Extended(NewObject("native", calls[r].owner, NoOne))
            /\ calls' = [calls EXCEPT ![r].pc = "observe", ![r].key = NextKey]
    /\ UNCHANGED <<dismissed, account>>

Later(a, b) == IF a > b THEN a ELSE b

\* Mutant: the answer that is applied last counts, whenever it was fetched.
observe_latest(s, next) ==
    [s EXCEPT !.withdrawn = IF next.at > 0 /\ ~ next.on THEN Later(@, next.at) ELSE @,
              !.consent = next]

\* observe_telemetry_consent: at = 0 is None.
observe_telemetry_consent(s, next) ==
    LET accepted == \/ next.at = 0 \/ ~ next.on \/ s.watermark.at = 0
                    \/ next.at > s.watermark.at
                    \/ next.at = s.watermark.at /\ s.watermark.on
    IN  [s EXCEPT !.withdrawn = IF next.at > 0 /\ ~ next.on THEN Later(@, next.at) ELSE @,
                  !.consent = IF accepted THEN next ELSE @,
                  !.watermark = IF accepted /\ next.at > 0
                                THEN [on |-> next.on, at |-> Later(@.at, next.at)] ELSE @]

NativeObserve(r) ==
    /\ At(r, "observe") /\ made[calls[r].key].lock = NoOne
    /\ made' = [made EXCEPT ![calls[r].key] =
                    [observe_telemetry_consent(@, calls[r].consent) EXCEPT !.lock = r]]
    /\ GoesTo(r, "native")
    /\ UNCHANGED <<sessions, dismissed, account>>

NativeAnswers(r) ==
    /\ At(r, "native")
    /\ made' = Released(calls[r].key)
    /\ Ends(r)
    /\ UNCHANGED <<sessions, dismissed, account>>

-----------------------------------------------------------------------------
\* The client hangs up: the task is dropped at its await, and its guard with
\* it.  The session stays as it is, in the map or not.
Cancelled(r) ==
    /\ calls[r].pc # "free"
    /\ made' = [k \in DOMAIN made |-> IF made[k].lock = r THEN [made[k] EXCEPT !.lock = NoOne] ELSE made[k]]
    /\ Ends(r)
    /\ UNCHANGED <<sessions, dismissed, account>>

Gone(r) == TakenOut(r) \/ Cancelled(r)

WebNext ==
    \E r \in Callers :
        \/ \E o \in Accounts : WebLoad(r, o)
        \/ WebAdmit(r)
        \/ \E ok \in BOOLEAN : WebLoaded(r, ok)
        \/ \E o \in Accounts, k \in sessions : WebCall(r, o, k)
        \/ Locks(r, "lock", "recheck")
        \/ \E bound \in BOOLEAN : WebRecheck(r, bound)
        \/ \E status \in {"none", "active", "over"} : WebCalled(r, status)
        \/ Gone(r)

SseNext ==
    \/ \E k \in DOMAIN made : SseClosed(k)
    \/ \E r \in Callers, o \in Accounts : SseConnect(r, o)

MessageNext ==
    \E r \in Callers :
        \/ \E o \in Accounts, k \in sessions : MessageArrives(r, o, k)
        \/ MessageVerified(r)
        \/ \E ok \in BOOLEAN : MessageRevalidated(r, ok)
        \/ Locks(r, "relock", "messaging")
        \/ \E status \in {"none", "active", "over"}, answered \in BOOLEAN :
              MessageHandled(r, status, answered)
        \/ MessageSent(r)
        \/ Gone(r)

ConversationNext ==
    \/ \E o \in Conversing, on \in BOOLEAN : AccountDecides(o, on)
    \/ \E r \in Callers :
        \/ \E o \in Conversing : \E c \in {account[o], NoConsent} : NativeFetch(r, o, c)
        \/ NativePublish(r)
        \/ NativeObserve(r)
        \/ NativeAnswers(r)
        \/ Cancelled(r)

HandleNext == WebNext \/ SseNext \/ MessageNext

TransportNext == HandleNext \/ ConversationNext

TransportSpec == TransportInit /\ [][TransportNext]_transportVars

-----------------------------------------------------------------------------
(* Properties.                                                             *)

\* What a step may do to the map: a session leaves it only when a request of
\* its own owner takes it out, or when its run is not active and no request
\* holds it or is about to start its run.
SparesRuns ==
    \A k \in sessions \ sessions' :
        \/ k \in dismissed'
        \/ /\ made[k].status # "active"
           /\ \A r \in Callers :
                  calls[r].key = k => calls[r].pc \notin {"loading", "recheck", "calling", "messaging"}

\* An admission under pressure reclaims only what is idle and ended, although
\* loads, calls and messages go on beside it ("Active, paused and in-flight
\* runs remain pinned", remote.rs:999); what else leaves the map was taken out
\* by a request of its own owner, whose load failed, whose key was refused or
\* whose answer found no receiver.
RunsStayPinned == [][SparesRuns]_transportVars

\* A call runs only on a session of its owner, and on one the map still names,
\* although the session may be reclaimed between the lookup and the lock
\* (remote.rs:931), unless the owner's own message took the session out.
NeverDetached ==
    \A r \in Callers :
        At(r, "calling") => /\ made[calls[r].key].owner = calls[r].owner
                            /\ calls[r].key \in sessions \cup dismissed

\* A withdrawal a session has seen stands until the account decides anew: no
\* catalogue fetched before it and applied after it turns reporting back on
\* (native_remote.rs:376).
ConsentNotRestored ==
    \A k \in DOMAIN made : made[k].consent.on => made[k].consent.at > made[k].withdrawn

=============================================================================
