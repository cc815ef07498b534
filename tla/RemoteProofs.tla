---------------------------- MODULE RemoteProofs ----------------------------
(***************************************************************************)
(* Proofs about the two ends of the gateway's connections.                 *)
(*                                                                         *)
(* The sessions of the remote gateway, for any number of calls, accounts,  *)
(* sessions and decisions, and for web, event-stream and native clients at *)
(* once: the inductive invariant is the type invariant and, for every call *)
(* in progress, what it knows of the session it has in hand: that it holds *)
(* its lock, that its owner was verified, that a call that runs is in the  *)
(* map or was put out of it by its owner; and, for every session, how the  *)
(* decision it applies and its watermark compare with the withdrawals it   *)
(* has seen.                                                               *)
(*                                                                         *)
(* The calls to the tool servers, for any number of servers and of calls,  *)
(* whatever tools they list and whenever they die.  The gateway compares   *)
(* no ids, so that an answer is the right one only if it is the only one   *)
(* in the pipe.  The inductive invariant counts what is in flight with the *)
(* servers that have written nothing unasked: one answer between the       *)
(* server that is started or called and the gateway, and none elsewhere.   *)
(***************************************************************************)
EXTENDS Transport, Upstream, FiniteSetTheorems, SequenceTheorems, TLAPS


Decision == {d \in [on : BOOLEAN, at : Nat] : d.on => d.at > 0}

Statuses == {"none", "active", "over"}

Object == [kind : {"web", "sse", "native"}, owner : Accounts,
           status : Statuses, lock : Callers \cup {NoOne}, open : BOOLEAN,
           consent : Decision, watermark : Decision, withdrawn : Nat]

\* The stages at which a call has a session in hand, those at which it holds
\* its lock, and those it reaches only with the owner of the session.
InHand == {"admit", "loading", "remove", "lock", "recheck", "calling", "verify", "revalidate",
           "relock", "messaging", "send", "observe", "native"}
Locked == {"admit", "loading", "recheck", "calling", "messaging", "native"}
Verified == {"admit", "loading", "calling", "revalidate", "relock", "messaging", "send", "remove"}

Call == [pc : InHand \cup {"free", "publish"}, owner : Accounts \cup {NoOne}, key : Nat,
         consent : Decision]

TransportTypeOK ==
    /\ \E n \in Nat : DOMAIN made = 1 .. n
    /\ made \in [DOMAIN made -> Object]
    /\ calls \in [Callers -> Call]
    /\ sessions \subseteq DOMAIN made
    /\ dismissed \subseteq DOMAIN made
    /\ account \in [Accounts -> Decision]

HasItsSession(r) ==
    /\ calls[r].pc = "publish" => calls[r].owner \in Accounts
    /\ calls[r].pc \in InHand => calls[r].key \in DOMAIN made

HoldsItsLock(r) == calls[r].pc \in Locked => made[calls[r].key].lock = r

IsItsOwner(r) == calls[r].pc \in Verified => made[calls[r].key].owner = calls[r].owner

IsAttached(r) == At(r, "calling") => calls[r].key \in sessions \cup dismissed

CallOK(r) ==
    /\ HasItsSession(r)
    /\ HoldsItsLock(r)
    /\ IsItsOwner(r)
    /\ IsAttached(r)

CallsOK == \A r \in Callers : CallOK(r)

\* The watermark is no earlier than a withdrawal the session has seen, and
\* later when it stands for a grant.
WatermarkCovers ==
    \A k \in DOMAIN made :
        /\ made[k].withdrawn <= made[k].watermark.at
        /\ made[k].watermark.on => made[k].watermark.at > made[k].withdrawn

TransportInv ==
    /\ TransportTypeOK
    /\ CallsOK
    /\ WatermarkCovers
    /\ ConsentNotRestored

-----------------------------------------------------------------------------
(* The writes to the sessions and to the calls.                            *)

\* The key of the next session is not in use.
LEMMA NextKeyIsNew ==
    ASSUME TransportTypeOK
    PROVE  /\ NextKey \in Nat
           /\ NextKey \notin DOMAIN made
           /\ DOMAIN made \cup {NextKey} = 1 .. NextKey
  <1>1. PICK n \in Nat : DOMAIN made = 1 .. n
    BY DEF TransportTypeOK
  <1>2. Cardinality(1 .. n) = n
    BY FS_Interval, SMT
  <1> QED BY <1>1, <1>2 DEF NextKey

\* A new session leaves the others as they are.
LEMMA Extending ==
    ASSUME TransportTypeOK, NEW o \in Object, made' = Extended(o)
    PROVE  /\ \E n \in Nat : DOMAIN made' = 1 .. n
           /\ DOMAIN made' = DOMAIN made \cup {NextKey}
           /\ made' \in [DOMAIN made' -> Object]
           /\ made'[NextKey] = o
           /\ \A k \in DOMAIN made : made'[k] = made[k]
  <1>1. /\ NextKey \in Nat
        /\ NextKey \notin DOMAIN made
        /\ DOMAIN made \cup {NextKey} = 1 .. NextKey
    BY NextKeyIsNew
  <1>2. DOMAIN made' = DOMAIN made \cup {NextKey}
    BY DEF Extended
  <1>3. made'[NextKey] = o /\ \A k \in DOMAIN made : made'[k] = made[k]
    BY <1>1 DEF Extended
  <1>4. made' \in [DOMAIN made' -> Object]
    BY <1>2, <1>3 DEF TransportTypeOK, Extended
  <1> QED BY <1>1, <1>2, <1>3, <1>4

\* What a step does to one session and one call.
LEMMA Rewriting ==
    ASSUME TransportTypeOK, NEW k \in DOMAIN made, NEW o \in Object,
           made' = [made EXCEPT ![k] = o]
    PROVE  /\ DOMAIN made' = DOMAIN made
           /\ made' \in [DOMAIN made' -> Object]
           /\ made'[k] = o
           /\ \A j \in DOMAIN made : j # k => made'[j] = made[j]
  BY DEF TransportTypeOK

LEMMA Moving ==
    ASSUME TransportTypeOK, NEW r \in Callers, NEW c \in Call, calls' = [calls EXCEPT ![r] = c]
    PROVE  /\ calls' \in [Callers -> Call]
           /\ calls'[r] = c
           /\ \A q \in Callers : q # r => calls'[q] = calls[q]
  BY DEF TransportTypeOK

\* The three ways a call moves on.
LEMMA Ending ==
    ASSUME TransportTypeOK, NEW r \in Callers, Ends(r)
    PROVE  /\ calls' \in [Callers -> Call]
           /\ calls'[r].pc = "free"
           /\ \A q \in Callers : q # r => calls'[q] = calls[q]
  <1>1. Free \in Call
    BY DEF Free, Call, NoConsent, Decision
  <1>2. Free.pc = "free"
    BY DEF Free
  <1> QED BY <1>1, <1>2, Moving DEF Ends

LEMMA Going ==
    ASSUME TransportTypeOK, NEW r \in Callers, NEW pc \in InHand, GoesTo(r, pc)
    PROVE  /\ calls' \in [Callers -> Call]
           /\ calls'[r].pc = pc
           /\ calls'[r].key = calls[r].key
           /\ calls'[r].owner = calls[r].owner
           /\ \A q \in Callers : q # r => calls'[q] = calls[q]
  <1> DEFINE c == [calls[r] EXCEPT !.pc = pc]
  <1>1. calls[r] \in Call
    BY DEF TransportTypeOK
  <1>2. c \in Call /\ c.pc = pc /\ c.key = calls[r].key /\ c.owner = calls[r].owner
    BY <1>1 DEF Call
  <1>3. calls' = [calls EXCEPT ![r] = c]
    BY DEF GoesTo
  <1> HIDE DEF c
  <1> QED BY <1>2, <1>3, Moving

\* What a step leaves of the decisions of a session.
SameDecisions(k) ==
    /\ made'[k].consent = made[k].consent
    /\ made'[k].watermark = made[k].watermark
    /\ made'[k].withdrawn = made[k].withdrawn

\* What a step leaves of a session whose workflow, stream or lock it changes.
SameSession(k) ==
    /\ made'[k].owner = made[k].owner
    /\ SameDecisions(k)

\* The lock, the status and the stream of a session are written without
\* touching anything else of it.
LEMMA Settling ==
    ASSUME TransportTypeOK, NEW k \in DOMAIN made, NEW o \in Object,
           o.owner = made[k].owner, o.consent = made[k].consent,
           o.watermark = made[k].watermark, o.withdrawn = made[k].withdrawn,
           made' = [made EXCEPT ![k] = o]
    PROVE  /\ DOMAIN made' = DOMAIN made
           /\ made' \in [DOMAIN made' -> Object]
           /\ made'[k] = o
           /\ \A j \in DOMAIN made : SameSession(j)
           /\ \A j \in DOMAIN made : j # k => made'[j] = made[j]
  <1>1. DOMAIN made' = DOMAIN made /\ made' \in [DOMAIN made' -> Object] /\ made'[k] = o
    BY Rewriting
  <1>2. \A j \in DOMAIN made : j # k => made'[j] = made[j]
    BY Rewriting
  <1> QED BY <1>1, <1>2 DEF SameSession, SameDecisions

\* A lock that is taken or let go.
LEMMA Locking ==
    ASSUME TransportTypeOK, NEW k \in DOMAIN made, NEW holder \in Callers \cup {NoOne},
           made' = [made EXCEPT ![k].lock = holder]
    PROVE  /\ DOMAIN made' = DOMAIN made
           /\ made' \in [DOMAIN made' -> Object]
           /\ made'[k].lock = holder
           /\ \A j \in DOMAIN made : SameSession(j)
           /\ \A j \in DOMAIN made : j # k => made'[j] = made[j]
  <1> DEFINE o == [made[k] EXCEPT !.lock = holder]
  <1>1. made[k] \in Object
    BY DEF TransportTypeOK
  <1>2. /\ o \in Object /\ o.lock = holder
        /\ o.owner = made[k].owner /\ o.consent = made[k].consent
        /\ o.watermark = made[k].watermark /\ o.withdrawn = made[k].withdrawn
    BY <1>1 DEF Object
  <1>3. made' = [made EXCEPT ![k] = o]
    OBVIOUS
  <1> HIDE DEF o
  <1> QED BY <1>2, <1>3, Settling

\* The end of what a call does to a workflow: a new status, and the lock let go.
LEMMA Finishing ==
    ASSUME TransportTypeOK, NEW k \in DOMAIN made, NEW status \in Statuses,
           made' = [made EXCEPT ![k].lock = NoOne, ![k].status = status]
    PROVE  /\ DOMAIN made' = DOMAIN made
           /\ made' \in [DOMAIN made' -> Object]
           /\ \A j \in DOMAIN made : SameSession(j)
           /\ \A j \in DOMAIN made : j # k => made'[j] = made[j]
  <1> DEFINE o == [made[k] EXCEPT !.lock = NoOne, !.status = status]
  <1>1. made[k] \in Object
    BY DEF TransportTypeOK
  <1>2. /\ o \in Object
        /\ o.owner = made[k].owner /\ o.consent = made[k].consent
        /\ o.watermark = made[k].watermark /\ o.withdrawn = made[k].withdrawn
    BY <1>1 DEF Object
  <1>3. made' = [made EXCEPT ![k] = o]
    OBVIOUS
  <1> HIDE DEF o
  <1> QED BY <1>2, <1>3, Settling

-----------------------------------------------------------------------------
(* The decisions on telemetry.                                             *)

\* Sessions whose decisions a step leaves alone stay consistent.
LEMMA DecisionsKept ==
    ASSUME WatermarkCovers, ConsentNotRestored, DOMAIN made' = DOMAIN made,
           \A k \in DOMAIN made : SameDecisions(k)
    PROVE  WatermarkCovers' /\ ConsentNotRestored'
  BY DEF WatermarkCovers, ConsentNotRestored, SameDecisions

\* So do they beside a new session, which has applied none.
LEMMA DecisionsExtended ==
    ASSUME TransportTypeOK, WatermarkCovers, ConsentNotRestored,
           NEW kind, NEW owner, NEW holder, NewObject(kind, owner, holder) \in Object,
           made' = Extended(NewObject(kind, owner, holder))
    PROVE  WatermarkCovers' /\ ConsentNotRestored'
  <1>1. /\ DOMAIN made' = DOMAIN made \cup {NextKey}
        /\ made'[NextKey] = NewObject(kind, owner, holder)
        /\ \A k \in DOMAIN made : made'[k] = made[k]
    BY Extending
  <1>2. /\ ~ made'[NextKey].consent.on
        /\ ~ made'[NextKey].watermark.on
        /\ made'[NextKey].withdrawn = 0
        /\ made'[NextKey].watermark.at = 0
    BY <1>1 DEF NewObject, NoConsent
  <1>3. WatermarkCovers'
    BY <1>1, <1>2 DEF WatermarkCovers
  <1>4. ConsentNotRestored'
    BY <1>1, <1>2 DEF ConsentNotRestored
  <1> QED BY <1>3, <1>4

\* observe_telemetry_consent keeps the watermark on top of the withdrawals,
\* and a decision it applies that is on later than all of them.
LEMMA Observing ==
    ASSUME NEW s \in Object, NEW next \in Decision,
           s.withdrawn <= s.watermark.at,
           s.watermark.on => s.watermark.at > s.withdrawn,
           s.consent.on => s.consent.at > s.withdrawn
    PROVE  LET t == observe_telemetry_consent(s, next)
           IN  /\ t \in Object
               /\ t.owner = s.owner
               /\ t.withdrawn <= t.watermark.at
               /\ t.watermark.on => t.watermark.at > t.withdrawn
               /\ t.consent.on => t.consent.at > t.withdrawn
  <1> DEFINE accepted == \/ next.at = 0 \/ ~ next.on \/ s.watermark.at = 0
                         \/ next.at > s.watermark.at
                         \/ next.at = s.watermark.at /\ s.watermark.on
             withdrawn == IF next.at > 0 /\ ~ next.on THEN Later(s.withdrawn, next.at) ELSE s.withdrawn
             consent == IF accepted THEN next ELSE s.consent
             watermark == IF accepted /\ next.at > 0
                          THEN [on |-> next.on, at |-> Later(s.watermark.at, next.at)] ELSE s.watermark
             t == observe_telemetry_consent(s, next)
  <1>1. /\ next.on \in BOOLEAN /\ next.at \in Nat /\ (next.on => next.at > 0)
        /\ s.withdrawn \in Nat /\ s.watermark \in Decision /\ s.consent \in Decision
        /\ s.watermark.at \in Nat /\ s.watermark.on \in BOOLEAN
        /\ s.consent.at \in Nat /\ s.consent.on \in BOOLEAN
    BY DEF Object, Decision
  <1>2. withdrawn \in Nat
    BY <1>1 DEF Later
  <1>3. consent \in Decision
    BY <1>1
  <1>4. watermark \in Decision
    BY <1>1 DEF Later, Decision
  <1>5. withdrawn <= watermark.at
    BY <1>1 DEF Later
  <1>6. watermark.on => watermark.at > withdrawn
    BY <1>1 DEF Later
  <1>7. consent.on => consent.at > withdrawn
    BY <1>1 DEF Later
  <1>8. t = [s EXCEPT !.withdrawn = withdrawn, !.consent = consent, !.watermark = watermark]
    BY DEF observe_telemetry_consent
  <1> HIDE DEF withdrawn, consent, watermark
  <1>9. /\ t \in Object
        /\ t.owner = s.owner
        /\ t.withdrawn = withdrawn /\ t.consent = consent /\ t.watermark = watermark
    BY <1>2, <1>3, <1>4, <1>8 DEF Object
  <1> HIDE DEF t
  <1>10. /\ t \in Object
         /\ t.owner = s.owner
         /\ t.withdrawn <= t.watermark.at
         /\ t.watermark.on => t.watermark.at > t.withdrawn
         /\ t.consent.on => t.consent.at > t.withdrawn
    BY <1>5, <1>6, <1>7, <1>9
  <1> QED BY <1>10 DEF t

-----------------------------------------------------------------------------
(* What a step leaves of a call it does not make.                          *)

Elsewhere(r) == \A q \in Callers : q # r => calls'[q] = calls[q]

\* The lock of a session is taken from nobody else, its owner stays, and what
\* leaves the map is no session of a running call, or its owner took it out.
LEMMA OtherCalls ==
    ASSUME CallsOK, NEW r \in Callers, Elsewhere(r), CallOK(r)',
           DOMAIN made \subseteq DOMAIN made',
           \A k \in DOMAIN made : made'[k].owner = made[k].owner,
           \A q \in Callers \ {r} :
               /\ \A k \in DOMAIN made : made[k].lock = q => made'[k].lock = q
               /\ At(q, "calling") => calls[q].key \in sessions' \cup dismissed'
    PROVE  CallsOK'
  <1> SUFFICES ASSUME NEW q \in Callers \ {r} PROVE CallOK(q)'
    BY DEF CallsOK
  <1>1. CallOK(q) /\ calls'[q] = calls[q]
    BY DEF CallsOK, Elsewhere
  <1>2. CASE calls[q].pc \notin InHand
    BY <1>1, <1>2 DEF CallOK, HasItsSession, HoldsItsLock, IsItsOwner, IsAttached, At, InHand, Locked, Verified
  <1>3. CASE calls[q].pc \in InHand
    <2>1. calls[q].key \in DOMAIN made
      BY <1>1, <1>3 DEF CallOK, HasItsSession
    <2>2. HasItsSession(q)' /\ HoldsItsLock(q)' /\ IsItsOwner(q)'
      BY <1>1, <2>1 DEF CallOK, HasItsSession, HoldsItsLock, IsItsOwner
    <2>3. IsAttached(q)'
      BY <1>1 DEF IsAttached, At
    <2> QED BY <2>2, <2>3 DEF CallOK
  <1> QED BY <1>2, <1>3

\* A call that is over, or has no session yet, is in order.
LEMMA CallAside ==
    ASSUME NEW r \in Callers, calls'[r].pc \in {"free", "publish"},
           calls'[r].pc = "publish" => calls'[r].owner \in Accounts
    PROVE  CallOK(r)'
  BY DEF CallOK, HasItsSession, HoldsItsLock, IsItsOwner, IsAttached, At, InHand, Locked, Verified

\* What the invariant says of a call, in the form the steps use it.
LEMMA CallFacts ==
    ASSUME TransportInv, NEW q \in Callers
    PROVE  /\ calls[q] \in Call
           /\ calls[q].pc \in InHand => calls[q].key \in DOMAIN made /\ made[calls[q].key] \in Object
           /\ calls[q].pc = "publish" => calls[q].owner \in Accounts
           /\ calls[q].pc \in Locked => made[calls[q].key].lock = q
           /\ calls[q].pc \in Verified => made[calls[q].key].owner = calls[q].owner
           /\ calls[q].pc = "calling" => calls[q].key \in sessions \cup dismissed
  BY DEF TransportInv, TransportTypeOK, CallsOK, CallOK, HasItsSession, HoldsItsLock, IsItsOwner, IsAttached, At

\* A step of a call that changes nothing but its own place, and a session that
\* no other call holds.
LEMMA Passing ==
    ASSUME TransportInv, NEW r \in Callers,
           calls' \in [Callers -> Call], Elsewhere(r), CallOK(r)',
           DOMAIN made' = DOMAIN made, made' \in [DOMAIN made' -> Object],
           \A k \in DOMAIN made :
               /\ SameSession(k)
               /\ \A q \in Callers \ {r} : made[k].lock = q => made'[k].lock = q,
           UNCHANGED <<sessions, dismissed, account>>
    PROVE  TransportInv'
  <1> USE DEF TransportInv
  <1>1. TransportTypeOK'
    BY DEF TransportTypeOK
  <1>2. CallsOK'
    <2>1. \A q \in Callers \ {r} : At(q, "calling") => calls[q].key \in sessions' \cup dismissed'
      BY CallFacts DEF At
    <2> QED BY <2>1, OtherCalls DEF SameSession
  <1>3. WatermarkCovers' /\ ConsentNotRestored'
    BY DecisionsKept DEF SameSession
  <1> QED BY <1>1, <1>2, <1>3

\* A step that moves a call and leaves every session as it is.
LEMMA GoingOn ==
    ASSUME TransportInv, NEW r \in Callers, calls' \in [Callers -> Call], Elsewhere(r), CallOK(r)',
           UNCHANGED <<sessions, made, dismissed, account>>
    PROVE  TransportInv'
  BY Passing DEF SameSession, SameDecisions, TransportInv, TransportTypeOK

\* So is the end of a call that changes nothing else.
LEMMA JustEnds ==
    ASSUME TransportInv, NEW r \in Callers, Ends(r), UNCHANGED <<sessions, made, dismissed, account>>
    PROVE  TransportInv'
  <1>1. calls' \in [Callers -> Call] /\ calls'[r].pc = "free" /\ Elsewhere(r)
    BY Ending DEF Elsewhere, TransportInv
  <1> QED BY <1>1, CallAside, GoingOn

\* The end of a call that lets its lock go, perhaps after a new status.
LEMMA LetsGo ==
    ASSUME TransportInv, NEW r \in Callers, calls[r].pc \in Locked,
           calls' \in [Callers -> Call], Elsewhere(r), CallOK(r)',
           DOMAIN made' = DOMAIN made, made' \in [DOMAIN made' -> Object],
           \A j \in DOMAIN made : SameSession(j),
           \A j \in DOMAIN made : j # calls[r].key => made'[j] = made[j],
           UNCHANGED <<sessions, dismissed, account>>
    PROVE  TransportInv'
  <1>1. made[calls[r].key].lock = r
    BY CallFacts
  <1>2. \A k \in DOMAIN made : \A q \in Callers \ {r} : made[k].lock = q => made'[k].lock = q
    BY <1>1
  <1> QED BY <1>2, Passing

LEMMA EndsUnlocked ==
    ASSUME TransportInv, NEW r \in Callers, calls[r].pc \in Locked, Ends(r),
           made' = Released(calls[r].key), UNCHANGED <<sessions, dismissed, account>>
    PROVE  TransportInv'
  <1>1. calls[r].key \in DOMAIN made
    BY CallFacts DEF Locked, InHand
  <1>2. /\ DOMAIN made' = DOMAIN made /\ made' \in [DOMAIN made' -> Object]
        /\ \A j \in DOMAIN made : SameSession(j)
        /\ \A j \in DOMAIN made : j # calls[r].key => made'[j] = made[j]
    BY <1>1, Locking DEF Released, TransportInv
  <1>3. calls' \in [Callers -> Call] /\ calls'[r].pc = "free" /\ Elsewhere(r)
    BY Ending DEF Elsewhere, TransportInv
  <1> QED BY <1>2, <1>3, CallAside, LetsGo

-----------------------------------------------------------------------------
(* Web clients.                                                            *)

\* A load makes a session and locks it.
LEMMA WebLoadStep ==
    ASSUME TransportInv, NEW r \in Callers, NEW o \in Accounts, WebLoad(r, o)
    PROVE  TransportInv'
  <1> USE DEF TransportInv
  <1> DEFINE c == [Free EXCEPT !.pc = "admit", !.owner = o, !.key = NextKey]
  <1>1. NextKey \in Nat /\ NextKey \notin DOMAIN made
    BY NextKeyIsNew
  <1>2. /\ NewObject("web", o, r) \in Object
        /\ NewObject("web", o, r).owner = o /\ NewObject("web", o, r).lock = r
    BY DEF NewObject, Object, NoConsent, Decision, Statuses
  <1>3. /\ \E n \in Nat : DOMAIN made' = 1 .. n
        /\ DOMAIN made' = DOMAIN made \cup {NextKey}
        /\ made' \in [DOMAIN made' -> Object]
        /\ made'[NextKey].owner = o /\ made'[NextKey].lock = r
        /\ \A k \in DOMAIN made : made'[k] = made[k]
    BY <1>2, Extending DEF WebLoad
  <1>4. WatermarkCovers' /\ ConsentNotRestored'
    BY <1>2, DecisionsExtended DEF WebLoad
  <1>5. c \in Call /\ c.pc = "admit" /\ c.key = NextKey /\ c.owner = o
    BY <1>1 DEF Call, Free, NoConsent, Decision, InHand
  <1>6. /\ calls' \in [Callers -> Call]
        /\ calls'[r].pc = "admit" /\ calls'[r].key = NextKey /\ calls'[r].owner = o
        /\ Elsewhere(r)
    <2>1. calls' = [calls EXCEPT ![r] = c]
      BY DEF WebLoad
    <2> HIDE DEF c
    <2> QED BY <1>5, <2>1, Moving DEF Elsewhere
  <1>7. UNCHANGED <<sessions, dismissed, account>>
    BY DEF WebLoad
  <1>8. TransportTypeOK'
    BY <1>3, <1>6, <1>7 DEF TransportTypeOK
  <1>9. CallOK(r)'
    BY <1>3, <1>6 DEF CallOK, HasItsSession, HoldsItsLock, IsItsOwner, IsAttached, At
  <1>10. \A q \in Callers \ {r} : At(q, "calling") => calls[q].key \in sessions' \cup dismissed'
    BY <1>7, CallFacts DEF At
  <1> QED BY <1>3, <1>4, <1>6, <1>8, <1>9, <1>10, OtherCalls

\* What retain leaves in the map: the sessions that are locked, and those of a
\* run that has not ended.
LEMMA Sweeping ==
    ASSUME NEW owner
    PROVE  /\ Swept(owner) \subseteq sessions
           /\ \A k \in sessions : made[k].lock # NoOne \/ made[k].status = "active" => k \in Swept(owner)
  BY DEF Swept, StaysFor

\* An admission reclaims no session that a call holds or that still runs.
LEMMA WebAdmitStep ==
    ASSUME TransportInv, NEW r \in Callers, WebAdmit(r)
    PROVE  TransportInv'
  <1> USE DEF TransportInv
  <1> DEFINE kept == Swept(calls[r].owner)
  <1>1. calls[r].pc = "admit" /\ calls[r].pc \in InHand /\ calls[r].key \in DOMAIN made
        /\ made[calls[r].key].lock = r
    BY CallFacts DEF WebAdmit, At, InHand, Locked
  <1>2. /\ kept \subseteq sessions
        /\ \A k \in sessions : made[k].lock # NoOne \/ made[k].status = "active" => k \in kept
    BY Sweeping
  <1>3. UNCHANGED <<dismissed, account>> /\ kept \subseteq sessions'
    BY DEF WebAdmit
  <1>4. \A q \in Callers \ {r} : At(q, "calling") => calls[q].key \in sessions' \cup dismissed'
    BY <1>2, <1>3, CallFacts, TransportAssumption DEF Locked, At
  <1> HIDE DEF kept
  <1>5. CASE Ends(r) /\ made' = Released(calls[r].key) /\ sessions' = kept
    <2>1. /\ calls' \in [Callers -> Call] /\ calls'[r].pc = "free" /\ Elsewhere(r)
      BY <1>5, Ending DEF Elsewhere
    <2>2. /\ DOMAIN made' = DOMAIN made /\ made' \in [DOMAIN made' -> Object]
          /\ \A j \in DOMAIN made : SameSession(j)
          /\ \A j \in DOMAIN made : j # calls[r].key => made'[j] = made[j]
      BY <1>1, <1>5, Locking DEF Released
    <2>3. TransportTypeOK'
      BY <1>2, <1>3, <1>5, <2>1, <2>2 DEF TransportTypeOK
    <2>4. \A k \in DOMAIN made : \A q \in Callers \ {r} : made[k].lock = q => made'[k].lock = q
      BY <1>1, <2>2
    <2>5. CallsOK'
      BY <1>4, <2>1, <2>2, <2>4, CallAside, OtherCalls DEF SameSession
    <2>6. WatermarkCovers' /\ ConsentNotRestored'
      BY <2>2, DecisionsKept DEF SameSession
    <2> QED BY <2>3, <2>5, <2>6
  <1>6. CASE GoesTo(r, "loading") /\ sessions' = kept \cup {calls[r].key} /\ UNCHANGED made
    <2>1. /\ calls' \in [Callers -> Call] /\ Elsewhere(r)
          /\ calls'[r].pc = "loading" /\ calls'[r].key = calls[r].key /\ calls'[r].owner = calls[r].owner
      BY <1>6, Going DEF Elsewhere, InHand
    <2>2. TransportTypeOK'
      BY <1>1, <1>2, <1>3, <1>6, <2>1 DEF TransportTypeOK
    <2>3. made[calls[r].key].owner = calls[r].owner
      BY <1>1, CallFacts DEF Verified
    <2>4. CallOK(r)'
      BY <1>1, <1>6, <2>1, <2>3 DEF CallOK, HasItsSession, HoldsItsLock, IsItsOwner, IsAttached, At
    <2>5. CallsOK'
      BY <1>4, <1>6, <2>1, <2>4, OtherCalls
    <2>6. WatermarkCovers' /\ ConsentNotRestored'
      BY <1>6 DEF WatermarkCovers, ConsentNotRestored
    <2> QED BY <2>2, <2>5, <2>6
  <1> QED BY <1>5, <1>6 DEF WebAdmit, kept

\* A load that succeeds or fails lets its lock go.
LEMMA WebLoadedStep ==
    ASSUME TransportInv, NEW r \in Callers, NEW ok \in BOOLEAN, WebLoaded(r, ok)
    PROVE  TransportInv'
  <1> USE DEF TransportInv
  <1> DEFINE key == calls[r].key
             status == IF ok THEN "active" ELSE "none"
  <1>1. /\ calls[r].pc = "loading" /\ calls[r].pc \in Locked
        /\ key \in DOMAIN made /\ made[key].owner = calls[r].owner
    BY CallFacts DEF WebLoaded, At, InHand, Locked, Verified
  <1>2. status \in Statuses /\ made' = [made EXCEPT ![key].lock = NoOne, ![key].status = status]
    BY DEF WebLoaded, Statuses
  <1> HIDE DEF status
  <1>3. /\ DOMAIN made' = DOMAIN made /\ made' \in [DOMAIN made' -> Object]
        /\ \A j \in DOMAIN made : SameSession(j)
        /\ \A j \in DOMAIN made : j # key => made'[j] = made[j]
    BY <1>1, <1>2, Finishing
  <1>4. UNCHANGED <<sessions, dismissed, account>>
    BY DEF WebLoaded
  <1>5. CASE ok
    <2>1. /\ calls' \in [Callers -> Call] /\ calls'[r].pc = "free" /\ Elsewhere(r)
      BY <1>5, Ending DEF WebLoaded, Elsewhere
    <2> QED BY <1>1, <1>3, <1>4, <2>1, CallAside, LetsGo
  <1>6. CASE ~ ok
    <2>1. /\ calls' \in [Callers -> Call] /\ Elsewhere(r)
          /\ calls'[r].pc = "remove" /\ calls'[r].key = key /\ calls'[r].owner = calls[r].owner
      BY <1>6, Going DEF WebLoaded, Elsewhere, InHand
    <2>2. CallOK(r)'
      BY <1>1, <1>3, <2>1 DEF CallOK, HasItsSession, HoldsItsLock, IsItsOwner, IsAttached, At, Locked, SameSession
    <2> QED BY <1>1, <1>3, <1>4, <2>1, <2>2, LetsGo
  <1> QED BY <1>5, <1>6

\* What a request takes out of the map is its owner's.
LEMMA OwnerTakesOut ==
    ASSUME TransportInv, NEW r \in Callers, TakenOut(r)
    PROVE  sessions \ sessions' \subseteq dismissed'
  <1>1. calls[r].pc = "remove" /\ made[calls[r].key].owner = calls[r].owner
    BY CallFacts DEF TakenOut, At, Verified
  <1>2. ASSUME NEW k \in sessions, SameKey(k, calls[r].key)
        PROVE  made[k].owner = calls[r].owner
    BY <1>1, <1>2 DEF SameKey
  <1> QED BY <1>2 DEF TakenOut

LEMMA TakenOutStep ==
    ASSUME TransportInv, NEW r \in Callers, TakenOut(r)
    PROVE  TransportInv'
  <1> USE DEF TransportInv
  <1>1. /\ UNCHANGED <<made, account>> /\ sessions' \subseteq sessions
        /\ dismissed \subseteq dismissed' /\ dismissed' \subseteq DOMAIN made
        /\ calls' \in [Callers -> Call] /\ calls'[r].pc = "free" /\ Elsewhere(r)
    BY Ending DEF TakenOut, Elsewhere, TransportTypeOK
  <1>2. \A q \in Callers \ {r} : At(q, "calling") => calls[q].key \in sessions' \cup dismissed'
    BY <1>1, OwnerTakesOut, CallFacts DEF At
  <1>3. TransportTypeOK'
    BY <1>1 DEF TransportTypeOK
  <1>4. CallsOK'
    BY <1>1, <1>2, CallAside, OtherCalls
  <1>5. WatermarkCovers' /\ ConsentNotRestored'
    BY <1>1 DEF WatermarkCovers, ConsentNotRestored
  <1> QED BY <1>3, <1>4, <1>5

\* A call with a handle and a message look their session up.
LEMMA LooksUp ==
    ASSUME TransportInv, NEW r \in Callers, NEW o \in Accounts, NEW k \in sessions,
           NEW pc \in {"lock", "verify"},
           calls' = [calls EXCEPT ![r] = [Free EXCEPT !.pc = pc, !.owner = o, !.key = k]],
           UNCHANGED <<sessions, made, dismissed, account>>
    PROVE  TransportInv'
  <1> USE DEF TransportInv
  <1> DEFINE c == [Free EXCEPT !.pc = pc, !.owner = o, !.key = k]
  <1>1. k \in DOMAIN made /\ k \in Nat
    BY DEF TransportTypeOK
  <1>2. c \in Call /\ c.pc = pc /\ c.key = k
    BY <1>1 DEF Free, Call, NoConsent, Decision, InHand
  <1> HIDE DEF c
  <1>3. calls' \in [Callers -> Call] /\ calls'[r].pc = pc /\ calls'[r].key = k /\ Elsewhere(r)
    BY <1>2, Moving DEF Elsewhere, c
  <1>4. CallOK(r)'
    BY <1>1, <1>3 DEF CallOK, HasItsSession, HoldsItsLock, IsItsOwner, IsAttached, At, Locked, Verified
  <1> QED BY <1>3, <1>4, GoingOn

LEMMA WebCallStep ==
    ASSUME TransportInv, NEW r \in Callers, NEW o \in Accounts, NEW k \in sessions, WebCall(r, o, k)
    PROVE  TransportInv'
  BY LooksUp DEF WebCall

\* A lock is taken when nobody holds it.
LEMMA LocksStep ==
    ASSUME TransportInv, NEW r \in Callers,
           \/ Locks(r, "lock", "recheck")
           \/ Locks(r, "relock", "messaging")
    PROVE  TransportInv'
  <1> USE DEF TransportInv
  <1> DEFINE key == calls[r].key
  <1>1. /\ calls[r].pc \in {"lock", "relock"} /\ key \in DOMAIN made
        /\ made[key].lock = NoOne
        /\ made' = [made EXCEPT ![key].lock = r]
        /\ UNCHANGED <<sessions, dismissed, account>>
    BY CallFacts DEF Locks, At, InHand
  <1>2. /\ DOMAIN made' = DOMAIN made /\ made' \in [DOMAIN made' -> Object]
        /\ made'[key].lock = r
        /\ \A j \in DOMAIN made : SameSession(j)
        /\ \A j \in DOMAIN made : j # key => made'[j] = made[j]
    BY <1>1, Locking
  <1>3. \A k \in DOMAIN made : \A q \in Callers \ {r} : made[k].lock = q => made'[k].lock = q
    BY <1>1, <1>2, TransportAssumption
  <1>4. PICK to \in {"recheck", "messaging"} :
           /\ GoesTo(r, to)
           /\ to = "messaging" => calls[r].pc = "relock"
    BY DEF Locks, At
  <1>5. /\ calls' \in [Callers -> Call] /\ Elsewhere(r)
        /\ calls'[r].pc = to /\ calls'[r].key = key /\ calls'[r].owner = calls[r].owner
    BY <1>4, Going DEF Elsewhere, InHand
  <1>6. to = "messaging" => made[key].owner = calls[r].owner
    BY <1>4, CallFacts DEF Verified
  <1>7. CallOK(r)'
    BY <1>1, <1>2, <1>5, <1>6 DEF CallOK, HasItsSession, HoldsItsLock, IsItsOwner, IsAttached, At, Verified,
        SameSession
  <1> QED BY <1>1, <1>2, <1>3, <1>5, <1>7, Passing

\* Once it holds the lock, the call goes on only if the map still has the
\* session, and as its owner's.
LEMMA WebRecheckStep ==
    ASSUME TransportInv, NEW r \in Callers, NEW bound \in BOOLEAN, WebRecheck(r, bound)
    PROVE  TransportInv'
  <1> USE DEF TransportInv
  <1> DEFINE key == calls[r].key
             goes == key \in sessions /\ bound /\ made[key].owner = calls[r].owner
  <1>1. /\ calls[r].pc = "recheck" /\ calls[r].pc \in Locked /\ key \in DOMAIN made
        /\ made[key].lock = r
        /\ UNCHANGED <<sessions, dismissed, account>>
    BY CallFacts DEF WebRecheck, At, InHand, Locked
  <1>2. CASE goes
    <2>1. GoesTo(r, "calling") /\ UNCHANGED made
      BY <1>2 DEF WebRecheck
    <2>2. /\ calls' \in [Callers -> Call] /\ Elsewhere(r)
          /\ calls'[r].pc = "calling" /\ calls'[r].key = key /\ calls'[r].owner = calls[r].owner
      BY <2>1, Going DEF Elsewhere, InHand
    <2>3. CallOK(r)'
      BY <1>1, <1>2, <2>1, <2>2 DEF CallOK, HasItsSession, HoldsItsLock, IsItsOwner, IsAttached, At
    <2> QED BY <1>1, <2>1, <2>2, <2>3, GoingOn
  <1>3. CASE ~ goes
    <2>1. Ends(r) /\ made' = Released(key)
      BY <1>3 DEF WebRecheck
    <2> QED BY <1>1, <2>1, EndsUnlocked
  <1> QED BY <1>2, <1>3

\* What a call does to the run of its session leaves the map as it is.
LEMMA WebCalledStep ==
    ASSUME TransportInv, NEW r \in Callers, NEW status \in Statuses, WebCalled(r, status)
    PROVE  TransportInv'
  <1> USE DEF TransportInv
  <1> DEFINE key == calls[r].key
  <1>1. /\ calls[r].pc \in Locked /\ key \in DOMAIN made
        /\ made' = [made EXCEPT ![key].lock = NoOne, ![key].status = status]
        /\ UNCHANGED <<sessions, dismissed, account>>
    BY CallFacts DEF WebCalled, At, InHand, Locked
  <1>2. /\ DOMAIN made' = DOMAIN made /\ made' \in [DOMAIN made' -> Object]
        /\ \A j \in DOMAIN made : SameSession(j)
        /\ \A j \in DOMAIN made : j # key => made'[j] = made[j]
    BY <1>1, Finishing
  <1>3. calls' \in [Callers -> Call] /\ calls'[r].pc = "free" /\ Elsewhere(r)
    BY Ending DEF WebCalled, Elsewhere
  <1> QED BY <1>1, <1>2, <1>3, CallAside, LetsGo

-----------------------------------------------------------------------------
(* Event-stream clients.                                                   *)

\* A new session that is put into the map at once, by a call that then holds
\* no session or this one.
LEMMA NewSession ==
    ASSUME TransportInv, NEW r \in Callers, NEW kind \in {"sse", "native"}, NEW o \in Accounts,
           made' = Extended(NewObject(kind, o, NoOne)), sessions' = sessions \cup {NextKey},
           UNCHANGED <<dismissed, account>>,
           calls' \in [Callers -> Call], Elsewhere(r),
           \/ calls' = calls
           \/ calls'[r].pc = "observe" /\ calls'[r].key = NextKey
    PROVE  TransportInv'
  <1> USE DEF TransportInv
  <1>1. NewObject(kind, o, NoOne) \in Object
    BY DEF NewObject, Object, NoConsent, Decision, Statuses
  <1>2. /\ \E n \in Nat : DOMAIN made' = 1 .. n
        /\ DOMAIN made' = DOMAIN made \cup {NextKey}
        /\ made' \in [DOMAIN made' -> Object]
        /\ \A k \in DOMAIN made : made'[k] = made[k]
    BY <1>1, Extending
  <1>3. WatermarkCovers' /\ ConsentNotRestored'
    BY <1>1, DecisionsExtended
  <1>4. TransportTypeOK'
    BY <1>2 DEF TransportTypeOK
  <1>5. CallOK(r)'
    <2>1. CASE calls' = calls
      <3>1. CallOK(r) /\ calls'[r] = calls[r]
        BY <2>1 DEF CallsOK
      <3>2. CASE calls[r].pc \notin InHand
        BY <3>1, <3>2 DEF CallOK, HasItsSession, HoldsItsLock, IsItsOwner, IsAttached, At, InHand, Locked,
            Verified
      <3>3. CASE calls[r].pc \in InHand
        <4>1. calls[r].key \in DOMAIN made
          BY <3>3, CallFacts
        <4>2. calls[r].key \in DOMAIN made' /\ made'[calls[r].key] = made[calls[r].key]
          BY <4>1, <1>2
        <4> QED BY <3>1, <4>2 DEF CallOK, HasItsSession, HoldsItsLock, IsItsOwner, IsAttached, At
      <3> QED BY <3>2, <3>3
    <2>2. CASE calls'[r].pc = "observe" /\ calls'[r].key = NextKey
      BY <2>2, <1>2 DEF CallOK, HasItsSession, HoldsItsLock, IsItsOwner, IsAttached, At, Locked, Verified
    <2> QED BY <2>1, <2>2
  <1>6. \A q \in Callers \ {r} : At(q, "calling") => calls[q].key \in sessions' \cup dismissed'
    BY CallFacts DEF At
  <1>7. CallsOK'
    BY <1>2, <1>5, <1>6, OtherCalls
  <1> QED BY <1>3, <1>4, <1>7

LEMMA SseConnectStep ==
    ASSUME TransportInv, NEW r \in Callers, NEW o \in Accounts, SseConnect(r, o)
    PROVE  TransportInv'
  BY NewSession DEF SseConnect, TransportInv, TransportTypeOK, Elsewhere

\* A stream that closes changes nothing the invariant speaks of.
LEMMA SseClosedStep ==
    ASSUME TransportInv, NEW k \in DOMAIN made, SseClosed(k)
    PROVE  TransportInv'
  <1> USE DEF TransportInv
  <1> DEFINE o == [made[k] EXCEPT !.open = FALSE]
  <1>1. /\ o \in Object
        /\ o.owner = made[k].owner /\ o.lock = made[k].lock
        /\ o.consent = made[k].consent /\ o.watermark = made[k].watermark
        /\ o.withdrawn = made[k].withdrawn
    <2>1. made[k] \in Object
      BY DEF TransportTypeOK
    <2> QED BY <2>1 DEF Object
  <1>2. made' = [made EXCEPT ![k] = o] /\ UNCHANGED <<sessions, calls, dismissed, account>>
    BY DEF SseClosed
  <1> HIDE DEF o
  <1>3. /\ DOMAIN made' = DOMAIN made /\ made' \in [DOMAIN made' -> Object]
        /\ \A j \in DOMAIN made : SameSession(j) /\ made'[j].lock = made[j].lock
    BY <1>1, <1>2, Rewriting DEF SameSession, SameDecisions
  <1>4. TransportTypeOK'
    BY <1>2, <1>3 DEF TransportTypeOK
  <1>5. ASSUME NEW q \in Callers
        PROVE  CallOK(q)'
    <2>1. CallOK(q) /\ calls' = calls
      BY <1>2 DEF CallsOK
    <2>2. CASE calls[q].pc \notin InHand
      BY <2>1, <2>2 DEF CallOK, HasItsSession, HoldsItsLock, IsItsOwner, IsAttached, At, InHand, Locked,
          Verified
    <2>3. CASE calls[q].pc \in InHand
      <3>1. calls[q].key \in DOMAIN made
        BY <2>3, CallFacts
      <3>2. /\ calls[q].key \in DOMAIN made'
            /\ made'[calls[q].key].owner = made[calls[q].key].owner
            /\ made'[calls[q].key].lock = made[calls[q].key].lock
        BY <1>3, <3>1 DEF SameSession
      <3> QED BY <1>2, <2>1, <3>2 DEF CallOK, HasItsSession, HoldsItsLock, IsItsOwner, IsAttached, At
    <2> QED BY <2>2, <2>3
  <1>6. WatermarkCovers' /\ ConsentNotRestored'
    BY <1>3, DecisionsKept DEF SameSession
  <1> QED BY <1>4, <1>5, <1>6 DEF CallsOK

-----------------------------------------------------------------------------
(* Messages.                                                               *)

LEMMA MessageArrivesStep ==
    ASSUME TransportInv, NEW r \in Callers, NEW o \in Accounts, NEW k \in sessions, MessageArrives(r, o, k)
    PROVE  TransportInv'
  BY LooksUp DEF MessageArrives

\* A message that goes on without a lock stays with the session of its owner.
LEMMA MessageGoesOn ==
    ASSUME TransportInv, NEW r \in Callers, calls[r].pc \in InHand,
           made[calls[r].key].owner = calls[r].owner,
           NEW to \in {"revalidate", "relock", "remove"}, GoesTo(r, to),
           UNCHANGED <<sessions, made, dismissed, account>>
    PROVE  TransportInv'
  <1> USE DEF TransportInv
  <1>1. calls[r].key \in DOMAIN made
    BY CallFacts
  <1>2. /\ calls' \in [Callers -> Call] /\ Elsewhere(r)
        /\ calls'[r].pc = to /\ calls'[r].key = calls[r].key /\ calls'[r].owner = calls[r].owner
    BY Going DEF Elsewhere, InHand
  <1>3. CallOK(r)'
    BY <1>1, <1>2 DEF CallOK, HasItsSession, HoldsItsLock, IsItsOwner, IsAttached, At, Locked
  <1> QED BY <1>2, <1>3, GoingOn

LEMMA MessageVerifiedStep ==
    ASSUME TransportInv, NEW r \in Callers, MessageVerified(r)
    PROVE  TransportInv'
  <1>1. calls[r].pc \in InHand /\ UNCHANGED <<sessions, made, dismissed, account>>
    BY DEF MessageVerified, At, InHand
  <1>2. CASE made[calls[r].key].owner = calls[r].owner
    BY <1>1, <1>2, MessageGoesOn DEF MessageVerified
  <1>3. CASE made[calls[r].key].owner # calls[r].owner
    BY <1>1, <1>3, JustEnds DEF MessageVerified
  <1> QED BY <1>2, <1>3

LEMMA MessageRevalidatedStep ==
    ASSUME TransportInv, NEW r \in Callers, NEW ok \in BOOLEAN, MessageRevalidated(r, ok)
    PROVE  TransportInv'
  <1>1. /\ calls[r].pc \in InHand /\ made[calls[r].key].owner = calls[r].owner
        /\ UNCHANGED <<sessions, made, dismissed, account>>
    BY CallFacts DEF MessageRevalidated, At, InHand, Verified
  <1> QED BY <1>1, MessageGoesOn DEF MessageRevalidated

\* The message has run: the lock goes before the answer is sent.
LEMMA MessageHandledStep ==
    ASSUME TransportInv, NEW r \in Callers, NEW status \in Statuses, NEW answered \in BOOLEAN,
           MessageHandled(r, status, answered)
    PROVE  TransportInv'
  <1> USE DEF TransportInv
  <1> DEFINE key == calls[r].key
  <1>1. /\ calls[r].pc \in Locked /\ key \in DOMAIN made /\ made[key].owner = calls[r].owner
        /\ made' = [made EXCEPT ![key].lock = NoOne, ![key].status = status]
        /\ UNCHANGED <<sessions, dismissed, account>>
    BY CallFacts DEF MessageHandled, At, InHand, Locked, Verified
  <1>2. /\ DOMAIN made' = DOMAIN made /\ made' \in [DOMAIN made' -> Object]
        /\ \A j \in DOMAIN made : SameSession(j)
        /\ \A j \in DOMAIN made : j # key => made'[j] = made[j]
    BY <1>1, Finishing
  <1>3. CASE ~ answered
    <2>1. calls' \in [Callers -> Call] /\ calls'[r].pc = "free" /\ Elsewhere(r)
      BY <1>3, Ending DEF MessageHandled, Elsewhere
    <2> QED BY <1>1, <1>2, <2>1, CallAside, LetsGo
  <1>4. CASE answered
    <2>1. /\ calls' \in [Callers -> Call] /\ Elsewhere(r)
          /\ calls'[r].pc = "send" /\ calls'[r].key = key /\ calls'[r].owner = calls[r].owner
      BY <1>4, Going DEF MessageHandled, Elsewhere, InHand
    <2>2. CallOK(r)'
      BY <1>1, <1>2, <2>1 DEF CallOK, HasItsSession, HoldsItsLock, IsItsOwner, IsAttached, At, Locked, SameSession
    <2> QED BY <1>1, <1>2, <2>1, <2>2, LetsGo
  <1> QED BY <1>3, <1>4

LEMMA MessageSentStep ==
    ASSUME TransportInv, NEW r \in Callers, MessageSent(r)
    PROVE  TransportInv'
  <1>1. /\ calls[r].pc \in InHand /\ made[calls[r].key].owner = calls[r].owner
        /\ UNCHANGED <<sessions, made, dismissed, account>>
    BY CallFacts DEF MessageSent, At, InHand, Verified
  <1>2. CASE made[calls[r].key].open
    BY <1>1, <1>2, JustEnds DEF MessageSent
  <1>3. CASE ~ made[calls[r].key].open
    BY <1>1, <1>3, MessageGoesOn DEF MessageSent
  <1> QED BY <1>2, <1>3

-----------------------------------------------------------------------------
(* Native clients.                                                         *)

\* A decision on telemetry is dated.
LEMMA AccountDecidesStep ==
    ASSUME TransportInv, NEW o \in Conversing, NEW on \in BOOLEAN, AccountDecides(o, on)
    PROVE  TransportInv'
  <1> USE DEF TransportInv
  <1>1. UNCHANGED <<sessions, made, calls, dismissed>> /\ o \in Accounts
    BY TransportAssumption DEF AccountDecides
  <1>2. account' \in [Accounts -> Decision]
    <2>1. account[o].at \in Nat
      BY <1>1 DEF TransportTypeOK, Decision
    <2>2. [on |-> on, at |-> account[o].at + 1] \in Decision
      BY <2>1 DEF Decision
    <2>3. account' = [account EXCEPT ![o] = [on |-> on, at |-> account[o].at + 1]]
      BY DEF AccountDecides
    <2> QED BY <2>2, <2>3 DEF TransportTypeOK
  <1>3. TransportTypeOK'
    BY <1>1, <1>2 DEF TransportTypeOK
  <1>4. CallsOK'
    BY <1>1 DEF CallsOK, CallOK, HasItsSession, HoldsItsLock, IsItsOwner, IsAttached, At
  <1>5. WatermarkCovers' /\ ConsentNotRestored'
    BY <1>1 DEF WatermarkCovers, ConsentNotRestored
  <1> QED BY <1>3, <1>4, <1>5

LEMMA NativeFetchStep ==
    ASSUME TransportInv, NEW r \in Callers, NEW o \in Conversing, NEW consent \in {account[o], NoConsent},
           NativeFetch(r, o, consent)
    PROVE  TransportInv'
  <1> USE DEF TransportInv
  <1> DEFINE c == [Free EXCEPT !.pc = "publish", !.owner = o, !.consent = consent]
  <1>1. o \in Accounts /\ consent \in Decision
    <2>1. o \in Accounts /\ account[o] \in Decision
      BY TransportAssumption DEF TransportTypeOK
    <2>2. NoConsent \in Decision
      BY DEF NoConsent, Decision
    <2> QED BY <2>1, <2>2
  <1>2. c \in Call /\ c.pc = "publish" /\ c.owner = o
    <2> HIDE DEF TransportInv
    <2>1. Free \in Call
      BY DEF Free, Call, NoConsent, Decision
    <2> QED BY <1>1, <2>1 DEF Call
  <1>3. calls' = [calls EXCEPT ![r] = c] /\ UNCHANGED <<sessions, made, dismissed, account>>
    BY DEF NativeFetch
  <1> HIDE DEF c
  <1>4. calls' \in [Callers -> Call] /\ calls'[r].pc = "publish" /\ calls'[r].owner = o /\ Elsewhere(r)
    BY <1>2, <1>3, Moving DEF Elsewhere
  <1> QED BY <1>1, <1>3, <1>4, CallAside, GoingOn

LEMMA NativePublishStep ==
    ASSUME TransportInv, NEW r \in Callers, NativePublish(r)
    PROVE  TransportInv'
  <1> USE DEF TransportInv
  <1>1. /\ calls[r].pc = "publish" /\ calls[r].owner \in Accounts /\ calls[r] \in Call
        /\ UNCHANGED <<dismissed, account>>
    BY CallFacts DEF NativePublish, At
  <1>2. ASSUME NEW k \in Nat, calls' = [calls EXCEPT ![r].pc = "observe", ![r].key = k]
        PROVE  /\ calls' \in [Callers -> Call] /\ Elsewhere(r)
               /\ calls'[r].pc = "observe" /\ calls'[r].key = k
    <2> DEFINE c == [calls[r] EXCEPT !.pc = "observe", !.key = k]
    <2>1. c \in Call /\ c.pc = "observe" /\ c.key = k
      BY <1>1 DEF Call, InHand
    <2>2. calls' = [calls EXCEPT ![r] = c]
      BY <1>2
    <2> HIDE DEF c
    <2> QED BY <2>1, <2>2, Moving DEF Elsewhere
  <1>3. CASE NativeKeys(calls[r].owner) # {}
    <2>1. /\ UNCHANGED <<sessions, made>>
          /\ \E k \in NativeKeys(calls[r].owner) : calls' = [calls EXCEPT ![r].pc = "observe", ![r].key = k]
      BY <1>3 DEF NativePublish
    <2>2. PICK k \in NativeKeys(calls[r].owner) : calls' = [calls EXCEPT ![r].pc = "observe", ![r].key = k]
      BY <2>1
    <2>3. k \in DOMAIN made /\ k \in Nat
      BY DEF NativeKeys, TransportTypeOK
    <2>4. /\ calls' \in [Callers -> Call] /\ Elsewhere(r)
          /\ calls'[r].pc = "observe" /\ calls'[r].key = k
      BY <1>2, <2>2, <2>3
    <2>5. CallOK(r)'
      BY <2>1, <2>3, <2>4 DEF CallOK, HasItsSession, HoldsItsLock, IsItsOwner, IsAttached, At, Locked, Verified
    <2> QED BY <1>1, <2>1, <2>4, <2>5, GoingOn
  <1>4. CASE NativeKeys(calls[r].owner) = {}
    <2>1. /\ sessions' = sessions \cup {NextKey}
          /\ made' = Extended(NewObject("native", calls[r].owner, NoOne))
          /\ calls' = [calls EXCEPT ![r].pc = "observe", ![r].key = NextKey]
      BY <1>4 DEF NativePublish
    <2>2. /\ calls' \in [Callers -> Call] /\ Elsewhere(r)
          /\ calls'[r].pc = "observe" /\ calls'[r].key = NextKey
      BY <1>2, <2>1, NextKeyIsNew
    <2> QED BY <1>1, <2>1, <2>2, NewSession
  <1> QED BY <1>3, <1>4

\* The decision is applied under the lock of the session, whenever it was
\* fetched.
LEMMA NativeObserveStep ==
    ASSUME TransportInv, NEW r \in Callers, NativeObserve(r)
    PROVE  TransportInv'
  <1> USE DEF TransportInv
  <1> DEFINE key == calls[r].key
             t == observe_telemetry_consent(made[key], calls[r].consent)
             o == [t EXCEPT !.lock = r]
  <1>1. /\ calls[r].pc = "observe" /\ key \in DOMAIN made
        /\ made[key].lock = NoOne /\ made[key] \in Object
        /\ calls[r].consent \in Decision
        /\ UNCHANGED <<sessions, dismissed, account>>
    BY CallFacts DEF NativeObserve, At, InHand, Call
  <1>2. /\ t \in Object
        /\ t.owner = made[key].owner
        /\ t.withdrawn <= t.watermark.at
        /\ t.watermark.on => t.watermark.at > t.withdrawn
        /\ t.consent.on => t.consent.at > t.withdrawn
    <2>1. /\ made[key].withdrawn <= made[key].watermark.at
          /\ made[key].watermark.on => made[key].watermark.at > made[key].withdrawn
          /\ made[key].consent.on => made[key].consent.at > made[key].withdrawn
      BY <1>1 DEF WatermarkCovers, ConsentNotRestored
    <2> QED BY <1>1, <2>1, Observing
  <1>3. made' = [made EXCEPT ![key] = o] /\ GoesTo(r, "native")
    BY DEF NativeObserve
  <1> HIDE DEF t
  <1>4. /\ o \in Object /\ o.lock = r
        /\ o.owner = t.owner
        /\ o.withdrawn = t.withdrawn /\ o.watermark = t.watermark /\ o.consent = t.consent
    BY <1>2 DEF Object
  <1> HIDE DEF o
  <1>5. /\ DOMAIN made' = DOMAIN made /\ made' \in [DOMAIN made' -> Object] /\ made'[key] = o
        /\ \A j \in DOMAIN made : j # key => made'[j] = made[j]
    BY <1>1, <1>3, <1>4, Rewriting
  <1>6. calls' \in [Callers -> Call] /\ calls'[r].pc = "native" /\ calls'[r].key = key /\ Elsewhere(r)
    BY <1>3, Going DEF Elsewhere, InHand
  <1>7. TransportTypeOK'
    BY <1>1, <1>5, <1>6 DEF TransportTypeOK
  <1>8. CallsOK'
    <2>1. CallOK(r)'
      BY <1>1, <1>4, <1>5, <1>6 DEF CallOK, HasItsSession, HoldsItsLock, IsItsOwner, IsAttached, At, Verified
    <2>2. \A k \in DOMAIN made : made'[k].owner = made[k].owner
      BY <1>2, <1>4, <1>5
    <2>3. \A q \in Callers \ {r} : \A k \in DOMAIN made : made[k].lock = q => made'[k].lock = q
      BY <1>1, <1>5, TransportAssumption
    <2>4. \A q \in Callers \ {r} : At(q, "calling") => calls[q].key \in sessions' \cup dismissed'
      BY <1>1, CallFacts DEF At
    <2> QED BY <1>5, <1>6, <2>1, <2>2, <2>3, <2>4, OtherCalls
  <1>9. WatermarkCovers' /\ ConsentNotRestored'
    BY <1>2, <1>4, <1>5 DEF WatermarkCovers, ConsentNotRestored
  <1> QED BY <1>7, <1>8, <1>9

LEMMA NativeAnswersStep ==
    ASSUME TransportInv, NEW r \in Callers, NativeAnswers(r)
    PROVE  TransportInv'
  BY EndsUnlocked DEF NativeAnswers, At, Locked

-----------------------------------------------------------------------------
(* The theorems.                                                           *)

\* A call that is dropped lets go what it holds, and nothing else.
LEMMA CancelledStep ==
    ASSUME TransportInv, NEW r \in Callers, Cancelled(r)
    PROVE  TransportInv'
  <1> USE DEF TransportInv
  <1>1. /\ calls' \in [Callers -> Call] /\ calls'[r].pc = "free" /\ Elsewhere(r)
        /\ UNCHANGED <<sessions, dismissed, account>>
    BY Ending DEF Cancelled, Elsewhere
  <1>2. DOMAIN made' = DOMAIN made
    BY DEF Cancelled
  <1>3. ASSUME NEW k \in DOMAIN made
        PROVE  /\ made'[k] \in Object /\ SameSession(k)
               /\ \A q \in Callers \ {r} : made[k].lock = q => made'[k].lock = q
    <2>1. made[k] \in Object
      BY DEF TransportTypeOK
    <2>2. made'[k] = IF made[k].lock = r THEN [made[k] EXCEPT !.lock = NoOne] ELSE made[k]
      BY DEF Cancelled
    <2> QED BY <2>1, <2>2 DEF Object, SameSession, SameDecisions
  <1>4. made' \in [DOMAIN made' -> Object]
    BY <1>2, <1>3 DEF Cancelled
  <1> QED BY <1>1, <1>2, <1>3, <1>4, CallAside, Passing

LEMMA TransportInitInv ==
    ASSUME TransportInit
    PROVE  TransportInv
  <1>1. DOMAIN made = 1 .. 0 /\ made \in [{} -> Object] /\ DOMAIN made = {}
    BY DEF TransportInit
  <1>2. /\ Free \in Call /\ Free.pc = "free"
        /\ NoConsent \in Decision
    BY DEF Free, Call, NoConsent, Decision
  <1>3. TransportTypeOK
    BY <1>1, <1>2 DEF TransportTypeOK, TransportInit
  <1>4. CallsOK
    BY <1>2 DEF TransportInit, CallsOK, CallOK, HasItsSession, HoldsItsLock, IsItsOwner, IsAttached,
        At, InHand, Locked, Verified
  <1> QED BY <1>1, <1>3, <1>4 DEF TransportInit, TransportInv, WatermarkCovers, ConsentNotRestored

\* Every step of a request, a client or an owner preserves the invariant.
LEMMA TransportNextInv ==
    ASSUME TransportInv, [TransportNext]_transportVars
    PROVE  TransportInv'
  <1>1. CASE WebNext
    <2>1. PICK r \in Callers :
             \/ \E o \in Accounts : WebLoad(r, o)
             \/ WebAdmit(r)
             \/ \E ok \in BOOLEAN : WebLoaded(r, ok)
             \/ \E o \in Accounts, k \in sessions : WebCall(r, o, k)
             \/ Locks(r, "lock", "recheck")
             \/ \E bound \in BOOLEAN : WebRecheck(r, bound)
             \/ \E status \in Statuses : WebCalled(r, status)
             \/ Gone(r)
      BY <1>1 DEF WebNext, Statuses
    <2> QED BY <2>1, WebLoadStep, WebAdmitStep, WebLoadedStep, WebCallStep, LocksStep, WebRecheckStep,
          WebCalledStep, TakenOutStep, CancelledStep DEF Gone
  <1>2. CASE SseNext
    BY <1>2, SseClosedStep, SseConnectStep DEF SseNext
  <1>3. CASE MessageNext
    <2>1. PICK r \in Callers :
             \/ \E o \in Accounts, k \in sessions : MessageArrives(r, o, k)
             \/ MessageVerified(r)
             \/ \E ok \in BOOLEAN : MessageRevalidated(r, ok)
             \/ Locks(r, "relock", "messaging")
             \/ \E status \in Statuses, answered \in BOOLEAN : MessageHandled(r, status, answered)
             \/ MessageSent(r)
             \/ Gone(r)
      BY <1>3 DEF MessageNext, Statuses
    <2> QED BY <2>1, MessageArrivesStep, MessageVerifiedStep, MessageRevalidatedStep, LocksStep,
          MessageHandledStep, MessageSentStep, TakenOutStep, CancelledStep DEF Gone
  <1>4. CASE ConversationNext
    BY <1>4, AccountDecidesStep, NativeFetchStep, NativePublishStep, NativeObserveStep, NativeAnswersStep,
        CancelledStep DEF ConversationNext
  <1>5. CASE UNCHANGED transportVars
    BY <1>5 DEF transportVars, TransportInv, TransportTypeOK, CallsOK, CallOK, HasItsSession, HoldsItsLock,
        IsItsOwner, IsAttached, At, WatermarkCovers, ConsentNotRestored
  <1> QED BY <1>1, <1>2, <1>3, <1>4, <1>5 DEF TransportNext, HandleNext

\* Only an admission and a request that takes its session out shorten the map.
LEMMA MapOnlyShrinks ==
    ASSUME [TransportNext]_transportVars
    PROVE  \/ sessions \subseteq sessions'
           \/ \E r \in Callers : WebAdmit(r) \/ TakenOut(r)
  <1>1. CASE WebNext
    BY <1>1 DEF WebNext, WebLoad, WebLoaded, WebCall, Locks, WebRecheck, WebCalled, Gone, Cancelled
  <1>2. CASE SseNext
    BY <1>2 DEF SseNext, SseClosed, SseConnect
  <1>3. CASE MessageNext
    BY <1>3 DEF MessageNext, MessageArrives, MessageVerified, MessageRevalidated, Locks, MessageHandled,
        MessageSent, Gone, Cancelled
  <1>4. CASE ConversationNext
    BY <1>4 DEF ConversationNext, AccountDecides, NativeFetch, NativePublish, NativeObserve, NativeAnswers,
        Cancelled
  <1>5. CASE UNCHANGED transportVars
    BY <1>5 DEF transportVars
  <1> QED BY <1>1, <1>2, <1>3, <1>4, <1>5 DEF TransportNext, HandleNext

\* What an admission reclaims is locked by nobody, so that nobody starts a run
\* there or uses it.
LEMMA StepSparesRuns ==
    ASSUME TransportInv, [TransportNext]_transportVars
    PROVE  SparesRuns
  <1> SUFFICES ASSUME NEW k \in sessions \ sessions', k \notin dismissed'
               PROVE  /\ made[k].status # "active"
                      /\ \A q \in Callers : calls[q].key = k =>
                             calls[q].pc \notin {"loading", "recheck", "calling", "messaging"}
    BY DEF SparesRuns
  <1>1. PICK r \in Callers : WebAdmit(r) \/ TakenOut(r)
    BY MapOnlyShrinks
  <1>2. WebAdmit(r)
    BY <1>1, OwnerTakesOut
  <1>3. k \notin Swept(calls[r].owner)
    BY <1>2 DEF WebAdmit
  <1>4. made[k].lock = NoOne /\ made[k].status # "active"
    BY <1>3, Sweeping
  <1>5. \A q \in Callers : calls[q].pc \in Locked => made[calls[q].key].lock = q
    BY CallFacts
  <1> QED BY <1>4, <1>5, TransportAssumption DEF Locked

\* The invariant holds, whatever is admitted, reclaimed, refused, revoked,
\* posted, hung up or decided, and in whatever order.
THEOREM SessionsInOrder == TransportSpec => []TransportInv
  BY TransportInitInv, TransportNextInv, PTL DEF TransportSpec

\* The retain of an admission spares what is locked and what is active,
\* whatever loads, calls and messages are under way; everything else that
\* leaves the map is taken out by a request of its owner.
THEOREM RunsPinned == TransportSpec => RunsStayPinned
  <1>1. TransportInv /\ [TransportNext]_transportVars => [SparesRuns]_transportVars
    BY StepSparesRuns
  <1> QED BY <1>1, SessionsInOrder, PTL DEF TransportSpec, RunsStayPinned

\* A call never runs on a session that was reclaimed while it waited for the
\* lock, nor on that of another owner; only a message of its own owner puts it
\* out of the map.
THEOREM CallsAttached == TransportSpec => []NeverDetached
  <1>1. TransportInv => NeverDetached
    BY DEF TransportInv, CallsOK, CallOK, IsItsOwner, IsAttached, NeverDetached, At, Verified
  <1> QED BY <1>1, SessionsInOrder, PTL

\* A catalogue that arrives late does not turn reporting back on: the decision
\* a session applies, when it is on, is later than every withdrawal it saw.
THEOREM WithdrawalStands == TransportSpec => []ConsentNotRestored
  <1>1. TransportInv => ConsentNotRestored
    BY DEF TransportInv
  <1> QED BY <1>1, SessionsInOrder, PTL

-----------------------------------------------------------------------------
(* The tool servers.                                                       *)

Message == [kind : {"request", "note"}, id : Nat]
Reply == [id : Nat, from : ServerIds]
ReplyOf(s) == [id : Nat, from : {s}]

\* What a pipe holds comes from its own server.
PipesOK ==
    /\ stdout \in [ServerIds -> Seq(Reply)]
    /\ \A s \in ServerIds : stdout[s] \in Seq(ReplyOf(s))

UpstreamTypeOK ==
    /\ stage \in {"spawn", "initialize", "discover", "ready", "calling", "failed"}
    /\ at \in ServerIds
    /\ stdin \in [ServerIds -> Seq(Message)]
    /\ PipesOK
    /\ next_id \in [ServerIds -> Nat \ {0}]
    /\ DOMAIN found = ServerIds
    /\ \A t \in DOMAIN tool_to_server : tool_to_server[t] \in ServerIds
    /\ answer \in [assessed : ServerIds \cup {NoServer}, server : ServerIds \cup {NoServer},
                   id : Nat, got : Nat, from : ServerIds \cup {NoServer}]

\* Lines that ask for no answer, and lines of which the last one, with this
\* id, does.
Notes(lines) == \A i \in 1 .. Len(lines) : lines[i].kind = "note"

Asks(lines, id) ==
    /\ Len(lines) > 0
    /\ lines[Len(lines)] = Request(id)
    /\ \A i \in 1 .. Len(lines) - 1 : lines[i].kind = "note"

\* The server takes no request any more that it has not taken.
AsksNothing(s) == s \in dead \/ Notes(stdin[s])

\* No answer of the server is in flight; of one that wrote a line nobody asked
\* for there is nothing to say.
Quiet(s) ==
    \/ s \in noisy
    \/ stdout[s] = << >> /\ AsksNothing(s)

\* One is, to the request with this id; a server that died may owe it for ever.
Owes(s, id) ==
    \/ s \in noisy
    \/ stdout[s] = <<[id |-> id, from |-> s]>> /\ AsksNothing(s)
    \/ stdout[s] = << >> /\ (s \in dead \/ Asks(stdin[s], id))

InFlight ==
    /\ stage = "initialize" => Owes(at, 0)
    /\ stage \in {"discover", "calling"} => Owes(at, next_id[at] - 1)
    /\ stage # "failed" =>
        \A s \in ServerIds : s # at \/ stage \in {"spawn", "ready"} => Quiet(s)

\* The call that waits for its answer.
CallInProgress ==
    stage = "calling" =>
        /\ answer.from = NoServer
        /\ answer.assessed = at
        /\ answer.server = at
        /\ answer.id = next_id[at] - 1

UpstreamInv ==
    /\ UpstreamTypeOK
    /\ InFlight
    /\ CallInProgress
    /\ AnswerIsOwn

-----------------------------------------------------------------------------
(* Lines in a pipe.                                                        *)

\* An empty pipe into which a request is written asks it.
LEMMA AsksWritten ==
    ASSUME NEW q \in Seq(Message), Notes(q), NEW id \in Nat
    PROVE  /\ Append(q, Request(id)) \in Seq(Message)
           /\ Asks(Append(q, Request(id)), id)
  <1>1. Request(id) \in Message
    BY DEF Request, Message
  <1>2. /\ Append(q, Request(id)) \in Seq(Message) /\ Append(q, Request(id)) # << >>
        /\ Len(Append(q, Request(id))) = Len(q) + 1
        /\ \A i \in 1 .. Len(q) : Append(q, Request(id))[i] = q[i]
        /\ Append(q, Request(id))[Len(q) + 1] = Request(id)
    BY <1>1, AppendProperties
  <1>3. Len(q) \in Nat
    BY LenProperties
  <1> QED BY <1>2, <1>3 DEF Asks, Notes

\* So does one into which a notification goes before the request.
LEMMA NotedAndAsked ==
    ASSUME NEW q \in Seq(Message), NEW id \in Nat
    PROVE  /\ q \o <<[kind |-> "note", id |-> 0], Request(id)>> \in Seq(Message)
           /\ Notes(q) => Asks(q \o <<[kind |-> "note", id |-> 0], Request(id)>>, id)
  <1> DEFINE two == <<[kind |-> "note", id |-> 0], Request(id)>>
             p == q \o two
  <1>1. /\ two \in Seq(Message) /\ Len(two) = 2
        /\ two[1].kind = "note" /\ two[2] = Request(id)
    <2> DEFINE note == [kind |-> "note", id |-> 0]
    <2>1. note \in Message /\ note.kind = "note" /\ Request(id) \in Message
      BY DEF Request, Message
    <2> HIDE DEF note
    <2>2. <<note, Request(id)>> \in Seq(Message)
      BY <2>1
    <2> QED BY <2>1, <2>2 DEF note
  <1> HIDE DEF two
  <1>2. /\ p \in Seq(Message) /\ Len(p) = Len(q) + 2
        /\ \A i \in 1 .. Len(q) + 2 : p[i] = IF i <= Len(q) THEN q[i] ELSE two[i - Len(q)]
    <2>1. /\ p \in Seq(Message) /\ Len(p) = Len(q) + Len(two)
          /\ \A i \in 1 .. Len(q) + Len(two) : p[i] = IF i <= Len(q) THEN q[i] ELSE two[i - Len(q)]
      <3> two \in Seq(Message)
        BY <1>1
      <3> QED BY ConcatProperties, Zenon
    <2> QED BY <1>1, <2>1
  <1>3. Len(q) \in Nat
    BY LenProperties
  <1> HIDE DEF p
  <1>4. Len(p) > 0
    BY <1>2, <1>3
  <1>5. p[Len(p)] = Request(id)
    BY <1>1, <1>2, <1>3
  <1>6. Notes(q) => \A i \in 1 .. Len(p) - 1 : p[i].kind = "note"
    BY <1>1, <1>2, <1>3 DEF Notes
  <1>7. p \in Seq(Message) /\ (Notes(q) => Asks(p, id))
    BY <1>2, <1>4, <1>5, <1>6 DEF Asks
  <1> QED BY <1>7 DEF p, two

\* What a server leaves when it takes a line: after a note, what there was to
\* answer; after the request, nothing.
LEMMA LineTaken ==
    ASSUME NEW q \in Seq(Message), q # << >>
    PROVE  /\ Head(q) \in Message
           /\ Tail(q) \in Seq(Message)
           /\ Notes(q) => Head(q).kind = "note" /\ Notes(Tail(q))
           /\ \A id \in Nat : Asks(q, id) =>
                IF Head(q).kind = "note" THEN Asks(Tail(q), id)
                ELSE Head(q).id = id /\ Notes(Tail(q))
  <1>1. /\ Head(q) \in Message /\ Tail(q) \in Seq(Message)
        /\ Len(Tail(q)) = Len(q) - 1
        /\ \A i \in 1 .. Len(Tail(q)) : Tail(q)[i] = q[i + 1]
    BY HeadTailProperties
  <1>2. Head(q) = q[1] /\ Len(q) \in Nat /\ Len(q) > 0
    BY EmptySeq, LenProperties
  <1>3. Notes(q) => Head(q).kind = "note" /\ Notes(Tail(q))
    BY <1>1, <1>2 DEF Notes
  <1>4. ASSUME NEW id \in Nat, Asks(q, id), Head(q).kind = "note"
        PROVE  Asks(Tail(q), id)
    <2>1. Len(q) # 1
      BY <1>2, <1>4 DEF Asks, Request
    <2>2. Len(Tail(q)) > 0
      BY <1>1, <1>2, <2>1
    <2>3. Tail(q)[Len(Tail(q))] = q[Len(q)]
      BY <1>1, <1>2, <2>1
    <2>4. \A i \in 1 .. Len(Tail(q)) - 1 : Tail(q)[i].kind = "note"
      BY <1>1, <1>2, <1>4 DEF Asks
    <2> QED BY <1>4, <2>2, <2>3, <2>4 DEF Asks
  <1>5. ASSUME NEW id \in Nat, Asks(q, id), Head(q).kind # "note"
        PROVE  Head(q).id = id /\ Notes(Tail(q))
    <2>1. Len(q) = 1
      <3> DEFINE n == Len(q)
      <3>1. n \in Nat /\ n > 0 /\ ~ 1 \in 1 .. n - 1
        BY <1>2, <1>5 DEF Asks
      <3> HIDE DEF n
      <3>2. n = 1
        BY <3>1
      <3> QED BY <3>2 DEF n
    <2>2. Head(q).id = id
      <3>1. q[Len(q)] = Request(id)
        BY <1>5 DEF Asks
      <3>2. Request(id).id = id
        BY DEF Request
      <3>3. Head(q) = Request(id)
        BY <1>2, <2>1, <3>1, Zenon
      <3> QED BY <3>2, <3>3, Zenon
    <2>3. Len(Tail(q)) = 0
      <3>1. Len(Tail(q)) = Len(q) - 1
        BY <1>1, Zenon
      <3> DEFINE n == Len(q)
                 m == Len(Tail(q))
      <3>2. m = n - 1 /\ n = 1
        BY <2>1, <3>1
      <3> HIDE DEF m, n
      <3>3. m = 0
        BY <3>2
      <3> QED BY <3>3 DEF m
    <2>4. \A i \in 1 .. 0 : Tail(q)[i].kind = "note"
      OBVIOUS
    <2>5. Notes(Tail(q))
      BY <2>3, <2>4, Zenon DEF Notes
    <2> QED BY <2>2, <2>5
  <1> QED BY <1>1, <1>3, <1>4, <1>5

-----------------------------------------------------------------------------
(* What is in flight.                                                      *)

\* A pipe nobody touches keeps what is in flight, also when a server dies.
LEMMA PipeKept ==
    ASSUME NEW s \in ServerIds, stdin'[s] = stdin[s], stdout'[s] = stdout[s], dead \subseteq dead',
           noisy \subseteq noisy'
    PROVE  /\ Quiet(s) => Quiet(s)'
           /\ \A id \in Nat : Owes(s, id) => Owes(s, id)'
  BY DEF Quiet, Owes, AsksNothing

\* A request to a server with nothing in flight puts its answer there.
LEMMA Asking ==
    ASSUME UpstreamTypeOK, NEW s \in ServerIds, Quiet(s), NEW id \in Nat, Writes(s, Request(id)),
           UNCHANGED <<stdout, dead, noisy>>
    PROVE  /\ stdin' \in [ServerIds -> Seq(Message)]
           /\ Owes(s, id)'
           /\ \A r \in ServerIds : r # s => stdin'[r] = stdin[r]
  <1> DEFINE q == stdin[s]
  <1>1. q \in Seq(Message)
    BY DEF UpstreamTypeOK
  <1>2. Request(id) \in Message
    BY DEF Request, Message
  <1>3. Append(q, Request(id)) \in Seq(Message)
    BY <1>1, <1>2, AppendProperties
  <1>4. /\ stdin' = [stdin EXCEPT ![s] = Append(q, Request(id))]
        /\ stdin'[s] = Append(q, Request(id))
    BY DEF Writes, UpstreamTypeOK
  <1>5. Notes(q) => Asks(stdin'[s], id)
    BY <1>1, <1>4, AsksWritten
  <1>6. Owes(s, id)'
    BY <1>5 DEF Quiet, Owes, AsksNothing
  <1> QED BY <1>3, <1>4, <1>6 DEF UpstreamTypeOK

\* Reading takes a line of the server, or finds it gone.
LEMMA LineRead ==
    ASSUME UpstreamTypeOK, NEW s \in ServerIds, Taken(s)
    PROVE  /\ PipesOK'
           /\ \A r \in ServerIds : r # s => stdout'[r] = stdout[r]
           /\ Line(s).from \in ServerIds \cup {NoServer}
           /\ Line(s).from # NoServer => Line(s).from = s
           /\ Line(s).id \in Nat
  <1> DEFINE q == stdout[s]
  <1>1. q \in Seq(ReplyOf(s)) /\ q \in Seq(Reply)
    BY DEF UpstreamTypeOK, PipesOK
  <1>2. CASE q = << >>
    <2>1. Line(s) = [id |-> 0, from |-> NoServer]
      BY <1>2 DEF Line
    <2>2. stdout' = stdout
      BY <1>2 DEF Taken, UpstreamTypeOK, PipesOK
    <2> QED BY <2>1, <2>2 DEF UpstreamTypeOK, PipesOK
  <1>3. CASE q # << >>
    <2>1. Head(q) \in ReplyOf(s) /\ Tail(q) \in Seq(ReplyOf(s)) /\ Tail(q) \in Seq(Reply)
      BY <1>1, <1>3, HeadTailProperties
    <2>2. Line(s) = Head(q)
      BY <1>3 DEF Line
    <2>3. stdout' = [stdout EXCEPT ![s] = Tail(q)]
      BY <1>3 DEF Taken
    <2>4. Line(s).id \in Nat /\ Line(s).from = s
      BY <2>1, <2>2 DEF ReplyOf
    <2> HIDE DEF q
    <2>5. \A r \in ServerIds : r # s => stdout'[r] = stdout[r]
      BY <2>3 DEF UpstreamTypeOK, PipesOK
    <2>6. PipesOK'
      BY <2>1, <2>3 DEF UpstreamTypeOK, PipesOK
    <2> QED BY <2>4, <2>5, <2>6
  <1> QED BY <1>2, <1>3

\* Of a server that wrote nothing of its own it takes the answer that is in
\* flight, and leaves none.
LEMMA Reading ==
    ASSUME UpstreamTypeOK, NEW s \in ServerIds, NEW id \in Nat, Owes(s, id), CanRead(s), Taken(s),
           s \notin noisy
    PROVE  /\ stdout'[s] = << >> /\ AsksNothing(s)
           /\ Line(s).from # NoServer => Line(s).id = id
  <1> DEFINE line == [id |-> id, from |-> s]
  <1>1. CASE stdout[s] = << >>
    <2>1. s \in dead
      BY <1>1 DEF CanRead
    <2>2. Line(s) = [id |-> 0, from |-> NoServer]
      BY <1>1 DEF Line
    <2>3. stdout' = stdout
      BY <1>1 DEF Taken, UpstreamTypeOK, PipesOK
    <2> QED BY <1>1, <2>1, <2>2, <2>3 DEF AsksNothing
  <1>2. CASE stdout[s] # << >>
    <2>1. stdout[s] = <<line>> /\ AsksNothing(s)
      BY <1>2 DEF Owes
    <2> HIDE DEF line
    <2>3. Head(<<line>>) = line /\ Tail(<<line>>) = << >>
      OBVIOUS
    <2>4. Line(s) = line
      BY <1>2, <2>1, <2>3 DEF Line
    <2>5. stdout' = [stdout EXCEPT ![s] = << >>]
      BY <1>2, <2>1, <2>3 DEF Taken
    <2>6. line.id = id
      BY DEF line
    <2> QED BY <2>1, <2>4, <2>5, <2>6 DEF UpstreamTypeOK, PipesOK
  <1> QED BY <1>1, <1>2

\* A server that takes a line moves what is in flight along.
LEMMA Serving ==
    ASSUME UpstreamTypeOK, NEW s \in ServerIds, ServerTakes(s)
    PROVE  /\ stdin' \in [ServerIds -> Seq(Message)]
           /\ PipesOK'
           /\ \A r \in ServerIds :
                /\ Quiet(r) => Quiet(r)'
                /\ \A id \in Nat : Owes(r, id) => Owes(r, id)'
  <1> DEFINE q == stdin[s]
             line == [id |-> Head(q).id, from |-> s]
  <1>1. q \in Seq(Message) /\ q # << >> /\ s \notin dead /\ UNCHANGED <<dead, noisy>>
    BY DEF ServerTakes, UpstreamTypeOK, PipesOK
  <1>2. /\ Head(q) \in Message /\ Tail(q) \in Seq(Message)
        /\ Notes(q) => Head(q).kind = "note" /\ Notes(Tail(q))
        /\ \A id \in Nat : Asks(q, id) =>
             IF Head(q).kind = "note" THEN Asks(Tail(q), id) ELSE Head(q).id = id /\ Notes(Tail(q))
    BY <1>1, LineTaken
  <1>3. stdin' = [stdin EXCEPT ![s] = Tail(q)] /\ stdin'[s] = Tail(q)
    BY DEF ServerTakes, UpstreamTypeOK, PipesOK
  <1>4. line \in Reply /\ line \in ReplyOf(s)
    BY <1>2 DEF Reply, ReplyOf, Message
  <1>5. ASSUME NEW r \in ServerIds, r # s
        PROVE  stdin'[r] = stdin[r] /\ stdout'[r] = stdout[r]
    BY <1>5 DEF ServerTakes, UpstreamTypeOK, PipesOK
  <1>6. CASE Head(q).kind = "note"
    <2>1. stdout' = stdout
      BY <1>6 DEF ServerTakes
    <2>2. Quiet(s) => Quiet(s)'
      BY <1>1, <1>2, <1>3, <2>1 DEF Quiet, AsksNothing
    <2>3. ASSUME NEW id \in Nat, Owes(s, id)
          PROVE  Owes(s, id)'
      BY <1>1, <1>2, <1>3, <1>6, <2>1, <2>3 DEF Owes, AsksNothing
    <2>4. stdin' \in [ServerIds -> Seq(Message)] /\ PipesOK'
      <3>1. PipesOK'
        BY <2>1 DEF UpstreamTypeOK, PipesOK
      <3> QED BY <1>2, <1>3, <3>1 DEF UpstreamTypeOK
    <2>5. \A r \in ServerIds : r # s =>
            (Quiet(r) => Quiet(r)') /\ \A id \in Nat : Owes(r, id) => Owes(r, id)'
      BY <1>1, <1>5, PipeKept
    <2> QED BY <2>2, <2>3, <2>4, <2>5
  <1>7. CASE Head(q).kind # "note"
    <2>1. stdout' = [stdout EXCEPT ![s] = Append(@, line)] /\ stdout'[s] = Append(stdout[s], line)
      BY <1>7 DEF ServerTakes, UpstreamTypeOK, PipesOK
    <2>2. ~ Notes(q)
      BY <1>2, <1>7
    <2>3. Quiet(s) => Quiet(s)'
      BY <1>1, <2>2 DEF Quiet, AsksNothing
    <2>4. ASSUME NEW id \in Nat, Owes(s, id)
          PROVE  Owes(s, id)'
      <3> SUFFICES ASSUME s \notin noisy
                   PROVE  Owes(s, id)'
        BY <1>1 DEF Owes
      <3>1. stdout[s] = << >> /\ Asks(q, id)
        BY <1>1, <2>2, <2>4 DEF Owes, AsksNothing
      <3>2. Head(q).id = id /\ Notes(Tail(q))
        BY <1>2, <1>7, <3>1
      <3>3. Append(<< >>, line) = <<line>>
        OBVIOUS
      <3>4. stdout'[s] = <<[id |-> id, from |-> s]>>
        BY <2>1, <3>1, <3>2, <3>3
      <3> QED BY <1>3, <3>2, <3>4 DEF Owes, AsksNothing
    <2>5. PipesOK'
      <3>1. Append(stdout[s], line) \in Seq(Reply) /\ Append(stdout[s], line) \in Seq(ReplyOf(s))
        BY <1>4, AppendProperties DEF UpstreamTypeOK, PipesOK
      <3> HIDE DEF line
      <3> QED BY <2>1, <3>1 DEF UpstreamTypeOK, PipesOK
    <2>6. stdin' \in [ServerIds -> Seq(Message)]
      BY <1>2, <1>3 DEF UpstreamTypeOK
    <2> QED BY <1>1, <1>5, <2>3, <2>4, <2>5, <2>6, PipeKept
  <1> QED BY <1>6, <1>7

\* Of a server that writes a line nobody asked for nothing is claimed any more.
LEMMA Saying ==
    ASSUME UpstreamTypeOK, NEW s \in ServerIds, ServerSays(s)
    PROVE  /\ stdin' \in [ServerIds -> Seq(Message)]
           /\ PipesOK'
           /\ \A r \in ServerIds :
                /\ Quiet(r) => Quiet(r)'
                /\ \A id \in Nat : Owes(r, id) => Owes(r, id)'
  <1> DEFINE line == [id |-> 0, from |-> s]
  <1>1. line \in Reply /\ line \in ReplyOf(s)
    BY DEF Reply, ReplyOf
  <1>2. /\ stdout' = [stdout EXCEPT ![s] = Append(@, line)]
        /\ s \in noisy' /\ noisy \subseteq noisy' /\ UNCHANGED <<stdin, dead>>
    BY DEF ServerSays
  <1> HIDE DEF line
  <1>3. Append(stdout[s], line) \in Seq(Reply) /\ Append(stdout[s], line) \in Seq(ReplyOf(s))
    BY <1>1, AppendProperties DEF UpstreamTypeOK, PipesOK
  <1>4. PipesOK' /\ \A r \in ServerIds : r # s => stdout'[r] = stdout[r]
    BY <1>2, <1>3 DEF UpstreamTypeOK, PipesOK
  <1>5. Quiet(s)' /\ \A id \in Nat : Owes(s, id)'
    BY <1>2 DEF Quiet, Owes
  <1> QED BY <1>2, <1>4, <1>5, PipeKept DEF UpstreamTypeOK

-----------------------------------------------------------------------------
(* The steps.                                                              *)

\* What the steps of start leave alone keeps the last answer what it was.
LEMMA AnswerKept ==
    ASSUME CallInProgress, AnswerIsOwn, UNCHANGED answer,
           noisy \subseteq noisy',
           stage' = "calling" => stage = "calling" /\ UNCHANGED <<at, next_id>>
    PROVE  CallInProgress' /\ AnswerIsOwn'
  BY DEF CallInProgress, AnswerIsOwn

\* What there is in flight, for a server and an id that do not change with
\* the state.
LEMMA InFlightNow ==
    ASSUME InFlight, UpstreamTypeOK
    PROVE  \E s \in ServerIds, id \in Nat :
             /\ s = at /\ next_id[s] - 1 = id /\ next_id[s] = id + 1
             /\ stage = "initialize" => Owes(s, 0)
             /\ stage \in {"discover", "calling"} => Owes(s, id)
             /\ stage # "failed" =>
                  \A r \in ServerIds : r # s \/ stage \in {"spawn", "ready"} => Quiet(r)
  <1>1. at \in ServerIds /\ next_id[at] \in Nat \ {0}
    BY DEF UpstreamTypeOK
  <1>2. next_id[at] - 1 \in Nat /\ next_id[at] = next_id[at] - 1 + 1
    BY <1>1
  <1> QED BY <1>1, <1>2 DEF InFlight

LEMMA InFlightNext ==
    ASSUME NEW s \in ServerIds, at' = s, NEW id \in Nat,
           stage' = "initialize" => Owes(s, 0)',
           stage' \in {"discover", "calling"} => Owes(s, id)' /\ next_id'[s] - 1 = id,
           stage' # "failed" =>
             \A r \in ServerIds : r # s \/ stage' \in {"spawn", "ready"} => Quiet(r)'
    PROVE  InFlight'
  <1>1. (stage = "initialize" => Owes(at, 0))'
    BY DEF Owes, AsksNothing
  <1>2. (stage \in {"discover", "calling"} => Owes(at, next_id[at] - 1))'
    BY DEF Owes, AsksNothing
  <1> QED BY <1>1, <1>2 DEF InFlight

LEMMA SpawnStep ==
    ASSUME UpstreamInv, NEW ok \in BOOLEAN, Spawn(ok)
    PROVE  UpstreamInv'
  <1> USE DEF UpstreamInv
  <1>1. PICK s \in ServerIds :
          /\ stage = "spawn" /\ s = at /\ \A r \in ServerIds : Quiet(r)
          /\ UNCHANGED <<at, stdout, dead, noisy, found, tool_to_server, next_id, called, answer>>
    BY InFlightNow DEF Spawn
  <1>2. CASE ok
    <2>1. stage' = "initialize" /\ Writes(s, Request(0))
      BY <1>1, <1>2 DEF Spawn
    <2>2. /\ stdin' \in [ServerIds -> Seq(Message)]
          /\ Owes(s, 0)'
          /\ \A r \in ServerIds : r # s => stdin'[r] = stdin[r]
      BY <1>1, <2>1, Asking
    <2>3. \A r \in ServerIds : r # s => Quiet(r)'
      BY <1>1, <2>2, PipeKept
    <2>4. InFlight'
      BY <1>1, <2>1, <2>2, <2>3, InFlightNext
    <2>5. UpstreamTypeOK'
      BY <1>1, <2>1, <2>2 DEF UpstreamTypeOK, PipesOK
    <2> QED BY <1>1, <2>1, <2>4, <2>5, AnswerKept
  <1>3. CASE ~ ok
    <2>1. stage' = "failed" /\ UNCHANGED stdin
      BY <1>3 DEF Spawn
    <2> QED BY <1>1, <2>1, AnswerKept DEF InFlight, UpstreamTypeOK, PipesOK
  <1> QED BY <1>2, <1>3

LEMMA StartFailsStep ==
    ASSUME UpstreamInv, StartFails
    PROVE  UpstreamInv'
  BY AnswerKept DEF UpstreamInv, StartFails, InFlight, UpstreamTypeOK, PipesOK

\* The answer of initialize is out of the pipe before the tools are asked for.
LEMMA InitializeStep ==
    ASSUME UpstreamInv, Initialize
    PROVE  UpstreamInv'
  <1> USE DEF UpstreamInv
  <1>1. PICK s \in ServerIds, id \in Nat :
          /\ stage = "initialize" /\ s = at /\ Owes(s, 0) /\ next_id[s] = id
          /\ \A r \in ServerIds : r # s => Quiet(r)
    BY InFlightNow DEF Initialize, UpstreamTypeOK
  <1> DEFINE q == stdin[s]
             new == q \o <<[kind |-> "note", id |-> 0], Request(id)>>
  <1>2. /\ CanRead(s) /\ Taken(s) /\ stage' = "discover" /\ id \in Nat
        /\ stdin' = [stdin EXCEPT ![s] = new] /\ next_id' = [next_id EXCEPT ![s] = id + 1]
        /\ UNCHANGED <<at, dead, noisy, found, tool_to_server, called, answer>>
    BY <1>1 DEF Initialize
  <1>3. /\ PipesOK'
        /\ s \notin noisy => stdout'[s] = << >> /\ AsksNothing(s)
        /\ \A r \in ServerIds : r # s => stdout'[r] = stdout[r]
    BY <1>1, <1>2, Reading, LineRead
  <1>4. new \in Seq(Message) /\ (Notes(q) => Asks(new, id))
    <2>1. q \in Seq(Message)
      BY DEF UpstreamTypeOK
    <2> QED BY <2>1, NotedAndAsked
  <1> HIDE DEF new
  <1>5. /\ stdin' \in [ServerIds -> Seq(Message)] /\ stdin'[s] = new
        /\ \A r \in ServerIds : r # s => stdin'[r] = stdin[r]
        /\ next_id' \in [ServerIds -> Nat \ {0}] /\ next_id'[s] - 1 = id
    <2>1. id + 1 \in Nat \ {0} /\ (id + 1) - 1 = id
      BY <1>2
    <2>2. next_id' \in [ServerIds -> Nat \ {0}] /\ next_id'[s] - 1 = id
      BY <1>2, <2>1 DEF UpstreamTypeOK
    <2> QED BY <1>2, <1>4, <2>2 DEF UpstreamTypeOK
  <1>6. Owes(s, id)'
    BY <1>2, <1>3, <1>4, <1>5 DEF Owes, AsksNothing
  <1>7. \A r \in ServerIds : r # s => Quiet(r)'
    BY <1>1, <1>2, <1>3, <1>5, PipeKept
  <1>8. InFlight'
    BY <1>1, <1>2, <1>5, <1>6, <1>7, InFlightNext
  <1>9. UpstreamTypeOK'
    BY <1>2, <1>3, <1>5 DEF UpstreamTypeOK
  <1> QED BY <1>1, <1>2, <1>8, <1>9, AnswerKept

\* A server whose last answer was read has nothing in flight.
LEMMA QuietAfterRead ==
    ASSUME NEW s \in ServerIds, s \notin noisy => stdout'[s] = << >> /\ AsksNothing(s),
           UNCHANGED <<stdin, dead, noisy>>,
           \A r \in ServerIds : r # s => stdout'[r] = stdout[r] /\ Quiet(r)
    PROVE  \A r \in ServerIds : Quiet(r)'
  BY DEF Quiet, AsksNothing

\* The list of the tools, too, is out before the next server is started, or the
\* first call is made.
LEMMA DiscoverStep ==
    ASSUME UpstreamInv, NEW parsed \in BOOLEAN, Discover(parsed)
    PROVE  UpstreamInv'
  <1> USE DEF UpstreamInv
  <1>1. PICK s \in ServerIds, id \in Nat :
          /\ stage = "discover" /\ s = at /\ Owes(s, id)
          /\ \A r \in ServerIds : r # s => Quiet(r)
    BY InFlightNow DEF Discover
  <1>2. CanRead(s) /\ Taken(s) /\ UNCHANGED <<stdin, dead, noisy, next_id, called, answer>>
    BY <1>1 DEF Discover
  <1>3. /\ PipesOK'
        /\ s \notin noisy => stdout'[s] = << >> /\ AsksNothing(s)
        /\ \A r \in ServerIds : r # s => stdout'[r] = stdout[r]
    BY <1>1, <1>2, Reading, LineRead
  <1>4. \A r \in ServerIds : Quiet(r)'
    BY <1>1, <1>2, <1>3, QuietAfterRead
  <1>5. CASE EndOfFile(s) \/ ~ parsed
    <2>1. stage' = "failed" /\ UNCHANGED <<at, found, tool_to_server>>
      BY <1>1, <1>5 DEF Discover
    <2> QED BY <1>2, <1>3, <2>1, AnswerKept DEF InFlight, UpstreamTypeOK
  <1>6. CASE ~ EndOfFile(s) /\ parsed
    <2> DEFINE list == IF Line(s).id = next_id[s] - 1 THEN Listed[s] ELSE << >>
    <2>1. /\ found' = [found EXCEPT ![s] = list]
          /\ tool_to_server' = [t \in DOMAIN tool_to_server \cup Names(list) |->
                                  IF t \in Names(list) THEN s ELSE tool_to_server[t]]
          /\ stage' = IF s = Len(Listed) THEN "ready" ELSE "spawn"
          /\ at' = IF s = Len(Listed) THEN s ELSE s + 1
      BY <1>1, <1>6 DEF Discover
    <2> HIDE DEF list
    <2>2. at' \in ServerIds /\ stage' \in {"ready", "spawn"}
      BY <2>1, UpstreamAssumption
    <2>3. UpstreamTypeOK'
      BY <1>2, <1>3, <2>1, <2>2 DEF UpstreamTypeOK
    <2>4. InFlight'
      BY <1>4, <2>2 DEF InFlight
    <2> QED BY <1>2, <2>2, <2>3, <2>4, AnswerKept
  <1> QED BY <1>5, <1>6

\* A call is made when nothing is in flight; one that cannot be written puts
\* nothing there.
LEMMA CallToolStep ==
    ASSUME UpstreamInv, NEW name \in ToolNames, NEW written \in BOOLEAN, CallTool(name, written)
    PROVE  UpstreamInv'
  <1> USE DEF UpstreamInv
  <1>1. /\ stage = "ready" /\ at \in ServerIds /\ \A r \in ServerIds : Quiet(r)
        /\ UNCHANGED <<stdout, dead, noisy, found, tool_to_server>>
    BY InFlightNow DEF CallTool
  <1>2. CASE tool_info(name) = NoServer
    <2>1. answer' = NoAnswer /\ UNCHANGED <<stage, at, stdin, next_id>>
      BY <1>2 DEF CallTool
    <2>2. UpstreamTypeOK'
      BY <1>1, <2>1 DEF UpstreamTypeOK, PipesOK, NoAnswer
    <2>3. InFlight'
      BY <1>1, <2>1, PipeKept DEF InFlight
    <2>4. CallInProgress' /\ AnswerIsOwn'
      BY <1>1, <2>1 DEF CallInProgress, AnswerIsOwn, NoAnswer
    <2> QED BY <2>2, <2>3, <2>4
  <1>3. CASE tool_info(name) # NoServer
    <2>1. PICK s \in ServerIds, id \in Nat \ {0} :
            s = tool_to_server[name] /\ tool_info(name) = s /\ id = next_id[s]
      BY <1>3 DEF tool_info, UpstreamTypeOK
    <2>2. /\ next_id' = [next_id EXCEPT ![s] = @ + 1]
          /\ answer' = [NoAnswer EXCEPT !.assessed = s, !.server = s, !.id = id]
          /\ IF written THEN Writes(s, Request(id)) /\ stage' = "calling" /\ at' = s
             ELSE UNCHANGED <<stage, at, stdin>>
      BY <1>3, <2>1 DEF CallTool
    <2>3. /\ answer'.assessed = s /\ answer'.server = s /\ answer'.id = id /\ answer'.got = 0
          /\ answer'.from = NoServer
          /\ answer' \in [assessed : ServerIds \cup {NoServer}, server : ServerIds \cup {NoServer},
                          id : Nat, got : Nat, from : ServerIds \cup {NoServer}]
      BY <2>2 DEF NoAnswer
    <2>4. next_id' \in [ServerIds -> Nat \ {0}] /\ next_id'[s] - 1 = id
      <3>1. id + 1 \in Nat \ {0} /\ (id + 1) - 1 = id
        BY <2>1
      <3>2. next_id' = [next_id EXCEPT ![s] = id + 1]
        BY <2>1, <2>2
      <3> QED BY <3>1, <3>2 DEF UpstreamTypeOK
    <2>5. AnswerIsOwn'
      BY <2>3 DEF AnswerIsOwn
    <2>6. CASE written
      <3>1. Writes(s, Request(id)) /\ stage' = "calling" /\ at' = s
        BY <2>2, <2>6
      <3>2. /\ stdin' \in [ServerIds -> Seq(Message)]
            /\ Owes(s, id)'
            /\ \A r \in ServerIds : r # s => stdin'[r] = stdin[r]
        BY <1>1, <3>1, Asking
      <3>3. UpstreamTypeOK'
        BY <1>1, <2>3, <2>4, <3>1, <3>2 DEF UpstreamTypeOK, PipesOK
      <3>4. \A r \in ServerIds : r # s => Quiet(r)'
        BY <1>1, <3>2, PipeKept
      <3>5. InFlight'
        BY <2>4, <3>1, <3>2, <3>4, InFlightNext
      <3>6. CallInProgress'
        BY <2>3, <2>4, <3>1 DEF CallInProgress
      <3> QED BY <2>5, <3>3, <3>5, <3>6
    <2>7. CASE ~ written
      <3>1. UNCHANGED <<stage, at, stdin>>
        BY <2>2, <2>7
      <3>2. UpstreamTypeOK'
        BY <1>1, <2>3, <2>4, <3>1 DEF UpstreamTypeOK, PipesOK
      <3>3. InFlight' /\ CallInProgress'
        BY <1>1, <3>1, PipeKept DEF InFlight, CallInProgress
      <3> QED BY <2>5, <3>2, <3>3
    <2> QED BY <2>6, <2>7
  <1> QED BY <1>2, <1>3

\* The line that is read is the answer that is in flight.
LEMMA ReadAnswerStep ==
    ASSUME UpstreamInv, ReadAnswer
    PROVE  UpstreamInv'
  <1> USE DEF UpstreamInv
  <1>1. PICK s \in ServerIds, id \in Nat :
          /\ stage = "calling" /\ s = at /\ Owes(s, id) /\ next_id[s] - 1 = id
          /\ \A r \in ServerIds : r # s => Quiet(r)
    BY InFlightNow DEF ReadAnswer
  <1>2. /\ CanRead(s) /\ Taken(s) /\ stage' = "ready"
        /\ answer' = [answer EXCEPT !.got = Line(s).id, !.from = Line(s).from]
        /\ UNCHANGED <<at, stdin, dead, noisy, found, tool_to_server, next_id, called>>
    BY <1>1 DEF ReadAnswer
  <1>3. /\ PipesOK'
        /\ s \notin noisy => stdout'[s] = << >> /\ AsksNothing(s)
        /\ \A r \in ServerIds : r # s => stdout'[r] = stdout[r]
        /\ Line(s).from # NoServer => Line(s).from = s
        /\ Line(s).from # NoServer /\ s \notin noisy => Line(s).id = id
        /\ Line(s).from \in ServerIds \cup {NoServer} /\ Line(s).id \in Nat
    BY <1>1, <1>2, Reading, LineRead
  <1>4. answer.assessed = s /\ answer.server = s /\ answer.id = id
    BY <1>1 DEF CallInProgress
  <1>5. /\ answer' \in [assessed : ServerIds \cup {NoServer}, server : ServerIds \cup {NoServer},
                        id : Nat, got : Nat, from : ServerIds \cup {NoServer}]
        /\ answer'.assessed = s /\ answer'.server = s /\ answer'.id = id
        /\ answer'.got = Line(s).id /\ answer'.from = Line(s).from
    BY <1>2, <1>3, <1>4 DEF UpstreamTypeOK
  <1>6. \A r \in ServerIds : Quiet(r)'
    BY <1>1, <1>2, <1>3, QuietAfterRead
  <1>7. InFlight' /\ CallInProgress'
    BY <1>2, <1>6 DEF InFlight, CallInProgress
  <1>8. UpstreamTypeOK'
    BY <1>2, <1>3, <1>5 DEF UpstreamTypeOK
  <1>9. AnswerIsOwn'
    BY <1>2, <1>3, <1>5 DEF AnswerIsOwn
  <1> QED BY <1>7, <1>8, <1>9

LEMMA ServerStep ==
    ASSUME UpstreamInv, NEW r \in ServerIds, ServerTakes(r) \/ ServerSays(r) \/ ServerDies(r)
    PROVE  UpstreamInv'
  <1> USE DEF UpstreamInv
  <1>1. /\ UNCHANGED <<stage, at, found, tool_to_server, next_id, called, answer>>
        /\ noisy \subseteq noisy'
    BY DEF ServerTakes, ServerSays, ServerDies
  <1>2. /\ stdin' \in [ServerIds -> Seq(Message)]
        /\ PipesOK'
        /\ \A s \in ServerIds :
             /\ Quiet(s) => Quiet(s)'
             /\ \A id \in Nat : Owes(s, id) => Owes(s, id)'
    <2>1. CASE ServerTakes(r)
      BY <2>1, Serving
    <2>2. CASE ServerSays(r)
      BY <2>2, Saying
    <2>3. CASE ServerDies(r)
      BY <2>3, PipeKept DEF ServerDies, UpstreamTypeOK, PipesOK
    <2> QED BY <2>1, <2>2, <2>3
  <1>3. UpstreamTypeOK'
    BY <1>1, <1>2 DEF UpstreamTypeOK
  <1>4. InFlight'
    <2>1. PICK s \in ServerIds, id \in Nat :
            /\ s = at /\ next_id[s] - 1 = id
            /\ stage = "initialize" => Owes(s, 0)
            /\ stage \in {"discover", "calling"} => Owes(s, id)
            /\ stage # "failed" =>
                 \A q \in ServerIds : q # s \/ stage \in {"spawn", "ready"} => Quiet(q)
      BY InFlightNow
    <2> QED BY <1>1, <1>2, <2>1, InFlightNext
  <1> QED BY <1>1, <1>3, <1>4, AnswerKept

LEMMA UpstreamInitInv ==
    ASSUME UpstreamInit
    PROVE  UpstreamInv
  <1>1. 1 \in ServerIds
    BY UpstreamAssumption
  <1>2. << >> \in Seq(Message) /\ << >> \in Seq(Reply) /\ Len(<< >>) = 0
        /\ \A s \in ServerIds : << >> \in Seq(ReplyOf(s))
    OBVIOUS
  <1>3. UpstreamTypeOK
    BY <1>1, <1>2 DEF UpstreamInit, UpstreamTypeOK, PipesOK, NoAnswer
  <1>4. \A s \in ServerIds : Quiet(s)
    BY <1>2 DEF UpstreamInit, Quiet, AsksNothing, Notes
  <1> QED BY <1>3, <1>4 DEF UpstreamInit, UpstreamInv, InFlight, CallInProgress, AnswerIsOwn, NoAnswer

LEMMA UpstreamNextInv ==
    ASSUME UpstreamInv, [UpstreamNext]_upstreamVars
    PROVE  UpstreamInv'
  <1>1. CASE UpstreamNext
    BY <1>1, SpawnStep, StartFailsStep, InitializeStep, DiscoverStep, CallToolStep, ReadAnswerStep,
        ServerStep DEF UpstreamNext
  <1>2. CASE UNCHANGED upstreamVars
    BY <1>2 DEF upstreamVars, UpstreamInv, UpstreamTypeOK, InFlight, Owes, Quiet, AsksNothing,
        CallInProgress, AnswerIsOwn, PipesOK
  <1> QED BY <1>1, <1>2

\* At most one answer of a server that writes nothing else is in flight, and
\* the call that waits for it is the one that asked for it.
THEOREM OneInFlight == UpstreamSpec => []UpstreamInv
  BY UpstreamInitInv, UpstreamNextInv, PTL DEF UpstreamSpec

\* call_tool takes the next line of the server without a look at its id.  The
\* line comes from the server whose descriptor was assessed, and from a server
\* that writes nothing but answers it is the answer to the call's own request,
\* or the end of the file.
THEOREM AnswersMatch == UpstreamSpec => []AnswerIsOwn
  <1>1. UpstreamInv => AnswerIsOwn
    BY DEF UpstreamInv
  <1> QED BY <1>1, OneInFlight, PTL

=============================================================================
