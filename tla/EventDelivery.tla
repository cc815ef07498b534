--------------------------- MODULE EventDelivery ---------------------------
(***************************************************************************)
(* Lifecycle events of one owner's runs and their delivery to webhooks     *)
(* (events.rs, event_delivery.rs).  The outbox lives in the database and   *)
(* several gateways work on it.  A worker sends inside a transaction that  *)
(* holds the rows of the delivery, of its subscription and of the grant:   *)
(* inflight says who holds what.  Statements that wait for such a row are  *)
(* guarded by its being free.  subscribing is the owner's advisory lock,   *)
(* held by a subscribe call while it verifies the callback.                *)
(*                                                                         *)
(* Time is what it makes true: a delivery falls due, a subscription or a   *)
(* grant expires, a verification ages, a rotation ends.                    *)
(***************************************************************************)
EXTENDS Naturals, Sequences, FiniteSets

CONSTANTS
    Null,
    Subscribers,        \* subscription ids: owner, callback and run
    RunOf,              \* [Subscribers -> EventRuns]
    CallbackOf,         \* the url of each
    EventRuns,
    Observations,       \* what a gateway may see of its run
    Grants,             \* API keys
    Secrets,
    Workers,
    SubscriptionLimit,  \* 64
    MaxAttempts,        \* 6
    MaxEvents,
    MaxFaults           \* crashes, lost answers and database failures

ASSUME DeliveryAssumption ==
    /\ SubscriptionLimit \in Nat \ {0}
    /\ MaxAttempts \in Nat \ {0}
    /\ MaxEvents \in Nat
    /\ MaxFaults \in Nat
    /\ RunOf \in [Subscribers -> EventRuns]
    /\ DOMAIN CallbackOf = Subscribers
    /\ Null \notin EventRuns \cup Secrets \cup Subscribers
    /\ \A o \in Observations :
        o.run \in EventRuns \cup {Null} /\ (o.run = Null <=> o.status = "inactive")

VARIABLES
    observed,       \* what the gateway saw of its run last
    events,         \* the events published so far
    subs,           \* the subscriptions table: [Subscribers -> row or Null]
    deliveries,     \* [Subscribers \X (1 .. MaxEvents) -> row or Null]
    grants,         \* the api_keys that are not revoked
    lapsedGrants,   \* those whose time is up
    subscribing,    \* Null, or the call that holds the owner's lock
    inflight,       \* [Workers -> Null or what the worker holds]
    taken,          \* how often the receiver took a delivery
    faults

outbox == <<events, subs, deliveries>>
credentials == <<grants, lapsedGrants>>
deliveryVars == <<observed, outbox, credentials, subscribing, inflight, taken, faults>>

EventIds == 1 .. MaxEvents
Inactive == [run |-> Null, epoch |-> 0, status |-> "inactive"]

\* The rows of the two tables; Null is none of them.
SubscriptionRow ==
    [enabled : BOOLEAN, expired : BOOLEAN, grant : Grants, secret : Secrets \cup {Null},
     previous : Secrets \cup {Null}, rotating : BOOLEAN, fresh : BOOLEAN]

DeliveryRow ==
    [status : {"pending", "delivered", "failed", "cancelled"}, attempts : Nat, due : BOOLEAN]

ASSUME RowAssumption == Null \notin SubscriptionRow \cup DeliveryRow

DeliveryInit ==
    /\ observed = Inactive
    /\ events = <<>>
    /\ subs = [s \in Subscribers |-> Null]
    /\ deliveries = [d \in Subscribers \X EventIds |-> Null]
    /\ grants = Grants
    /\ lapsedGrants = {}
    /\ subscribing = Null
    /\ inflight = [w \in Workers |-> Null]
    /\ taken = [d \in Subscribers \X EventIds |-> 0]
    /\ faults = 0

-----------------------------------------------------------------------------
(* Rows and locks.                                                         *)

Live(s) == subs[s] # Null /\ subs[s].enabled /\ ~subs[s].expired

Pending(s, e) == deliveries[<<s, e>>] # Null /\ deliveries[<<s, e>>].status = "pending"

\* Mutant: the subscription's row is not locked.
UnlockedAlways(s) == TRUE

\* FOR UPDATE OF s, d: no other transaction changes the row, nor inserts a
\* delivery that refers to it.
Unlocked(s) == \A w \in Workers : inflight[w] # Null => inflight[w].sub # s

\* authorized: the grant is read FOR SHARE, so it cannot be revoked while a
\* transaction that checked it is open; its expiry is compared with the clock
\* at that moment only.  The rows of the runs are taken to stay.
Authorized(grant) == grant \in grants \ lapsedGrants

GrantHeld(grant) ==
    \/ \E w \in Workers : inflight[w] # Null /\ inflight[w].grant = grant
    \/ subscribing # Null /\ subscribing.grant = grant

Disabled(row) == [row EXCEPT !.enabled = FALSE, !.secret = Null, !.previous = Null]

-----------------------------------------------------------------------------
(* Subscriptions.                                                          *)

\* The owner has the callback verified with this key since five minutes.
RecentlyVerified(s, secret) ==
    \E t \in Subscribers :
        /\ CallbackOf[t] = CallbackOf[s]
        /\ Live(t) /\ subs[t].secret = secret /\ subs[t].fresh

\* The checks of events/subscribe that come before the callback is verified.
BeginSubscribe(s, grant, secret) ==
    /\ subscribing = Null
    /\ Authorized(grant)
    /\ Cardinality({t \in Subscribers \ {s} : Live(t)}) < SubscriptionLimit
    /\ subscribing' = [sub |-> s, grant |-> grant, secret |-> secret,
                       verified |-> RecentlyVerified(s, secret)]
    /\ UNCHANGED <<observed, outbox, credentials, inflight, taken, faults>>

\* The row that INSERT ... ON CONFLICT DO UPDATE leaves: a key that replaces
\* a working one keeps signing until the rotation ends.
Upserted(s) ==
    LET row == subs[s]
        rotates == row # Null /\ Live(s) /\ row.secret # subscribing.secret
    IN [enabled |-> TRUE, expired |-> FALSE, grant |-> subscribing.grant,
        secret |-> subscribing.secret,
        previous |-> IF rotates THEN row.secret ELSE IF row = Null THEN Null ELSE row.previous,
        rotating |-> rotates \/ (row # Null /\ row.rotating),
        fresh |-> IF subscribing.verified /\ row # Null THEN row.fresh ELSE TRUE]

\* verify_callback succeeded, or the callback was verified a moment ago.
EndSubscribe ==
    /\ subscribing # Null
    /\ Unlocked(subscribing.sub)
    /\ subs' = [subs EXCEPT ![subscribing.sub] = Upserted(subscribing.sub)]
    /\ subscribing' = Null
    /\ UNCHANGED <<observed, events, deliveries, credentials, inflight, taken, faults>>

\* verify_callback failed, or the call was dropped: the transaction is rolled back.
AbandonSubscribe ==
    /\ subscribing # Null
    /\ subscribing' = Null
    /\ UNCHANGED <<observed, outbox, credentials, inflight, taken, faults>>

\* DELETE cascades to the deliveries.
Removed(s) ==
    /\ subs' = [subs EXCEPT ![s] = Null]
    /\ deliveries' = [d \in DOMAIN deliveries |-> IF d[1] = s THEN Null ELSE deliveries[d]]

Unsubscribe(s) ==
    /\ subscribing = Null
    /\ subs[s] # Null
    /\ Unlocked(s)
    /\ Removed(s)
    /\ UNCHANGED <<observed, events, credentials, subscribing, inflight, taken, faults>>

-----------------------------------------------------------------------------
(* Publishing.                                                             *)

KindOf(before, after) ==
    CASE after.status = "inactive" -> "deactivated"
      [] after.status = "paused" -> "paused"
      [] after.status = "final" -> "finalized"
      [] OTHER -> IF before.run # after.run \/ before.status = "paused"
                  THEN "loaded" ELSE "transitioned"

\* lifecycle_change: Null when nothing changed or no run was involved.  An
\* observation that no longer names a run is about the run it had.
LifecycleChange(before, after) ==
    LET run == IF after.run = Null THEN before.run ELSE after.run
    IN IF before = after \/ run = Null THEN Null
       ELSE [run |-> run, kind |-> KindOf(before, after), status |-> after.status]

\* publish: one row for each subscription of the run.
Enqueued(event) ==
    [d \in DOMAIN deliveries |->
        IF /\ d[2] = Len(events) + 1
           /\ Live(d[1]) /\ RunOf[d[1]] = event.run
           /\ deliveries[d] = Null
        THEN [status |-> "pending", attempts |-> 0, due |-> TRUE]
        ELSE deliveries[d]]

\* handle_message: a tool call changed the run and succeeded.
Publish(after) ==
    LET event == LifecycleChange(observed, after)
    IN /\ event # Null
       /\ Len(events) < MaxEvents
       /\ \A s \in Subscribers : RunOf[s] = event.run /\ Live(s) => Unlocked(s)
       /\ observed' = after
       /\ events' = Append(events, event)
       /\ deliveries' = Enqueued(event)
       /\ UNCHANGED <<subs, credentials, subscribing, inflight, taken, faults>>

\* The database is unavailable: the change stands and the event is lost.
LosePublish(after) ==
    /\ faults < MaxFaults
    /\ LifecycleChange(observed, after) # Null
    /\ observed' = after
    /\ faults' = faults + 1
    /\ UNCHANGED <<outbox, credentials, subscribing, inflight, taken>>

-----------------------------------------------------------------------------
(* deliver_one.                                                            *)

Due(s, e) == Pending(s, e) /\ deliveries[<<s, e>>].due /\ Unlocked(s)

\* Mutant: a delivery whose subscription is gone stays as it is.
CancelDeliveriesNever(w, s, e) ==
    /\ inflight[w] = Null
    /\ Due(s, e)
    /\ ~(Live(s) /\ Authorized(subs[s].grant))
    /\ UNCHANGED deliveryVars

\* The subscription or its grant is no longer good: all it has is cancelled.
CancelDeliveries(w, s, e) ==
    /\ inflight[w] = Null
    /\ Due(s, e)
    /\ ~(Live(s) /\ Authorized(subs[s].grant))
    /\ subs' = [subs EXCEPT ![s] = Disabled(@)]
    /\ deliveries' = [d \in DOMAIN deliveries |->
                        IF d[1] = s /\ Pending(s, d[2])
                        THEN [deliveries[d] EXCEPT !.status = "cancelled"]
                        ELSE deliveries[d]]
    /\ UNCHANGED <<observed, events, credentials, subscribing, inflight, taken, faults>>

SigningKeys(row) ==
    {row.secret} \cup (IF row.rotating /\ row.previous # Null THEN {row.previous} ELSE {})

Send(w, s, e) ==
    /\ inflight[w] = Null
    /\ Due(s, e)
    /\ Live(s)
    /\ Authorized(subs[s].grant)
    /\ inflight' = [inflight EXCEPT ![w] = [sub |-> s, event |-> e, grant |-> subs[s].grant,
                                            keys |-> SigningKeys(subs[s])]]
    /\ UNCHANGED <<observed, outbox, credentials, subscribing, taken, faults>>

\* retry_delay: no answer and the transient statuses, before the last attempt.
Retried(answer, attempt) ==
    answer \in {"none", "lost", "transient"} /\ attempt < MaxAttempts

\* Mutant: a delivery that was accepted is sent again.
AnsweredAgain(row, answer) ==
    [status |-> IF row.attempts + 1 < MaxAttempts THEN "pending" ELSE "failed",
     attempts |-> row.attempts + 1,
     due |-> FALSE]

Answered(row, answer) ==
    LET attempt == row.attempts + 1
    IN [status |-> IF answer = "accepted" THEN "delivered"
                   ELSE IF Retried(answer, attempt) THEN "pending" ELSE "failed",
        attempts |-> attempt,
        due |-> FALSE]

\* The receiver took the delivery when it accepted it and when its answer was lost.
Took(s, e, answer) ==
    taken' = [taken EXCEPT ![<<s, e>>] = IF answer \in {"accepted", "lost"} THEN @ + 1 ELSE @]

CommitSend(w, answer) ==
    /\ inflight[w] # Null
    /\ answer = "lost" => faults < MaxFaults
    /\ LET s == inflight[w].sub
           e == inflight[w].event
       IN /\ deliveries' = [deliveries EXCEPT ![<<s, e>>] = Answered(@, answer)]
          /\ subs' = [subs EXCEPT ![s] = IF answer = "gone" THEN Disabled(@) ELSE @]
          /\ Took(s, e, answer)
    /\ faults' = IF answer = "lost" THEN faults + 1 ELSE faults
    /\ inflight' = [inflight EXCEPT ![w] = Null]
    /\ UNCHANGED <<observed, events, credentials, subscribing>>

\* The worker or its connection dies: the transaction is rolled back, whatever
\* the receiver has got.
Crash(w) ==
    /\ inflight[w] # Null
    /\ faults < MaxFaults
    /\ faults' = faults + 1
    /\ \E answer \in {"lost", "none"} : Took(inflight[w].sub, inflight[w].event, answer)
    /\ inflight' = [inflight EXCEPT ![w] = Null]
    /\ UNCHANGED <<observed, outbox, credentials, subscribing>>

-----------------------------------------------------------------------------
(* Time, and the statements a worker runs after its sends.                 *)

FallsDue(s, e) ==
    /\ Pending(s, e)
    /\ ~deliveries[<<s, e>>].due
    /\ deliveries' = [deliveries EXCEPT ![<<s, e>>].due = TRUE]
    /\ UNCHANGED <<observed, events, subs, credentials, subscribing, inflight, taken, faults>>

Expires(s) ==
    /\ subs[s] # Null
    /\ ~subs[s].expired
    /\ subs' = [subs EXCEPT ![s].expired = TRUE]
    /\ UNCHANGED <<observed, events, deliveries, credentials, subscribing, inflight, taken, faults>>

\* The five minutes of a verification or of a rotation are over.
Ages(s) ==
    /\ subs[s] # Null
    /\ \/ subs[s].fresh /\ subs' = [subs EXCEPT ![s].fresh = FALSE]
       \/ subs[s].rotating /\ subs' = [subs EXCEPT ![s].rotating = FALSE]
    /\ UNCHANGED <<observed, events, deliveries, credentials, subscribing, inflight, taken, faults>>

\* Secrets are reclaimed once they are of no use.
Reclaim(s) ==
    /\ subs[s] # Null
    /\ Unlocked(s)
    /\ \/ subs[s].expired /\ subs[s].enabled /\ subs' = [subs EXCEPT ![s] = Disabled(@)]
       \/ /\ ~subs[s].rotating /\ subs[s].previous # Null
          /\ subs' = [subs EXCEPT ![s].previous = Null]
    /\ UNCHANGED <<observed, events, deliveries, credentials, subscribing, inflight, taken, faults>>

\* A day after it expired.
Purge(s) ==
    /\ subs[s] # Null
    /\ subs[s].expired
    /\ Unlocked(s)
    /\ Removed(s)
    /\ UNCHANGED <<observed, events, credentials, subscribing, inflight, taken, faults>>

\* A day after a delivery was made, unless it is still to be sent.
PurgeDelivery(s, e) ==
    /\ deliveries[<<s, e>>] # Null
    /\ ~Pending(s, e)
    /\ deliveries' = [deliveries EXCEPT ![<<s, e>>] = Null]
    /\ UNCHANGED <<observed, events, subs, credentials, subscribing, inflight, taken, faults>>

Revoke(grant) ==
    /\ grant \in grants
    /\ ~GrantHeld(grant)
    /\ grants' = grants \ {grant}
    /\ UNCHANGED <<observed, outbox, lapsedGrants, subscribing, inflight, taken, faults>>

\* No lock holds time up: a grant may lapse while a worker sends.
GrantLapses(grant) ==
    /\ grant \in Grants \ lapsedGrants
    /\ lapsedGrants' = lapsedGrants \cup {grant}
    /\ UNCHANGED <<observed, outbox, grants, subscribing, inflight, taken, faults>>

-----------------------------------------------------------------------------

Answers == {"accepted", "lost", "none", "transient", "permanent", "gone"}

DeliveryNext ==
    \/ \E s \in Subscribers :
        \/ \E grant \in Grants, secret \in Secrets : BeginSubscribe(s, grant, secret)
        \/ Unsubscribe(s)
        \/ Expires(s)
        \/ Ages(s)
        \/ Reclaim(s)
        \/ Purge(s)
    \/ EndSubscribe
    \/ AbandonSubscribe
    \/ \E after \in Observations : Publish(after) \/ LosePublish(after)
    \/ \E s \in Subscribers, e \in EventIds :
        \/ \E w \in Workers : Send(w, s, e) \/ CancelDeliveries(w, s, e)
        \/ FallsDue(s, e)
        \/ PurgeDelivery(s, e)
    \/ \E w \in Workers : Crash(w) \/ \E answer \in Answers : CommitSend(w, answer)
    \/ \E grant \in Grants : Revoke(grant) \/ GrantLapses(grant)

\* Workers take the delivery that is due longest (ORDER BY next_attempt_at), so
\* none is passed over for ever; every send ends within ten seconds.
DeliveryFairness ==
    /\ \A s \in Subscribers, e \in EventIds :
        /\ SF_deliveryVars(\E w \in Workers : Send(w, s, e) \/ CancelDeliveries(w, s, e))
        /\ WF_deliveryVars(FallsDue(s, e))
    /\ \A w \in Workers : WF_deliveryVars(\E answer \in Answers : CommitSend(w, answer))

DeliverySpec == DeliveryInit /\ [][DeliveryNext]_deliveryVars /\ DeliveryFairness

-----------------------------------------------------------------------------
(* Properties.                                                             *)

\* While a worker sends, the subscription exists, the grant it was checked
\* against is not revoked (its time may run out in the ten seconds the post
\* can take), the key it signs with is the subscription's, and no other worker
\* sends for the subscription (deliver_one: the row locks "serialize
\* rotation/cancellation with in-flight sends"; dispatch: "No callbacks
\* survive an acknowledged delete").
SendIsAuthorized ==
    \A w \in Workers : inflight[w] # Null =>
        LET s == inflight[w].sub
        IN /\ subs[s] # Null
           /\ inflight[w].grant \in grants
           /\ subs[s].secret \in inflight[w].keys
           /\ Pending(s, inflight[w].event)
           /\ \A v \in Workers \ {w} : inflight[v] # Null => inflight[v].sub # s

\* A receiver takes an event twice only when an answer or a worker was lost in
\* between (deliver_one: "multiple gateway workers without duplicates").
DuplicateNeedsFault ==
    \A d \in DOMAIN taken : taken[d] <= 1 + faults

\* Every delivery is delivered, fails, is cancelled or goes with its
\* subscription in the end: nothing stays pending.
DeliveriesSettle ==
    \A s \in Subscribers, e \in EventIds : Pending(s, e) ~> ~Pending(s, e)

=============================================================================
