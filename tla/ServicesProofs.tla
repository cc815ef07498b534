--------------------------- MODULE ServicesProofs ---------------------------
(***************************************************************************)
(* Proofs about three services of the gateway that keep state of their     *)
(* own: event delivery, native approvals and the usage ledger, for any     *)
(* number of subscriptions, workers, events, prompts, approvals, reports,  *)
(* faults and outages.                                                     *)
(***************************************************************************)
EXTENDS EventDelivery, Usage, NativeApproval, SequenceTheorems, TLAPS

-----------------------------------------------------------------------------
(* Event delivery.  A row that is pending has been taken no more often     *)
(* than there were faults; a worker that sends has such a row, and its     *)
(* subscription to itself.                                                 *)

USE DEF credentials

EventRow ==
    [run : EventRuns, kind : {"deactivated", "paused", "finalized", "loaded", "transitioned"},
     status : {o.status : o \in Observations} \cup {"inactive"}]

Transaction ==
    [sub : Subscribers, event : EventIds, grant : Grants, keys : SUBSET (Secrets \cup {Null})]

SubscribeCall == [sub : Subscribers, grant : Grants, secret : Secrets, verified : BOOLEAN]

DeliveryTypeOK ==
    /\ observed \in Observations \cup {Inactive}
    /\ events \in Seq(EventRow)
    /\ subs \in [Subscribers -> SubscriptionRow \cup {Null}]
    /\ deliveries \in [Subscribers \X EventIds -> DeliveryRow \cup {Null}]
    /\ grants \subseteq Grants
    /\ lapsedGrants \subseteq Grants
    /\ subscribing \in SubscribeCall \cup {Null}
    /\ inflight \in [Workers -> Transaction \cup {Null}]
    /\ taken \in [Subscribers \X EventIds -> Nat]
    /\ faults \in Nat

\* What is to be sent is an event that was published, and every time it was
\* taken before, an answer or a worker was lost; what is not published yet has
\* been taken by nobody.
PendingUntaken ==
    \A s \in Subscribers, e \in EventIds :
        /\ Pending(s, e) => e <= Len(events) /\ taken[<<s, e>>] <= faults
        /\ e > Len(events) => taken[<<s, e>>] = 0

\* A delivery refers to a subscription that is there.
PendingRefers ==
    \A s \in Subscribers, e \in EventIds : Pending(s, e) => subs[s] # Null

DeliveryInv ==
    /\ DeliveryTypeOK
    /\ PendingUntaken
    /\ PendingRefers
    /\ SendIsAuthorized
    /\ DuplicateNeedsFault

\* A step that makes nothing pending, takes nothing and publishes nothing keeps
\* the counts.
LEMMA UntakenKept ==
    ASSUME PendingUntaken, DuplicateNeedsFault, faults \in Nat, faults' \in Nat, faults <= faults',
           taken \in [Subscribers \X EventIds -> Nat], UNCHANGED <<taken, events>>,
           \A s \in Subscribers, e \in EventIds : Pending(s, e)' => Pending(s, e)
    PROVE  PendingUntaken' /\ DuplicateNeedsFault'
  <1>1. \A d \in Subscribers \X EventIds : taken[d] \in Nat
    OBVIOUS
  <1>2. \A s \in Subscribers, e \in EventIds : taken[<<s, e>>] \in Nat
    BY <1>1
  <1>3. PendingUntaken'
    <2> SUFFICES ASSUME NEW s \in Subscribers, NEW e \in EventIds
                 PROVE  /\ Pending(s, e)' => e <= Len(events) /\ taken[<<s, e>>] <= faults'
                        /\ e > Len(events) => taken[<<s, e>>] = 0
      BY DEF PendingUntaken
    <2>1. taken[<<s, e>>] \in Nat
      BY <1>2
    <2>2. /\ Pending(s, e) => e <= Len(events) /\ taken[<<s, e>>] <= faults
          /\ e > Len(events) => taken[<<s, e>>] = 0
      BY DEF PendingUntaken
    <2>3. taken[<<s, e>>] <= faults => taken[<<s, e>>] <= faults'
      BY <2>1
    <2> QED BY <2>2, <2>3
  <1>4. DuplicateNeedsFault'
    BY <1>1 DEF DuplicateNeedsFault
  <1> QED BY <1>3, <1>4

\* A step that starts no send keeps the sends that go on authorized when it
\* leaves their grants, their subscriptions' secrets and what is pending.
LEMMA SendsKept ==
    ASSUME DeliveryTypeOK, SendIsAuthorized,
           \A w \in Workers : inflight'[w] \in {inflight[w], Null},
           \A w \in Workers : inflight'[w] # Null => inflight[w].grant \in grants',
           \A w \in Workers, s \in Subscribers : inflight'[w] # Null /\ inflight[w].sub = s =>
               /\ subs'[s] # Null
               /\ subs'[s].secret = subs[s].secret
               /\ \A e \in EventIds : Pending(s, e) => Pending(s, e)'
    PROVE  SendIsAuthorized'
  <1> SUFFICES ASSUME NEW w \in Workers, inflight'[w] # Null
               PROVE  LET s == inflight'[w].sub
                      IN  /\ subs'[s] # Null
                          /\ inflight'[w].grant \in grants'
                          /\ subs'[s].secret \in inflight'[w].keys
                          /\ deliveries'[<<s, inflight'[w].event>>] # Null
                          /\ deliveries'[<<s, inflight'[w].event>>].status = "pending"
                          /\ \A v \in Workers \ {w} : inflight'[v] # Null => inflight'[v].sub # s
    BY DEF SendIsAuthorized, Pending
  <1>1. inflight'[w] = inflight[w] /\ inflight[w] # Null
    OBVIOUS
  <1>2. PICK s \in Subscribers, e \in EventIds : s = inflight[w].sub /\ e = inflight[w].event
    BY <1>1 DEF DeliveryTypeOK, Transaction
  <1>3. /\ subs[s].secret \in inflight[w].keys /\ Pending(s, e)
        /\ \A v \in Workers \ {w} : inflight[v] # Null => inflight[v].sub # s
    BY <1>1, <1>2 DEF SendIsAuthorized
  <1>4. subs'[s] # Null /\ subs'[s].secret \in inflight[w].keys /\ Pending(s, e)'
    BY <1>2, <1>3
  <1>5. \A v \in Workers \ {w} : inflight'[v] # Null => inflight'[v].sub # s
    <2> SUFFICES ASSUME NEW v \in Workers \ {w}, inflight'[v] # Null
                 PROVE  inflight'[v].sub # s
      OBVIOUS
    <2>1. inflight'[v] = inflight[v]
      OBVIOUS
    <2> QED BY <2>1, <1>3
  <1> QED BY <1>1, <1>2, <1>4, <1>5 DEF Pending

\* The rows a step writes are rows.
LEMMA DisabledRow ==
    ASSUME NEW row \in SubscriptionRow
    PROVE  Disabled(row) \in SubscriptionRow
  BY DEF Disabled, SubscriptionRow

\* The steps of a subscription that leave its deliveries alone.
LEMMA SubscriptionChanged ==
    ASSUME DeliveryInv, NEW s \in Subscribers, NEW row \in SubscriptionRow,
           subs' = [subs EXCEPT ![s] = row], ~ Unlocked(s) => row.secret = subs[s].secret,
           subscribing' \in SubscribeCall \cup {Null},
           UNCHANGED <<observed, events, deliveries, credentials, inflight, taken, faults>>
    PROVE  DeliveryInv'
  <1> USE DEF DeliveryInv
  <1>1. DeliveryTypeOK'
    BY DEF DeliveryTypeOK
  <1>2. \A r \in Subscribers, e \in EventIds : Pending(r, e)' = Pending(r, e)
    BY DEF Pending
  <1>3. PendingUntaken' /\ DuplicateNeedsFault'
    BY <1>2, UntakenKept DEF DeliveryTypeOK
  <1>4. ASSUME NEW w \in Workers, NEW r \in Subscribers, inflight'[w] # Null, inflight[w].sub = r
        PROVE  subs'[r] # Null /\ subs'[r].secret = subs[r].secret
    <2>1. subs[r] # Null /\ ~ Unlocked(r)
      BY <1>4 DEF Unlocked, SendIsAuthorized
    <2> QED BY <1>4, <2>1, RowAssumption DEF DeliveryTypeOK
  <1>5. SendIsAuthorized'
    BY <1>2, <1>4, SendsKept DEF SendIsAuthorized
  <1>6. \A r \in Subscribers : subs[r] # Null => subs'[r] # Null
    BY RowAssumption DEF DeliveryTypeOK
  <1>7. PendingRefers'
    BY <1>2, <1>6 DEF PendingRefers
  <1> QED BY <1>1, <1>3, <1>5, <1>7

\* The steps that change neither table.
LEMMA TablesKept ==
    ASSUME DeliveryInv, UNCHANGED <<subs, events, deliveries, inflight, taken>>,
           observed' \in Observations \cup {Inactive},
           subscribing' \in SubscribeCall \cup {Null},
           faults' \in Nat, faults <= faults', grants' \subseteq Grants, lapsedGrants' \subseteq Grants,
           \A w \in Workers : inflight[w] # Null => inflight[w].grant \in grants'
    PROVE  DeliveryInv'
  <1> USE DEF DeliveryInv
  <1>1. DeliveryTypeOK'
    BY DEF DeliveryTypeOK
  <1>2. \A r \in Subscribers, e \in EventIds : Pending(r, e)' = Pending(r, e)
    BY DEF Pending
  <1>3. PendingUntaken' /\ DuplicateNeedsFault'
    BY <1>2, UntakenKept DEF DeliveryTypeOK
  <1>4. \A w \in Workers, r \in Subscribers : inflight[w] # Null /\ inflight[w].sub = r =>
            subs[r] # Null
    BY DEF SendIsAuthorized
  <1>5. SendIsAuthorized'
    BY <1>2, <1>4, SendsKept
  <1>6. PendingRefers'
    BY <1>2 DEF PendingRefers
  <1> QED BY <1>1, <1>3, <1>5, <1>6

\* The steps that change rows nobody sends from and make nothing pending.
LEMMA RowsChanged ==
    ASSUME DeliveryInv,
           subs' \in [Subscribers -> SubscriptionRow \cup {Null}],
           deliveries' \in [Subscribers \X EventIds -> DeliveryRow \cup {Null}],
           \A r \in Subscribers, e \in EventIds : Pending(r, e)' => Pending(r, e) /\ subs'[r] # Null,
           \A r \in Subscribers : ~ Unlocked(r) =>
               subs'[r] = subs[r] /\ \A e \in EventIds : Pending(r, e) => Pending(r, e)',
           UNCHANGED <<observed, events, credentials, subscribing, inflight, taken, faults>>
    PROVE  DeliveryInv'
  <1> USE DEF DeliveryInv
  <1>1. DeliveryTypeOK'
    BY DEF DeliveryTypeOK
  <1>2. PendingUntaken' /\ DuplicateNeedsFault'
    BY UntakenKept DEF DeliveryTypeOK
  <1>3. \A w \in Workers, r \in Subscribers : inflight[w] # Null /\ inflight[w].sub = r =>
            subs[r] # Null /\ ~ Unlocked(r)
    BY DEF Unlocked, SendIsAuthorized
  <1>4. \A w \in Workers : inflight[w] # Null => inflight[w].grant \in grants'
    BY DEF SendIsAuthorized
  <1>5. SendIsAuthorized'
    BY <1>3, <1>4, SendsKept
  <1>6. PendingRefers'
    BY DEF PendingRefers
  <1> QED BY <1>1, <1>2, <1>5, <1>6

-----------------------------------------------------------------------------
(* Its steps.                                                              *)

LEMMA BeginSubscribeStep ==
    ASSUME DeliveryInv, NEW s \in Subscribers, NEW grant \in Grants, NEW secret \in Secrets,
           BeginSubscribe(s, grant, secret)
    PROVE  DeliveryInv'
  <1>1. RecentlyVerified(s, secret) \in BOOLEAN
    BY DEF RecentlyVerified
  <1>2. subscribing' \in SubscribeCall
    BY <1>1 DEF BeginSubscribe, SubscribeCall
  <1> QED BY <1>2, TablesKept DEF BeginSubscribe, outbox, DeliveryInv, DeliveryTypeOK, SendIsAuthorized

LEMMA AbandonSubscribeStep ==
    ASSUME DeliveryInv, AbandonSubscribe
    PROVE  DeliveryInv'
  BY TablesKept DEF AbandonSubscribe, outbox, DeliveryInv, DeliveryTypeOK, SendIsAuthorized

LEMMA RevokeStep ==
    ASSUME DeliveryInv, NEW grant \in Grants, Revoke(grant)
    PROVE  DeliveryInv'
  <1>1. \A w \in Workers : inflight[w] # Null => inflight[w].grant \in grants \ {grant}
    BY DEF Revoke, GrantHeld, DeliveryInv, SendIsAuthorized
  <1> QED BY <1>1, TablesKept DEF Revoke, outbox, DeliveryInv, DeliveryTypeOK

LEMMA GrantLapsesStep ==
    ASSUME DeliveryInv, NEW grant \in Grants, GrantLapses(grant)
    PROVE  DeliveryInv'
  <1>1. \A w \in Workers : inflight[w] # Null => inflight[w].grant \in grants
    BY DEF DeliveryInv, SendIsAuthorized
  <1> QED BY <1>1, TablesKept DEF GrantLapses, outbox, DeliveryInv, DeliveryTypeOK

LEMMA LosePublishStep ==
    ASSUME DeliveryInv, NEW after \in Observations, LosePublish(after)
    PROVE  DeliveryInv'
  <1>1. \A w \in Workers : inflight[w] # Null => inflight[w].grant \in grants
    BY DEF DeliveryInv, SendIsAuthorized
  <1> QED BY <1>1, TablesKept DEF LosePublish, outbox, DeliveryInv, DeliveryTypeOK

LEMMA EndSubscribeStep ==
    ASSUME DeliveryInv, EndSubscribe
    PROVE  DeliveryInv'
  <1>1. PICK call \in SubscribeCall : call = subscribing
    BY DEF EndSubscribe, DeliveryInv, DeliveryTypeOK
  <1>2. PICK s \in Subscribers : s = call.sub
    BY DEF SubscribeCall
  <1>3. subs[s] \in SubscriptionRow \cup {Null}
    BY DEF DeliveryInv, DeliveryTypeOK
  <1>4. Live(s) => subs[s] # Null
    BY DEF Live
  <1>5. Upserted(s) \in SubscriptionRow
    BY <1>1, <1>3, <1>4 DEF Upserted, SubscriptionRow, SubscribeCall
  <1>6. Unlocked(s)
    BY <1>1, <1>2 DEF EndSubscribe
  <1> QED BY <1>1, <1>2, <1>5, <1>6, SubscriptionChanged DEF EndSubscribe

LEMMA ExpiresStep ==
    ASSUME DeliveryInv, NEW s \in Subscribers, Expires(s)
    PROVE  DeliveryInv'
  <1> DEFINE row == [subs[s] EXCEPT !.expired = TRUE]
  <1>1. subs[s] \in SubscriptionRow
    BY DEF Expires, DeliveryInv, DeliveryTypeOK
  <1>2. row \in SubscriptionRow /\ row.secret = subs[s].secret
    BY <1>1 DEF SubscriptionRow
  <1>3. subs' = [subs EXCEPT ![s] = row]
    BY DEF Expires, DeliveryInv, DeliveryTypeOK
  <1> HIDE DEF row
  <1> QED BY <1>2, <1>3, SubscriptionChanged DEF Expires, DeliveryInv, DeliveryTypeOK

LEMMA AgesStep ==
    ASSUME DeliveryInv, NEW s \in Subscribers, Ages(s)
    PROVE  DeliveryInv'
  <1>1. subs[s] \in SubscriptionRow
    BY DEF Ages, DeliveryInv, DeliveryTypeOK
  <1>2. PICK row \in {[subs[s] EXCEPT !.fresh = FALSE], [subs[s] EXCEPT !.rotating = FALSE]} :
            subs' = [subs EXCEPT ![s] = row]
    BY DEF Ages, DeliveryInv, DeliveryTypeOK
  <1>3. row \in SubscriptionRow /\ row.secret = subs[s].secret
    BY <1>1 DEF SubscriptionRow
  <1> QED BY <1>2, <1>3, SubscriptionChanged DEF Ages, DeliveryInv, DeliveryTypeOK

LEMMA ReclaimStep ==
    ASSUME DeliveryInv, NEW s \in Subscribers, Reclaim(s)
    PROVE  DeliveryInv'
  <1>1. subs[s] \in SubscriptionRow
    BY DEF Reclaim, DeliveryInv, DeliveryTypeOK
  <1>2. PICK row \in {Disabled(subs[s]), [subs[s] EXCEPT !.previous = Null]} :
            subs' = [subs EXCEPT ![s] = row]
    BY DEF Reclaim, DeliveryInv, DeliveryTypeOK
  <1>3. row \in SubscriptionRow
    BY <1>1, DisabledRow DEF SubscriptionRow
  <1>4. Unlocked(s)
    BY DEF Reclaim
  <1> QED BY <1>2, <1>3, <1>4, SubscriptionChanged DEF Reclaim, DeliveryInv, DeliveryTypeOK

LEMMA RemovedStep ==
    ASSUME DeliveryInv, NEW s \in Subscribers, Unlocked(s), Removed(s),
           UNCHANGED <<observed, events, credentials, subscribing, inflight, taken, faults>>
    PROVE  DeliveryInv'
  <1> USE DEF DeliveryInv, DeliveryTypeOK
  <1>1. subs' \in [Subscribers -> SubscriptionRow \cup {Null}]
    BY DEF Removed
  <1>2. \A d \in Subscribers \X EventIds :
            deliveries'[d] = IF d[1] = s THEN Null ELSE deliveries[d]
    BY DEF Removed
  <1>3. deliveries' \in [Subscribers \X EventIds -> DeliveryRow \cup {Null}]
    BY DEF Removed
  <1>4. \A r \in Subscribers, e \in EventIds :
            deliveries'[<<r, e>>] = IF r = s THEN Null ELSE deliveries[<<r, e>>]
    BY <1>2
  <1>5. \A r \in Subscribers, e \in EventIds :
            /\ Pending(r, e)' => r # s /\ Pending(r, e)
            /\ r # s /\ Pending(r, e) => Pending(r, e)'
    BY <1>4 DEF Pending
  <1>6. \A r \in Subscribers : r # s => subs'[r] = subs[r]
    BY DEF Removed
  <1> QED BY <1>1, <1>3, <1>5, <1>6, RowsChanged DEF PendingRefers

LEMMA CancelDeliveriesStep ==
    ASSUME DeliveryInv, NEW w \in Workers, NEW s \in Subscribers, NEW e \in EventIds,
           CancelDeliveries(w, s, e)
    PROVE  DeliveryInv'
  <1> USE DEF DeliveryInv, DeliveryTypeOK
  <1>1. Unlocked(s) /\ Pending(s, e)
    BY DEF CancelDeliveries, Due
  <1>2. subs[s] \in SubscriptionRow
    BY <1>1 DEF PendingRefers
  <1>3. subs' = [subs EXCEPT ![s] = Disabled(subs[s])] /\ Disabled(subs[s]) # Null
    BY <1>2, DisabledRow, RowAssumption DEF CancelDeliveries
  <1>4. subs' \in [Subscribers -> SubscriptionRow \cup {Null}]
    BY <1>2, <1>3, DisabledRow
  <1>5. \A d \in Subscribers \X EventIds :
            deliveries'[d] = IF d[1] = s /\ Pending(s, d[2])
                             THEN [deliveries[d] EXCEPT !.status = "cancelled"]
                             ELSE deliveries[d]
    BY DEF CancelDeliveries
  <1>6. \A r \in Subscribers, f \in EventIds :
            deliveries'[<<r, f>>] = IF r = s /\ Pending(s, f)
                                    THEN [deliveries[<<r, f>>] EXCEPT !.status = "cancelled"]
                                    ELSE deliveries[<<r, f>>]
    BY <1>5
  <1>7. ASSUME NEW r \in Subscribers, NEW f \in EventIds
        PROVE  /\ deliveries'[<<r, f>>] \in DeliveryRow \cup {Null}
               /\ Pending(r, f)' => r # s /\ Pending(r, f)
               /\ r # s /\ Pending(r, f) => Pending(r, f)'
    <2>1. deliveries[<<r, f>>] \in DeliveryRow \cup {Null}
      OBVIOUS
    <2>2. CASE r = s /\ Pending(s, f)
      <3>1. deliveries[<<r, f>>] \in DeliveryRow
        BY <2>1, <2>2 DEF Pending
      <3>2. deliveries'[<<r, f>>] = [deliveries[<<r, f>>] EXCEPT !.status = "cancelled"]
        BY <2>2, <1>6
      <3>3. deliveries'[<<r, f>>] \in DeliveryRow /\ deliveries'[<<r, f>>].status = "cancelled"
        BY <3>1, <3>2 DEF DeliveryRow
      <3> QED BY <2>2, <3>3 DEF Pending
    <2>3. CASE ~ (r = s /\ Pending(s, f))
      <3>1. deliveries'[<<r, f>>] = deliveries[<<r, f>>]
        BY <2>3, <1>6
      <3> QED BY <2>1, <2>3, <3>1 DEF Pending
    <2> QED BY <2>2, <2>3
  <1>8. DOMAIN deliveries' = Subscribers \X EventIds
    BY DEF CancelDeliveries
  <1>9. deliveries' \in [Subscribers \X EventIds -> DeliveryRow \cup {Null}]
    <2>1. deliveries' = [d \in Subscribers \X EventIds |-> deliveries'[d]]
      BY DEF CancelDeliveries
    <2> QED BY <2>1, <1>7
  <1>10. \A r \in Subscribers : r # s => subs'[r] = subs[r]
    BY <1>3
  <1>11. UNCHANGED <<observed, events, grants, lapsedGrants, subscribing, inflight, taken, faults>>
    BY DEF CancelDeliveries
  <1>12. \A r \in Subscribers, f \in EventIds : Pending(r, f)' => subs'[r] # Null
    BY <1>3, <1>7, <1>10 DEF PendingRefers
  <1> QED BY <1>1, <1>4, <1>7, <1>9, <1>10, <1>11, <1>12, RowsChanged

\* The steps that write one delivery.
LEMMA DeliveryWritten ==
    ASSUME DeliveryInv, NEW s \in Subscribers, NEW e \in EventIds,
           NEW row \in DeliveryRow \cup {Null},
           deliveries' = [deliveries EXCEPT ![<<s, e>>] = row]
    PROVE  /\ deliveries' \in [Subscribers \X EventIds -> DeliveryRow \cup {Null}]
           /\ \A r \in Subscribers, f \in EventIds :
                deliveries'[<<r, f>>] = IF r = s /\ f = e THEN row ELSE deliveries[<<r, f>>]
  <1> USE DEF DeliveryInv, DeliveryTypeOK
  <1>1. <<s, e>> \in Subscribers \X EventIds
    OBVIOUS
  <1>2. \A d \in Subscribers \X EventIds :
            deliveries'[d] = IF d = <<s, e>> THEN row ELSE deliveries[d]
    BY <1>1
  <1>3. deliveries' \in [Subscribers \X EventIds -> DeliveryRow \cup {Null}]
    BY <1>1
  <1>4. \A r \in Subscribers, f \in EventIds : <<r, f>> \in Subscribers \X EventIds
    OBVIOUS
  <1> QED BY <1>2, <1>3, <1>4

LEMMA FallsDueStep ==
    ASSUME DeliveryInv, NEW s \in Subscribers, NEW e \in EventIds, FallsDue(s, e)
    PROVE  DeliveryInv'
  <1> DEFINE row == [deliveries[<<s, e>>] EXCEPT !.due = TRUE]
  <1>1. <<s, e>> \in Subscribers \X EventIds /\ Pending(s, e)
    BY DEF FallsDue
  <1>2. deliveries[<<s, e>>] \in DeliveryRow /\ deliveries[<<s, e>>].status = "pending"
    BY <1>1 DEF Pending, DeliveryInv, DeliveryTypeOK
  <1>3. row \in DeliveryRow /\ row.status = "pending"
    BY <1>2 DEF DeliveryRow
  <1>4. row # Null
    BY <1>3, RowAssumption
  <1>5. deliveries' = [deliveries EXCEPT ![<<s, e>>] = row]
    BY DEF FallsDue
  <1> HIDE DEF row
  <1>6. /\ deliveries' \in [Subscribers \X EventIds -> DeliveryRow \cup {Null}]
        /\ \A r \in Subscribers, f \in EventIds :
             deliveries'[<<r, f>>] = IF r = s /\ f = e THEN row ELSE deliveries[<<r, f>>]
    BY <1>3, <1>5, DeliveryWritten
  <1>7. \A r \in Subscribers, f \in EventIds : Pending(r, f)' <=> Pending(r, f)
    BY <1>1, <1>3, <1>4, <1>6 DEF Pending
  <1> QED BY <1>6, <1>7, RowsChanged DEF FallsDue, DeliveryInv, DeliveryTypeOK, PendingRefers

LEMMA PurgeDeliveryStep ==
    ASSUME DeliveryInv, NEW s \in Subscribers, NEW e \in EventIds, PurgeDelivery(s, e)
    PROVE  DeliveryInv'
  <1>1. deliveries' = [deliveries EXCEPT ![<<s, e>>] = Null] /\ ~ Pending(s, e)
    BY DEF PurgeDelivery
  <1>2. /\ deliveries' \in [Subscribers \X EventIds -> DeliveryRow \cup {Null}]
        /\ \A r \in Subscribers, f \in EventIds :
             deliveries'[<<r, f>>] = IF r = s /\ f = e THEN Null ELSE deliveries[<<r, f>>]
    BY <1>1, DeliveryWritten
  <1>3. \A r \in Subscribers, f \in EventIds : Pending(r, f)' <=> Pending(r, f)
    BY <1>1, <1>2 DEF Pending
  <1> QED BY <1>2, <1>3, RowsChanged DEF PurgeDelivery, DeliveryInv, DeliveryTypeOK, PendingRefers

\* What a change of the run tells is an event of a run that was involved.
LEMMA ChangeIsEvent ==
    ASSUME NEW before \in Observations \cup {Inactive}, NEW after \in Observations,
           LifecycleChange(before, after) # Null
    PROVE  LifecycleChange(before, after) \in EventRow
  <1> DEFINE run == IF after.run = Null THEN before.run ELSE after.run
  <1>1. before.run \in EventRuns \cup {Null} /\ after.run \in EventRuns \cup {Null}
    BY DeliveryAssumption DEF Inactive
  <1>2. KindOf(before, after) \in {"deactivated", "paused", "finalized", "loaded", "transitioned"}
    BY DEF KindOf
  <1>3. run \in EventRuns
    BY <1>1 DEF LifecycleChange
  <1>4. LifecycleChange(before, after)
            = [run |-> run, kind |-> KindOf(before, after), status |-> after.status]
    BY DEF LifecycleChange
  <1> HIDE DEF run
  <1> QED BY <1>2, <1>3, <1>4 DEF EventRow

LEMMA PublishStep ==
    ASSUME DeliveryInv, NEW after \in Observations, Publish(after)
    PROVE  DeliveryInv'
  <1> USE DEF DeliveryInv, DeliveryTypeOK
  <1>1. PICK event \in EventRow : event = LifecycleChange(observed, after)
    BY ChangeIsEvent DEF Publish
  <1>2. /\ events' = Append(events, event)
        /\ deliveries' = Enqueued(event)
        /\ \A s \in Subscribers : RunOf[s] = event.run /\ Live(s) => Unlocked(s)
        /\ observed' = after
        /\ UNCHANGED <<subs, credentials, subscribing, inflight, taken, faults>>
    BY <1>1 DEF Publish
  <1> DEFINE n == Len(events)
  <1>3. n \in Nat /\ Len(events') = n + 1 /\ events' \in Seq(EventRow)
    BY <1>2, AppendProperties, LenProperties
  <1>4. \A d \in Subscribers \X EventIds :
            deliveries'[d] = IF /\ d[2] = n + 1
                                /\ Live(d[1]) /\ RunOf[d[1]] = event.run
                                /\ deliveries[d] = Null
                             THEN [status |-> "pending", attempts |-> 0, due |-> TRUE]
                             ELSE deliveries[d]
    BY <1>2 DEF Enqueued
  <1>5. \A r \in Subscribers, f \in EventIds :
            \/ deliveries'[<<r, f>>] = deliveries[<<r, f>>]
            \/ /\ deliveries'[<<r, f>>] = [status |-> "pending", attempts |-> 0, due |-> TRUE]
               /\ f = n + 1 /\ Live(r) /\ deliveries[<<r, f>>] = Null
    BY <1>4
  <1>6. [status |-> "pending", attempts |-> 0, due |-> TRUE] \in DeliveryRow
    BY DEF DeliveryRow
  <1>7. \A d \in Subscribers \X EventIds : deliveries'[d] \in DeliveryRow \cup {Null}
    BY <1>4, <1>6
  <1>8. DeliveryTypeOK'
    <2>1. deliveries' = [d \in Subscribers \X EventIds |-> deliveries'[d]]
      BY <1>2 DEF Enqueued
    <2>2. deliveries' \in [Subscribers \X EventIds -> DeliveryRow \cup {Null}]
      BY <2>1, <1>7
    <2> QED BY <2>2, <1>2, <1>3
  <1> HIDE DEF n
  <1>9. ASSUME NEW r \in Subscribers, NEW f \in EventIds
        PROVE  /\ Pending(r, f) => Pending(r, f)'
               /\ Pending(r, f)' => Pending(r, f) \/ (f = n + 1 /\ Live(r))
    BY <1>5 DEF Pending
  <1>10. PendingUntaken'
    <2> SUFFICES ASSUME NEW r \in Subscribers, NEW f \in EventIds
                 PROVE  /\ Pending(r, f)' => f <= n + 1 /\ taken[<<r, f>>] <= faults
                        /\ f > n + 1 => taken[<<r, f>>] = 0
      BY <1>2, <1>3 DEF PendingUntaken
    <2>1. /\ Pending(r, f) => f <= n /\ taken[<<r, f>>] <= faults
          /\ f > n => taken[<<r, f>>] = 0
      BY DEF PendingUntaken, n
    <2>2. f \in Nat /\ faults \in Nat
      BY DEF EventIds
    <2> HIDE DEF DeliveryInv, DeliveryTypeOK
    <2> QED BY <2>1, <2>2, <1>3, <1>9
  <1>11. PendingRefers'
    BY <1>2, <1>9 DEF PendingRefers, Live
  <1>12. \A w \in Workers, r \in Subscribers : inflight'[w] # Null /\ inflight[w].sub = r =>
            subs[r] # Null
    BY <1>2 DEF SendIsAuthorized
  <1>13. SendIsAuthorized'
    BY <1>2, <1>9, <1>12, SendsKept DEF SendIsAuthorized
  <1>14. DuplicateNeedsFault'
    BY <1>2 DEF DuplicateNeedsFault
  <1> QED BY <1>8, <1>10, <1>11, <1>13, <1>14

LEMMA SendStep ==
    ASSUME DeliveryInv, NEW w \in Workers, NEW s \in Subscribers, NEW e \in EventIds, Send(w, s, e)
    PROVE  DeliveryInv'
  <1> USE DEF DeliveryInv, DeliveryTypeOK
  <1>1. subs[s] \in SubscriptionRow /\ subs[s] # Null
    BY DEF Send, Live
  <1>2. SigningKeys(subs[s]) \in SUBSET (Secrets \cup {Null}) /\ subs[s].secret \in SigningKeys(subs[s])
    BY <1>1 DEF SigningKeys, SubscriptionRow
  <1>3. subs[s].grant \in Grants /\ subs[s].grant \in grants
    BY <1>1 DEF Send, Authorized, SubscriptionRow
  <1> DEFINE t == [sub |-> s, event |-> e, grant |-> subs[s].grant, keys |-> SigningKeys(subs[s])]
  <1>4. t \in Transaction
    BY <1>2, <1>3 DEF Transaction
  <1>5. /\ t.sub = s /\ t.event = e /\ t.grant \in grants /\ subs[s].secret \in t.keys
    BY <1>2, <1>3
  <1>6. /\ inflight' = [inflight EXCEPT ![w] = t]
        /\ UNCHANGED <<observed, events, subs, deliveries, credentials, subscribing, taken, faults>>
    BY DEF Send, outbox
  <1>7. Pending(s, e) /\ Unlocked(s)
    BY DEF Send, Due
  <1> HIDE DEF t
  <1>8. DeliveryTypeOK'
    BY <1>4, <1>6
  <1>9. \A r \in Subscribers, f \in EventIds : Pending(r, f)' = Pending(r, f)
    BY <1>6 DEF Pending
  <1>10. PendingUntaken' /\ DuplicateNeedsFault'
    BY <1>6, <1>9, UntakenKept
  <1>11. PendingRefers'
    BY <1>6, <1>9 DEF PendingRefers
  <1>12. SendIsAuthorized'
    <2> SUFFICES ASSUME NEW v \in Workers, inflight'[v] # Null
                 PROVE  LET r == inflight'[v].sub
                        IN  /\ subs[r] # Null
                            /\ inflight'[v].grant \in grants
                            /\ subs[r].secret \in inflight'[v].keys
                            /\ deliveries[<<r, inflight'[v].event>>] # Null
                            /\ deliveries[<<r, inflight'[v].event>>].status = "pending"
                            /\ \A x \in Workers \ {v} : inflight'[x] # Null => inflight'[x].sub # r
      BY <1>6 DEF SendIsAuthorized, Pending
    <2>1. CASE v = w
      <3>1. inflight'[v] = t
        BY <2>1, <1>6
      <3>2. \A x \in Workers \ {v} : inflight'[x] # Null => inflight'[x].sub # s
        BY <2>1, <1>6, <1>7 DEF Unlocked
      <3> QED BY <3>1, <3>2, <1>1, <1>5, <1>7 DEF Pending
    <2>2. CASE v # w
      <3>1. inflight'[v] = inflight[v] /\ inflight[v] # Null
        BY <2>2, <1>6
      <3>2. inflight[v].sub # s
        BY <3>1, <1>7 DEF Unlocked
      <3>3. \A x \in Workers \ {v} : inflight'[x] # Null => inflight'[x].sub # inflight[v].sub
        BY <3>1, <3>2, <1>5, <1>6 DEF SendIsAuthorized
      <3> QED BY <3>1, <3>3 DEF SendIsAuthorized, Pending
    <2> QED BY <2>1, <2>2
  <1> QED BY <1>8, <1>10, <1>11, <1>12

\* What the receiver took.
LEMMA TookOne ==
    ASSUME DeliveryInv, NEW s \in Subscribers, NEW e \in EventIds, NEW answer \in Answers,
           Took(s, e, answer)
    PROVE  /\ taken' \in [Subscribers \X EventIds -> Nat]
           /\ \A r \in Subscribers, f \in EventIds :
                taken'[<<r, f>>] = IF r = s /\ f = e /\ answer \in {"accepted", "lost"}
                                   THEN taken[<<r, f>>] + 1 ELSE taken[<<r, f>>]
  <1> USE DEF DeliveryInv, DeliveryTypeOK
  <1>1. /\ <<s, e>> \in Subscribers \X EventIds
        /\ \A d \in Subscribers \X EventIds : taken[d] \in Nat
    OBVIOUS
  <1> DEFINE new == IF answer \in {"accepted", "lost"} THEN taken[<<s, e>>] + 1 ELSE taken[<<s, e>>]
  <1>2. new \in Nat
    BY <1>1
  <1>3. taken' = [taken EXCEPT ![<<s, e>>] = new]
    BY DEF Took
  <1>4. \A d \in Subscribers \X EventIds : taken'[d] = IF d = <<s, e>> THEN new ELSE taken[d]
    BY <1>3
  <1>5. taken' \in [Subscribers \X EventIds -> Nat]
    BY <1>2, <1>3
  <1>6. \A r \in Subscribers, f \in EventIds :
            taken'[<<r, f>>] = IF r = s /\ f = e THEN new ELSE taken[<<r, f>>]
    BY <1>4
  <1>7. ASSUME NEW r \in Subscribers, NEW f \in EventIds
        PROVE  taken'[<<r, f>>] = IF r = s /\ f = e /\ answer \in {"accepted", "lost"}
                                  THEN taken[<<r, f>>] + 1 ELSE taken[<<r, f>>]
    BY <1>6
  <1> QED BY <1>5, <1>7

\* The end of a send: what it holds is free, and one delivery of one
\* subscription may have been taken once more.
LEMMA SendEnds ==
    ASSUME DeliveryInv, NEW w \in Workers, NEW s \in Subscribers, NEW e \in EventIds,
           NEW answer \in Answers,
           inflight[w] # Null, s = inflight[w].sub, e = inflight[w].event,
           Took(s, e, answer),
           inflight' = [inflight EXCEPT ![w] = Null],
           UNCHANGED <<observed, events, credentials, subscribing>>,
           faults' \in Nat, faults <= faults', answer = "lost" => faults' = faults + 1,
           subs' \in [Subscribers -> SubscriptionRow \cup {Null}],
           \A r \in Subscribers : r # s => subs'[r] = subs[r],
           subs'[s] # Null,
           deliveries' \in [Subscribers \X EventIds -> DeliveryRow \cup {Null}],
           \A r \in Subscribers, f \in EventIds :
               (r = s /\ f = e) \/ deliveries'[<<r, f>>] = deliveries[<<r, f>>],
           answer = "accepted" => ~ Pending(s, e)'
    PROVE  DeliveryInv'
  <1> USE DEF DeliveryInv
  <1>1. /\ taken' \in [Subscribers \X EventIds -> Nat]
        /\ \A r \in Subscribers, f \in EventIds :
             taken'[<<r, f>>] = IF r = s /\ f = e /\ answer \in {"accepted", "lost"}
                                THEN taken[<<r, f>>] + 1 ELSE taken[<<r, f>>]
    BY TookOne
  <1>2. DeliveryTypeOK'
    BY <1>1 DEF DeliveryTypeOK
  <1>3. Pending(s, e)
    BY DEF SendIsAuthorized
  <1>4. /\ \A r \in Subscribers, f \in EventIds : Pending(r, f)' => Pending(r, f)
        /\ \A r \in Subscribers, f \in EventIds : r # s /\ Pending(r, f) => Pending(r, f)'
    BY <1>3 DEF Pending
  <1> DEFINE n == Len(events)
  <1>5. n \in Nat
    BY LenProperties DEF DeliveryTypeOK
  <1>6. ASSUME NEW r \in Subscribers, NEW f \in EventIds
        PROVE  /\ taken[<<r, f>>] \in Nat
               /\ Pending(r, f) => f <= n /\ taken[<<r, f>>] <= faults
               /\ f > n => taken[<<r, f>>] = 0
    <2>1. <<r, f>> \in Subscribers \X EventIds
      OBVIOUS
    <2> QED BY <2>1 DEF PendingUntaken, DeliveryTypeOK
  <1>7. faults \in Nat
    BY DEF DeliveryTypeOK
  <1>8. events' = events
    OBVIOUS
  <1>9. PendingUntaken'
    <2> SUFFICES ASSUME NEW r \in Subscribers, NEW f \in EventIds
                 PROVE  /\ Pending(r, f)' => f <= n /\ taken'[<<r, f>>] <= faults'
                        /\ f > n => taken'[<<r, f>>] = 0
      BY <1>8 DEF PendingUntaken
    <2> HIDE DEF n, DeliveryInv
    <2>1. f \in Nat
      BY DEF EventIds
    <2>2. CASE r = s /\ f = e
      <3>1. f <= n
        BY <2>2, <1>3, <1>6
      <3>2. ASSUME Pending(r, f)'
            PROVE  taken'[<<r, f>>] <= faults'
        <4>1. answer # "accepted"
          BY <3>2, <2>2
        <4>2. taken'[<<r, f>>] = IF answer = "lost" THEN taken[<<r, f>>] + 1 ELSE taken[<<r, f>>]
          BY <4>1, <2>2, <1>1
        <4>3. taken[<<r, f>>] \in Nat /\ taken[<<r, f>>] <= faults
          BY <2>2, <1>3, <1>6
        <4> QED BY <4>2, <4>3, <1>7
      <3> QED BY <3>1, <3>2, <2>1, <1>5
    <2>3. CASE ~ (r = s /\ f = e)
      <3>1. taken'[<<r, f>>] = taken[<<r, f>>]
        BY <2>3, <1>1
      <3> QED BY <3>1, <1>4, <1>6, <1>7
    <2> QED BY <2>2, <2>3
  <1>10. PendingRefers'
    BY <1>4 DEF PendingRefers
  <1>11. SendIsAuthorized'
    <2>1. \A v \in Workers : inflight'[v] = IF v = w THEN Null ELSE inflight[v]
      BY DEF DeliveryTypeOK
    <2>2. \A v \in Workers : inflight'[v] # Null => inflight[v].sub # s
      BY <2>1 DEF SendIsAuthorized
    <2>3. \A v \in Workers : inflight'[v] # Null => inflight[v].grant \in grants'
      BY <2>1 DEF SendIsAuthorized
    <2>4. \A v \in Workers, r \in Subscribers : inflight'[v] # Null /\ inflight[v].sub = r =>
            subs[r] # Null
      BY <2>1 DEF SendIsAuthorized
    <2> QED BY <2>1, <2>2, <2>3, <2>4, <1>4, SendsKept
  <1>12. DuplicateNeedsFault'
    <2> SUFFICES ASSUME NEW d \in Subscribers \X EventIds
                 PROVE  taken'[d] <= 1 + faults'
      BY <1>1 DEF DuplicateNeedsFault
    <2>1. PICK r \in Subscribers, f \in EventIds : d = <<r, f>>
      OBVIOUS
    <2>2. taken[<<r, f>>] \in Nat /\ taken[<<r, f>>] <= 1 + faults
      BY <2>1, <1>6 DEF DuplicateNeedsFault, DeliveryTypeOK
    <2>3. r = s /\ f = e => taken[<<r, f>>] <= faults
      BY <1>3, <1>6
    <2> HIDE DEF DeliveryInv
    <2> QED BY <2>1, <2>2, <2>3, <1>1, <1>7
  <1> QED BY <1>2, <1>9, <1>10, <1>11, <1>12

\* What a worker that sends has in hand.
LEMMA SendHolds ==
    ASSUME DeliveryInv, NEW w \in Workers, inflight[w] # Null
    PROVE  \E s \in Subscribers, e \in EventIds :
             /\ s = inflight[w].sub /\ e = inflight[w].event
             /\ subs[s] \in SubscriptionRow /\ subs[s] # Null
             /\ deliveries[<<s, e>>] \in DeliveryRow
  <1>1. PICK s \in Subscribers, e \in EventIds : s = inflight[w].sub /\ e = inflight[w].event
    BY DEF DeliveryInv, DeliveryTypeOK, Transaction
  <1>2. subs[s] \in SubscriptionRow /\ subs[s] # Null
    BY <1>1 DEF DeliveryInv, DeliveryTypeOK, SendIsAuthorized
  <1>3. <<s, e>> \in Subscribers \X EventIds /\ Pending(s, e)
    BY <1>1 DEF DeliveryInv, SendIsAuthorized
  <1>4. deliveries[<<s, e>>] \in DeliveryRow
    BY <1>3 DEF DeliveryInv, DeliveryTypeOK, Pending
  <1> QED BY <1>1, <1>2, <1>4

LEMMA CommitSendStep ==
    ASSUME DeliveryInv, NEW w \in Workers, NEW answer \in Answers, CommitSend(w, answer)
    PROVE  DeliveryInv'
  <1>1. PICK s \in Subscribers, e \in EventIds :
            /\ s = inflight[w].sub /\ e = inflight[w].event
            /\ subs[s] \in SubscriptionRow /\ subs[s] # Null
            /\ deliveries[<<s, e>>] \in DeliveryRow
    BY SendHolds DEF CommitSend
  <1> DEFINE row == Answered(deliveries[<<s, e>>], answer)
  <1>2. /\ row \in DeliveryRow
        /\ answer = "accepted" => row.status # "pending"
    BY <1>1 DEF Answered, DeliveryRow
  <1>3. deliveries' = [deliveries EXCEPT ![<<s, e>>] = row]
    BY <1>1 DEF CommitSend
  <1> HIDE DEF row
  <1>4. /\ deliveries' \in [Subscribers \X EventIds -> DeliveryRow \cup {Null}]
        /\ \A r \in Subscribers, f \in EventIds :
             deliveries'[<<r, f>>] = IF r = s /\ f = e THEN row ELSE deliveries[<<r, f>>]
    BY <1>2, <1>3, DeliveryWritten
  <1>5. answer = "accepted" => ~ Pending(s, e)'
    BY <1>2, <1>4 DEF Pending
  <1>6. PICK new \in SubscriptionRow : subs' = [subs EXCEPT ![s] = new]
    <2>1. subs' = [subs EXCEPT ![s] = IF answer = "gone" THEN Disabled(subs[s]) ELSE subs[s]]
      BY <1>1 DEF CommitSend
    <2> QED BY <2>1, <1>1, DisabledRow
  <1>7. /\ subs' \in [Subscribers -> SubscriptionRow \cup {Null}]
        /\ \A r \in Subscribers : r # s => subs'[r] = subs[r]
        /\ subs'[s] # Null
    BY <1>6, RowAssumption DEF DeliveryInv, DeliveryTypeOK
  <1>8. faults \in Nat
    BY DEF DeliveryInv, DeliveryTypeOK
  <1>9. /\ faults' = IF answer = "lost" THEN faults + 1 ELSE faults
        /\ Took(s, e, answer)
        /\ inflight[w] # Null /\ inflight' = [inflight EXCEPT ![w] = Null]
        /\ UNCHANGED <<observed, events, credentials, subscribing>>
    BY <1>1 DEF CommitSend
  <1>10. faults' \in Nat /\ faults <= faults' /\ (answer = "lost" => faults' = faults + 1)
    BY <1>8, <1>9
  <1>11. /\ s = inflight[w].sub /\ e = inflight[w].event
         /\ \A r \in Subscribers, f \in EventIds :
              (r = s /\ f = e) \/ deliveries'[<<r, f>>] = deliveries[<<r, f>>]
    BY <1>1, <1>4
  <1>12. /\ deliveries' \in [Subscribers \X EventIds -> DeliveryRow \cup {Null}]
         /\ faults' \in Nat /\ faults <= faults' /\ (answer = "lost" => faults' = faults + 1)
    BY <1>4, <1>10
  <1> QED BY ONLY <1>5, <1>7, <1>9, <1>11, <1>12, SendEnds, DeliveryInv, answer \in Answers, w \in Workers

LEMMA CrashStep ==
    ASSUME DeliveryInv, NEW w \in Workers, Crash(w)
    PROVE  DeliveryInv'
  <1>1. PICK s \in Subscribers, e \in EventIds :
            /\ s = inflight[w].sub /\ e = inflight[w].event
            /\ subs[s] \in SubscriptionRow /\ subs[s] # Null
            /\ deliveries[<<s, e>>] \in DeliveryRow
    BY SendHolds DEF Crash
  <1>2. PICK answer \in {"lost", "none"} : Took(s, e, answer)
    BY <1>1 DEF Crash
  <1>3. answer \in Answers /\ answer # "accepted"
    BY DEF Answers
  <1>4. faults \in Nat /\ faults' = faults + 1
    BY DEF DeliveryInv, DeliveryTypeOK, Crash
  <1>5. /\ inflight[w] # Null /\ inflight' = [inflight EXCEPT ![w] = Null]
        /\ UNCHANGED <<observed, events, credentials, subscribing, subs, deliveries>>
    BY DEF Crash, outbox
  <1>6. /\ subs' \in [Subscribers -> SubscriptionRow \cup {Null}]
        /\ deliveries' \in [Subscribers \X EventIds -> DeliveryRow \cup {Null}]
    BY <1>5 DEF DeliveryInv, DeliveryTypeOK
  <1>7. faults' \in Nat /\ faults <= faults'
    BY <1>4
  <1> QED BY <1>1, <1>2, <1>3, <1>4, <1>5, <1>6, <1>7, SendEnds

-----------------------------------------------------------------------------
(* Event delivery as a whole.                                              *)

LEMMA DeliveryInitHolds ==
    ASSUME DeliveryInit
    PROVE  DeliveryInv
  <1>1. DeliveryTypeOK
    BY DEF DeliveryInit, DeliveryTypeOK
  <1>2. \A s \in Subscribers, e \in EventIds :
            deliveries[<<s, e>>] = Null /\ taken[<<s, e>>] = 0
    BY DEF DeliveryInit
  <1>3. PendingUntaken /\ PendingRefers
    BY <1>2 DEF PendingUntaken, PendingRefers, Pending
  <1>4. SendIsAuthorized /\ DuplicateNeedsFault
    BY DEF DeliveryInit, SendIsAuthorized, DuplicateNeedsFault
  <1> QED BY <1>1, <1>3, <1>4 DEF DeliveryInv

LEMMA DeliveryStep ==
    ASSUME DeliveryInv, [DeliveryNext]_deliveryVars
    PROVE  DeliveryInv'
  <1>1. CASE UNCHANGED deliveryVars
    <2>1. \A s \in Subscribers, e \in EventIds : Pending(s, e)' = Pending(s, e)
      BY <1>1 DEF deliveryVars, outbox, Pending
    <2> QED BY <1>1, <2>1, TablesKept
            DEF deliveryVars, outbox, DeliveryInv, DeliveryTypeOK, SendIsAuthorized
  <1>2. CASE DeliveryNext
    <2>1. ASSUME NEW s \in Subscribers, NEW grant \in Grants, NEW secret \in Secrets,
                 BeginSubscribe(s, grant, secret)
          PROVE  DeliveryInv'
      BY <2>1, BeginSubscribeStep
    <2>2. ASSUME NEW s \in Subscribers, Unsubscribe(s) \/ Purge(s)
          PROVE  DeliveryInv'
      BY <2>2, RemovedStep DEF Unsubscribe, Purge
    <2>3. ASSUME NEW s \in Subscribers, Expires(s) \/ Ages(s) \/ Reclaim(s)
          PROVE  DeliveryInv'
      BY <2>3, ExpiresStep, AgesStep, ReclaimStep
    <2>4. ASSUME EndSubscribe \/ AbandonSubscribe
          PROVE  DeliveryInv'
      BY <2>4, EndSubscribeStep, AbandonSubscribeStep
    <2>5. ASSUME NEW after \in Observations, Publish(after) \/ LosePublish(after)
          PROVE  DeliveryInv'
      BY <2>5, PublishStep, LosePublishStep
    <2>6. ASSUME NEW s \in Subscribers, NEW e \in EventIds, NEW w \in Workers,
                 Send(w, s, e) \/ CancelDeliveries(w, s, e)
          PROVE  DeliveryInv'
      BY <2>6, SendStep, CancelDeliveriesStep
    <2>7. ASSUME NEW s \in Subscribers, NEW e \in EventIds, FallsDue(s, e) \/ PurgeDelivery(s, e)
          PROVE  DeliveryInv'
      BY <2>7, FallsDueStep, PurgeDeliveryStep
    <2>8. ASSUME NEW w \in Workers, Crash(w) \/ \E answer \in Answers : CommitSend(w, answer)
          PROVE  DeliveryInv'
      BY <2>8, CrashStep, CommitSendStep
    <2>9. ASSUME NEW grant \in Grants, Revoke(grant) \/ GrantLapses(grant)
          PROVE  DeliveryInv'
      BY <2>9, RevokeStep, GrantLapsesStep
    <2> QED BY <1>2, <2>1, <2>2, <2>3, <2>4, <2>5, <2>6, <2>7, <2>8, <2>9 DEF DeliveryNext
  <1> QED BY <1>1, <1>2

\* The deliveries, what is sent and what was taken stay in order
\* (deliver_one, dispatch, publish).
THEOREM DeliveriesInOrder == DeliverySpec => []DeliveryInv
  <1>1. DeliveryInit => DeliveryInv
    BY DeliveryInitHolds
  <1>2. DeliveryInv /\ [DeliveryNext]_deliveryVars => DeliveryInv'
    BY DeliveryStep
  <1> QED BY <1>1, <1>2, PTL DEF DeliverySpec

\* While a worker sends, the grant is not revoked, the key is the subscription's
\* and no other worker sends for it: for any number of gateways, subscriptions,
\* crashes and lost answers (deliver_one: FOR UPDATE OF s, d; FOR SHARE).
THEOREM SendsAuthorized == DeliverySpec => []SendIsAuthorized
  <1>1. DeliveryInv => SendIsAuthorized
    BY DEF DeliveryInv
  <1> QED BY <1>1, DeliveriesInOrder, PTL

\* No event is taken more often than once and once for every fault
\* (deliver_one: one transaction claims, sends and records the attempt).
THEOREM DuplicatesNeedFaults == DeliverySpec => []DuplicateNeedsFault
  <1>1. DeliveryInv => DuplicateNeedsFault
    BY DEF DeliveryInv
  <1> QED BY <1>1, DeliveriesInOrder, PTL

-----------------------------------------------------------------------------
(* Native approvals.  Approvals are numbered as they are asked for; the    *)
(* one the workflow waits for was neither applied nor stopped.             *)

NativeTypeOK ==
    /\ verdicts \in [Approvals -> {"unknown", "pending"} \cup Decisions]
    /\ parked \in Approvals \cup {0}
    /\ asked \in 0 .. MaxApprovals

\* What is over was asked for before, and the approval in hand is not over.
ParkedIsOpen ==
    /\ applied \cup stopped \subseteq 1 .. asked
    /\ parked <= asked
    /\ parked \notin applied \cup stopped

Prompt == [transport : Transports, request : Requests, revision : Nat]

Task ==
    [approval : Approvals, revision : Nat,
     answer : {"waiting", "dropped", "rpc_cancel"} \cup ReplyKinds]

\* Every prompt the broker keeps has a task that waits for it, and every task
\* is about an approval that was asked for.
PromptsWatched ==
    /\ revision \in Nat
    /\ prompts \in [Nonces -> Prompt \cup {NoPrompt}]
    /\ tasks \in [Nonces -> Task \cup {NoPrompt}]
    /\ \A n \in Nonces : prompts[n] # NoPrompt => tasks[n] \in Task

NativeInv ==
    /\ NativeTypeOK
    /\ PromptsWatched
    /\ ParkedIsOpen
    /\ AppliedIsApproved

\* What the service has decided stays as it is.
DecisionsStand ==
    \A a \in Approvals : verdicts[a] \in Decisions => verdicts'[a] = verdicts[a]

\* What is over is an approval.
LEMMA OverIsApproval ==
    ASSUME NativeInv
    PROVE  applied \subseteq Approvals /\ stopped \subseteq Approvals
  <1>1. \A x \in 1 .. asked : x \in Approvals
    BY NativeAssumption DEF NativeInv, NativeTypeOK, Approvals
  <1> QED BY <1>1 DEF NativeInv, ParkedIsOpen

\* The steps that start and end no approval.
LEMMA WorkflowKept ==
    ASSUME NativeInv, DecisionsStand, UNCHANGED workflow, PromptsWatched',
           verdicts' \in [Approvals -> {"unknown", "pending"} \cup Decisions]
    PROVE  NativeInv'
  <1>1. AppliedIsApproved'
    BY OverIsApproval DEF NativeInv, AppliedIsApproved, DecisionsStand, Decisions, workflow
  <1>2. NativeTypeOK' /\ ParkedIsOpen'
    BY DEF NativeInv, NativeTypeOK, ParkedIsOpen, workflow, Approvals, Decisions
  <1> QED BY <1>1, <1>2 DEF NativeInv

\* A verdict is applied to the approval the workflow waits for, or to none.
LEMMA VerdictApplied ==
    ASSUME NativeInv, DecisionsStand, NEW a \in Approvals, ApplyVerdict(a), PromptsWatched',
           verdicts' \in [Approvals -> {"unknown", "pending"} \cup Decisions]
    PROVE  NativeInv'
  <1>1. CASE parked # a
    <2>1. UNCHANGED workflow
      BY <1>1 DEF ApplyVerdict, workflow
    <2> QED BY <2>1, WorkflowKept
  <1>2. CASE parked = a
    <2>1. /\ parked' = 0 /\ UNCHANGED <<asked, stopped>>
          /\ applied' \subseteq applied \cup {a}
          /\ a \in applied' => a \in applied \/ verdicts'[a] = "approved"
      BY <1>2 DEF ApplyVerdict
    <2>2. /\ a \notin applied \cup stopped
          /\ a \in Nat /\ a # 0 /\ asked \in Nat /\ a <= asked
          /\ applied \cup stopped \subseteq 1 .. asked
      BY <1>2, NativeAssumption DEF NativeInv, ParkedIsOpen, NativeTypeOK, Approvals
    <2>3. \A b \in applied : b \notin stopped /\ verdicts'[b] = "approved"
      BY OverIsApproval DEF NativeInv, AppliedIsApproved, DecisionsStand, Decisions
    <2>4. AppliedIsApproved'
      BY <2>1, <2>2, <2>3 DEF AppliedIsApproved
    <2>5. NativeTypeOK'
      BY <2>1 DEF NativeInv, NativeTypeOK, Approvals, Decisions
    <2>6. a \in 1 .. asked /\ 0 \notin 1 .. asked
      BY <2>2
    <2>7. ParkedIsOpen'
      BY <2>1, <2>2, <2>6 DEF ParkedIsOpen
    <2> QED BY <2>4, <2>5, <2>7 DEF NativeInv
  <1> QED BY <1>1, <1>2

-----------------------------------------------------------------------------
(* The broker's prompts and tasks.                                         *)

\* A task that is told something is still the task of its approval.
LEMMA TaskTold ==
    ASSUME NEW task \in Task, NEW answer \in {"dropped", "rpc_cancel"} \cup ReplyKinds
    PROVE  [task EXCEPT !.answer = answer] \in Task
  BY DEF Task

LEMMA KeepWatches ==
    ASSUME NativeInv, NEW kept, Keep(kept), revision' \in Nat
    PROVE  PromptsWatched'
  <1> USE DEF NativeInv, PromptsWatched
  <1>1. \A n \in Nonces : prompts'[n] = IF n \in kept THEN prompts[n] ELSE NoPrompt
    BY DEF Keep
  <1>2. \A n \in Nonces : tasks'[n] \in {tasks[n], [tasks[n] EXCEPT !.answer = "dropped"]}
                          /\ (prompts[n] = NoPrompt => tasks'[n] = tasks[n])
    BY DEF Keep
  <1>3. \A n \in Nonces : tasks[n] \in Task => tasks'[n] \in Task
    BY <1>2, TaskTold
  <1>4. \A n \in Nonces : tasks'[n] \in Task \cup {NoPrompt}
    BY <1>2, <1>3
  <1>5. prompts' \in [Nonces -> Prompt \cup {NoPrompt}]
    BY DEF Keep
  <1>6. tasks' = [n \in Nonces |-> tasks'[n]]
    BY DEF Keep
  <1>7. tasks' \in [Nonces -> Task \cup {NoPrompt}]
    BY <1>4, <1>6
  <1> QED BY <1>1, <1>3, <1>5, <1>7

\* A prompt goes, or all do, and the task of one is told something.
LEMMA PromptsGo ==
    ASSUME NativeInv, NEW n \in Nonces, NEW task \in Task, tasks[n] \in Task,
           tasks' = [tasks EXCEPT ![n] = task],
           \A m \in Nonces : prompts'[m] \in {prompts[m], NoPrompt},
           DOMAIN prompts' = Nonces, prompts' = [m \in Nonces |-> prompts'[m]],
           revision' \in Nat
    PROVE  PromptsWatched'
  <1> USE DEF NativeInv, PromptsWatched
  <1>1. \A m \in Nonces : prompts'[m] \in Prompt \cup {NoPrompt}
    OBVIOUS
  <1>2. prompts' \in [Nonces -> Prompt \cup {NoPrompt}]
    BY <1>1
  <1>3. tasks' \in [Nonces -> Task \cup {NoPrompt}]
    OBVIOUS
  <1>4. \A m \in Nonces : prompts'[m] # NoPrompt => tasks'[m] \in Task
    OBVIOUS
  <1> QED BY <1>2, <1>3, <1>4

LEMMA ReplyWatches ==
    ASSUME NativeInv, NEW t \in Transports, NEW n \in Nonces, NEW kind \in ReplyKinds,
           Reply(t, n, kind)
    PROVE  PromptsWatched'
  <1> DEFINE task == [tasks[n] EXCEPT !.answer = kind]
  <1>1. tasks[n] \in Task
    BY DEF Reply, LivePrompts, NativeInv, PromptsWatched
  <1>2. task \in Task
    BY <1>1, TaskTold
  <1>3. /\ tasks' = [tasks EXCEPT ![n] = task]
        /\ prompts' = [m \in Nonces |-> IF m \in LivePrompts \ {n} THEN prompts[m] ELSE NoPrompt]
        /\ revision' = revision
    BY DEF Reply
  <1>4. revision' \in Nat
    BY <1>3 DEF NativeInv, PromptsWatched
  <1> HIDE DEF task
  <1>5. /\ \A m \in Nonces : prompts'[m] \in {prompts[m], NoPrompt}
        /\ DOMAIN prompts' = Nonces /\ prompts' = [m \in Nonces |-> prompts'[m]]
    BY <1>3
  <1> QED BY <1>1, <1>2, <1>3, <1>4, <1>5, PromptsGo

LEMMA CancelWatches ==
    ASSUME NativeInv, NEW t \in Transports, NEW request \in Requests, CancelRequest(t, request)
    PROVE  PromptsWatched'
  <1>1. PICK n \in LivePrompts :
            /\ prompts' = [m \in Nonces |-> IF m \in LivePrompts \ {n} THEN prompts[m] ELSE NoPrompt]
            /\ tasks' = [tasks EXCEPT ![n].answer = "rpc_cancel"]
    BY DEF CancelRequest
  <1> DEFINE task == [tasks[n] EXCEPT !.answer = "rpc_cancel"]
  <1>2. n \in Nonces /\ tasks[n] \in Task
    BY DEF LivePrompts, NativeInv, PromptsWatched
  <1>3. task \in Task
    BY <1>2, TaskTold
  <1>4. tasks' = [tasks EXCEPT ![n] = task]
    BY <1>1
  <1>5. revision' \in Nat
    BY DEF CancelRequest, NativeInv, PromptsWatched
  <1> HIDE DEF task
  <1>6. /\ \A m \in Nonces : prompts'[m] \in {prompts[m], NoPrompt}
        /\ DOMAIN prompts' = Nonces /\ prompts' = [m \in Nonces |-> prompts'[m]]
    BY <1>1
  <1> QED BY <1>2, <1>3, <1>4, <1>5, <1>6, PromptsGo

LEMMA TimeOutWatches ==
    ASSUME NativeInv, NEW n \in Nonces, TimeOut(n)
    PROVE  PromptsWatched'
  <1> DEFINE task == [tasks[n] EXCEPT !.answer = "dropped"]
  <1>1. tasks[n] \in Task
    BY DEF TimeOut, NativeInv, PromptsWatched
  <1>2. task \in Task
    BY <1>1, TaskTold
  <1>3. tasks' = [tasks EXCEPT ![n] = task] /\ prompts' = prompts /\ revision' = revision
    BY DEF TimeOut
  <1>4. revision' \in Nat /\ prompts' \in [Nonces -> Prompt \cup {NoPrompt}]
    BY <1>3 DEF NativeInv, PromptsWatched
  <1> HIDE DEF task
  <1>5. /\ \A m \in Nonces : prompts'[m] \in {prompts[m], NoPrompt}
        /\ DOMAIN prompts' = Nonces /\ prompts' = [m \in Nonces |-> prompts'[m]]
    BY <1>3, <1>4
  <1> QED BY <1>1, <1>2, <1>3, <1>4, <1>5, PromptsGo

LEMMA EndedWatches ==
    ASSUME NativeInv, NEW n \in Nonces, Ended(n), revision' \in Nat
    PROVE  PromptsWatched'
  BY DEF Ended, NativeInv, PromptsWatched

LEMMA OpenPromptWatches ==
    ASSUME NativeInv, NEW t \in Transports, NEW request \in Requests, NEW n \in Nonces,
           OpenPrompt(t, request, n)
    PROVE  PromptsWatched'
  <1> USE DEF NativeInv, PromptsWatched
  <1> DEFINE prompt == [transport |-> t, request |-> request, revision |-> revision + 1]
             task == [approval |-> parked, revision |-> revision + 1, answer |-> "waiting"]
  <1>1. parked \in Approvals /\ revision + 1 \in Nat /\ revision' = revision + 1
    BY DEF OpenPrompt, MayPrompt, NativeTypeOK, Refreshed
  <1>2. prompt \in Prompt /\ task \in Task
    BY <1>1 DEF Prompt, Task
  <1>3. /\ prompts' = [[m \in Nonces |-> NoPrompt] EXCEPT ![n] = prompt]
        /\ \A m \in Nonces :
             \/ m = n /\ tasks'[m] = task
             \/ m # n /\ tasks'[m] \in {tasks[m], [tasks[m] EXCEPT !.answer = "dropped"]}
                      /\ (prompts[m] = NoPrompt => tasks'[m] = tasks[m])
        /\ tasks' = [m \in Nonces |-> tasks'[m]]
    BY DEF OpenPrompt
  <1> HIDE DEF prompt, task
  <1>4. \A m \in Nonces : tasks[m] \in Task => tasks'[m] \in Task
    BY <1>2, <1>3, TaskTold
  <1>5. \A m \in Nonces : tasks'[m] \in Task \cup {NoPrompt}
    BY <1>2, <1>3, <1>4
  <1>6. tasks' \in [Nonces -> Task \cup {NoPrompt}]
    BY <1>3, <1>5
  <1>7. prompts' \in [Nonces -> Prompt \cup {NoPrompt}]
    BY <1>2, <1>3
  <1>8. \A m \in Nonces : prompts'[m] # NoPrompt => tasks'[m] \in Task
    BY <1>2, <1>3
  <1> QED BY <1>1, <1>6, <1>7, <1>8

-----------------------------------------------------------------------------
(* The steps.                                                              *)

\* A step that leaves the records alone.
LEMMA VerdictsKept ==
    ASSUME NativeInv, verdicts' = verdicts
    PROVE  DecisionsStand /\ verdicts' \in [Approvals -> {"unknown", "pending"} \cup Decisions]
  BY DEF NativeInv, NativeTypeOK, DecisionsStand

\* A step that writes one record that was not decided.
LEMMA VerdictWritten ==
    ASSUME NativeInv, NEW a \in Approvals, NEW v \in {"pending"} \cup Decisions,
           verdicts' = [verdicts EXCEPT ![a] = v], verdicts[a] \in Decisions => v = verdicts[a]
    PROVE  DecisionsStand /\ verdicts' \in [Approvals -> {"unknown", "pending"} \cup Decisions]
  BY DEF NativeInv, NativeTypeOK, DecisionsStand, Decisions

\* The steps of the broker and of a task that apply nothing.
LEMMA BrokerStep ==
    ASSUME NativeInv, NEW t \in Transports,
           \/ OpenTransport(t)
           \/ \E n \in Nonces, kind \in ReplyKinds : Reply(t, n, kind)
           \/ \E request \in Requests : CancelRequest(t, request)
    PROVE  DecisionsStand /\ NativeInv'
  <1>1. UNCHANGED <<verdicts, workflow, revision>>
    BY DEF OpenTransport, Reply, CancelRequest, service, workflow
  <1>2. revision' \in Nat
    BY <1>1 DEF NativeInv, PromptsWatched
  <1>3. PromptsWatched'
    BY <1>2, KeepWatches, ReplyWatches, CancelWatches DEF OpenTransport
  <1> QED BY <1>1, <1>3, VerdictsKept, WorkflowKept

LEMMA TaskStep ==
    ASSUME NativeInv, NEW n \in Nonces,
           TimeOut(n) \/ EndStale(n) \/ EndCancelled(n) \/ EndUndecided(n)
    PROVE  DecisionsStand /\ NativeInv'
  <1>1. UNCHANGED <<verdicts, workflow>>
    BY DEF TimeOut, EndStale, EndCancelled, EndUndecided, service, workflow
  <1>2. revision \in Nat /\ revision' \in {revision, revision + 1}
    BY DEF TimeOut, EndStale, EndCancelled, EndUndecided, Refreshed, NativeInv, PromptsWatched
  <1>3. revision' \in Nat
    BY <1>2
  <1>4. PromptsWatched'
    BY <1>3, EndedWatches, TimeOutWatches DEF EndStale, EndCancelled, EndUndecided
  <1> QED BY <1>1, <1>4, VerdictsKept, WorkflowKept

\* Time, an operation that asks for nothing, and the reviewer on the page.
LEMMA OutsideStep ==
    ASSUME NativeInv,
           \/ \E x \in Transports \cup Nonces : Lapse(x)
           \/ Mutate
           \/ \E a \in Approvals, d \in Decisions : DecideOnPage(a, d)
    PROVE  DecisionsStand /\ NativeInv'
  <1>1. UNCHANGED <<prompts, tasks, workflow>>
    BY DEF Lapse, Mutate, DecideOnPage, broker, workflow
  <1>2. PromptsWatched'
    BY <1>1 DEF Lapse, Mutate, DecideOnPage, Refreshed, NativeInv, PromptsWatched
  <1>3. DecisionsStand /\ verdicts' \in [Approvals -> {"unknown", "pending"} \cup Decisions]
    <2>1. CASE verdicts' = verdicts
      BY <2>1, VerdictsKept
    <2>2. CASE \E a \in Approvals, d \in Decisions : DecideOnPage(a, d)
      BY <2>2, VerdictWritten DEF DecideOnPage, Decisions
    <2> QED BY <2>1, <2>2 DEF Lapse, Mutate, service
  <1> QED BY <1>1, <1>2, <1>3, WorkflowKept

LEMMA AskStep ==
    ASSUME NativeInv, NEW t \in Transports,
           \/ \E request \in Requests, n \in Nonces : OpenPrompt(t, request, n)
           \/ RefusePrompt(t)
    PROVE  DecisionsStand /\ NativeInv'
  <1>1. UNCHANGED workflow /\ parked \in Approvals
    BY DEF OpenPrompt, RefusePrompt, MayPrompt, NativeInv, NativeTypeOK
  <1>2. verdicts[parked] \in {"unknown", "pending"} \cup Decisions
    BY <1>1 DEF NativeInv, NativeTypeOK
  <1>3. PromptsWatched'
    BY OpenPromptWatches, KeepWatches DEF RefusePrompt, NativeInv, PromptsWatched
  <1>4. \/ verdicts' = verdicts
        \/ \E v \in {"pending"} \cup Decisions :
             verdicts' = [verdicts EXCEPT ![parked] = v]
             /\ (verdicts[parked] \in Decisions => v = verdicts[parked])
    <2>1. CASE RefusePrompt(t)
      <3>1. PICK v : v = Record(parked)
        OBVIOUS
      <3>2. v \in {"pending"} \cup Decisions /\ (verdicts[parked] \in Decisions => v = verdicts[parked])
        BY <3>1, <1>2 DEF Record, Decisions
      <3>3. verdicts' = verdicts \/ verdicts' = [verdicts EXCEPT ![parked] = v]
        BY <2>1, <3>1 DEF RefusePrompt
      <3> QED BY <3>2, <3>3
    <2>2. CASE \E request \in Requests, n \in Nonces : OpenPrompt(t, request, n)
      BY <2>2, <1>2 DEF OpenPrompt, Record, Decisions
    <2> QED BY <2>1, <2>2
  <1>5. DecisionsStand /\ verdicts' \in [Approvals -> {"unknown", "pending"} \cup Decisions]
    BY <1>1, <1>4, VerdictsKept, VerdictWritten
  <1> QED BY <1>1, <1>3, <1>5, WorkflowKept

LEMMA ParkStep ==
    ASSUME NativeInv, ParkTransition
    PROVE  DecisionsStand /\ NativeInv'
  <1> USE DEF NativeInv
  <1>1. /\ asked' = asked + 1 /\ parked' = asked + 1 /\ asked < MaxApprovals
        /\ revision' = revision + 1
        /\ UNCHANGED <<prompts, tasks, verdicts, applied, stopped>>
    BY DEF ParkTransition, Refreshed, broker, service
  <1>2. PromptsWatched'
    BY <1>1 DEF PromptsWatched
  <1>3. asked \in Nat /\ applied \cup stopped \subseteq 1 .. asked
    BY NativeAssumption DEF NativeTypeOK, ParkedIsOpen
  <1>4. asked' \in 0 .. MaxApprovals /\ parked' \in Approvals
    BY <1>1, <1>3, NativeAssumption DEF Approvals
  <1>5. NativeTypeOK'
    BY <1>1, <1>4 DEF NativeTypeOK, Approvals, Decisions
  <1>6. ParkedIsOpen'
    BY <1>1, <1>3 DEF ParkedIsOpen
  <1>7. AppliedIsApproved'
    BY <1>1 DEF AppliedIsApproved
  <1> QED BY <1>1, <1>2, <1>5, <1>6, <1>7, VerdictsKept

LEMMA DeactivateStep ==
    ASSUME NativeInv, Deactivate
    PROVE  DecisionsStand /\ NativeInv'
  <1> USE DEF NativeInv
  <1>1. /\ parked # 0 /\ parked' = 0
        /\ stopped' \subseteq stopped \cup {parked}
        /\ revision' = revision + 1
        /\ UNCHANGED <<prompts, tasks, verdicts, asked, applied>>
    BY DEF Deactivate, Refreshed, broker, service
  <1>2. PromptsWatched'
    BY <1>1 DEF PromptsWatched
  <1>3. parked \in 1 .. asked /\ asked \in Nat /\ parked \notin applied
    BY <1>1, NativeAssumption DEF NativeTypeOK, ParkedIsOpen, Approvals
  <1>4. NativeTypeOK'
    BY <1>1 DEF NativeTypeOK, Approvals, Decisions
  <1>5. ParkedIsOpen'
    BY <1>1, <1>3 DEF ParkedIsOpen
  <1>6. AppliedIsApproved'
    BY <1>1, <1>3 DEF AppliedIsApproved
  <1> QED BY <1>1, <1>2, <1>4, <1>5, <1>6, VerdictsKept

LEMMA ReconcileStep ==
    ASSUME NativeInv, NEW t \in Transports, Reconcile(t)
    PROVE  DecisionsStand /\ NativeInv'
  <1>1. parked \in Approvals /\ ApplyVerdict(parked) /\ verdicts' = verdicts
    BY DEF Reconcile, MayPrompt, NativeInv, NativeTypeOK
  <1>2. PromptsWatched'
    BY KeepWatches DEF Reconcile, Refreshed, NativeInv, PromptsWatched
  <1> QED BY <1>1, <1>2, VerdictsKept, VerdictApplied

LEMMA CallbackStep ==
    ASSUME NativeInv, NEW a \in Approvals, ApprovalCallback(a)
    PROVE  DecisionsStand /\ NativeInv'
  <1>1. ApplyVerdict(a) /\ verdicts' = verdicts
    BY DEF ApprovalCallback
  <1>2. PromptsWatched'
    BY DEF ApprovalCallback, broker, Refreshed, NativeInv, PromptsWatched
  <1> QED BY <1>1, <1>2, VerdictsKept, VerdictApplied

LEMMA DecidedStep ==
    ASSUME NativeInv, NEW n \in Nonces, EndDecided(n) \/ EndUnanswered(n)
    PROVE  DecisionsStand /\ NativeInv'
  <1>1. PICK a \in Approvals : a = tasks[n].approval
    BY DEF EndDecided, EndUnanswered, Ended, NativeInv, PromptsWatched, Task
  <1>2. tasks[n].answer \in Decisions
    BY DEF EndDecided, EndUnanswered
  <1>3. PromptsWatched'
    BY EndedWatches DEF EndDecided, EndUnanswered, Refreshed, NativeInv, PromptsWatched
  <1>4. DecisionsStand /\ verdicts' \in [Approvals -> {"unknown", "pending"} \cup Decisions]
    <2>1. CASE verdicts' = verdicts
      BY <2>1, VerdictsKept
    <2>2. CASE CommitDecision(a, tasks[n].answer)
      <3>1. PICK v \in Decisions : /\ verdicts' = [verdicts EXCEPT ![a] = v]
                                   /\ verdicts[a] \in Decisions => v = verdicts[a]
        BY <2>2, <1>2 DEF CommitDecision
      <3> QED BY <3>1, VerdictWritten
    <2> QED BY <2>1, <2>2, <1>1 DEF EndDecided, EndUnanswered
  <1>5. UNCHANGED workflow \/ ApplyVerdict(a)
    BY <1>1 DEF EndDecided, EndUnanswered
  <1> QED BY <1>3, <1>4, <1>5, WorkflowKept, VerdictApplied

LEMMA NativeInitHolds ==
    ASSUME NativeInit
    PROVE  NativeInv
  <1>1. NativeTypeOK /\ PromptsWatched
    BY NativeAssumption DEF NativeInit, NativeTypeOK, PromptsWatched
  <1>2. ParkedIsOpen /\ AppliedIsApproved
    BY DEF NativeInit, ParkedIsOpen, AppliedIsApproved
  <1> QED BY <1>1, <1>2 DEF NativeInv

LEMMA NativeStep ==
    ASSUME NativeInv, [NativeNext]_nativeVars
    PROVE  DecisionsStand /\ NativeInv'
  <1>1. CASE UNCHANGED nativeVars
    <2>1. UNCHANGED workflow /\ UNCHANGED <<prompts, tasks, revision, verdicts>>
      BY <1>1 DEF nativeVars, broker, service
    <2>2. PromptsWatched'
      BY <2>1 DEF NativeInv, PromptsWatched
    <2> QED BY <2>1, <2>2, VerdictsKept, WorkflowKept
  <1>2. CASE NativeNext
    <2>1. ASSUME NEW t \in Transports,
                 \/ OpenTransport(t)
                 \/ \E n \in Nonces, kind \in ReplyKinds : Reply(t, n, kind)
                 \/ \E request \in Requests : CancelRequest(t, request)
          PROVE  DecisionsStand /\ NativeInv'
      BY <2>1, BrokerStep
    <2>2. ASSUME NEW t \in Transports,
                 \/ \E request \in Requests, n \in Nonces : OpenPrompt(t, request, n)
                 \/ RefusePrompt(t)
          PROVE  DecisionsStand /\ NativeInv'
      BY <2>2, AskStep
    <2>3. ASSUME NEW t \in Transports, Reconcile(t)
          PROVE  DecisionsStand /\ NativeInv'
      BY <2>3, ReconcileStep
    <2>4. ASSUME \/ \E x \in Transports \cup Nonces : Lapse(x)
                 \/ Mutate
                 \/ \E a \in Approvals, d \in Decisions : DecideOnPage(a, d)
          PROVE  DecisionsStand /\ NativeInv'
      BY <2>4, OutsideStep
    <2>5. ASSUME ParkTransition \/ Deactivate
          PROVE  DecisionsStand /\ NativeInv'
      BY <2>5, ParkStep, DeactivateStep
    <2>6. ASSUME NEW a \in Approvals, ApprovalCallback(a)
          PROVE  DecisionsStand /\ NativeInv'
      BY <2>6, CallbackStep
    <2>7. ASSUME NEW n \in Nonces, TimeOut(n) \/ EndTask(n)
          PROVE  DecisionsStand /\ NativeInv'
      <3>1. CASE TimeOut(n) \/ EndStale(n) \/ EndCancelled(n) \/ EndUndecided(n)
        BY <3>1, TaskStep
      <3>2. CASE EndDecided(n) \/ EndUnanswered(n)
        BY <3>2, DecidedStep
      <3> QED BY <2>7, <3>1, <3>2 DEF EndTask
    <2> QED BY <1>2, <2>1, <2>2, <2>3, <2>4, <2>5, <2>6, <2>7 DEF NativeNext
  <1> QED BY <1>1, <1>2

\* A transition is made for an approved approval only, and never in a run the
\* owner stopped while it was undecided: for any number of prompts, approvals,
\* transports and outages (begin, finish, handle_approval_callback).
THEOREM NativeApprovalsHold == NativeSpec => []AppliedIsApproved
  <1>1. NativeInit => NativeInv
    BY NativeInitHolds
  <1>2. NativeInv /\ [NativeNext]_nativeVars => NativeInv'
    BY NativeStep
  <1>3. NativeInv => AppliedIsApproved
    BY DEF NativeInv
  <1> QED BY <1>1, <1>2, <1>3, PTL DEF NativeSpec

\* The first commit wins: no form, page, callback or retry changes what the
\* service has decided (begin, finish: "First commit wins").
THEOREM FirstCommitWins == NativeSpec => [][DecisionsStand]_nativeVars
  <1>1. NativeInit => NativeInv
    BY NativeInitHolds
  <1>2. NativeInv /\ [NativeNext]_nativeVars => NativeInv' /\ DecisionsStand
    BY NativeStep
  <1> QED BY <1>1, <1>2, PTL DEF NativeSpec

-----------------------------------------------------------------------------
(* The usage ledger.  Sheets are numbered by the epochs of their states,   *)
(* so a report finds one sheet at most, and what a sheet says of other     *)
(* tokens follows from its total and its tools.                            *)

Sheet ==
    [state : LedgerStates, epoch : Nat, rank : Nat, total : Nat, tools : Seq(ToolIds), nonTool : Nat]

Derived(sheet) ==
    sheet.nonTool = IF sheet.total > Len(sheet.tools) THEN sheet.total - Len(sheet.tools) ELSE 0

UsageTypeOK ==
    /\ sheets \in Seq(Sheet)
    /\ sitting \in Nat
    /\ \A r \in reports : r.rank \in Nat /\ r.total \in Nat /\ r.id \in Nat

SheetsNumbered ==
    /\ epoch = Len(sheets)
    /\ \A i \in DOMAIN sheets : sheets[i].epoch = i /\ Derived(sheets[i])

UsageInv == UsageTypeOK /\ SheetsNumbered

\* One sheet takes over from another of the same state.
Succeeds(new, old) ==
    /\ new.state = old.state
    /\ new.rank > old.rank \/ (new.rank = old.rank /\ new.total >= old.total)

SheetsImprove ==
    \A i \in DOMAIN sheets : i \in DOMAIN sheets' /\ Succeeds(sheets'[i], sheets[i])

\* A sheet's derived count is brought up to date.
LEMMA DerivedUpdated ==
    ASSUME NEW sheet \in Sheet
    PROVE  /\ UpdateDerived(sheet) \in Sheet /\ Derived(UpdateDerived(sheet))
           /\ UpdateDerived(sheet).state = sheet.state /\ UpdateDerived(sheet).epoch = sheet.epoch
           /\ UpdateDerived(sheet).rank = sheet.rank /\ UpdateDerived(sheet).total = sheet.total
  <1> DEFINE n == Len(sheet.tools)
             k == IF sheet.total > n THEN sheet.total - n ELSE 0
  <1>1. sheet.tools \in Seq(ToolIds) /\ sheet.total \in Nat
    BY DEF Sheet
  <1>2. n \in Nat
    BY <1>1, LenProperties
  <1>3. UpdateDerived(sheet) = [sheet EXCEPT !.nonTool = k]
    BY DEF UpdateDerived
  <1> HIDE DEF n
  <1>4. k \in Nat
    BY <1>1, <1>2
  <1> HIDE DEF k
  <1>5. [sheet EXCEPT !.nonTool = k] \in Sheet
    BY <1>4 DEF Sheet
  <1>6. /\ UpdateDerived(sheet).nonTool = k /\ UpdateDerived(sheet).tools = sheet.tools
        /\ UpdateDerived(sheet).state = sheet.state /\ UpdateDerived(sheet).epoch = sheet.epoch
        /\ UpdateDerived(sheet).rank = sheet.rank /\ UpdateDerived(sheet).total = sheet.total
    BY <1>3 DEF Sheet
  <1> QED BY <1>3, <1>5, <1>6 DEF Derived, k, n

\* The steps that bring one sheet up to date.
LEMMA SheetChanged ==
    ASSUME UsageInv, NEW i \in DOMAIN sheets, NEW new \in Sheet,
           sheets' = [sheets EXCEPT ![i] = UpdateDerived(new)],
           new.epoch = sheets[i].epoch, Succeeds(new, sheets[i]),
           UNCHANGED <<epoch, reports, sitting>>
    PROVE  UsageInv' /\ SheetsImprove
  <1>1. sheets \in Seq(Sheet) /\ DOMAIN sheets = 1 .. Len(sheets)
    BY LenProperties DEF UsageInv, UsageTypeOK
  <1> DEFINE sheet == UpdateDerived(new)
  <1>2. /\ sheet \in Sheet /\ Derived(sheet) /\ sheet.epoch = sheets[i].epoch
        /\ Succeeds(sheet, sheets[i])
    BY DerivedUpdated DEF Succeeds
  <1> HIDE DEF sheet
  <1>3. sheets' = [sheets EXCEPT ![i] = sheet]
    BY DEF sheet
  <1>4. /\ sheets' \in Seq(Sheet) /\ Len(sheets') = Len(sheets)
        /\ \A j \in 1 .. Len(sheets) : sheets'[j] = IF j = i THEN sheet ELSE sheets[j]
    BY <1>1, <1>2, <1>3, ExceptSeq
  <1>5. DOMAIN sheets' = DOMAIN sheets
    BY <1>1, <1>4, LenProperties
  <1>6. \A j \in DOMAIN sheets : sheets[j] \in Sheet
    BY <1>1, ElementOfSeq
  <1>7. \A j \in DOMAIN sheets : Succeeds(sheets[j], sheets[j])
    BY <1>6 DEF Succeeds, Sheet
  <1>8. \A j \in DOMAIN sheets : sheets[j].epoch = j /\ Derived(sheets[j])
    BY DEF UsageInv, SheetsNumbered
  <1>9. ASSUME NEW j \in DOMAIN sheets
        PROVE  /\ sheets'[j].epoch = j /\ Derived(sheets'[j])
               /\ Succeeds(sheets'[j], sheets[j])
    <2>1. CASE j = i
      <3>1. sheets'[j] = sheet
        BY <2>1, <1>1, <1>4
      <3> QED BY <2>1, <3>1, <1>2, <1>8
    <2>2. CASE j # i
      <3>1. sheets'[j] = sheets[j]
        BY <2>2, <1>1, <1>4
      <3> QED BY <3>1, <1>7, <1>8
    <2> QED BY <2>1, <2>2
  <1>10. \A j \in DOMAIN sheets' : sheets'[j].epoch = j /\ Derived(sheets'[j])
    BY <1>5, <1>9
  <1>11. /\ sitting' \in Nat
         /\ \A r \in reports' : r.rank \in Nat /\ r.total \in Nat /\ r.id \in Nat
    BY DEF UsageInv, UsageTypeOK
  <1>12. epoch' = Len(sheets')
    BY <1>4 DEF UsageInv, SheetsNumbered
  <1>13. UsageTypeOK' /\ SheetsNumbered'
    BY <1>4, <1>10, <1>11, <1>12 DEF UsageTypeOK, SheetsNumbered, Derived
  <1> QED BY <1>5, <1>9, <1>13 DEF UsageInv, SheetsImprove

\* The steps that leave the sheets alone.
LEMMA SheetsKept ==
    ASSUME UsageInv, UNCHANGED <<sheets, epoch, sitting>>,
           \A r \in reports' : r.rank \in Nat /\ r.total \in Nat /\ r.id \in Nat
    PROVE  UsageInv' /\ SheetsImprove
  <1>1. UsageInv'
    BY DEF UsageInv, UsageTypeOK, SheetsNumbered, Derived
  <1>2. \A j \in DOMAIN sheets : sheets[j] \in Sheet
    BY LenProperties, ElementOfSeq DEF UsageInv, UsageTypeOK
  <1> QED BY <1>1, <1>2 DEF SheetsImprove, Succeeds, Sheet

\* A new sheet is empty.
LEMMA EmptySheet ==
    ASSUME NEW state \in LedgerStates, NEW e \in Nat
    PROVE  EmptyState(state, e) \in Sheet /\ Derived(EmptyState(state, e)) /\ EmptyState(state, e).epoch = e
  <1>1. << >> \in Seq(ToolIds) /\ Len(<< >>) = 0
    BY EmptySeq
  <1> QED BY <1>1 DEF EmptyState, Sheet, Derived

LEMMA StartUsageStep ==
    ASSUME UsageInv, NEW run \in LedgerRuns, NEW state \in LedgerStates, StartUsage(run, state)
    PROVE  UsageInv'
  <1> DEFINE sheet == EmptyState(state, 1)
  <1>1. sheet \in Sheet /\ Derived(sheet) /\ sheet.epoch = 1
    BY EmptySheet
  <1>2. sheets' = <<sheet>> /\ epoch' = 1 /\ reports' = reports /\ sitting' = sitting + 1
    BY DEF StartUsage
  <1> HIDE DEF sheet
  <1>3. sheets' \in Seq(Sheet) /\ Len(sheets') = 1 /\ DOMAIN sheets' = {1} /\ sheets'[1] = sheet
    BY <1>1, <1>2
  <1> QED BY <1>1, <1>2, <1>3 DEF UsageInv, UsageTypeOK, SheetsNumbered, Derived

LEMMA MoveUsageStep ==
    ASSUME UsageInv, NEW to \in LedgerStates, MoveUsage(to)
    PROVE  UsageInv' /\ SheetsImprove
  <1>1. sheets \in Seq(Sheet) /\ DOMAIN sheets = 1 .. Len(sheets) /\ Len(sheets) \in Nat
    BY LenProperties DEF UsageInv, UsageTypeOK
  <1> DEFINE n == Len(sheets)
             sheet == EmptyState(to, n + 1)
  <1>2. epoch = n
    BY DEF UsageInv, SheetsNumbered
  <1>3. sheet \in Sheet /\ Derived(sheet) /\ sheet.epoch = n + 1
    BY <1>1, EmptySheet
  <1>4. sheets' = Append(sheets, sheet) /\ epoch' = n + 1 /\ UNCHANGED <<reports, sitting>>
    BY <1>2 DEF MoveUsage
  <1> HIDE DEF sheet
  <1>5. /\ sheets' \in Seq(Sheet) /\ Len(sheets') = n + 1
        /\ \A i \in 1 .. n : sheets'[i] = sheets[i]
        /\ sheets'[n + 1] = sheet
    BY <1>1, <1>3, <1>4, AppendProperties
  <1>6. DOMAIN sheets' = 1 .. n + 1
    BY <1>5, LenProperties
  <1> HIDE DEF n
  <1>7. \A j \in 1 .. n : sheets[j] \in Sheet /\ sheets[j].epoch = j /\ Derived(sheets[j])
    BY <1>1, ElementOfSeq DEF UsageInv, SheetsNumbered, n
  <1>8. \A j \in 1 .. n : Succeeds(sheets'[j], sheets[j])
    BY <1>5, <1>7 DEF Succeeds, Sheet
  <1>9. n \in Nat /\ DOMAIN sheets = 1 .. n
    BY <1>1 DEF n
  <1>10. \A j \in 1 .. n + 1 : sheets'[j].epoch = j /\ Derived(sheets'[j])
    <2> SUFFICES ASSUME NEW j \in 1 .. n + 1
                 PROVE  sheets'[j].epoch = j /\ Derived(sheets'[j])
      OBVIOUS
    <2>1. CASE j = n + 1
      BY <2>1, <1>3, <1>5
    <2>2. CASE j \in 1 .. n
      BY <2>2, <1>5, <1>7
    <2> QED BY <2>1, <2>2, <1>9
  <1>11. UsageInv'
    BY <1>4, <1>5, <1>6, <1>10 DEF UsageInv, UsageTypeOK, SheetsNumbered, Derived
  <1> QED BY <1>6, <1>8, <1>9, <1>11 DEF SheetsImprove

LEMMA ReportUsageStep ==
    ASSUME UsageInv, NEW r \in reports, ReportUsage(r)
    PROVE  UsageInv' /\ SheetsImprove
  <1>1. PICK i \in DOMAIN sheets :
            /\ Applies(r, sheets[i])
            /\ sheets' = [sheets EXCEPT ![i] = WithTotal(sheets[i], r.rank, r.total)]
    BY DEF ReportUsage, Retained
  <1> DEFINE new == [sheets[i] EXCEPT !.rank = r.rank, !.total = r.total]
  <1>2. sheets[i] \in Sheet /\ r.rank \in Nat /\ r.total \in Nat
    BY LenProperties, ElementOfSeq DEF UsageInv, UsageTypeOK
  <1>3. new \in Sheet /\ new.epoch = sheets[i].epoch
    BY <1>2 DEF Sheet
  <1>4. new.state = sheets[i].state /\ new.rank = r.rank /\ new.total = r.total
    BY <1>2 DEF Sheet
  <1>5. Succeeds(new, sheets[i])
    BY <1>1, <1>4 DEF Succeeds, Applies
  <1>6. sheets' = [sheets EXCEPT ![i] = UpdateDerived(new)]
    BY <1>1 DEF WithTotal
  <1> HIDE DEF new
  <1> QED BY <1>3, <1>5, <1>6, SheetChanged DEF ReportUsage

\* A tool is noted on the current sheet.
LEMMA ToolNoted ==
    ASSUME UsageInv, sheets # <<>>, NEW tool \in ToolIds, UNCHANGED <<epoch, reports, sitting>>,
           sheets' = [sheets EXCEPT ![Len(sheets)] = WithTool(sheets[Len(sheets)], tool)]
    PROVE  UsageInv' /\ SheetsImprove
  <1> DEFINE i == Len(sheets)
             new == [sheets[i] EXCEPT !.tools = Append(@, tool)]
  <1>1. i \in DOMAIN sheets /\ sheets[i] \in Sheet
    BY LenProperties, EmptySeq, ElementOfSeq DEF UsageInv, UsageTypeOK
  <1> HIDE DEF i
  <1>2. sheets[i].tools \in Seq(ToolIds)
    BY <1>1 DEF Sheet
  <1>3. Append(sheets[i].tools, tool) \in Seq(ToolIds)
    BY <1>2, AppendProperties
  <1>4. new \in Sheet /\ new.epoch = sheets[i].epoch
    BY <1>1, <1>3 DEF Sheet
  <1>5. Succeeds(new, sheets[i])
    BY <1>1 DEF Succeeds, Sheet
  <1>6. sheets' = [sheets EXCEPT ![i] = UpdateDerived(new)]
    BY DEF i, WithTool
  <1> HIDE DEF new
  <1> QED BY <1>1, <1>4, <1>5, <1>6, SheetChanged

LEMMA ReportToolStep ==
    ASSUME UsageInv, NEW r \in reports, ReportTool(r)
    PROVE  UsageInv' /\ SheetsImprove
  <1>1. sheets # <<>> /\ UNCHANGED <<epoch, reports, sitting>> /\ Len(sheets) \in DOMAIN sheets
    BY DEF ReportTool, Retained
  <1>2. sheets \in Seq(Sheet) /\ <<"controller", r.id>> \in ToolIds
    BY DEF UsageInv, UsageTypeOK, ToolIds
  <1>3. \/ sheets' = [sheets EXCEPT ![Len(sheets)] = sheets[Len(sheets)]]
        \/ sheets' = [sheets EXCEPT ![Len(sheets)] =
                        WithTool(sheets[Len(sheets)], <<"controller", r.id>>)]
    BY DEF ReportTool
  <1>4. CASE sheets' = [sheets EXCEPT ![Len(sheets)] = sheets[Len(sheets)]]
    <2>1. sheets' = sheets
      BY <1>1, <1>2, <1>4, LenProperties
    <2> QED BY <2>1, <1>1, SheetsKept DEF UsageInv, UsageTypeOK
  <1> QED BY <1>1, <1>2, <1>3, <1>4, ToolNoted

LEMMA NoteGatewayToolStep ==
    ASSUME UsageInv, NoteGatewayTool
    PROVE  UsageInv' /\ SheetsImprove
  <1> DEFINE tool == <<"gateway", Len(CurrentSheet.tools) + 1>>
  <1>1. sheets # <<>> /\ UNCHANGED <<epoch, reports, sitting>>
    BY DEF NoteGatewayTool
  <1>2. sheets[Len(sheets)] \in Sheet
    BY <1>1, LenProperties, EmptySeq, ElementOfSeq DEF UsageInv, UsageTypeOK
  <1>3. CurrentSheet.tools \in Seq(ToolIds)
    BY <1>1, <1>2 DEF CurrentSheet, Sheet
  <1>4. tool \in ToolIds
    BY <1>3, LenProperties DEF ToolIds
  <1>5. sheets' = [sheets EXCEPT ![Len(sheets)] = WithTool(sheets[Len(sheets)], tool)]
    BY DEF NoteGatewayTool
  <1> HIDE DEF tool
  <1> QED BY <1>1, <1>4, <1>5, ToolNoted

LEMMA MakeReportStep ==
    ASSUME UsageInv, NEW channel, NEW kind, NEW rank \in Nat, NEW total \in Nat, NEW id \in Nat,
           MakeReport(channel, kind, rank, total, id)
    PROVE  UsageInv' /\ SheetsImprove
  <1>1. \A r \in reports' : r \in reports \/ (r.rank = rank /\ r.total = total /\ r.id = id)
    BY DEF MakeReport
  <1> QED BY <1>1, SheetsKept DEF MakeReport, UsageInv, UsageTypeOK

LEMMA UsageStep ==
    ASSUME UsageInv, [UsageNext]_usageVars
    PROVE  UsageInv' /\ (sitting' = sitting => SheetsImprove)
  <1>1. CASE UNCHANGED usageVars
    BY <1>1, SheetsKept DEF usageVars, UsageInv, UsageTypeOK
  <1>2. CASE UsageNext
    <2>1. ASSUME NEW run \in LedgerRuns, NEW state \in LedgerStates, StartUsage(run, state)
          PROVE  UsageInv' /\ sitting' = sitting + 1
      BY <2>1, StartUsageStep DEF StartUsage
    <2>2. ASSUME NEW to \in LedgerStates, MoveUsage(to)
          PROVE  UsageInv' /\ SheetsImprove
      BY <2>2, MoveUsageStep
    <2>3. ASSUME EndRun
          PROVE  UsageInv' /\ SheetsImprove
      BY <2>3, SheetsKept DEF EndRun, UsageInv, UsageTypeOK
    <2>4. ASSUME NEW channel \in Channels, NEW rank \in Ranks, NEW total \in 0 .. MaxTokens,
                 NEW id \in Invocations, MakeReport(channel, "usage", rank, total, id)
          PROVE  UsageInv' /\ SheetsImprove
      <3>1. rank \in Nat /\ total \in Nat /\ id \in Nat
        BY UsageAssumption
      <3> QED BY <2>4, <3>1, MakeReportStep
    <2>5. ASSUME NEW id \in Invocations, MakeReport("controller", "tool", 0, 0, id)
          PROVE  UsageInv' /\ SheetsImprove
      <3>1. id \in Nat
        BY UsageAssumption
      <3> QED BY <2>5, <3>1, MakeReportStep
    <2>6. ASSUME NEW r \in reports, ReportUsage(r) \/ ReportTool(r)
          PROVE  UsageInv' /\ SheetsImprove
      BY <2>6, ReportUsageStep, ReportToolStep
    <2>7. ASSUME NoteGatewayTool
          PROVE  UsageInv' /\ SheetsImprove
      BY <2>7, NoteGatewayToolStep
    <2>8. sitting' = sitting + 1 => sitting' # sitting
      BY DEF UsageInv, UsageTypeOK
    <2> QED BY <1>2, <2>1, <2>2, <2>3, <2>4, <2>5, <2>6, <2>7, <2>8 DEF UsageNext
  <1> QED BY <1>1, <1>2

\* Within a sitting no report replaces a total by a less precise or smaller one,
\* whatever is late or repeated (report_usage_from).
THEOREM TotalsMoveForward == UsageSpec => TotalsOnlyImprove
  <1>1. UsageInit => UsageInv
    BY EmptySeq DEF UsageInit, UsageInv, UsageTypeOK, SheetsNumbered
  <1>2. UsageInv /\ [UsageNext]_usageVars => UsageInv' /\ (sitting' = sitting => SheetsImprove)
    BY UsageStep
  <1>3. (sitting' = sitting => SheetsImprove) =>
            (sitting' = sitting =>
                \A i \in DOMAIN sheets :
                    /\ i \in DOMAIN sheets'
                    /\ sheets'[i].state = sheets[i].state
                    /\ \/ sheets'[i].rank > sheets[i].rank
                       \/ sheets'[i].rank = sheets[i].rank /\ sheets'[i].total >= sheets[i].total)
    BY DEF SheetsImprove, Succeeds
  <1> QED BY <1>1, <1>2, <1>3, PTL DEF UsageSpec, TotalsOnlyImprove

=============================================================================
