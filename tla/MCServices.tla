----------------------------- MODULE MCServices -----------------------------
(***************************************************************************)
(* Three services of the gateway that keep state of their own and share    *)
(* none: event delivery, the usage ledger and native approvals.  A         *)
(* behaviour exercises one of them, chosen at the start.  Deliveries are   *)
(* explored for two subscribers with one secret and one event, for one     *)
(* that rotates its secret (two workers never send for a subscriber at     *)
(* once), and for one with two events, no faults and grants that lapse.    *)
(***************************************************************************)
EXTENDS EventDelivery, Usage, NativeApproval, TLC

CONSTANTS
    Services,       \* the services a run looks at
    sa, sb, t1, t2

VARIABLE focus

servicesVars == <<focus, deliveryVars, usageVars, nativeVars>>

MCRunOf == (sa :> "r1") @@ (sb :> "r1")
MCCallbackOf == (sa :> "u") @@ (sb :> "u")

MCObservations ==
    {Inactive,
     [run |-> "r1", epoch |-> 1, status |-> "active"],
     [run |-> "r1", epoch |-> 1, status |-> "paused"]}

ServicesInit ==
    /\ focus \in Services
    /\ DeliveryInit
    /\ UsageInit
    /\ NativeInit

\* The verification of a callback ages only where the secret rotates.
StaysFresh == \A s \in Subscribers : subs'[s] # Null => subs'[s].fresh

ServicesNext ==
    /\ UNCHANGED focus
    /\ \/ /\ focus = "delivery" /\ DeliveryNext
          /\ (subscribing' # Null) => (subscribing'.secret = "k")
          /\ Len(events') <= 1
          /\ lapsedGrants' = {}
          /\ StaysFresh
          /\ UNCHANGED <<usageVars, nativeVars>>
       \/ /\ focus = "rotation" /\ DeliveryNext
          /\ (subscribing' # Null) => (subscribing'.sub = sa)
          /\ inflight'["w2"] = Null
          /\ Len(events') <= 1
          /\ lapsedGrants' = {} /\ faults' = 0
          /\ UNCHANGED <<usageVars, nativeVars>>
       \/ /\ focus = "batch" /\ DeliveryNext
          /\ (subscribing' # Null) => (subscribing'.sub = sa /\ subscribing'.secret = "k")
          /\ inflight'["w2"] = Null
          /\ faults' = 0
          /\ StaysFresh
          /\ UNCHANGED <<usageVars, nativeVars>>
       \/ focus = "usage" /\ UsageNext /\ UNCHANGED <<deliveryVars, nativeVars>>
       \/ focus = "native" /\ NativeNext /\ UNCHANGED <<deliveryVars, usageVars>>

ServicesSpec ==
    /\ ServicesInit
    /\ [][ServicesNext]_servicesVars
    /\ DeliveryFairness
    /\ NativeFairness

=============================================================================
