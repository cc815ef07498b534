------------------------------- MODULE Quota -------------------------------
(***************************************************************************)
(* Transition accounting (quota.rs) for one owner.  admit runs in one      *)
(* database transaction that holds the lock of the owner's user row, so    *)
(* each of its outcomes that writes something is one action; the outcomes  *)
(* that refuse write nothing.  A client repeats a request whose answer it  *)
(* has lost, sends one late, or sends two under one operation id: every    *)
(* request may come at any time, any number of times.  In between, time    *)
(* passes, the plan and the subscription change, accounting is switched on *)
(* or off, and others end a run or edit its checkpoint.                    *)
(*                                                                         *)
(* A request is [op, run, count, event, result]: the binding (operation    *)
(* id, run, expected_transition_count), the event, and the session of the  *)
(* candidate checkpoint without its counter.  Owner, session, project and  *)
(* digest only give more ways to differ.  A run row is                     *)
(*    status  running, paused, stopped or completed                        *)
(*    count   transition_count, of the row and of its checkpoint           *)
(*    value   the session in the checkpoint, without its counter           *)
(*    hold    quota_hold: None or [request, source, used, ceiling]         *)
(***************************************************************************)
EXTENDS Naturals, FiniteSets

CONSTANTS
    None,
    Unlimited,      \* transitions_unlimited
    Operations,     \* operation ids
    Runs,
    Values,         \* what a session may be
    Events,
    Step,           \* [<<value, event>> -> value], defined where the engine
                    \* resolves the event to an ordinary transition
    First,          \* the value a run starts with
    Finals,         \* the values in a final state
    Limits,         \* the limits a plan may have: numbers or Unlimited
    Subscriptions,  \* [id, stripe, start, end]
    MonthLength,
    Created,        \* when the user was created
    Activated,      \* accounting_started_at
    MaxTime,
    MaxTransitions, \* MAX_LIMIT, of a run's transition count
    MaxCounter      \* MAX_COUNTER

ASSUME QuotaAssumption ==
    /\ MonthLength \in Nat \ {0}
    /\ MaxTime \in Nat
    /\ MaxTransitions \in Nat
    /\ MaxCounter \in Nat
    /\ Created \in Nat
    /\ Activated \in Nat
    /\ Limits \subseteq Nat \cup {Unlimited}
    /\ Unlimited \notin Nat
    /\ \A s \in Subscriptions : s.start \in Nat /\ s.end \in Nat

ASSUME WorkflowAssumption ==
    /\ First \in Values
    /\ None \notin Subscriptions
    /\ \A x \in DOMAIN Step : Step[x] \in Values

VARIABLES
    runs,       \* [Runs -> row]
    periods,    \* transition_quota_periods: a function from period ids
    receipts,   \* transition_quota_receipts: a function from operation ids
    now,
    active,     \* the rollout's switch
    limit,      \* the limit of the owner's plan
    sub         \* the owner's subscription, or None

vars == <<runs, periods, receipts, now, active, limit, sub>>
world == <<now, active, limit, sub>>

\* valid_request
Requests == [op : Operations, run : Runs, count : 0 .. MaxTransitions - 1,
             event : Events, result : Values]

-----------------------------------------------------------------------------
(* Entitlement.                                                            *)

MonthStart == (now \div MonthLength) * MonthLength

Month == [id |-> <<"utc", MonthStart, MonthStart + MonthLength>>, anchor |-> <<"utc", "month">>,
          start |-> MonthStart, end |-> MonthStart + MonthLength, included |-> limit]

Subscribed ==
    [id |-> <<sub.id, sub.start, sub.end>>, anchor |-> <<sub.id, sub.stripe>>,
     start |-> sub.start, end |-> sub.end, included |-> limit]

\* The owner's entitlement, as a set with at most one element.
Entitlement ==
    IF ~ active \/ Activated > now THEN {}
    ELSE IF sub = None THEN {Month}
    ELSE IF sub.start <= now /\ now < sub.end THEN {Subscribed}
    ELSE {}

Latest == {p \in DOMAIN periods : \A q \in DOMAIN periods : periods[q].start <= periods[p].start}

\* Mutant: a period starts anew whenever it is looked at.
UsedAnew(e) == {0}

\* e is the last recorded period, or one that begins after it has ended.
Follows(p, e) ==
    /\ periods[p].anchor = e.anchor
    /\ IF p = e.id THEN periods[p].start = e.start /\ periods[p].end = e.end
                   ELSE periods[p].end <= e.start

\* The transitions used in the period of e, as a set with at most one element:
\* {} stands for PeriodReconciliationRequired.
Used(e) ==
    IF DOMAIN periods = {} THEN {0}
    ELSE {IF p = e.id THEN periods[p].used ELSE 0 : p \in {q \in Latest : Follows(q, e)}}

Ceiling(included) == included + included \div 5

Enforced(e) == Created >= Activated \/ e.start >= Activated

\* Mutant: off by one.
ExhaustedLate(e, used) ==
    Enforced(e) /\ e.included # Unlimited /\ used > Ceiling(e.included)

Exhausted(e, used) ==
    Enforced(e) /\ e.included # Unlimited /\ used >= Ceiling(e.included)

-----------------------------------------------------------------------------
(* admit.                                                                  *)

\* Mutant: an operation with a receipt is looked at again.
CurrentAgain(req) == runs[req.run].count = req.count

\* No receipt of the operation, and the revision is the one it was made for.
Current(req) == req.op \notin DOMAIN receipts /\ runs[req.run].count = req.count

\* candidate: the engine takes the event in the source checkpoint, and the
\* candidate is its result.
Candidate(req) ==
    /\ <<runs[req.run].value, req.event>> \in DOMAIN Step
    /\ Step[<<runs[req.run].value, req.event>>] = req.result

Entry(f, x, v) == [y \in DOMAIN f \cup {x} |-> IF y = x THEN v ELSE f[y]]

\* The three writes of an admission.
Apply(req, e, used) ==
    /\ used + 1 <= MaxCounter
    /\ periods' = Entry(periods, e.id,
           [anchor |-> e.anchor, start |-> e.start, end |-> e.end, used |-> used + 1])
    /\ runs' = [runs EXCEPT ![req.run] =
           [status |-> IF req.result \in Finals THEN "completed" ELSE "running",
            count |-> req.count + 1, value |-> req.result, hold |-> None]]
    /\ receipts' = Entry(receipts, req.op,
           [request |-> req, period |-> e.id, used_after |-> used + 1, enforced |-> Enforced(e)])
    /\ UNCHANGED world

\* The run is paused with the request and the checkpoint it was made for.
Hold(req, e, used) ==
    /\ runs' = [runs EXCEPT ![req.run].status = "paused",
                            ![req.run].hold = [request |-> req, source |-> runs[req.run].value,
                                               used |-> used, ceiling |-> Ceiling(e.included)]]
    /\ UNCHANGED <<periods, receipts, world>>

\* A run that is running and has no hold.
MayAttempt(req) ==
    /\ Current(req)
    /\ runs[req.run].hold = None
    /\ runs[req.run].status = "running"
    /\ Candidate(req)

\* persist_durable_admission, and admit_or_hold when there is room.
Attempt(req) ==
    /\ MayAttempt(req)
    /\ \E e \in Entitlement : \E used \in Used(e) : ~ Exhausted(e, used) /\ Apply(req, e, used)

\* admit_or_hold when there is none.
AttemptHeld(req) ==
    /\ MayAttempt(req)
    /\ \E e \in Entitlement : \E used \in Used(e) : Exhausted(e, used) /\ Hold(req, e, used)

\* The stored hold is one of this run and revision.
Held(r) ==
    /\ runs[r].hold # None
    /\ runs[r].hold.used >= runs[r].hold.ceiling
    /\ runs[r].hold.request.run = r
    /\ Current(runs[r].hold.request)

\* Mutants: the status, or the source, is not compared.
MayContinueAnyhow(r) ==
    Held(r) /\ runs[r].value = runs[r].hold.source /\ Candidate(runs[r].hold.request)

MayContinueEdited(r) ==
    Held(r) /\ runs[r].status = "paused" /\ Candidate(runs[r].hold.request)

\* A binding equal to the held one; any other is refused.
MayContinue(r) ==
    /\ Held(r)
    /\ runs[r].status = "paused"
    /\ runs[r].value = runs[r].hold.source
    /\ Candidate(runs[r].hold.request)

Continue(r) ==
    /\ MayContinue(r)
    /\ \E e \in Entitlement : \E used \in Used(e) :
         ~ Exhausted(e, used) /\ Apply(runs[r].hold.request, e, used)

\* Still no room: the hold is renewed.
ContinueHeld(r) ==
    /\ MayContinue(r)
    /\ \E e \in Entitlement : \E used \in Used(e) :
         Exhausted(e, used) /\ Hold(runs[r].hold.request, e, used)

\* The hold is kept as evidence.
Cancel(r) ==
    /\ Held(r)
    /\ runs[r].status = "paused"
    /\ runs' = [runs EXCEPT ![r].status = "stopped"]
    /\ UNCHANGED <<periods, receipts, world>>

-----------------------------------------------------------------------------
(* The rest of the world.                                                  *)

\* record_run_end of a run that is deactivated before it is final.
Stop(r) ==
    /\ runs[r].value \notin Finals
    /\ runs' = [runs EXCEPT ![r].status = "stopped"]
    /\ UNCHANGED <<periods, receipts, world>>

\* A change of the context in the checkpoint under the same revision, the hold
\* left alone.
Edit(r) ==
    /\ runs[r].value \notin Finals
    /\ \E v \in Values \ Finals : runs' = [runs EXCEPT ![r].value = v]
    /\ UNCHANGED <<periods, receipts, world>>

Tick ==
    /\ now < MaxTime
    /\ now' = now + 1
    /\ UNCHANGED <<runs, periods, receipts, active, limit, sub>>

ChangePlan ==
    /\ limit' \in Limits
    /\ UNCHANGED <<runs, periods, receipts, now, active, sub>>

ChangeSubscription ==
    /\ sub' \in Subscriptions \cup {None}
    /\ UNCHANGED <<runs, periods, receipts, now, active, limit>>

SwitchAccounting ==
    /\ active' = ~ active
    /\ UNCHANGED <<runs, periods, receipts, now, limit, sub>>

-----------------------------------------------------------------------------
Init ==
    /\ runs = [r \in Runs |-> [status |-> "running", count |-> 0, value |-> First, hold |-> None]]
    /\ periods = << >>
    /\ receipts = << >>
    /\ now = 0
    /\ active \in BOOLEAN
    /\ limit \in Limits
    /\ sub \in Subscriptions \cup {None}

Next ==
    \/ \E req \in Requests : Attempt(req) \/ AttemptHeld(req)
    \/ \E r \in Runs : Continue(r) \/ ContinueHeld(r) \/ Cancel(r) \/ Stop(r) \/ Edit(r)
    \/ Tick \/ ChangePlan \/ ChangeSubscription \/ SwitchAccounting

Spec == Init /\ [][Next]_vars

=============================================================================
