---------------------------- MODULE QuotaProofs ----------------------------
(***************************************************************************)
(* Proofs about transition accounting, for any number of operations, runs, *)
(* plans and subscriptions.                                                *)
(*                                                                         *)
(* The inductive invariant is the type invariant, the disjointness of the  *)
(* recorded periods, the agreement of the counters with the receipts and   *)
(* their numbers, and the finiteness of the set of receipts.               *)
(***************************************************************************)
EXTENDS QuotaSafety, FiniteSetTheorems, TLAPS

\* The receipts of a period bear the numbers 1 .. used.
Numbered == \A p \in DOMAIN periods : Numbers(p) = 1 .. periods[p].used

QuotaInv ==
    /\ QuotaTypeOK
    /\ Numbered
    /\ PeriodsDisjoint
    /\ CounterMatchesReceipts
    /\ EachTransitionPaid
    /\ IsFiniteSet(DOMAIN receipts)

\* What an entitlement is: an interval named by its period id.
IsEntitlement(e) ==
    /\ e.start \in Nat
    /\ e.end \in Nat
    /\ e.start < e.end
    /\ e.id[2] = e.start
    /\ e.id[3] = e.end
    /\ e.included = limit

-----------------------------------------------------------------------------
(* The entitlement and what has been used of it.                           *)

\* A month begins at a natural number.
LEMMA MonthStarts ==
    ASSUME now \in Nat
    PROVE  MonthStart \in Nat
  <1> DEFINE n == now \div MonthLength
  <1>1. n \in Nat
    BY QuotaAssumption
  <1>2. n * MonthLength \in Nat
    <2> HIDE DEF n
    <2> QED BY <1>1, QuotaAssumption
  <1> QED BY <1>2 DEF MonthStart

\* entitlement() returns an interval with the bounds that its period id names.
LEMMA EntitlementType ==
    ASSUME QuotaTypeOK, NEW e \in Entitlement
    PROVE  IsEntitlement(e)
  <1>1. CASE e = Month
    <2>1. MonthStart \in Nat
      BY MonthStarts DEF QuotaTypeOK
    <2> QED BY <1>1, <2>1, QuotaAssumption DEF Month, IsEntitlement
  <1>2. CASE e = Subscribed /\ sub # None /\ sub.start <= now /\ now < sub.end
    <2>1. sub.start \in Nat /\ sub.end \in Nat /\ now \in Nat
      BY <1>2, QuotaAssumption DEF QuotaTypeOK
    <2> QED BY <1>2, <2>1 DEF Subscribed, IsEntitlement
  <1> QED BY <1>1, <1>2 DEF Entitlement

\* The usage admit reads is the number of receipts of the period, also when
\* the period is a new one; and a new period overlaps none before it.
LEMMA UsedCounts ==
    ASSUME QuotaInv, NEW e, IsEntitlement(e), NEW used \in Used(e)
    PROVE  /\ used = Cardinality(PeriodReceipts(e.id))
           /\ Numbers(e.id) = 1 .. used
           /\ used \in Nat
           /\ \A q \in DOMAIN periods : q # e.id =>
                periods[q].end <= e.start \/ e.end <= periods[q].start
  <1> USE DEF QuotaInv
  <1>a. \A q \in DOMAIN periods : IsPeriod(q, periods[q])
    BY DEF QuotaTypeOK
  <1>b. \A op \in DOMAIN receipts : receipts[op].period \in DOMAIN periods
    BY DEF QuotaTypeOK
  <1>c. ASSUME e.id \notin DOMAIN periods
        PROVE  Cardinality(PeriodReceipts(e.id)) = 0 /\ Numbers(e.id) = 1 .. 0
    <2>1. PeriodReceipts(e.id) = {}
      BY <1>b, <1>c DEF PeriodReceipts
    <2>2. Numbers(e.id) = 1 .. 0
      BY <2>1 DEF Numbers
    <2> QED BY <2>1, <2>2, FS_EmptySet
  <1>1. CASE DOMAIN periods = {}
    BY <1>1, <1>c DEF Used
  <1>2. CASE DOMAIN periods # {}
    <2>1. PICK p \in Latest : Follows(p, e) /\ used = IF p = e.id THEN periods[p].used ELSE 0
      BY <1>2 DEF Used
    <2>2. p \in DOMAIN periods /\ \A q \in DOMAIN periods : periods[q].start <= periods[p].start
      BY <2>1 DEF Latest
    <2>3. CASE p = e.id
      <3>1. used = Cardinality(PeriodReceipts(e.id)) /\ Numbers(e.id) = 1 .. used /\ used \in Nat
        BY <2>1, <2>2, <2>3, <1>a DEF CounterMatchesReceipts, Numbered, IsPeriod
      <3>2. periods[p].start = e.start /\ periods[p].end = e.end
        BY <2>1, <2>3 DEF Follows
      <3> QED BY <3>1, <3>2, <2>2, <2>3 DEF PeriodsDisjoint
    <2>4. CASE p # e.id
      <3>1. periods[p].end <= e.start
        BY <2>1, <2>4 DEF Follows
      <3>2. \A q \in DOMAIN periods :
               /\ periods[q].start \in Nat /\ periods[q].end \in Nat
               /\ periods[q].start = q[2]
               /\ periods[q].start < periods[q].end
        BY <1>a DEF IsPeriod
      <3>3. e.id \notin DOMAIN periods
        BY <3>1, <3>2, <2>2 DEF IsEntitlement
      <3>4. \A q \in DOMAIN periods : periods[q].end <= e.start
        BY <3>1, <3>2, <2>2 DEF PeriodsDisjoint, IsEntitlement
      <3> QED BY <3>3, <3>4, <1>c, <2>1, <2>4
    <2> QED BY <2>3, <2>4
  <1> QED BY <1>1, <1>2

-----------------------------------------------------------------------------
(* The writes of an admission.                                             *)

\* A request admit applies is well formed and new, and its run is at the
\* revision it names.
Applicable(req) == IsRequest(req) /\ Current(req)

\* The request of a stored hold, if it is still current, is such a request.
LEMMA HeldApplicable ==
    ASSUME QuotaTypeOK, NEW r \in Runs, Held(r)
    PROVE  Applicable(runs[r].hold.request)
  BY DEF QuotaTypeOK, IsHold, Held, Applicable

\* So is one a client sends.
LEMMA AttemptApplicable ==
    ASSUME NEW req \in Requests, MayAttempt(req)
    PROVE  Applicable(req)
  BY QuotaAssumption DEF Requests, MayAttempt, Applicable, IsRequest

\* Adding an entry under a new operation id adds one to a set of receipts that
\* the entry belongs to, and leaves every other as it is.
LEMMA ReceiptAdded ==
    ASSUME NEW req, Current(req), IsFiniteSet(DOMAIN receipts),
           NEW receipt, receipts' = Entry(receipts, req.op, receipt)
    PROVE  /\ IsFiniteSet(DOMAIN receipts')
           /\ Cardinality(PeriodReceipts(receipt.period)') = Cardinality(PeriodReceipts(receipt.period)) + 1
           /\ \A p : p # receipt.period => PeriodReceipts(p)' = PeriodReceipts(p)
           /\ Cardinality(RunReceipts(receipt.request.run)') = Cardinality(RunReceipts(receipt.request.run)) + 1
           /\ \A r : r # receipt.request.run => RunReceipts(r)' = RunReceipts(r)
  <1>1. DOMAIN receipts' = DOMAIN receipts \cup {req.op}
    BY DEF Entry
  <1>2. req.op \notin DOMAIN receipts
    BY DEF Current
  <1>3. receipts'[req.op] = receipt
    BY <1>1 DEF Entry
  <1>4. \A op \in DOMAIN receipts : receipts'[op] = receipts[op]
    BY <1>1, <1>2 DEF Entry
  <1>5. PeriodReceipts(receipt.period)' = PeriodReceipts(receipt.period) \cup {req.op}
    BY <1>1, <1>3, <1>4 DEF PeriodReceipts
  <1>6. RunReceipts(receipt.request.run)' = RunReceipts(receipt.request.run) \cup {req.op}
    BY <1>1, <1>3, <1>4 DEF RunReceipts
  <1>7. IsFiniteSet(PeriodReceipts(receipt.period)) /\ IsFiniteSet(RunReceipts(receipt.request.run))
    <2>1. PeriodReceipts(receipt.period) \subseteq DOMAIN receipts
      BY DEF PeriodReceipts
    <2>2. RunReceipts(receipt.request.run) \subseteq DOMAIN receipts
      BY DEF RunReceipts
    <2> QED BY <2>1, <2>2, FS_Subset
  <1>8. req.op \notin PeriodReceipts(receipt.period) /\ req.op \notin RunReceipts(receipt.request.run)
    BY <1>2 DEF PeriodReceipts, RunReceipts
  <1>9. Cardinality(PeriodReceipts(receipt.period) \cup {req.op}) = Cardinality(PeriodReceipts(receipt.period)) + 1
    BY <1>7, <1>8, FS_AddElement
  <1>10. Cardinality(RunReceipts(receipt.request.run) \cup {req.op}) = Cardinality(RunReceipts(receipt.request.run)) + 1
    BY <1>7, <1>8, FS_AddElement
  <1>11. IsFiniteSet(DOMAIN receipts')
    BY <1>1, FS_AddElement
  <1>12. \A p : p # receipt.period => PeriodReceipts(p)' = PeriodReceipts(p)
    BY <1>1, <1>2, <1>3, <1>4 DEF PeriodReceipts
  <1>13. \A r : r # receipt.request.run => RunReceipts(r)' = RunReceipts(r)
    BY <1>1, <1>2, <1>3, <1>4 DEF RunReceipts
  <1> QED BY <1>5, <1>6, <1>9, <1>10, <1>11, <1>12, <1>13

\* An admission keeps the invariant.
LEMMA ApplyKeeps ==
    ASSUME QuotaInv, NEW req, Applicable(req), NEW e \in Entitlement, NEW used \in Used(e),
           Apply(req, e, used)
    PROVE  QuotaInv'
  <1> DEFINE receipt == [request |-> req, period |-> e.id, used_after |-> used + 1,
                         enforced |-> Enforced(e)]
  <1> USE DEF QuotaInv
  <1>e. IsEntitlement(e)
    BY EntitlementType
  <1>u. /\ used = Cardinality(PeriodReceipts(e.id))
        /\ Numbers(e.id) = 1 .. used
        /\ used \in Nat
        /\ \A q \in DOMAIN periods : q # e.id =>
             periods[q].end <= e.start \/ e.end <= periods[q].start
    BY <1>e, UsedCounts
  <1>r. receipts' = Entry(receipts, req.op, receipt)
    BY DEF Apply
  <1>c. Current(req) /\ IsRequest(req) /\ req.count \in Nat /\ req.run \in Runs
    BY DEF Applicable, IsRequest
  <1>a. /\ IsFiniteSet(DOMAIN receipts')
        /\ Cardinality(PeriodReceipts(e.id)') = Cardinality(PeriodReceipts(e.id)) + 1
        /\ \A p : p # e.id => PeriodReceipts(p)' = PeriodReceipts(p)
        /\ Cardinality(RunReceipts(req.run)') = Cardinality(RunReceipts(req.run)) + 1
        /\ \A r : r # req.run => RunReceipts(r)' = RunReceipts(r)
    <2>1. receipt.period = e.id /\ receipt.request.run = req.run
      OBVIOUS
    <2> HIDE DEF receipt
    <2> QED BY <2>1, <1>r, <1>c, ReceiptAdded
  <1>p. /\ DOMAIN periods' = DOMAIN periods \cup {e.id}
        /\ periods'[e.id] = [anchor |-> e.anchor, start |-> e.start, end |-> e.end, used |-> used + 1]
        /\ \A q \in DOMAIN periods : q # e.id => periods'[q] = periods[q]
    BY DEF Apply, Entry
  <1>w. /\ DOMAIN runs' = Runs
        /\ runs'[req.run] = [status |-> IF req.result \in Finals THEN "completed" ELSE "running",
                             count |-> req.count + 1, value |-> req.result, hold |-> None]
        /\ \A r \in Runs : r # req.run => runs'[r] = runs[r]
    BY <1>c DEF Apply, QuotaTypeOK
  <1>1. QuotaTypeOK'
    <2>1. \A r \in Runs : IsRow(runs'[r]) /\ (runs'[r].hold # None => IsHold(runs'[r].hold))
      <3> TAKE r \in Runs
      <3>1. CASE r = req.run
        BY <3>1, <1>w, <1>c DEF IsRow, IsRequest
      <3>2. CASE r # req.run
        BY <3>2, <1>w DEF QuotaTypeOK
      <3> QED BY <3>1, <3>2
    <2>2. \A p \in DOMAIN periods' : IsPeriod(p, periods'[p])
      <3> TAKE p \in DOMAIN periods'
      <3>1. CASE p = e.id
        BY <3>1, <1>p, <1>e, <1>u DEF IsPeriod, IsEntitlement
      <3>2. CASE p # e.id
        BY <3>2, <1>p DEF QuotaTypeOK
      <3> QED BY <3>1, <3>2
    <2>3. DOMAIN receipts' = DOMAIN receipts \cup {req.op} /\ receipts'[req.op] = receipt
      BY <1>r DEF Entry
    <2>4. \A op \in DOMAIN receipts : op # req.op => receipts'[op] = receipts[op]
      BY <1>r DEF Entry
    <2>5. DOMAIN receipts' \subseteq Operations
      BY <2>3, <1>c DEF QuotaTypeOK, IsRequest
    <2>6. \A op \in DOMAIN receipts' :
            IsReceipt(op, receipts'[op]) /\ receipts'[op].period \in DOMAIN periods'
      <3> TAKE op \in DOMAIN receipts'
      <3>1. CASE op = req.op
        BY <3>1, <2>3, <1>c, <1>p, <1>u DEF IsReceipt, IsRequest
      <3>2. CASE op # req.op
        BY <3>2, <2>3, <2>4, <1>p DEF QuotaTypeOK
      <3> QED BY <3>1, <3>2
    <2>7. now' = now /\ limit' = limit /\ sub' = sub
      BY DEF Apply, world
    <2> QED BY <1>w, <2>1, <2>2, <2>5, <2>6, <2>7 DEF QuotaTypeOK
  <1>2. PeriodsDisjoint'
    <2> SUFFICES ASSUME NEW p \in DOMAIN periods', NEW q \in DOMAIN periods', p # q
                 PROVE  \/ periods'[p].end <= periods'[q].start
                        \/ periods'[q].end <= periods'[p].start
      BY DEF PeriodsDisjoint
    <2>1. CASE p = e.id
      BY <2>1, <1>p, <1>u
    <2>2. CASE q = e.id
      BY <2>2, <1>p, <1>u
    <2>3. CASE p # e.id /\ q # e.id
      BY <2>3, <1>p DEF PeriodsDisjoint
    <2> QED BY <2>1, <2>2, <2>3
  <1>3. CounterMatchesReceipts'
    <2> SUFFICES ASSUME NEW p \in DOMAIN periods'
                 PROVE  periods'[p].used = Cardinality(PeriodReceipts(p)')
      BY DEF CounterMatchesReceipts
    <2>1. CASE p = e.id
      BY <2>1, <1>p, <1>u, <1>a
    <2>2. CASE p # e.id
      BY <2>2, <1>p, <1>a DEF CounterMatchesReceipts
    <2> QED BY <2>1, <2>2
  <1>4. EachTransitionPaid'
    <2> SUFFICES ASSUME NEW r \in Runs
                 PROVE  runs'[r].count = Cardinality(RunReceipts(r)')
      BY DEF EachTransitionPaid
    <2>1. CASE r = req.run
      <3>1. runs[r].count = req.count
        BY <2>1, <1>c DEF Current
      <3> QED BY <2>1, <3>1, <1>w, <1>a, <1>c DEF EachTransitionPaid
    <2>2. CASE r # req.run
      BY <2>2, <1>w, <1>a DEF EachTransitionPaid
    <2> QED BY <2>1, <2>2
  <1>5. Numbered'
    <2> SUFFICES ASSUME NEW p \in DOMAIN periods'
                 PROVE  Numbers(p)' = 1 .. periods'[p].used
      BY DEF Numbered
    <2>1. /\ DOMAIN receipts' = DOMAIN receipts \cup {req.op}
          /\ req.op \notin DOMAIN receipts
          /\ receipts'[req.op].period = e.id
          /\ receipts'[req.op].used_after = used + 1
          /\ \A op \in DOMAIN receipts : receipts'[op] = receipts[op]
      BY <1>r, <1>c DEF Entry, Current
    <2>2. CASE p = e.id
      <3>1. Numbers(p)' = Numbers(p) \cup {used + 1}
        BY <2>1, <2>2 DEF Numbers, PeriodReceipts
      <3>2. 1 .. (used + 1) = (1 .. used) \cup {used + 1}
        BY <1>u
      <3> QED BY <2>2, <3>1, <3>2, <1>p, <1>u
    <2>3. CASE p # e.id
      <3>1. Numbers(p)' = Numbers(p)
        BY <2>1, <2>3 DEF Numbers, PeriodReceipts
      <3> QED BY <2>3, <3>1, <1>p DEF Numbered
    <2> QED BY <2>2, <2>3
  <1> QED BY <1>1, <1>2, <1>3, <1>4, <1>5, <1>a

\* So does a hold, which charges nothing.
LEMMA HoldKeeps ==
    ASSUME QuotaInv, NEW req, Applicable(req), NEW e, NEW used, Hold(req, e, used)
    PROVE  QuotaInv'
  <1> USE DEF QuotaInv
  <1>1. UNCHANGED <<periods, receipts, now, limit, sub>>
    BY DEF Hold, world
  <1>2. /\ DOMAIN runs' = Runs
        /\ \A r \in Runs : runs'[r].count = runs[r].count
        /\ \A r \in Runs : IsRow(runs'[r]) /\ (runs'[r].hold # None => IsHold(runs'[r].hold))
    <2>1. DOMAIN runs' = Runs /\ req.run \in Runs /\ IsRequest(req)
      BY DEF Hold, QuotaTypeOK, Applicable, IsRequest
    <2> QED BY <2>1 DEF Hold, QuotaTypeOK, IsRow, IsHold
  <1>3. QuotaTypeOK'
    BY <1>1, <1>2 DEF QuotaTypeOK
  <1>4. PeriodsDisjoint' /\ CounterMatchesReceipts' /\ Numbered'
    BY <1>1 DEF PeriodsDisjoint, CounterMatchesReceipts, Numbered, Numbers, PeriodReceipts
  <1>5. EachTransitionPaid'
    BY <1>1, <1>2 DEF EachTransitionPaid, RunReceipts
  <1> QED BY <1>1, <1>3, <1>4, <1>5

\* A step that leaves the counters, the receipts and the revisions alone.
LEMMA RowWriteKeeps ==
    ASSUME QuotaInv, UNCHANGED <<periods, receipts>>, now' \in Nat, limit' \in Limits,
           sub' \in Subscriptions \cup {None}, DOMAIN runs' = Runs,
           \A r \in Runs : /\ IsRow(runs'[r])
                           /\ runs'[r].count = runs[r].count
                           /\ runs'[r].hold = runs[r].hold
    PROVE  QuotaInv'
  <1> USE DEF QuotaInv
  <1>1. QuotaTypeOK'
    BY DEF QuotaTypeOK
  <1>2. PeriodsDisjoint' /\ CounterMatchesReceipts' /\ Numbered'
    BY DEF PeriodsDisjoint, CounterMatchesReceipts, Numbered, Numbers, PeriodReceipts
  <1>3. EachTransitionPaid'
    BY DEF EachTransitionPaid, RunReceipts
  <1> QED BY <1>1, <1>2, <1>3

-----------------------------------------------------------------------------
(* The invariant.                                                          *)

LEMMA InitInv == Init => QuotaInv
  <1> SUFFICES ASSUME Init PROVE QuotaInv
    OBVIOUS
  <1>1. DOMAIN periods = {} /\ DOMAIN receipts = {}
    BY DEF Init
  <1>2. IsFiniteSet(DOMAIN receipts)
    BY <1>1, FS_EmptySet
  <1>3. EachTransitionPaid
    <2> SUFFICES ASSUME NEW r \in Runs PROVE runs[r].count = Cardinality(RunReceipts(r))
      BY DEF EachTransitionPaid
    <2>1. RunReceipts(r) = {}
      BY <1>1 DEF RunReceipts
    <2> QED BY <2>1, FS_EmptySet DEF Init
  <1>4. QuotaTypeOK
    BY <1>1, WorkflowAssumption DEF Init, QuotaTypeOK, IsRow
  <1> QED BY <1>1, <1>2, <1>3, <1>4 DEF QuotaInv, PeriodsDisjoint, CounterMatchesReceipts, Numbered

LEMMA NextInv == QuotaInv /\ [Next]_vars => QuotaInv'
  <1> SUFFICES ASSUME QuotaInv, [Next]_vars PROVE QuotaInv'
    OBVIOUS
  <1>t. /\ now \in Nat /\ limit \in Limits /\ sub \in Subscriptions \cup {None}
        /\ DOMAIN runs = Runs
        /\ \A r \in Runs : IsRow(runs[r])
    BY DEF QuotaInv, QuotaTypeOK
  <1>h. \A r \in Runs : Held(r) => Applicable(runs[r].hold.request)
    BY HeldApplicable DEF QuotaInv
  <1>1. ASSUME NEW req \in Requests, Attempt(req) PROVE QuotaInv'
    <2>1. Applicable(req)
      BY <1>1, AttemptApplicable DEF Attempt
    <2> QED BY <1>1, <2>1, ApplyKeeps DEF Attempt
  <1>2. ASSUME NEW req \in Requests, AttemptHeld(req) PROVE QuotaInv'
    <2>1. Applicable(req)
      BY <1>2, AttemptApplicable DEF AttemptHeld
    <2> QED BY <1>2, <2>1, HoldKeeps DEF AttemptHeld
  <1>3. ASSUME NEW r \in Runs, Continue(r) PROVE QuotaInv'
    <2>1. Applicable(runs[r].hold.request)
      BY <1>3, <1>h DEF Continue, MayContinue
    <2> QED BY <1>3, <2>1, ApplyKeeps DEF Continue
  <1>4. ASSUME NEW r \in Runs, ContinueHeld(r) PROVE QuotaInv'
    <2>1. Applicable(runs[r].hold.request)
      BY <1>4, <1>h DEF ContinueHeld, MayContinue
    <2> QED BY <1>4, <2>1, HoldKeeps DEF ContinueHeld
  <1>5. ASSUME NEW r \in Runs, Cancel(r) \/ Stop(r) PROVE QuotaInv'
    <2>1. /\ UNCHANGED <<periods, receipts, now, limit, sub>>
          /\ runs' = [runs EXCEPT ![r].status = "stopped"]
      BY <1>5 DEF Cancel, Stop, world
    <2>2. DOMAIN runs' = Runs /\ \A q \in Runs :
             IsRow(runs'[q]) /\ runs'[q].count = runs[q].count /\ runs'[q].hold = runs[q].hold
      BY <2>1, <1>t DEF IsRow
    <2> QED BY <2>1, <2>2, <1>t, RowWriteKeeps
  <1>6. ASSUME NEW r \in Runs, Edit(r) PROVE QuotaInv'
    <2>1. UNCHANGED <<periods, receipts, now, limit, sub>>
      BY <1>6 DEF Edit, world
    <2>2. DOMAIN runs' = Runs /\ \A q \in Runs :
             IsRow(runs'[q]) /\ runs'[q].count = runs[q].count /\ runs'[q].hold = runs[q].hold
      BY <1>6, <1>t DEF Edit, IsRow
    <2> QED BY <2>1, <2>2, <1>t, RowWriteKeeps
  <1>7. CASE Tick \/ ChangePlan \/ ChangeSubscription \/ SwitchAccounting \/ UNCHANGED vars
    <2>1. UNCHANGED <<runs, periods, receipts>>
      BY <1>7 DEF Tick, ChangePlan, ChangeSubscription, SwitchAccounting, vars
    <2>2. now' \in Nat /\ limit' \in Limits /\ sub' \in Subscriptions \cup {None}
      BY <1>7, <1>t DEF Tick, ChangePlan, ChangeSubscription, SwitchAccounting, vars
    <2> QED BY <2>1, <2>2, <1>t, RowWriteKeeps
  <1> QED BY <1>1, <1>2, <1>3, <1>4, <1>5, <1>6, <1>7 DEF Next

\* Accounting keeps its types: every receipt is stored under its operation and
\* counts in a recorded period.
THEOREM QuotaTypeCorrect == Spec => []QuotaTypeOK
  <1>1. QuotaInv => QuotaTypeOK
    BY DEF QuotaInv
  <1> QED BY <1>1, InitInv, NextInv, PTL DEF Spec

\* The counter of a period is the number of its receipts, for ever.
THEOREM CountersExact == Spec => []CounterMatchesReceipts
  <1>1. QuotaInv => CounterMatchesReceipts
    BY DEF QuotaInv
  <1> QED BY <1>1, InitInv, NextInv, PTL DEF Spec

\* Each transition of a run was charged exactly once.
THEOREM TransitionsPaid == Spec => []EachTransitionPaid
  <1>1. QuotaInv => EachTransitionPaid
    BY DEF QuotaInv
  <1> QED BY <1>1, InitInv, NextInv, PTL DEF Spec

\* No two periods that were charged overlap.
THEOREM PeriodsNeverOverlap == Spec => []PeriodsDisjoint
  <1>1. QuotaInv => PeriodsDisjoint
    BY DEF QuotaInv
  <1> QED BY <1>1, InitInv, NextInv, PTL DEF Spec

-----------------------------------------------------------------------------
(* Steps: the allowance, holds and the ledger.                             *)

\* A step admits one request within the allowance, a held one only from the
\* checkpoint it was held with, or charges nothing and advances no run.
Admits(req, e, used) ==
    /\ Applicable(req)
    /\ ~ Exhausted(e, used)
    /\ Apply(req, e, used)
    /\ runs[req.run].status # "stopped"
    /\ runs[req.run].hold # None =>
         runs[req.run].hold.request = req /\ runs[req.run].value = runs[req.run].hold.source

ChargesNothing ==
    /\ UNCHANGED receipts
    /\ DOMAIN runs' = Runs
    /\ \A r \in Runs : runs'[r].count = runs[r].count
    /\ \A r \in Runs : runs[r].status = "stopped" => runs'[r].hold = runs[r].hold

LEMMA StepCases ==
    ASSUME QuotaInv, [Next]_vars
    PROVE  \/ \E req : \E e \in Entitlement : \E used \in Used(e) : Admits(req, e, used)
           \/ ChargesNothing
  <1>t. QuotaTypeOK /\ DOMAIN runs = Runs /\ \A r \in Runs : IsRow(runs[r])
    BY DEF QuotaInv, QuotaTypeOK
  <1>1. ASSUME NEW req \in Requests, Attempt(req)
        PROVE  \E e \in Entitlement : \E used \in Used(e) : Admits(req, e, used)
    <2>1. Applicable(req) /\ runs[req.run].hold = None /\ runs[req.run].status # "stopped"
      BY <1>1, AttemptApplicable DEF Attempt, MayAttempt
    <2> QED BY <1>1, <2>1 DEF Attempt, Admits
  <1>2. ASSUME NEW r \in Runs, Continue(r)
        PROVE  \E e \in Entitlement : \E used \in Used(e) : Admits(runs[r].hold.request, e, used)
    <2> DEFINE req == runs[r].hold.request
    <2>1. Applicable(req)
      BY <1>2, <1>t, HeldApplicable DEF Continue, MayContinue
    <2>2. /\ req.run = r
          /\ runs[r].status # "stopped"
          /\ runs[r].value = runs[r].hold.source
      BY <1>2 DEF Continue, MayContinue, Held
    <2>3. PICK e \in Entitlement : \E used \in Used(e) : ~ Exhausted(e, used) /\ Apply(req, e, used)
      BY <1>2 DEF Continue
    <2> QED BY <2>1, <2>2, <2>3 DEF Admits
  <1>3. ASSUME NEW req, NEW e, NEW used, Hold(req, e, used), Applicable(req),
               runs[req.run].status # "stopped"
        PROVE  ChargesNothing
    BY <1>3, <1>t DEF Hold, ChargesNothing, IsRow
  <1>4. ASSUME NEW req \in Requests, AttemptHeld(req) PROVE ChargesNothing
    BY <1>3, <1>4, AttemptApplicable DEF AttemptHeld, MayAttempt
  <1>5. ASSUME NEW r \in Runs, ContinueHeld(r) PROVE ChargesNothing
    <2>1. Applicable(runs[r].hold.request)
      BY <1>5, <1>t, HeldApplicable DEF ContinueHeld, MayContinue
    <2>2. runs[r].hold.request.run = r /\ runs[r].status # "stopped"
      BY <1>5 DEF ContinueHeld, MayContinue, Held
    <2> QED BY <1>3, <1>5, <2>1, <2>2 DEF ContinueHeld
  <1>6. ASSUME NEW r \in Runs, Cancel(r) \/ Stop(r) \/ Edit(r) PROVE ChargesNothing
    BY <1>6, <1>t DEF Cancel, Stop, Edit, ChargesNothing, IsRow
  <1>7. CASE Tick \/ ChangePlan \/ ChangeSubscription \/ SwitchAccounting \/ UNCHANGED vars
    BY <1>7, <1>t DEF Tick, ChangePlan, ChangeSubscription, SwitchAccounting, vars, ChargesNothing
  <1> QED BY <1>1, <1>2, <1>4, <1>5, <1>6, <1>7 DEF Next

\* What an admission writes.
Written(req, e, used) ==
    /\ req.op \notin DOMAIN receipts
    /\ req.op \in Operations
    /\ req.run \in Runs
    /\ DOMAIN receipts' = DOMAIN receipts \cup {req.op}
    /\ receipts'[req.op].request = req
    /\ receipts'[req.op].period = e.id
    /\ receipts'[req.op].used_after = used + 1
    /\ receipts'[req.op].enforced = Enforced(e)
    /\ \A op \in DOMAIN receipts : receipts'[op] = receipts[op]
    /\ runs'[req.run].count = runs[req.run].count + 1
    /\ \A r \in Runs : r # req.run => runs'[r] = runs[r]

LEMMA AdmitsWrites ==
    ASSUME QuotaInv, NEW req, NEW e \in Entitlement, NEW used \in Used(e), Admits(req, e, used)
    PROVE  Written(req, e, used)
  <1>1. req.op \notin DOMAIN receipts /\ req.op \in Operations /\ req.run \in Runs
        /\ runs[req.run].count = req.count /\ DOMAIN runs = Runs
    BY DEF Admits, Applicable, Current, IsRequest, QuotaInv, QuotaTypeOK
  <1> QED BY <1>1 DEF Written, Admits, Apply, Entry

\* The usage an admission read is the number of the period's receipts.
LEMMA AdmitsCounts ==
    ASSUME QuotaInv, NEW e \in Entitlement, NEW used \in Used(e)
    PROVE  /\ used = Cardinality(PeriodReceipts(e.id))
           /\ Numbers(e.id) = 1 .. used
           /\ used \in Nat
           /\ e.included = limit
  BY EntitlementType, UsedCounts DEF QuotaInv, IsEntitlement

\* No plan, subscription or period change, retry or race lets an enforced
\* charge through when the period's receipts have reached the plan's ceiling.
THEOREM AllowanceNeverExceeded == Spec => AllowanceHonoured
  <1>1. ASSUME QuotaInv, [Next]_vars
        PROVE  \A op \in DOMAIN receipts' \ DOMAIN receipts :
                 receipts'[op].enforced /\ limit # Unlimited =>
                     Cardinality(PeriodReceipts(receipts'[op].period)) < Ceiling(limit)
    <2>1. CASE ChargesNothing
      BY <2>1 DEF ChargesNothing
    <2>2. ASSUME NEW req, NEW e \in Entitlement, NEW used \in Used(e), Admits(req, e, used)
          PROVE  \A op \in DOMAIN receipts' \ DOMAIN receipts :
                   receipts'[op].enforced /\ limit # Unlimited =>
                       Cardinality(PeriodReceipts(receipts'[op].period)) < Ceiling(limit)
      <3>1. used = Cardinality(PeriodReceipts(e.id)) /\ used \in Nat /\ e.included = limit
        BY <1>1, <2>2, AdmitsCounts
      <3>2. limit # Unlimited => Ceiling(limit) \in Nat
        <4>1. limit \in Limits
          BY <1>1 DEF QuotaInv, QuotaTypeOK
        <4>2. limit # Unlimited => limit \in Nat
          BY <4>1, QuotaAssumption
        <4> QED BY <4>2 DEF Ceiling
      <3>3. Enforced(e) /\ limit # Unlimited => used < Ceiling(limit)
        BY <2>2, <3>1, <3>2 DEF Admits, Exhausted
      <3>4. \A op \in DOMAIN receipts' \ DOMAIN receipts :
              receipts'[op].period = e.id /\ receipts'[op].enforced = Enforced(e)
        <4>1. Written(req, e, used)
          BY <1>1, <2>2, AdmitsWrites
        <4> QED BY <4>1 DEF Written
      <3> QED BY <3>1, <3>3, <3>4
    <2> QED BY <1>1, <2>1, <2>2, StepCases
  <1> QED BY <1>1, InitInv, NextInv, PTL DEF Spec, AllowanceHonoured

\* A run with a hold advances only by the held request and from the held
\* checkpoint.
THEOREM HoldsExclusive == Spec => HoldIsExclusive
  <1>1. ASSUME QuotaInv, [Next]_vars
        PROVE  \A r \in Runs :
                 runs[r].hold # None /\ runs'[r].count # runs[r].count =>
                     /\ runs[r].value = runs[r].hold.source
                     /\ runs[r].hold.request.op \in DOMAIN receipts'
                     /\ receipts'[runs[r].hold.request.op].request = runs[r].hold.request
    <2>1. CASE ChargesNothing
      BY <2>1 DEF ChargesNothing
    <2>2. ASSUME NEW req, NEW e \in Entitlement, NEW used \in Used(e), Admits(req, e, used),
                 NEW r \in Runs, runs[r].hold # None, runs'[r].count # runs[r].count
          PROVE  /\ runs[r].value = runs[r].hold.source
                 /\ runs[r].hold.request.op \in DOMAIN receipts'
                 /\ receipts'[runs[r].hold.request.op].request = runs[r].hold.request
      <3>w. Written(req, e, used)
        BY <1>1, <2>2, AdmitsWrites
      <3>1. r = req.run
        BY <2>2, <3>w DEF Written
      <3>2. runs[r].hold.request = req /\ runs[r].value = runs[r].hold.source
        BY <2>2, <3>1 DEF Admits
      <3>3. req.op \in DOMAIN receipts' /\ receipts'[req.op].request = req
        BY <3>w DEF Written
      <3> QED BY <3>2, <3>3
    <2> QED BY <1>1, <2>1, <2>2, StepCases
  <1> QED BY <1>1, InitInv, NextInv, PTL DEF Spec, HoldIsExclusive

\* A stopped or cancelled run is never charged again and keeps its hold.
THEOREM CancelIsFinal == Spec => StoppedIsNeverCharged
  <1>1. ASSUME QuotaInv, [Next]_vars
        PROVE  \A r \in Runs :
                 runs[r].status = "stopped" =>
                     /\ runs'[r].count = runs[r].count
                     /\ runs'[r].hold = runs[r].hold
    <2>1. CASE ChargesNothing
      BY <2>1 DEF ChargesNothing
    <2>2. ASSUME NEW req, NEW e \in Entitlement, NEW used \in Used(e), Admits(req, e, used),
                 NEW r \in Runs, runs[r].status = "stopped"
          PROVE  runs'[r].count = runs[r].count /\ runs'[r].hold = runs[r].hold
      <3>1. r # req.run
        BY <2>2 DEF Admits
      <3>2. Written(req, e, used)
        BY <1>1, <2>2, AdmitsWrites
      <3> QED BY <3>1, <3>2 DEF Written
    <2> QED BY <1>1, <2>1, <2>2, StepCases
  <1> QED BY <1>1, InitInv, NextInv, PTL DEF Spec, StoppedIsNeverCharged

\* Accounting implements the ledger: operations are charged at most once and
\* numbered without a gap, and every charge advances one run by one.
THEOREM LedgerImplemented == Spec => ImplementsLedger
  <1> DEFINE charges  == [op \in DOMAIN receipts |->
                            [run |-> receipts[op].request.run, period |-> receipts[op].period,
                             number |-> receipts[op].used_after]]
             progress == [r \in Runs |-> runs[r].count]
  <1>1. Init => Abstract!Init
    BY DEF Init, Abstract!Init
  <1>2. ASSUME QuotaInv, [Next]_vars
        PROVE  Abstract!Next \/ UNCHANGED <<charges, progress>>
    <2>1. ASSUME ChargesNothing
          PROVE  UNCHANGED <<charges, progress>>
      BY <2>1 DEF ChargesNothing
    <2>2. ASSUME NEW req, NEW e \in Entitlement, NEW used \in Used(e), Admits(req, e, used)
          PROVE  Abstract!Next
      <3>1. Written(req, e, used)
        BY <1>2, <2>2, AdmitsWrites
      <3>2. Numbers(e.id) = 1 .. used /\ used \in Nat
        BY <1>2, <2>2, AdmitsCounts
      <3>3. Abstract!NumbersIn(e.id) = Numbers(e.id)
        BY DEF Abstract!NumbersIn, Numbers, PeriodReceipts
      <3>4. progress' = [progress EXCEPT ![req.run] = @ + 1]
        BY <3>1 DEF Written
      <3>5. /\ DOMAIN charges' = DOMAIN charges \cup {req.op}
            /\ \A op \in DOMAIN charges : charges'[op] = charges[op]
            /\ charges'[req.op].run = req.run
            /\ charges'[req.op].period = e.id
            /\ charges'[req.op].number = used + 1
        BY <3>1 DEF Written
      <3>a. (used + 1) - 1 = used /\ used + 1 \in Nat \ {0}
        BY <3>2
      <3>6. Abstract!Charge(req.op, req.run)
        BY <3>a, <3>1, <3>2, <3>3, <3>4, <3>5 DEF Written, Abstract!Charge
      <3> QED BY <3>1, <3>6 DEF Written, Abstract!Next
    <2> QED BY <1>2, <2>1, <2>2, StepCases
  <1> QED BY <1>1, <1>2, InitInv, NextInv, PTL DEF Spec, ImplementsLedger, Abstract!Spec

=============================================================================
