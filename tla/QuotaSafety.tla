---------------------------- MODULE QuotaSafety ----------------------------
(***************************************************************************)
(* What transition accounting promises.                                    *)
(***************************************************************************)
EXTENDS Quota

PeriodReceipts(p) == {op \in DOMAIN receipts : receipts[op].period = p}

Numbers(p) == {receipts[op].used_after : op \in PeriodReceipts(p)}

RunReceipts(r) == {op \in DOMAIN receipts : receipts[op].request.run = r}

-----------------------------------------------------------------------------
(* Types.                                                                  *)

IsRequest(req) ==
    /\ DOMAIN req = {"op", "run", "count", "event", "result"}
    /\ req.op \in Operations
    /\ req.run \in Runs
    /\ req.count \in Nat
    /\ req.result \in Values

IsRow(row) ==
    /\ DOMAIN row = {"status", "count", "value", "hold"}
    /\ row.status \in {"running", "paused", "stopped", "completed"}
    /\ row.count \in Nat
    /\ row.value \in Values

IsHold(hold) ==
    /\ DOMAIN hold = {"request", "source", "used", "ceiling"}
    /\ IsRequest(hold.request)

IsPeriod(p, row) ==
    /\ DOMAIN row = {"anchor", "start", "end", "used"}
    /\ row.start \in Nat /\ row.start = p[2]
    /\ row.end \in Nat /\ row.end = p[3]
    /\ row.start < row.end
    /\ row.used \in Nat

IsReceipt(op, receipt) ==
    /\ DOMAIN receipt = {"request", "period", "used_after", "enforced"}
    /\ IsRequest(receipt.request)
    /\ receipt.request.op = op
    /\ receipt.used_after \in Nat

\* The type invariant: every receipt is stored under its operation, and counts
\* in a recorded period; a period's id gives its bounds.
QuotaTypeOK ==
    /\ DOMAIN runs = Runs
    /\ \A r \in Runs : IsRow(runs[r]) /\ (runs[r].hold # None => IsHold(runs[r].hold))
    /\ \A p \in DOMAIN periods : IsPeriod(p, periods[p])
    /\ DOMAIN receipts \subseteq Operations
    /\ \A op \in DOMAIN receipts :
         IsReceipt(op, receipts[op]) /\ receipts[op].period \in DOMAIN periods
    /\ now \in Nat
    /\ limit \in Limits
    /\ sub \in Subscriptions \cup {None}

-----------------------------------------------------------------------------
(* Charges.                                                                *)

\* A period's counter is the number of its receipts, although it is written
\* as an absolute value read earlier and the periods come and go.
CounterMatchesReceipts ==
    \A p \in DOMAIN periods : periods[p].used = Cardinality(PeriodReceipts(p))

\* A run has made as many transitions as were charged to it: no retry, no
\* continue and no race of a hold with its cancellation charges twice or not
\* at all.
EachTransitionPaid ==
    \A r \in Runs : runs[r].count = Cardinality(RunReceipts(r))

\* Recorded periods do not overlap, whatever subscriptions came and went, so
\* no allowance is granted twice for the same time.
PeriodsDisjoint ==
    \A p, q \in DOMAIN periods : p # q =>
        periods[p].end <= periods[q].start \/ periods[q].end <= periods[p].start

\* An enforced charge is made only while the period's receipts are fewer than
\* the plan in force allows, its 20% included.
AllowanceHonoured ==
    [][\A op \in DOMAIN receipts' \ DOMAIN receipts :
         receipts'[op].enforced /\ limit # Unlimited =>
             Cardinality(PeriodReceipts(receipts'[op].period)) < Ceiling(limit)]_vars

-----------------------------------------------------------------------------
(* Holds.                                                                  *)

\* A run with a hold advances only by the held request, and only from the
\* checkpoint it was held with: "only the stored operation can be resumed".
HoldIsExclusive ==
    [][\A r \in Runs :
         runs[r].hold # None /\ runs'[r].count # runs[r].count =>
             /\ runs[r].value = runs[r].hold.source
             /\ runs[r].hold.request.op \in DOMAIN receipts'
             /\ receipts'[runs[r].hold.request.op].request = runs[r].hold.request]_vars

\* "never a charge after cancel": a stopped run makes no transition, its hold
\* stays, and the held request is not charged.
StoppedIsNeverCharged ==
    [][\A r \in Runs :
         runs[r].status = "stopped" =>
             /\ runs'[r].count = runs[r].count
             /\ runs'[r].hold = runs[r].hold]_vars

-----------------------------------------------------------------------------
(* The abstract ledger.                                                    *)

Abstract == INSTANCE Ledger WITH
    charges  <- [op \in DOMAIN receipts |->
                   [run |-> receipts[op].request.run, period |-> receipts[op].period,
                    number |-> receipts[op].used_after]],
    progress <- [r \in Runs |-> runs[r].count]

\* admit implements the ledger: each of its steps charges one new operation,
\* with the next number of its period, and advances its run by one, or changes
\* neither.
ImplementsLedger == Abstract!Spec

=============================================================================
