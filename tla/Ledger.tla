------------------------------- MODULE Ledger -------------------------------
(***************************************************************************)
(* What transition accounting promises, without plans, holds, retries or   *)
(* checkpoints: an operation is charged at most once, a charge advances    *)
(* one run by one transition, and the charges of a period are numbered     *)
(* from 1 without a gap.                                                   *)
(***************************************************************************)
EXTENDS Naturals

CONSTANTS Operations, Runs

VARIABLES
    charges,    \* a function from some of Operations to [run, period, number]
    progress    \* [Runs -> Nat], the transitions each run has made

NumbersIn(period) ==
    {charges[op].number : op \in {o \in DOMAIN charges : charges[o].period = period}}

Charge(op, r) ==
    /\ op \notin DOMAIN charges
    /\ progress' = [progress EXCEPT ![r] = @ + 1]
    /\ DOMAIN charges' = DOMAIN charges \cup {op}
    /\ \A o \in DOMAIN charges : charges'[o] = charges[o]
    /\ charges'[op].run = r
    /\ charges'[op].number \in Nat \ {0}
    /\ NumbersIn(charges'[op].period) = 1 .. charges'[op].number - 1

Init == DOMAIN charges = {} /\ progress = [r \in Runs |-> 0]

Next == \E op \in Operations, r \in Runs : Charge(op, r)

Spec == Init /\ [][Next]_<<charges, progress>>

=============================================================================
