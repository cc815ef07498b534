------------------------------ MODULE MCQuota ------------------------------
(***************************************************************************)
(* An owner with two runs of a small workflow, months and a subscription   *)
(* that is renewed early, and plans from nothing to unlimited.             *)
(***************************************************************************)
EXTENDS QuotaSafety, TLC

CONSTANTS o1, o2, o3, r1, r2

\* "edited" is "ready" with a context that someone changed by hand.
MCValues == {"ready", "edited", "done"}

MCStep == (<<"ready", "GO">> :> "ready") @@ (<<"edited", "GO">> :> "ready")
          @@ (<<"ready", "FINISH">> :> "done")

MCSubscriptions ==
    {[id |-> "sub", stripe |-> "s", start |-> 0, end |-> 2],
     [id |-> "sub", stripe |-> "s", start |-> 1, end |-> 3]}

MCSymmetry == Permutations({o1, o2, o3}) \cup Permutations({r1, r2})

=============================================================================
