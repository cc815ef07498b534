------------------------------ MODULE Workflow ------------------------------
(***************************************************************************)
(* The engine crate: what a workflow definition is, when                   *)
(* validate_definition accepts it, and what resolve_transition makes of a  *)
(* state, an event and a context.  Pure operators, no state.               *)
(*                                                                         *)
(* A definition is a record                                                *)
(*    initial     a state name                                             *)
(*    context     the guards its initial context satisfies                 *)
(*    states      [state name -> state definition]                         *)
(*    guards      the set of guard names it defines                        *)
(*    interrupts  [interrupt name -> target state]                         *)
(*    debug       meta.debug                                               *)
(*    approval_mode   meta.approval_mode                                   *)
(*    adr         meta.agent-decision-record                               *)
(* and a state definition is a record                                      *)
(*    final       type = final                                             *)
(*    on          [event -> transition]                                    *)
(*    safe_next   a state name, or None                                    *)
(*    tools       allowed_tools: a set of tools, or None (all of them)     *)
(*    denied      disallowed_tools                                         *)
(* A transition is one of the five shapes of TransitionDef; a plain string *)
(* (Simple) is a "full" one with no guard and no approval.                 *)
(*                                                                         *)
(* A context is a JSON object of which the engine reads two things: the    *)
(* key _interrupt_return (ret) and whatever the guards look at.  A guard   *)
(* is a predicate on the context, so the rest of the object is abstracted  *)
(* to the set of guards it satisfies (facts); the gateway also keeps the   *)
(* key _fork in it (fork).                                                 *)
(***************************************************************************)
EXTENDS Naturals, Sequences, FiniteSets, FiniteSetsExt

CONSTANTS
    None,       \* an absent Option
    SameName,   \* pairs <<event, state>> equal up to ASCII case
    Overlap     \* pairs <<event, event>> of which one contains the other, up to case

ReturnTarget == "$return"

-----------------------------------------------------------------------------
(* Transitions.                                                            *)

Full(target, guards, approval) ==
    [kind |-> "full", target |-> target, guards |-> guards, approval |-> approval]

Simple(target) == Full(target, {}, FALSE)

\* branches: a sequence of [target, guards]
Guarded(branches) == [kind |-> "guarded", branches |-> branches]

\* branches: a sequence of [name, initial, terminal], in the map's order
Fork(branches, join, on_complete, on_fail) ==
    [kind |-> "fork", branches |-> branches, join |-> join,
     on_complete |-> on_complete, on_fail |-> on_fail]

Invoke(machine, on_complete, on_fail) ==
    [kind |-> "invoke", machine |-> machine,
     on_complete |-> on_complete, on_fail |-> on_fail]

\* TransitionDef::target: of a guarded transition only the first branch's.
Target(t) ==
    CASE t.kind = "full"    -> t.target
      [] t.kind = "guarded" -> IF t.branches = << >> THEN None ELSE t.branches[1].target
      [] OTHER              -> t.on_complete

\* TransitionDef::all_targets.
AllTargets(t) ==
    CASE t.kind = "full"    -> {t.target}
      [] t.kind = "guarded" -> {t.branches[i].target : i \in DOMAIN t.branches}
      [] t.kind = "fork"    -> {t.on_complete}
      [] t.kind = "invoke"  -> {t.on_complete, t.on_fail} \ {None}

\* TransitionDef::guard_names: a guarded transition reports none.
GuardNames(t) == IF t.kind = "full" THEN t.guards ELSE {}

RequiresApproval(t) == t.kind = "full" /\ t.approval

IsFinal(def, state) == state \in DOMAIN def.states /\ def.states[state].final

-----------------------------------------------------------------------------
(* resolve_transition.                                                     *)

\* A guard the definition does not define is skipped.
GuardsPass(def, names, ctx) == \A g \in names \cap def.guards : g \in ctx.facts

\* The events of state definition sd that `event` selects: itself, else the
\* ones whose target has this name, else the ones whose name overlaps it.
ByTarget(sd, event) == {e \in DOMAIN sd.on : <<event, Target(sd.on[e])>> \in SameName}

BySubstring(sd, event) == {e \in DOMAIN sd.on : <<event, e>> \in Overlap}

Matches(sd, event) ==
    IF event \in DOMAIN sd.on          THEN {event}
    ELSE IF ByTarget(sd, event) # {}   THEN ByTarget(sd, event)
    ELSE BySubstring(sd, event)

\* safe_next is the fallback of an event that matches nothing, or overlaps
\* several; an event that names the target of several is an error instead.
FallsBack(sd, event) ==
    /\ event \notin DOMAIN sd.on
    /\ ByTarget(sd, event) = {}
    /\ Cardinality(BySubstring(sd, event)) # 1
    /\ sd.safe_next # None

\* Mutant: $return is entered as if it were a state.
EnterLiterally(target, ctx) == {[state |-> target, ctx |-> ctx]}

\* Mutant: the return state is used and kept.
EnterKeepingReturn(target, ctx) ==
    IF target # ReturnTarget THEN {[state |-> target, ctx |-> ctx]}
    ELSE IF ctx.ret = None THEN {} ELSE {[state |-> ctx.ret, ctx |-> ctx]}

\* resolve_return_target: the state entered and the context it is entered
\* with, as a set with at most one element ({} is the error).
Enter(target, ctx) ==
    IF target # ReturnTarget
    THEN {[state |-> target, ctx |-> ctx]}
    ELSE IF ctx.ret = None
         THEN {}
         ELSE {[state |-> ctx.ret, ctx |-> [ctx EXCEPT !.ret = None]]}

\* The first branch whose guards all pass decides, even if it then fails to
\* resolve $return.
TakeBranch(def, branches, ctx) ==
    LET passing == {i \in DOMAIN branches : GuardsPass(def, branches[i].guards, ctx)}
        first   == {i \in passing : \A j \in passing : i <= j}
    IN  UNION {Enter(branches[i].target, ctx) : i \in first}

Take(def, t, ctx) ==
    IF t.kind = "guarded"
    THEN TakeBranch(def, t.branches, ctx)
    ELSE IF GuardsPass(def, GuardNames(t), ctx) THEN Enter(Target(t), ctx) ELSE {}

\* The result of resolve_transition: a set with at most one element
\* [state, ctx, via], {} standing for every error.  `via` is the transition
\* that was taken: it tells the gateway of an approval, a fork or a subflow.
Resolve(def, state, event, ctx) ==
    IF state \notin DOMAIN def.states THEN {}
    ELSE LET sd == def.states[state]
             results(t) == {[state |-> r.state, ctx |-> r.ctx, via |-> t] : r \in Take(def, t, ctx)}
         IN  IF FallsBack(sd, event)
             THEN {[state |-> sd.safe_next, ctx |-> ctx, via |-> Simple(sd.safe_next)]}
             ELSE IF Cardinality(Matches(sd, event)) = 1
                  THEN UNION {results(sd.on[e]) : e \in Matches(sd, event)}
                  ELSE {}

-----------------------------------------------------------------------------
(* validate_definition.                                                    *)

Transitions(def) == UNION {{def.states[s].on[e] : e \in DOMAIN def.states[s].on}
                           : s \in DOMAIN def.states}

Forks(def) == {t \in Transitions(def) : t.kind = "fork"}

ForkStates(t) ==
    {t.branches[i].initial : i \in DOMAIN t.branches}
      \cup {t.branches[i].terminal : i \in DOMAIN t.branches}
      \cup ({t.on_fail} \ {None})

\* What the breadth-first search visits: the least set of states that holds
\* the initial state, the interrupt targets and the fork states and is closed
\* under all_targets.
Reachable(def) ==
    LET names == DOMAIN def.states
        roots == names \cap ({def.initial}
                   \cup {def.interrupts[i] : i \in DOMAIN def.interrupts}
                   \cup UNION {ForkStates(t) : t \in Forks(def)})
        closed(X) == \A s \in X : \A e \in DOMAIN def.states[s].on :
                        names \cap AllTargets(def.states[s].on[e]) \subseteq X
    IN  {s \in names : \A X \in SUBSET names : roots \subseteq X /\ closed(X) => s \in X}

Validate(def) ==
    LET names == DOMAIN def.states IN
    /\ def.initial \in names
    /\ \E s \in names : def.states[s].final
    /\ \A t \in Transitions(def) :
         /\ Target(t) \in names \cup {ReturnTarget}
         /\ GuardNames(t) \subseteq def.guards
    /\ \A i \in DOMAIN def.interrupts : def.interrupts[i] \in names
    /\ \A t \in Forks(def) : ForkStates(t) \subseteq names
    /\ Reachable(def) = names

=============================================================================
