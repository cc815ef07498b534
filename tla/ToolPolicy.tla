----------------------------- MODULE ToolPolicy -----------------------------
(***************************************************************************)
(* The tool enforcer of the agent crate and the gateway's                  *)
(* enforce_tool_call: which tools a state permits, and when a call to a    *)
(* tool the state does not permit moves the workflow instead ("implicit    *)
(* transition").  Names are compared as values; the exploratory_read_only  *)
(* intent, which replaces the list by a classification of the tool, is not *)
(* modelled.                                                               *)
(***************************************************************************)
EXTENDS Workflow

\* enforce_tools, for one tool.
Permitted(def, state, tool) ==
    /\ state \in DOMAIN def.states
    /\ ~ def.states[state].final
    /\ tool \notin def.states[state].denied
    /\ def.states[state].tools # None => tool \in def.states[state].tools

\* find_implicit_transition: the events whose target() lists the tool.  The
\* code takes the first in the order of their names; here any of them.
ImplicitEvents(def, state, tool) ==
    {e \in DOMAIN def.states[state].on :
        LET target == Target(def.states[state].on[e])
        IN  /\ target \in DOMAIN def.states
            /\ def.states[target].tools # None
            /\ tool \in def.states[target].tools}

\* The states enforce_tool_call moves to on a call of `tool`: it looks at
\* new_state only, whatever else the transition asks for.
ImplicitTargets(def, state, ctx, tool) ==
    IF \/ state \notin DOMAIN def.states
       \/ IsFinal(def, state)
       \/ Permitted(def, state, tool)
       \/ tool \in def.states[state].denied
    THEN {}
    ELSE {r.state : r \in UNION {Resolve(def, state, e, ctx)
                                 : e \in ImplicitEvents(def, state, tool)}}

=============================================================================
