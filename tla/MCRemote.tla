------------------------------ MODULE MCRemote ------------------------------
(***************************************************************************)
(* The two ends of the gateway's connections: the sessions of its remote   *)
(* clients (the handles of web and event-stream clients, of two owners, or *)
(* the conversation of a native client) and the tool servers it starts.    *)
(* They share no state; a behaviour exercises one part.                    *)
(***************************************************************************)
EXTENDS Transport, Upstream

CONSTANT Parts

VARIABLE part

\* A name two servers list, and one that is listed twice by its server.
MCListed == <<<<"a", "b">>, <<"b", "c", "c">>>>

RemoteInit ==
    /\ part \in Parts
    /\ TransportInit
    /\ UpstreamInit

RemoteNext ==
    /\ UNCHANGED part
    /\ \/ part = "handles" /\ HandleNext /\ UNCHANGED upstreamVars
       \/ part = "conversations" /\ (ConversationNext \/ MessageNext) /\ UNCHANGED upstreamVars
       \/ part = "servers" /\ UpstreamNext /\ UNCHANGED transportVars

RemoteSpec == RemoteInit /\ [][RemoteNext]_<<part, transportVars, upstreamVars>>

=============================================================================
