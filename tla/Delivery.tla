------------------------------ MODULE Delivery ------------------------------
(***************************************************************************)
(* What the agent and the API promise together about events, before any    *)
(* thread, request or retry: "The agent tries to lose nothing" (README.md) *)
(* and "every write is safe to repeat".  Events are logged on the machine, *)
(* the API stores some of them, each once, and the agent considers an      *)
(* event delivered only if the API has it.                                 *)
(***************************************************************************)
EXTENDS Naturals

CONSTANT Event  \* events, numbered in the order they are logged

VARIABLES
    logged,  \* events 1..logged are in the agent's log
    synced,  \* those the agent will not send again
    server   \* those the API has stored

vars == <<logged, synced, server>>

Init == logged = 0 /\ synced = {} /\ server = {}

Log ==
    /\ logged + 1 \in Event
    /\ logged' = logged + 1
    /\ UNCHANGED <<synced, server>>

Store(events) ==
    /\ events \subseteq 1..logged
    /\ server' = server \cup events
    /\ UNCHANGED <<logged, synced>>

Acknowledge(events) ==
    /\ events \subseteq server
    /\ synced' = synced \cup events
    /\ UNCHANGED <<logged, server>>

Next ==
    \/ Log
    \/ \E events \in SUBSET Event : Store(events) \/ Acknowledge(events)

Spec == Init /\ [][Next]_vars
=============================================================================
