----------------------------- MODULE SessionLog -----------------------------
(***************************************************************************)
(* What the API promises about sessions, before any worker, transaction or *)
(* lock: "Events are append-only; sessions are derived" (README.md).       *)
(* Heartbeats are stored, some of them have been absorbed, and the stretch *)
(* [start, end] of every session is a function of the absorbed heartbeats  *)
(* alone, however they were batched.  Every stored heartbeat is absorbed   *)
(* in the end.                                                             *)
(***************************************************************************)
EXTENDS SessionDerivation

VARIABLES
    heartbeats,  \* the rows of table heartbeats
    processed,   \* those with processed_at set
    stretch      \* key -> [start, end] of its session, or NoSession

vars == <<heartbeats, processed, stretch>>

\* The stretch the heartbeats of one state establish.
StretchOf(events) ==
    IF events = {} THEN NoSession
    ELSE [start |-> StartOf(events), end |-> EndOf(events)]

Derived(events) == [k \in SessionKey |-> StretchOf(EventsOf(events, k))]

Init ==
    /\ heartbeats = {}
    /\ processed = {}
    /\ stretch = Derived({})

Store(rows) ==
    /\ heartbeats' = heartbeats \cup rows
    /\ UNCHANGED <<processed, stretch>>

Absorb(rows) ==
    /\ rows # {}
    /\ processed' = processed \cup rows
    /\ stretch' = Derived(processed')
    /\ UNCHANGED heartbeats

Next ==
    \/ \E rows \in SUBSET Heartbeat : Store(rows)
    \/ \E rows \in SUBSET (heartbeats \ processed) : Absorb(rows)

AbsorbOne(h) ==
    \E rows \in SUBSET (heartbeats \ processed) : h \in rows /\ Absorb(rows)

Spec ==
    /\ Init
    /\ [][Next]_vars
    /\ \A h \in Heartbeat : WF_vars(AbsorbOne(h))
=============================================================================
