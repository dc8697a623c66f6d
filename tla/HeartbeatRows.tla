---------------------------- MODULE HeartbeatRows ----------------------------
(***************************************************************************)
(* How the API reads rows of the table heartbeats: by which key they are   *)
(* grouped (api/app/services/session.py), in which order they are claimed  *)
(* (api/app/repos/sessions.py), and what may be known of a set of them.    *)
(* Nothing is said of where they come from: a row is any record of id,     *)
(* device, state, event_type and timestamp.                                *)
(***************************************************************************)
EXTENDS Integers

KeyOf(h) == <<h.device, h.state>>

EventsOf(events, k) == {h \in events : KeyOf(h) = k}

KeysOf(events) == {KeyOf(h) : h \in events}

\* ORDER BY device_id, timestamp, id: the order a batch is claimed in.
Before(g, h) ==
    \/ g.device < h.device
    \/ g.device = h.device /\ g.timestamp < h.timestamp
    \/ g.device = h.device /\ g.timestamp = h.timestamp /\ g.id < h.id

\* The groups of a batch come in the order of their first events: the dict
\* keeps insertion order, and so do the rows handed to the upsert.
EarlierKey(events, j, k) ==
    \E g \in EventsOf(events, j) : \A h \in EventsOf(events, k) : Before(g, h)

Timestamps(events) == {h.timestamp : h \in events}

EndTimestamps(events) ==
    Timestamps({h \in events : h.event_type = "STATE_END"})

-----------------------------------------------------------------------------
(* What rows may be like *)

\* A state is ended at most once.
AtMostOneEnd(events) ==
    \A g, h \in events :
        /\ g.event_type = "STATE_END" /\ h.event_type = "STATE_END"
        /\ KeyOf(g) = KeyOf(h)
        => g = h

\* A state ends with its STATE_END.
RunForward(events) ==
    \A g, h \in events :
        KeyOf(g) = KeyOf(h) /\ g.event_type = "STATE_END"
            => h.timestamp <= g.timestamp

\* Of any two states one is over when the other begins.
OneAfterAnother(events) ==
    \A j, k \in KeysOf(events) :
        j # k =>
            \/ \A s \in Timestamps(EventsOf(events, j)),
                  t \in Timestamps(EventsOf(events, k)) : s <= t
            \/ \A s \in Timestamps(EventsOf(events, j)),
                  t \in Timestamps(EventsOf(events, k)) : t <= s

\* In the order of claims, too, the rows of any two states are apart.
Apart(events) ==
    \A j, k \in KeysOf(events) :
        j # k =>
            \/ \A g \in EventsOf(events, j), h \in EventsOf(events, k) : Before(g, h)
            \/ \A g \in EventsOf(events, j), h \in EventsOf(events, k) : Before(h, g)
=============================================================================
