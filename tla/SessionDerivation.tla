-------------------------- MODULE SessionDerivation --------------------------
(***************************************************************************)
(* How the API turns heartbeats into sessions: the pure part of            *)
(* api/app/services/session.py (building one row per state from the groups *)
(* of a batch) and of the upsert in api/app/repos/sessions.py (folding     *)
(* that row into the one already stored).                                  *)
(*                                                                         *)
(* A session is identified by (user_id, device_id, state_id).  A device    *)
(* has one owner, so the model's key is <<device, state>>.  The columns    *)
(* source, application and user_id are copied and never computed with;     *)
(* they are left out.                                                      *)
(***************************************************************************)
EXTENDS HeartbeatRows, FiniteSetsExt

CONSTANTS
    Heartbeat,  \* the heartbeats agents may ever send, as records
    State,      \* the state_ids agents mint
    MaxTime,    \* timestamps are 0..MaxTime (a bound on the instance)
    NoTime,     \* SQL NULL in a timestamp column
    NoSession   \* there is no sessions row for a key

EventType == {"STATE_START", "HEARTBEAT", "STATE_END"}

Time == 0..MaxTime

\* ingest stamps id and device; the agent chose the other columns.  Ids and
\* devices are UUIDs: all the code uses of them is that they are ordered.
HeartbeatRow ==
    [id : Nat, device : Nat, state : State,
     event_type : EventType, timestamp : Time]

\* A row of the table sessions.
SessionRow == [start : Time, end : Time \cup {NoTime}, duration : Nat]

ASSUME HeartbeatAssumption == Heartbeat \subseteq HeartbeatRow
ASSUME BoundAssumption == MaxTime \in Nat
ASSUME NullAssumption == NoTime \notin Int /\ NoSession \notin SessionRow

\* Primary keys are unique, and the agent ends a state at most once (theorem
\* RowsAreAsAssumed of module TrackerProofs).
ASSUME UniqueIdAssumption ==
    \A g, h \in Heartbeat : g.id = h.id => g = h
ASSUME OneEndAssumption == AtMostOneEnd(Heartbeat)

SessionKey == {KeyOf(h) : h \in Heartbeat}

-----------------------------------------------------------------------------
(* One state's session: Sessionizer._build_session *)

StartOf(events) == Min(Timestamps(events))

\* The first STATE_END in timestamp order, else None.
EndOf(events) ==
    IF EndTimestamps(events) = {} THEN NoTime ELSE Min(EndTimestamps(events))

\* end_time if there is one, else the last event seen.  Events are sorted, so
\* the difference to StartOf is never negative and the code's max(0, _) is idle.
LastTimestamp(events) ==
    IF EndOf(events) # NoTime THEN EndOf(events) ELSE Max(Timestamps(events))

BuildSession(events) ==
    [start    |-> StartOf(events),
     end      |-> EndOf(events),
     duration |-> LastTimestamp(events) - StartOf(events)]

-----------------------------------------------------------------------------
(* INSERT ... ON CONFLICT DO UPDATE: ActivityRepository.upsert_sessions *)

\* SQL least/greatest over two values; greatest ignores NULL.
Least(s, t) == IF s <= t THEN s ELSE t

Greatest(s, t) ==
    IF s = NoTime THEN t
    ELSE IF t = NoTime THEN s
    ELSE IF s >= t THEN s ELSE t

\* Mutants: an end brings its batch's duration along; durations are summed up.
UpdateSessionTakesDuration(old, new) ==
    [start    |-> Least(old.start, new.start),
     end      |-> Greatest(old.end, new.end),
     duration |-> IF new.end # NoTime THEN new.duration ELSE old.duration]

UpdateSessionAddsUp(old, new) ==
    LET start == Least(old.start, new.start)
        end   == Greatest(old.end, new.end)
    IN  [start    |-> start,
         end      |-> end,
         duration |-> old.duration + IF end # NoTime THEN end - start ELSE 0]

\* While the row stays open (its end NULL) the duration it was inserted with
\* is kept.
UpdateSession(old, new) ==
    LET start == Least(old.start, new.start)
        end   == Greatest(old.end, new.end)
    IN  [start    |-> start,
         end      |-> end,
         duration |-> IF end # NoTime THEN end - start ELSE old.duration]

\* Mutant: DO UPDATE SET every column to the new row's.
UpsertSessionOverwrites(old, new) == new

UpsertSession(old, new) ==
    IF old = NoSession THEN new ELSE UpdateSession(old, new)
=============================================================================
