--------------------------- MODULE MCSessionizer ---------------------------
(***************************************************************************)
(* An instance of Sessionizer for TLC.                                     *)
(***************************************************************************)
EXTENDS Sessionizer

CONSTANTS chrome, code, w1, w2

Row(id, device, state, type, timestamp) ==
    [id |-> id, device |-> device, state |-> state,
     event_type |-> type, timestamp |-> timestamp]

\* One state after the other, but for a heartbeat of code that is stamped while
\* the wall clock was set back: it falls into chrome's time.
ClockSetBack ==
    {Row(1, 1, chrome, "STATE_START", 0),
     Row(2, 1, chrome, "STATE_END", 2),
     Row(3, 1, code, "STATE_START", 3),
     Row(4, 1, code, "HEARTBEAT", 1),
     Row(5, 1, code, "STATE_END", 4)}
=============================================================================
