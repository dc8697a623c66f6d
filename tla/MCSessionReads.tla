--------------------------- MODULE MCSessionReads ---------------------------
(***************************************************************************)
(* An instance of SessionReads for TLC.                                    *)
(***************************************************************************)
EXTENDS SessionReads, TLC

CONSTANTS chrome, code, mail, w1, browser, editor

Row(id, device, state, type, timestamp) ==
    [id |-> id, device |-> device, state |-> state,
     event_type |-> type, timestamp |-> timestamp]

\* Two states of one device and one of another.  All three may start at 2: the
\* first until its STATE_START is processed.
TwoDevices ==
    {Row(1, 1, chrome, "STATE_START", 1),
     Row(2, 1, chrome, "HEARTBEAT", 2),
     Row(3, 1, chrome, "STATE_END", 3),
     Row(4, 1, code, "STATE_START", 2),
     Row(5, 2, mail, "STATE_START", 2)}

Ids == (<<1, chrome>> :> 2) @@ (<<1, code>> :> 1) @@ (<<2, mail>> :> 3)

Applications ==
    (<<1, chrome>> :> browser) @@ (<<1, code>> :> editor) @@ (<<2, mail>> :> browser)

Ask(start, end, scope, limit) ==
    [start |-> start, end |-> end, scope |-> scope, limit |-> limit]

\* All sessions one by one or two by two, from a fixed time to now, in the
\* default window, or in one given by both ends; and those of one device.
SomeRequests ==
    {Ask(NoTime, NoTime, SessionKey, 1),
     Ask(1, NoTime, SessionKey, 1),
     Ask(1, 3, SessionKey, 2),
     Ask(2, 3, SessionKey, 1),
     Ask(0, NoTime, {<<1, chrome>>, <<1, code>>}, 1)}
=============================================================================
