------------------------------ MODULE Tracker ------------------------------
(***************************************************************************)
(* The agent's tracker, agent/tracking/activity_tracker.py, polled by the *)
(* loop in agent/main.py.  Every poll reads the foreground application and *)
(* the time since the last input and decides which events to append to the *)
(* local log.  A change of state appends STATE_END and STATE_START in two  *)
(* commits; the agent may stop or die between them.                        *)
(*                                                                         *)
(* Time is counted in polling intervals.  Durations come from the          *)
(* monotonic clock; timestamps from the wall clock, which may be set back. *)
(* Metadata (window title, process id) is left out.                        *)
(***************************************************************************)
EXTENDS Integers, Sequences

CONSTANTS
    App,                \* normalized application names
    NoApp,              \* no foreground window, or its process is gone
    Idle,               \* IDLE, the application of the idle state
    NoState,            \* current_state is None
    NoEvent,            \* nothing left to persist
    HeartbeatInterval,  \* HEARTBEAT_INTERVAL_SECONDS
    IdleThreshold,      \* IDLE_THRESHOLD_SECONDS
    BlindRuns,          \* runs in which get_idle_seconds may return None
    MaxTime,            \* bound on the clock
    MaxRuns,            \* bound on the runs of the agent
    MaxSetback          \* bound: how far the wall clock is set back in all

ASSUME ApplicationAssumption == NoApp \notin App /\ Idle \notin App /\ NoApp # Idle
ASSUME IntervalAssumption ==
    HeartbeatInterval \in Nat \ {0} /\ IdleThreshold \in Nat \ {0}
ASSUME TrackerBoundAssumption ==
    MaxTime \in Nat /\ MaxRuns \in Nat /\ MaxSetback \in Nat

Event == [state : Nat, app : App \cup {Idle},
          type : {"STATE_START", "HEARTBEAT", "STATE_END"},
          timestamp : Int, duration : Nat]

StateRecord == [app : App \cup {Idle}, id : Nat, last_event_at : Nat]

ASSUME NothingAssumption == NoState \notin StateRecord /\ NoEvent \notin Event

VARIABLES
    now,      \* time.monotonic()
    setback,  \* how far the wall clock is behind now
    loop,     \* "poll" or "sleep": where run()'s loop is
    input,    \* when the user last touched keyboard or mouse
    state,    \* current_state
    pending,  \* the STATE_START still to persist, or NoEvent
    fresh,    \* the next state_id (uuid4)
    log,      \* the events persisted, over all runs
    run,      \* runs of the agent so far
    tally     \* what this run's events add up to, see below

vars == <<now, setback, loop, input, state, pending, fresh, log, run, tally>>

(***************************************************************************)
(* tally is a history variable: since and until delimit the time this      *)
(* run's events speak about (an idle STATE_START speaks about the time     *)
(* since the last input, which may precede the run), active and idle sum   *)
(* their durations, and idle_starts counts the changes to idle.            *)
(***************************************************************************)
TallyRecord ==
    [since : Int, until : Nat, active : Nat, idle : Nat, idle_starts : Nat]

NoTally == [since |-> 0, until |-> 0, active |-> 0, idle |-> 0, idle_starts |-> 0]

TypeOK ==
    /\ now \in Nat
    /\ setback \in Nat
    /\ loop \in {"poll", "sleep"}
    /\ input \in 0..now
    /\ state \in StateRecord \cup {NoState}
    /\ pending \in Event \cup {NoEvent}
    /\ fresh \in Nat
    /\ log \in Seq(Event)
    /\ run \in Nat
    /\ tally \in TallyRecord

Init ==
    /\ now = 0
    /\ setback = 0
    /\ loop = "poll"
    /\ input = 0
    /\ state = NoState
    /\ pending = NoEvent
    /\ fresh = 0
    /\ log = <<>>
    /\ run = 1
    /\ tally = NoTally

-----------------------------------------------------------------------------
(* The world *)

\* A poll is one call: the model lets no time pass inside it.
Tick ==
    /\ now < MaxTime
    /\ pending = NoEvent
    /\ now' = now + 1
    /\ loop' = "poll"
    /\ UNCHANGED <<setback, input, state, pending, fresh, log, run, tally>>

SetClockBack ==
    /\ setback < MaxSetback
    /\ setback' = setback + 1
    /\ UNCHANGED <<now, loop, input, state, pending, fresh, log, run, tally>>

UserInput ==
    /\ input' = now
    /\ UNCHANGED <<now, setback, loop, state, pending, fresh, log, run, tally>>

-----------------------------------------------------------------------------
(* ActivityTracker *)

IdleSeconds == now - input

IdleKnown == run \notin BlindRuns

\* known says whether the idle time could be read.
IsIdle(known) == known /\ IdleSeconds >= IdleThreshold

ActiveApp(app, known) == IF IsIdle(known) THEN Idle ELSE app

\* Mutant: stamped with the beginning of the interval.
BuildEventBackdated(type, id, app, duration) ==
    [state |-> id, app |-> app, type |-> type,
     timestamp |-> now - setback - duration, duration |-> duration]

BuildEvent(type, id, app, duration) ==
    [state |-> id, app |-> app, type |-> type,
     timestamp |-> now - setback, duration |-> duration]

\* History: event is persisted.
Tallied(event, since, idle_starts) ==
    [since       |-> since,
     until       |-> now,
     active      |-> tally.active + IF event.app = Idle THEN 0 ELSE event.duration,
     idle        |-> tally.idle + IF event.app = Idle THEN event.duration ELSE 0,
     idle_starts |-> idle_starts]

Earlier(s, t) == IF s <= t THEN s ELSE t

Elapsed == now - state.last_event_at

\* One wake-up of the loop: observe() runs at most once between two sleeps and
\* starts only when the previous one has returned.
Polls ==
    /\ loop = "poll"
    /\ pending = NoEvent
    /\ loop' = "sleep"
    /\ UNCHANGED <<now, setback, input, run>>

\* The first observation of this run.
StartFirst(app, known) ==
    /\ Polls
    /\ state = NoState
    /\ ActiveApp(app, known) # NoApp
    /\ LET event == BuildEvent("STATE_START", fresh, ActiveApp(app, known),
                               IF IsIdle(known) THEN IdleSeconds ELSE 0)
       IN  /\ log' = Append(log, event)
           /\ tally' = Tallied(event, now - event.duration, 0)
    /\ state' = [app |-> ActiveApp(app, known), id |-> fresh,
                 last_event_at |-> now]
    /\ fresh' = fresh + 1
    /\ UNCHANGED pending

\* Mutants: no split; all of the time is given to idle.
EndDurationWhole(known) == Elapsed

EndDurationDropped(known) == IF IsIdle(known) THEN 0 ELSE Elapsed

\* A change to idle splits the time since the last event.
EndDuration(known) ==
    IF ~IsIdle(known) THEN Elapsed
    ELSE IF Elapsed > IdleSeconds THEN Elapsed - IdleSeconds ELSE 0

\* The state changed: build both events, persist the STATE_END.
EndState(app, known) ==
    /\ Polls
    /\ state # NoState
    /\ ActiveApp(app, known) \notin {NoApp, state.app}
    /\ LET event == BuildEvent("STATE_END", state.id, state.app,
                               EndDuration(known))
       IN  /\ log' = Append(log, event)
           /\ tally' = Tallied(event, tally.since, tally.idle_starts)
    /\ pending' = BuildEvent("STATE_START", fresh, ActiveApp(app, known),
                             IF IsIdle(known) THEN IdleSeconds ELSE 0)
    /\ fresh' = fresh + 1
    /\ UNCHANGED state

\* Mutants: the state_id is not replaced; the STATE_START is not persisted.
StartNextKeepsId ==
    /\ pending # NoEvent
    /\ log' = Append(log, pending)
    /\ tally' = Tallied(pending, tally.since, tally.idle_starts)
    /\ state' = [app |-> pending.app, id |-> state.id, last_event_at |-> now]
    /\ pending' = NoEvent
    /\ UNCHANGED <<now, setback, loop, input, fresh, run>>

\* ... then the STATE_START, and only now replace current_state.
StartNext ==
    /\ pending # NoEvent
    /\ log' = Append(log, pending)
    /\ tally' = Tallied(pending,
                        Earlier(tally.since, now - pending.duration),
                        tally.idle_starts + IF pending.app = Idle THEN 1 ELSE 0)
    /\ state' = [app |-> pending.app, id |-> pending.state, last_event_at |-> now]
    /\ pending' = NoEvent
    /\ UNCHANGED <<now, setback, loop, input, fresh, run>>

\* Mutant: last_event_at is not moved on.
HeartbeatFromStart(app, known) ==
    /\ Polls
    /\ state # NoState
    /\ ActiveApp(app, known) = state.app
    /\ Elapsed >= HeartbeatInterval
    /\ LET event == BuildEvent("HEARTBEAT", state.id, state.app, Elapsed)
       IN  /\ log' = Append(log, event)
           /\ tally' = Tallied(event, tally.since, tally.idle_starts)
    /\ UNCHANGED <<state, pending, fresh>>

Heartbeat(app, known) ==
    /\ Polls
    /\ state # NoState
    /\ ActiveApp(app, known) = state.app
    /\ Elapsed >= HeartbeatInterval
    /\ LET event == BuildEvent("HEARTBEAT", state.id, state.app, Elapsed)
       IN  /\ log' = Append(log, event)
           /\ tally' = Tallied(event, tally.since, tally.idle_starts)
    /\ state' = [state EXCEPT !.last_event_at = now]
    /\ UNCHANGED <<pending, fresh>>

\* Nothing to observe, or nothing new yet.
RecordNothing(app, known) ==
    /\ Polls
    /\ \/ ActiveApp(app, known) = NoApp
       \/ /\ state # NoState
          /\ ActiveApp(app, known) = state.app
          /\ Elapsed < HeartbeatInterval
    /\ UNCHANGED <<state, pending, fresh, log, tally>>

\* The agent is stopped or dies, or an exception (from the collector or the
\* database) ends the loop; a new tracker remembers nothing.
Restart ==
    /\ run < MaxRuns
    /\ run' = run + 1
    /\ state' = NoState
    /\ pending' = NoEvent
    /\ loop' = "poll"
    /\ tally' = NoTally
    /\ UNCHANGED <<now, setback, input, fresh, log>>

Observe ==
    \E app \in App \cup {NoApp}, known \in {TRUE, IdleKnown} :
        \/ StartFirst(app, known)
        \/ EndState(app, known)
        \/ Heartbeat(app, known)
        \/ RecordNothing(app, known)

Next ==
    \/ Tick
    \/ SetClockBack
    \/ UserInput
    \/ Observe
    \/ StartNext
    \/ Restart

Spec == Init /\ [][Next]_vars

-----------------------------------------------------------------------------
(* Properties *)

EveryStateStarts ==
    \A j \in 1..Len(log) :
        log[j].type # "STATE_START" =>
            \E i \in 1..(j - 1) : /\ log[i].state = log[j].state
                                  /\ log[i].type = "STATE_START"

\* What the server relies on: the events of a state are consecutive, all of one
\* application, start with its only STATE_START and have nothing after a
\* STATE_END, wherever the agent was stopped.
WellFormedStates ==
    /\ EveryStateStarts
    /\ \A i, j \in 1..Len(log) :
          i < j /\ log[i].state = log[j].state =>
              /\ log[i].app = log[j].app
              /\ log[i].type # "STATE_END"
              /\ log[j].type # "STATE_START"
              /\ \A m \in i..j : log[m].state = log[i].state

\* The durations of active states never add up to more than the time the run
\* has been observing.
ActiveNotOvercounted == tally.active <= tally.until - tally.since

Allowance(idle_starts) == idle_starts * IdleThreshold

\* With the idle states counted in, each change to idle may count up to the
\* idle threshold twice, and no more, if the idle time can always be read.
OvercountBounded ==
    IdleKnown =>
        tally.active + tally.idle
            <= tally.until - tally.since + Allowance(tally.idle_starts)

\* Nor is any of that time lost: what the events add up to covers it, changes
\* to idle and polls that saw no application included.
TimeAccountedFor ==
    pending = NoEvent => tally.until - tally.since <= tally.active + tally.idle

\* Until the wall clock is set back the log is in timestamp order, the order
\* the uploader reads it back in, and states do not overlap.
LogInTimestampOrder ==
    setback = 0 => \A i, j \in 1..Len(log) : i < j => log[i].timestamp <= log[j].timestamp
=============================================================================
