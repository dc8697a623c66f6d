--------------------------- MODULE AgentLifecycle ---------------------------
(***************************************************************************)
(* Starting, stopping and exiting the agent: AgentController in            *)
(* agent/tray.py, the loop in agent/main.py it runs in a thread, and the   *)
(* lock in agent/instance_lock.py that keeps two loops apart.              *)
(*                                                                         *)
(* Two threads use the controller without a lock of its own: the tray icon *)
(* (start, stop, exit) and the window (exit).  All runs share one          *)
(* stop_event.  stop_agent waits five seconds for the loop, which itself   *)
(* waits up to five for the uploader after its last poll: the wait may     *)
(* time out, and the controller then forgets a thread that is alive.       *)
(***************************************************************************)
EXTENDS Naturals

CONSTANTS
    Tray,          \* the tray icon's thread
    Window,        \* the Tk thread
    NoThread,      \* _agent_thread is None
    MaxRuns        \* bound: how often the agent is started

Run == 1..MaxRuns

UIThread == {Tray, Window}

ASSUME LifecycleBoundAssumption == MaxRuns \in Nat \ {0}
ASSUME HandleAssumption == NoThread \notin Run /\ Tray # Window

VARIABLES
    handle,      \* _agent_thread
    stop_event,
    started,     \* runs 1..started have been started
    phase,       \* run -> where its thread is
    lock,        \* the run that holds the instance lock, or NoThread
    ui,          \* UI thread -> where in start_agent, stop_agent or shutdown
    joins,       \* UI thread -> the run it joins
    exits,       \* UI threads that are in shutdown
    alive,       \* "up" until the window is destroyed
    abandoned    \* history: the runs a join gave up on

agents == <<phase, lock>>
vars == <<handle, stop_event, started, agents, ui, joins, exits, alive,
          abandoned>>

TypeOK ==
    /\ handle \in Run \cup {NoThread}
    /\ stop_event \in {"clear", "set"}
    /\ started \in Run
    /\ phase \in [Run -> {"new", "locking", "setup", "loop", "closing", "ended"}]
    /\ lock \in Run \cup {NoThread}
    /\ ui \in [UIThread -> {"idle", "clear", "spawn", "set", "join", "joining",
                            "forget", "exit"}]
    /\ joins \in [UIThread -> Run \cup {NoThread}]
    /\ exits \subseteq UIThread
    /\ alive \in {"up", "gone"}
    /\ abandoned \subseteq Run

\* run_app starts the agent before there is a tray or a window.
Init ==
    /\ handle = 1
    /\ stop_event = "clear"
    /\ started = 1
    /\ phase = [r \in Run |-> IF r = 1 THEN "locking" ELSE "new"]
    /\ lock = NoThread
    /\ ui = [t \in UIThread |-> "idle"]
    /\ joins = [t \in UIThread |-> NoThread]
    /\ exits = {}
    /\ alive = "up"
    /\ abandoned = {}

-----------------------------------------------------------------------------
(* AgentController *)

InLoop(r) == phase[r] \in {"setup", "loop", "closing"}

IsRunning ==
    handle # NoThread /\ phase[handle] \notin {"new", "ended"}

Goto(t, label) == ui' = [ui EXCEPT ![t] = label]

\* Mutant: without the check of is_running().
BeginStartAnyway ==
    /\ alive = "up" /\ ui[Tray] = "idle"
    /\ started < MaxRuns
    /\ Goto(Tray, "clear")
    /\ UNCHANGED <<handle, stop_event, started, agents, joins, exits, alive,
                   abandoned>>

BeginStart ==
    /\ alive = "up" /\ ui[Tray] = "idle"
    /\ started < MaxRuns
    /\ ~IsRunning
    /\ Goto(Tray, "clear")
    /\ UNCHANGED <<handle, stop_event, started, agents, joins, exits, alive,
                   abandoned>>

ClearEvent ==
    /\ alive = "up" /\ ui[Tray] = "clear"
    /\ stop_event' = "clear"
    /\ Goto(Tray, "spawn")
    /\ UNCHANGED <<handle, started, agents, joins, exits, alive, abandoned>>

Spawn ==
    /\ alive = "up" /\ ui[Tray] = "spawn"
    /\ started' = started + 1
    /\ handle' = started + 1
    /\ phase' = [phase EXCEPT ![started + 1] = "locking"]
    /\ Goto(Tray, "idle")
    /\ UNCHANGED <<stop_event, lock, joins, exits, alive, abandoned>>

\* "Stop agent" in the tray.
BeginStop ==
    /\ alive = "up" /\ ui[Tray] = "idle"
    /\ IsRunning
    /\ Goto(Tray, "set")
    /\ UNCHANGED <<handle, stop_event, started, agents, joins, exits, alive,
                   abandoned>>

\* "Exit", "Stop & Exit": stop_agent, which returns at once if nothing runs.
BeginExit(t) ==
    /\ alive = "up" /\ ui[t] = "idle"
    /\ exits' = exits \cup {t}
    /\ Goto(t, IF IsRunning THEN "set" ELSE "exit")
    /\ UNCHANGED <<handle, stop_event, started, agents, joins, alive,
                   abandoned>>

SetEvent(t) ==
    /\ alive = "up" /\ ui[t] = "set"
    /\ stop_event' = "set"
    /\ Goto(t, "join")
    /\ UNCHANGED <<handle, started, agents, joins, exits, alive, abandoned>>

Join(t) ==
    /\ alive = "up" /\ ui[t] = "join"
    /\ handle # NoThread
    /\ joins' = [joins EXCEPT ![t] = handle]
    /\ Goto(t, "joining")
    /\ UNCHANGED <<handle, stop_event, started, agents, exits, alive,
                   abandoned>>

\* The other UI thread has forgotten the agent's thread in the meantime:
\* None has no join, and the exception ends stop_agent and shutdown.
JoinRaises(t) ==
    /\ alive = "up" /\ ui[t] = "join"
    /\ handle = NoThread
    /\ exits' = exits \ {t}
    /\ Goto(t, "idle")
    /\ UNCHANGED <<handle, stop_event, started, agents, joins, alive,
                   abandoned>>

\* Mutant: stop_agent does not join.
JoinReturnsAtOnce(t) ==
    /\ alive = "up" /\ ui[t] = "joining"
    /\ Goto(t, "forget")
    /\ UNCHANGED <<handle, stop_event, started, agents, joins, exits, alive,
                   abandoned>>

\* The run has ended, or five seconds are over.
JoinReturns(t) ==
    /\ alive = "up" /\ ui[t] = "joining"
    /\ \/ phase[joins[t]] = "ended" /\ UNCHANGED abandoned
       \/ InLoop(joins[t]) /\ abandoned' = abandoned \cup {joins[t]}
    /\ Goto(t, "forget")
    /\ UNCHANGED <<handle, stop_event, started, agents, joins, exits, alive>>

Forget(t) ==
    /\ alive = "up" /\ ui[t] = "forget"
    /\ handle' = NoThread
    /\ joins' = [joins EXCEPT ![t] = NoThread]
    /\ Goto(t, IF t \in exits THEN "exit" ELSE "idle")
    /\ UNCHANGED <<stop_event, started, agents, exits, alive, abandoned>>

\* The Tk thread destroys the window, once it is out of shutdown itself, and
\* mainloop returns: the process ends with all its daemon threads, and the
\* system releases the lock.
Exit(t) ==
    /\ alive = "up" /\ ui[t] = "exit"
    /\ ui[Window] \in {"idle", "exit"}
    /\ alive' = "gone"
    /\ phase' = [r \in Run |-> IF r <= started THEN "ended" ELSE "new"]
    /\ lock' = NoThread
    /\ UNCHANGED <<handle, stop_event, started, ui, joins, exits, abandoned>>

-----------------------------------------------------------------------------
(* main.run, in the thread of run r *)

Move(r, label) == phase' = [phase EXCEPT ![r] = label]

\* Mutant: the result of acquire() is not looked at.
TakeLockAnyway(r) ==
    /\ phase[r] = "locking"
    /\ lock' = IF lock = NoThread THEN r ELSE lock
    /\ Move(r, "setup")
    /\ UNCHANGED <<handle, stop_event, started, ui, joins, exits, alive,
                   abandoned>>

TakeLock(r) ==
    /\ phase[r] = "locking"
    /\ lock = NoThread
    /\ lock' = r
    /\ Move(r, "setup")
    /\ UNCHANGED <<handle, stop_event, started, ui, joins, exits, alive,
                   abandoned>>

\* "Another agent instance is already running": the thread just ends.
LockTaken(r) ==
    /\ phase[r] = "locking"
    /\ lock # NoThread
    /\ Move(r, "ended")
    /\ UNCHANGED <<handle, stop_event, started, lock, ui, joins, exits,
                   alive, abandoned>>

SetUp(r) ==
    /\ phase[r] = "setup"
    /\ Move(r, "loop")
    /\ UNCHANGED <<handle, stop_event, started, lock, ui, joins, exits,
                   alive, abandoned>>

\* The identity, the collector or the database raises: the lock is released.
SetUpFails(r) ==
    /\ phase[r] = "setup"
    /\ lock' = NoThread
    /\ Move(r, "ended")
    /\ UNCHANGED <<handle, stop_event, started, ui, joins, exits, alive,
                   abandoned>>

\* Mutant: while True.
LeaveLoopNever(r) == FALSE

\* The loop looks at stop_event between two polls.
LeaveLoop(r) ==
    /\ phase[r] = "loop"
    /\ stop_event = "set"
    /\ Move(r, "closing")
    /\ UNCHANGED <<handle, stop_event, started, lock, ui, joins, exits,
                   alive, abandoned>>

\* A poll raises.
LoopFails(r) ==
    /\ phase[r] = "loop"
    /\ Move(r, "closing")
    /\ UNCHANGED <<handle, stop_event, started, lock, ui, joins, exits,
                   alive, abandoned>>

\* The uploader was waited for and the database is closed: release the lock.
Close(r) ==
    /\ phase[r] = "closing"
    /\ lock' = NoThread
    /\ Move(r, "ended")
    /\ UNCHANGED <<handle, stop_event, started, ui, joins, exits, alive,
                   abandoned>>

-----------------------------------------------------------------------------

Controller ==
    \/ BeginStart \/ ClearEvent \/ Spawn \/ BeginStop
    \/ \E t \in UIThread :
          \/ BeginExit(t) \/ SetEvent(t) \/ Join(t) \/ JoinRaises(t)
          \/ JoinReturns(t) \/ Forget(t) \/ Exit(t)

Agent(r) ==
    \/ TakeLock(r) \/ LockTaken(r)
    \/ SetUp(r) \/ SetUpFails(r)
    \/ LeaveLoop(r) \/ LoopFails(r)
    \/ Close(r)

Next == Controller \/ \E r \in Run : Agent(r)

\* Who gets how far is stated for the whole process, in module AgentIdentity.
Spec == Init /\ [][Next]_vars

-----------------------------------------------------------------------------
(* Properties *)

\* Two runs are never at the database at once, however starts and stops from
\* two threads interleave ...
OneRunAtATime == \A q, r \in Run : InLoop(q) /\ InLoop(r) => q = r

\* ... and the lock is nobody's once its run is over, so that it cannot keep
\* the next one out for ever.
LockIsReleased == \A r \in Run : lock = r => InLoop(r)

\* A run that is told to stop ends, unless it is started again meanwhile.
StoppedRunEnds ==
    \A r \in Run :
        stop_event = "set" /\ InLoop(r)
            ~> stop_event = "clear" \/ phase[r] = "ended"

Overdue == {r \in abandoned : phase[r] # "ended"}

\* A run that is started finds the lock free: it is not turned away by the run
\* it replaces.
StartedAgentRuns ==
    exits = {} => \A r \in Run : phase[r] = "locking" => lock = NoThread

\* A start succeeds until somebody exits, unless a run that a join gave up on is
\* still there: then stop_agent has forgotten a thread that holds the lock.
PromptRestartRuns == Overdue = {} => StartedAgentRuns

\* The menu offers to stop the agent while it runs, under the same conditions.
MenuShowsRun ==
    exits = {} /\ Overdue = {} =>
        \A r \in Run : phase[r] = "loop" => handle = r
=============================================================================
