----------------------------- MODULE SyncWorker -----------------------------
(***************************************************************************)
(* The agent's uploader, agent/sync_worker.py, with the threads it meets:  *)
(* the main loop that logs events, stops the worker and closes the         *)
(* database (agent/main.py), the UI threads that pause and resume it       *)
(* (agent/tray.py), and the API that stores what it sends.                 *)
(*                                                                         *)
(* A worker belongs to one run of the agent.  stop() waits five seconds    *)
(* for it, a request may take thirty: a worker may outlive its run, and    *)
(* work beside the worker of the next one.                                 *)
(*                                                                         *)
(*          +-- nothing to send ----------------+                          *)
(*   pass --+-- paused ------------> doze ---+  |                          *)
(*    ^     +-- post --> mark --+            |  |                          *)
(*    |            +---> fail --+--> sleep <-|--+                          *)
(*    +--------------- clear <---------+-----+                             *)
(***************************************************************************)
EXTENDS Naturals, FiniteSets

CONSTANTS
    MaxEvents,   \* bound on the events the tracker logs
    Timestamp,   \* event -> the wall clock when it was logged
    BatchSize,   \* SYNC_BATCH_SIZE
    UIThread,    \* threads that may toggle synchronization (Tk, tray)
    MaxRuns,     \* bound on the runs of the agent
    MaxHiccups   \* bound on the database calls that raise

\* Events are numbered in the order they are logged.
Event == 1..MaxEvents

ASSUME EventAssumption == MaxEvents \in Nat /\ Timestamp \in [Event -> Nat]
ASSUME BatchAssumption == BatchSize \in Nat \ {0}
ASSUME WorkerBoundAssumption == MaxRuns \in Nat /\ MaxHiccups \in Nat

Run == 1..MaxRuns

VARIABLES
    (* durable: the SQLite file *)
    logged,    \* events 1..logged are rows of activity_events
    synced,    \* those whose sync_status is SYNCED; the rest is PENDING
    setting,   \* the setting sync_enabled
    (* the main thread *)
    run,       \* the current or last run
    main,      \* where it is
    stop_event, \* the event the UI stops it with
    (* run -> its SyncWorker; sets hold the runs whose flag is set *)
    pc,
    batch,     \* events of the pass in progress
    enabled,   \* _enabled
    wake,      \* _wake
    stopping,  \* _stopping
    (* UI threads in SyncWorker.set_enabled *)
    toggle,    \* thread -> where it is, and what it sets for which worker
    (* the API *)
    requests,  \* POST /heartbeats under way
    server,    \* events stored in table heartbeats
    (* bound *)
    hiccups

database == <<logged, synced, setting>>
worker == <<pc, batch, enabled, wake, stopping>>
api == <<requests, server>>
vars == <<database, run, main, stop_event, worker, toggle, api, hiccups>>

PC == {"new", "pass", "post", "mark", "fail", "sleep", "doze", "clear", "ended"}

ToggleRecord ==
    [at : {"idle", "persist", "flag", "wake"}, want : {"0", "1"}, run : 0..MaxRuns]

NoToggle == [at |-> "idle", want |-> "1", run |-> 0]

Request == [run : Run, batch : SUBSET Event]

TypeOK ==
    /\ logged \in 0..MaxEvents
    /\ synced \subseteq 1..logged
    /\ setting \in {"0", "1"}
    /\ run \in 0..MaxRuns
    /\ main \in {"down", "running", "stopping", "joining"}
    /\ stop_event \in {"clear", "set"}
    /\ pc \in [Run -> PC]
    /\ batch \in [Run -> SUBSET Event]
    /\ enabled \subseteq Run
    /\ wake \subseteq Run
    /\ stopping \subseteq Run
    /\ toggle \in [UIThread -> ToggleRecord]
    /\ requests \subseteq Request
    /\ server \subseteq Event
    /\ hiccups \in Nat

\* SYNC_ENABLED_DEFAULT is True.
Init ==
    /\ logged = 0
    /\ synced = {}
    /\ setting = "1"
    /\ run = 0
    /\ main = "down"
    /\ stop_event = "clear"
    /\ pc = [r \in Run |-> "new"]
    /\ batch = [r \in Run |-> {}]
    /\ enabled = {}
    /\ wake = {}
    /\ stopping = {}
    /\ toggle = [t \in UIThread |-> NoToggle]
    /\ requests = {}
    /\ server = {}
    /\ hiccups = 0

Hiccup ==
    /\ hiccups < MaxHiccups
    /\ hiccups' = hiccups + 1

-----------------------------------------------------------------------------
(* The main thread *)

\* run() takes the instance lock, creates the worker, hands it to the UI and
\* starts it; _enabled is the stored setting.  The UI has cleared stop_event.
StartAgent ==
    /\ main = "down"
    /\ run < MaxRuns
    /\ run' = run + 1
    /\ main' = "running"
    /\ stop_event' = "clear"
    /\ pc' = [pc EXCEPT ![run + 1] = "pass"]
    /\ enabled' = IF setting = "1" THEN enabled \cup {run + 1} ELSE enabled
    /\ UNCHANGED <<database, batch, wake, stopping, toggle, api, hiccups>>

\* ActivityTracker.observe persists an event.
InsertEvent ==
    /\ main = "running"
    /\ logged + 1 \in Event
    /\ logged' = logged + 1
    /\ UNCHANGED <<synced, setting, run, main, stop_event, worker, toggle,
                   api, hiccups>>

\* AgentController.stop_agent: the worker may see it before the loop does.
SetStopEvent ==
    /\ main = "running"
    /\ stop_event = "clear"
    /\ stop_event' = "set"
    /\ UNCHANGED <<database, run, main, worker, toggle, api, hiccups>>

\* The loop finds stop_event set, or an exception or Ctrl+C ends it:
\* SyncWorker.stop().
StopWorker ==
    /\ main = "running"
    /\ main' = "stopping"
    /\ stopping' = stopping \cup {run}
    /\ UNCHANGED <<database, run, stop_event, pc, batch, enabled, wake, toggle,
                   api, hiccups>>

\* Mutant: stop() only sets the flag.
StopWithoutWake ==
    /\ main = "stopping"
    /\ main' = "joining"
    /\ UNCHANGED <<database, run, stop_event, worker, toggle, api, hiccups>>

WakeToStop ==
    /\ main = "stopping"
    /\ main' = "joining"
    /\ wake' = wake \cup {run}
    /\ UNCHANGED <<database, run, stop_event, pc, batch, enabled, stopping,
                   toggle, api, hiccups>>

\* The join returns: the worker has ended, or five seconds are over, which
\* only a request outlasts.  Then the database is closed and the lock released.
CloseStorage ==
    /\ main = "joining"
    /\ pc[run] \in {"ended", "post"}
    /\ main' = "down"
    /\ UNCHANGED <<database, run, stop_event, worker, toggle, api, hiccups>>

\* The process dies, with all its threads; requests it sent are on their way.
Kill ==
    /\ main' = "down"
    /\ stop_event' = "clear"
    /\ pc' = [r \in Run |-> IF r <= run THEN "ended" ELSE "new"]
    /\ batch' = [r \in Run |-> {}]
    /\ enabled' = {}
    /\ wake' = {}
    /\ stopping' = {}
    /\ toggle' = [t \in UIThread |-> NoToggle]
    /\ UNCHANGED <<database, run, api, hiccups>>

-----------------------------------------------------------------------------
(* The worker of run r *)

Goto(r, label) == pc' = [pc EXCEPT ![r] = label]

Pending == 1..logged \ synced

\* Mutant: without ORDER BY.
AnyPending(events) ==
    /\ events \subseteq Pending
    /\ Cardinality(events) <= BatchSize
    /\ events # Pending => Cardinality(events) = BatchSize

\* get_pending_events: ORDER BY timestamp LIMIT batch_size; ties in any order.
OldestPending(events) ==
    /\ events \subseteq Pending
    /\ Cardinality(events) <= BatchSize
    /\ events # Pending => Cardinality(events) = BatchSize
    /\ \A e \in events, f \in Pending \ events : Timestamp[e] <= Timestamp[f]

ToldToStop(r) == r \in stopping \/ stop_event = "set"

Passing(r) == pc[r] = "pass" /\ ~ToldToStop(r)

\* The loop's condition is false.
End(r) ==
    /\ pc[r] = "pass"
    /\ ToldToStop(r)
    /\ Goto(r, "ended")
    /\ UNCHANGED <<database, run, main, stop_event, batch, enabled, wake,
                   stopping, toggle, api, hiccups>>

\* Paused: wait for a wake-up, however long.
Pause(r) ==
    /\ Passing(r)
    /\ r \notin enabled
    /\ Goto(r, "doze")
    /\ UNCHANGED <<database, run, main, stop_event, batch, enabled, wake,
                   stopping, toggle, api, hiccups>>

\* Nothing is pending, or the log could not be read: look again later.
FindNothing(r) ==
    /\ Passing(r)
    /\ r \in enabled
    /\ \/ Pending = {} /\ UNCHANGED hiccups
       \/ Hiccup
    /\ Goto(r, "sleep")
    /\ UNCHANGED <<database, run, main, stop_event, batch, enabled, wake,
                   stopping, toggle, api>>

\* The oldest pending events are read and posted.
Post(r, events) ==
    /\ Passing(r)
    /\ r \in enabled
    /\ events # {} /\ OldestPending(events)
    /\ batch' = [batch EXCEPT ![r] = events]
    /\ Goto(r, "post")
    /\ requests' = requests \cup {[run |-> r, batch |-> events]}
    /\ UNCHANGED <<database, run, main, stop_event, enabled, wake, stopping,
                   toggle, server, hiccups>>

\* They are read, but the device has no API key.
PostNothing(r, events) ==
    /\ Passing(r)
    /\ r \in enabled
    /\ events # {} /\ OldestPending(events)
    /\ batch' = [batch EXCEPT ![r] = events]
    /\ Goto(r, "fail")
    /\ UNCHANGED <<database, run, main, stop_event, enabled, wake, stopping,
                   toggle, api, hiccups>>

\* Mutant: a timeout is taken for success.
PostSucceeds(r) ==
    /\ pc[r] = "post"
    /\ Goto(r, "mark")
    /\ UNCHANGED <<database, run, main, stop_event, batch, enabled, wake,
                   stopping, toggle, api, hiccups>>

\* Refused, timed out, or answered with an error.
PostFails(r) ==
    /\ pc[r] = "post"
    /\ Goto(r, "fail")
    /\ UNCHANGED <<database, run, main, stop_event, batch, enabled, wake,
                   stopping, toggle, api, hiccups>>

\* Mutant: UPDATE without WHERE id IN (...).
MarkAllSynced(r) ==
    /\ pc[r] = "mark"
    /\ synced' = 1..logged
    /\ batch' = [batch EXCEPT ![r] = {}]
    /\ Goto(r, "sleep")
    /\ UNCHANGED <<logged, setting, run, main, stop_event, enabled, wake,
                   stopping, toggle, api, hiccups>>

\* mark_synced, then straight to the next pass (a wait of zero seconds).
MarkSynced(r) ==
    /\ pc[r] = "mark"
    /\ synced' = synced \cup batch[r]
    /\ batch' = [batch EXCEPT ![r] = {}]
    /\ Goto(r, "sleep")
    /\ UNCHANGED <<logged, setting, run, main, stop_event, enabled, wake,
                   stopping, toggle, api, hiccups>>

\* Mutant: a failed pass returns no delay.
RecordFailureAndDoze(r) ==
    /\ pc[r] = "fail"
    /\ batch' = [batch EXCEPT ![r] = {}]
    /\ Goto(r, "doze")
    /\ UNCHANGED <<database, run, main, stop_event, enabled, wake, stopping,
                   toggle, api, hiccups>>

\* record_sync_failure: the events stay PENDING.
RecordFailure(r) ==
    /\ pc[r] = "fail"
    /\ batch' = [batch EXCEPT ![r] = {}]
    /\ Goto(r, "sleep")
    /\ UNCHANGED <<database, run, main, stop_event, enabled, wake, stopping,
                   toggle, api, hiccups>>

\* Either write raises, and nothing catches it.
Die(r) ==
    /\ pc[r] \in {"mark", "fail"}
    /\ Hiccup
    /\ Goto(r, "ended")
    /\ UNCHANGED <<database, run, main, stop_event, batch, enabled, wake,
                   stopping, toggle, api>>

\* _wait returns: at a wake-up, or after some time unless it dozes ...
WaitReturns(r) ==
    /\ \/ pc[r] = "sleep"
       \/ pc[r] = "doze" /\ r \in wake
    /\ Goto(r, "clear")
    /\ UNCHANGED <<database, run, main, stop_event, batch, enabled, wake,
                   stopping, toggle, api, hiccups>>

\* ... and the wake-up is cleared, whether it came or comes only now.
ClearWake(r) ==
    /\ pc[r] = "clear"
    /\ wake' = wake \ {r}
    /\ Goto(r, "pass")
    /\ UNCHANGED <<database, run, main, stop_event, batch, enabled, stopping,
                   toggle, api, hiccups>>

-----------------------------------------------------------------------------
(* The API *)

\* INSERT ... ON CONFLICT (device_id, local_id) DO NOTHING, committed; the
\* answer reaches the worker if it still waits for it.
Ingest(q) ==
    /\ q \in requests
    /\ requests' = requests \ {q}
    /\ server' = server \cup q.batch
    /\ UNCHANGED <<database, run, main, stop_event, batch, enabled, wake,
                   stopping, toggle, hiccups>>

Answer(q) ==
    /\ Ingest(q)
    /\ pc[q.run] = "post" /\ batch[q.run] = q.batch
    /\ Goto(q.run, "mark")

AnswerLost(q) == Ingest(q) /\ UNCHANGED pc

RequestLost(q) ==
    /\ q \in requests
    /\ requests' = requests \ {q}
    /\ UNCHANGED <<database, run, main, stop_event, worker, toggle, server,
                   hiccups>>

-----------------------------------------------------------------------------
(* AgentController.toggle_sync and SyncWorker.set_enabled, in UI thread t *)

\* There is a worker from on_ready until stop_agent has joined the run.  A toggle
\* that begins between the close of the database and the end of that join does
\* what one does that began before the close.
BeginToggle(t) ==
    /\ toggle[t].at = "idle"
    /\ main # "down"
    /\ toggle' = [toggle EXCEPT ![t] =
                     [at |-> "persist", want |-> IF run \in enabled THEN "0" ELSE "1",
                      run |-> run]]
    /\ UNCHANGED <<database, run, main, stop_event, worker, api, hiccups>>

PersistSetting(t) ==
    /\ toggle[t].at = "persist"
    /\ setting' = toggle[t].want
    /\ toggle' = [toggle EXCEPT ![t].at = "flag"]
    /\ UNCHANGED <<logged, synced, run, main, stop_event, worker, api,
                   hiccups>>

\* set_setting raises: the toggle has no effect.
AbandonToggle(t) ==
    /\ toggle[t].at = "persist"
    /\ Hiccup
    /\ toggle' = [toggle EXCEPT ![t] = NoToggle]
    /\ UNCHANGED <<database, run, main, stop_event, worker, api>>

SetFlag(t) ==
    /\ toggle[t].at = "flag"
    /\ enabled' = IF toggle[t].want = "1" THEN enabled \cup {toggle[t].run}
                  ELSE enabled \ {toggle[t].run}
    /\ toggle' = [toggle EXCEPT ![t].at = "wake"]
    /\ UNCHANGED <<database, run, main, stop_event, pc, batch, wake,
                   stopping, api, hiccups>>

\* Mutant: set_enabled wakes nobody.
ToggleWithoutWake(t) ==
    /\ toggle[t].at = "wake"
    /\ toggle' = [toggle EXCEPT ![t] = NoToggle]
    /\ UNCHANGED <<database, run, main, stop_event, worker, api, hiccups>>

WakeAfterToggle(t) ==
    /\ toggle[t].at = "wake"
    /\ wake' = wake \cup {toggle[t].run}
    /\ toggle' = [toggle EXCEPT ![t] = NoToggle]
    /\ UNCHANGED <<database, run, main, stop_event, pc, batch, enabled,
                   stopping, api, hiccups>>

-----------------------------------------------------------------------------

Main ==
    \/ StartAgent
    \/ InsertEvent
    \/ SetStopEvent
    \/ StopWorker
    \/ WakeToStop
    \/ CloseStorage
    \/ Kill

Work(r) ==
    \/ End(r)
    \/ Pause(r)
    \/ FindNothing(r)
    \/ \E events \in SUBSET Event : Post(r, events) \/ PostNothing(r, events)
    \/ PostFails(r)
    \/ MarkSynced(r)
    \/ RecordFailure(r)
    \/ Die(r)
    \/ WaitReturns(r)
    \/ ClearWake(r)

Toggle(t) ==
    \/ BeginToggle(t)
    \/ PersistSetting(t)
    \/ AbandonToggle(t)
    \/ SetFlag(t)
    \/ WakeAfterToggle(t)

Next ==
    \/ Main
    \/ \E r \in Run : Work(r)
    \/ \E q \in requests : Answer(q) \/ AnswerLost(q) \/ RequestLost(q)
    \/ \E t \in UIThread : Toggle(t)

\* A running worker goes on, waits and requests time out, and stop() gets to its
\* wake-up.  Retried again and again, a device with a key posts and an API that
\* is up answers.
Fairness ==
    /\ WF_vars(WakeToStop)
    /\ \A r \in Run :
          /\ WF_vars(Work(r))
          /\ SF_vars(\E events \in SUBSET Event : Post(r, events))
          /\ SF_vars(\E q \in requests : q.run = r /\ Answer(q))
    /\ \A t \in UIThread : WF_vars(PersistSetting(t)) /\ WF_vars(SetFlag(t))
                           /\ WF_vars(WakeAfterToggle(t))

Spec == Init /\ [][Next]_vars /\ Fairness

-----------------------------------------------------------------------------
(* Properties *)

\* mark_synced is "only called after a 2xx response" (database.py): an event is
\* never taken for delivered unless the API has it, whatever was lost, late,
\* sent twice, or handled by a worker that outlived its run.
SyncedIsStored == synced \subseteq server

\* Events reach the API oldest first: it never has an event without those logged
\* before it with an earlier timestamp, so that a state's events are not
\* sessionized with a hole in them.
NoGapAtServer ==
    \A e \in server, f \in 1..logged :
        f < e /\ Timestamp[f] < Timestamp[e] => f \in server

\* A worker that dozes is woken when it may work again or has to stop: no
\* wake-up is lost between the flag, the wake-up and the clear.
NoLostWakeUp ==
    \A r \in Run :
        pc[r] = "doze" /\ r \notin wake =>
            /\ r \in enabled =>
                  \E t \in UIThread : toggle[t].at = "wake" /\ toggle[t].run = r
            /\ r \in stopping => main = "stopping" /\ r = run

\* "Stop the worker before closing the connection it shares" (main.py): refuted.
WorkerStopsBeforeClose ==
    main = "down" => \A r \in Run : pc[r] \in {"new", "ended"}

\* "stop() wakes and joins the thread, so shutdown is prompt": told to stop, a
\* worker ends, even when it dozes.
StoppedWorkerEnds == \A r \in Run : r \in stopping ~> pc[r] = "ended"

\* The uploader retries until it succeeds: if from some time on a worker stays
\* alive and enabled, every event logged is marked delivered.
StaysUp == main = "running" /\ run \in enabled /\ pc[run] # "ended"

EverythingDelivered ==
    <>[]StaysUp => \A e \in Event : e \in Pending ~> e \in synced

-----------------------------------------------------------------------------
(* Refinement *)

Promise == INSTANCE Delivery

\* Threads, requests and retries implement the delivery of events.
ImplementsDelivery == Promise!Spec
=============================================================================
