# TLA+ models of Attlytics

Attlytics records what a user works on. An *agent* on Windows polls the
foreground window, appends events to a local SQLite file and uploads them; an
*API* stores them; a *sessionization worker* groups them into sessions; a
*frontend* shows them and is where a user confirms a device. This directory
holds TLA+ models of the parts whose behaviour over time is hard to test, TLC
configurations that check them on small instances, and theorems about them that
TLAPS checks for every value of the constants.

```
 tracker --> SQLite log --> uploader --HTTP--> ingest --> heartbeats
 (poll)                     (thread)                          |
    ^                          ^                    sessionization workers
    |                          |                              |
 main loop <-- tray/window  API key <-- enrollment         sessions --> reads
```

Line numbers below are those of the sources; `PROJECT.json` gives them for every
definition.

## Inventory

| Component | State it keeps | Operations | What is hard |
|---|---|---|---|
| Tracker (`agent/tracking/activity_tracker.py`) | current state, time of its last event | `observe`, once per poll | two clocks, idle split, death between two commits |
| Windows collector (`agent/collectors/windows.py`) | none | idle time, foreground application | 32-bit tick count |
| Local log (`agent/storage/database.py`) | events with a sync status, settings | insert, oldest pending, mark, record failure, settings | used by several threads, may raise |
| Uploader (`agent/sync_worker.py`) | flags `_enabled`, `_wake`, `_stopping`; the batch in flight | a pass, two kinds of waiting, `set_enabled`, `stop` | lost answers, wake-ups, two runs overlapping |
| Tray and window (`agent/tray.py`) | `_agent_thread`, the stop event, `_connecting` | start, stop, exit, toggle sync, connect | two UI threads, no lock |
| Main loop, instance lock (`agent/main.py`, `instance_lock.py`) | the lock file | set-up, loop, shutdown order | failures at each step, joins that time out |
| Ingest (`api/app/repos/heartbeats.py`) | table `heartbeats` | insert, ignoring what is there | repeated and late requests |
| Sessionization (`api/app/services/session.py`, `repos/sessions.py`, `workers/`) | `processed_at`, table `sessions`, row locks | claim, derive, upsert, stamp, commit | concurrent workers, crashes, deadlocks, arrival order |
| Enrollment (`agent/account.py`, `services/device.py`, `core/ws.py`, the confirm page) | socket registry, device row, keys, `secrets.bin` | enroll, open and close a socket, confirm, deliver, store | confirmations interleave at every commit; handshakes and closes that come late; lost connections; restarts |
| Login and tokens (`services/auth.py`, `lib/api.ts`, `store/auth.ts`) | revoked tokens; cookie, localStorage, each tab's store and `refreshPromise` | login, an authenticated call with its retry, refresh, logout | refreshes racing each other and a logout, lost answers, tabs that share a cookie |
| Reads (`services/analytics.py`, the queries of `repos/sessions.py`) | none; the cursor is the client's | pages, a summary, a ranking by application | pages over rows that move, two queries for one answer, window boundaries |
| Identity (`agent/identity.py`) | `identity.json` and its temporary file | read or create | runs hold the lock, connections do not |
| Health, configuration, migrations, pages | none | probes; forms | |

What makes each part correct:

* **Sessionization**: no heartbeat is processed twice at once; a session is a
  function of the heartbeats processed so far, whatever the batches; nothing is
  lost when a task dies; every heartbeat is processed.
* **Tracker**: the events of a state form one well-formed stretch; what they add
  up to is the time that was observed, neither more (beyond a known amount) nor
  less.
* **Uploader**: acknowledged means stored; no gaps; wake-ups are not lost; a
  stopped worker ends; a worker that stays up delivers everything.
* **Enrollment**: a device keeps its owner; its keys are the owner's; the agent
  holds only keys the API knows, and a revoked one only if it missed the key of the
  confirmation that revoked it; a live socket stays within reach until another is
  registered over it.
* **Login and tokens**: the browser is not left with a revoked cookie but for a
  lost answer; a page never spends the cookie's token twice; every call ends.
* **Agent lifecycle**: one run at a time; the lock is always given back; a run
  that is started runs; a run that is stopped stops; the machine stays one
  installation.
* **Reads**: paging leaves nothing out and comes to an end; what is shown as a
  part is within the whole; adjoining windows add up.

The full list of hazards, each at its line and with the properties that cover
it, is in `PROJECT.json`.

## Modules

| Module | Models | Checked by | Proved in |
|---|---|---|---|
| `HeartbeatRows` | how the API keys and orders rows, and what rows may be like, as operators | through `Sessionizer` | `TrackerProofs`, of the agent's rows |
| `SessionDerivation` | rows, grouping, `_build_session`, the upsert's merge, as operators | through `Sessionizer` | `SessionizerProofs` (lemmas) |
| `SessionLog` | abstract: a session is derived from the processed heartbeats | refined by `Sessionizer` | |
| `Sessionizer` | ingest and any number of worker processes | `MCSessionizer` | `SessionizerProofs` |
| `SessionReads` | the read endpoints, beside the workers of `Sessionizer` | `MCSessionReads` | `SessionReadsProofs` |
| `Tracker` | `observe` and the poll loop, both clocks, restarts | `MCTracker` | `TrackerProofs` |
| `IdleClock` | the collector's idle time with its words | itself | `IdleClockProofs` |
| `Delivery` | abstract: log, store, acknowledge | refined by `SyncWorker` | |
| `SyncWorker` | the uploader with the main thread, UI threads and API | `MCSyncWorker` | `SyncWorkerProofs` |
| `Enrollment` | agent, socket handler and registry, confirmations | `MCEnrollment` | `EnrollmentProofs` |
| `AgentLifecycle` | `AgentController`, `main.run`, the instance lock | through `AgentIdentity` | `AgentLifecycleProofs` |
| `AgentIdentity` | the runs of `AgentLifecycle` and the connections beside them, over `identity.json` | itself | `AgentLifecycleProofs` |
| `AuthTokens` | login, refresh, logout and calls of one browser with tabs | `MCAuthTokens` | `AuthTokensProofs` |

### Sessionization

A Celery task is one transaction, and the model takes it apart where another
transaction can come in between: `Claim` (the locking SELECT), one `UpsertRow`
per row of the multi-row INSERT (each takes a row lock and holds it to the end),
and `Commit` (the stamp and the commit, which nobody sees before). `draft` holds
what a transaction has written and not committed. `Crash` stands for a killed
worker, a time limit or an exception; the broker redelivers the task. Waits for
row locks are implicit in the guard of `UpsertRow`; `DeadlockAbort` is
PostgreSQL's deadlock detector. The two lines that order the claim and the
order of the rows in the INSERT (`Before`, `EarlierKey` of `HeartbeatRows`) are
modelled because the lock order follows from them.

`HeartbeatRows` also names what the rows of a device may be like. `AtMostOneEnd`
is assumed by `SessionDerivation`; `RunForward`, `OneAfterAnother` and `Apart`
are premises of properties and hold of what is stored at some times and not at
others. `Apart` takes more than a clock that was not set back: a STATE_END and the
STATE_START that follows may have one timestamp, and then their random ids order
them for the claim.

`SessionDerivation` leaves out `source`, `application` and `user_id`, which are
copied and never computed with. A heartbeat is a record of device, state, type,
timestamp and id.

### Reads

`SessionReads` composes one client with the ingest and the workers of
`Sessionizer`. Requests share nothing, so a client that chains them stands for
all. A query is one step, since it sees one snapshot; between two of them
workers may commit. `ListPage` is a request for a page: the window is resolved
(anew for each page, as the code does), the rows beyond the cursor are taken in
order, one more than fit, and the cursor of the next page is the last item's.
`RefuseWindow` is the 422, which may also come in the middle of paging, as a
window with a default end grows. `RankApplications` and `TotalDuration` are the two
queries of `/stats/applications`; `Summary` is the one of `/stats/summary`, an
operator, as it changes nothing. Pages and positions are sets: the order within a
page is that of `Precedes`. The columns requests filter by do not change, so a
filter is the set of keys it lets through. A position is a start and an id; ids
are random, `SessionId` maps keys to them. `throughout` and `strayed` are history:
which sessions every query of the request found, and which only the first did. A
local day is a stretch of `DayLength`; time zones, whose days differ in length,
are not modelled.

### Tracker and idle clock

Time is counted in polls. `EndState` appends the STATE_END and `StartNext` the
STATE_START of a change, as two commits; `Restart` may come between them. The
history variable `tally` adds up what a run's events claim, so that active and
idle time can be compared with the time that passed. `IdleClock` is separate
because its question is arithmetic; `Tracker` takes from it only that the idle
time may be unreadable, in the runs of `BlindRuns`. In `IdleClock`, `Modulus` stands for 2^32, `Signed` for what
ctypes does to a return value without a restype.

### Uploader

Every atomic step of the worker's pass is an action: the read of the pending
events (`Post`, with sending the request), the answer or its loss, the mark or
the failure record, and the two halves of `_wait` (`WaitReturns`, `ClearWake`).
A worker belongs to a run of the agent; since `stop()` waits only five seconds
and a request may take thirty, workers of earlier runs stay in the model.
`ActivityDatabase` serializes its methods under a lock, so each call is one step.
Which of the API's rows are stored is `server`; an answer may be lost after the
store (`AnswerLost`) or the request before it (`RequestLost`). The backoff delay
is abstracted to "some time later", which covers every delay.

### Enrollment

The model follows one agent installation. A confirmation walks through
lookup, create, revoke, issue and send; each is a commit or an await, so others
may run in between. A page sends one at a time, which a reload forgets: in
`TabOf`, a page that is reloaded counts as another tab.

The two ends of a socket are apart. At the agent, `OpenSocket` sends the
handshake and the attempt waits, until it reads a key (`ReceiveKey`) or gives up
(`AttemptFails`); it learns nothing else. At the API, `socket` says where the
handshake and then its handler are: `Accept` registers a socket over any other,
also that of an attempt the agent has given up; `Break` is the connection going
(closed by the agent, reset, or a keep-alive ping without an answer), after which
a hello or a key cannot be sent (`GreetFails`, `SendFails`) and the handler ends
(`Disconnect`). All of it may happen while the agent still waits, as may a restart
of the API, which empties the registry and tells the agent nothing. `Unregister`
compares sockets as the code does.

Key material, tokens and metadata are left out: a key is named after the
confirmation that minted it. Three history variables remember what the properties
speak of: which confirmation revoked a key (`revokedBy`), which sockets another
one replaced in the registry (`overtaken`), and which keys were read and not saved
(`dropped`).

### Agent lifecycle

`BeginStart`, `ClearEvent`, `Spawn` and `SetEvent`, `Join`, `JoinReturns`,
`Forget` are the statements of `start_agent` and `stop_agent` in order, since two
UI threads may execute them at once. A run of `main.run` is a thread that takes
the lock, sets up, loops, closes and releases. A join may give up while its
thread is alive; the history variable `abandoned` remembers on which.

`AgentIdentity` extends it with the threads of "Connect account". Both load
`identity.json`, step by step: look, find or mint, write the temporary file, move
it. A run does so in its set-up, under the lock; `SetUp` is taken only once the
identity is loaded. A connection has no lock, and shares the name of the
temporary file with the run. An identity is named after who minted it, as a UUID
is new. The history variable `raced` remembers that a connection and a run both
found no file.

### Login and tokens

The model follows one browser of one user. The API issues tokens in pairs, so a
pair is a number, an access or refresh token a kind and a number, and 0 is no
token; `revoked` is the table of that name. `cookie` and `saved` (localStorage)
are shared by the tabs, `store` and `promise` (`refreshPromise`) belong to one.

* A call made through the axios instance is a record in `call`. `Confirm` sends
  it with the store's token, `Authorize` is the API's dependency,
  `RejectRetry`, `JoinRefresh` and `StartRefresh` are the branches of the
  response interceptor, whose code up to its `await` is one step of the event
  loop. Logins and logouts are calls too; a logout is sent with the cookie.
* A refresh is a record in `request`, under the call that started it.
  `CheckRefresh` is `verify_token` and the query of `is_revoked`; `Rotate` is the
  committed insert into `revoked_tokens` with the new pair. Another request may
  come between them: they are two statements of a transaction that does not lock
  what it reads. `RefreshAnswered` is the
  arrival of the answer: the browser sets the cookie, and if the page is there
  `setTokens` runs and all waiting calls go out again.
* In `RevokeAccess` and `RevokeRefresh` a check and an insert are one step:
  the insert ignores a token that is already there, so an insert of the same
  token between them changes nothing.
* `page` is FALSE once nobody waits for an answer. A page goes away when it is
  reloaded or sent to `/login` (`SendToLogin`, after a refresh that failed); its
  requests may go on at the API and set the cookie, or be lost. What a page
  still does between `location.assign` and its end is not modelled.
* The history variable `uses` remembers which tab, logout or abandoned request
  presented a refresh token.

A call carries its answer with it, so answers of different requests arrive in
any order. `Expire` lets the oldest pairs expire, access tokens first.

## Runs

| Run | Question | Instance |
|---|---|---|
| `sessionizer_setback` | exclusive claims, derivation, recomputability, growth, deadlocks, progress; refinement of `SessionLog` with its liveness | 2 workers, batches of 2, 5 heartbeats of 2 states of a device that interleave, 1 crash |
| `sessionizer_open` | **violated**: an open session equals what a single run builds | the same |
| `tracker_setback` | log order, well-formed states, active time, lost time, the bound on double counting | 2 applications, 5 ticks, 2 runs (the second with an unreadable idle time), clock set back by 1, thresholds of 2 |
| `sync_restart` | delivery is real, wake-ups, no gaps at the API, refinement of `Delivery` | 2 events in batches of 1, 2 runs, 1 toggling thread, 1 database error |
| `sync_progress` | a stopped worker ends; everything is delivered | 2 events, batches of 2, 1 run, 1 toggling thread, 1 error |
| `sync_overlap` | **violated**: the worker stops before the database is closed | 1 event, 1 run |
| `idle_wrap` | the idle time is sound, and exact at first | a counter of 8, 20 ticks: 2 wraps |
| `idle_halfway` | **violated**: the idle time is the time since the last input | the same |
| `enroll_rivals` | owner, keys, one working key; who is left with a revoked key; what stays registered; an attempt that never ends is unconfirmed and within reach | 2 users with a page each, 4 confirmations (3 of one user), 2 attempts, 1 restart |
| `lifecycle_stops` | exclusion, stopping; a start succeeds and the menu is right while no run is overdue; one identity | 2 runs, 2 connections, both UI threads |
| `reads_paging` | nothing is skipped, pages descend and end, parts stay within the whole, adjoining windows add up | 1 worker, 5 heartbeats of 3 states on 2 devices, batches of 2; 5 requests of 1 or 2 sessions a page, 2 instants of the clock |
| `auth_tabs` | the cookie is usable, a refresh is refused for cause, every call ends | 2 tabs; 2 confirmations from one, and from the other a confirmation, a login or a logout; 1 pair expires |

The instances are small but hold the interesting cases: two workers are enough
for every claim race, lost update and wait cycle between two transactions;
batches of two split a state and mix two states in a batch; five heartbeats give
three batches. The states of that instance interleave, so that tasks can wait
for each other: `NoWaitCycle` then speaks about the times at which the stored
states are still apart (`StatesApart`), and `NeverOverReports`, for several states
at once, about those whose processed heartbeats do not overlap. Two runs are enough for a worker to
outlive its run. Two wraps of the idle counter show it before and after half of
its range more than once. Bounds appear as constants
(`MaxCrashes`, `MaxRuns`, `MaxTime`, `MaxSetback`, `MaxHiccups`, `MaxAttempts`,
`MaxRestarts`, `MaxUptime`, `MaxExpired`, `MaxConnections`, the instants of
`Clock`, and the calls of `AuthTokens`, each made once) and in guards only; no
theorem needs a value for them.

In `reads_paging` all three sessions may start at the same time, so that ids
decide, and one of them is moved to an earlier start while the client reads: over
the cursor, out of the window, or between the two queries of the ranking. Two
runs and two connections give every race over the file: run and run, run and
connection, connection and connection after the first has ended.

In `enroll_rivals` three confirmations of one user let a key be revoked after an
older one failed to arrive, and two attempts let the handshake and the handler of
the first come after those of the second.

`CHECK_DEADLOCK FALSE` is set for `Enrollment`, `AgentIdentity`, `AuthTokens` and
`SessionReads` only: the user may have used up all confirmations, attempts and
calls, the agent may have been exited, and the client may have its answer. Type
invariants are proved, and in no run.

Every property of a passing run has a mutant in `PROJECT.json`: a definition of
the model with a plausible slip (its operator stands next to the original and is
commented as a mutant), under which TLC finds the property violated.

### Fairness

* `Sessionizer`: beat sends a task every 30 s, a task goes on, the deadlock
  detector runs (weak fairness). A lock that is free again and again is granted
  in the end: strong fairness of `UpsertRow`, as PostgreSQL queues waiters.
  Nothing makes heartbeats arrive or tasks crash.
* `SyncWorker`: the worker's thread goes on (`Work`, which includes the end of a
  timed wait and the time-out of a request), `stop()` gets to its wake-up and a
  toggle through its statements (weak fairness). A device that tries again and
  again posts in the end, and is answered in the end (strong fairness); both only
  matter for `EverythingDelivered`, which is about a worker that stays up and
  enabled.
* `Enrollment`: a key on its way arrives or the connection is lost, and a wait for
  a handshake without an answer or on a lost connection ends, as a read that finds
  nothing for 60 s raises. Nothing ends a wait on a connection that is up: the
  timeout is that of one read, and the API's keep-alive pings restart it. So an
  attempt need not end, and `HangsUnconfirmed` says what is true of one that does
  not. Nothing makes a user confirm, and nothing a handler go on.
* `AgentIdentity`: the threads of runs go on, their loading of the identity
  included. A poll returns; nothing makes the user click or a connection end.
  `AgentLifecycle` states no fairness of its own.
* `SessionReads`: a client that was given a cursor asks for the next page. That
  it comes to an end does not rest on the workers.
* `AuthTokens`: a handler of the API that has begun goes on, and the event loop
  runs the continuation of an answer that has arrived (weak fairness of each
  call with its refresh). Nothing makes the user click, and nothing makes a
  request fail.
* `Tracker` and `IdleClock` are checked for safety only: they promise nothing
  about when.

## Disagreements between code and documentation

Three runs refute something a comment, docstring or document says; the entries
under `findings` in `PROJECT.json` quote the lines.

1. `sessionizer_open`: a session that is still open keeps the duration of its
   first batch (`repos/sessions.py:108`).
2. `idle_halfway`: after 2^31 ms of uptime the idle time is 2^32 ms too small
   (`windows.py:19`), so that the user is never idle again until the count wraps.
3. `sync_overlap`: `stop()` gives up after 5 s while a request may take 30 s
   (`sync_worker.py:90`); the database is closed under the worker.

Two more are met by a property that names them as its exception or its bound.
Idle time that a heartbeat has reported is reported again by the change to idle
(`activity_tracker.py:128`, where lines 124-127 say "so the interval is not
double-counted"); `OvercountBounded` says by how much at most. And a share of an
application may be over 100 per cent of "all tracked time in the window"
(`schemas/session.py:50`): the rows and their total are two queries, and a worker
may move a session out of the window between them (`analytics.py:198`);
`PartsWithinWhole` excepts exactly that.

No line of the documentation speaks of these two: after a stop that timed out
the next start finds the lock held and exits (`tray.py:55`), which
`PromptRestartRuns` confines to the time a run is overdue; and a refresh whose
answer is lost leaves the browser with a revoked cookie (`endpoints/auth.py:80`),
which `CookieIsUsable` names as the one lasting cause. `frontend/README.md:40,52` says
that tokens are kept in memory, while `store/auth.ts` persists the access token
to localStorage; the models have it in localStorage.

Four more are listed as hazards, with what the models say of them: a database
error after the upload ends the worker's thread (`sync_worker.py:121`; action
`Die`); toggles at once, or one during a restart, can leave the stored setting
and the worker at odds (`tray.py:126`); and two confirmations of one user from
two tabs, or from one that is reloaded in between, leave two working keys
(`services/device.py:87`), which is why `OneActiveKey` and `CutOffForCause` speak of
one page for each user: with two, the key of the older confirmation may also be
the one that arrives.

The fourth: a handshake that is accepted after its agent has given it up is
registered over the socket of the next attempt, and leaves the registry empty when
its handler ends (`ws.py:11`). The attempt that waits then goes on out of reach,
for as long as its connection is up; `LiveIsRegistered` and `HangsUnconfirmed`
except exactly that.

## Proofs

TLAPS proves the theorems listed in `PROJECT.json`; every invariant and every
action property of a passing run is among them, and the safety part of both
refinements. Constants are arbitrary within the assumptions of their module: any
finite number of workers, any heartbeats, runs, threads, users, any thresholds.

* **`SessionizerProofs`** begins with what the start, the end and the merge of a
  session are: the merge of what two sets of heartbeats establish
  is what their union establishes, whatever is open or ended. It needs that a
  state has at most one STATE_END, the assumption `OneEndAssumption`. Then `IInv`
  strengthens the type invariant by: claimed
  heartbeats are pending and batches disjoint (`BatchesPending`,
  `BatchesDisjoint`); a session key has one writer (`OneWriter`); a draft is the
  merge of the *committed* row with the batch's part (`DraftsCurrent`), which is
  where the row lock is needed; and every committed row describes its processed
  heartbeats (`SessionsDescribed`). The last two make `Commit` preserve the
  derivation. `SessionsGrow` and `RefinesSessionLog` follow from it.
  For `DurationsWithinSpan`, sums over sets come first: a sum is a fold, and what
  is needed of it (the sum over a set and one more element, and that a larger
  summand makes a larger sum) is got from the fold's definition by taking the
  smallest subset for which it fails, as no induction theorem can be used. Then the
  stretches of states that follow one another add up (`StretchesAddUp`).
  For `NeverDeadlocked`, a batch has written its rows in the order of its keys
  (`RowsInOrder`). In a circle of waits take the rows waited for, and of their
  heartbeats the first: whoever waits for the worker that holds it waits for a row
  that this worker has written before, whose heartbeats come earlier still.
  `SomebodyCanGoOn` turns this into progress: if no worker can go on, each waits
  for a row, and the smallest set of workers that is closed under "who holds the
  row I wait for" is a circle.
* **`SessionReadsProofs`**: the workers' invariant with `DownToCursor` (nothing on
  the pages so far is below the cursor) and `AccountedFor` (a session of
  `throughout` is on one of them or below it). The latter rests on `SessionGrowsStep` of `SessionizerProofs`: a start that
  moves is moved down, and so never from the part still to be read to the part
  already read. For the ranking, its rows together are never more than what the
  sessions of the first query amount to by now (`RankedWithin`), as a session has at
  least the duration it had then (`DurationGrowsStep`). Two adjoining windows split
  the sessions of the whole one between them (`MidnightSeparates`). `PagesAdvance`
  is why paging ends: each page that is not the last has an item to go on from and
  moves the cursor on, which cannot go on for ever (`PositionsRunOut`).
* **`TrackerProofs`**: for the sums, that the current state's last event is not
  in the future, that `tally.until` is where it was recorded, how long ago the
  last input of an active state may be (`ActiveWasActive`), and that the
  STATE_START still to persist will restore the balance (`PendingBalanced`). For
  the shape of the log, that identifiers grow along it, that it ends in the
  current state, and that fresh identifiers are unused. For its order, that
  nothing is stamped later than now (`TimesPast`). `RowsAreAsAssumed` then looks at
  the log as the API does: any part of it, as rows of one device (`RowsOf`), has
  one end for each state, and as long as the clock was not set back its states run
  forward, one after another, and apart if ids follow the log where timestamps are
  equal. So `OneEndAssumption` and the premises of `NoWaitCycle` and
  `NeverOverReports` hold of what agents send. `DevicesApart` puts the rows of
  several devices together.
* **`SyncWorkerProofs`**: a batch in the hands of a worker or a request is logged
  (`BatchesLogged`), stored before it is marked (`MarkedIsStored`) and *complete*
  (`BatchesComplete`): whatever precedes it is delivered or in it. It holds
  because the oldest pending events are taken and `synced` only grows.
  `NoLostWakeUp` is inductive together with the type invariant.
  `StoppedWorkersWindDown` adds that only the worker of a run that has begun is told
  to stop (`RunsBegun`), and counts the steps it has left (`Left`).
* **`IdleClockProofs`**: the words are the uptime and the last input modulo
  `Modulus`.
* **`EnrollmentProofs`**: who is past the lookup owns the device (`PastOwns`), and
  a key that is being sent, in a socket, read or stored is issued. For
  `OneTabOneKey`: a user has one confirmation in progress, and nothing is active
  while it stands between revoking and issuing. `LiveIsRegistered` is inductive with
  the types. For `AgentsCutOffForCause`, of every revoked key that the agent has
  *or may still read*, the key of the confirmation that revoked it has not arrived
  (`Cause`): the stored key alone would not do, as one in an inbox may be stored
  next. It holds because a key that is about to be sent is not revoked
  (`SentAreActive`), so that keys are sent, and read, in the order in which they
  revoke each other, and because nothing is sent to an attempt before its handshake
  is accepted (`NothingBeforeAccept`), so that a new attempt finds no old key.
* **`AgentLifecycleProofs`**: a run is past the lock exactly if it holds it
  (`LockIsHeld`); runs beyond `started` are new. For `RestartsSucceed` and
  `MenuIsTrue`, what the controller knows of the last run at each of its
  statements (`Handled`). `AgentRunsAsSpecified` carries these to the process with
  its connections. For `IdentityKept`, one at most is creating the file, and
  nobody is while it is there (`OneCreator`), unless `raced`.
* **`AuthTokensProofs`**: a pair on its way to the browser is fresh: not revoked,
  and in no request (`Numbers`), so that a cookie that arrives can be used.
  `Recorded` says that what is on its way is in `uses`, `SingleFlight` that the
  page of a tab waits for the refresh of its `promise` and no other, `OneRefresh`
  that a call starts one refresh at most. With them `CookieIsUsable` is
  inductive, and gives `RevokedByOthers`: a token that is revoked before its
  refresh is decided was used by somebody else. `RefusedForCause` follows.
  For `CallsGoOn`, a promise that is set is that of a refresh of the same tab whose
  page is there (`PromisesHeld`), and nobody waits without one
  (`WaitersPromised`). `Place` orders what a call goes through, so that its one
  retry comes after its first try.

Only model-checked: the liveness properties, as ENABLED and fairness are out of
the prover's reach. Of six of them, the part that is not about fairness is proved
for every value of the constants:

| Liveness | What is proved of it |
|---|---|
| `EveryHeartbeatProcessed`, the liveness in `ImplementsSessionLog` | `SomebodyCanGoOn`: the workers are never stuck but in a circle that PostgreSQL breaks |
| `PagingEnds` | `PagesAdvance`: every page moves the cursor on, in an order in which that cannot go on for ever |
| `CallsEnd` | `CallsGoOn`: who waits is waiting for something that goes on, and nothing goes back |
| `StoppedWorkerEnds` | `StoppedWorkersWindDown`: a stopped worker only comes nearer to its end, and its wake-up is there or on its way |
| `HangsUnconfirmed` | `LiveSocketsRegistered`: a socket on a connection that is up is registered, or another was registered over it |
| `EverythingDelivered`, `StoppedRunEnds` | only the invariants of their modules |

## Not modelled

* Of the reads: one session by its id, cursors and time zones that do not parse,
  days of a time zone that are not equally long.
* The identity's metadata; the two steps in which `connect_account` looks at
  `_connecting` and sets it (`tray.py:151`). Registration: one insert with a unique
  e-mail address. Several browsers of one user: they share nothing but the account.
* Expiry of enrollment tokens and API keys, several API processes (the socket
  registry is a variable of one), payload validation.
* Health probe, configuration, logging, error bodies, migrations, deployment,
  forms and routing: pure I/O, data or layout. Unique constraints that the
  migrations create are assumed where a model relies on them.
* Durations of waits (backoff, poll interval): any time may pass.

## Plan

In the order of their weight; done: 1 to 8.

1. `SessionDerivation`, `SessionLog`, `Sessionizer` and their proofs: the heart
   of the system, and its only concurrent database code.
2. `Tracker`, `IdleClock` and their proofs: everything else rests on the events.
3. `Delivery`, `SyncWorker` and their proofs.
4. `Enrollment` and its proofs.
5. `AgentLifecycle` and its proofs.
6. `AuthTokens` and its proofs.
7. `SessionReads`: pages and statistics over sessions whose start moves.
8. `AgentIdentity`: the first start, with runs and connections at once.
9. `Pipeline`: composition of tracker, delivery and derivation through their
   abstract specifications: sessions are those of the states the tracker saw.
   What `Sessionizer` assumes about heartbeats is shown of the agent's log by
   `RowsAreAsAssumed`; what is left is the composition of the behaviours.
10. Uploads against key rotation: a revoked key, refused batches, reconnecting;
    a bound on how long the stored sync setting and the worker disagree.
