--------------------------- MODULE TrackerProofs ---------------------------
(***************************************************************************)
(* Proofs about Tracker, for any applications, intervals, clock and number *)
(* of restarts.                                                            *)
(***************************************************************************)
EXTENDS Tracker, HeartbeatRows, TLAPS

-----------------------------------------------------------------------------
(* Types *)

LEMMA BuildEventTyped ==
    ASSUME TypeOK, NEW type \in {"STATE_START", "HEARTBEAT", "STATE_END"},
           NEW id \in Nat, NEW app \in App \cup {Idle}, NEW duration \in Nat
    PROVE  BuildEvent(type, id, app, duration) \in Event
BY DEF BuildEvent, Event, TypeOK

LEMMA TalliedTyped ==
    ASSUME TypeOK, NEW event \in Event, NEW since \in Int, NEW starts \in Nat
    PROVE  Tallied(event, since, starts) \in TallyRecord
<1>1. now \in Nat /\ tally.active \in Nat /\ tally.idle \in Nat
  BY DEF TypeOK, TallyRecord
<1>2. event.duration \in Nat
  BY DEF Event
<1> QED
  BY <1>1, <1>2 DEF Tallied, TallyRecord

LEMMA NoTallyTyped == NoTally \in TallyRecord
BY DEF NoTally, TallyRecord

\* Whether the idle time can be read does not change during a run.
LEMMA KnownTyped == IdleKnown \in BOOLEAN
BY DEF IdleKnown

LEMMA KnownStays ==
    ASSUME run' = run
    PROVE  IdleKnown' = IdleKnown
BY DEF IdleKnown

\* What a poll sees: an application or the idle state, and how long ago the
\* last input was.
LEMMA Observed ==
    ASSUME TypeOK, NEW app \in App \cup {NoApp}, NEW known \in BOOLEAN
    PROVE  /\ IdleSeconds \in Nat
           /\ ActiveApp(app, known) \in App \cup {Idle, NoApp}
           /\ IsIdle(known) \in BOOLEAN
BY ApplicationAssumption DEF IdleSeconds, ActiveApp, IsIdle, TypeOK

\* The last event of the current state lies in the past.
LastEventPast == state # NoState => state.last_event_at <= now

TypeInv == TypeOK /\ LastEventPast

LEMMA ElapsedTyped ==
    ASSUME TypeInv, state # NoState, NEW known \in BOOLEAN
    PROVE  Elapsed \in Nat /\ EndDuration(known) \in Nat
<1>1. state \in StateRecord /\ now \in Nat /\ state.last_event_at <= now
  BY DEF TypeInv, TypeOK, LastEventPast
<1>2. Elapsed \in Nat
  BY <1>1 DEF Elapsed, StateRecord
<1>3. IdleSeconds \in Nat
  BY DEF TypeInv, TypeOK, IdleSeconds
<1> QED
  BY <1>2, <1>3 DEF EndDuration

LEMMA TypeStep == TypeInv /\ [Next]_vars => TypeInv'
<1> SUFFICES ASSUME TypeInv, [Next]_vars PROVE TypeInv'
  OBVIOUS
<1>0. TypeOK /\ LastEventPast
  BY DEF TypeInv
<1>1. CASE Tick
  <2>1. /\ now' \in Nat /\ now <= now' /\ input' \in 0..now'
        /\ loop' \in {"poll", "sleep"}
        /\ UNCHANGED <<setback, state, pending, fresh, log, run, tally>>
    BY <1>0, <1>1 DEF Tick, TypeOK
  <2>2. LastEventPast'
    BY <1>0, <2>1 DEF LastEventPast, TypeOK, StateRecord
  <2> QED
    BY <1>0, <2>1, <2>2 DEF TypeInv, TypeOK
<1>2. CASE SetClockBack
  BY <1>0, <1>2 DEF SetClockBack, TypeInv, TypeOK, LastEventPast
<1>3. CASE UserInput
  BY <1>0, <1>3 DEF UserInput, TypeInv, TypeOK, LastEventPast
<1>4. ASSUME NEW app \in App \cup {NoApp}, NEW known \in {TRUE, IdleKnown},
             StartFirst(app, known)
      PROVE  TypeInv'
  <2> DEFINE target == ActiveApp(app, known)
             event == BuildEvent("STATE_START", fresh, target,
                                 IF IsIdle(known) THEN IdleSeconds ELSE 0)
  <2>1. target \in App \cup {Idle} /\ IdleSeconds \in Nat
    BY <1>0, <1>4, KnownTyped, Observed DEF StartFirst
  <2>2. event \in Event
    BY <1>0, <2>1, BuildEventTyped DEF TypeOK
  <2>3. now - event.duration \in Int
    BY <1>0, <2>2 DEF Event, TypeOK
  <2>4. tally' = Tallied(event, now - event.duration, 0)
    BY <1>4 DEF StartFirst
  <2>6. tally' \in TallyRecord
    BY <1>0, <2>2, <2>3, <2>4, TalliedTyped
  <2>7. log' \in Seq(Event)
    BY <1>0, <1>4, <2>2 DEF StartFirst, TypeOK
  <2>8. /\ state' \in StateRecord /\ state'.last_event_at = now
        /\ fresh' \in Nat /\ loop' \in {"poll", "sleep"}
        /\ UNCHANGED <<now, setback, input, run, pending>>
    BY <1>0, <1>4, <2>1 DEF StartFirst, Polls, TypeOK, StateRecord
  <2> QED
    BY <1>0, <2>6, <2>7, <2>8 DEF TypeInv, TypeOK, LastEventPast
<1>5. ASSUME NEW app \in App \cup {NoApp}, NEW known \in {TRUE, IdleKnown},
             EndState(app, known)
      PROVE  TypeInv'
  <2> DEFINE target == ActiveApp(app, known)
             event == BuildEvent("STATE_END", state.id, state.app,
                                 EndDuration(known))
             start == BuildEvent("STATE_START", fresh, target,
                                 IF IsIdle(known) THEN IdleSeconds ELSE 0)
  <2>1. target \in App \cup {Idle} /\ IdleSeconds \in Nat
    BY <1>0, <1>5, KnownTyped, Observed DEF EndState
  <2>2. start \in Event
    BY <1>0, <2>1, BuildEventTyped DEF TypeOK
  <2>3. state \in StateRecord /\ EndDuration(known) \in Nat
    BY <1>0, <1>5, KnownTyped, ElapsedTyped DEF EndState, TypeOK
  <2>4. event \in Event
    BY <1>0, <2>3, BuildEventTyped DEF StateRecord
  <2>5. Tallied(event, tally.since, tally.idle_starts) \in TallyRecord
    BY <1>0, <2>4, TalliedTyped DEF TypeOK, TallyRecord
  <2>6. /\ log' \in Seq(Event) /\ fresh' \in Nat /\ loop' \in {"poll", "sleep"}
        /\ tally' = Tallied(event, tally.since, tally.idle_starts) /\ pending' = start
        /\ UNCHANGED <<now, setback, input, run, state>>
    BY <1>0, <1>5, <2>4 DEF EndState, Polls, TypeOK
  <2> QED
    BY <1>0, <2>2, <2>5, <2>6 DEF TypeInv, TypeOK, LastEventPast
<1>6. ASSUME NEW app \in App \cup {NoApp}, NEW known \in {TRUE, IdleKnown},
             Heartbeat(app, known)
      PROVE  TypeInv'
  <2> DEFINE event == BuildEvent("HEARTBEAT", state.id, state.app, Elapsed)
  <2>1. state \in StateRecord /\ Elapsed \in Nat
    BY <1>0, <1>6, ElapsedTyped DEF Heartbeat, TypeOK, TypeInv
  <2>2. event \in Event
    BY <1>0, <2>1, BuildEventTyped DEF StateRecord
  <2>3. Tallied(event, tally.since, tally.idle_starts) \in TallyRecord
    BY <1>0, <2>2, TalliedTyped DEF TypeOK, TallyRecord
  <2>4. /\ log' \in Seq(Event) /\ loop' \in {"poll", "sleep"}
        /\ tally' = Tallied(event, tally.since, tally.idle_starts)
        /\ state' = [state EXCEPT !.last_event_at = now]
        /\ UNCHANGED <<now, setback, input, run, pending, fresh>>
    BY <1>0, <1>6, <2>2 DEF Heartbeat, Polls, TypeOK
  <2>5. state' \in StateRecord /\ state'.last_event_at = now
    BY <1>0, <2>1, <2>4 DEF StateRecord, TypeOK
  <2> QED
    BY <1>0, <2>3, <2>4, <2>5 DEF TypeInv, TypeOK, LastEventPast
<1>7. ASSUME NEW app \in App \cup {NoApp}, NEW known \in {TRUE, IdleKnown},
             RecordNothing(app, known)
      PROVE  TypeInv'
  BY <1>0, <1>7 DEF RecordNothing, Polls, TypeInv, TypeOK, LastEventPast
<1>8. CASE StartNext
  <2>1. pending \in Event /\ pending.duration \in Nat
    BY <1>0, <1>8 DEF StartNext, TypeOK, Event
  <2>2. /\ Earlier(tally.since, now - pending.duration) \in Int
        /\ tally.idle_starts + (IF pending.app = Idle THEN 1 ELSE 0) \in Nat
    BY <1>0, <2>1 DEF Earlier, TypeOK, TallyRecord
  <2>3. tally' = Tallied(pending,
                         Earlier(tally.since, now - pending.duration),
                         tally.idle_starts + IF pending.app = Idle THEN 1 ELSE 0)
    BY <1>8 DEF StartNext
  <2>4. tally' \in TallyRecord
    BY <1>0, <2>1, <2>2, <2>3, TalliedTyped
  <2>5. /\ log' \in Seq(Event)
        /\ state' \in StateRecord /\ state'.last_event_at = now
        /\ pending' = NoEvent
        /\ UNCHANGED <<now, setback, loop, input, fresh, run>>
    BY <1>0, <1>8, <2>1 DEF StartNext, TypeOK, StateRecord, Event
  <2> QED
    BY <1>0, <2>4, <2>5 DEF TypeInv, TypeOK, LastEventPast
<1>9. CASE Restart
  <2>1. /\ run' \in Nat /\ loop' \in {"poll", "sleep"} /\ tally' \in TallyRecord
        /\ state' = NoState /\ pending' = NoEvent
        /\ UNCHANGED <<now, setback, input, fresh, log>>
    BY <1>0, <1>9, NoTallyTyped DEF Restart, TypeOK
  <2> QED
    BY <1>0, <2>1 DEF TypeInv, TypeOK, LastEventPast
<1>10. CASE UNCHANGED vars
  BY <1>0, <1>10 DEF vars, TypeInv, TypeOK, LastEventPast
<1> QED
  BY <1>1, <1>2, <1>3, <1>4, <1>5, <1>6, <1>7, <1>8, <1>9, <1>10
  DEF Next, Observe

LEMMA TypeInductive == Spec => []TypeInv
<1>1. ASSUME Init PROVE TypeInv
  <2>1. /\ now \in Nat /\ setback \in Nat /\ fresh \in Nat /\ run \in Nat
        /\ input \in 0..now /\ loop \in {"poll", "sleep"}
        /\ log \in Seq(Event) /\ tally \in TallyRecord
    BY <1>1, NoTallyTyped DEF Init
  <2> QED
    BY <1>1, <2>1 DEF Init, TypeInv, TypeOK, LastEventPast
<1> QED
  BY <1>1, TypeStep, PTL DEF Spec

\* The type invariant.
THEOREM TrackerTypeCorrect == Spec => []TypeOK
<1>1. TypeInv => TypeOK
  BY DEF TypeInv
<1> QED
  BY <1>1, TypeInductive, PTL

-----------------------------------------------------------------------------
(* What the durations add up to *)

LEMMA AllowanceFacts ==
    ASSUME NEW n \in Nat
    PROVE  /\ Allowance(n) \in Nat
           /\ Allowance(n + 1) = Allowance(n) + IdleThreshold
BY IntervalAssumption DEF Allowance

\* Between two polls the tally ends with the last event of the current state.
TallyCurrent ==
    /\ state = NoState => tally = NoTally /\ pending = NoEvent
    /\ state # NoState /\ pending = NoEvent => tally.until = state.last_event_at

\* An active state was last seen with the user's input less than the idle
\* threshold ago.
ActiveWasActive ==
    IdleKnown /\ state # NoState /\ state.app # Idle
        => state.last_event_at < input + IdleThreshold

Overcount ==
    IdleKnown => tally.active + tally.idle
                    <= tally.until - tally.since + Allowance(tally.idle_starts)

\* The STATE_START still to persist will keep the balance.
PendingBalanced ==
    pending # NoEvent =>
        /\ tally.until = now
        /\ pending.app # Idle =>
              /\ pending.duration = 0
              /\ tally.until - tally.since <= tally.active + tally.idle
              /\ IdleKnown => now < input + IdleThreshold
        /\ pending.app = Idle =>
              /\ now - Earlier(tally.since, now - pending.duration)
                    <= tally.active + tally.idle + pending.duration
              /\ IdleKnown =>
                    tally.active + tally.idle + pending.duration
                       <= now - tally.since + Allowance(tally.idle_starts + 1)

TallyInv ==
    /\ TallyCurrent
    /\ ActiveWasActive
    /\ ActiveNotOvercounted
    /\ Overcount
    /\ TimeAccountedFor
    /\ PendingBalanced

\* The fields of a tally that has grown by an event.
LEMMA TalliedFields ==
    ASSUME NEW event, NEW since, NEW starts
    PROVE  /\ Tallied(event, since, starts).since = since
           /\ Tallied(event, since, starts).until = now
           /\ Tallied(event, since, starts).idle_starts = starts
           /\ event.app = Idle =>
                 /\ Tallied(event, since, starts).active = tally.active + 0
                 /\ Tallied(event, since, starts).idle = tally.idle + event.duration
           /\ event.app # Idle =>
                 /\ Tallied(event, since, starts).active = tally.active + event.duration
                 /\ Tallied(event, since, starts).idle = tally.idle + 0
BY DEF Tallied

LEMMA TallyTyped ==
    ASSUME TypeOK
    PROVE  /\ now \in Nat /\ input \in Nat /\ input <= now
           /\ tally.since \in Int /\ tally.until \in Nat
           /\ tally.active \in Nat /\ tally.idle \in Nat
           /\ tally.idle_starts \in Nat
           /\ state # NoState => state.last_event_at \in Nat
           /\ pending # NoEvent => pending.duration \in Nat
BY DEF TypeOK, TallyRecord, StateRecord, Event

\* What an observation that is not idle says about the last input.
LEMMA ActiveMeansInput ==
    ASSUME TypeOK, NEW app, NEW known \in {TRUE, IdleKnown},
           IdleKnown, ActiveApp(app, known) # Idle
    PROVE  now < input + IdleThreshold
<1>1. known
  BY Zenon
<1>2. ~(IdleSeconds >= IdleThreshold)
  BY <1>1, Zenon DEF ActiveApp, IsIdle
<1>3. now \in Nat /\ input \in Nat
  BY TallyTyped
<1> QED
  BY <1>2, <1>3, IntervalAssumption DEF IdleSeconds

LEMMA InitTally == Init => TallyInv
<1> SUFFICES ASSUME Init PROVE TallyInv
  OBVIOUS
<1>1. tally = NoTally /\ state = NoState /\ pending = NoEvent
  BY DEF Init
<1>2. Allowance(0) \in Nat
  BY AllowanceFacts
<1> QED
  BY <1>1, <1>2 DEF TallyInv, TallyCurrent, ActiveWasActive,
     ActiveNotOvercounted, Overcount, TimeAccountedFor, PendingBalanced, NoTally

LEMMA StartFirstTally ==
    ASSUME TypeInv, TallyInv, NEW app \in App \cup {NoApp},
           NEW known \in {TRUE, IdleKnown}, StartFirst(app, known)
    PROVE  TallyInv'
<1>0. IdleKnown' = IdleKnown
  BY KnownStays DEF StartFirst, Polls
<1> DEFINE target == ActiveApp(app, known)
           duration == IF IsIdle(known) THEN IdleSeconds ELSE 0
           event == BuildEvent("STATE_START", fresh, target, duration)
<1>1. /\ state = NoState /\ tally = NoTally /\ pending = NoEvent
      /\ tally' = Tallied(event, now - event.duration, 0)
      /\ state' = [app |-> target, id |-> fresh, last_event_at |-> now]
      /\ UNCHANGED <<now, input, pending>>
  BY DEF StartFirst, Polls, TallyInv, TallyCurrent
<1>2. event.app = target /\ event.duration = duration
  BY DEF BuildEvent
<1>3. now \in Nat /\ input \in Nat /\ IdleSeconds \in Nat /\ duration \in Nat
  BY TallyTyped DEF TypeInv, IdleSeconds
<1>4. target # Idle => duration = 0
  BY DEF ActiveApp
<1>5. IdleKnown /\ target # Idle => now < input + IdleThreshold
  BY ActiveMeansInput DEF TypeInv
<1>6. /\ tally'.since = now - duration /\ tally'.until = now
      /\ tally'.idle_starts = 0
      /\ target = Idle => tally'.active = 0 /\ tally'.idle = duration
      /\ target # Idle => tally'.active = duration /\ tally'.idle = 0
  BY <1>1, <1>2, <1>3, TalliedFields DEF NoTally
<1>7. Allowance(0) \in Nat
  BY AllowanceFacts
<1>8. target \in App \cup {Idle}
  BY KnownTyped, Observed DEF StartFirst, TypeInv
<1>9. state' # NoState
  BY <1>1, <1>8, NothingAssumption DEF StateRecord, TypeInv, TypeOK
<1> HIDE DEF target, duration, event
<1>10. TallyCurrent' /\ ActiveWasActive'
  BY <1>0, <1>1, <1>5, <1>6, <1>9 DEF TallyCurrent, ActiveWasActive
<1>11. ActiveNotOvercounted' /\ TimeAccountedFor' /\ Overcount'
  BY <1>0, <1>3, <1>4, <1>6, <1>7
  DEF ActiveNotOvercounted, TimeAccountedFor, Overcount, Allowance
<1> QED
  BY <1>1, <1>10, <1>11 DEF TallyInv, PendingBalanced

LEMMA PendingTyped ==
    ASSUME TypeInv, NEW app \in App \cup {NoApp},
           NEW known \in {TRUE, IdleKnown}, EndState(app, known)
    PROVE  pending' \in Event /\ pending' # NoEvent
<1> DEFINE target == ActiveApp(app, known)
           begun == IF IsIdle(known) THEN IdleSeconds ELSE 0
<1>1. pending' = BuildEvent("STATE_START", fresh, target, begun)
  BY DEF EndState
<1>2. target \in App \cup {Idle}
  BY KnownTyped, Observed DEF EndState, TypeInv
<1>3. begun \in Nat /\ fresh \in Nat
  BY KnownTyped, Observed DEF TypeInv, TypeOK
<1>4. BuildEvent("STATE_START", fresh, target, begun) \in Event
  <2> HIDE DEF target, begun
  <2> QED
    BY <1>2, <1>3, BuildEventTyped DEF TypeInv
<1> QED
  BY <1>1, <1>4, NothingAssumption

LEMMA EndStateTally ==
    ASSUME TypeInv, TallyInv, NEW app \in App \cup {NoApp},
           NEW known \in {TRUE, IdleKnown}, EndState(app, known)
    PROVE  TallyInv'
<1>0. IdleKnown' = IdleKnown
  BY KnownStays DEF EndState, Polls
<1> DEFINE target == ActiveApp(app, known)
           ended == EndDuration(known)
           begun == IF IsIdle(known) THEN IdleSeconds ELSE 0
           event == BuildEvent("STATE_END", state.id, state.app, ended)
           since == tally.since
           last == state.last_event_at
           starts == tally.idle_starts
<1>1. /\ state # NoState /\ target \notin {NoApp, state.app}
      /\ pending = NoEvent
      /\ tally' = Tallied(event, since, starts)
      /\ pending' = BuildEvent("STATE_START", fresh, target, begun)
      /\ UNCHANGED <<now, input, state>>
  BY DEF EndState, Polls
<1>2. /\ event.app = state.app /\ event.duration = ended
      /\ pending'.app = target /\ pending'.duration = begun
  BY <1>1 DEF BuildEvent
<1>3. /\ now \in Nat /\ input \in Nat /\ last \in Nat /\ last <= now
      /\ since \in Int /\ tally.active \in Nat /\ tally.idle \in Nat
      /\ starts \in Nat /\ tally.until = last
      /\ Allowance(starts) \in Nat
      /\ Allowance(starts + 1) = Allowance(starts) + IdleThreshold
  BY <1>1, TallyTyped, AllowanceFacts
  DEF TypeInv, LastEventPast, TallyInv, TallyCurrent
<1>4. pending' # NoEvent
  BY PendingTyped
<1>5. CASE target # Idle
  <2>1. ~IsIdle(known)
    BY <1>5 DEF ActiveApp
  <2>2. ended = now - last /\ begun = 0
    BY <2>1 DEF EndDuration, Elapsed
  <2>3. IdleKnown => now < input + IdleThreshold
    BY <1>5, ActiveMeansInput DEF TypeInv
  <2>4. /\ tally'.since = since /\ tally'.until = now
        /\ tally'.idle_starts = starts
        /\ \/ /\ tally'.active = tally.active + (now - last)
              /\ tally'.idle = tally.idle + 0
           \/ /\ tally'.active = tally.active + 0
              /\ tally'.idle = tally.idle + (now - last)
    BY <1>1, <1>2, <2>2, TalliedFields
  <2> HIDE DEF target, ended, begun, event
  <2>5. ActiveNotOvercounted' /\ Overcount' /\ TimeAccountedFor'
    BY <1>0, <1>1, <1>3, <2>4
    DEF TallyInv, ActiveNotOvercounted, Overcount, TimeAccountedFor
  <2>6. PendingBalanced'
    BY <1>0, <1>1, <1>2, <1>3, <1>5, <2>2, <2>3, <2>4
    DEF TallyInv, TimeAccountedFor, PendingBalanced
  <2>7. ActiveWasActive'
    BY <1>0, <1>1 DEF TallyInv, ActiveWasActive
  <2>8. TallyCurrent'
    BY <1>1, <1>4 DEF TallyCurrent
  <2> QED
    BY <2>5, <2>6, <2>7, <2>8 DEF TallyInv
<1>6. CASE target = Idle
  <2>1. IsIdle(known) \/ app = Idle
    BY <1>6 DEF ActiveApp
  <2>2. IsIdle(known)
    BY <2>1, ApplicationAssumption
  <2>3. /\ begun = now - input /\ begun \in Nat
        /\ ended = IF now - last > now - input
                   THEN (now - last) - (now - input) ELSE 0
    BY <1>3, <2>2, TallyTyped DEF EndDuration, Elapsed, IdleSeconds, TypeInv
  <2>4. state.app # Idle
    BY <1>1, <1>6
  <2>5. /\ tally'.since = since /\ tally'.until = now
        /\ tally'.idle_starts = starts
        /\ tally'.active = tally.active + ended
        /\ tally'.idle = tally.idle + 0
    BY <1>1, <1>2, <2>4, TalliedFields
  <2>6. IdleKnown => last < input + IdleThreshold
    BY <1>1, <2>4 DEF TallyInv, ActiveWasActive
  <2> HIDE DEF target, ended, begun, event
  <2>7. ended \in Nat /\ ended <= now - last
    BY <1>3, <2>3
  <2>8. ActiveNotOvercounted' /\ Overcount'
    BY <1>0, <1>1, <1>3, <2>5, <2>7
    DEF TallyInv, ActiveNotOvercounted, Overcount
  <2>9. /\ now - last <= ended + begun
        /\ IdleKnown => ended + begun <= (now - last) + IdleThreshold
    BY <1>3, <2>3, <2>6, IntervalAssumption
  <2>10. PendingBalanced'
    <3>1. tally.until - since <= tally.active + tally.idle
      BY <1>1 DEF TallyInv, TimeAccountedFor
    <3>2. now - Earlier(since, now - begun)
             <= tally'.active + tally'.idle + begun
      BY <1>3, <2>3, <2>5, <2>7, <2>9, <3>1 DEF Earlier
    <3>3. ASSUME IdleKnown
          PROVE  tally'.active + tally'.idle + begun
                    <= now - since + Allowance(starts + 1)
      <4>1. tally.active + tally.idle <= last - since + Allowance(starts)
        BY <1>3, <3>3 DEF TallyInv, Overcount
      <4>2. ended + begun <= (now - last) + IdleThreshold
        BY <2>9, <3>3
      <4> QED
        BY <1>3, <2>3, <2>5, <2>7, <4>1, <4>2, IntervalAssumption
    <3> QED
      BY <1>0, <1>1, <1>2, <1>6, <2>5, <3>2, <3>3 DEF PendingBalanced
  <2>11. TallyCurrent' /\ ActiveWasActive' /\ TimeAccountedFor'
    BY <1>0, <1>1, <1>4 DEF TallyInv, TallyCurrent, ActiveWasActive, TimeAccountedFor
  <2> QED
    BY <2>8, <2>10, <2>11 DEF TallyInv
<1> QED
  BY <1>5, <1>6

LEMMA StartNextTally ==
    ASSUME TypeInv, TallyInv, StartNext
    PROVE  TallyInv'
<1>0. IdleKnown' = IdleKnown
  BY KnownStays DEF StartNext
<1> DEFINE d == pending.duration
           since == Earlier(tally.since, now - d)
           starts == tally.idle_starts + IF pending.app = Idle THEN 1 ELSE 0
<1>1. /\ pending # NoEvent /\ pending' = NoEvent
      /\ tally' = Tallied(pending, since, starts)
      /\ state' = [app |-> pending.app, id |-> pending.state, last_event_at |-> now]
      /\ UNCHANGED <<now, input>>
  BY DEF StartNext
<1>2. /\ now \in Nat /\ tally.since \in Int /\ d \in Nat
      /\ tally.active \in Nat /\ tally.idle \in Nat /\ tally.until = now
      /\ tally.idle_starts \in Nat
      /\ Allowance(tally.idle_starts) \in Nat
  BY <1>1, TallyTyped, AllowanceFacts DEF TypeInv, TallyInv, PendingBalanced
<1>3. state' # NoState
  BY <1>1, NothingAssumption DEF TypeInv, TypeOK, Event, StateRecord
<1>4. /\ since <= tally.since /\ since \in Int
      /\ tally'.since = since /\ tally'.until = now
      /\ tally'.idle_starts = starts
  BY <1>1, <1>2, TalliedFields DEF Earlier
<1>5. TallyCurrent' /\ PendingBalanced'
  BY <1>1, <1>3, <1>4 DEF TallyCurrent, PendingBalanced
<1>6. ActiveWasActive'
  BY <1>0, <1>1 DEF TallyInv, PendingBalanced, ActiveWasActive
<1>7. CASE pending.app # Idle
  <2>1. /\ d = 0 /\ tally.until - tally.since <= tally.active + tally.idle
    BY <1>1, <1>7 DEF TallyInv, PendingBalanced
  <2>2. /\ tally'.active = tally.active + 0 /\ tally'.idle = tally.idle + 0
        /\ starts = tally.idle_starts
    BY <1>1, <1>2, <1>7, <2>1, TalliedFields
  <2> HIDE DEF d, starts
  <2>3. now >= tally.since => since = tally.since
    BY <1>2, <2>1 DEF Earlier
  <2>4. now >= tally.since
    BY <1>2 DEF TallyInv, ActiveNotOvercounted
  <2> HIDE DEF since
  <2> QED
    BY <1>0, <1>2, <1>4, <1>5, <1>6, <2>1, <2>2, <2>3, <2>4
    DEF TallyInv, ActiveNotOvercounted, Overcount, TimeAccountedFor
<1>8. CASE pending.app = Idle
  <2>1. /\ now - since <= tally.active + tally.idle + d
        /\ IdleKnown =>
              tally.active + tally.idle + d
                 <= now - tally.since + Allowance(tally.idle_starts + 1)
    BY <1>1, <1>8 DEF TallyInv, PendingBalanced
  <2>2. /\ tally'.active = tally.active + 0 /\ tally'.idle = tally.idle + d
        /\ starts = tally.idle_starts + 1
    BY <1>1, <1>2, <1>8, TalliedFields
  <2>3. Allowance(starts) \in Nat
    BY <1>2, <2>2, AllowanceFacts
  <2> HIDE DEF d, since, starts
  <2>4. ActiveNotOvercounted' /\ TimeAccountedFor'
    BY <1>2, <1>4, <2>1, <2>2
    DEF TallyInv, ActiveNotOvercounted, TimeAccountedFor
  <2>5. Overcount'
    <3>1. tally'.active + tally'.idle = tally.active + tally.idle + d
      BY <1>2, <2>2
    <3>2. now - tally.since + Allowance(starts) <= now - since + Allowance(starts)
      BY <1>2, <1>4, <2>3
    <3>3. Allowance(tally'.idle_starts) = Allowance(starts)
      BY <1>4
    <3> QED
      BY <1>0, <1>2, <1>4, <2>1, <2>2, <2>3, <3>1, <3>2, <3>3 DEF Overcount
  <2> QED
    BY <1>5, <1>6, <2>4, <2>5 DEF TallyInv
<1> QED
  BY <1>7, <1>8

LEMMA HeartbeatTally ==
    ASSUME TypeInv, TallyInv, NEW app \in App \cup {NoApp},
           NEW known \in {TRUE, IdleKnown}, Heartbeat(app, known)
    PROVE  TallyInv'
<1>0. IdleKnown' = IdleKnown
  BY KnownStays DEF Heartbeat, Polls
<1> DEFINE event == BuildEvent("HEARTBEAT", state.id, state.app, Elapsed)
           since == tally.since
           last == state.last_event_at
           starts == tally.idle_starts
<1>1. /\ state # NoState /\ pending = NoEvent
      /\ ActiveApp(app, known) = state.app
      /\ tally' = Tallied(event, since, starts)
      /\ state' = [state EXCEPT !.last_event_at = now]
      /\ UNCHANGED <<now, input, pending>>
  BY DEF Heartbeat, Polls
<1>2. event.app = state.app /\ event.duration = now - last
  BY DEF BuildEvent, Elapsed
<1>3. /\ now \in Nat /\ last \in Nat /\ last <= now
      /\ since \in Int /\ tally.active \in Nat /\ tally.idle \in Nat
      /\ starts \in Nat /\ tally.until = last /\ Allowance(starts) \in Nat
  BY <1>1, TallyTyped, AllowanceFacts
  DEF TypeInv, LastEventPast, TallyInv, TallyCurrent
<1>4. /\ state' # NoState /\ state'.last_event_at = now
      /\ state'.app = state.app
  BY <1>1, NothingAssumption DEF TypeInv, TypeOK, StateRecord
<1>5. /\ tally'.since = since /\ tally'.until = now
      /\ tally'.idle_starts = starts
      /\ \/ /\ tally'.active = tally.active + (now - last)
            /\ tally'.idle = tally.idle + 0
         \/ /\ tally'.active = tally.active + 0
            /\ tally'.idle = tally.idle + (now - last)
  BY <1>1, <1>2, TalliedFields
<1> HIDE DEF event
<1>6. ActiveWasActive'
  <2>1. IdleKnown /\ state.app # Idle => now < input + IdleThreshold
    BY <1>1, ActiveMeansInput DEF TypeInv
  <2> QED
    BY <1>0, <1>1, <1>4, <2>1 DEF ActiveWasActive
<1>7. TallyCurrent' /\ PendingBalanced'
  BY <1>1, <1>4, <1>5 DEF TallyCurrent, PendingBalanced
<1>8. ActiveNotOvercounted' /\ Overcount' /\ TimeAccountedFor'
  BY <1>0, <1>1, <1>3, <1>5
  DEF TallyInv, ActiveNotOvercounted, Overcount, TimeAccountedFor
<1> QED
  BY <1>6, <1>7, <1>8 DEF TallyInv

LEMMA TallyStep == TypeInv /\ TallyInv /\ [Next]_vars => TallyInv'
<1> SUFFICES ASSUME TypeInv, TallyInv, [Next]_vars PROVE TallyInv'
  OBVIOUS
<1>1. ASSUME UNCHANGED <<state, pending, tally, run>>,
             \/ UNCHANGED <<now, input>>
             \/ Tick
             \/ UserInput
      PROVE  TallyInv'
  <2>0. IdleKnown' = IdleKnown
    BY <1>1, KnownStays
  <2>1. /\ now \in Nat /\ now <= now' /\ now' \in Nat
        /\ input \in Nat /\ input <= input' /\ input' \in Nat
        /\ pending # NoEvent => now' = now
    BY <1>1, TallyTyped DEF TypeInv, Tick, UserInput
  <2>2. ActiveWasActive'
    <3>1. state # NoState => state.last_event_at \in Nat
      BY TallyTyped DEF TypeInv
    <3> QED
      BY <1>1, <2>0, <2>1, <3>1, IntervalAssumption DEF TallyInv, ActiveWasActive
  <2>3. PendingBalanced'
    <3>1. CASE pending = NoEvent
      BY <1>1, <3>1 DEF PendingBalanced
    <3>2. CASE pending # NoEvent
      <4>1. now' = now /\ pending' = pending /\ tally' = tally
        BY <1>1, <2>1, <3>2
      <4>2. ASSUME now < input + IdleThreshold
            PROVE  now < input' + IdleThreshold
        <5>1. IdleThreshold \in Nat /\ now \in Nat
          BY <2>1, IntervalAssumption
        <5>2. input \in Nat /\ input' \in Nat /\ input <= input'
          BY <2>1
        <5>3. \A a, b, c, t \in Nat : a < b + t /\ b <= c => a < c + t
          OBVIOUS
        <5> QED
          BY <4>2, <5>1, <5>2, <5>3
      <4> QED
        BY <2>0, <3>2, <4>1, <4>2 DEF TallyInv, PendingBalanced
    <3> QED
      BY <3>1, <3>2
  <2> QED
    BY <1>1, <2>0, <2>2, <2>3 DEF TallyInv, TallyCurrent, ActiveNotOvercounted,
       Overcount, TimeAccountedFor
<1>2. CASE Tick \/ UserInput \/ SetClockBack \/ UNCHANGED vars
  BY <1>1, <1>2 DEF Tick, UserInput, SetClockBack, vars
<1>3. ASSUME NEW app \in App \cup {NoApp}, NEW known \in {TRUE, IdleKnown},
             RecordNothing(app, known)
      PROVE  TallyInv'
  BY <1>1, <1>3 DEF RecordNothing, Polls
<1>4. CASE Restart
  <2>1. tally' = NoTally /\ state' = NoState /\ pending' = NoEvent
    BY <1>4 DEF Restart
  <2>2. Allowance(0) \in Nat
    BY AllowanceFacts
  <2> QED
    BY <2>1, <2>2 DEF TallyInv, TallyCurrent, ActiveWasActive,
       ActiveNotOvercounted, Overcount, TimeAccountedFor, PendingBalanced,
       NoTally
<1>5. CASE StartNext
  BY <1>5, StartNextTally
<1>6. CASE Observe
  BY <1>3, <1>6, StartFirstTally, EndStateTally, HeartbeatTally DEF Observe
<1> QED
  BY <1>2, <1>4, <1>5, <1>6 DEF Next

LEMMA TallyInductive == Spec => []TallyInv
BY InitTally, TallyStep, TypeInductive, PTL DEF Spec

\* Active durations never exceed the time observed.
THEOREM ActiveTimeSound == Spec => []ActiveNotOvercounted
<1>1. TallyInv => ActiveNotOvercounted
  BY DEF TallyInv
<1> QED
  BY <1>1, TallyInductive, PTL

\* No observed time is missing from the durations.
THEOREM TimeComplete == Spec => []TimeAccountedFor
<1>1. TallyInv => TimeAccountedFor
  BY DEF TallyInv
<1> QED
  BY <1>1, TallyInductive, PTL

\* Where the idle time can be read, every change to idle counts at most one
\* idle threshold twice.
THEOREM DoubleCountBounded == Spec => []OvercountBounded
<1>1. TallyInv => OvercountBounded
  BY DEF TallyInv, Overcount, OvercountBounded
<1> QED
  BY <1>1, TallyInductive, PTL

-----------------------------------------------------------------------------
(* The shape of the log *)

\* state_ids appear in the order they were minted ...
StatesInOrder ==
    \A i, j \in 1..Len(log) : i <= j => log[i].state <= log[j].state

\* ... and two events of one state are of one application, the earlier no
\* STATE_END, the later no STATE_START.
StatesUnmixed ==
    \A i, j \in 1..Len(log) :
        i < j /\ log[i].state = log[j].state =>
            /\ log[i].app = log[j].app
            /\ log[i].type # "STATE_END"
            /\ log[j].type # "STATE_START"

LogOrderly == StatesInOrder /\ StatesUnmixed /\ EveryStateStarts

AllBelow(id) == \A i \in 1..Len(log) : log[i].state < id

\* The current state is the one the log ends in, and it is open.
LogEndsInState ==
    state # NoState /\ pending = NoEvent =>
        /\ Len(log) > 0
        /\ log[Len(log)].state = state.id
        /\ log[Len(log)].app = state.app
        /\ log[Len(log)].type # "STATE_END"

PendingIsNew ==
    pending # NoEvent =>
        /\ pending.type = "STATE_START"
        /\ pending.state < fresh
        /\ AllBelow(pending.state)

LogInv == LogOrderly /\ AllBelow(fresh) /\ LogEndsInState /\ PendingIsNew

LEMMA Appended ==
    ASSUME log \in Seq(Event), NEW event \in Event, log' = Append(log, event)
    PROVE  /\ Len(log') = Len(log) + 1 /\ Len(log) \in Nat
           /\ \A i \in 1..Len(log) : log'[i] = log[i] /\ log[i] \in Event
           /\ log'[Len(log) + 1] = event
           /\ \A i \in 1..Len(log') : i \in 1..Len(log) \/ i = Len(log) + 1
OBVIOUS

\* A new state may start, with an id of its own, after any log.
LEMMA AppendStart ==
    ASSUME log \in Seq(Event), LogOrderly, NEW event \in Event,
           log' = Append(log, event),
           event.type = "STATE_START", AllBelow(event.state)
    PROVE  LogOrderly'
<1>1. /\ Len(log') = Len(log) + 1 /\ Len(log) \in Nat
      /\ \A i \in 1..Len(log) : log'[i] = log[i] /\ log[i] \in Event
      /\ log'[Len(log) + 1] = event
      /\ \A i \in 1..Len(log') : i \in 1..Len(log) \/ i = Len(log) + 1
  BY Appended
<1>2. /\ event.state \in Nat /\ event.type # "STATE_END"
      /\ \A i \in 1..Len(log) : log[i].state \in Nat /\ log[i].state < event.state
  BY <1>1 DEF Event, AllBelow
<1>3. StatesInOrder'
  BY <1>1, <1>2 DEF LogOrderly, StatesInOrder
<1>4. StatesUnmixed'
  BY <1>1, <1>2 DEF LogOrderly, StatesUnmixed
<1>5. EveryStateStarts'
  <2> SUFFICES ASSUME NEW j \in 1..Len(log'), log'[j].type # "STATE_START"
               PROVE  \E i \in 1..(j - 1) : /\ log'[i].state = log'[j].state
                                            /\ log'[i].type = "STATE_START"
    BY DEF EveryStateStarts
  <2>1. j \in 1..Len(log)
    BY <1>1
  <2>2. PICK i \in 1..(j - 1) : /\ log[i].state = log[j].state
                                /\ log[i].type = "STATE_START"
    BY <1>1, <2>1 DEF LogOrderly, EveryStateStarts
  <2> QED
    BY <1>1, <2>1, <2>2
<1> QED
  BY <1>3, <1>4, <1>5 DEF LogOrderly

\* An open state may be continued at the end of the log.
LEMMA AppendMore ==
    ASSUME log \in Seq(Event), LogOrderly, NEW event \in Event,
           log' = Append(log, event),
           event.type # "STATE_START", Len(log) > 0,
           log[Len(log)].state = event.state, log[Len(log)].app = event.app,
           log[Len(log)].type # "STATE_END"
    PROVE  LogOrderly'
<1> DEFINE n == Len(log)
<1>1. /\ Len(log') = n + 1 /\ n \in Nat /\ n \in 1..n
      /\ \A i \in 1..n : log'[i] = log[i] /\ log[i] \in Event
      /\ log'[n + 1] = event
      /\ \A i \in 1..Len(log') : i \in 1..n \/ i = n + 1
  BY Appended
<1>2. /\ event.state \in Nat
      /\ \A i \in 1..n : log[i].state \in Nat /\ log[i].state <= event.state
  <2>1. event.state \in Nat /\ \A i \in 1..n : log[i].state \in Nat
    BY <1>1 DEF Event
  <2>2. \A i \in 1..n : i <= n
    BY <1>1
  <2>3. \A i \in 1..n : log[i].state <= log[n].state
    BY <1>1, <2>2 DEF LogOrderly, StatesInOrder
  <2> QED
    BY <2>1, <2>3
<1>3. StatesInOrder'
  BY <1>1, <1>2 DEF LogOrderly, StatesInOrder
<1>4. \A i \in 1..n : log[i].state = event.state =>
          log[i].app = event.app /\ log[i].type # "STATE_END"
  BY <1>1 DEF LogOrderly, StatesUnmixed
<1>5. StatesUnmixed'
  BY <1>1, <1>4 DEF LogOrderly, StatesUnmixed
<1>6. EveryStateStarts'
  <2> SUFFICES ASSUME NEW j \in 1..Len(log'), log'[j].type # "STATE_START"
               PROVE  \E i \in 1..(j - 1) : /\ log'[i].state = log'[j].state
                                            /\ log'[i].type = "STATE_START"
    BY DEF EveryStateStarts
  <2>1. CASE j \in 1..n
    <3>1. PICK i \in 1..(j - 1) : /\ log[i].state = log[j].state
                                  /\ log[i].type = "STATE_START"
      BY <1>1, <2>1 DEF LogOrderly, EveryStateStarts
    <3> QED
      BY <1>1, <2>1, <3>1
  <2>2. CASE j = n + 1
    <3>1. CASE log[n].type = "STATE_START"
      <4>1. n \in 1..(j - 1)
        BY <1>1, <2>2
      <4> QED
        BY <1>1, <2>2, <3>1, <4>1
    <3>2. CASE log[n].type # "STATE_START"
      <4>1. PICK i \in 1..(n - 1) : /\ log[i].state = log[n].state
                                    /\ log[i].type = "STATE_START"
        BY <1>1, <3>2 DEF LogOrderly, EveryStateStarts
      <4>2. i \in 1..(j - 1) /\ i \in 1..n
        BY <1>1, <2>2, <4>1
      <4> QED
        BY <1>1, <2>2, <4>1, <4>2
    <3> QED
      BY <3>1, <3>2
  <2> QED
    BY <1>1, <2>1, <2>2
<1> QED
  BY <1>3, <1>5, <1>6 DEF LogOrderly

LEMMA AllBelowAppended ==
    ASSUME log \in Seq(Event), NEW event \in Event, log' = Append(log, event),
           NEW id \in Nat, NEW bound \in Nat, AllBelow(id), id <= bound,
           event.state < bound
    PROVE  \A i \in 1..Len(log') : log'[i].state < bound
<1>1. /\ \A i \in 1..Len(log) : log'[i] = log[i] /\ log[i] \in Event
      /\ log'[Len(log) + 1] = event
      /\ \A i \in 1..Len(log') : i \in 1..Len(log) \/ i = Len(log) + 1
  BY Appended
<1>2. \A i \in 1..Len(log) : log[i].state \in Nat /\ log[i].state < id
  BY <1>1 DEF AllBelow, Event
<1> QED
  BY <1>1, <1>2

LEMMA StartFirstLog ==
    ASSUME TypeInv, LogInv, NEW app \in App \cup {NoApp},
           NEW known \in {TRUE, IdleKnown}, StartFirst(app, known)
    PROVE  LogInv'
<1> DEFINE target == ActiveApp(app, known)
           event == BuildEvent("STATE_START", fresh, target,
                               IF IsIdle(known) THEN IdleSeconds ELSE 0)
<1>1. /\ log' = Append(log, event)
      /\ state' = [app |-> target, id |-> fresh, last_event_at |-> now]
      /\ fresh' = fresh + 1 /\ pending' = NoEvent
      /\ log \in Seq(Event) /\ fresh \in Nat
  BY DEF StartFirst, Polls, TypeInv, TypeOK
<1>2. event.state = fresh /\ event.type = "STATE_START" /\ event.app = target
  BY DEF BuildEvent
<1>3. event \in Event
  <2>1. target \in App \cup {Idle} /\ IdleSeconds \in Nat
    BY KnownTyped, Observed DEF StartFirst, TypeInv
  <2> QED
    BY <1>1, <2>1, BuildEventTyped DEF TypeInv
<1> HIDE DEF event
<1>4. LogOrderly'
  BY <1>1, <1>2, <1>3, AppendStart DEF LogInv
<1>5. \A i \in 1..Len(log') : log'[i].state < fresh + 1
  <2>1. AllBelow(fresh) /\ event.state = fresh
    BY <1>2 DEF LogInv
  <2>2. fresh + 1 \in Nat /\ fresh <= fresh + 1 /\ fresh < fresh + 1
    BY <1>1
  <2> QED
    BY <1>1, <1>3, <2>1, <2>2, AllBelowAppended
<1>6. LogEndsInState'
  BY <1>1, <1>2, <1>3, Appended DEF LogEndsInState
<1> QED
  BY <1>1, <1>4, <1>5, <1>6 DEF LogInv, PendingIsNew, AllBelow

LEMMA EndStateLog ==
    ASSUME TypeInv, LogInv, NEW app \in App \cup {NoApp},
           NEW known \in {TRUE, IdleKnown}, EndState(app, known)
    PROVE  LogInv'
<1> DEFINE target == ActiveApp(app, known)
           event == BuildEvent("STATE_END", state.id, state.app,
                               EndDuration(known))
<1>1. /\ state # NoState /\ pending = NoEvent
      /\ log' = Append(log, event)
      /\ fresh' = fresh + 1
      /\ pending'.type = "STATE_START" /\ pending'.state = fresh
      /\ log \in Seq(Event) /\ fresh \in Nat
      /\ state' = state
  BY DEF EndState, Polls, TypeInv, TypeOK, BuildEvent
<1>2. event.state = state.id /\ event.type = "STATE_END" /\ event.app = state.app
  BY DEF BuildEvent
<1>3. event \in Event
  <2>1. state \in StateRecord /\ EndDuration(known) \in Nat
    BY <1>1, KnownTyped, ElapsedTyped DEF TypeInv, TypeOK
  <2> QED
    BY <2>1, BuildEventTyped DEF StateRecord, TypeInv
<1> HIDE DEF event
<1>4. /\ Len(log) > 0 /\ log[Len(log)].state = event.state
      /\ log[Len(log)].app = event.app /\ log[Len(log)].type # "STATE_END"
      /\ event.state < fresh
  <2>1. /\ Len(log) > 0 /\ log[Len(log)].state = state.id
        /\ log[Len(log)].app = state.app /\ log[Len(log)].type # "STATE_END"
    BY <1>1 DEF LogInv, LogEndsInState
  <2>2. Len(log) \in 1..Len(log)
    BY <1>1, <2>1
  <2> QED
    BY <1>2, <2>1, <2>2 DEF LogInv, AllBelow
<1>5. LogOrderly'
  BY <1>1, <1>2, <1>3, <1>4, AppendMore DEF LogInv
<1>6. \A i \in 1..Len(log') : log'[i].state < fresh
  BY <1>1, <1>3, <1>4, AllBelowAppended DEF LogInv
<1>7. pending' # NoEvent
  BY PendingTyped
<1>8. AllBelow(fresh)'
  <2>1. \A e \in Event : e.state \in Nat
    BY DEF Event
  <2>2. log' \in Seq(Event)
    BY <1>1, <1>3
  <2>3. \A i \in 1..Len(log') : log'[i].state \in Nat
    BY <2>1, <2>2
  <2>4. \A i \in 1..Len(log') : log'[i].state < fresh + 1
    BY <1>1, <1>6, <2>3
  <2> QED
    BY <1>1, <2>4 DEF AllBelow
<1>9. LogEndsInState'
  BY <1>7 DEF LogEndsInState
<1>10. PendingIsNew'
  BY <1>1, <1>6 DEF PendingIsNew, AllBelow
<1> QED
  BY <1>5, <1>8, <1>9, <1>10 DEF LogInv

LEMMA StartNextLog ==
    ASSUME TypeInv, LogInv, StartNext
    PROVE  LogInv'
<1>1. /\ pending # NoEvent /\ pending' = NoEvent
      /\ log' = Append(log, pending) /\ fresh' = fresh
      /\ state' = [app |-> pending.app, id |-> pending.state,
                   last_event_at |-> now]
      /\ log \in Seq(Event) /\ fresh \in Nat /\ pending \in Event
      /\ pending.type = "STATE_START" /\ pending.state < fresh
      /\ AllBelow(pending.state)
  BY DEF StartNext, TypeInv, TypeOK, LogInv, PendingIsNew
<1>2. LogOrderly'
  BY <1>1, AppendStart DEF LogInv
<1>3. \A i \in 1..Len(log') : log'[i].state < fresh
  BY <1>1, AllBelowAppended DEF LogInv
<1>4. LogEndsInState'
  BY <1>1, Appended DEF LogEndsInState
<1> QED
  BY <1>1, <1>2, <1>3, <1>4 DEF LogInv, PendingIsNew, AllBelow

LEMMA HeartbeatLog ==
    ASSUME TypeInv, LogInv, NEW app \in App \cup {NoApp},
           NEW known \in {TRUE, IdleKnown}, Heartbeat(app, known)
    PROVE  LogInv'
<1> DEFINE event == BuildEvent("HEARTBEAT", state.id, state.app, Elapsed)
<1>1. /\ state # NoState /\ pending = NoEvent /\ pending' = NoEvent
      /\ log' = Append(log, event) /\ fresh' = fresh
      /\ state' = [state EXCEPT !.last_event_at = now]
      /\ log \in Seq(Event) /\ fresh \in Nat /\ state \in StateRecord
  BY DEF Heartbeat, Polls, TypeInv, TypeOK
<1>2. /\ event.state = state.id /\ event.type = "HEARTBEAT"
      /\ event.app = state.app
      /\ state'.id = state.id /\ state'.app = state.app
  BY <1>1 DEF BuildEvent, StateRecord
<1>3. event \in Event
  <2>1. Elapsed \in Nat
    BY <1>1, ElapsedTyped
  <2> QED
    BY <1>1, <2>1, BuildEventTyped DEF StateRecord, TypeInv
<1> HIDE DEF event
<1>4. /\ Len(log) > 0 /\ log[Len(log)].state = event.state
      /\ log[Len(log)].app = event.app /\ log[Len(log)].type # "STATE_END"
      /\ event.state < fresh
  <2>1. /\ Len(log) > 0 /\ log[Len(log)].state = state.id
        /\ log[Len(log)].app = state.app /\ log[Len(log)].type # "STATE_END"
    BY <1>1 DEF LogInv, LogEndsInState
  <2>2. Len(log) \in 1..Len(log)
    BY <1>1, <2>1
  <2> QED
    BY <1>2, <2>1, <2>2 DEF LogInv, AllBelow
<1>5. LogOrderly'
  BY <1>1, <1>2, <1>3, <1>4, AppendMore DEF LogInv
<1>6. \A i \in 1..Len(log') : log'[i].state < fresh
  BY <1>1, <1>3, <1>4, AllBelowAppended DEF LogInv
<1>7. LogEndsInState'
  BY <1>1, <1>2, <1>3, Appended DEF LogEndsInState
<1> QED
  BY <1>1, <1>5, <1>6, <1>7 DEF LogInv, PendingIsNew, AllBelow

LEMMA LogStep == TypeInv /\ LogInv /\ [Next]_vars => LogInv'
<1> SUFFICES ASSUME TypeInv, LogInv, [Next]_vars PROVE LogInv'
  OBVIOUS
<1> USE DEF LogInv, LogOrderly, StatesInOrder, StatesUnmixed, EveryStateStarts,
            AllBelow, LogEndsInState, PendingIsNew
<1>1. CASE Tick \/ UserInput \/ SetClockBack \/ UNCHANGED vars
  BY <1>1 DEF Tick, UserInput, SetClockBack, vars
<1>2. ASSUME NEW app \in App \cup {NoApp}, NEW known \in {TRUE, IdleKnown},
             RecordNothing(app, known)
      PROVE  LogInv'
  BY <1>2 DEF RecordNothing, Polls
<1>3. CASE Restart
  BY <1>3 DEF Restart
<1> QED
  BY <1>1, <1>2, <1>3, StartNextLog, StartFirstLog, EndStateLog, HeartbeatLog
  DEF Next, Observe

LEMMA LogInductive == Spec => []LogInv
<1>1. Init => LogInv
  BY DEF Init, LogInv, LogOrderly, StatesInOrder, StatesUnmixed,
         EveryStateStarts, AllBelow, LogEndsInState, PendingIsNew
<1> QED
  BY <1>1, LogStep, TypeInductive, PTL DEF Spec

\* States begin with their STATE_START, are uninterrupted, of one application, and
\* closed by at most one STATE_END with nothing after it, across any number of
\* restarts.
THEOREM StatesWellFormed == Spec => []WellFormedStates
<1>1. TypeInv /\ LogInv => WellFormedStates
  <2> SUFFICES ASSUME TypeInv, LogInv, NEW i \in 1..Len(log),
                      NEW j \in 1..Len(log),
                      i < j, log[i].state = log[j].state
               PROVE  /\ log[i].app = log[j].app
                      /\ log[i].type # "STATE_END"
                      /\ log[j].type # "STATE_START"
                      /\ \A m \in i..j : log[m].state = log[i].state
    BY DEF WellFormedStates, LogInv, LogOrderly
  <2>1. /\ log[i].app = log[j].app
        /\ log[i].type # "STATE_END"
        /\ log[j].type # "STATE_START"
    BY DEF LogInv, LogOrderly, StatesUnmixed
  <2>2. ASSUME NEW m \in i..j PROVE log[m].state = log[i].state
    <3>1. m \in 1..Len(log) /\ i <= m /\ m <= j
      BY DEF TypeInv, TypeOK
    <3>2. log[i].state <= log[m].state /\ log[m].state <= log[j].state
      BY <3>1 DEF LogInv, LogOrderly, StatesInOrder
    <3>3. log[i] \in Event /\ log[m] \in Event
      BY <3>1 DEF TypeInv, TypeOK
    <3>4. log[i].state \in Nat /\ log[m].state \in Nat
      BY <3>3 DEF Event
    <3> QED
      BY <3>2, <3>4
  <2> QED
    BY <2>1, <2>2
<1> QED
  BY <1>1, TypeInductive, LogInductive, PTL

-----------------------------------------------------------------------------
(* The order of the log *)

\* Until the clock is set back nothing is stamped later than now.
TimesPast ==
    setback = 0 =>
        /\ \A i \in 1..Len(log) : log[i].timestamp <= now
        /\ pending # NoEvent => pending.timestamp = now

OrderInv == TimesPast /\ LogInTimestampOrder

LEMMA AppendInOrder ==
    ASSUME TypeInv, OrderInv, NEW event \in Event, log' = Append(log, event),
           now' = now, setback' = setback, setback = 0 => event.timestamp = now,
           setback = 0 => (pending' # NoEvent => pending'.timestamp = now)
    PROVE  OrderInv'
<1>1. /\ Len(log') = Len(log) + 1 /\ Len(log) \in Nat
      /\ \A i \in 1..Len(log) : log'[i] = log[i] /\ log[i] \in Event
      /\ log'[Len(log) + 1] = event
      /\ \A i \in 1..Len(log') : i \in 1..Len(log) \/ i = Len(log) + 1
  BY Appended DEF TypeInv, TypeOK
<1>2. now \in Nat
  BY DEF TypeInv, TypeOK
<1>3. ASSUME setback' = 0
      PROVE  /\ \A i \in 1..Len(log') : log'[i].timestamp <= now'
             /\ pending' # NoEvent => pending'.timestamp = now'
             /\ \A i, j \in 1..Len(log') :
                   i < j => log'[i].timestamp <= log'[j].timestamp
  <2>1. event.timestamp = now /\ \A i \in 1..Len(log) : log[i].timestamp <= now
    BY <1>3 DEF OrderInv, TimesPast
  <2>2. \A i, j \in 1..Len(log) : i < j => log[i].timestamp <= log[j].timestamp
    BY <1>3 DEF OrderInv, LogInTimestampOrder
  <2>3. \A i, j \in 1..Len(log') :
           i < j => i \in 1..Len(log) /\ (j \in 1..Len(log) \/ j = Len(log) + 1)
    BY <1>1
  <2> QED
    BY <1>1, <1>2, <1>3, <2>1, <2>2, <2>3
<1> QED
  BY <1>3 DEF OrderInv, TimesPast, LogInTimestampOrder

LEMMA BuiltNow ==
    ASSUME TypeOK, NEW type, NEW id, NEW app, NEW duration
    PROVE  setback = 0 => BuildEvent(type, id, app, duration).timestamp = now
BY DEF BuildEvent, TypeOK

LEMMA OrderStep == TypeInv /\ OrderInv /\ [Next]_vars => OrderInv'
<1> SUFFICES ASSUME TypeInv, OrderInv, [Next]_vars PROVE OrderInv'
  OBVIOUS
<1>0. TypeOK
  BY DEF TypeInv
<1>1. CASE Tick
  <2>1. /\ now \in Nat /\ now' = now + 1 /\ pending = NoEvent
        /\ UNCHANGED <<setback, pending, log>>
    BY <1>0, <1>1 DEF Tick, TypeOK
  <2>2. \A i \in 1..Len(log) : log[i].timestamp \in Int
    <3>1. \A i \in 1..Len(log) : log[i] \in Event
      BY <1>0 DEF TypeOK
    <3> QED
      BY <3>1 DEF Event
  <2> QED
    BY <2>1, <2>2 DEF OrderInv, TimesPast, LogInTimestampOrder
<1>2. CASE SetClockBack
  <2>1. setback' # 0
    BY <1>0, <1>2 DEF SetClockBack, TypeOK
  <2> QED
    BY <2>1 DEF OrderInv, TimesPast, LogInTimestampOrder
<1>3. ASSUME UNCHANGED <<now, setback, log>>,
             pending' = pending \/ pending' = NoEvent
      PROVE  OrderInv'
  BY <1>3 DEF OrderInv, TimesPast, LogInTimestampOrder
<1>4. CASE UserInput \/ Restart \/ UNCHANGED vars
  BY <1>3, <1>4 DEF UserInput, Restart, vars
<1>5. ASSUME NEW app \in App \cup {NoApp}, NEW known \in {TRUE, IdleKnown},
             StartFirst(app, known)
      PROVE  OrderInv'
  <2> DEFINE event == BuildEvent("STATE_START", fresh, ActiveApp(app, known),
                                 IF IsIdle(known) THEN IdleSeconds ELSE 0)
  <2>1. /\ log' = Append(log, event) /\ pending' = NoEvent
        /\ now' = now /\ setback' = setback
    BY <1>5 DEF StartFirst, Polls
  <2>2. ActiveApp(app, known) \in App \cup {Idle} /\ IdleSeconds \in Nat
    BY <1>0, <1>5, KnownTyped, Observed DEF StartFirst
  <2>3. event \in Event
    BY <1>0, <2>2, BuildEventTyped DEF TypeOK
  <2>4. setback = 0 => event.timestamp = now
    BY <1>0, BuiltNow
  <2> HIDE DEF event
  <2> QED
    BY <2>1, <2>3, <2>4, AppendInOrder
<1>6. ASSUME NEW app \in App \cup {NoApp}, NEW known \in {TRUE, IdleKnown},
             EndState(app, known)
      PROVE  OrderInv'
  <2> DEFINE event == BuildEvent("STATE_END", state.id, state.app,
                                 EndDuration(known))
  <2>1. /\ log' = Append(log, event)
        /\ now' = now /\ setback' = setback
    BY <1>6 DEF EndState, Polls
  <2>2. state \in StateRecord /\ EndDuration(known) \in Nat
    BY <1>0, <1>6, KnownTyped, ElapsedTyped DEF EndState, TypeOK
  <2>3. event \in Event
    BY <1>0, <2>2, BuildEventTyped DEF StateRecord
  <2>4. setback = 0 => event.timestamp = now
    BY <1>0, BuiltNow
  <2>5. setback = 0 => pending'.timestamp = now
    BY <1>0, <1>6, BuiltNow DEF EndState
  <2> HIDE DEF event
  <2> QED
    BY <2>1, <2>3, <2>4, <2>5, AppendInOrder
<1>7. ASSUME NEW app \in App \cup {NoApp}, NEW known \in {TRUE, IdleKnown},
             Heartbeat(app, known)
      PROVE  OrderInv'
  <2> DEFINE event == BuildEvent("HEARTBEAT", state.id, state.app, Elapsed)
  <2>1. /\ log' = Append(log, event) /\ pending' = NoEvent
        /\ now' = now /\ setback' = setback
    BY <1>7 DEF Heartbeat, Polls
  <2>2. state \in StateRecord /\ Elapsed \in Nat
    BY <1>0, <1>7, ElapsedTyped DEF Heartbeat, TypeOK
  <2>3. event \in Event
    BY <1>0, <2>2, BuildEventTyped DEF StateRecord
  <2>4. setback = 0 => event.timestamp = now
    BY <1>0, BuiltNow
  <2> HIDE DEF event
  <2> QED
    BY <2>1, <2>3, <2>4, AppendInOrder
<1>8. ASSUME NEW app \in App \cup {NoApp}, NEW known \in {TRUE, IdleKnown},
             RecordNothing(app, known)
      PROVE  OrderInv'
  BY <1>3, <1>8 DEF RecordNothing, Polls
<1>9. CASE StartNext
  <2>1. /\ log' = Append(log, pending) /\ pending \in Event /\ pending' = NoEvent
        /\ now' = now /\ setback' = setback
    BY <1>0, <1>9 DEF StartNext, TypeOK
  <2>2. setback = 0 => pending.timestamp = now
    BY <1>9 DEF StartNext, OrderInv, TimesPast
  <2> QED
    BY <2>1, <2>2, AppendInOrder
<1> QED
  BY <1>1, <1>2, <1>4, <1>5, <1>6, <1>7, <1>8, <1>9 DEF Next, Observe

LEMMA OrderInductive == Spec => []OrderInv
<1>1. Init => OrderInv
  BY DEF Init, OrderInv, TimesPast, LogInTimestampOrder
<1> QED
  BY <1>1, OrderStep, TypeInductive, PTL DEF Spec

\* The log is in timestamp order until the wall clock is set back.
THEOREM LogOrdered == Spec => []LogInTimestampOrder
<1>1. OrderInv => LogInTimestampOrder
  BY DEF OrderInv
<1> QED
  BY <1>1, OrderInductive, PTL

-----------------------------------------------------------------------------
(* What the API receives *)

\* The row that the i-th event of the log becomes.  The API stamps the device
\* and an id.
Row(device, id, i) ==
    [id |-> id[i], device |-> device, state |-> log[i].state,
     event_type |-> log[i].type, timestamp |-> log[i].timestamp]

RowsOf(device, id) == {Row(device, id, i) : i \in 1..Len(log)}

\* Of events with one timestamp the first gets the smallest id.
IdsFollowTheLog(id) ==
    \A i, j \in 1..Len(log) :
        i < j /\ log[i].timestamp = log[j].timestamp => id[i] < id[j]

\* Whichever events have arrived, a state has one STATE_END at most; while the
\* wall clock is not set back, a state ends with it and states do not overlap;
\* and they are apart in the order of claims if ids decide ties rightly.
AsAssumed(rows, id) ==
    /\ AtMostOneEnd(rows)
    /\ setback = 0 => RunForward(rows) /\ OneAfterAnother(rows)
    /\ setback = 0 /\ IdsFollowTheLog(id) => Apart(rows)

LEMMA LogFacts ==
    ASSUME TypeInv, LogInv, OrderInv,
           NEW i \in 1..Len(log), NEW j \in 1..Len(log)
    PROVE  /\ log[i].state \in Nat /\ log[i].timestamp \in Int
           /\ i < j /\ log[i].state = log[j].state => log[i].type # "STATE_END"
           /\ log[i].state < log[j].state => i < j
           /\ i < j /\ setback = 0 => log[i].timestamp <= log[j].timestamp
<1>1. log[i] \in Event /\ log[j] \in Event
  BY DEF TypeInv, TypeOK
<1>2. /\ log[i].state \in Nat /\ log[i].timestamp \in Int
      /\ log[j].state \in Nat
  BY <1>1 DEF Event
<1>3. log[i].state < log[j].state => i < j
  <2>1. j <= i => log[j].state <= log[i].state
    BY DEF LogInv, LogOrderly, StatesInOrder
  <2>2. i \in Nat /\ j \in Nat
    BY DEF TypeInv, TypeOK
  <2> QED
    BY <1>2, <2>1, <2>2
<1> QED
  BY <1>2, <1>3 DEF LogInv, LogOrderly, StatesUnmixed, OrderInv,
                    LogInTimestampOrder

LEMMA RowFacts ==
    ASSUME NEW device, NEW id, NEW rows \in SUBSET RowsOf(device, id), NEW h \in rows
    PROVE  \E i \in 1..Len(log) :
              h = Row(device, id, i) /\ h.device = device /\ h.state = log[i].state
BY DEF RowsOf, Row

LEMMA KeysEqual ==
    ASSUME NEW g, NEW h
    PROVE  KeyOf(g) = KeyOf(h) <=> g.device = h.device /\ g.state = h.state
BY DEF KeyOf

\* One event logged before another, as rows.
LEMMA RowsInLogOrder ==
    ASSUME TypeInv, LogInv, OrderInv, setback = 0,
           NEW device, NEW id,
           NEW p \in 1..Len(log), NEW q \in 1..Len(log), p < q
    PROVE  /\ Row(device, id, p).timestamp <= Row(device, id, q).timestamp
           /\ IdsFollowTheLog(id) => Before(Row(device, id, p), Row(device, id, q))
<1> DEFINE g == Row(device, id, p)
           h == Row(device, id, q)
<1>1. /\ log[p].timestamp <= log[q].timestamp
      /\ log[p].timestamp \in Int /\ log[q].timestamp \in Int
  BY LogFacts
<1>2. IdsFollowTheLog(id) /\ log[p].timestamp = log[q].timestamp => id[p] < id[q]
  BY DEF IdsFollowTheLog
<1>3. /\ g.timestamp = log[p].timestamp /\ h.timestamp = log[q].timestamp
      /\ g.id = id[p] /\ h.id = id[q] /\ g.device = h.device
  BY DEF Row
<1> HIDE DEF g, h
<1>4. g.timestamp <= h.timestamp
  BY <1>1, <1>3
<1>5. IdsFollowTheLog(id) => Before(g, h)
  <2>1. g.timestamp < h.timestamp \/ g.timestamp = h.timestamp
    BY <1>1, <1>3
  <2> QED
    BY <1>2, <1>3, <2>1 DEF Before
<1> QED
  BY <1>4, <1>5 DEF g, h

LEMMA RowsReliable ==
    ASSUME TypeInv, LogInv, OrderInv, NEW device, NEW id,
           NEW rows \in SUBSET RowsOf(device, id)
    PROVE  AsAssumed(rows, id)
<1>1. 1..Len(log) \subseteq Nat
  BY DEF TypeInv, TypeOK
<1>2. ASSUME NEW g \in rows, NEW h \in rows, KeyOf(g) = KeyOf(h),
             g.event_type = "STATE_END"
      PROVE  /\ h.event_type = "STATE_END" => g = h
             /\ setback = 0 => h.timestamp <= g.timestamp
  <2>1. PICK i \in 1..Len(log) : g = Row(device, id, i) /\ g.state = log[i].state
    BY <1>2, RowFacts
  <2>2. PICK j \in 1..Len(log) : h = Row(device, id, j) /\ h.state = log[j].state
    BY <1>2, RowFacts
  <2>3. log[i].state = log[j].state
    BY <1>2, <2>1, <2>2, KeysEqual
  <2>4. log[i].type = "STATE_END" /\ h.event_type = log[j].type
    BY <1>2, <2>1, <2>2 DEF Row
  <2>5. i = j \/ j < i
    BY <1>1, <2>3, <2>4, LogFacts
  <2>6. j < i => log[j].type # "STATE_END"
    BY <2>3, LogFacts
  <2>7. setback = 0 /\ j < i =>
            Row(device, id, j).timestamp <= Row(device, id, i).timestamp
    BY RowsInLogOrder
  <2>8. Row(device, id, i).timestamp <= Row(device, id, i).timestamp
    <3>1. Row(device, id, i).timestamp = log[i].timestamp /\ log[i].timestamp \in Int
      BY LogFacts DEF Row
    <3> QED
      BY <3>1
  <2> QED
    BY <2>1, <2>2, <2>4, <2>5, <2>6, <2>7, <2>8
<1>3. ASSUME NEW j \in KeysOf(rows), NEW k \in KeysOf(rows), j # k
      PROVE  \/ \A g \in EventsOf(rows, j), h \in EventsOf(rows, k) :
                   \E p, q \in 1..Len(log) :
                      p < q /\ g = Row(device, id, p) /\ h = Row(device, id, q)
             \/ \A g \in EventsOf(rows, j), h \in EventsOf(rows, k) :
                   \E p, q \in 1..Len(log) :
                      q < p /\ g = Row(device, id, p) /\ h = Row(device, id, q)
  <2>1. PICK e \in rows : j = KeyOf(e)
    BY <1>3 DEF KeysOf
  <2>2. PICK f \in rows : k = KeyOf(f)
    BY <1>3 DEF KeysOf
  <2>3. /\ e.device = device /\ f.device = device
        /\ \E i \in 1..Len(log) : e.state = log[i].state
        /\ \E i \in 1..Len(log) : f.state = log[i].state
    BY <2>1, <2>2, RowFacts
  <2>4. e.state \in Nat /\ f.state \in Nat
    BY <2>3, LogFacts
  <2>5. e.state < f.state \/ f.state < e.state
    BY <1>3, <2>1, <2>2, <2>3, <2>4, KeysEqual
  <2>6. ASSUME NEW g \in EventsOf(rows, j), NEW h \in EventsOf(rows, k)
        PROVE  \E p, q \in 1..Len(log) :
                  /\ g = Row(device, id, p) /\ h = Row(device, id, q)
                  /\ log[p].state = e.state /\ log[q].state = f.state
    <3>1. g \in rows /\ h \in rows /\ KeyOf(g) = KeyOf(e) /\ KeyOf(h) = KeyOf(f)
      BY <2>1, <2>2, <2>6 DEF EventsOf
    <3>2. PICK p \in 1..Len(log) : g = Row(device, id, p) /\ g.state = log[p].state
      BY <3>1, RowFacts
    <3>3. PICK q \in 1..Len(log) : h = Row(device, id, q) /\ h.state = log[q].state
      BY <3>1, RowFacts
    <3>4. g.state = e.state /\ h.state = f.state
      BY <3>1, KeysEqual
    <3> QED
      BY <3>2, <3>3, <3>4
  <2>7. CASE e.state < f.state
    BY <2>6, <2>7, LogFacts
  <2>8. CASE f.state < e.state
    BY <2>6, <2>8, LogFacts
  <2> QED
    BY <2>5, <2>7, <2>8
<1>4. AtMostOneEnd(rows)
  BY <1>2 DEF AtMostOneEnd
<1>5. setback = 0 => RunForward(rows)
  BY <1>2 DEF RunForward
<1>6. setback = 0 => OneAfterAnother(rows)
  <2>1. ASSUME setback = 0, NEW j \in KeysOf(rows), NEW k \in KeysOf(rows), j # k
        PROVE  \/ \A g \in EventsOf(rows, j), h \in EventsOf(rows, k) :
                     g.timestamp <= h.timestamp
               \/ \A g \in EventsOf(rows, j), h \in EventsOf(rows, k) :
                     h.timestamp <= g.timestamp
    BY <1>3, <2>1, RowsInLogOrder
  <2> QED
    BY <2>1 DEF OneAfterAnother, Timestamps
<1>7. setback = 0 /\ IdsFollowTheLog(id) => Apart(rows)
  <2>1. ASSUME setback = 0, IdsFollowTheLog(id),
               NEW j \in KeysOf(rows), NEW k \in KeysOf(rows), j # k
        PROVE  \/ \A g \in EventsOf(rows, j), h \in EventsOf(rows, k) : Before(g, h)
               \/ \A g \in EventsOf(rows, j), h \in EventsOf(rows, k) : Before(h, g)
    BY <1>3, <2>1, RowsInLogOrder
  <2> QED
    BY <2>1 DEF Apart
<1> QED
  BY <1>4, <1>5, <1>6, <1>7 DEF AsAssumed

\* What modules SessionDerivation, Sessionizer and SessionReads suppose of the
\* heartbeats of a device is so of what its agent logs, across its restarts, in
\* whatever order and number the events arrive.
THEOREM RowsAreAsAssumed ==
    Spec => [](\A device \in Nat, id \in [Nat -> Nat] :
                  \A rows \in SUBSET RowsOf(device, id) : AsAssumed(rows, id))
<1> DEFINE Reliable == \A device \in Nat, id \in [Nat -> Nat] :
                          \A rows \in SUBSET RowsOf(device, id) : AsAssumed(rows, id)
<1>1. TypeInv /\ LogInv /\ OrderInv => Reliable
  BY RowsReliable
<1> HIDE DEF Reliable
<1>2. Spec => []Reliable
  BY <1>1, TypeInductive, LogInductive, OrderInductive, PTL
<1> QED
  BY <1>2 DEF Reliable

\* Several devices do not get into each other's way: claims are ordered by device
\* first.
LEMMA DevicesApart ==
    ASSUME NEW events, \A h \in events : h.device \in Nat,
           \A d \in Nat : Apart({h \in events : h.device = d})
    PROVE  Apart(events)
<1> SUFFICES ASSUME NEW j \in KeysOf(events), NEW k \in KeysOf(events), j # k
             PROVE  \/ \A g \in EventsOf(events, j), h \in EventsOf(events, k) :
                          Before(g, h)
                    \/ \A g \in EventsOf(events, j), h \in EventsOf(events, k) :
                          Before(h, g)
  BY DEF Apart
<1> DEFINE Of(d) == {h \in events : h.device = d}
<1>1. PICK g \in events : j = KeyOf(g)
  BY DEF KeysOf
<1>2. PICK h \in events : k = KeyOf(h)
  BY DEF KeysOf
<1>3. CASE g.device = h.device
  <2>1. j \in KeysOf(Of(g.device)) /\ k \in KeysOf(Of(g.device))
    BY <1>1, <1>2, <1>3 DEF KeysOf
  <2>2. /\ EventsOf(events, j) = EventsOf(Of(g.device), j)
        /\ EventsOf(events, k) = EventsOf(Of(g.device), k)
    BY <1>1, <1>2, <1>3 DEF EventsOf, KeyOf
  <2>3. Apart(Of(g.device))
    OBVIOUS
  <2> HIDE DEF Of
  <2> QED
    BY <2>1, <2>2, <2>3 DEF Apart
<1>4. CASE g.device # h.device
  <2>1. \A e \in EventsOf(events, j) : e.device = g.device
    BY <1>1 DEF EventsOf, KeyOf
  <2>2. \A e \in EventsOf(events, k) : e.device = h.device
    BY <1>2 DEF EventsOf, KeyOf
  <2>3. g.device < h.device \/ h.device < g.device
    BY <1>4
  <2> QED
    BY <2>1, <2>2, <2>3 DEF Before
<1> QED
  BY <1>3, <1>4
=============================================================================
