-------------------------- MODULE SyncWorkerProofs --------------------------
(***************************************************************************)
(* The uploader's safety, for any number of events, runs, UI threads and   *)
(* database failures, any batch size and any timestamps.                   *)
(*                                                                         *)
(* What makes SyncedIsStored inductive is that a worker about to mark a    *)
(* batch has had it stored (MarkedIsStored), which holds because its batch *)
(* cannot change while its request is under way.  NoGapAtServer rests on   *)
(* every batch, in a worker or in the network, being complete: whatever is *)
(* older is stored already or in the batch too (BatchesComplete).  At the  *)
(* end, what a worker that is told to stop has still before it.            *)
(***************************************************************************)
EXTENDS SyncWorker, FiniteSetTheorems, TLAPS

\* Only a worker that exists is stopped or toggled.
TypeInv ==
    /\ TypeOK
    /\ main # "down" => run \in Run
    /\ \A t \in UIThread : toggle[t].at # "idle" => toggle[t].run \in Run

\* Batches and requests hold only logged events, and so does the API.
BatchesLogged ==
    /\ \A r \in Run : batch[r] \subseteq 1..logged
    /\ \A q \in requests : q.batch \subseteq 1..logged
    /\ server \subseteq 1..logged

MarkedIsStored == \A r \in Run : pc[r] = "mark" => batch[r] \subseteq server

Complete(events) ==
    \A e \in events, f \in 1..logged :
        f < e /\ Timestamp[f] < Timestamp[e] => f \in events \cup server

BatchesComplete ==
    /\ \A r \in Run : Complete(batch[r])
    /\ \A q \in requests : Complete(q.batch)

IInv ==
    /\ TypeInv
    /\ BatchesLogged
    /\ MarkedIsStored
    /\ SyncedIsStored
    /\ BatchesComplete
    /\ NoGapAtServer
    /\ NoLostWakeUp

-----------------------------------------------------------------------------

\* Everything is empty at first.
LEMMA InitInv == Init => IInv
<1> SUFFICES ASSUME Init PROVE IInv
  OBVIOUS
<1> USE EventAssumption, WorkerBoundAssumption DEF Init
<1>1. TypeInv
  <2>1. NoToggle \in ToggleRecord
    BY DEF NoToggle, ToggleRecord
  <2> QED
    BY <2>1 DEF TypeInv, TypeOK, PC, NoToggle
<1>2. BatchesLogged
  BY DEF BatchesLogged
<1>3. MarkedIsStored /\ SyncedIsStored /\ NoGapAtServer
  BY DEF MarkedIsStored, SyncedIsStored, NoGapAtServer
<1>4. BatchesComplete
  BY DEF BatchesComplete, Complete
<1>5. NoLostWakeUp
  BY DEF NoLostWakeUp
<1> QED
  BY <1>1, <1>2, <1>3, <1>4, <1>5 DEF IInv

LEMMA MainTyped == ASSUME IInv, Main PROVE TypeInv'
<1> USE EventAssumption, WorkerBoundAssumption
    DEF IInv, TypeInv, TypeOK, database, worker, api, Run
<1>1. CASE StartAgent
  BY <1>1 DEF StartAgent, PC
<1>2. CASE InsertEvent
  BY <1>2 DEF InsertEvent, Event
<1>3. CASE SetStopEvent
  BY <1>3 DEF SetStopEvent
<1>4. CASE StopWorker
  BY <1>4 DEF StopWorker
<1>5. CASE WakeToStop
  BY <1>5 DEF WakeToStop
<1>6. CASE CloseStorage
  BY <1>6 DEF CloseStorage
<1>7. CASE Kill
  <2>1. NoToggle \in ToggleRecord
    BY DEF NoToggle, ToggleRecord
  <2> QED
    BY <1>7, <2>1 DEF Kill, PC, NoToggle
<1> QED
  BY <1>1, <1>2, <1>3, <1>4, <1>5, <1>6, <1>7 DEF Main

LEMMA WorkTyped == ASSUME IInv, NEW r \in Run, Work(r) PROVE TypeInv'
<1> USE EventAssumption, WorkerBoundAssumption
    DEF IInv, TypeInv, TypeOK, database, worker, api, Run, PC, Goto, Hiccup
<1>1. CASE End(r)
  BY <1>1 DEF End
<1>2. CASE Pause(r)
  BY <1>2 DEF Pause
<1>3. CASE FindNothing(r)
  BY <1>3 DEF FindNothing
<1>4. ASSUME NEW events \in SUBSET Event, Post(r, events)
      PROVE  TypeInv'
  <2>1. requests' \subseteq Request
    BY <1>4 DEF Post, Request
  <2> QED
    BY <1>4, <2>1 DEF Post
<1>5. ASSUME NEW events \in SUBSET Event, PostNothing(r, events)
      PROVE  TypeInv'
  BY <1>5 DEF PostNothing
<1>6. CASE PostFails(r)
  BY <1>6 DEF PostFails
<1>7. CASE MarkSynced(r)
  BY <1>7 DEF MarkSynced, BatchesLogged
<1>8. CASE RecordFailure(r)
  BY <1>8 DEF RecordFailure
<1>9. CASE Die(r)
  BY <1>9 DEF Die
<1>10. CASE WaitReturns(r)
  BY <1>10 DEF WaitReturns
<1>11. CASE ClearWake(r)
  BY <1>11 DEF ClearWake
<1> QED
  BY <1>1, <1>2, <1>3, <1>4, <1>5, <1>6, <1>7, <1>8, <1>9, <1>10, <1>11 DEF Work

LEMMA ApiTyped ==
    ASSUME IInv, NEW q \in requests, Answer(q) \/ AnswerLost(q) \/ RequestLost(q)
    PROVE  TypeInv'
<1>1. q.run \in Run /\ q.batch \subseteq Event
  BY DEF IInv, TypeInv, TypeOK, Request
<1> USE DEF IInv, TypeInv, TypeOK, database, worker, api, PC, Goto, Ingest
<1>2. CASE Answer(q)
  BY <1>1, <1>2 DEF Answer
<1>3. CASE AnswerLost(q)
  BY <1>1, <1>3 DEF AnswerLost
<1>4. CASE RequestLost(q)
  BY <1>1, <1>4 DEF RequestLost
<1> QED
  BY <1>2, <1>3, <1>4

LEMMA ToggleTyped == ASSUME IInv, NEW t \in UIThread, Toggle(t) PROVE TypeInv'
<1>1. toggle[t] \in ToggleRecord /\ toggle \in [UIThread -> ToggleRecord]
  BY DEF IInv, TypeInv, TypeOK
<1>2. \A u \in ToggleRecord, at \in {"idle", "persist", "flag", "wake"} :
         [u EXCEPT !.at = at] \in ToggleRecord
  BY DEF ToggleRecord
<1>3. NoToggle \in ToggleRecord /\ NoToggle.at = "idle"
  BY WorkerBoundAssumption DEF NoToggle, ToggleRecord
<1> USE EventAssumption, WorkerBoundAssumption
    DEF IInv, TypeInv, TypeOK, database, worker, api, Run, Hiccup
<1>4. CASE BeginToggle(t)
  <2>1. /\ toggle'[t] \in ToggleRecord /\ toggle'[t].run \in Run
        /\ toggle' = [toggle EXCEPT ![t] = toggle'[t]]
    BY <1>1, <1>4 DEF BeginToggle, ToggleRecord
  <2> QED
    BY <1>1, <1>4, <2>1 DEF BeginToggle
<1>5. CASE PersistSetting(t)
  BY <1>1, <1>2, <1>5 DEF PersistSetting, ToggleRecord
<1>6. CASE AbandonToggle(t)
  BY <1>1, <1>3, <1>6 DEF AbandonToggle
<1>7. CASE SetFlag(t)
  <2>1. toggle[t].run \in Run
    BY <1>7 DEF SetFlag
  <2>2. enabled' \subseteq Run
    BY <1>7, <2>1 DEF SetFlag
  <2>3. toggle' \in [UIThread -> ToggleRecord]
    BY <1>1, <1>2, <1>7 DEF SetFlag
  <2>4. \A u \in UIThread : toggle'[u].run = toggle[u].run
    BY <1>1, <1>7 DEF SetFlag, ToggleRecord
  <2>5. \A u \in UIThread : toggle'[u].at # "idle" => toggle[u].at # "idle"
    BY <1>1, <1>7 DEF SetFlag
  <2> QED
    BY <1>7, <2>2, <2>3, <2>4, <2>5 DEF SetFlag
<1>8. CASE WakeAfterToggle(t)
  BY <1>1, <1>3, <1>8 DEF WakeAfterToggle
<1> QED
  BY <1>4, <1>5, <1>6, <1>7, <1>8 DEF Toggle

-----------------------------------------------------------------------------
(* Batches and what the API has *)

DataInv ==
    /\ BatchesLogged
    /\ MarkedIsStored
    /\ SyncedIsStored
    /\ BatchesComplete
    /\ NoGapAtServer

\* Most steps leave the data alone.
LEMMA DataFrame ==
    ASSUME IInv,
           UNCHANGED <<logged, synced, server, requests, batch>>,
           \A r \in Run : pc'[r] = "mark" => pc[r] = "mark"
    PROVE  DataInv'
BY DEF IInv, DataInv, BatchesLogged, MarkedIsStored, SyncedIsStored,
       BatchesComplete, Complete, NoGapAtServer

LEMMA MainData == ASSUME IInv, Main PROVE DataInv'
<1>1. CASE StartAgent
  BY <1>1, DataFrame DEF StartAgent, database, api, IInv, TypeInv, TypeOK
<1>2. CASE InsertEvent
  <2>1. /\ logged' = logged + 1 /\ logged \in Nat
        /\ UNCHANGED <<synced, server, requests, batch, pc>>
    BY <1>2 DEF InsertEvent, worker, api, IInv, TypeInv, TypeOK
  <2>2. BatchesLogged'
    BY <2>1 DEF IInv, BatchesLogged
  <2>3. \A events \in SUBSET (1..logged) :
           Complete(events) => Complete(events)'
    BY <2>1 DEF Complete
  <2>4. BatchesComplete'
    BY <2>1, <2>3 DEF IInv, BatchesComplete, BatchesLogged
  <2>5. NoGapAtServer'
    BY <2>1 DEF IInv, NoGapAtServer, BatchesLogged
  <2> QED
    BY <2>1, <2>2, <2>4, <2>5 DEF IInv, DataInv, MarkedIsStored, SyncedIsStored
<1>3. CASE SetStopEvent
  BY <1>3, DataFrame DEF SetStopEvent, database, worker, api
<1>4. CASE StopWorker
  BY <1>4, DataFrame DEF StopWorker, database, api
<1>5. CASE WakeToStop
  BY <1>5, DataFrame DEF WakeToStop, database, api
<1>6. CASE CloseStorage
  BY <1>6, DataFrame DEF CloseStorage, database, worker, api
<1>7. CASE Kill
  BY <1>7 DEF Kill, database, api, IInv, DataInv, BatchesLogged, MarkedIsStored,
              SyncedIsStored, BatchesComplete, Complete, NoGapAtServer
<1> QED
  BY <1>1, <1>2, <1>3, <1>4, <1>5, <1>6, <1>7 DEF Main

\* A batch of the oldest pending events is complete.
LEMMA OldestComplete ==
    ASSUME IInv, NEW events \in SUBSET Event, OldestPending(events)
    PROVE  Complete(events) /\ events \subseteq 1..logged
<1>1. events \subseteq 1..logged
  BY DEF OldestPending, Pending
<1>2. ASSUME NEW e \in events, NEW f \in 1..logged,
             Timestamp[f] < Timestamp[e], f \notin server
      PROVE  f \in events
  <2>1. f \in Pending
    BY <1>2 DEF Pending, IInv, SyncedIsStored
  <2>2. f \in events \/ Timestamp[e] <= Timestamp[f]
    BY <2>1 DEF OldestPending
  <2>3. e \in Event /\ f \in Event
    BY <1>1, <1>2, <2>1, EventAssumption DEF Event, IInv, TypeInv, TypeOK
  <2> QED
    BY <1>2, <2>2, <2>3, EventAssumption
<1> QED
  BY <1>1, <1>2 DEF Complete

LEMMA WorkData == ASSUME IInv, NEW r \in Run, Work(r) PROVE DataInv'
<1>1. pc \in [Run -> PC] /\ batch \in [Run -> SUBSET Event]
  BY DEF IInv, TypeInv, TypeOK
<1> USE DEF database, worker, api, Goto
<1>2. CASE End(r)
  BY <1>1, <1>2, DataFrame DEF End
<1>3. CASE Pause(r)
  BY <1>1, <1>3, DataFrame DEF Pause
<1>4. CASE FindNothing(r)
  BY <1>1, <1>4, DataFrame DEF FindNothing
<1>5. ASSUME NEW events \in SUBSET Event, Post(r, events) \/ PostNothing(r, events)
      PROVE  DataInv'
  <2>1. /\ UNCHANGED <<logged, synced, server>>
        /\ batch' = [batch EXCEPT ![r] = events]
        /\ pc'[r] \in {"post", "fail"}
        /\ \A s \in Run \ {r} : pc'[s] = pc[s]
        /\ \A q \in requests' : q \in requests \/ q = [run |-> r, batch |-> events]
    BY <1>1, <1>5 DEF Post, PostNothing
  <2>2. OldestPending(events)
    BY <1>5 DEF Post, PostNothing
  <2>3. Complete(events)' /\ events \subseteq 1..logged
    BY <2>1, <2>2, OldestComplete DEF Complete
  <2>4. BatchesLogged'
    <3>1. \A s \in Run : batch'[s] \subseteq 1..logged
      BY <1>1, <2>1, <2>3 DEF IInv, BatchesLogged
    <3>2. \A q \in requests' : q.batch \subseteq 1..logged
      BY <2>1, <2>3 DEF IInv, BatchesLogged
    <3> QED
      BY <2>1, <3>1, <3>2 DEF IInv, BatchesLogged
  <2>5. BatchesComplete'
    <3>1. \A events_ : Complete(events_) => Complete(events_)'
      BY <2>1 DEF Complete
    <3>2. ASSUME NEW s \in Run PROVE Complete(batch[s])'
      <4>1. s # r => Complete(batch[s]) /\ batch'[s] = batch[s]
        BY <1>1, <2>1 DEF IInv, BatchesComplete
      <4>2. s = r => batch'[s] = events
        BY <1>1, <2>1
      <4> QED
        BY <2>1, <2>3, <4>1, <4>2 DEF Complete
    <3>3. ASSUME NEW q \in requests' PROVE Complete(q.batch)'
      BY <2>1, <2>3, <3>1 DEF IInv, BatchesComplete
    <3> QED
      BY <3>2, <3>3 DEF BatchesComplete
  <2>6. MarkedIsStored'
    BY <1>1, <2>1 DEF IInv, MarkedIsStored
  <2> QED
    BY <2>1, <2>4, <2>5, <2>6 DEF IInv, DataInv, SyncedIsStored, NoGapAtServer
<1>6. CASE PostFails(r)
  BY <1>1, <1>6, DataFrame DEF PostFails
<1>7. CASE MarkSynced(r) \/ RecordFailure(r)
  <2>1. /\ UNCHANGED <<logged, requests, server>>
        /\ batch' = [batch EXCEPT ![r] = {}]
        /\ pc'[r] = "sleep" /\ \A s \in Run \ {r} : pc'[s] = pc[s]
    BY <1>1, <1>7 DEF MarkSynced, RecordFailure
  <2>2. synced' \subseteq server
    BY <1>7 DEF MarkSynced, RecordFailure, IInv, MarkedIsStored, SyncedIsStored
  <2> QED
    BY <1>1, <2>1, <2>2
    DEF IInv, DataInv, BatchesLogged, MarkedIsStored, SyncedIsStored,
        BatchesComplete, Complete, NoGapAtServer
<1>8. CASE Die(r)
  BY <1>1, <1>8, DataFrame DEF Die
<1>9. CASE WaitReturns(r)
  BY <1>1, <1>9, DataFrame DEF WaitReturns
<1>10. CASE ClearWake(r)
  BY <1>1, <1>10, DataFrame DEF ClearWake
<1> QED
  BY <1>2, <1>3, <1>4, <1>5, <1>6, <1>7, <1>8, <1>9, <1>10 DEF Work

LEMMA ApiData ==
    ASSUME IInv, NEW q \in requests, Answer(q) \/ AnswerLost(q) \/ RequestLost(q)
    PROVE  DataInv'
<1>1. /\ q.run \in Run /\ q.batch \subseteq 1..logged /\ Complete(q.batch)
      /\ pc \in [Run -> PC]
  BY DEF IInv, TypeInv, TypeOK, Request, BatchesLogged, BatchesComplete
<1>2. CASE Answer(q) \/ AnswerLost(q)
  <2>1. /\ UNCHANGED <<logged, synced, batch>>
        /\ requests' = requests \ {q}
        /\ server' = server \cup q.batch
    BY <1>2 DEF Answer, AnswerLost, Ingest, database
  <2>2. \A r \in Run : pc'[r] = "mark" => pc[r] = "mark" \/ batch[r] = q.batch
    BY <1>1, <1>2 DEF Answer, AnswerLost, Goto
  <2>3. BatchesLogged'
    BY <1>1, <2>1 DEF IInv, BatchesLogged
  <2>4. MarkedIsStored'
    BY <2>1, <2>2 DEF IInv, MarkedIsStored
  <2>5. SyncedIsStored'
    BY <2>1 DEF IInv, SyncedIsStored
  <2>6. BatchesComplete'
    BY <2>1 DEF IInv, BatchesComplete, Complete
  <2>7. NoGapAtServer'
    BY <1>1, <2>1 DEF IInv, NoGapAtServer, Complete
  <2> QED
    BY <2>3, <2>4, <2>5, <2>6, <2>7 DEF DataInv
<1>3. CASE RequestLost(q)
  BY <1>3 DEF RequestLost, database, worker, IInv, DataInv, BatchesLogged,
              MarkedIsStored, SyncedIsStored, BatchesComplete, Complete,
              NoGapAtServer
<1> QED
  BY <1>2, <1>3

LEMMA ToggleData == ASSUME IInv, NEW t \in UIThread, Toggle(t) PROVE DataInv'
<1>1. UNCHANGED <<logged, synced, server, requests, batch, pc>>
  BY DEF Toggle, BeginToggle, PersistSetting, AbandonToggle, SetFlag,
         WakeAfterToggle, database, worker, api
<1> QED
  BY <1>1, DataFrame

-----------------------------------------------------------------------------
(* Wake-ups *)

\* A step that adds no reason to wake a dozing worker and takes no wake-up away.
LEMMA WakeFrame ==
    ASSUME IInv,
           UNCHANGED <<run, main, toggle>>,
           \A r \in Run :
              /\ pc'[r] = "doze" => pc[r] = "doze"
              /\ r \in enabled' => r \in enabled
              /\ r \in stopping' => r \in stopping
              /\ pc'[r] = "doze" /\ r \in wake => r \in wake'
    PROVE  NoLostWakeUp'
<1> SUFFICES ASSUME NEW r \in Run, pc'[r] = "doze", r \notin wake'
             PROVE  /\ r \in enabled' => \E t \in UIThread :
                          toggle'[t].at = "wake" /\ toggle'[t].run = r
                    /\ r \in stopping' => main' = "stopping" /\ r = run'
  BY DEF NoLostWakeUp
<1>1. pc[r] = "doze" /\ r \notin wake
  OBVIOUS
<1> QED
  BY <1>1 DEF IInv, NoLostWakeUp

LEMMA MainWakes == ASSUME IInv, Main PROVE NoLostWakeUp'
<1> USE DEF IInv, TypeInv, TypeOK, NoLostWakeUp, database, worker, api
<1>1. CASE StartAgent
  <2>1. /\ \A r \in Run : pc'[r] = "doze" => pc[r] = "doze" /\ r # run + 1
        /\ UNCHANGED <<wake, stopping, toggle>>
        /\ \A r \in Run \ {run + 1} : r \in enabled' => r \in enabled
        /\ main = "down"
    BY <1>1 DEF StartAgent
  <2> QED
    BY <2>1
<1>2. CASE InsertEvent
  BY <1>2 DEF InsertEvent
<1>3. CASE SetStopEvent
  BY <1>3 DEF SetStopEvent
<1>4. CASE StopWorker
  BY <1>4 DEF StopWorker
<1>5. CASE WakeToStop
  BY <1>5 DEF WakeToStop
<1>6. CASE CloseStorage
  BY <1>6 DEF CloseStorage
<1>7. CASE Kill
  <2>1. \A r \in Run : pc'[r] # "doze"
    BY <1>7 DEF Kill
  <2> QED
    BY <2>1
<1> QED
  BY <1>1, <1>2, <1>3, <1>4, <1>5, <1>6, <1>7 DEF Main

LEMMA WorkWakes == ASSUME IInv, NEW r \in Run, Work(r) PROVE NoLostWakeUp'
<1>1. pc \in [Run -> PC]
  BY DEF IInv, TypeInv, TypeOK
<1> USE DEF database, worker, api, Goto
<1>2. CASE Pause(r)
  \* It pauses only if it is neither enabled nor told to stop.
  BY <1>1, <1>2 DEF Pause, Passing, ToldToStop, IInv, NoLostWakeUp
<1>3. CASE ClearWake(r)
  <2>1. \A s \in Run : pc'[s] = "doze" => pc[s] = "doze" /\ s # r
    BY <1>1, <1>3 DEF ClearWake
  <2> QED
    BY <1>3, <2>1, WakeFrame DEF ClearWake
<1>4. CASE Work(r) /\ ~Pause(r) /\ ~ClearWake(r)
  <2>1. /\ UNCHANGED <<run, main, toggle, enabled, stopping, wake>>
        /\ \A s \in Run \ {r} : pc'[s] = pc[s]
        /\ pc'[r] # "doze"
    BY <1>1, <1>4
    DEF Work, End, FindNothing, Post, PostNothing, PostFails, MarkSynced,
        RecordFailure, Die, WaitReturns
  <2> QED
    BY <2>1, WakeFrame
<1> QED
  BY <1>2, <1>3, <1>4

LEMMA ApiWakes ==
    ASSUME IInv, NEW q \in requests, Answer(q) \/ AnswerLost(q) \/ RequestLost(q)
    PROVE  NoLostWakeUp'
<1>1. pc \in [Run -> PC]
  BY DEF IInv, TypeInv, TypeOK
<1>2. /\ UNCHANGED <<run, main, toggle, enabled, stopping, wake>>
      /\ \A s \in Run : pc'[s] = "doze" => pc[s] = "doze"
  BY <1>1 DEF Answer, AnswerLost, RequestLost, Ingest, Goto, worker
<1> QED
  BY <1>2, WakeFrame

LEMMA ToggleWakes ==
    ASSUME IInv, NEW t \in UIThread, Toggle(t) PROVE NoLostWakeUp'
<1>1. toggle \in [UIThread -> ToggleRecord] /\ toggle[t] \in ToggleRecord
  BY DEF IInv, TypeInv, TypeOK
<1>2. UNCHANGED <<run, main, pc, stopping>>
  BY DEF Toggle, BeginToggle, PersistSetting, AbandonToggle, SetFlag,
         WakeAfterToggle, worker
<1>3. \A u \in UIThread \ {t} : toggle'[u] = toggle[u]
  BY <1>1 DEF Toggle, BeginToggle, PersistSetting, AbandonToggle, SetFlag,
              WakeAfterToggle
<1> USE DEF worker
<1>4. CASE BeginToggle(t) \/ PersistSetting(t) \/ AbandonToggle(t)
  <2>1. toggle[t].at # "wake" /\ UNCHANGED <<enabled, wake>>
    BY <1>4 DEF BeginToggle, PersistSetting, AbandonToggle
  <2> QED
    BY <1>2, <1>3, <2>1 DEF IInv, NoLostWakeUp
<1>5. CASE SetFlag(t)
  <2>1. /\ toggle[t].at = "flag" /\ UNCHANGED wake
        /\ enabled' \subseteq enabled \cup {toggle[t].run}
        /\ toggle'[t].at = "wake" /\ toggle'[t].run = toggle[t].run
    BY <1>1, <1>5 DEF SetFlag, ToggleRecord
  <2> QED
    BY <1>2, <1>3, <2>1 DEF IInv, NoLostWakeUp
<1>6. CASE WakeAfterToggle(t)
  <2>1. wake' = wake \cup {toggle[t].run} /\ UNCHANGED enabled
    BY <1>6 DEF WakeAfterToggle
  <2> QED
    BY <1>2, <1>3, <2>1 DEF IInv, NoLostWakeUp
<1> QED
  BY <1>4, <1>5, <1>6 DEF Toggle

-----------------------------------------------------------------------------
(* Theorems *)

\* The strengthened invariant is preserved by every step.
LEMMA NextInv == IInv /\ [Next]_vars => IInv'
<1> SUFFICES ASSUME IInv, [Next]_vars PROVE IInv'
  OBVIOUS
<1>1. TypeInv' /\ DataInv' /\ NoLostWakeUp' => IInv'
  BY DEF IInv, DataInv
<1>2. CASE Main
  BY <1>1, <1>2, MainTyped, MainData, MainWakes
<1>3. CASE \E r \in Run : Work(r)
  BY <1>1, <1>3, WorkTyped, WorkData, WorkWakes
<1>4. CASE \E q \in requests : Answer(q) \/ AnswerLost(q) \/ RequestLost(q)
  BY <1>1, <1>4, ApiTyped, ApiData, ApiWakes
<1>5. CASE \E t \in UIThread : Toggle(t)
  BY <1>1, <1>5, ToggleTyped, ToggleData, ToggleWakes
<1>6. CASE UNCHANGED vars
  <2>1. UNCHANGED <<logged, synced, setting, run, main, stop_event, pc, batch,
                    enabled, wake, stopping, toggle, requests, server, hiccups>>
    BY <1>6 DEF vars, database, worker, api
  <2>2. TypeInv'
    BY <2>1 DEF IInv, TypeInv, TypeOK
  <2>3. DataInv' /\ NoLostWakeUp'
    BY <2>1, DataFrame, WakeFrame
  <2> QED
    BY <1>1, <2>2, <2>3
<1> QED
  BY <1>2, <1>3, <1>4, <1>5, <1>6 DEF Next

LEMMA UploaderInvariant == Spec => []IInv
BY InitInv, NextInv, PTL DEF Spec

\* Every variable keeps its type.
THEOREM UploaderTypeCorrect == Spec => []TypeOK
<1>1. IInv => TypeOK
  BY DEF IInv, TypeInv
<1> QED
  BY <1>1, UploaderInvariant, PTL

\* No event is ever marked SYNCED that the API has not stored.
THEOREM DeliveryIsReal == Spec => []SyncedIsStored
<1>1. IInv => SyncedIsStored
  BY DEF IInv
<1> QED
  BY <1>1, UploaderInvariant, PTL

\* The API never has an event without the earlier ones logged before it.
THEOREM DeliveryInOrder == Spec => []NoGapAtServer
<1>1. IInv => NoGapAtServer
  BY DEF IInv
<1> QED
  BY <1>1, UploaderInvariant, PTL

\* No wake-up of a paused worker is lost.
THEOREM WakeUpsArrive == Spec => []NoLostWakeUp
<1>1. IInv => NoLostWakeUp
  BY DEF IInv
<1> QED
  BY <1>1, UploaderInvariant, PTL

\* Threads, requests and retries implement the delivery of events: a step logs
\* one, has the API store a batch, acknowledges a stored batch, or changes
\* nothing the promise speaks of.
LEMMA StepImplements == IInv /\ [Next]_vars => [Promise!Next]_(Promise!vars)
<1> SUFFICES ASSUME IInv, [Next]_vars PROVE [Promise!Next]_(Promise!vars)
  OBVIOUS
<1> USE DEF Promise!vars, database, worker, api
<1>1. CASE Main
  <2>1. CASE InsertEvent
    BY <2>1 DEF InsertEvent, Promise!Next, Promise!Log
  <2> QED
    BY <1>1, <2>1 DEF Main, StartAgent, SetStopEvent, StopWorker, WakeToStop,
                      CloseStorage, Kill
<1>2. ASSUME NEW r \in Run, Work(r)
      PROVE  [Promise!Next]_(Promise!vars)
  <2>1. CASE MarkSynced(r)
    <3>1. batch[r] \in SUBSET Event
      BY DEF IInv, TypeInv, TypeOK
    <3>2. Promise!Acknowledge(batch[r])
      BY <2>1 DEF MarkSynced, IInv, MarkedIsStored, Promise!Acknowledge
    <3> QED
      BY <3>1, <3>2 DEF Promise!Next
  <2> QED
    BY <1>2, <2>1
    DEF Work, End, Pause, FindNothing, Post, PostNothing, PostFails,
        RecordFailure, Die, WaitReturns, ClearWake
<1>3. ASSUME NEW q \in requests, Answer(q) \/ AnswerLost(q) \/ RequestLost(q)
      PROVE  [Promise!Next]_(Promise!vars)
  <2>1. CASE Ingest(q)
    <3>1. q.batch \in SUBSET Event /\ q.batch \subseteq 1..logged
      BY DEF IInv, TypeInv, TypeOK, Request, BatchesLogged
    <3>2. Promise!Store(q.batch)
      BY <2>1, <3>1 DEF Ingest, Promise!Store
    <3> QED
      BY <3>1, <3>2 DEF Promise!Next
  <2> QED
    BY <1>3, <2>1 DEF Answer, AnswerLost, RequestLost
<1>4. ASSUME NEW t \in UIThread, Toggle(t)
      PROVE  [Promise!Next]_(Promise!vars)
  BY <1>4 DEF Toggle, BeginToggle, PersistSetting, AbandonToggle, SetFlag,
              WakeAfterToggle
<1>5. CASE UNCHANGED vars
  BY <1>5 DEF vars
<1> QED
  BY <1>1, <1>2, <1>3, <1>4, <1>5 DEF Next

\* The uploader implements the abstract delivery of events.
THEOREM RefinesDelivery == Spec => ImplementsDelivery
<1>1. Init => Promise!Init
  BY DEF Init, Promise!Init
<1> QED
  BY <1>1, UploaderInvariant, StepImplements, PTL
  DEF Spec, ImplementsDelivery, Promise!Spec

-----------------------------------------------------------------------------
(* A worker that is told to stop winds down: what StoppedWorkerEnds has      *)
(* besides fairness.                                                         *)

\* How far the worker is from its end; a pass is not begun any more.
Left(label) ==
    CASE label = "ended" -> 0
      [] label = "pass" -> 1
      [] label = "clear" -> 2
      [] label \in {"sleep", "doze"} -> 3
      [] label \in {"mark", "fail"} -> 4
      [] label = "post" -> 5
      [] OTHER -> 6

Stopped(r) == r \in stopping /\ pc[r] # "ended"

\* Only the kill of its process takes the order back, and ends the worker.
StopHolds(r) == r \in stopping' \/ pc'[r] = "ended"

\* No step of anyone leads a stopped worker away from its end, and its own lead
\* there.
WindsDown ==
    \A r \in Run :
        Stopped(r) =>
            /\ StopHolds(r)
            /\ pc'[r] = pc[r] \/ Left(pc'[r]) < Left(pc[r])
            /\ Work(r) => Left(pc'[r]) < Left(pc[r])

\* It has such a step, or has one once stop() gets to its wake-up.
StoppedCanGoOn ==
    \A r \in Run :
        Stopped(r) =>
            \/ pc[r] \in {"pass", "post", "mark", "fail", "sleep", "clear"}
            \/ pc[r] = "doze" /\ r \in wake
            \/ pc[r] = "doze" /\ main = "stopping" /\ r = run

\* Only the worker of a run that has begun is told to stop.
RunsBegun ==
    \A r \in Run :
        /\ r <= run => pc[r] # "new"
        /\ r \in stopping => r <= run

LEMMA WorkWindsDown ==
    ASSUME IInv, NEW r \in Run, r \in stopping, Work(r)
    PROVE  /\ stopping' = stopping
           /\ \A s \in Run \ {r} : pc'[s] = pc[s]
           /\ Left(pc'[r]) < Left(pc[r])
           /\ pc'[r] # "new"
<1>1. pc \in [Run -> PC]
  BY DEF IInv, TypeInv, TypeOK
<1>2. ~Passing(r)
  BY DEF Passing, ToldToStop
<1>3. stopping' = stopping /\ \A s \in Run \ {r} : pc'[s] = pc[s]
  BY <1>1, <1>2
  DEF Work, End, Pause, FindNothing, Post, PostNothing, PostFails, MarkSynced,
      RecordFailure, Die, WaitReturns, ClearWake, Goto
<1>4. \/ pc[r] = "pass" /\ pc'[r] = "ended"
      \/ pc[r] = "post" /\ pc'[r] = "fail"
      \/ pc[r] \in {"mark", "fail"} /\ pc'[r] \in {"sleep", "ended"}
      \/ pc[r] \in {"sleep", "doze"} /\ pc'[r] = "clear"
      \/ pc[r] = "clear" /\ pc'[r] = "pass"
  BY <1>1, <1>2
  DEF Work, End, Pause, FindNothing, Post, PostNothing, PostFails, MarkSynced,
      RecordFailure, Die, WaitReturns, ClearWake, Goto
<1> QED
  BY <1>3, <1>4 DEF Left

\* What other steps do to the workers that are told to stop.
LEMMA OthersWindDown ==
    ASSUME IInv, RunsBegun, NEW r \in Run, r \in stopping, [Next]_vars, ~Work(r)
    PROVE  /\ StopHolds(r)
           /\ \/ pc'[r] = pc[r]
              \/ pc'[r] = "ended"
              \/ pc[r] = "post" /\ pc'[r] = "mark"
<1>1. pc \in [Run -> PC] /\ run \in 0..MaxRuns /\ MaxRuns \in Nat
  BY WorkerBoundAssumption DEF IInv, TypeInv, TypeOK
<1> USE DEF StopHolds, database, worker, api, Goto
<1>2. CASE Main
  <2>1. CASE StartAgent
    <3>1. r <= run
      BY DEF RunsBegun
    <3>2. pc'[r] = pc[r] /\ stopping' = stopping
      BY <1>1, <2>1, <3>1 DEF StartAgent, Run
    <3> QED
      BY <3>2
  <2>2. CASE Kill
    BY <1>1, <2>2 DEF Kill, RunsBegun
  <2> QED
    BY <1>1, <1>2, <2>1, <2>2
    DEF Main, InsertEvent, SetStopEvent, StopWorker, WakeToStop, CloseStorage
<1>3. ASSUME NEW s \in Run, Work(s) PROVE pc'[r] = pc[r] /\ stopping' = stopping
  BY <1>1, <1>3
  DEF Work, End, Pause, FindNothing, Post, PostNothing, PostFails, MarkSynced,
      RecordFailure, Die, WaitReturns, ClearWake
<1>4. ASSUME NEW q \in requests, Answer(q) \/ AnswerLost(q) \/ RequestLost(q)
      PROVE  /\ stopping' = stopping
             /\ \/ pc'[r] = pc[r]
                \/ pc[r] = "post" /\ pc'[r] = "mark"
  BY <1>1, <1>4 DEF Answer, AnswerLost, RequestLost, Ingest
<1>5. ASSUME NEW t \in UIThread, Toggle(t) PROVE pc' = pc /\ stopping' = stopping
  BY <1>5
  DEF Toggle, BeginToggle, PersistSetting, AbandonToggle, SetFlag, WakeAfterToggle
<1>6. CASE UNCHANGED vars
  BY <1>6 DEF vars
<1> QED
  BY <1>2, <1>3, <1>4, <1>5, <1>6 DEF Next

LEMMA RunsBegunStep == IInv /\ RunsBegun /\ [Next]_vars => RunsBegun'
<1> SUFFICES ASSUME IInv, RunsBegun, [Next]_vars PROVE RunsBegun'
  OBVIOUS
<1>1. pc \in [Run -> PC] /\ run \in 0..MaxRuns /\ MaxRuns \in Nat
  BY WorkerBoundAssumption DEF IInv, TypeInv, TypeOK
<1>2. main # "down" => run \in Run
  BY DEF IInv, TypeInv
<1> USE DEF RunsBegun, database, worker, api, Goto
<1>3. ASSUME run' = run, stopping' = stopping,
             \A r \in Run : pc'[r] = pc[r] \/ pc'[r] # "new"
      PROVE  RunsBegun'
  BY <1>3
<1>4. CASE Main
  <2>1. CASE StartAgent
    BY <1>1, <2>1 DEF StartAgent, Run
  <2>2. CASE StopWorker
    BY <1>1, <1>2, <2>2 DEF StopWorker, Run
  <2>3. CASE Kill
    BY <1>1, <2>3 DEF Kill, Run
  <2>4. CASE InsertEvent \/ SetStopEvent \/ WakeToStop \/ CloseStorage
    BY <1>3, <2>4 DEF InsertEvent, SetStopEvent, WakeToStop, CloseStorage
  <2> QED
    BY <1>4, <2>1, <2>2, <2>3, <2>4 DEF Main
<1>5. ASSUME NEW r \in Run, Work(r) PROVE RunsBegun'
  <2>1. /\ run' = run /\ stopping' = stopping
        /\ \A s \in Run : pc'[s] = pc[s] \/ pc'[s] # "new"
    BY <1>1, <1>5
    DEF Work, End, Pause, FindNothing, Post, PostNothing, PostFails, MarkSynced,
        RecordFailure, Die, WaitReturns, ClearWake
  <2> QED
    BY <1>3, <2>1
<1>6. ASSUME NEW q \in requests, Answer(q) \/ AnswerLost(q) \/ RequestLost(q)
      PROVE  RunsBegun'
  <2>1. /\ run' = run /\ stopping' = stopping
        /\ \A s \in Run : pc'[s] = pc[s] \/ pc'[s] # "new"
    BY <1>1, <1>6 DEF Answer, AnswerLost, RequestLost, Ingest
  <2> QED
    BY <1>3, <2>1
<1>7. ASSUME NEW t \in UIThread, Toggle(t) PROVE RunsBegun'
  <2>1. run' = run /\ stopping' = stopping /\ pc' = pc
    BY <1>7
    DEF Toggle, BeginToggle, PersistSetting, AbandonToggle, SetFlag, WakeAfterToggle
  <2> QED
    BY <1>3, <2>1
<1>8. CASE UNCHANGED vars
  BY <1>3, <1>8 DEF vars
<1> QED
  BY <1>4, <1>5, <1>6, <1>7, <1>8 DEF Next

LEMMA WindsDownStep == IInv /\ RunsBegun /\ [Next]_vars => WindsDown
<1> SUFFICES ASSUME IInv, RunsBegun, [Next]_vars, NEW r \in Run, Stopped(r)
             PROVE  /\ StopHolds(r)
                    /\ pc'[r] = pc[r] \/ Left(pc'[r]) < Left(pc[r])
                    /\ Work(r) => Left(pc'[r]) < Left(pc[r])
  BY DEF WindsDown
<1>1. r \in stopping /\ pc[r] # "ended" /\ pc[r] \in PC
  BY DEF Stopped, IInv, TypeInv, TypeOK
<1>2. CASE Work(r)
  BY <1>1, <1>2, WorkWindsDown DEF StopHolds
<1>3. CASE ~Work(r)
  <2>1. /\ StopHolds(r)
        /\ \/ pc'[r] = pc[r]
           \/ pc'[r] = "ended"
           \/ pc[r] = "post" /\ pc'[r] = "mark"
    BY <1>1, <1>3, OthersWindDown
  <2>2. pc'[r] = "ended" => Left(pc'[r]) < Left(pc[r])
    BY <1>1 DEF Left, PC
  <2>3. pc[r] = "post" /\ pc'[r] = "mark" => Left(pc'[r]) < Left(pc[r])
    BY DEF Left
  <2> QED
    BY <1>3, <2>1, <2>2, <2>3
<1> QED
  BY <1>2, <1>3

(***************************************************************************)
(* A worker that is told to stop winds down: it never begins another       *)
(* upload, every step of its own brings it nearer to its end (five at      *)
(* most), no step of another thread, of a toggle or of the API takes it    *)
(* back, and it dozes without a wake-up only while stop() is about to send *)
(* one.  With the fairness of its thread it ends (StoppedWorkerEnds), for  *)
(* any number of runs, threads and events.                                 *)
(***************************************************************************)
THEOREM StoppedWorkersWindDown == Spec => []StoppedCanGoOn /\ [][WindsDown]_vars
<1>1. Init => RunsBegun
  BY WorkerBoundAssumption DEF Init, RunsBegun, Run
<1>2. IInv /\ RunsBegun => StoppedCanGoOn
  BY DEF IInv, TypeInv, TypeOK, PC, RunsBegun, NoLostWakeUp, StoppedCanGoOn, Stopped
<1> QED
  BY <1>1, <1>2, RunsBegunStep, WindsDownStep, UploaderInvariant, PTL DEF Spec
=============================================================================
