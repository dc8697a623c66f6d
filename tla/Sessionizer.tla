---------------------------- MODULE Sessionizer ----------------------------
(***************************************************************************)
(* The sessionization workers: api/app/services/session.py running in      *)
(* Celery tasks (api/app/workers/) over PostgreSQL.                        *)
(*                                                                         *)
(* A task is one transaction.  It claims pending heartbeats with           *)
(*   SELECT ... FOR UPDATE SKIP LOCKED, builds one session row per state,  *)
(* upserts the rows one after the other, stamps the heartbeats             *)
(* processed and commits.  Until then its writes are its own and the rows  *)
(* it wrote are locked; if it fails they are rolled back.                  *)
(*                                                                         *)
(*   claim         -->  upsert  -->  ...  -->  upsert  -->  commit         *)
(*   (locks heartbeats) (locks one session row each)        (unlocks)      *)
(***************************************************************************)
EXTENDS SessionDerivation

CONSTANTS
    Workers,     \* Celery worker processes
    BatchLimit,  \* BATCH_LIMIT
    MaxCrashes   \* bound: tasks that fail before their commit

ASSUME LimitAssumption == BatchLimit \in Nat \ {0} /\ MaxCrashes \in Nat
ASSUME WorkersAssumption == IsFiniteSet(Workers) /\ Workers # {}

VARIABLES
    heartbeats,  \* committed rows of table heartbeats
    processed,   \* those with processed_at set
    sessions,    \* key -> committed row of table sessions, or NoSession
    batch,       \* worker -> heartbeats it holds FOR UPDATE
    draft,       \* worker -> key -> row it has written but not committed
    crashes      \* tasks failed so far

vars == <<heartbeats, processed, sessions, batch, draft, crashes>>

NoRows == [k \in SessionKey |-> NoSession]

TypeOK ==
    /\ heartbeats \subseteq Heartbeat
    /\ processed \subseteq heartbeats
    /\ sessions \in [SessionKey -> SessionRow \cup {NoSession}]
    /\ batch \in [Workers -> SUBSET Heartbeat]
    /\ draft \in [Workers -> [SessionKey -> SessionRow \cup {NoSession}]]
    /\ crashes \in Nat

Init ==
    /\ heartbeats = {}
    /\ processed = {}
    /\ sessions = NoRows
    /\ batch = [w \in Workers |-> {}]
    /\ draft = [w \in Workers |-> NoRows]
    /\ crashes = 0

-----------------------------------------------------------------------------
(* POST /heartbeats *)

\* INSERT ... ON CONFLICT DO NOTHING, committed at once.
Ingest(rows) ==
    /\ heartbeats' = heartbeats \cup rows
    /\ UNCHANGED <<processed, sessions, batch, draft, crashes>>

-----------------------------------------------------------------------------
(* The task *)

Claimed == UNION {batch[w] : w \in Workers}

\* Mutants: without FOR UPDATE SKIP LOCKED; only states that have ended.
ClaimableUnlocked == heartbeats \ processed

ClaimableEnded ==
    {h \in (heartbeats \ processed) \ Claimed :
        EndTimestamps(EventsOf(heartbeats, KeyOf(h))) # {}}

\* WHERE processed_at IS NULL ... SKIP LOCKED
Claimable == (heartbeats \ processed) \ Claimed

\* ORDER BY ... LIMIT over the rows that are not skipped.
FirstRows(rows) ==
    {h \in rows : Cardinality({g \in rows : Before(g, h)}) < BatchLimit}

\* A task that finds nothing to claim returns without a trace.
Claim(w) ==
    /\ batch[w] = {}
    /\ Claimable # {}
    /\ batch' = [batch EXCEPT ![w] = FirstRows(Claimable)]
    /\ UNCHANGED <<heartbeats, processed, sessions, draft, crashes>>

Written(w) == {k \in SessionKey : draft[w][k] # NoSession}

\* Mutant: the rows are inserted in no particular order.
IsAnyRow(w, k) == k \in KeysOf(batch[w]) \ Written(w)

\* The row the INSERT reaches next.
IsNextRow(w, k) ==
    /\ k \in KeysOf(batch[w]) \ Written(w)
    /\ \A j \in KeysOf(batch[w]) \ Written(w) :
          j # k => EarlierKey(batch[w], k, j)

LockedByOther(w, k) == \E v \in Workers \ {w} : k \in Written(v)

\* ON CONFLICT waits for a transaction that wrote the same key, inserted or
\* updated, and then folds the new row into what that one committed.
UpsertRow(w, k) ==
    /\ IsNextRow(w, k)
    /\ ~LockedByOther(w, k)
    /\ draft' = [draft EXCEPT ![w][k] =
                    UpsertSession(sessions[k],
                                  BuildSession(EventsOf(batch[w], k)))]
    /\ UNCHANGED <<heartbeats, processed, sessions, batch, crashes>>

\* Mutant: the sessions are committed before the heartbeats are stamped, and a
\* crash comes in between.
CommitSessionsOnly(w) ==
    /\ batch[w] # {}
    /\ KeysOf(batch[w]) = Written(w)
    /\ sessions' = [k \in SessionKey |->
                       IF k \in Written(w) THEN draft[w][k] ELSE sessions[k]]
    /\ batch' = [batch EXCEPT ![w] = {}]
    /\ draft' = [draft EXCEPT ![w] = NoRows]
    /\ UNCHANGED <<heartbeats, processed, crashes>>

\* mark_events_sessionized, then COMMIT: everything the task wrote appears.
Commit(w) ==
    /\ batch[w] # {}
    /\ KeysOf(batch[w]) = Written(w)
    /\ processed' = processed \cup batch[w]
    /\ sessions' = [k \in SessionKey |->
                       IF k \in Written(w) THEN draft[w][k] ELSE sessions[k]]
    /\ batch' = [batch EXCEPT ![w] = {}]
    /\ draft' = [draft EXCEPT ![w] = NoRows]
    /\ UNCHANGED <<heartbeats, crashes>>

Rollback(w) ==
    /\ batch' = [batch EXCEPT ![w] = {}]
    /\ draft' = [draft EXCEPT ![w] = NoRows]
    /\ UNCHANGED <<heartbeats, processed, sessions>>

\* The worker is killed, hits its time limit or raises; the broker redelivers
\* the task (acks_late), and beat sends another one anyway.
Crash(w) ==
    /\ batch[w] # {}
    /\ crashes < MaxCrashes
    /\ Rollback(w)
    /\ crashes' = crashes + 1

\* w waits for a row that v has written.
WaitsFor(w, v) ==
    /\ w # v
    /\ \E k \in SessionKey : IsNextRow(w, k) /\ k \in Written(v)

\* PostgreSQL aborts a transaction it finds in a cycle of waits.  A row has one
\* writer, so a transaction waits for at most one other.
InWaitCycle(w) ==
    \E cycle \in SUBSET Workers :
        /\ w \in cycle
        /\ \A v \in cycle :
              /\ \E u \in cycle : WaitsFor(v, u)
              /\ \E u \in cycle : WaitsFor(u, v)

DeadlockAbort(w) ==
    /\ InWaitCycle(w)
    /\ Rollback(w)
    /\ UNCHANGED crashes

Next ==
    \/ \E rows \in SUBSET Heartbeat : Ingest(rows)
    \/ \E w \in Workers :
          \/ Claim(w)
          \/ \E k \in SessionKey : UpsertRow(w, k)
          \/ Commit(w)
          \/ Crash(w)
          \/ DeadlockAbort(w)

\* Beat sends a task every 30 s and a free worker takes it; a running task
\* goes on; lock waits are granted in turn (strong fairness, as another worker
\* may take the row first but not for ever); the deadlock detector runs.
Fairness ==
    \A w \in Workers :
        /\ WF_vars(Claim(w))
        /\ \A k \in SessionKey : SF_vars(UpsertRow(w, k))
        /\ WF_vars(Commit(w))
        /\ WF_vars(DeadlockAbort(w))

Spec == Init /\ [][Next]_vars /\ Fairness

-----------------------------------------------------------------------------
(* Properties *)

\* "two workers never take the same row" (README.md): a heartbeat is held by
\* at most one task, and by none once it is stamped processed.
NoDoubleClaim ==
    /\ \A v, w \in Workers : v # w => batch[v] \cap batch[w] = {}
    /\ \A w \in Workers : batch[w] \cap processed = {}

StoredKeys == {k \in SessionKey : sessions[k] # NoSession}

\* No lost update and no half-applied batch: the stretch of every committed
\* session is exactly what the heartbeats stamped processed establish, whatever
\* batches they came in, in whatever order, and whoever crashed on the way.
SessionsDeriveFromProcessed ==
    \A k \in SessionKey :
        LET events == EventsOf(processed, k)
        IN  IF events = {} THEN sessions[k] = NoSession
            ELSE /\ sessions[k] # NoSession
                 /\ sessions[k].start = StartOf(events)
                 /\ sessions[k].end = EndOf(events)

\* A session that has ended is the row a single run over its heartbeats would
\* build, duration included: it can be "recomputed from the raw events".
ClosedSessionIsRecomputable ==
    \A k \in SessionKey :
        sessions[k] # NoSession /\ sessions[k].end # NoTime
            => sessions[k] = BuildSession(EventsOf(processed, k))

\* Tracked time is real time: sessions of states that do not overlap never add
\* up to more than the time from the first of their heartbeats to the last.  In
\* particular one session never claims more than its heartbeats are apart.
NeverOverReports ==
    \A keys \in (SUBSET StoredKeys) \ {{}} :
        LET events == {h \in processed : KeyOf(h) \in keys}
            times  == Timestamps(events)
        IN  IsFiniteSet(keys) /\ OneAfterAnother(events) =>
                SumFunction([k \in keys |-> sessions[k].duration])
                    <= Max(times) - Min(times)

\* The same for sessions still open: refuted, see the README.
SessionIsRecomputable ==
    \A k \in SessionKey :
        sessions[k] # NoSession
            => sessions[k] = BuildSession(EventsOf(processed, k))

\* The events of a device's states do not interleave, as those of an agent whose
\* clock goes on between any two of them (theorem RowsAreAsAssumed).  Not being
\* set back is not enough: ids are random, and those of a STATE_END and the next
\* STATE_START with the same timestamp may be in the wrong order.
StatesApart == Apart(heartbeats)

\* As long as they do not, tasks never wait for each other in a circle: every
\* batch reaches the rows in the same order, whatever it is made of.
NoWaitCycle == StatesApart => \A w \in Workers : ~InWaitCycle(w)

\* A committed session is never deleted, never starts later, and once ended
\* keeps its end.
SessionsOnlyGrow ==
    [][\A k \in SessionKey :
          sessions[k] # NoSession =>
              /\ sessions'[k] # NoSession
              /\ sessions'[k].start <= sessions[k].start
              /\ sessions[k].end # NoTime => sessions'[k].end = sessions[k].end
      ]_vars

\* Every heartbeat that was stored is grouped into a session in the end.
EveryHeartbeatProcessed ==
    \A h \in Heartbeat : h \in heartbeats ~> h \in processed

-----------------------------------------------------------------------------
(* Refinement *)

Stretch(row) ==
    IF row = NoSession THEN NoSession
    ELSE [start |-> row.start, end |-> row.end]

Log == INSTANCE SessionLog
       WITH stretch <- [k \in SessionKey |-> Stretch(sessions[k])]

\* The workers implement the derivation they are meant to compute.
ImplementsSessionLog == Log!Spec
=============================================================================
