---------------------------- MODULE SessionReads ----------------------------
(***************************************************************************)
(* Reading sessions while workers change them: api/app/services/analytics.py *)
(* with the queries of api/app/repos/sessions.py.                          *)
(*                                                                         *)
(* GET /sessions is paged: the client hands back the cursor of a page to   *)
(* get the next one.  GET /stats/applications makes two queries, and GET   *)
(* /stats/summary one.  A query sees what is committed when it is made     *)
(* (READ COMMITTED), so a worker may commit between two of them.  A commit *)
(* may move the start of a session to earlier, and requests say from when  *)
(* to when a session has to start.                                         *)
(*                                                                         *)
(* One client reads, beside the workers of module Sessionizer.  Requests   *)
(* share nothing, so one chain of them stands for all.                     *)
(***************************************************************************)
EXTENDS Sessionizer

CONSTANTS
    SessionId,    \* key -> id of its row: a random UUID
    Application,  \* key -> column application
    Requests,     \* requests clients may send
    Clock,        \* instants the API's clock may show
    DefaultSpan,  \* DEFAULT_WINDOW_HOURS
    MaxSpan,      \* MAX_WINDOW_DAYS
    DayLength,    \* length of a day in the client's time zone
    NoCursor      \* the first page is asked for

\* The rows that are the user's and pass the filters (application, device,
\* source) are a set of keys, as no worker changes these columns.
Request ==
    [start : Time \cup {NoTime}, end : Time \cup {NoTime},
     scope : SUBSET SessionKey, limit : Nat \ {0}]

ASSUME RowAssumption ==
    /\ SessionId \in [SessionKey -> Nat]
    /\ \A j, k \in SessionKey : SessionId[j] = SessionId[k] => j = k
    /\ Application = [k \in SessionKey |-> Application[k]]
ASSUME RequestAssumption == Requests \subseteq Request /\ Clock \subseteq Nat
ASSUME FiniteAssumption == IsFiniteSet(Heartbeat)
ASSUME SpanAssumption ==
    DefaultSpan \in Nat \ {0} /\ MaxSpan \in Nat /\ DayLength \in Nat \ {0}

\* A place in the listing.
Position == [start : Time, id : Nat]

ASSUME CursorAssumption == NoCursor \notin Position

VARIABLES
    now,         \* the API's clock
    phase,       \* where the client is
    request,     \* what it asked for
    window,      \* the window of the query made last
    cursor,      \* next_cursor of the last page
    page,        \* positions of the items of the last page
    ranked,      \* the rows of time_per_application
    whole,       \* total_duration
    (* history *)
    listed,      \* positions on the pages before
    throughout,  \* the sessions every query of the request found
    strayed      \* those its second query did not find any more

history == <<listed, throughout, strayed>>
client == <<phase, request, window, cursor, page, ranked, whole, history>>
readVars == <<vars, now, client>>

ReadsTypeOK ==
    /\ now \in Clock
    /\ phase \in {"idle", "listing", "listed", "totalling", "answered", "refused"}
    /\ phase # "idle" => request \in Requests
    /\ window \in [start : Int, end : Int]
    /\ cursor \in Position \cup {NoCursor}
    /\ page \subseteq Position
    /\ listed \subseteq Position
    /\ throughout \subseteq SessionKey
    /\ strayed \subseteq SessionKey

ReadsInit ==
    /\ Init
    /\ now \in Clock
    /\ phase = "idle"
    /\ request = {}
    /\ window = [start |-> 0, end |-> 0]
    /\ cursor = NoCursor
    /\ page = {}
    /\ ranked = {}
    /\ whole = 0
    /\ listed = {}
    /\ throughout = {}
    /\ strayed = {}

-----------------------------------------------------------------------------
(* The window and its sessions *)

\* resolve_window: the end defaults to now, the start to some hours before.
ResolveWindow(r) ==
    LET end == IF r.end = NoTime THEN now ELSE r.end
    IN  [start |-> IF r.start = NoTime THEN end - DefaultSpan ELSE r.start,
         end   |-> end]

IsWindow(w) == w.start < w.end /\ w.end - w.start <= MaxSpan

\* Mutant: BETWEEN start AND end.
InClosedWindow(k, w) ==
    /\ sessions[k] # NoSession
    /\ w.start <= sessions[k].start
    /\ sessions[k].start <= w.end

\* _session_filters
InWindow(k, w) ==
    /\ sessions[k] # NoSession
    /\ w.start <= sessions[k].start
    /\ sessions[k].start < w.end

Matching(scope, w) == {k \in scope : InWindow(k, w)}

-----------------------------------------------------------------------------
(* GET /sessions *)

PositionOf(k) == [start |-> sessions[k].start, id |-> SessionId[k]]

\* Mutant: oldest first, against the direction in which starts move.
PrecedesOldestFirst(p, q) ==
    p.start < q.start \/ (p.start = q.start /\ p.id < q.id)

\* ORDER BY start_time DESC, id DESC
Precedes(p, q) ==
    p.start > q.start \/ (p.start = q.start /\ p.id > q.id)

\* Mutant: id <= cursor_id.
FromCursor(keys) ==
    {k \in keys : cursor # NoCursor =>
                     PositionOf(k) = cursor \/ Precedes(cursor, PositionOf(k))}

BeyondCursor(keys) ==
    {k \in keys : cursor # NoCursor => Precedes(cursor, PositionOf(k))}

\* LIMIT n
FirstSessions(keys, n) ==
    {k \in keys :
        Cardinality({j \in keys : Precedes(PositionOf(j), PositionOf(k))}) < n}

Asks(r) == phase = "idle" \/ (phase = "listing" /\ r = request)

\* One row more than the page holds was asked for; if it is there, there is a
\* next page, and its cursor is the last item's.
NextCursor(rows, items) ==
    /\ rows # items
    /\ \E last \in items :
          /\ \A k \in items \ {last} : Precedes(PositionOf(k), PositionOf(last))
          /\ cursor' = PositionOf(last)

ListPage(r) ==
    LET w     == ResolveWindow(r)
        found == Matching(r.scope, w)
        rows  == FirstSessions(BeyondCursor(found), r.limit + 1)
        items == FirstSessions(rows, r.limit)
    IN  /\ Asks(r)
        /\ IsWindow(w)
        /\ request' = r
        /\ window' = w
        /\ page' = {PositionOf(k) : k \in items}
        /\ listed' = listed \cup page
        /\ throughout' = IF phase = "idle" THEN found ELSE throughout \cap found
        /\ \/ NextCursor(rows, items) /\ phase' = "listing"
           \/ rows = items /\ cursor' = NoCursor /\ phase' = "listed"
        /\ UNCHANGED <<vars, now, ranked, whole, strayed>>

\* HTTP 422, on whichever page: with a default end the window grows or moves.
RefuseWindow(r) ==
    /\ Asks(r)
    /\ ~IsWindow(ResolveWindow(r))
    /\ request' = r
    /\ phase' = "refused"
    /\ UNCHANGED <<vars, now, window, cursor, page, ranked, whole, history>>

-----------------------------------------------------------------------------
(* GET /stats/summary and GET /stats/applications *)

\* SUM(duration), 0 over no rows.
Seconds(keys) == SumFunction([k \in keys |-> sessions[k].duration])

LocalDay(k) == sessions[k].start \div DayLength

\* summarize_sessions: one query.  MAX and MIN of no rows are NULL.
SummarizeSessions(found) ==
    LET starts == {sessions[k].start : k \in found}
        ends   == {IF sessions[k].end = NoTime THEN sessions[k].start
                   ELSE sessions[k].end : k \in found}
    IN  [total_seconds  |-> Seconds(found),
         session_count  |-> Cardinality(found),
         active_days    |-> Cardinality({LocalDay(k) : k \in found}),
         longest        |-> IF found = {} THEN NoTime
                            ELSE Max({sessions[k].duration : k \in found}),
         first_activity |-> IF found = {} THEN NoTime ELSE Min(starts),
         last_activity  |-> IF found = {} THEN NoTime ELSE Max(ends)]

\* The answer: NULL counts as 0, and the mean is over the active days.
Summary(scope, w) ==
    LET row == SummarizeSessions(Matching(scope, w))
    IN  [total_seconds  |-> row.total_seconds,
         session_count  |-> row.session_count,
         active_days    |-> row.active_days,
         average        |-> IF row.active_days = 0 THEN 0
                            ELSE row.total_seconds \div row.active_days,
         longest        |-> IF row.longest = NoTime THEN 0 ELSE row.longest,
         first_activity |-> row.first_activity,
         last_activity  |-> row.last_activity]

\* time_per_application: GROUP BY application ...
Groups(found) ==
    LET Of(a) == {k \in found : Application[k] = a}
    IN  {[application   |-> a,
          total_seconds |-> Seconds(Of(a)),
          session_count |-> Cardinality(Of(a))] :
             a \in {Application[k] : k \in found}}

\* ... ORDER BY total_seconds DESC LIMIT n; ties in any order.
Largest(groups, n, chosen) ==
    /\ chosen \subseteq groups
    /\ Cardinality(chosen) <= n
    /\ chosen # groups => Cardinality(chosen) = n
    /\ \A g \in chosen, h \in groups \ chosen :
          g.total_seconds >= h.total_seconds

RankApplications(r) ==
    LET w     == ResolveWindow(r)
        found == Matching(r.scope, w)
    IN  /\ phase = "idle"
        /\ IsWindow(w)
        /\ request' = r
        /\ window' = w
        /\ \E chosen \in SUBSET Groups(found) :
              Largest(Groups(found), r.limit, chosen) /\ ranked' = chosen
        /\ throughout' = found
        /\ phase' = "totalling"
        /\ UNCHANGED <<vars, now, cursor, page, listed, whole, strayed>>

\* Mutant: the window is resolved anew for the second query.
TotalOfNewWindow ==
    LET found == Matching(request.scope, ResolveWindow(request))
    IN  /\ phase = "totalling"
        /\ whole' = Seconds(found)
        /\ strayed' = throughout \ Matching(request.scope, window)
        /\ phase' = "answered"
        /\ UNCHANGED <<vars, now, request, window, cursor, page, ranked,
                       listed, throughout>>

\* total_duration, of which the answer gives each row its share in percent.
TotalDuration ==
    LET found == Matching(request.scope, window)
    IN  /\ phase = "totalling"
        /\ whole' = Seconds(found)
        /\ strayed' = throughout \ found
        /\ phase' = "answered"
        /\ UNCHANGED <<vars, now, request, window, cursor, page, ranked,
                       listed, throughout>>

-----------------------------------------------------------------------------

Tick ==
    /\ now + 1 \in Clock
    /\ now' = now + 1
    /\ UNCHANGED <<vars, client>>

Read(r) == ListPage(r) \/ RefuseWindow(r) \/ RankApplications(r)

ReadsNext ==
    \/ Next /\ UNCHANGED <<now, client>>
    \/ Tick
    \/ \E r \in Requests : Read(r)
    \/ TotalDuration

\* A client that was given a cursor asks for the next page.
ReadsFairness == WF_readVars(phase = "listing" /\ \E r \in Requests : Read(r))

ReadsSpec == ReadsInit /\ [][ReadsNext]_readVars /\ ReadsFairness

-----------------------------------------------------------------------------
(* Properties *)

\* Paging leaves nothing out: when there is no next page, every session that
\* was there and in the window at every page has been listed, though workers
\* moved it, ended it or inserted others while the client was reading.
NothingSkipped ==
    phase = "listed" =>
        \A k \in throughout : \E p \in listed \cup page : p.id = SessionId[k]

\* Page after page the listing goes down in time, as if it had been one query:
\* a session is listed again only if its start was moved in the meantime.
ListingDescends == \A p \in listed, q \in page : Precedes(p, q)

\* A client that follows the cursors comes to an end.
PagingEnds == phase = "listing" ~> phase # "listing"

\* The events of a state end with its STATE_END, as those of an agent whose
\* clock is not set back.
StatesRunForward == RunForward(heartbeats)

\* The rows of /stats/applications are parts of one whole, and no share is over
\* 100 per cent, although the parts and the whole are read by two queries:
\* unless a session has left the window between them, its start moved.
PartsWithinWhole ==
    phase = "answered" /\ strayed = {} /\ StatesRunForward =>
        SumFunction([g \in ranked |-> g.total_seconds]) <= whole

\* Windows that adjoin lose nothing and count nothing twice: every session is
\* in the one it starts in.  Cut at midnight, the active days add up as well.
AdjoiningWindowsAddUp ==
    \A a, b, c \in Time :
        a < b /\ b < c =>
            LET scope == SessionKey
                first  == Summary(scope, [start |-> a, end |-> b])
                second == Summary(scope, [start |-> b, end |-> c])
                both   == Summary(scope, [start |-> a, end |-> c])
            IN  /\ both.total_seconds = first.total_seconds + second.total_seconds
                /\ both.session_count = first.session_count + second.session_count
                /\ b % DayLength = 0 =>
                      both.active_days = first.active_days + second.active_days
=============================================================================
