------------------------- MODULE SessionReadsProofs -------------------------
(***************************************************************************)
(* Proofs about SessionReads, for any number of sessions, workers and      *)
(* heartbeats, any requests and any clock: paging is complete and in order *)
(* although the rows change and comes to an end, and the statistics agree  *)
(* with each other.                                                        *)
(*                                                                         *)
(* For paging, a page is a prefix of what lies beyond its cursor           *)
(* (FirstIsPrefix, LastPage), so nothing stays behind when it is read, and *)
(* between two pages a start only moves to earlier (SessionGrowsStep),     *)
(* from which a session cannot slip past the cursor.  For the ranking, a   *)
(* session that stays in the window only grows between the two queries.    *)
(***************************************************************************)
EXTENDS SessionReads, SessionizerProofs

-----------------------------------------------------------------------------
(* The order of the listing *)

LEMMA PrecedesOrder ==
    ASSUME NEW p \in Position, NEW q \in Position
    PROVE  /\ p # q => Precedes(p, q) \/ Precedes(q, p)
           /\ ~ (Precedes(p, q) /\ Precedes(q, p))
           /\ ~ Precedes(p, p)
           /\ \A r \in Position : Precedes(p, q) /\ Precedes(q, r) => Precedes(p, r)
<1>1. /\ p.start \in Int /\ p.id \in Int /\ q.start \in Int /\ q.id \in Int
      /\ \A r \in Position : r.start \in Int /\ r.id \in Int
  BY BoundAssumption DEF Position, Time
<1>2. p.start = q.start /\ p.id = q.id => p = q
  BY DEF Position
<1> QED
  BY <1>1, <1>2 DEF Precedes

LEMMA KeysAreFinite == IsFiniteSet(SessionKey)
<1> DEFINE key == [h \in Heartbeat |-> KeyOf(h)]
<1>1. key \in Surjection(Heartbeat, SessionKey)
  BY DEF Surjection, SessionKey
<1> QED
  BY <1>1, FiniteAssumption, FS_Surjection

\* Keys that have a session: a position each, and no two the same.
Listable(keys) == keys \subseteq SessionKey /\ \A k \in keys : PositionOf(k) \in Position

LEMMA ListableFacts ==
    ASSUME NEW keys, Listable(keys)
    PROVE  /\ IsFiniteSet(keys) /\ Cardinality(keys) \in Nat
           /\ \A j, k \in keys : j # k =>
                 \/ Precedes(PositionOf(j), PositionOf(k))
                 \/ Precedes(PositionOf(k), PositionOf(j))
<1>1. IsFiniteSet(keys)
  BY KeysAreFinite, FS_Subset DEF Listable
<1>2. ASSUME NEW j \in keys, NEW k \in keys, j # k
      PROVE  PositionOf(j) # PositionOf(k)
  <2>1. SessionId[j] # SessionId[k]
    BY <1>2, RowAssumption DEF Listable
  <2> QED
    BY <2>1 DEF PositionOf
<1> QED
  BY <1>1, <1>2, FS_CardinalityType, PrecedesOrder DEF Listable

Above(keys, k) == {j \in keys : Precedes(PositionOf(j), PositionOf(k))}

LEMMA AboveFacts ==
    ASSUME NEW keys, Listable(keys), NEW j \in keys, NEW k \in keys,
           Precedes(PositionOf(j), PositionOf(k))
    PROVE  /\ Cardinality(Above(keys, j)) \in Nat
           /\ Cardinality(Above(keys, k)) \in Nat
           /\ Cardinality(Above(keys, j)) < Cardinality(Above(keys, k))
<1>1. Above(keys, j) \subseteq Above(keys, k)
  BY PrecedesOrder DEF Above, Listable
<1>2. j \in Above(keys, k) /\ j \notin Above(keys, j)
  BY PrecedesOrder DEF Above, Listable
<1>3. IsFiniteSet(Above(keys, k)) /\ IsFiniteSet(Above(keys, j))
  BY ListableFacts, FS_Subset DEF Above
<1>4. /\ Cardinality(Above(keys, j)) <= Cardinality(Above(keys, k))
      /\ Cardinality(Above(keys, j)) # Cardinality(Above(keys, k))
  BY <1>1, <1>2, <1>3, FS_Subset
<1> QED
  BY <1>3, <1>4, FS_CardinalityType

\* LIMIT n returns a prefix of the listing.
LEMMA FirstIsPrefix ==
    ASSUME NEW keys, Listable(keys), NEW n \in Nat,
           NEW i \in FirstSessions(keys, n), NEW k \in keys \ FirstSessions(keys, n)
    PROVE  Precedes(PositionOf(i), PositionOf(k))
<1>1. /\ i \in keys /\ Cardinality(Above(keys, i)) < n
      /\ ~ (Cardinality(Above(keys, k)) < n)
  BY DEF FirstSessions, Above
<1>2. CASE Precedes(PositionOf(k), PositionOf(i))
  BY <1>1, <1>2, AboveFacts
<1> QED
  BY <1>1, <1>2, ListableFacts

LEMMA FirstExists ==
    ASSUME NEW keys, Listable(keys), NEW S, S \subseteq keys, S # {}
    PROVE  \E k \in S : \A j \in S : ~ Precedes(PositionOf(j), PositionOf(k))
<1> DEFINE ranks == {Cardinality(Above(keys, k)) : k \in S}
<1>1. ASSUME NEW k \in S  PROVE Cardinality(Above(keys, k)) \in Nat
  <2>1. Above(keys, k) \subseteq keys
    BY DEF Above
  <2> QED
    BY <2>1, ListableFacts, FS_Subset, FS_CardinalityType
<1>2. PICK n \in ranks : \A m \in ranks : n <= m
  <2>1. ranks \subseteq Nat /\ ranks # {}
    BY <1>1
  <2> HIDE DEF ranks
  <2> QED
    BY <2>1, LeastOfNaturals
<1>3. PICK k \in S : n = Cardinality(Above(keys, k))
  OBVIOUS
<1>4. ASSUME NEW j \in S, Precedes(PositionOf(j), PositionOf(k))
      PROVE  FALSE
  BY <1>2, <1>3, <1>4, AboveFacts
<1> QED
  BY <1>4

LEMMA LastExists ==
    ASSUME NEW keys, Listable(keys), keys # {}
    PROVE  \E k \in keys : \A j \in keys : ~ Precedes(PositionOf(k), PositionOf(j))
<1> DEFINE Rest(k) == Cardinality(keys) - Cardinality(Above(keys, k))
           rests == {Rest(k) : k \in keys}
<1>1. ASSUME NEW k \in keys
      PROVE  Rest(k) \in Nat /\ Cardinality(Above(keys, k)) \in Nat
  <2>1. Above(keys, k) \subseteq keys
    BY DEF Above
  <2>2. /\ Cardinality(Above(keys, k)) <= Cardinality(keys)
        /\ Cardinality(Above(keys, k)) \in Nat /\ Cardinality(keys) \in Nat
    BY <2>1, ListableFacts, FS_Subset, FS_CardinalityType
  <2> QED
    BY <2>2
<1>2. PICK n \in rests : \A m \in rests : n <= m
  <2>1. rests \subseteq Nat /\ rests # {}
    BY <1>1
  <2> HIDE DEF rests
  <2> QED
    BY <2>1, LeastOfNaturals
<1>3. PICK k \in keys : n = Rest(k)
  OBVIOUS
<1>4. ASSUME NEW j \in keys, Precedes(PositionOf(k), PositionOf(j))
      PROVE  FALSE
  <2>1. Cardinality(Above(keys, k)) < Cardinality(Above(keys, j))
    BY <1>4, AboveFacts
  <2>2. Rest(k) <= Rest(j)
    BY <1>2, <1>3
  <2> QED
    BY <1>1, <2>1, <2>2, ListableFacts
<1> QED
  BY <1>4

\* If the row that was read ahead is missing, the page holds all there is.
LEMMA LastPage ==
    ASSUME NEW keys, Listable(keys), NEW n \in Nat \ {0},
           FirstSessions(FirstSessions(keys, n + 1), n) = FirstSessions(keys, n + 1)
    PROVE  FirstSessions(keys, n + 1) = keys
<1> DEFINE rows == FirstSessions(keys, n + 1)
<1>1. rows \subseteq keys
  BY DEF FirstSessions
<1>2. SUFFICES ASSUME keys \ rows # {} PROVE FALSE
  BY <1>1
<1>3. PICK k \in keys \ rows :
         \A j \in keys \ rows : ~ Precedes(PositionOf(j), PositionOf(k))
  BY <1>2, FirstExists
<1>4. Above(keys, k) \subseteq rows
  BY <1>3 DEF Above
<1>5. ~ (Cardinality(Above(keys, k)) < n + 1)
  BY <1>3 DEF FirstSessions, Above
<1>6. IsFiniteSet(rows) /\ Cardinality(rows) \in Nat
  BY <1>1, ListableFacts, FS_Subset, FS_CardinalityType
<1>7. Cardinality(rows) >= n + 1
  BY <1>4, <1>5, <1>6, FS_Subset, FS_CardinalityType
<1>8. rows = {i \in rows : Cardinality(Above(rows, i)) < n}
  BY DEF FirstSessions, Above
<1>9. Listable(rows)
  BY <1>1 DEF Listable
<1> HIDE DEF rows
<1>10. rows # {}
  BY <1>7, FS_EmptySet
\* The last row has all the others above it.
<1>11. PICK l \in rows : \A j \in rows : ~ Precedes(PositionOf(l), PositionOf(j))
  BY <1>9, <1>10, LastExists
<1>12. rows \ {l} = Above(rows, l)
  <2>1. l \notin Above(rows, l)
    BY <1>9, PrecedesOrder DEF Above, Listable
  <2>2. \A j \in rows \ {l} : j \in Above(rows, l)
    BY <1>9, <1>11, ListableFacts DEF Above
  <2> QED
    BY <2>1, <2>2 DEF Above
<1>13. Cardinality(rows \ {l}) = Cardinality(rows) - 1
  BY <1>6, FS_RemoveElement
<1>14. Cardinality(rows \ {l}) < n
  BY <1>8, <1>12
<1> QED
  BY <1>6, <1>7, <1>13, <1>14

-----------------------------------------------------------------------------
(* The inductive invariant *)

\* The pages so far go down to the cursor.
DownToCursor ==
    phase = "listing" =>
        /\ cursor \in Position
        /\ \A p \in listed \cup page : p = cursor \/ Precedes(p, cursor)

\* A session that was there all the time was listed or lies beyond the cursor.
AccountedFor ==
    phase \in {"listing", "listed"} =>
        \A k \in throughout :
            /\ sessions[k] # NoSession
            /\ \/ \E p \in listed \cup page : p.id = SessionId[k]
               \/ phase = "listing" /\ Precedes(cursor, PositionOf(k))

Fresh == phase = "idle" => cursor = NoCursor /\ listed = {} /\ page = {}

RInv ==
    /\ ReadsTypeOK
    /\ Fresh
    /\ ListingDescends
    /\ DownToCursor
    /\ AccountedFor

LEMMA PositionTyped ==
    ASSUME TypeOK, NEW k \in SessionKey, sessions[k] # NoSession
    PROVE  PositionOf(k) \in Position /\ sessions[k].start \in Int
<1>1. sessions[k] \in SessionRow
  BY DEF TypeOK
<1>2. sessions[k].start \in Time
  BY <1>1 DEF SessionRow
<1> QED
  BY <1>2, RowAssumption, BoundAssumption DEF PositionOf, Position, Time

LEMMA WindowTyped ==
    ASSUME now \in Clock, NEW r \in Requests
    PROVE  /\ r.scope \subseteq SessionKey /\ r.limit \in Nat \ {0}
           /\ ResolveWindow(r) \in [start : Int, end : Int]
<1>1. r \in Request /\ now \in Nat
  BY RequestAssumption
<1>2. /\ r.scope \subseteq SessionKey /\ r.limit \in Nat \ {0}
      /\ r.start \in Time \cup {NoTime} /\ r.end \in Time \cup {NoTime}
  BY <1>1 DEF Request
<1>3. /\ r.end # NoTime => r.end \in Int
      /\ r.start # NoTime => r.start \in Int
      /\ now \in Int
  BY <1>1, <1>2, BoundAssumption DEF Time
<1> DEFINE end   == IF r.end = NoTime THEN now ELSE r.end
           start == IF r.start = NoTime THEN end - DefaultSpan ELSE r.start
<1>4. end \in Int
  BY <1>3
<1> HIDE DEF end
<1>5. start \in Int
  BY <1>3, <1>4, SpanAssumption
<1>6. ResolveWindow(r) = [start |-> start, end |-> end]
  BY DEF ResolveWindow, end
<1> HIDE DEF start
<1> QED
  BY <1>2, <1>4, <1>5, <1>6

LEMMA MatchingListable ==
    ASSUME TypeOK, NEW r \in Requests, NEW w, now \in Clock
    PROVE  /\ Matching(r.scope, w) \subseteq SessionKey
           /\ Listable(Matching(r.scope, w))
           /\ \A k \in Matching(r.scope, w) : sessions[k] # NoSession
<1>1. r.scope \subseteq SessionKey
  BY WindowTyped
<1>2. \A k \in Matching(r.scope, w) : k \in SessionKey /\ sessions[k] # NoSession
  BY <1>1 DEF Matching, InWindow
<1> QED
  BY <1>2, PositionTyped DEF Listable

LEMMA InitRInv == ReadsInit => IInv /\ RInv
<1> SUFFICES ASSUME ReadsInit PROVE IInv /\ RInv
  OBVIOUS
<1>1. IInv
  BY InitIInv DEF ReadsInit
<1>2. ReadsTypeOK /\ Fresh /\ ListingDescends /\ DownToCursor /\ AccountedFor
  BY DEF ReadsInit, ReadsTypeOK, Fresh, ListingDescends, DownToCursor, AccountedFor
<1> QED
  BY <1>1, <1>2 DEF RInv

\* A worker's step leaves the client where it is, and moves starts to earlier.
LEMMA WorkerRInv ==
    ASSUME IInv, IInv', RInv, [Next]_vars, UNCHANGED <<now, client>>
    PROVE  RInv'
<1>1. UNCHANGED <<now, phase, request, window, cursor, page, listed, throughout,
                  strayed>>
  BY DEF client, history
<1>2. ReadsTypeOK' /\ Fresh' /\ ListingDescends' /\ DownToCursor'
  BY <1>1 DEF RInv, ReadsTypeOK, Fresh, ListingDescends, DownToCursor, Precedes
<1>3. ASSUME phase \in {"listing", "listed"}, NEW k \in throughout
      PROVE  /\ sessions'[k] # NoSession
             /\ \/ \E p \in listed \cup page : p.id = SessionId[k]
                \/ phase = "listing" /\ Precedes(cursor, PositionOf(k)')
  <2>1. /\ k \in SessionKey /\ sessions[k] # NoSession
        /\ \/ \E p \in listed \cup page : p.id = SessionId[k]
           \/ phase = "listing" /\ Precedes(cursor, PositionOf(k))
    BY <1>3 DEF RInv, ReadsTypeOK, AccountedFor
  <2>2. sessions'[k] # NoSession /\ sessions'[k].start <= sessions[k].start
    BY <2>1, SessionGrowsStep
  <2>3. sessions[k].start \in Int /\ sessions'[k].start \in Int
    <3>1. sessions[k] \in SessionRow /\ sessions'[k] \in SessionRow
      BY <2>1, <2>2 DEF IInv, TypeOK
    <3> QED
      BY <3>1, BoundAssumption DEF SessionRow, Time
  <2>4. ASSUME phase = "listing", Precedes(cursor, PositionOf(k))
        PROVE  Precedes(cursor, PositionOf(k)')
    <3>1. cursor.start \in Int /\ cursor.id \in Int /\ SessionId[k] \in Int
      BY <2>1, <2>4, RowAssumption, BoundAssumption
         DEF RInv, DownToCursor, Position, Time
    <3>2. /\ PositionOf(k) = [start |-> sessions[k].start, id |-> SessionId[k]]
          /\ PositionOf(k)' = [start |-> sessions'[k].start, id |-> SessionId[k]]
      BY DEF PositionOf
    <3> QED
      BY <2>2, <2>3, <2>4, <3>1, <3>2 DEF Precedes
  <2> QED
    BY <2>1, <2>2, <2>4
<1>4. AccountedFor'
  BY <1>1, <1>3 DEF AccountedFor
<1> QED
  BY <1>2, <1>4 DEF RInv

LEMMA PageRInv ==
    ASSUME IInv, RInv, NEW r \in Requests, ListPage(r)
    PROVE  RInv'
<1> DEFINE w     == ResolveWindow(r)
           found == Matching(r.scope, w)
           keys  == BeyondCursor(found)
           rows  == FirstSessions(keys, r.limit + 1)
           items == FirstSessions(rows, r.limit)
<1>1. /\ Asks(r) /\ request' = r /\ window' = w /\ UNCHANGED <<vars, now, strayed>>
      /\ page' = {PositionOf(k) : k \in items}
      /\ listed' = listed \cup page
      /\ throughout' = IF phase = "idle" THEN found ELSE throughout \cap found
      /\ \/ NextCursor(rows, items) /\ phase' = "listing"
         \/ rows = items /\ cursor' = NoCursor /\ phase' = "listed"
  BY DEF ListPage
<1>2. /\ now \in Clock /\ TypeOK /\ listed \subseteq Position /\ page \subseteq Position
      /\ throughout \subseteq SessionKey /\ strayed \subseteq SessionKey
      /\ phase = "idle" \/ phase = "listing"
  BY <1>1 DEF RInv, ReadsTypeOK, IInv, Asks
<1>3. r.limit \in Nat \ {0} /\ r.limit + 1 \in Nat /\ w \in [start : Int, end : Int]
  BY <1>2, WindowTyped
<1>4. /\ found \subseteq SessionKey /\ Listable(found)
      /\ \A k \in found : sessions[k] # NoSession
  BY <1>2, MatchingListable
<1>5. sessions' = sessions
  BY <1>1 DEF vars
<1>6. \A k : PositionOf(k)' = PositionOf(k)
  BY <1>5 DEF PositionOf
<1>7. keys \subseteq found /\ Listable(keys)
  BY <1>4 DEF BeyondCursor, Listable
<1>8. rows \subseteq keys /\ Listable(rows)
  BY <1>7 DEF FirstSessions, Listable
<1>9. items \subseteq rows /\ Listable(items)
  BY <1>8 DEF FirstSessions, Listable
<1>10. /\ phase = "listing" => /\ cursor \in Position
                               /\ \A k \in keys : Precedes(cursor, PositionOf(k))
       /\ phase = "idle" => listed' = {}
  BY <1>1, <1>2, CursorAssumption DEF BeyondCursor, RInv, DownToCursor, Fresh
<1> HIDE DEF w, found, keys, rows, items
<1>11. page' \subseteq Position
  BY <1>1, <1>9 DEF Listable
<1>12. \A p \in listed' : \A k \in keys : Precedes(p, PositionOf(k))
  <2> SUFFICES ASSUME NEW p \in listed', NEW k \in keys
               PROVE  Precedes(p, PositionOf(k))
    OBVIOUS
  <2>1. phase = "listing" /\ p \in listed \cup page /\ p \in Position
    BY <1>1, <1>2, <1>10
  <2>2. p = cursor \/ Precedes(p, cursor)
    BY <2>1 DEF RInv, DownToCursor
  <2> QED
    BY <2>1, <2>2, <1>7, <1>10, PrecedesOrder DEF Listable
<1>13. ListingDescends'
  BY <1>1, <1>8, <1>9, <1>12 DEF ListingDescends, Precedes
<1>14. ASSUME NEW k \in throughout'
       PROVE  /\ k \in found
              /\ \/ k \in keys
                 \/ \E p \in listed' \cup page' : p.id = SessionId[k]
  <2>1. CASE phase = "idle"
    <3>1. cursor = NoCursor
      BY <2>1 DEF RInv, Fresh
    <3> QED
      BY <1>1, <2>1, <3>1 DEF BeyondCursor, keys
  <2>2. CASE phase = "listing"
    <3>1. k \in throughout /\ k \in found
      BY <1>1, <2>2
    <3>2. \/ \E p \in listed \cup page : p.id = SessionId[k]
          \/ Precedes(cursor, PositionOf(k))
      BY <2>2, <3>1 DEF RInv, AccountedFor
    <3> QED
      BY <1>1, <3>1, <3>2 DEF BeyondCursor, keys
  <2> QED
    BY <1>2, <2>1, <2>2
<1>15. \A k \in items : \E p \in page' : p.id = SessionId[k]
  <2>1. \A k : PositionOf(k).id = SessionId[k]
    BY DEF PositionOf
  <2>2. \A k \in items : PositionOf(k) \in page'
    BY <1>1
  <2> QED
    BY <2>1, <2>2
<1>16. CASE NextCursor(rows, items) /\ phase' = "listing"
  <2>1. PICK last \in items :
           /\ \A k \in items \ {last} : Precedes(PositionOf(k), PositionOf(last))
           /\ cursor' = PositionOf(last)
    BY <1>16 DEF NextCursor
  <2>2. cursor' \in Position
    BY <1>9, <2>1 DEF Listable
  <2>3. DownToCursor'
    <3>1. ASSUME NEW p \in listed' \cup page'
          PROVE  p = cursor' \/ Precedes(p, cursor')
      <4>1. CASE p \in listed'
        BY <1>8, <1>9, <1>12, <2>1, <4>1
      <4>2. CASE p \in page'
        BY <1>1, <2>1, <4>2
      <4> QED
        BY <3>1, <4>1, <4>2
    <3> QED
      BY <2>2, <3>1 DEF DownToCursor, Precedes
  <2>4. ASSUME NEW k \in throughout'
        PROVE  \/ \E p \in listed' \cup page' : p.id = SessionId[k]
               \/ Precedes(cursor', PositionOf(k))
    <3>1. CASE k \in items
      BY <1>15, <3>1
    <3>2. CASE k \in rows \ items
      <4>1. Precedes(PositionOf(last), PositionOf(k))
        BY <1>3, <1>8, <3>2, FirstIsPrefix DEF items
      <4> QED
        BY <2>1, <4>1
    <3>3. CASE k \in keys \ rows
      <4>1. last \in rows
        BY <1>9
      <4>2. Precedes(PositionOf(last), PositionOf(k))
        BY <1>3, <1>7, <3>3, <4>1, FirstIsPrefix DEF rows
      <4> QED
        BY <2>1, <4>2
    <3> QED
      BY <1>8, <1>14, <3>1, <3>2, <3>3
  <2>5. AccountedFor'
    BY <1>4, <1>5, <1>6, <1>14, <1>16, <2>4 DEF AccountedFor, Precedes
  <2>6. ReadsTypeOK' /\ Fresh'
    BY <1>1, <1>2, <1>3, <1>4, <1>11, <1>16, <2>2 DEF ReadsTypeOK, Fresh
  <2> QED
    BY <1>13, <2>3, <2>5, <2>6 DEF RInv
<1>17. CASE rows = items /\ cursor' = NoCursor /\ phase' = "listed"
  <2>1. rows = keys
    BY <1>3, <1>7, <1>17, LastPage DEF rows, items
  <2>2. AccountedFor'
    BY <1>4, <1>5, <1>14, <1>15, <1>17, <2>1 DEF AccountedFor
  <2>3. ReadsTypeOK' /\ Fresh' /\ DownToCursor'
    BY <1>1, <1>2, <1>3, <1>4, <1>11, <1>17 DEF ReadsTypeOK, Fresh, DownToCursor
  <2> QED
    BY <1>13, <2>2, <2>3 DEF RInv
<1> QED
  BY <1>1, <1>16, <1>17

\* The other steps of the client end its listing or are no part of one.
LEMMA OtherReadsRInv ==
    ASSUME IInv, RInv,
           \/ \E r \in Requests : RefuseWindow(r) \/ RankApplications(r)
           \/ TotalDuration
           \/ Tick
    PROVE  RInv'
<1>1. TypeOK /\ now \in Clock
  BY DEF IInv, RInv, ReadsTypeOK
<1>2. ASSUME NEW r \in Requests, RefuseWindow(r)  PROVE RInv'
  BY <1>2 DEF RefuseWindow, history, RInv, ReadsTypeOK, Fresh, ListingDescends,
              DownToCursor, AccountedFor, Precedes
<1>3. ASSUME NEW r \in Requests, RankApplications(r)  PROVE RInv'
  <2>1. ResolveWindow(r) \in [start : Int, end : Int]
    BY <1>1, WindowTyped
  <2>2. Matching(r.scope, ResolveWindow(r)) \subseteq SessionKey
    BY <1>1, MatchingListable
  <2> QED
    BY <1>3, <2>1, <2>2 DEF RankApplications, RInv, ReadsTypeOK, Fresh,
       ListingDescends, DownToCursor, AccountedFor, Precedes
<1>4. CASE TotalDuration
  BY <1>4 DEF TotalDuration, RInv, ReadsTypeOK, Fresh, ListingDescends,
              DownToCursor, AccountedFor, Precedes
<1>5. CASE Tick
  <2>1. UNCHANGED <<sessions, phase, request, window, cursor, page, listed,
                    throughout, strayed>>
    BY <1>5 DEF Tick, vars, client, history
  <2>2. now' \in Clock
    BY <1>5 DEF Tick
  <2> QED
    BY <2>1, <2>2 DEF RInv, ReadsTypeOK, Fresh, ListingDescends, DownToCursor,
                      AccountedFor, Precedes, PositionOf
<1> QED
  BY <1>2, <1>3, <1>4, <1>5

LEMMA NextRInv == IInv /\ RInv /\ [ReadsNext]_readVars => IInv' /\ RInv'
<1> SUFFICES ASSUME IInv, RInv, [ReadsNext]_readVars PROVE IInv' /\ RInv'
  OBVIOUS
<1>1. [Next]_vars
  BY DEF ReadsNext, readVars, Read, ListPage, RefuseWindow, RankApplications,
         TotalDuration, Tick
<1>2. IInv'
  BY <1>1, NextIInv
<1>3. CASE UNCHANGED <<now, client>>
  BY <1>1, <1>2, <1>3, WorkerRInv
<1>4. CASE Tick
  BY <1>2, <1>4, OtherReadsRInv
<1>5. CASE \E r \in Requests : Read(r)
  BY <1>2, <1>5, PageRInv, OtherReadsRInv DEF Read
<1>6. CASE TotalDuration
  BY <1>2, <1>6, OtherReadsRInv
<1> QED
  BY <1>2, <1>3, <1>4, <1>5, <1>6 DEF ReadsNext, readVars

-----------------------------------------------------------------------------
(* Paging comes to an end *)

\* Each page that has a next one moves the cursor on.
PageAdvances ==
    phase = "listing" /\ phase' = "listing" =>
        UNCHANGED client \/ Precedes(cursor, cursor')

\* A page that is not the last has a last item, and so a cursor to go on from:
\* one of the two outcomes of ListPage is possible, or else RefuseWindow.
PageHasCursor ==
    phase = "listing" =>
        LET found == Matching(request.scope, ResolveWindow(request))
            rows  == FirstSessions(BeyondCursor(found), request.limit + 1)
            items == FirstSessions(rows, request.limit)
        IN  rows # items =>
                \E last \in items :
                   \A k \in items \ {last} : Precedes(PositionOf(k), PositionOf(last))

\* A cursor cannot be moved on for ever.
LEMMA PositionsRunOut ==
    ASSUME NEW S, S \subseteq Position, S # {}
    PROVE  \E p \in S : \A q \in S : ~ Precedes(p, q)
<1>1. \A p \in S : p.start \in Nat /\ p.id \in Nat
  BY BoundAssumption DEF Position, Time
<1>2. PICK s \in {p.start : p \in S} : \A t \in {p.start : p \in S} : s <= t
  <2>1. {p.start : p \in S} \subseteq Nat /\ {p.start : p \in S} # {}
    BY <1>1
  <2> QED
    BY <2>1, LeastOfNaturals
<1> DEFINE Earliest == {p \in S : p.start = s}
<1>3. PICK i \in {p.id : p \in Earliest} :
          \A n \in {p.id : p \in Earliest} : i <= n
  <2>1. {p.id : p \in Earliest} \subseteq Nat /\ {p.id : p \in Earliest} # {}
    BY <1>1, <1>2
  <2> QED
    BY <2>1, LeastOfNaturals
<1>4. PICK p \in Earliest : p.id = i
  BY <1>3
<1>5. ASSUME NEW q \in S  PROVE ~ Precedes(p, q)
  <2>1. p.start <= q.start
    BY <1>2
  <2>2. q.start = p.start => p.id <= q.id
    BY <1>3, <1>4
  <2> QED
    BY <1>1, <2>1, <2>2 DEF Precedes
<1> QED
  BY <1>4, <1>5

LEMMA PageAdvancesStep == RInv /\ [ReadsNext]_readVars => PageAdvances
<1> SUFFICES ASSUME RInv, [ReadsNext]_readVars, phase = "listing", phase' = "listing"
             PROVE  UNCHANGED client \/ Precedes(cursor, cursor')
  BY DEF PageAdvances
<1>1. cursor # NoCursor
  BY CursorAssumption DEF RInv, DownToCursor
<1>2. ASSUME NEW r \in Requests, ListPage(r)
      PROVE  Precedes(cursor, cursor')
  <2> DEFINE found == Matching(r.scope, ResolveWindow(r))
             rows  == FirstSessions(BeyondCursor(found), r.limit + 1)
             items == FirstSessions(rows, r.limit)
  <2>1. PICK last \in items : cursor' = PositionOf(last)
    BY <1>2 DEF ListPage, NextCursor
  <2>2. last \in BeyondCursor(found)
    BY <2>1 DEF FirstSessions
  <2> QED
    BY <1>1, <2>1, <2>2 DEF BeyondCursor
<1>3. ASSUME NEW r \in Requests, RefuseWindow(r) \/ RankApplications(r)
      PROVE  FALSE
  BY <1>3 DEF RefuseWindow, RankApplications
<1>4. ~ TotalDuration
  BY DEF TotalDuration
<1> QED
  BY <1>2, <1>3, <1>4 DEF ReadsNext, Read, Tick, readVars

LEMMA PageCursorExists == IInv /\ RInv => PageHasCursor
<1> DEFINE found == Matching(request.scope, ResolveWindow(request))
           keys  == BeyondCursor(found)
           rows  == FirstSessions(keys, request.limit + 1)
           items == FirstSessions(rows, request.limit)
<1>1. SUFFICES ASSUME IInv, RInv, phase = "listing", rows # items
               PROVE  \E last \in items : \A k \in items \ {last} :
                         Precedes(PositionOf(k), PositionOf(last))
  BY DEF PageHasCursor
<1>2. request \in Requests /\ now \in Clock /\ TypeOK
  BY <1>1 DEF RInv, ReadsTypeOK, IInv
<1>3. Listable(found) /\ request.limit \in Nat \ {0}
  BY <1>2, MatchingListable, WindowTyped
<1>4. Listable(keys)
  BY <1>3 DEF BeyondCursor, Listable
<1> HIDE DEF keys
<1>5. Listable(rows)
  BY <1>4 DEF FirstSessions, Listable
<1>6. items \subseteq rows
  BY DEF FirstSessions
<1> HIDE DEF rows
<1>7. Listable(items)
  BY <1>5, <1>6 DEF Listable
<1>8. items # {}
  <2>1. PICK k \in rows : \A j \in rows : ~ Precedes(PositionOf(j), PositionOf(k))
    <3>1. rows # {}
      BY <1>1, <1>6
    <3> QED
      BY <1>5, <3>1, FirstExists
  <2>2. {j \in rows : Precedes(PositionOf(j), PositionOf(k))} = {}
    BY <2>1
  <2>3. Cardinality({j \in rows : Precedes(PositionOf(j), PositionOf(k))})
           < request.limit
    BY <1>3, <2>2, FS_EmptySet
  <2> QED
    BY <2>3 DEF FirstSessions
<1> HIDE DEF items
<1>9. PICK last \in items :
         \A k \in items : ~ Precedes(PositionOf(last), PositionOf(k))
  BY <1>7, <1>8, LastExists
<1> QED
  BY <1>7, <1>9, ListableFacts

-----------------------------------------------------------------------------
(* The statistics *)

Durations == [k \in SessionKey |-> sessions[k].duration]

\* Keys that have a session, in a table that is well typed.
Stored(keys) == keys \subseteq SessionKey /\ \A k \in keys : sessions[k] # NoSession

LEMMA StoredFacts ==
    ASSUME TypeOK, NEW keys, Stored(keys)
    PROVE  /\ IsFiniteSet(keys)
           /\ \A k \in keys : /\ Durations[k] = sessions[k].duration
                              /\ Durations[k] \in Nat
                              /\ sessions[k].start \in Time
           /\ Seconds(keys) = SumFunctionOnSet(Durations, keys)
           /\ Seconds(keys) \in Nat
<1> DEFINE here == [k \in keys |-> sessions[k].duration]
<1>1. IsFiniteSet(keys)
  BY KeysAreFinite, FS_Subset DEF Stored
<1>2. ASSUME NEW k \in keys  PROVE sessions[k] \in SessionRow
  BY DEF Stored, TypeOK
<1>3. \A k \in keys : /\ Durations[k] = sessions[k].duration
                      /\ Durations[k] \in Nat
                      /\ sessions[k].start \in Time
  BY <1>2 DEF Durations, Stored, SessionRow
<1>4. Seconds(keys) = SumFunctionOnSet(here, keys)
  BY DEF Seconds, SumFunction
<1>5. SumFunctionOnSet(here, keys) = SumFunctionOnSet(Durations, keys)
  <2>1. \A k \in keys : Durations[k] \in Nat /\ here[k] = Durations[k]
    BY <1>3
  <2> HIDE DEF here
  <2> QED
    BY <1>1, <2>1, SameSummands
<1>6. SumFunctionOnSet(Durations, keys) \in Nat
  BY <1>1, <1>3, SumIsNat
<1> QED
  BY <1>1, <1>3, <1>4, <1>5, <1>6

\* The same of the state after a step.
LEMMA StoredFactsAfter ==
    ASSUME NEW keys
    PROVE  TypeOK' /\ Stored(keys)'
              => /\ Seconds(keys)' = SumFunctionOnSet(Durations', keys)
                 /\ Seconds(keys)' \in Nat
                 /\ \A k \in keys : Durations'[k] \in Nat
<1>1. TypeOK /\ Stored(keys)
         => /\ Seconds(keys) = SumFunctionOnSet(Durations, keys)
            /\ Seconds(keys) \in Nat
            /\ \A k \in keys : Durations[k] \in Nat
  BY StoredFacts
<1>2. (TypeOK /\ Stored(keys)
         => /\ Seconds(keys) = SumFunctionOnSet(Durations, keys)
            /\ Seconds(keys) \in Nat
            /\ \A k \in keys : Durations[k] \in Nat)'
  BY <1>1, PTL
<1> QED
  BY <1>2

Members(found, g) == {k \in found : Application[k] = g.application}

LEMMA GroupFacts ==
    ASSUME TypeOK, NEW found, Stored(found)
    PROVE  /\ IsFiniteSet(Groups(found))
           /\ \A g \in Groups(found) :
                 /\ Stored(Members(found, g))
                 /\ g.total_seconds = Seconds(Members(found, g))
                 /\ g.total_seconds \in Nat
           /\ \A g, h \in Groups(found) : g.application = h.application => g = h
<1> DEFINE Group(a) == [application   |-> a,
                        total_seconds |-> Seconds({k \in found : Application[k] = a}),
                        session_count |-> Cardinality({k \in found : Application[k] = a})]
           group == [k \in found |-> Group(Application[k])]
<1>1. Groups(found) = {Group(a) : a \in {Application[k] : k \in found}}
  BY DEF Groups
<1>2. group \in Surjection(found, Groups(found))
  <2>1. Groups(found) = {Group(Application[k]) : k \in found}
    BY <1>1
  <2> HIDE DEF Group
  <2> QED
    BY <2>1 DEF Surjection
<1>3. IsFiniteSet(Groups(found))
  <2> HIDE DEF group
  <2> QED
    BY <1>2, StoredFacts, FS_Surjection
<1>4. ASSUME NEW g \in Groups(found)
      PROVE  g = Group(g.application)
  <2>1. PICK a : g = Group(a)
    BY <1>1
  <2>2. g.application = a
    BY <2>1
  <2> QED
    BY <2>1, <2>2
<1>5. ASSUME NEW g \in Groups(found)
      PROVE  /\ Stored(Members(found, g))
             /\ g.total_seconds = Seconds(Members(found, g))
             /\ g.total_seconds \in Nat
  <2>1. Stored(Members(found, g))
    BY DEF Stored, Members
  <2>2. g.total_seconds = Seconds(Members(found, g))
    BY <1>4 DEF Members
  <2> QED
    BY <2>1, <2>2, StoredFacts
<1> HIDE DEF Group
<1> QED
  BY <1>3, <1>4, <1>5

\* The rows of an answer count no session twice.
LEMMA GroupsAddUp ==
    ASSUME TypeOK, NEW found, Stored(found), NEW chosen \in SUBSET Groups(found)
    PROVE  /\ SumFunction([g \in chosen |-> g.total_seconds]) \in Nat
           /\ SumFunction([g \in chosen |-> g.total_seconds]) <= Seconds(found)
<1> DEFINE parts == [g \in chosen |-> g.total_seconds]
           Sum(T) == SumFunctionOnSet(parts, T)
           Of(T) == UNION {Members(found, g) : g \in T}
           Bad == {T \in SUBSET chosen : Sum(T) # Seconds(Of(T))}
<1>1. IsFiniteSet(chosen) /\ \A g \in chosen : parts[g] \in Nat
  BY GroupFacts, FS_Subset
<1>2. ASSUME NEW T \in SUBSET chosen
      PROVE  /\ IsFiniteSet(T)
             /\ Of(T) \subseteq found /\ Stored(Of(T))
             /\ Seconds(Of(T)) = SumFunctionOnSet(Durations, Of(T))
  <2>1. Of(T) \subseteq found
    BY DEF Members
  <2>2. Stored(Of(T))
    BY <2>1 DEF Stored
  <2> HIDE DEF Of
  <2> QED
    BY <1>1, <2>1, <2>2, FS_Subset, StoredFacts
<1>3. Bad = {}
  <2>1. SUFFICES ASSUME Bad # {} PROVE FALSE
    OBVIOUS
  <2>2. PICK T \in Bad : \A U \in SUBSET T : U # T => U \notin Bad
    <3>1. Bad \subseteq SUBSET chosen
      OBVIOUS
    <3> HIDE DEF Bad
    <3> QED
      BY <1>1, <2>1, <3>1, SmallestSubset
  <2>3. CASE T = {}
    <3>1. Sum({}) = 0 /\ SumFunctionOnSet(Durations, {}) = 0
      BY FS_EmptySet, SumUnfolds
    <3>2. Of(T) = {}
      BY <2>3
    <3>3. Seconds(Of(T)) = SumFunctionOnSet(Durations, {})
      BY <1>2, <3>2
    <3>4. Sum(T) = Seconds(Of(T))
      BY <2>3, <3>1, <3>3
    <3> QED
      BY <3>4
  <2>4. CASE T # {}
    <3>1. PICK g \in T : TRUE
      BY <2>4
    <3> DEFINE U == T \ {g}
               A == Members(found, g)
    <3>2. U \in SUBSET T /\ U # T /\ U \in SUBSET chosen /\ T \in SUBSET chosen
          /\ g \in Groups(found)
      BY <3>1
    <3>3. Of(T) = Of(U) \cup A
      BY <3>1
    <3>4. Of(U) \cap A = {}
      <4>1. ASSUME NEW h \in U, NEW k \in Members(found, h), k \in A
            PROVE  FALSE
        <5>1. h.application = g.application /\ h \in Groups(found)
          BY <3>2, <4>1 DEF Members
        <5> QED
          BY <3>2, <4>1, <5>1, GroupFacts
      <4> QED
        BY <4>1
    <3>5. Sum(T) = parts[g] + Sum(U)
      BY <1>1, <1>2, <3>1, <3>2, SumTakesAny
    <3>6. Sum(U) = Seconds(Of(U))
      BY <2>2, <3>2
    <3>7. parts[g] = Seconds(A) /\ Stored(A)
      BY <3>1, <3>2, GroupFacts
    <3> HIDE DEF Of, A, U, parts
    <3>8. /\ Seconds(A) = SumFunctionOnSet(Durations, A) /\ Seconds(A) \in Nat
          /\ IsFiniteSet(A) /\ \A k \in A : Durations[k] \in Nat
      BY <3>7, StoredFacts
    <3>9. /\ Seconds(Of(U)) = SumFunctionOnSet(Durations, Of(U))
          /\ Seconds(Of(U)) \in Nat
          /\ IsFiniteSet(Of(U)) /\ \A k \in Of(U) : Durations[k] \in Nat
      BY <1>2, <3>2, StoredFacts
    <3>10. SumFunctionOnSet(Durations, Of(U) \cup A) =
              SumFunctionOnSet(Durations, Of(U)) + SumFunctionOnSet(Durations, A)
      BY <3>4, <3>8, <3>9, SumOfUnion
    <3>11. Seconds(Of(T)) = SumFunctionOnSet(Durations, Of(U) \cup A)
      BY <1>2, <3>2, <3>3
    <3>12. Sum(T) = Seconds(Of(T))
      BY <3>5, <3>6, <3>7, <3>8, <3>9, <3>10, <3>11
    <3> QED
      BY <3>12
  <2> QED
    BY <2>3, <2>4
<1>4. Sum(chosen) = Seconds(Of(chosen))
  BY <1>3
<1>5. SumFunction(parts) = Sum(chosen) /\ SumFunction(parts) \in Nat
  <2>1. SumFunction(parts) = Sum(chosen)
    BY DEF SumFunction
  <2>2. Sum(chosen) \in Nat
    BY <1>1, SumIsNat
  <2> QED
    BY <2>1, <2>2
<1>6. Seconds(Of(chosen)) <= Seconds(found)
  <2>1. /\ Of(chosen) \in SUBSET found
        /\ Seconds(Of(chosen)) = SumFunctionOnSet(Durations, Of(chosen))
    BY <1>2
  <2> HIDE DEF Of
  <2>2. /\ Seconds(found) = SumFunctionOnSet(Durations, found)
        /\ IsFiniteSet(found) /\ \A k \in found : Durations[k] \in Nat
    BY StoredFacts
  <2> QED
    BY <2>1, <2>2, SumOfSubset
<1> QED
  BY <1>4, <1>5, <1>6

-----------------------------------------------------------------------------
(* Between the queries of /stats/applications *)

\* An open session keeps its duration when heartbeats are folded into it.
LEMMA OpenKeepsDuration ==
    ASSUME IInv, [Next]_vars, NEW k \in SessionKey, sessions[k] # NoSession
    PROVE  \/ sessions'[k] = sessions[k]
           \/ \E row : sessions'[k] = UpdateSession(sessions[k], row)
<1>1. CASE UNCHANGED sessions
  BY <1>1
<1>2. ASSUME NEW w \in Workers, Commit(w)
      PROVE  \/ sessions'[k] = sessions[k]
             \/ \E row : sessions'[k] = UpdateSession(sessions[k], row)
  <2>1. sessions' = [j \in SessionKey |->
                       IF j \in Written(w) THEN draft[w][j] ELSE sessions[j]]
    BY <1>2 DEF Commit
  <2>2. CASE k \in Written(w)
    <3>1. draft[w][k] = UpsertSession(sessions[k],
                                      BuildSession(EventsOf(batch[w], k)))
      BY <2>2 DEF IInv, DraftsCurrent
    <3> QED
      BY <2>1, <2>2, <3>1 DEF UpsertSession
  <2>3. CASE k \notin Written(w)
    BY <2>1, <2>3
  <2> QED
    BY <2>2, <2>3
<1>3. UNCHANGED sessions \/ \E w \in Workers : Commit(w)
  BY DEF Next, Ingest, Claim, UpsertRow, Crash, DeadlockAbort, Rollback, vars
<1> QED
  BY <1>1, <1>2, <1>3

\* A session that is closed then ends at its last event, so that no commit takes
\* from its duration.
LEMMA DurationGrowsStep ==
    ASSUME IInv, IInv', [Next]_vars, StatesRunForward',
           NEW k \in SessionKey, sessions[k] # NoSession
    PROVE  /\ sessions'[k] # NoSession
           /\ sessions[k].duration \in Nat /\ sessions'[k].duration \in Nat
           /\ sessions[k].duration <= sessions'[k].duration
<1> DEFINE A == EventsOf(processed, k)
           B == EventsOf(processed', k)
           old == sessions[k]
           row == sessions'[k]
<1>1. row # NoSession
  BY SessionGrowsStep
<1>2. /\ A \subseteq Heartbeat /\ A # {} /\ Describes(old, A)
      /\ B \subseteq Heartbeat /\ B # {} /\ Describes(row, B)
  <2>1. A \subseteq Heartbeat /\ A # {} /\ Describes(old, A)
    BY StoredSession
  <2>2. Describes(row, B)
    BY DEF IInv, SessionsDescribed
  <2>3. B \subseteq Heartbeat /\ A \subseteq B
    BY ProcessedGrows DEF IInv, TypeOK, EventsOf
  <2> QED
    BY <2>1, <2>2, <2>3
<1>3. A \subseteq B /\ B \subseteq heartbeats'
  BY ProcessedGrows DEF IInv, TypeOK, EventsOf
<1>4. /\ old \in SessionRow /\ row \in SessionRow
      /\ old.duration <= Max(Timestamps(A)) - StartOf(A)
      /\ row.start = StartOf(B) /\ row.end = EndOf(B)
      /\ row.end # NoTime => row.duration = row.end - row.start
  BY <1>2 DEF Describes, StartOf
<1>5. old.duration \in Nat /\ row.duration \in Nat
  BY <1>4 DEF SessionRow
<1>6. CASE row.end = NoTime
  <2>1. CASE row = old
    BY <1>5, <2>1
  <2>2. ASSUME NEW new, row = UpdateSession(old, new)
        PROVE  row.duration = old.duration
    BY <1>6, <2>2 DEF UpdateSession
  <2> QED
    BY <1>1, <1>5, <2>1, <2>2, OpenKeepsDuration
<1>7. CASE row.end # NoTime
  <2>1. PICK e \in B : e.event_type = "STATE_END" /\ e.timestamp = row.end
    BY <1>2, <1>4, <1>7, EndOfIsTime DEF EndTimestamps, Timestamps
  <2>2. ASSUME NEW h \in B  PROVE h.timestamp <= row.end
    <3>1. KeyOf(h) = KeyOf(e) /\ h \in heartbeats' /\ e \in heartbeats'
      BY <1>3, <2>1 DEF EventsOf
    <3> QED
      BY <2>1, <3>1 DEF StatesRunForward, RunForward
  <2>3. Max(Timestamps(A)) <= row.end
    <3>1. Max(Timestamps(A)) \in Timestamps(A)
      BY <1>2, SpanOfTimes
    <3> QED
      BY <1>3, <2>2, <3>1 DEF Timestamps
  <2>4. /\ StartOf(B) <= StartOf(A)
        /\ StartOf(A) \in Nat /\ StartOf(B) \in Nat /\ Max(Timestamps(A)) \in Nat
    <3>1. Timestamps(A) \subseteq Timestamps(B)
      BY <1>3 DEF Timestamps
    <3> QED
      BY <1>2, <3>1, SpanOfTimes
  <2>5. row.end \in Nat
    BY <1>4, <1>7, BoundAssumption DEF SessionRow, Time
  <2>6. row.duration = row.end - StartOf(B)
    BY <1>4, <1>7
  <2>7. old.duration <= row.duration
    <3> HIDE DEF A, B, old, row
    <3> QED
      BY <1>4, <1>5, <2>3, <2>4, <2>5, <2>6
  <2> QED
    BY <1>1, <1>5, <2>7
<1> QED
  BY <1>1, <1>5, <1>6, <1>7

\* The rows ranked by the first query are parts of what its sessions amount to
\* now, although workers have gone on since.
RankedWithin ==
    /\ phase = "totalling" =>
          /\ Stored(throughout)
          /\ StatesRunForward =>
                /\ SumFunction([g \in ranked |-> g.total_seconds]) \in Nat
                /\ SumFunction([g \in ranked |-> g.total_seconds])
                      <= Seconds(throughout)
    /\ PartsWithinWhole

LEMMA GrowingSeconds ==
    ASSUME IInv, IInv', [Next]_vars, StatesRunForward', NEW keys, Stored(keys)
    PROVE  /\ Stored(keys)'
           /\ Seconds(keys) \in Nat /\ Seconds(keys)' \in Nat
           /\ Seconds(keys) <= Seconds(keys)'
<1>1. TypeOK /\ TypeOK'
  BY DEF IInv
<1>2. Stored(keys)'
  BY DurationGrowsStep DEF Stored
<1>3. /\ Seconds(keys) = SumFunctionOnSet(Durations, keys) /\ Seconds(keys) \in Nat
      /\ IsFiniteSet(keys)
  BY <1>1, StoredFacts
<1>4. /\ Seconds(keys)' = SumFunctionOnSet(Durations', keys)
      /\ Seconds(keys)' \in Nat
  BY <1>1, <1>2, StoredFactsAfter
<1>5. \A k \in keys : /\ Durations[k] \in Nat /\ Durations'[k] \in Nat
                      /\ Durations[k] <= Durations'[k]
  BY DurationGrowsStep DEF Stored, Durations
<1>6. SumFunctionOnSet(Durations, keys) <= SumFunctionOnSet(Durations', keys)
  BY <1>3, <1>5, SumGrows
<1> QED
  BY <1>2, <1>3, <1>4, <1>6

LEMMA RankedWithinStep ==
    ASSUME IInv, IInv', RInv, RankedWithin, [ReadsNext]_readVars
    PROVE  RankedWithin'
<1> DEFINE Ranked == SumFunction([g \in ranked |-> g.total_seconds])
<1>1. TypeOK /\ now \in Clock /\ (phase # "idle" => request \in Requests)
  BY DEF IInv, RInv, ReadsTypeOK
<1>2. ASSUME [Next]_vars, UNCHANGED <<now, client>>
      PROVE  RankedWithin'
  <2>1. UNCHANGED <<phase, ranked, whole, throughout, strayed>>
    BY <1>2 DEF client, history
  <2>2. StatesRunForward' => StatesRunForward
    <3>1. heartbeats \subseteq heartbeats'
      BY <1>2 DEF Next, Ingest, Claim, UpsertRow, Commit, Crash, DeadlockAbort,
                  Rollback, vars
    <3> QED
      BY <3>1 DEF StatesRunForward, RunForward
  <2>3. PartsWithinWhole'
    BY <2>1, <2>2 DEF RankedWithin, PartsWithinWhole
  <2>4. ASSUME phase = "totalling"
        PROVE  Stored(throughout)' /\ (StatesRunForward' =>
                  Ranked' \in Nat /\ Ranked' <= Seconds(throughout)')
    <3>1. PICK keys : keys = throughout
      OBVIOUS
    <3>2. Stored(keys)
      BY <2>4, <3>1 DEF RankedWithin
    <3>3. Stored(keys)'
      BY <1>2, <3>2, SessionGrowsStep DEF Stored
    <3>4. keys = throughout'
      BY <2>1, <3>1
    <3>5. ASSUME StatesRunForward'
          PROVE  Ranked' \in Nat /\ Ranked' <= Seconds(keys)'
      <4>1. Ranked \in Nat /\ Ranked <= Seconds(keys)
        BY <2>2, <2>4, <3>1, <3>5 DEF RankedWithin
      <4>2. Seconds(keys) \in Nat /\ Seconds(keys)' \in Nat
            /\ Seconds(keys) <= Seconds(keys)'
        BY <1>2, <3>2, <3>5, GrowingSeconds
      <4>3. Ranked' = Ranked
        BY <2>1
      <4> HIDE DEF Ranked
      <4> QED
        BY <4>1, <4>2, <4>3
    <3> HIDE DEF Ranked
    <3> QED
      BY <3>3, <3>4, <3>5 DEF Stored, Seconds
  <2> QED
    BY <2>1, <2>3, <2>4 DEF RankedWithin
<1>3. CASE Tick
  BY <1>3 DEF Tick, vars, client, history, RankedWithin, PartsWithinWhole,
              StatesRunForward, Stored, Seconds
<1>4. ASSUME NEW r \in Requests, ListPage(r) \/ RefuseWindow(r)
      PROVE  RankedWithin'
  <2>1. phase' \in {"listing", "listed", "refused"}
    BY <1>4 DEF ListPage, RefuseWindow
  <2> QED
    BY <2>1 DEF RankedWithin, PartsWithinWhole
<1>5. ASSUME NEW r \in Requests, RankApplications(r)
      PROVE  RankedWithin'
  <2> DEFINE found == Matching(r.scope, ResolveWindow(r))
  <2>1. /\ phase' = "totalling" /\ throughout' = found /\ sessions' = sessions
        /\ ranked' \in SUBSET Groups(found)
    BY <1>5 DEF RankApplications, vars
  <2>2. Stored(found)
    BY <1>1, MatchingListable DEF Stored
  <2> HIDE DEF found
  <2>3. /\ SumFunction([g \in ranked' |-> g.total_seconds]) \in Nat
        /\ SumFunction([g \in ranked' |-> g.total_seconds]) <= Seconds(found)
    BY <1>1, <2>1, <2>2, GroupsAddUp
  <2>4. Stored(throughout)' /\ Seconds(throughout)' = Seconds(found)
    BY <2>1, <2>2 DEF Stored, Seconds
  <2> QED
    BY <2>1, <2>3, <2>4 DEF RankedWithin, PartsWithinWhole
<1>6. CASE TotalDuration
  <2> DEFINE found == Matching(request.scope, window)
  <2>1. /\ phase = "totalling" /\ phase' = "answered"
        /\ whole' = Seconds(found) /\ strayed' = throughout \ found
        /\ UNCHANGED <<heartbeats, ranked, throughout>>
    BY <1>6 DEF TotalDuration, vars
  <2>2. Stored(found)
    BY <1>1, <2>1, MatchingListable DEF Stored
  <2> HIDE DEF found
  <2>3. ASSUME strayed' = {}, StatesRunForward'
        PROVE  Ranked' <= whole'
    <3>1. StatesRunForward
      BY <2>1, <2>3 DEF StatesRunForward, RunForward
    <3>2. Ranked \in Nat /\ Ranked <= Seconds(throughout) /\ Stored(throughout)
      BY <2>1, <3>1 DEF RankedWithin
    <3>3. throughout \in SUBSET found
      BY <2>1, <2>3
    <3>4. Seconds(throughout) <= Seconds(found)
      <4>1. /\ Seconds(throughout) = SumFunctionOnSet(Durations, throughout)
            /\ Seconds(found) = SumFunctionOnSet(Durations, found)
            /\ IsFiniteSet(found) /\ \A k \in found : Durations[k] \in Nat
        BY <1>1, <2>2, <3>2, StoredFacts
      <4> QED
        BY <3>3, <4>1, SumOfSubset
    <3>5. Seconds(throughout) \in Nat /\ Seconds(found) \in Nat
      BY <1>1, <2>2, <3>2, StoredFacts
    <3>6. Ranked' = Ranked
      BY <2>1
    <3> HIDE DEF Ranked
    <3> QED
      BY <2>1, <3>2, <3>4, <3>5, <3>6
  <2> QED
    BY <2>1, <2>3 DEF RankedWithin, PartsWithinWhole
<1>7. CASE UNCHANGED readVars
  <2>1. [Next]_vars /\ UNCHANGED <<now, client>>
    BY <1>7 DEF readVars
  <2> QED
    BY <1>2, <2>1
<1>8. CASE Next /\ UNCHANGED <<now, client>>
  BY <1>2, <1>8
<1> HIDE DEF Ranked
<1> QED
  BY <1>3, <1>4, <1>5, <1>6, <1>7, <1>8 DEF ReadsNext, Read

-----------------------------------------------------------------------------
(* Windows that adjoin *)

\* A cut at midnight separates the days before it from those after it.
LEMMA MidnightSeparates ==
    ASSUME NEW cut \in Nat, cut % DayLength = 0,
           NEW s \in Nat, s < cut, NEW t \in Nat, cut <= t
    PROVE  s \div DayLength < t \div DayLength
<1> DEFINE D == DayLength
<1>1. D \in Nat /\ D > 0 /\ cut % D = 0
  BY SpanAssumption
<1>2. SUFFICES s \div D < t \div D
  OBVIOUS
<1> HIDE DEF D
<1>3. s \div D \in Nat /\ cut \div D \in Nat /\ t \div D \in Nat
  BY <1>1
<1>4. cut = D * (cut \div D)
  BY <1>1
<1>5. D * (s \div D) <= s
  BY <1>1
<1>6. s \div D < cut \div D
  BY <1>1, <1>3, <1>4, <1>5
<1>7. cut \div D <= t \div D
  BY <1>1
<1> QED
  BY <1>3, <1>6, <1>7

LEMMA WindowsAddUp ==
    ASSUME TypeOK, NEW a \in Time, NEW b \in Time, NEW c \in Time, a < b, b < c
    PROVE  LET first  == Summary(SessionKey, [start |-> a, end |-> b])
               second == Summary(SessionKey, [start |-> b, end |-> c])
               both   == Summary(SessionKey, [start |-> a, end |-> c])
           IN  /\ both.total_seconds = first.total_seconds + second.total_seconds
               /\ both.session_count = first.session_count + second.session_count
               /\ b % DayLength = 0 =>
                     both.active_days = first.active_days + second.active_days
<1> DEFINE A == Matching(SessionKey, [start |-> a, end |-> b])
           B == Matching(SessionKey, [start |-> b, end |-> c])
           AB == Matching(SessionKey, [start |-> a, end |-> c])
           Days(keys) == {LocalDay(k) : k \in keys}
<1>1. Time \subseteq Nat /\ a \in Nat /\ b \in Nat /\ c \in Nat
  BY BoundAssumption DEF Time
<1>2. Stored(A) /\ Stored(B) /\ Stored(AB)
  BY DEF Matching, InWindow, Stored
<1>3. ASSUME NEW k \in SessionKey, sessions[k] # NoSession
      PROVE  sessions[k].start \in Nat
  BY <1>1, <1>3 DEF TypeOK, SessionRow
<1>4. A \cup B = AB /\ A \cap B = {}
  BY <1>1, <1>3 DEF Matching, InWindow
<1>5. \A k \in A : sessions[k].start \in Nat /\ sessions[k].start < b
  BY <1>3 DEF Matching, InWindow
<1>6. \A k \in B : sessions[k].start \in Nat /\ b <= sessions[k].start
  BY <1>3 DEF Matching, InWindow
<1>7. \A keys, w : Matching(SessionKey, w) = keys =>
         /\ Summary(SessionKey, w).total_seconds = Seconds(keys)
         /\ Summary(SessionKey, w).session_count = Cardinality(keys)
         /\ Summary(SessionKey, w).active_days = Cardinality(Days(keys))
  BY DEF Summary, SummarizeSessions
<1>8. IsFiniteSet(A) /\ IsFiniteSet(B)
  BY <1>2, StoredFacts
<1> HIDE DEF A, B, AB, Days
<1>9. Seconds(AB) = Seconds(A) + Seconds(B)
  <2>1. /\ Seconds(A) = SumFunctionOnSet(Durations, A)
        /\ Seconds(B) = SumFunctionOnSet(Durations, B)
        /\ Seconds(AB) = SumFunctionOnSet(Durations, AB)
        /\ \A k \in AB : Durations[k] \in Nat
    BY <1>2, StoredFacts
  <2>2. SumFunctionOnSet(Durations, A \cup B) =
           SumFunctionOnSet(Durations, A) + SumFunctionOnSet(Durations, B)
    BY <1>4, <1>8, <2>1, SumOfUnion
  <2> QED
    BY <1>4, <2>1, <2>2
<1>10. Cardinality(AB) = Cardinality(A) + Cardinality(B)
  <2>1. Cardinality(A \cup B) =
           Cardinality(A) + Cardinality(B) - Cardinality(A \cap B)
    BY <1>8, FS_Union
  <2>2. Cardinality(A \cap B) = 0
    BY <1>4, FS_EmptySet
  <2>3. Cardinality(A) \in Nat /\ Cardinality(B) \in Nat
    BY <1>8, FS_CardinalityType
  <2>4. Cardinality(A \cup B) = Cardinality(AB)
    BY <1>4
  <2> QED
    BY <2>1, <2>2, <2>3, <2>4
<1>11. ASSUME NEW keys, IsFiniteSet(keys)
       PROVE  IsFiniteSet(Days(keys))
  <2> DEFINE day == [k \in keys |-> LocalDay(k)]
  <2>1. day \in Surjection(keys, Days(keys))
    BY DEF Days, Surjection
  <2> HIDE DEF day
  <2> QED
    BY <1>11, <2>1, FS_Surjection
<1>12. ASSUME b % DayLength = 0
       PROVE  Cardinality(Days(AB)) = Cardinality(Days(A)) + Cardinality(Days(B))
  <2>1. Days(AB) = Days(A) \cup Days(B)
    BY <1>4 DEF Days
  <2>2. ASSUME NEW j \in A, NEW k \in B, LocalDay(j) = LocalDay(k)
        PROVE  FALSE
    <3>1. sessions[j].start \div DayLength < sessions[k].start \div DayLength
      BY <1>1, <1>5, <1>6, <1>12, MidnightSeparates
    <3>2. sessions[k].start \div DayLength \in Int
      BY <1>6, SpanAssumption
    <3>3. sessions[j].start \div DayLength = sessions[k].start \div DayLength
      BY <2>2 DEF LocalDay
    <3> QED
      BY <3>1, <3>2, <3>3
  <2>3. Days(A) \cap Days(B) = {}
    BY <2>2 DEF Days
  <2>4. IsFiniteSet(Days(A)) /\ IsFiniteSet(Days(B))
    BY <1>8, <1>11
  <2>5. Cardinality(Days(A) \cup Days(B)) =
           Cardinality(Days(A)) + Cardinality(Days(B))
              - Cardinality(Days(A) \cap Days(B))
    BY <2>4, FS_Union
  <2>6. /\ Cardinality(Days(A)) \in Nat /\ Cardinality(Days(B)) \in Nat
        /\ Cardinality(Days(A) \cap Days(B)) = 0
    BY <2>3, <2>4, FS_CardinalityType, FS_EmptySet
  <2> QED
    BY <2>1, <2>5, <2>6
<1> QED
  BY <1>7, <1>9, <1>10, <1>12 DEF A, B, AB

-----------------------------------------------------------------------------
(* The theorems *)

LEMMA ReadsInductive == ReadsSpec => [](IInv /\ RInv)
<1>1. ReadsInit => IInv /\ RInv
  BY InitRInv
<1>2. IInv /\ RInv /\ [ReadsNext]_readVars => (IInv /\ RInv)'
  BY NextRInv
<1> QED
  BY <1>1, <1>2, PTL DEF ReadsSpec

\* Types: whatever workers commit, a cursor is a place in the listing.
THEOREM ReadsTyped == ReadsSpec => []ReadsTypeOK
<1>1. RInv => ReadsTypeOK
  BY DEF RInv
<1> QED
  BY <1>1, ReadsInductive, PTL

\* Paging with cursors leaves out no session that was there at every page.
THEOREM PagingIsComplete == ReadsSpec => []NothingSkipped
<1>1. RInv => NothingSkipped
  BY DEF RInv, AccountedFor, NothingSkipped
<1> QED
  BY <1>1, ReadsInductive, PTL

\* The pages go down in time: what is listed twice was moved in between.
THEOREM PagesDescend == ReadsSpec => []ListingDescends
<1>1. RInv => ListingDescends
  BY DEF RInv
<1> QED
  BY <1>1, ReadsInductive, PTL

\* What PagingEnds rests on: a client that was given a cursor gets another page or
\* is refused, and the cursor only goes on, which it cannot for ever
\* (PositionsRunOut).
THEOREM PagesAdvance == ReadsSpec => []PageHasCursor /\ [][PageAdvances]_readVars
<1>1. IInv /\ RInv => PageHasCursor
  BY PageCursorExists
<1>2. RInv /\ [ReadsNext]_readVars => PageAdvances
  BY PageAdvancesStep
<1> QED
  BY <1>1, <1>2, ReadsInductive, PTL DEF ReadsSpec

\* The rows of /stats/applications stay parts of the whole, though workers commit
\* between the two queries they come from.
THEOREM PartsAreWithinWhole == ReadsSpec => []PartsWithinWhole
<1>1. ReadsInit => RankedWithin
  BY DEF ReadsInit, RankedWithin, PartsWithinWhole
<1>2. (IInv /\ RInv) /\ (IInv /\ RInv)' /\ RankedWithin /\ [ReadsNext]_readVars
         => RankedWithin'
  BY RankedWithinStep
<1>3. RankedWithin => PartsWithinWhole
  BY DEF RankedWithin
<1> QED
  BY <1>1, <1>2, <1>3, ReadsInductive, PTL DEF ReadsSpec

\* Summaries of windows that adjoin add up to that of both, cut at midnight also
\* in the days they count.
THEOREM SummariesAddUp == ReadsSpec => []AdjoiningWindowsAddUp
<1>1. IInv => AdjoiningWindowsAddUp
  BY WindowsAddUp DEF IInv, AdjoiningWindowsAddUp
<1> QED
  BY <1>1, ReadsInductive, PTL
=============================================================================
