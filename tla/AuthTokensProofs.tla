-------------------------- MODULE AuthTokensProofs --------------------------
(***************************************************************************)
(* Proofs about AuthTokens, for any tabs and calls.                        *)
(***************************************************************************)
EXTENDS AuthTokens, TLAPS

-----------------------------------------------------------------------------
(* Type correctness *)

LEMMA TypeInit == Init => TypeOK
  BY CallsAssumption
  DEF Init, TypeOK, Call, Request, New, NoRequest, Token, ConfirmPC, LoginPC, LogoutPC

LEMMA Records ==
  /\ New \in Call
  /\ Done \in Call
  /\ NoRequest \in Request
  BY DEF New, Done, Call, NoRequest, Request, ConfirmPC, LoginPC, LogoutPC

\* What happens to the calls and requests of a tab that goes away.
LEMMA LeaveTypes ==
  ASSUME TypeOK, NEW t \in Tabs
  PROVE  /\ CallsLeft(t) \in [Calls -> Call]
         /\ RequestsLeft(t) \in [Calls -> Request]
         /\ Used(Abandoned(t), "abandoned") \subseteq Nat \X Presenter
  <1>1. CallsLeft(t) \in [Calls -> Call]
    <2> SUFFICES ASSUME NEW c \in Calls PROVE CallsLeft(t)[c] \in Call
      BY DEF CallsLeft
    <2>1. call[c] \in Call
      BY DEF TypeOK
    <2>2. [call[c] EXCEPT !.page = FALSE] \in Call
      BY <2>1 DEF Call
    <2> QED
      BY <2>1, <2>2, Records DEF CallsLeft
  <1>2. RequestsLeft(t) \in [Calls -> Request]
    <2> SUFFICES ASSUME NEW r \in Calls PROVE RequestsLeft(t)[r] \in Request
      BY DEF RequestsLeft
    <2>1. request[r] \in Request
      BY DEF TypeOK
    <2> QED
      BY <2>1 DEF RequestsLeft, Request
  <1>3. Abandoned(t) \subseteq Nat
    BY DEF TypeOK, Abandoned, Call, Request
  <1> QED
    BY <1>1, <1>2, <1>3 DEF Used, Presenter, TypeOK

LEMMA SendToLoginTypes ==
  ASSUME TypeOK, NEW t \in Tabs, SendToLogin(t)
  PROVE  /\ store' \in [Tabs -> Nat]
         /\ saved' \in Nat
         /\ promise' \in [Tabs -> Calls \cup {NoCall}]
         /\ call' \in [Calls -> Call]
         /\ uses' \subseteq Nat \X Presenter
  BY LeaveTypes DEF SendToLogin, TypeOK

LEMMA NextPair == TypeOK => issued + 1 \in Nat
  BY DEF TypeOK

LEMMA TypeStep == TypeOK /\ [Next]_vars => TypeOK'
  <1> SUFFICES ASSUME TypeOK, [Next]_vars PROVE TypeOK'
    OBVIOUS
  <1> USE CallsAssumption, Records DEF api, browser
  <1>1. ASSUME NEW kind \in {"access", "refresh"}, Expire(kind) PROVE TypeOK'
    BY <1>1 DEF TypeOK, Expire
  <1>2. ASSUME NEW t \in Tabs, Reload(t) PROVE TypeOK'
    BY <1>2, LeaveTypes DEF TypeOK, Reload
  <1>3. ASSUME NEW c \in Calls, Confirm(c) \/ Login(c) \/ Logout(c) PROVE TypeOK'
    <2>1. call[c] \in Call
      BY DEF TypeOK
    <2>2. TabOf[c] \in Tabs
      OBVIOUS
    <2>3. CASE Confirm(c)
      BY <2>2, <2>3 DEF Confirm, TypeOK, Call, New, ConfirmPC
    <2>4. CASE Login(c)
      BY <2>4 DEF Login, TypeOK, Call, New, LoginPC
    <2>5. CASE Logout(c)
      BY <2>2, <2>5 DEF Logout, TypeOK, Call, New, LogoutPC, Used, Presenter
    <2> QED
      BY <1>3, <2>3, <2>4, <2>5
  <1>4. ASSUME NEW c \in Calls, CallStep(c) PROVE TypeOK'
    <2>1. call[c] \in Call /\ TabOf[c] \in Tabs
      BY DEF TypeOK
    <2>2. CASE Authorize(c)
      BY <2>1, <2>2 DEF Authorize, TypeOK, Call, ConfirmPC
    <2>3. CASE RejectRetry(c)
      BY <2>3 DEF RejectRetry, TypeOK
    <2>4. CASE JoinRefresh(c)
      BY <2>1, <2>4 DEF JoinRefresh, TypeOK, Call, ConfirmPC
    <2>5. CASE StartRefresh(c)
      BY <2>1, <2>5
      DEF StartRefresh, TypeOK, Call, ConfirmPC, Request, NoRequest, Used, Presenter
    <2>6. CASE IssueTokens(c)
      <3>1. [call[c] EXCEPT !.pc = "welcome", !.pair = issued + 1] \in Call
        BY <2>1, NextPair DEF Call, LoginPC
      <3>2. \A d \in Calls : call'[d] = IF d = c
              THEN [call[c] EXCEPT !.pc = "welcome", !.pair = issued + 1]
              ELSE call[d]
        BY <2>1, <2>6 DEF IssueTokens, TypeOK, Call
      <3>3. call' \in [Calls -> Call]
        BY <2>6, <3>1, <3>2 DEF IssueTokens, TypeOK
      <3> QED
        BY <2>6, <3>3 DEF IssueTokens, TypeOK
    <2>7. CASE LoginAnswered(c)
      BY <2>1, <2>7 DEF LoginAnswered, TypeOK, Call
    <2>8. CASE RevokeAccess(c)
      BY <2>1, <2>8 DEF RevokeAccess, TypeOK, Call, LogoutPC, Token, Access
    <2>9. CASE RevokeRefresh(c)
      BY <2>1, <2>9 DEF RevokeRefresh, TypeOK, Call, LogoutPC, Token, Refresh
    <2>10. CASE LogoutAnswered(c)
      BY <2>1, <2>10 DEF LogoutAnswered, TypeOK, Call
    <2> QED
      BY <1>4, <2>2, <2>3, <2>4, <2>5, <2>6, <2>7, <2>8, <2>9, <2>10 DEF CallStep
  <1>5. ASSUME NEW c \in Calls, ConfirmFails(c) \/ LoginRefused(c) \/ CallLost(c)
        PROVE  TypeOK'
    BY <1>5 DEF ConfirmFails, LoginRefused, CallLost, TypeOK
  <1>6. ASSUME NEW c \in Calls, CallFails(c) PROVE TypeOK'
    <2>1. call[c] \in Call /\ TabOf[c] \in Tabs
      BY DEF TypeOK
    <2>2. call' \in [Calls -> Call]
      BY <1>6, <2>1 DEF CallFails, TypeOK, Call
    <2>3. uses' \subseteq Nat \X Presenter
      BY <1>6, <2>1 DEF CallFails, TypeOK, Call, Used, Presenter
    <2>4. store' \in [Tabs -> Nat] /\ saved' \in Nat
      BY <1>6, <2>1 DEF CallFails, TypeOK
    <2> QED
      BY <1>6, <2>2, <2>3, <2>4 DEF CallFails, TypeOK
  <1>7. ASSUME NEW r \in Calls, RefreshStep(r) PROVE TypeOK'
    <2>1. request[r] \in Request /\ TabOf[r] \in Tabs
      BY DEF TypeOK
    <2>2. CASE CheckRefresh(r)
      BY <2>1, <2>2 DEF CheckRefresh, TypeOK, Request
    <2>3. CASE Rotate(r)
      <3>1. [request[r] EXCEPT !.pc = "answered", !.pair = issued + 1] \in Request
        BY <2>1, NextPair DEF Request
      <3>2. \A q \in Calls : request'[q] = IF q = r
              THEN [request[r] EXCEPT !.pc = "answered", !.pair = issued + 1]
              ELSE request[q]
        BY <2>1, <2>3 DEF Rotate, TypeOK, Request
      <3>3. request' \in [Calls -> Request]
        BY <2>3, <3>1, <3>2 DEF Rotate, TypeOK
      <3>4. Refresh(request[r].refresh) \in Token
        BY <2>1 DEF Refresh, Token, Request
      <3> QED
        BY <2>3, <3>3, <3>4 DEF Rotate, TypeOK
    <2>4. CASE RefreshAnswered(r)
      <3>1. request[r].pair \in Nat
        BY <2>1 DEF Request
      <3>2. \A c \in Calls : [call[c] EXCEPT !.pc = "confirm", !.access = request[r].pair] \in Call
        BY <3>1 DEF TypeOK, Call, ConfirmPC
      <3>3. call' \in [Calls -> Call]
        <4>1. CASE request[r].page
          <5>1. call' = [d \in Calls |->
                  IF TabOf[d] = TabOf[r] /\ call[d].pc = "waiting"
                    THEN [call[d] EXCEPT !.pc = "confirm", !.access = request[r].pair]
                    ELSE call[d]]
            BY <2>4, <4>1 DEF RefreshAnswered
          <5> QED
            BY <3>2, <5>1 DEF TypeOK
        <4>2. CASE ~request[r].page
          BY <2>4, <4>2 DEF RefreshAnswered, TypeOK
        <4> QED
          BY <4>1, <4>2
      <3>4. request' \in [Calls -> Request]
        BY <2>4 DEF RefreshAnswered, TypeOK
      <3>5. store' \in [Tabs -> Nat] /\ saved' \in Nat /\ cookie' \in Nat
        BY <2>1, <2>4, <3>1 DEF RefreshAnswered, TypeOK
      <3>6. promise' \in [Tabs -> Calls \cup {NoCall}]
        BY <2>4 DEF RefreshAnswered, TypeOK
      <3> QED
        BY <2>4, <3>3, <3>4, <3>5, <3>6 DEF RefreshAnswered, TypeOK
    <2>5. CASE RefreshRefused(r)
      BY <2>1, <2>5, SendToLoginTypes DEF RefreshRefused, TypeOK
    <2> QED
      BY <1>7, <2>2, <2>3, <2>4, <2>5 DEF RefreshStep
  <1>8. ASSUME NEW r \in Calls, RefreshFails(r) PROVE TypeOK'
    <2>1. TabOf[r] \in Tabs
      OBVIOUS
    <2> QED
      BY <1>8, <2>1, LeaveTypes, SendToLoginTypes DEF RefreshFails, TypeOK
  <1>9. ASSUME NEW r \in Calls, RefreshLost(r) PROVE TypeOK'
    BY <1>9 DEF RefreshLost, TypeOK
  <1>10. CASE UNCHANGED vars
    BY <1>10 DEF TypeOK, vars
  <1> QED
    BY <1>1, <1>2, <1>3, <1>4, <1>5, <1>6, <1>7, <1>8, <1>9, <1>10 DEF Next

\* Every variable keeps to the values the program gives it.
THEOREM AuthTypeCorrect == Spec => []TypeOK
  BY TypeInit, TypeStep, PTL DEF Spec

-----------------------------------------------------------------------------
(* The numbers of pairs: what is on its way to the browser is new to it. *)

\* The browser has never had refresh token n, so nobody has presented it.
Fresh(n) ==
    /\ n \in 1..issued
    /\ Refresh(n) \notin revoked
    /\ cookie # n
    /\ \A c \in Calls : call[c].refresh # n /\ request[c].refresh # n

Rotated(c, n) == request[c].pc = "answered" /\ request[c].pair = n

Granted(c, n) == call[c].pc = "welcome" /\ call[c].pair = n

Numbers ==
    /\ cookie <= issued
    /\ \A n \in Nat : Refresh(n) \in revoked => n <= issued
    /\ \A c \in Calls : call[c].refresh <= issued /\ request[c].refresh <= issued
    /\ \A c \in Calls, n \in Nat : Rotated(c, n) \/ Granted(c, n) => Fresh(n)
    /\ \A c, d \in Calls, n \in Nat :
          /\ Rotated(c, n) => ~Granted(d, n)
          /\ Rotated(c, n) /\ Rotated(d, n) => c = d
          /\ Granted(c, n) /\ Granted(d, n) => c = d

\* A step that issues nothing and delivers nothing.
Quiet ==
    /\ issued' = issued
    /\ cookie' \in {cookie, 0}
    /\ \A n \in Nat : Refresh(n) \in revoked' =>
          \/ Refresh(n) \in revoked
          \/ \E c \in Calls : n \in {call[c].refresh, request[c].refresh}
    /\ \A c \in Calls : /\ call'[c].refresh \in {0, cookie, call[c].refresh}
                         /\ request'[c].refresh \in {0, cookie, request[c].refresh}
    /\ \A c \in Calls, n \in Nat : /\ Rotated(c, n)' => Rotated(c, n)
                                   /\ Granted(c, n)' => Granted(c, n)

LEMMA QuietNumbers == TypeOK /\ Numbers /\ Quiet => Numbers'
  <1> SUFFICES ASSUME TypeOK, Numbers, Quiet PROVE Numbers'
    OBVIOUS
  <1>1. issued \in Nat /\ cookie \in Nat
    BY DEF TypeOK
  <1>2. \A n \in Nat : Fresh(n) => Fresh(n)'
    BY <1>1 DEF Fresh, Quiet
  <1>3. cookie' <= issued'
    BY <1>1 DEF Quiet, Numbers
  <1>4. \A c \in Calls : call'[c].refresh <= issued' /\ request'[c].refresh <= issued'
    BY <1>1 DEF Quiet, Numbers
  <1>5. \A n \in Nat : Refresh(n) \in revoked' => n <= issued'
    BY DEF Quiet, Numbers
  <1>6. \A c \in Calls, n \in Nat : Rotated(c, n)' \/ Granted(c, n)' => Fresh(n)'
    BY <1>2 DEF Quiet, Numbers
  <1>7. \A c, d \in Calls, n \in Nat :
          /\ Rotated(c, n)' => ~Granted(d, n)'
          /\ Rotated(c, n)' /\ Rotated(d, n)' => c = d
          /\ Granted(c, n)' /\ Granted(d, n)' => c = d
    BY DEF Quiet, Numbers
  <1> QED
    BY <1>3, <1>4, <1>5, <1>6, <1>7 DEF Numbers

\* The tokens in the calls and requests of a tab that goes away.
LEMMA LeaveQuiet ==
  ASSUME TypeOK, NEW t \in Tabs
  PROVE  \A c \in Calls :
           /\ CallsLeft(t)[c].refresh \in {0, call[c].refresh}
           /\ CallsLeft(t)[c].pair \in {0, call[c].pair}
           /\ call[c].pc \notin ConfirmPC =>
                 /\ CallsLeft(t)[c].pc = call[c].pc
                 /\ CallsLeft(t)[c].refresh = call[c].refresh
                 /\ CallsLeft(t)[c].pair = call[c].pair
           /\ call[c].pc \in ConfirmPC => CallsLeft(t)[c].pc \in {"done", call[c].pc}
           /\ RequestsLeft(t)[c].refresh = request[c].refresh
           /\ RequestsLeft(t)[c].pair = request[c].pair
           /\ RequestsLeft(t)[c].pc = request[c].pc
  <1> SUFFICES ASSUME NEW c \in Calls
               PROVE  /\ CallsLeft(t)[c].refresh \in {0, call[c].refresh}
                      /\ CallsLeft(t)[c].pair \in {0, call[c].pair}
                      /\ call[c].pc \notin ConfirmPC =>
                            /\ CallsLeft(t)[c].pc = call[c].pc
                            /\ CallsLeft(t)[c].refresh = call[c].refresh
                            /\ CallsLeft(t)[c].pair = call[c].pair
                      /\ call[c].pc \in ConfirmPC => CallsLeft(t)[c].pc \in {"done", call[c].pc}
                      /\ RequestsLeft(t)[c].refresh = request[c].refresh
                      /\ RequestsLeft(t)[c].pair = request[c].pair
                      /\ RequestsLeft(t)[c].pc = request[c].pc
    OBVIOUS
  <1>1. call[c] \in Call /\ request[c] \in Request
    BY DEF TypeOK
  <1> QED
    BY <1>1 DEF CallsLeft, RequestsLeft, Call, Request, Done, New

LEMMA SendToLoginQuiet ==
  ASSUME TypeOK, NEW t \in Tabs, SendToLogin(t)
  PROVE  \A c \in Calls : /\ call'[c].refresh \in {0, call[c].refresh}
                          /\ \A n \in Nat : Granted(c, n)' => Granted(c, n)
  BY LeaveQuiet DEF SendToLogin, Granted, ConfirmPC

\* Calls that only change one call or one request.
LEMMA CallStepsQuiet ==
  ASSUME TypeOK, NEW c \in Calls,
         \/ Confirm(c) \/ Login(c) \/ Logout(c)
         \/ Authorize(c) \/ RejectRetry(c) \/ JoinRefresh(c) \/ StartRefresh(c)
         \/ RevokeAccess(c) \/ RevokeRefresh(c) \/ LogoutAnswered(c)
         \/ ConfirmFails(c) \/ LoginRefused(c) \/ CallFails(c) \/ CallLost(c)
  PROVE  Quiet
  <1> USE DEF Quiet, Rotated, Granted, TypeOK, Call, Request, New, Done, NoRequest, api, browser
  <1>1. CASE Confirm(c)
    BY <1>1 DEF Confirm
  <1>2. CASE Login(c)
    BY <1>2 DEF Login
  <1>3. CASE Logout(c)
    BY <1>3 DEF Logout
  <1>4. CASE Authorize(c)
    BY <1>4 DEF Authorize
  <1>5. CASE RejectRetry(c)
    BY <1>5 DEF RejectRetry
  <1>6. CASE JoinRefresh(c)
    BY <1>6 DEF JoinRefresh
  <1>7. CASE StartRefresh(c)
    BY <1>7 DEF StartRefresh
  <1>8. CASE RevokeAccess(c)
    BY <1>8 DEF RevokeAccess, Access, Refresh
  <1>9. CASE RevokeRefresh(c)
    BY <1>9 DEF RevokeRefresh, Refresh
  <1>10. CASE LogoutAnswered(c)
    BY <1>10 DEF LogoutAnswered
  <1>11. CASE ConfirmFails(c)
    BY <1>11 DEF ConfirmFails
  <1>12. CASE LoginRefused(c)
    BY <1>12 DEF LoginRefused
  <1>13. CASE CallFails(c)
    BY <1>13 DEF CallFails
  <1>14. CASE CallLost(c)
    BY <1>14 DEF CallLost
  <1> QED
    BY <1>1, <1>2, <1>3, <1>4, <1>5, <1>6, <1>7, <1>8, <1>9, <1>10, <1>11,
       <1>12, <1>13, <1>14

LEMMA OtherStepsQuiet ==
  ASSUME TypeOK,
         \/ \E kind \in {"access", "refresh"} : Expire(kind)
         \/ \E t \in Tabs : Reload(t)
         \/ \E r \in Calls : \/ CheckRefresh(r) \/ RefreshRefused(r)
                             \/ RefreshFails(r) \/ RefreshLost(r)
         \/ UNCHANGED vars
  PROVE  Quiet
  <1> USE DEF api, browser
  <1>1. CASE \E kind \in {"access", "refresh"} : Expire(kind)
    BY <1>1 DEF Expire, Quiet, Rotated, Granted
  <1>2. ASSUME NEW t \in Tabs, Reload(t) PROVE Quiet
    BY <1>2, LeaveQuiet DEF Reload, Quiet, Rotated, Granted, ConfirmPC
  <1>3. ASSUME NEW r \in Calls, CheckRefresh(r) PROVE Quiet
    BY <1>3 DEF CheckRefresh, Quiet, Rotated, Granted, TypeOK, Request
  <1>4. ASSUME NEW r \in Calls, RefreshRefused(r) PROVE Quiet
    <2>1. TabOf[r] \in Tabs /\ request[r] \in Request
      BY CallsAssumption DEF TypeOK
    <2>2. \A c \in Calls : /\ call'[c].refresh \in {0, call[c].refresh}
                           /\ \A n \in Nat : Granted(c, n)' => Granted(c, n)
      <3>1. CASE request[r].page
        BY <1>4, <2>1, <3>1, SendToLoginQuiet DEF RefreshRefused
      <3>2. CASE ~request[r].page
        BY <1>4, <3>2 DEF RefreshRefused, Granted
      <3> QED
        BY <3>1, <3>2
    <2> QED
      BY <1>4, <2>2 DEF RefreshRefused, Quiet, Rotated, TypeOK, Request, NoRequest
  <1>5. ASSUME NEW r \in Calls, RefreshFails(r) PROVE Quiet
    <2>1. TabOf[r] \in Tabs
      BY CallsAssumption
    <2> QED
      BY <1>5, <2>1, SendToLoginQuiet, LeaveQuiet DEF RefreshFails, Quiet, Rotated
  <1>6. ASSUME NEW r \in Calls, RefreshLost(r) PROVE Quiet
    BY <1>6 DEF RefreshLost, Quiet, Rotated, Granted, TypeOK, Request, NoRequest
  <1>7. CASE UNCHANGED vars
    BY <1>7 DEF vars, Quiet, Rotated, Granted
  <1> QED
    BY <1>1, <1>2, <1>3, <1>4, <1>5, <1>6, <1>7

\* A pair that is issued is new to everybody.
LEMMA IssueNumbers ==
  ASSUME TypeOK, Numbers, NEW c \in Calls, IssueTokens(c)
  PROVE  Numbers'
  <1> USE DEF TypeOK, Call, Request
  <1>1. /\ issued' = issued + 1 /\ cookie' = cookie /\ revoked' = revoked
        /\ request' = request
        /\ \A d \in Calls : call'[d].refresh = call[d].refresh
    BY DEF IssueTokens, browser
  <1>2. \A d \in Calls, n \in Nat :
           /\ Rotated(d, n)' = Rotated(d, n)
           /\ Granted(d, n)' => Granted(d, n) \/ (d = c /\ n = issued + 1)
    BY <1>1 DEF IssueTokens, Rotated, Granted
  <1>3. \A n \in Nat : Fresh(n) => Fresh(n)' /\ n # issued + 1
    BY <1>1 DEF Fresh
  <1>4. \A n \in Nat : n = issued + 1 => Fresh(n)'
    <2>1. Refresh(issued + 1) \notin revoked
      BY DEF Numbers
    <2>2. \A d \in Calls : call[d].refresh # issued + 1 /\ request[d].refresh # issued + 1
      <3> SUFFICES ASSUME NEW d \in Calls
                   PROVE  call[d].refresh # issued + 1 /\ request[d].refresh # issued + 1
        OBVIOUS
      <3>1. call[d].refresh \in Nat /\ request[d].refresh \in Nat
        OBVIOUS
      <3>2. call[d].refresh <= issued /\ request[d].refresh <= issued
        BY DEF Numbers
      <3> QED
        BY <3>1, <3>2
    <2>3. cookie # issued + 1
      BY DEF Numbers
    <2>4. issued + 1 \in 1..(issued + 1)
      OBVIOUS
    <2> QED
      BY <1>1, <2>1, <2>2, <2>3, <2>4 DEF Fresh
  <1>5. \A d \in Calls, n \in Nat : Rotated(d, n)' \/ Granted(d, n)' => Fresh(n)'
    BY <1>2, <1>3, <1>4 DEF Numbers
  <1>6. \A d, e \in Calls, n \in Nat :
          /\ Rotated(d, n)' => ~Granted(e, n)'
          /\ Rotated(d, n)' /\ Rotated(e, n)' => d = e
          /\ Granted(d, n)' /\ Granted(e, n)' => d = e
    BY <1>2, <1>3 DEF Numbers
  <1>7. /\ cookie' <= issued'
        /\ \A n \in Nat : Refresh(n) \in revoked' => n <= issued'
        /\ \A d \in Calls : call'[d].refresh <= issued' /\ request'[d].refresh <= issued'
    BY <1>1 DEF Numbers
  <1> QED
    BY <1>5, <1>6, <1>7 DEF Numbers

\* So is one that replaces another, and the one it replaces was presented.
LEMMA RotateNumbers ==
  ASSUME TypeOK, Numbers, NEW r \in Calls, Rotate(r)
  PROVE  Numbers'
  <1> USE DEF TypeOK, Call, Request
  <1>1. /\ issued' = issued + 1 /\ cookie' = cookie /\ call' = call
        /\ revoked' = revoked \cup {Refresh(request[r].refresh)}
        /\ \A d \in Calls : request'[d].refresh = request[d].refresh
    BY DEF Rotate, browser
  <1>2. \A d \in Calls, n \in Nat :
           /\ Granted(d, n)' = Granted(d, n)
           /\ Rotated(d, n)' => Rotated(d, n) \/ (d = r /\ n = issued + 1)
    BY <1>1 DEF Rotate, Rotated, Granted
  <1>3. \A n \in Nat : Fresh(n) => Fresh(n)' /\ n # issued + 1
    BY <1>1 DEF Fresh, Refresh
  <1>4. \A n \in Nat : n = issued + 1 => Fresh(n)'
    <2>1. Refresh(issued + 1) \notin revoked'
      BY <1>1 DEF Numbers, Refresh
    <2>2. \A d \in Calls : call[d].refresh # issued + 1 /\ request[d].refresh # issued + 1
      <3> SUFFICES ASSUME NEW d \in Calls
                   PROVE  call[d].refresh # issued + 1 /\ request[d].refresh # issued + 1
        OBVIOUS
      <3>1. call[d].refresh \in Nat /\ request[d].refresh \in Nat
        OBVIOUS
      <3>2. call[d].refresh <= issued /\ request[d].refresh <= issued
        BY DEF Numbers
      <3> QED
        BY <3>1, <3>2
    <2>3. cookie # issued + 1
      BY DEF Numbers
    <2>4. issued + 1 \in 1..(issued + 1)
      OBVIOUS
    <2> QED
      BY <1>1, <2>1, <2>2, <2>3, <2>4 DEF Fresh
  <1>5. \A d \in Calls, n \in Nat : Rotated(d, n)' \/ Granted(d, n)' => Fresh(n)'
    BY <1>2, <1>3, <1>4 DEF Numbers
  <1>6. \A d, e \in Calls, n \in Nat :
          /\ Rotated(d, n)' => ~Granted(e, n)'
          /\ Rotated(d, n)' /\ Rotated(e, n)' => d = e
          /\ Granted(d, n)' /\ Granted(e, n)' => d = e
    BY <1>2, <1>3 DEF Numbers
  <1>7. /\ cookie' <= issued'
        /\ \A d \in Calls : call'[d].refresh <= issued' /\ request'[d].refresh <= issued'
    BY <1>1 DEF Numbers
  <1>8. \A n \in Nat : Refresh(n) \in revoked' => n <= issued'
    BY <1>1 DEF Numbers, Refresh
  <1> QED
    BY <1>5, <1>6, <1>7, <1>8 DEF Numbers

\* A pair that arrives is no longer on its way, and the others still are.
LEMMA AnswerNumbers ==
  ASSUME TypeOK, Numbers, NEW c \in Calls, NEW k \in Nat,
         \/ RefreshAnswered(c) /\ Rotated(c, k)
         \/ LoginAnswered(c) /\ Granted(c, k)
  PROVE  Numbers' /\ cookie' = k
  <1> USE DEF TypeOK, Call, Request
  <1>1. /\ issued' = issued /\ cookie' = k /\ revoked' = revoked
        /\ \A d \in Calls : /\ call'[d].refresh \in {0, call[d].refresh}
                            /\ request'[d].refresh \in {0, request[d].refresh}
        /\ \A d \in Calls, n \in Nat : /\ Rotated(d, n)' => Rotated(d, n)
                                       /\ Granted(d, n)' => Granted(d, n)
    <2>1. CASE RefreshAnswered(c) /\ Rotated(c, k)
      <3>1. call[c] \in Call /\ request[c] \in Request
        OBVIOUS
      <3>2. issued' = issued /\ revoked' = revoked /\ cookie' = k
        BY <2>1 DEF RefreshAnswered, Rotated, api
      <3>3. \A d \in Calls : /\ request'[d].refresh \in {0, request[d].refresh}
                             /\ \A n \in Nat : Rotated(d, n)' => Rotated(d, n)
        BY <2>1 DEF RefreshAnswered, Rotated, NoRequest
      <3>4. \A d \in Calls : /\ call'[d].refresh = call[d].refresh
                             /\ \A n \in Nat : Granted(d, n)' => Granted(d, n)
        <4>1. CASE request[c].page
          <5>1. call' = [d \in Calls |->
                  IF TabOf[d] = TabOf[c] /\ call[d].pc = "waiting"
                    THEN [call[d] EXCEPT !.pc = "confirm", !.access = request[c].pair]
                    ELSE call[d]]
            BY <2>1, <4>1 DEF RefreshAnswered
          <5> QED
            BY <5>1 DEF Granted
        <4>2. CASE ~request[c].page
          BY <2>1, <4>2 DEF RefreshAnswered, Granted
        <4> QED
          BY <3>1, <4>1, <4>2
      <3> QED
        BY <3>2, <3>3, <3>4
    <2>2. CASE LoginAnswered(c) /\ Granted(c, k)
      BY <2>2 DEF LoginAnswered, Rotated, Granted, Done, New, api
    <2> QED
      BY <2>1, <2>2
  <1>2. \A d \in Calls : ~Rotated(d, k)' /\ ~Granted(d, k)'
    <2>1. CASE RefreshAnswered(c) /\ Rotated(c, k)
      <3>1. ~Rotated(c, k)'
        BY <2>1 DEF RefreshAnswered, Rotated, NoRequest
      <3> QED
        BY <1>1, <2>1, <3>1 DEF Numbers
    <2>2. CASE LoginAnswered(c) /\ Granted(c, k)
      <3>1. ~Granted(c, k)'
        BY <2>2 DEF LoginAnswered, Granted, Done, New
      <3> QED
        BY <1>1, <2>2, <3>1 DEF Numbers
    <2> QED
      BY <2>1, <2>2
  <1>3. Fresh(k)
    BY DEF Numbers
  <1>4. \A n \in Nat : Fresh(n) /\ n # k => Fresh(n)'
    BY <1>1 DEF Fresh
  <1>5. \A d \in Calls, n \in Nat : Rotated(d, n)' \/ Granted(d, n)' => Fresh(n)'
    BY <1>1, <1>2, <1>4 DEF Numbers
  <1>6. \A d, e \in Calls, n \in Nat :
          /\ Rotated(d, n)' => ~Granted(e, n)'
          /\ Rotated(d, n)' /\ Rotated(e, n)' => d = e
          /\ Granted(d, n)' /\ Granted(e, n)' => d = e
    BY <1>1 DEF Numbers
  <1>7. /\ cookie' <= issued'
        /\ \A n \in Nat : Refresh(n) \in revoked' => n <= issued'
        /\ \A d \in Calls : call'[d].refresh <= issued' /\ request'[d].refresh <= issued'
    BY <1>1, <1>3 DEF Numbers, Fresh
  <1> QED
    BY <1>1, <1>5, <1>6, <1>7 DEF Numbers

LEMMA NumbersStep == TypeOK /\ Numbers /\ [Next]_vars => Numbers'
  <1> SUFFICES ASSUME TypeOK, Numbers, [Next]_vars PROVE Numbers'
    OBVIOUS
  <1>1. CASE Quiet
    BY <1>1, QuietNumbers
  <1>2. ASSUME NEW c \in Calls, IssueTokens(c) PROVE Numbers'
    BY <1>2, IssueNumbers
  <1>3. ASSUME NEW r \in Calls, Rotate(r) PROVE Numbers'
    BY <1>3, RotateNumbers
  <1>4. ASSUME NEW c \in Calls, LoginAnswered(c) PROVE Numbers'
    <2>1. call[c].pair \in Nat /\ Granted(c, call[c].pair)
      BY <1>4 DEF LoginAnswered, Granted, TypeOK, Call
    <2> QED
      BY <1>4, <2>1, AnswerNumbers
  <1>5. ASSUME NEW r \in Calls, RefreshAnswered(r) PROVE Numbers'
    <2>1. request[r].pair \in Nat /\ Rotated(r, request[r].pair)
      BY <1>5 DEF RefreshAnswered, Rotated, TypeOK, Request
    <2> QED
      BY <1>5, <2>1, AnswerNumbers
  <1>6. Quiet \/ \E c \in Calls : \/ IssueTokens(c) \/ Rotate(c)
                                  \/ LoginAnswered(c) \/ RefreshAnswered(c)
    BY CallStepsQuiet, OtherStepsQuiet DEF Next, CallStep, RefreshStep
  <1> QED
    BY <1>1, <1>2, <1>3, <1>4, <1>5, <1>6

-----------------------------------------------------------------------------
(* Who presented a token, and whose answers nobody waits for. *)

Wait(c) == request[c].pc \in {"sent", "checked", "answered"}

\* Requests and logouts are in the history; so is that they were given up.
Recorded ==
    \A c \in Calls :
        /\ Wait(c) /\ request[c].refresh # 0 =>
              /\ <<request[c].refresh, TabOf[c]>> \in uses
              /\ ~request[c].page => <<request[c].refresh, "abandoned">> \in uses
        /\ call[c].pc \in LogoutPC /\ call[c].refresh # 0 =>
              /\ <<call[c].refresh, "logout">> \in uses
              /\ ~call[c].page => <<call[c].refresh, "abandoned">> \in uses

\* The page of a tab waits for one refresh at most: that of refreshPromise.
SingleFlight ==
    \A r \in Calls : request[r].page => request[r].pc # "none" /\ promise[TabOf[r]] = r

\* A call starts one refresh at most.
OneRefresh ==
    \A c \in Calls :
        /\ call[c].pc = "waiting" => call[c].again
        /\ call[c].pc \in {"confirm", "refused"} /\ ~call[c].again => request[c].pc = "none"
        /\ call[c].pc = "new" => request[c].pc = "none"

LEMMA UsesGrow == [Next]_vars => uses \subseteq uses'
  <1> SUFFICES ASSUME [Next]_vars PROVE uses \subseteq uses'
    OBVIOUS
  <1> USE DEF Used
  <1>1. ASSUME NEW kind \in {"access", "refresh"}, Expire(kind) PROVE uses \subseteq uses'
    BY <1>1 DEF Expire
  <1>2. ASSUME NEW t \in Tabs, Reload(t) PROVE uses \subseteq uses'
    BY <1>2 DEF Reload
  <1>3. ASSUME NEW c \in Calls, \/ Confirm(c) \/ Login(c) \/ Logout(c)
                                \/ ConfirmFails(c) \/ LoginRefused(c)
                                \/ CallFails(c) \/ CallLost(c)
        PROVE  uses \subseteq uses'
    BY <1>3 DEF Confirm, Login, Logout, ConfirmFails, LoginRefused, CallFails, CallLost
  <1>4. ASSUME NEW c \in Calls, CallStep(c) PROVE uses \subseteq uses'
    BY <1>4
    DEF CallStep, Authorize, RejectRetry, JoinRefresh, StartRefresh, IssueTokens,
        LoginAnswered, RevokeAccess, RevokeRefresh, LogoutAnswered
  <1>5. ASSUME NEW r \in Calls, RefreshStep(r) \/ RefreshFails(r) \/ RefreshLost(r)
        PROVE  uses \subseteq uses'
    BY <1>5
    DEF RefreshStep, CheckRefresh, Rotate, RefreshAnswered, RefreshRefused, RefreshFails,
        RefreshLost, SendToLogin
  <1>6. CASE UNCHANGED vars
    BY <1>6 DEF vars
  <1> QED
    BY <1>1, <1>2, <1>3, <1>4, <1>5, <1>6 DEF Next

\* What a tab that goes away leaves behind is recorded.
LEMMA LeaveRecorded ==
  ASSUME TypeOK, NEW t \in Tabs, NEW c \in Calls, TabOf[c] = t
  PROVE  /\ call[c].refresh # 0 => <<call[c].refresh, "abandoned">> \in Used(Abandoned(t), "abandoned")
         /\ Wait(c) /\ request[c].refresh # 0 =>
              <<request[c].refresh, "abandoned">> \in Used(Abandoned(t), "abandoned")
  BY DEF Abandoned, Used, Wait

LEMMA LeavePages ==
  ASSUME TypeOK, NEW t \in Tabs, NEW c \in Calls
  PROVE  /\ TabOf[c] # t => CallsLeft(t)[c] = call[c] /\ RequestsLeft(t)[c] = request[c]
         /\ TabOf[c] = t => ~CallsLeft(t)[c].page /\ ~RequestsLeft(t)[c].page
  <1>1. call[c] \in Call /\ request[c] \in Request
    BY DEF TypeOK
  <1>2. TabOf[c] # t => CallsLeft(t)[c] = call[c] /\ RequestsLeft(t)[c] = request[c]
    BY DEF CallsLeft, RequestsLeft
  <1>3. ASSUME TabOf[c] = t PROVE CallsLeft(t)[c].page = FALSE
    <2>1. CASE call[c].pc \in ConfirmPC
      BY <1>3, <2>1 DEF CallsLeft, Done, New
    <2>2. CASE call[c].pc \notin ConfirmPC
      BY <1>1, <1>3, <2>2 DEF CallsLeft, Call
    <2> QED
      BY <2>1, <2>2
  <1>4. ASSUME TabOf[c] = t PROVE RequestsLeft(t)[c].page = FALSE
    BY <1>1, <1>4 DEF RequestsLeft, Request
  <1> QED
    BY <1>2, <1>3, <1>4

\* A call of the page goes on as it was, or ends.
LEMMA LeaveCalls ==
  ASSUME TypeOK, NEW t \in Tabs, NEW c \in Calls
  PROVE  \/ CallsLeft(t)[c] = Done /\ call[c].pc \in ConfirmPC
         \/ /\ CallsLeft(t)[c].pc = call[c].pc
            /\ CallsLeft(t)[c].again = call[c].again
            /\ CallsLeft(t)[c].refresh = call[c].refresh
            /\ call[c].pc \in ConfirmPC => TabOf[c] # t
  <1>1. call[c] \in Call
    BY DEF TypeOK
  <1> QED
    BY <1>1 DEF CallsLeft, Call

LEMMA RecordedInit == Init => Recorded /\ SingleFlight /\ OneRefresh /\ Numbers
  BY CallsAssumption
  DEF Init, Recorded, SingleFlight, OneRefresh, Numbers, Wait, New, NoRequest, LogoutPC,
      Rotated, Granted

LEMMA OneRefreshStep == TypeOK /\ OneRefresh /\ [Next]_vars => OneRefresh'
  <1> SUFFICES ASSUME TypeOK, OneRefresh, [Next]_vars PROVE OneRefresh'
    OBVIOUS
  <1> USE CallsAssumption DEF TypeOK, Call, Request, OneRefresh, New, Done, NoRequest, api, browser
  <1>1. ASSUME NEW kind \in {"access", "refresh"}, Expire(kind) PROVE OneRefresh'
    BY <1>1 DEF Expire
  <1>2. ASSUME NEW t \in Tabs, call' = CallsLeft(t),
               \A c \in Calls : request'[c].pc \in {"none", request[c].pc}
        PROVE  OneRefresh'
    <2>1. ASSUME NEW c \in Calls
          PROVE  \/ call'[c].pc = "done"
                 \/ call'[c].pc = call[c].pc /\ call'[c].again = call[c].again
      <3>1. \/ call'[c] = Done
            \/ call'[c].pc = call[c].pc /\ call'[c].again = call[c].again
        BY <1>2, LeaveCalls
      <3> QED
        BY <3>1
    <2> QED
      BY <1>2, <2>1
  <1>3. ASSUME NEW t \in Tabs, Reload(t) PROVE OneRefresh'
    <2>1. call' = CallsLeft(t) /\ request' = RequestsLeft(t)
      BY <1>3 DEF Reload
    <2>2. \A c \in Calls : request'[c].pc = request[c].pc
      BY <2>1, LeaveQuiet
    <2> QED
      BY <1>2, <2>1, <2>2
  <1>4. ASSUME NEW c \in Calls, NEW k \in Call, call' = [call EXCEPT ![c] = k], request' = request,
               k.pc = "waiting" => k.again,
               k.pc \in {"new", "confirm", "refused"} => request[c].pc = "none" \/ k.again,
               k.pc # "new"
        PROVE  OneRefresh'
    BY <1>4
  <1>5. ASSUME NEW c \in Calls,
               \/ Confirm(c) \/ Login(c) \/ Logout(c) \/ ConfirmFails(c) \/ LoginRefused(c)
               \/ CallFails(c) \/ CallLost(c) \/ Authorize(c) \/ RejectRetry(c)
               \/ JoinRefresh(c) \/ IssueTokens(c) \/ LoginAnswered(c)
               \/ RevokeAccess(c) \/ RevokeRefresh(c) \/ LogoutAnswered(c)
        PROVE  OneRefresh'
    <2>0. call'[c] \in Call /\ call[c] \in Call
      BY <1>5, TypeStep
    <2>1. request' = request /\ call' = [call EXCEPT ![c] = call'[c]]
      BY <1>5
      DEF Confirm, Login, Logout, ConfirmFails, LoginRefused, CallFails, CallLost, Authorize,
          RejectRetry, JoinRefresh, IssueTokens, LoginAnswered, RevokeAccess, RevokeRefresh,
          LogoutAnswered
    <2>2. /\ call'[c].pc = "waiting" => call'[c].again
          /\ call'[c].pc \in {"new", "confirm", "refused"} =>
                request[c].pc = "none" \/ call'[c].again
          /\ call'[c].pc # "new"
      <3>1. CASE Confirm(c)
        BY <2>0, <3>1 DEF Confirm
      <3>7. CASE Login(c)
        <4>1. call'[c].pc = "login"
          BY <2>0, <3>7 DEF Login
        <4> QED
          BY <4>1
      <3>8. CASE Logout(c)
        <4>1. call'[c].pc = "logout"
          BY <2>0, <3>8 DEF Logout
        <4> QED
          BY <4>1
      <3>2. CASE ConfirmFails(c) \/ LoginRefused(c) \/ CallLost(c) \/ RejectRetry(c)
                 \/ LoginAnswered(c) \/ LogoutAnswered(c)
        BY <3>2 DEF ConfirmFails, LoginRefused, CallLost, RejectRetry, LoginAnswered,
                    LogoutAnswered
      <3>3. CASE CallFails(c)
        BY <2>0, <3>3 DEF CallFails, LoginPC, LogoutPC
      <3>4. CASE Authorize(c)
        BY <2>0, <3>4 DEF Authorize
      <3>5. CASE JoinRefresh(c)
        BY <2>0, <3>5 DEF JoinRefresh
      <3>6. CASE IssueTokens(c) \/ RevokeAccess(c) \/ RevokeRefresh(c)
        BY <2>0, <3>6 DEF IssueTokens, RevokeAccess, RevokeRefresh
      <3> QED
        BY <1>5, <3>1, <3>2, <3>3, <3>4, <3>5, <3>6, <3>7, <3>8
    <2> QED
      BY <1>4, <2>0, <2>1, <2>2
  <1>6. ASSUME NEW c \in Calls, StartRefresh(c) PROVE OneRefresh'
    <2>0. call[c] \in Call
      OBVIOUS
    <2>1. call' = [call EXCEPT ![c] = call'[c]] /\ call'[c].pc = "waiting" /\ call'[c].again
      BY <1>6, <2>0 DEF StartRefresh
    <2>2. \A d \in Calls \ {c} : request'[d] = request[d]
      BY <1>6 DEF StartRefresh
    <2> QED
      BY <2>1, <2>2
  <1>7. ASSUME NEW r \in Calls, CheckRefresh(r) \/ Rotate(r) \/ RefreshLost(r) PROVE OneRefresh'
    <2>1. call' = call
      BY <1>7 DEF CheckRefresh, Rotate, RefreshLost
    <2>2. \A c \in Calls : request[c].pc = "none" => request'[c].pc = "none"
      BY <1>7 DEF CheckRefresh, Rotate, RefreshLost
    <2> QED
      BY <2>1, <2>2
  <1>8. ASSUME NEW r \in Calls, RefreshAnswered(r) PROVE OneRefresh'
    <2>1. \A c \in Calls : request[c].pc = "none" => request'[c].pc = "none"
      BY <1>8 DEF RefreshAnswered
    <2>2. \A c \in Calls :
            \/ call'[c] = call[c]
            \/ call[c].pc = "waiting" /\ call'[c].again = call[c].again /\ call'[c].pc = "confirm"
      <3>1. CASE request[r].page
        <4>1. call' = [c \in Calls |->
                IF TabOf[c] = TabOf[r] /\ call[c].pc = "waiting"
                  THEN [call[c] EXCEPT !.pc = "confirm", !.access = request[r].pair]
                  ELSE call[c]]
          BY <1>8, <3>1 DEF RefreshAnswered
        <4> QED
          BY <4>1
      <3>2. CASE ~request[r].page
        BY <1>8, <3>2 DEF RefreshAnswered
      <3> QED
        BY <3>1, <3>2
    <2> QED
      BY <2>1, <2>2
  <1>9. ASSUME NEW r \in Calls, RefreshRefused(r) PROVE OneRefresh'
    <2>1. \A c \in Calls : request'[c].pc \in {"none", request[c].pc}
      BY <1>9 DEF RefreshRefused
    <2>2. CASE request[r].page
      BY <1>2, <1>9, <2>1, <2>2 DEF RefreshRefused, SendToLogin
    <2>3. CASE ~request[r].page
      BY <1>9, <2>1, <2>3 DEF RefreshRefused
    <2> QED
      BY <2>2, <2>3
  <1>10. ASSUME NEW r \in Calls, RefreshFails(r) PROVE OneRefresh'
    <2>1. call' = CallsLeft(TabOf[r]) /\ request' = RequestsLeft(TabOf[r]) /\ TabOf[r] \in Tabs
      BY <1>10 DEF RefreshFails, SendToLogin
    <2>2. \A c \in Calls : request'[c].pc = request[c].pc
      BY <2>1, LeaveQuiet
    <2> QED
      BY <1>2, <2>1, <2>2
  <1>11. CASE UNCHANGED vars
    BY <1>11 DEF vars
  <1> QED
    BY <1>1, <1>3, <1>5, <1>6, <1>7, <1>8, <1>9, <1>10, <1>11 DEF Next, CallStep, RefreshStep

\* The steps that touch a refreshPromise or a refresh.
LEMMA PromiseSteps ==
  ASSUME [Next]_vars
  PROVE  \/ promise' = promise /\ request' = request
         \/ \E t \in Tabs : Reload(t)
         \/ \E r \in Calls : \/ StartRefresh(r) \/ CheckRefresh(r) \/ Rotate(r)
                             \/ RefreshAnswered(r) \/ RefreshRefused(r) \/ RefreshFails(r)
                             \/ RefreshLost(r)
  BY DEF Next, vars, api, browser, CallStep, RefreshStep, Expire, Confirm, Login, Logout,
         Authorize, RejectRetry, JoinRefresh, IssueTokens, LoginAnswered, RevokeAccess,
         RevokeRefresh, LogoutAnswered, ConfirmFails, LoginRefused, CallFails, CallLost

LEMMA SingleFlightStep ==
  TypeOK /\ SingleFlight /\ [Next]_vars => SingleFlight'
  <1> SUFFICES ASSUME TypeOK, SingleFlight, [Next]_vars PROVE SingleFlight'
    OBVIOUS
  <1> USE CallsAssumption, NothingAssumption DEF TypeOK, Request, SingleFlight, api, browser
  <1>1. CASE promise' = promise /\ request' = request
    BY <1>1
  <1>2. ASSUME NEW t \in Tabs, promise' = [promise EXCEPT ![t] = NoCall],
               \A r \in Calls : IF TabOf[r] = t THEN ~request'[r].page
                                ELSE request'[r] = request[r]
        PROVE  SingleFlight'
    BY <1>2
  <1>3. ASSUME NEW t \in Tabs, Reload(t) PROVE SingleFlight'
    BY <1>2, <1>3, LeavePages DEF Reload
  <1>4. ASSUME NEW c \in Calls, StartRefresh(c) PROVE SingleFlight'
    BY <1>4 DEF StartRefresh, NoRequest
  <1>5. ASSUME NEW r \in Calls, CheckRefresh(r) \/ Rotate(r) \/ RefreshLost(r)
        PROVE  SingleFlight'
    BY <1>5 DEF CheckRefresh, Rotate, RefreshLost, NoRequest
  <1>6. ASSUME NEW r \in Calls, RefreshAnswered(r) PROVE SingleFlight'
    <2>1. CASE request[r].page
      <3>1. /\ request' = [request EXCEPT ![r] = NoRequest]
            /\ promise' = [promise EXCEPT ![TabOf[r]] = NoCall]
            /\ promise[TabOf[r]] = r
        BY <1>6, <2>1 DEF RefreshAnswered
      <3> QED
        BY <2>1, <3>1 DEF NoRequest
    <2>2. CASE ~request[r].page
      BY <1>6, <2>2 DEF RefreshAnswered, NoRequest
    <2> QED
      BY <2>1, <2>2
  <1>7. ASSUME NEW r \in Calls, RefreshRefused(r) PROVE SingleFlight'
    <2>1. CASE request[r].page
      BY <1>7, <2>1 DEF RefreshRefused, SendToLogin, NoRequest
    <2>2. CASE ~request[r].page
      BY <1>7, <2>2 DEF RefreshRefused, NoRequest
    <2> QED
      BY <2>1, <2>2
  <1>8. ASSUME NEW r \in Calls, RefreshFails(r) PROVE SingleFlight'
    BY <1>2, <1>8, LeavePages DEF RefreshFails, SendToLogin
  <1> QED
    BY <1>1, <1>3, <1>4, <1>5, <1>6, <1>7, <1>8, PromiseSteps

\* What a step does to a request that is on its way.
LEMMA RequestsStep ==
  ASSUME TypeOK, [Next]_vars, NEW c \in Calls
  PROVE  \/ ~Wait(c)'
         \/ /\ Wait(c)
            /\ request'[c].refresh = request[c].refresh
            /\ request[c].pc = "answered" => request'[c].pc = "answered"
            /\ \/ request'[c].page = request[c].page
               \/ request[c].refresh # 0 => <<request[c].refresh, "abandoned">> \in uses'
         \/ /\ StartRefresh(c)
            /\ request'[c].page
            /\ request'[c].refresh # 0 => <<request'[c].refresh, TabOf[c]>> \in uses'
  <1> USE CallsAssumption DEF TypeOK, Wait, api, browser
  <1>0. request[c] \in Request
    OBVIOUS
  <1>1. CASE request' = request
    BY <1>1
  <1>2. ASSUME NEW t \in Tabs, request' = RequestsLeft(t),
               uses' = Used(Abandoned(t), "abandoned")
        PROVE  \/ ~Wait(c)'
               \/ /\ Wait(c)
                  /\ request'[c].refresh = request[c].refresh
                  /\ request[c].pc = "answered" => request'[c].pc = "answered"
                  /\ \/ request'[c].page = request[c].page
                     \/ request[c].refresh # 0 => <<request[c].refresh, "abandoned">> \in uses'
    BY <1>2, LeaveQuiet, LeaveRecorded, LeavePages
  <1>3. ASSUME NEW r \in Calls, CheckRefresh(r)
        PROVE  \/ ~Wait(c)'
               \/ /\ Wait(c)
                  /\ request'[c].refresh = request[c].refresh
                  /\ request[c].pc = "answered" => request'[c].pc = "answered"
                  /\ request'[c].page = request[c].page
    BY <1>0, <1>3 DEF CheckRefresh, Request
  <1>4. ASSUME NEW r \in Calls, Rotate(r)
        PROVE  \/ ~Wait(c)'
               \/ /\ Wait(c)
                  /\ request'[c].refresh = request[c].refresh
                  /\ request[c].pc = "answered" => request'[c].pc = "answered"
                  /\ request'[c].page = request[c].page
    <2>1. CASE c = r
      <3> DEFINE n == issued + 1
      <3>1. request'[r] = [request[r] EXCEPT !.pc = "answered", !.pair = n]
        BY <1>4 DEF Rotate, Request
      <3> HIDE DEF n
      <3> QED
        BY <1>0, <1>4, <2>1, <3>1 DEF Rotate, Request
    <2>2. CASE c # r
      BY <1>0, <1>4, <2>2 DEF Rotate, Request
    <2> QED
      BY <2>1, <2>2
  <1>5. ASSUME NEW r \in Calls, request' = [request EXCEPT ![r] = NoRequest]
        PROVE  ~Wait(c)' \/ request'[c] = request[c]
    BY <1>5 DEF NoRequest
  <1>6. ASSUME NEW r \in Calls, StartRefresh(r)
        PROVE  \/ request'[c] = request[c]
               \/ /\ r = c
                  /\ request'[c].page
                  /\ request'[c].refresh # 0 => <<request'[c].refresh, TabOf[c]>> \in uses'
    <2>1. CASE c = r
      <3>1. request'[c].page /\ request'[c].refresh = cookie
        BY <1>6, <2>1 DEF StartRefresh, NoRequest
      <3>2. cookie # 0 => <<cookie, TabOf[c]>> \in uses'
        BY <1>6, <2>1 DEF StartRefresh, Used
      <3> QED
        BY <2>1, <3>1, <3>2
    <2>2. CASE c # r
      BY <1>6, <2>2 DEF StartRefresh
    <2> QED
      BY <2>1, <2>2
  <1>7. \/ request' = request
        \/ \E t \in Tabs : request' = RequestsLeft(t) /\ uses' = Used(Abandoned(t), "abandoned")
        \/ \E r \in Calls : \/ StartRefresh(r) \/ CheckRefresh(r) \/ Rotate(r)
                            \/ request' = [request EXCEPT ![r] = NoRequest]
    <2>1. CASE \E t \in Tabs : Reload(t)
      BY <2>1 DEF Reload
    <2>2. CASE \E r \in Calls : RefreshFails(r)
      BY <2>2 DEF RefreshFails, SendToLogin
    <2>3. CASE \E r \in Calls : RefreshAnswered(r) \/ RefreshRefused(r) \/ RefreshLost(r)
      BY <2>3 DEF RefreshAnswered, RefreshRefused, RefreshLost
    <2> QED
      BY <2>1, <2>2, <2>3
      DEF Next, vars, CallStep, RefreshStep, Expire, Confirm, Login, Logout, Authorize,
          RejectRetry, JoinRefresh, IssueTokens, LoginAnswered, RevokeAccess, RevokeRefresh,
          LogoutAnswered, ConfirmFails, LoginRefused, CallFails, CallLost
  <1> QED
    BY <1>1, <1>2, <1>3, <1>4, <1>5, <1>6, <1>7

\* What a step does to a logout.
LEMMA LogoutsStep ==
  ASSUME TypeOK, [Next]_vars, NEW c \in Calls, call'[c].pc \in LogoutPC
  PROVE  \/ /\ call[c].pc \in LogoutPC
            /\ call'[c].refresh = call[c].refresh
            /\ \/ call'[c].page = call[c].page
               \/ call[c].refresh # 0 => <<call[c].refresh, "abandoned">> \in uses'
         \/ /\ call'[c].page
            /\ call'[c].refresh # 0 => <<call'[c].refresh, "logout">> \in uses'
  <1> USE CallsAssumption DEF TypeOK, api, browser, LogoutPC
  <1> DEFINE Same == /\ call[c].pc \in LogoutPC
                     /\ call'[c].refresh = call[c].refresh
                     /\ \/ call'[c].page = call[c].page
                        \/ call[c].refresh # 0 => <<call[c].refresh, "abandoned">> \in uses'
  <1>0. call[c] \in Call
    OBVIOUS
  <1>1. CASE call'[c] = call[c]
    BY <1>1
  <1>2. ASSUME NEW t \in Tabs, call' = CallsLeft(t), uses' = Used(Abandoned(t), "abandoned")
        PROVE  Same
    <2>1. CallsLeft(t)[c].refresh = call[c].refresh /\ call[c].pc \in LogoutPC
      BY <1>2, LeaveCalls DEF Done, New
    <2> QED
      BY <1>2, <2>1, LeaveRecorded, LeavePages
  <1>3. ASSUME Logout(c)
        PROVE  /\ call'[c].page
               /\ call'[c].refresh # 0 => <<call'[c].refresh, "logout">> \in uses'
    <2>1. call'[c].page /\ call'[c].refresh = cookie
      BY <1>3 DEF Logout, New
    <2>2. cookie # 0 => <<cookie, "logout">> \in uses'
      BY <1>3 DEF Logout, Used
    <2> QED
      BY <2>1, <2>2
  <1>4. ASSUME RevokeAccess(c) \/ RevokeRefresh(c) PROVE Same
    BY <1>0, <1>4 DEF RevokeAccess, RevokeRefresh, Call
  <1>5. ASSUME CallFails(c) PROVE Same
    <2>1. call[c].pc \in LogoutPC /\ call'[c].refresh = call[c].refresh
      BY <1>0, <1>5 DEF CallFails, Call
    <2>2. call[c].refresh # 0 => <<call[c].refresh, "abandoned">> \in uses'
      BY <1>5, <2>1 DEF CallFails, Used
    <2> QED
      BY <2>1, <2>2
  <1>6. ASSUME NEW r \in Calls, RefreshAnswered(r) PROVE call'[c] = call[c]
    <2>1. CASE request[r].page
      <3>1. call' = [d \in Calls |->
              IF TabOf[d] = TabOf[r] /\ call[d].pc = "waiting"
                THEN [call[d] EXCEPT !.pc = "confirm", !.access = request[r].pair]
                ELSE call[d]]
        BY <1>6, <2>1 DEF RefreshAnswered
      <3> QED
        BY <1>0, <3>1 DEF Call
    <2>2. CASE ~request[r].page
      BY <1>6, <2>2 DEF RefreshAnswered
    <2> QED
      BY <2>1, <2>2
  <1>7. ASSUME Confirm(c) \/ Login(c) \/ ConfirmFails(c) \/ LoginRefused(c) \/ CallLost(c)
               \/ Authorize(c) \/ RejectRetry(c) \/ JoinRefresh(c) \/ StartRefresh(c)
               \/ LoginAnswered(c) \/ LogoutAnswered(c)
        PROVE  FALSE
    <2>1. CASE Confirm(c)
      BY <2>1 DEF Confirm, New
    <2>2. CASE Login(c)
      BY <2>2 DEF Login, New
    <2>3. CASE ConfirmFails(c) \/ LoginRefused(c) \/ CallLost(c) \/ RejectRetry(c)
               \/ LoginAnswered(c) \/ LogoutAnswered(c)
      BY <2>3
      DEF ConfirmFails, LoginRefused, CallLost, RejectRetry, LoginAnswered, LogoutAnswered,
          Done, New
    <2>4. CASE Authorize(c)
      BY <1>0, <2>4 DEF Authorize, Call, Done, New
    <2>5. CASE JoinRefresh(c)
      BY <1>0, <2>5 DEF JoinRefresh, Call
    <2>6. CASE StartRefresh(c)
      BY <1>0, <2>6 DEF StartRefresh, Call
    <2> QED
      BY <1>7, <2>1, <2>2, <2>3, <2>4, <2>5, <2>6
  <1>8. ASSUME IssueTokens(c) PROVE FALSE
    <2> DEFINE n == issued + 1
    <2>1. call'[c] = [call[c] EXCEPT !.pc = "welcome", !.pair = n]
      BY <1>8 DEF IssueTokens
    <2> HIDE DEF n
    <2> QED
      BY <1>0, <2>1 DEF Call
  <1>9. ASSUME NEW d \in Calls,
               \/ Confirm(d) \/ Login(d) \/ Logout(d) \/ ConfirmFails(d) \/ LoginRefused(d)
               \/ CallFails(d) \/ CallLost(d) \/ CallStep(d)
        PROVE  c = d \/ call'[c] = call[c]
    BY <1>9
    DEF Confirm, Login, Logout, ConfirmFails, LoginRefused, CallFails, CallLost, CallStep,
        Authorize, RejectRetry, JoinRefresh, StartRefresh, IssueTokens, LoginAnswered,
        RevokeAccess, RevokeRefresh, LogoutAnswered
  <1>10. \/ call' = call
         \/ \E t \in Tabs : call' = CallsLeft(t) /\ uses' = Used(Abandoned(t), "abandoned")
         \/ \E d \in Calls :
               \/ Confirm(d) \/ Login(d) \/ Logout(d) \/ ConfirmFails(d) \/ LoginRefused(d)
               \/ CallFails(d) \/ CallLost(d) \/ CallStep(d) \/ RefreshAnswered(d)
    <2>1. CASE \E t \in Tabs : Reload(t)
      BY <2>1 DEF Reload
    <2>2. CASE \E r \in Calls : RefreshFails(r) \/ RefreshRefused(r)
      BY <2>2 DEF RefreshFails, RefreshRefused, SendToLogin
    <2> QED
      BY <2>1, <2>2
      DEF Next, vars, RefreshStep, Expire, CheckRefresh, Rotate, RefreshLost
  <1> QED
    BY <1>1, <1>2, <1>3, <1>4, <1>5, <1>6, <1>7, <1>8, <1>9, <1>10 DEF CallStep

LEMMA RecordedStep == TypeOK /\ Recorded /\ [Next]_vars => Recorded'
  <1> SUFFICES ASSUME TypeOK, Recorded, [Next]_vars, NEW c \in Calls
               PROVE  /\ Wait(c)' /\ request'[c].refresh # 0 =>
                            /\ <<request'[c].refresh, TabOf[c]>> \in uses'
                            /\ ~request'[c].page => <<request'[c].refresh, "abandoned">> \in uses'
                      /\ call'[c].pc \in LogoutPC /\ call'[c].refresh # 0 =>
                            /\ <<call'[c].refresh, "logout">> \in uses'
                            /\ ~call'[c].page => <<call'[c].refresh, "abandoned">> \in uses'
    BY DEF Recorded
  <1>1. uses \subseteq uses'
    BY UsesGrow
  <1> QED
    BY <1>1, RequestsStep, LogoutsStep DEF Recorded

-----------------------------------------------------------------------------
(* A revoked token in the cookie is about to be replaced or deleted. *)

\* The answer that carries the next pair is lost only if nobody waits for it.
LEMMA AnswerArrives ==
  ASSUME TypeOK, [Next]_vars, NEW r \in Calls, request[r].pc = "answered", ~Wait(r)'
  PROVE  RefreshAnswered(r) \/ ~request[r].page
  <1> USE CallsAssumption DEF TypeOK, Wait, api, browser
  <1>1. request'[r].pc # "answered"
    OBVIOUS
  <1>2. request' # request
    BY <1>1
  <1>3. ASSUME NEW t \in Tabs, request' = RequestsLeft(t) PROVE FALSE
    BY <1>1, <1>3, LeaveQuiet
  <1>4. ASSUME NEW q \in Calls, CheckRefresh(q) \/ Rotate(q) \/ StartRefresh(q)
        PROVE  FALSE
    <2>1. CASE CheckRefresh(q)
      BY <1>1, <2>1 DEF CheckRefresh
    <2>2. CASE Rotate(q)
      BY <1>1, <2>2 DEF Rotate
    <2>3. CASE StartRefresh(q)
      <3>1. q = r
        BY <1>1, <2>3 DEF StartRefresh
      <3>2. request'[r].pc = "sent"
        BY <2>3, <3>1 DEF StartRefresh, NoRequest
      <3> QED
        BY <3>2
    <2> QED
      BY <1>4, <2>1, <2>2, <2>3
  <1>5. ASSUME NEW q \in Calls, RefreshRefused(q) \/ RefreshLost(q)
        PROVE  ~request[r].page
    BY <1>1, <1>5 DEF RefreshRefused, RefreshLost
  <1>6. ASSUME NEW q \in Calls, RefreshAnswered(q)
        PROVE  RefreshAnswered(r)
    <2>1. q = r
      BY <1>1, <1>6 DEF RefreshAnswered
    <2> QED
      BY <1>6, <2>1
  <1>7. ASSUME NEW t \in Tabs, Reload(t) PROVE FALSE
    BY <1>3, <1>7 DEF Reload
  <1>8. ASSUME NEW q \in Calls, RefreshFails(q) PROVE FALSE
    BY <1>3, <1>8 DEF RefreshFails
  <1>9. \/ \E t \in Tabs : Reload(t)
        \/ \E q \in Calls : \/ StartRefresh(q) \/ CheckRefresh(q) \/ Rotate(q)
                            \/ RefreshAnswered(q) \/ RefreshRefused(q) \/ RefreshFails(q)
                            \/ RefreshLost(q)
    BY <1>2
    DEF Next, vars, CallStep, RefreshStep, Expire, Confirm, Login, Logout, Authorize,
        RejectRetry, JoinRefresh, IssueTokens, LoginAnswered, RevokeAccess, RevokeRefresh,
        LogoutAnswered, ConfirmFails, LoginRefused, CallFails, CallLost
  <1> QED
    BY <1>4, <1>5, <1>6, <1>7, <1>8, <1>9

\* So is the answer of a logout.
LEMMA ByeArrives ==
  ASSUME TypeOK, [Next]_vars, NEW c \in Calls, call[c].pc = "bye"
  PROVE  \/ call'[c].pc = "bye" /\ call'[c].refresh = call[c].refresh
         \/ LogoutAnswered(c)
         \/ ~call[c].page
  <1> USE CallsAssumption DEF TypeOK, api, browser
  <1>0. call[c] \in Call
    OBVIOUS
  <1>1. CASE call'[c] = call[c]
    BY <1>1
  <1>2. ASSUME NEW t \in Tabs, call' = CallsLeft(t)
        PROVE  call'[c].pc = "bye" /\ call'[c].refresh = call[c].refresh
    BY <1>2, LeaveQuiet DEF ConfirmPC
  <1>3. CASE CallFails(c)
    BY <1>0, <1>3 DEF CallFails, Call
  <1>4. ASSUME \/ Confirm(c) \/ Login(c) \/ Logout(c) \/ ConfirmFails(c) \/ LoginRefused(c)
               \/ Authorize(c) \/ RejectRetry(c) \/ JoinRefresh(c) \/ StartRefresh(c)
               \/ IssueTokens(c) \/ LoginAnswered(c) \/ RevokeAccess(c) \/ RevokeRefresh(c)
        PROVE  FALSE
    BY <1>4
    DEF Confirm, Login, Logout, ConfirmFails, LoginRefused, Authorize, RejectRetry,
        JoinRefresh, StartRefresh, IssueTokens, LoginAnswered, RevokeAccess, RevokeRefresh
  <1>5. ASSUME CallLost(c) PROVE ~call[c].page
    BY <1>5 DEF CallLost
  <1>6. ASSUME NEW d \in Calls,
               \/ Confirm(d) \/ Login(d) \/ Logout(d) \/ ConfirmFails(d) \/ LoginRefused(d)
               \/ CallFails(d) \/ CallLost(d) \/ CallStep(d)
        PROVE  c = d \/ call'[c] = call[c]
    BY <1>6
    DEF Confirm, Login, Logout, ConfirmFails, LoginRefused, CallFails, CallLost, CallStep,
        Authorize, RejectRetry, JoinRefresh, StartRefresh, IssueTokens, LoginAnswered,
        RevokeAccess, RevokeRefresh, LogoutAnswered
  <1>7. ASSUME NEW r \in Calls, RefreshAnswered(r) PROVE call'[c] = call[c]
    <2>1. CASE request[r].page
      <3>1. call' = [d \in Calls |->
              IF TabOf[d] = TabOf[r] /\ call[d].pc = "waiting"
                THEN [call[d] EXCEPT !.pc = "confirm", !.access = request[r].pair]
                ELSE call[d]]
        BY <1>7, <2>1 DEF RefreshAnswered
      <3> QED
        BY <3>1
    <2>2. CASE ~request[r].page
      BY <1>7, <2>2 DEF RefreshAnswered
    <2> QED
      BY <2>1, <2>2
  <1>8. \/ call' = call
        \/ \E t \in Tabs : call' = CallsLeft(t)
        \/ \E d \in Calls :
              \/ Confirm(d) \/ Login(d) \/ Logout(d) \/ ConfirmFails(d) \/ LoginRefused(d)
              \/ CallFails(d) \/ CallLost(d) \/ CallStep(d) \/ RefreshAnswered(d)
    <2>1. CASE \E t \in Tabs : Reload(t)
      BY <2>1 DEF Reload
    <2>2. CASE \E r \in Calls : RefreshFails(r) \/ RefreshRefused(r)
      BY <2>2 DEF RefreshFails, RefreshRefused, SendToLogin
    <2> QED
      BY <2>1, <2>2
      DEF Next, vars, RefreshStep, Expire, CheckRefresh, Rotate, RefreshLost
  <1> QED
    BY <1>1, <1>2, <1>3, <1>4, <1>5, <1>6, <1>7, <1>8 DEF CallStep

\* The steps that revoke a refresh token, and those that change the cookie.
LEMMA RevokeStep ==
  ASSUME TypeOK, [Next]_vars, NEW n \in Nat, Refresh(n) \in revoked', Refresh(n) \notin revoked
  PROVE  \/ \E r \in Calls : Rotate(r) /\ request[r].refresh = n
         \/ \E c \in Calls : RevokeRefresh(c) /\ call[c].refresh = n
  <1> USE DEF api, browser
  <1>1. revoked' # revoked
    OBVIOUS
  <1>2. \/ \E r \in Calls : Rotate(r)
        \/ \E c \in Calls : RevokeAccess(c) \/ RevokeRefresh(c)
    BY <1>1
    DEF Next, vars, CallStep, RefreshStep, Expire, Reload, Confirm, Login, Logout, Authorize,
        RejectRetry, JoinRefresh, StartRefresh, IssueTokens, LoginAnswered, LogoutAnswered,
        ConfirmFails, LoginRefused, CallFails, CallLost, CheckRefresh, RefreshAnswered,
        RefreshRefused, RefreshFails, RefreshLost
  <1>3. ASSUME NEW c \in Calls, RevokeAccess(c) PROVE FALSE
    BY <1>3 DEF RevokeAccess, Access, Refresh
  <1>4. ASSUME NEW c \in Calls, RevokeRefresh(c) PROVE call[c].refresh = n
    BY <1>4 DEF RevokeRefresh, Refresh
  <1>5. ASSUME NEW r \in Calls, Rotate(r) PROVE request[r].refresh = n
    BY <1>5 DEF Rotate, Refresh
  <1> QED
    BY <1>2, <1>3, <1>4, <1>5

LEMMA CookieSteps ==
  ASSUME TypeOK, [Next]_vars, cookie' # cookie
  PROVE  \E c \in Calls : RefreshAnswered(c) \/ LoginAnswered(c) \/ LogoutAnswered(c)
  BY DEF Next, vars, CallStep, RefreshStep, Expire, Reload, Confirm, Login, Logout, Authorize,
         RejectRetry, JoinRefresh, StartRefresh, IssueTokens, RevokeAccess, RevokeRefresh,
         ConfirmFails, LoginRefused, CallFails, CallLost, CheckRefresh, Rotate,
         RefreshRefused, RefreshFails, RefreshLost, api, browser

LEMMA CookieStep ==
  TypeOK /\ Numbers /\ Recorded /\ OneRefresh /\ CookieIsUsable /\ [Next]_vars => CookieIsUsable'
  <1> DEFINE Excused(n) ==
        \/ \E r \in Calls : request[r].pc = "answered" /\ request[r].refresh = n
        \/ \E c \in Calls : call[c].pc = "bye" /\ call[c].refresh = n
        \/ <<n, "abandoned">> \in uses
  <1> SUFFICES ASSUME TypeOK, Numbers, Recorded, OneRefresh, CookieIsUsable, [Next]_vars,
                      cookie' # 0, Refresh(cookie') \in revoked'
               PROVE  Excused(cookie)'
    BY DEF CookieIsUsable, Refresh
  <1>1. ASSUME NEW c \in Calls, RefreshAnswered(c) \/ LoginAnswered(c) PROVE FALSE
    <2>1. CASE RefreshAnswered(c)
      <3> DEFINE k == request[c].pair
      <3>1. k \in Nat /\ Rotated(c, k)
        BY <2>1 DEF RefreshAnswered, Rotated, TypeOK, Request
      <3>2. cookie' = k /\ Refresh(k) \notin revoked
        BY <2>1, <3>1, AnswerNumbers DEF Numbers, Fresh
      <3>3. revoked' = revoked
        BY <2>1 DEF RefreshAnswered, api
      <3> QED
        BY <3>2, <3>3 DEF Refresh
    <2>2. CASE LoginAnswered(c)
      <3> DEFINE k == call[c].pair
      <3>1. k \in Nat /\ Granted(c, k)
        BY <2>2 DEF LoginAnswered, Granted, TypeOK, Call
      <3>2. cookie' = k /\ Refresh(k) \notin revoked
        BY <2>2, <3>1, AnswerNumbers DEF Numbers, Fresh
      <3>3. revoked' = revoked
        BY <2>2 DEF LoginAnswered, api
      <3> QED
        BY <3>2, <3>3 DEF Refresh
    <2> QED
      BY <1>1, <2>1, <2>2
  <1>2. ASSUME NEW c \in Calls, LogoutAnswered(c) PROVE FALSE
    BY <1>2 DEF LogoutAnswered
  <1>3. cookie' = cookie
    BY <1>1, <1>2, CookieSteps
  <1>4. uses \subseteq uses' /\ cookie \in Nat
    BY UsesGrow DEF TypeOK
  <1>5. CASE Refresh(cookie) \in revoked
    <2>1. Excused(cookie) /\ cookie # 0
      BY <1>3, <1>5 DEF CookieIsUsable
    <2>2. ASSUME NEW r \in Calls, request[r].pc = "answered", request[r].refresh = cookie
          PROVE  Excused(cookie)'
      <3>1. ~StartRefresh(r)
        BY <2>2 DEF StartRefresh, OneRefresh
      <3>2. CASE Wait(r)'
        <4>1. \/ request'[r].pc = "answered" /\ request'[r].refresh = cookie
              \/ <<cookie, "abandoned">> \in uses'
          BY <2>2, <3>1, <3>2, RequestsStep
        <4> QED
          BY <1>3, <4>1
      <3>3. CASE ~Wait(r)'
        <4>1. ~request[r].page
          BY <1>1, <2>2, <3>3, AnswerArrives
        <4>2. <<cookie, "abandoned">> \in uses
          BY <2>1, <2>2, <4>1 DEF Recorded, Wait
        <4> QED
          BY <1>3, <1>4, <4>2
      <3> QED
        BY <3>2, <3>3
    <2>3. ASSUME NEW c \in Calls, call[c].pc = "bye", call[c].refresh = cookie
          PROVE  Excused(cookie)'
      <3>1. CASE call'[c].pc = "bye" /\ call'[c].refresh = cookie
        BY <1>3, <3>1
      <3>2. CASE ~call[c].page
        <4>1. <<cookie, "abandoned">> \in uses
          BY <2>1, <2>3, <3>2 DEF Recorded, LogoutPC
        <4> QED
          BY <1>3, <1>4, <4>1
      <3> QED
        BY <1>2, <2>3, <3>1, <3>2, ByeArrives
    <2>4. CASE <<cookie, "abandoned">> \in uses
      BY <1>3, <1>4, <2>4
    <2> QED
      BY <2>1, <2>2, <2>3, <2>4
  <1>6. CASE Refresh(cookie) \notin revoked
    <2>1. \/ \E r \in Calls : Rotate(r) /\ request[r].refresh = cookie
          \/ \E c \in Calls : RevokeRefresh(c) /\ call[c].refresh = cookie
      BY <1>3, <1>4, <1>6, RevokeStep DEF Refresh
    <2>2. ASSUME NEW r \in Calls, Rotate(r), request[r].refresh = cookie
          PROVE  request'[r].pc = "answered" /\ request'[r].refresh = cookie
      <3> DEFINE n == issued + 1
      <3>1. request'[r] = [request[r] EXCEPT !.pc = "answered", !.pair = n]
        BY <2>2 DEF Rotate, TypeOK, Request
      <3>2. request[r] \in Request
        BY DEF TypeOK
      <3> HIDE DEF n
      <3> QED
        BY <2>2, <3>1, <3>2 DEF Request
    <2>3. ASSUME NEW c \in Calls, RevokeRefresh(c), call[c].refresh = cookie
          PROVE  call'[c].pc = "bye" /\ call'[c].refresh = cookie
      <3>1. call[c] \in Call
        BY DEF TypeOK
      <3> QED
        BY <2>3, <3>1 DEF RevokeRefresh, TypeOK, Call
    <2> QED
      BY <1>3, <2>1, <2>2, <2>3
  <1> QED
    BY <1>5, <1>6

AuthInv ==
    TypeOK /\ Numbers /\ Recorded /\ SingleFlight /\ OneRefresh /\ CookieIsUsable

LEMMA AuthInvariant == Spec => []AuthInv
  <1>1. Init => AuthInv
    BY TypeInit, RecordedInit DEF AuthInv, CookieIsUsable, Init
  <1>2. AuthInv /\ [Next]_vars => AuthInv'
    BY TypeStep, NumbersStep, RecordedStep, SingleFlightStep, OneRefreshStep, CookieStep
    DEF AuthInv
  <1> QED
    BY <1>1, <1>2, PTL DEF Spec

(***************************************************************************)
(* Whatever tabs, logins and logouts do to each other and whichever        *)
(* requests are given up, the refresh token in the cookie is revoked only  *)
(* while its replacement or its deletion is on its way, or after a request *)
(* that carried it was given up.                                           *)
(***************************************************************************)
THEOREM CookieUsable == Spec => []CookieIsUsable
  BY AuthInvariant, PTL DEF AuthInv

-----------------------------------------------------------------------------
(* A refresh is refused for a cause the page cannot help. *)

\* Somebody other than the page of r presented refresh token n.
OtherUse(r, n) == \E p \in Presenter \ {TabOf[r]} : <<n, p>> \in uses

\* A token that was revoked before its refresh is decided was used by others.
RevokedByOthers ==
    \A r \in Calls :
        /\ request[r].pc \in {"sent", "checked"}
        /\ request[r].refresh # 0
        /\ Refresh(request[r].refresh) \in revoked
        => OtherUse(r, request[r].refresh)

\* Two requests of a page do not use the same token.
LEMMA OtherRequests ==
  ASSUME TypeOK, Recorded, SingleFlight, NEW r \in Calls, NEW q \in Calls,
         Wait(q), request[q].refresh # 0,
         TabOf[q] = TabOf[r] /\ request[q].page => promise[TabOf[r]] # q
  PROVE  OtherUse(r, request[q].refresh)
  <1>1. TabOf[q] \in Presenter /\ "abandoned" \in Presenter \ {TabOf[r]}
    BY CallsAssumption, NothingAssumption DEF Presenter
  <1>2. CASE TabOf[q] # TabOf[r]
    BY <1>1, <1>2 DEF OtherUse, Recorded
  <1>3. CASE TabOf[q] = TabOf[r]
    <2>1. ~request[q].page
      BY <1>3 DEF SingleFlight
    <2> QED
      BY <1>1, <2>1 DEF OtherUse, Recorded
  <1> QED
    BY <1>2, <1>3

LEMMA OtherLogout ==
  ASSUME Recorded, NEW r \in Calls, NEW c \in Calls, call[c].pc \in LogoutPC, call[c].refresh # 0
  PROVE  OtherUse(r, call[c].refresh)
  <1>1. "logout" \in Presenter \ {TabOf[r]}
    BY CallsAssumption, NothingAssumption DEF Presenter
  <1> QED
    BY <1>1 DEF OtherUse, Recorded

LEMMA RefusedStep ==
  ASSUME TypeOK, [Next]_vars, NEW r \in Calls, request'[r].pc = "refused"
  PROVE  \/ request[r].pc = "refused" /\ request'[r].refresh = request[r].refresh
         \/ CheckRefresh(r)
  <1> USE CallsAssumption DEF TypeOK, api, browser
  <1>0. request[r] \in Request
    OBVIOUS
  <1>1. CASE request'[r] = request[r]
    BY <1>1
  <1>2. ASSUME NEW t \in Tabs, request' = RequestsLeft(t)
        PROVE  request[r].pc = "refused" /\ request'[r].refresh = request[r].refresh
    BY <1>2, LeaveQuiet
  <1>3. ASSUME NEW q \in Calls, CheckRefresh(q)
        PROVE  q = r \/ request'[r] = request[r]
    BY <1>3 DEF CheckRefresh
  <1>4. ASSUME NEW q \in Calls, Rotate(q) PROVE request'[r] = request[r]
    <2>1. q = r => request'[r].pc = "answered"
      <3> DEFINE n == issued + 1
      <3>1. q = r => request'[r] = [request[r] EXCEPT !.pc = "answered", !.pair = n]
        BY <1>4 DEF Rotate
      <3> HIDE DEF n
      <3> QED
        BY <1>0, <3>1 DEF Request
    <2> QED
      BY <1>4, <2>1 DEF Rotate
  <1>5. ASSUME NEW q \in Calls, StartRefresh(q) PROVE request'[r] = request[r]
    <2>1. q = r => request'[r].pc = "sent"
      BY <1>5 DEF StartRefresh, NoRequest
    <2> QED
      BY <1>5, <2>1 DEF StartRefresh
  <1>6. ASSUME NEW q \in Calls, request' = [request EXCEPT ![q] = NoRequest]
        PROVE  request'[r] = request[r]
    BY <1>6 DEF NoRequest
  <1>7. \/ request' = request
        \/ \E t \in Tabs : request' = RequestsLeft(t)
        \/ \E q \in Calls : \/ StartRefresh(q) \/ CheckRefresh(q) \/ Rotate(q)
                            \/ request' = [request EXCEPT ![q] = NoRequest]
    <2>1. CASE \E t \in Tabs : Reload(t)
      BY <2>1 DEF Reload
    <2>2. CASE \E q \in Calls : RefreshFails(q)
      BY <2>2 DEF RefreshFails
    <2>3. CASE \E q \in Calls : RefreshAnswered(q) \/ RefreshRefused(q) \/ RefreshLost(q)
      BY <2>3 DEF RefreshAnswered, RefreshRefused, RefreshLost
    <2> QED
      BY <2>1, <2>2, <2>3
      DEF Next, vars, CallStep, RefreshStep, Expire, Confirm, Login, Logout, Authorize,
          RejectRetry, JoinRefresh, IssueTokens, LoginAnswered, RevokeAccess, RevokeRefresh,
          LogoutAnswered, ConfirmFails, LoginRefused, CallFails, CallLost
  <1> QED
    BY <1>1, <1>2, <1>3, <1>4, <1>5, <1>6, <1>7

LEMMA RevokedByOthersStep ==
  AuthInv /\ RevokedByOthers /\ [Next]_vars => RevokedByOthers'
  <1> SUFFICES ASSUME AuthInv, RevokedByOthers, [Next]_vars, NEW r \in Calls,
                      request'[r].pc \in {"sent", "checked"}, request'[r].refresh # 0,
                      Refresh(request'[r].refresh) \in revoked'
               PROVE  \E p \in Presenter \ {TabOf[r]} : <<request'[r].refresh, p>> \in uses'
    BY DEF RevokedByOthers, OtherUse, Refresh
  <1> USE DEF AuthInv
  <1>0. request[r] \in Request /\ TabOf[r] \in Tabs
    BY CallsAssumption DEF TypeOK
  <1>1. uses \subseteq uses'
    BY UsesGrow
  <1>2. CASE StartRefresh(r)
    <2>1. request'[r].refresh = cookie /\ revoked' = revoked /\ cookie' = cookie
      BY <1>2 DEF StartRefresh, NoRequest, TypeOK, api
    <2>2. promise[TabOf[r]] = NoCall
      BY <1>2 DEF StartRefresh
    <2>3. ASSUME NEW q \in Calls, request[q].pc = "answered", request[q].refresh = cookie
          PROVE  OtherUse(r, cookie)
      <3>1. promise[TabOf[r]] # q
        BY <2>2, NothingAssumption
      <3>2. Wait(q) /\ request[q].refresh # 0
        BY <2>1, <2>3 DEF Wait
      <3> QED
        BY <2>3, <3>1, <3>2, OtherRequests
    <2>4. ASSUME NEW c \in Calls, call[c].pc = "bye", call[c].refresh = cookie
          PROVE  OtherUse(r, cookie)
      BY <2>1, <2>4, OtherLogout DEF LogoutPC
    <2>5. ASSUME <<cookie, "abandoned">> \in uses PROVE OtherUse(r, cookie)
      BY <1>0, <2>5, NothingAssumption DEF OtherUse, Presenter
    <2>6. cookie # 0 /\ Refresh(cookie) \in revoked
      BY <2>1 DEF Refresh
    <2>7. OtherUse(r, cookie)
      BY <2>3, <2>4, <2>5, <2>6 DEF CookieIsUsable
    <2> QED
      BY <1>1, <2>1, <2>7 DEF OtherUse
  <1>3. CASE ~StartRefresh(r)
    <2> DEFINE n == request[r].refresh
    <2>1. request'[r].refresh = n /\ n # 0 /\ request[r].pc \in {"sent", "checked"}
      BY <1>0, <1>3, RequestsStep DEF Wait, Request
    <2>2. CASE Refresh(n) \in revoked
      BY <1>1, <2>1, <2>2 DEF RevokedByOthers, OtherUse
    <2>3. CASE Refresh(n) \notin revoked
      <3>1. \/ \E q \in Calls : Rotate(q) /\ request[q].refresh = n
            \/ \E c \in Calls : RevokeRefresh(c) /\ call[c].refresh = n
        BY <1>0, <2>1, <2>3, RevokeStep DEF Refresh, Request
      <3>2. ASSUME NEW q \in Calls, Rotate(q), request[q].refresh = n
            PROVE  OtherUse(r, n)
        <4>1. Wait(q) /\ Wait(r)
          BY <2>1, <3>2 DEF Wait, Rotate
        <4>2. q # r
          <5> DEFINE k == issued + 1
          <5>1. q = r => request'[r] = [request[r] EXCEPT !.pc = "answered", !.pair = k]
            BY <3>2 DEF Rotate, TypeOK
          <5> HIDE DEF k
          <5>2. q = r => request'[r].pc = "answered"
            BY <1>0, <5>1 DEF Request
          <5> QED
            BY <5>2
        <4>3. CASE request[r].page
          <5>1. promise[TabOf[r]] = r
            BY <4>3 DEF SingleFlight
          <5> QED
            BY <2>1, <3>2, <4>1, <4>2, <5>1, OtherRequests
        <4>4. CASE ~request[r].page
          BY <1>0, <2>1, <4>1, <4>4, NothingAssumption DEF Recorded, OtherUse, Presenter
        <4> QED
          BY <4>3, <4>4
      <3>3. ASSUME NEW c \in Calls, RevokeRefresh(c), call[c].refresh = n
            PROVE  OtherUse(r, n)
        BY <2>1, <3>3, OtherLogout DEF RevokeRefresh, LogoutPC
      <3> QED
        BY <1>1, <2>1, <3>1, <3>2, <3>3 DEF OtherUse
    <2> QED
      BY <2>2, <2>3
  <1> QED
    BY <1>2, <1>3

LEMMA RefusedForCauseStep ==
  TypeOK /\ RevokedByOthers /\ RefusedForCause /\ [Next]_vars => RefusedForCause'
  <1> SUFFICES ASSUME TypeOK, RevokedByOthers, RefusedForCause, [Next]_vars, NEW r \in Calls,
                      request'[r].pc = "refused"
               PROVE  \/ request'[r].refresh <= expired'["refresh"]
                      \/ \E p \in Presenter \ {TabOf[r]} : <<request'[r].refresh, p>> \in uses'
    BY DEF RefusedForCause, Expired, Refresh, OtherUse
  <1>1. uses \subseteq uses'
    BY UsesGrow
  <1>2. /\ expired["refresh"] \in Nat /\ expired'["refresh"] \in Nat
        /\ expired["refresh"] <= expired'["refresh"]
    <2>1. expired["refresh"] \in Nat
      BY DEF TypeOK
    <2>2. ASSUME NEW kind \in {"access", "refresh"}, Expire(kind)
          PROVE  expired'["refresh"] \in {expired["refresh"], expired["refresh"] + 1}
      BY <2>2 DEF Expire, TypeOK
    <2>3. expired' = expired \/ \E kind \in {"access", "refresh"} : Expire(kind)
      BY DEF Next, vars, CallStep, RefreshStep, Reload, Confirm, Login, Logout, Authorize,
             RejectRetry, JoinRefresh, StartRefresh, IssueTokens, LoginAnswered,
             RevokeAccess, RevokeRefresh, LogoutAnswered, ConfirmFails, LoginRefused,
             CallFails, CallLost, CheckRefresh, Rotate, RefreshAnswered, RefreshRefused,
             RefreshFails, RefreshLost, api
    <2> QED
      BY <2>1, <2>2, <2>3
  <1>3. request[r] \in Request
    BY DEF TypeOK
  <1>4. CASE request[r].pc = "refused" /\ request'[r].refresh = request[r].refresh
    BY <1>1, <1>2, <1>3, <1>4 DEF RefusedForCause, Expired, Refresh, OtherUse, Request
  <1>5. CASE CheckRefresh(r)
    <2> DEFINE n == request[r].refresh
    <2>1. request'[r].refresh = n /\ n \in Nat /\ request[r].pc = "sent" /\ ~Valid(Refresh(n))
      BY <1>3, <1>5 DEF CheckRefresh, Request, TypeOK
    <2>2. CASE n <= expired["refresh"]
      BY <1>2, <2>1, <2>2
    <2>3. CASE ~(n <= expired["refresh"])
      <3>1. Refresh(n) \in revoked
        BY <2>1, <2>3 DEF Valid, Expired, Refresh
      <3>2. n # 0
        BY <1>2, <2>3
      <3>3. OtherUse(r, n)
        BY <2>1, <3>1, <3>2 DEF RevokedByOthers
      <3> QED
        BY <1>1, <2>1, <3>3 DEF OtherUse
    <2> QED
      BY <2>2, <2>3
  <1> QED
    BY <1>4, <1>5, RefusedStep

(***************************************************************************)
(* A page is sent to the login only for an expired token or for one that   *)
(* another tab, a logout or a request given up has presented too: its own  *)
(* calls never spend the token for each other, however many get a 401 and  *)
(* however the answers are ordered.                                        *)
(***************************************************************************)
THEOREM RefusalsJustified == Spec => []RefusedForCause
  <1>1. Init => RevokedByOthers /\ RefusedForCause
    BY CallsAssumption DEF Init, RevokedByOthers, RefusedForCause, NoRequest
  <1>2. AuthInv /\ RevokedByOthers /\ RefusedForCause /\ [Next]_vars
          => RevokedByOthers' /\ RefusedForCause'
    BY RevokedByOthersStep, RefusedForCauseStep DEF AuthInv
  <1> QED
    BY <1>1, <1>2, AuthInvariant, PTL DEF Spec

-----------------------------------------------------------------------------
(* A call goes on: what CallsEnd has besides fairness. *)

\* How far a call has come; a call goes through a refresh once at most.
Place(k) ==
    CASE k.pc = "new" -> 0
      [] k.pc \in {"login", "logout"} -> 1
      [] k.pc \in {"welcome", "leaving"} -> 2
      [] k.pc = "confirm" -> IF k.again THEN 4 ELSE 1
      [] k.pc = "refused" -> IF k.again THEN 5 ELSE 2
      [] k.pc \in {"waiting", "bye"} -> 3
      [] OTHER -> 6

\* How far a refresh has come; one that is over was settled.
RequestPlace(q) ==
    CASE q.pc = "sent" -> 1
      [] q.pc = "checked" -> 2
      [] q.pc \in {"answered", "refused"} -> 3
      [] OTHER -> 4

CallStays(c) == call'[c].pc = call[c].pc /\ call'[c].again = call[c].again

CallAdvances(c) == Place(call[c]) < Place(call'[c])

RequestAdvances(c) == RequestPlace(request[c]) < RequestPlace(request'[c])

\* No call goes back, and no refresh but for a call that goes on; the steps
\* the fairness is about all lead on.
CallsAdvance ==
    \A c \in Calls :
        /\ CallStays(c) \/ CallAdvances(c)
        /\ request'[c].pc = request[c].pc \/ RequestAdvances(c) \/ CallAdvances(c)
        /\ CallStep(c) \/ RefreshStep(c) => CallAdvances(c) \/ RequestAdvances(c)

\* The refresh a call waits for is one of its own page, under way, and the
\* page is there to settle it.
NobodyWaitsInVain ==
    \A c \in Calls :
        call[c].pc = "waiting" =>
            LET r == promise[TabOf[c]]
            IN /\ r \in Calls /\ TabOf[r] = TabOf[c]
               /\ request[r].pc # "none" /\ request[r].page

PromisesHeld ==
    \A t \in Tabs : promise[t] # NoCall => TabOf[promise[t]] = t /\ request[promise[t]].page

WaitersPromised ==
    \A c \in Calls : call[c].pc = "waiting" => promise[TabOf[c]] # NoCall

\* An answer settles the promise of a page that is there, and sends the calls
\* that waited for it again.
LEMMA AnswerSettles ==
  ASSUME TypeOK, NEW r \in Calls, RefreshAnswered(r)
  PROVE  /\ request[r].pc = "answered"
         /\ request' = [request EXCEPT ![r] = NoRequest]
         /\ request[r].page =>
              /\ promise' = [promise EXCEPT ![TabOf[r]] = NoCall]
              /\ \A c \in Calls :
                    IF TabOf[c] = TabOf[r] /\ call[c].pc = "waiting"
                      THEN call'[c].pc = "confirm" /\ call'[c].again = call[c].again
                      ELSE call'[c] = call[c]
         /\ ~request[r].page => promise' = promise /\ call' = call
  <1>1. request[r].pc = "answered" /\ request' = [request EXCEPT ![r] = NoRequest]
    BY Zenon DEF RefreshAnswered
  <1>2. ASSUME request[r].page
        PROVE  /\ promise' = [promise EXCEPT ![TabOf[r]] = NoCall]
               /\ call' = [c \in Calls |->
                     IF TabOf[c] = TabOf[r] /\ call[c].pc = "waiting"
                       THEN [call[c] EXCEPT !.pc = "confirm", !.access = request[r].pair]
                       ELSE call[c]]
    BY <1>2, Zenon DEF RefreshAnswered
  <1>3. ASSUME request[r].page, NEW c \in Calls
        PROVE  IF TabOf[c] = TabOf[r] /\ call[c].pc = "waiting"
                 THEN call'[c].pc = "confirm" /\ call'[c].again = call[c].again
                 ELSE call'[c] = call[c]
    <2>1. call[c] \in Call
      BY DEF TypeOK
    <2>2. call'[c] = IF TabOf[c] = TabOf[r] /\ call[c].pc = "waiting"
                       THEN [call[c] EXCEPT !.pc = "confirm", !.access = request[r].pair]
                       ELSE call[c]
      BY <1>2, <1>3, Zenon
    <2>3. /\ [call[c] EXCEPT !.pc = "confirm", !.access = request[r].pair].pc = "confirm"
          /\ [call[c] EXCEPT !.pc = "confirm", !.access = request[r].pair].again = call[c].again
      BY <2>1 DEF Call
    <2> QED
      BY <2>2, <2>3, Zenon
  <1>4. ASSUME ~request[r].page PROVE promise' = promise /\ call' = call
    BY <1>4, Zenon DEF RefreshAnswered
  <1> QED
    BY <1>1, <1>2, <1>3, <1>4, Zenon

\* A refusal settles it too, and the page is left.
LEMMA RefusalSettles ==
  ASSUME NEW r \in Calls, RefreshRefused(r)
  PROVE  /\ request[r].pc = "refused"
         /\ request' = [request EXCEPT ![r] = NoRequest]
         /\ request[r].page =>
              /\ promise' = [promise EXCEPT ![TabOf[r]] = NoCall]
              /\ call' = CallsLeft(TabOf[r])
         /\ ~request[r].page => promise' = promise /\ call' = call
  BY DEF RefreshRefused, SendToLogin

LEMMA PromisesHeldStep == TypeOK /\ PromisesHeld /\ [Next]_vars => PromisesHeld'
  <1> SUFFICES ASSUME TypeOK, PromisesHeld, [Next]_vars PROVE PromisesHeld'
    OBVIOUS
  <1> USE CallsAssumption, NothingAssumption DEF TypeOK, Request, PromisesHeld, api, browser
  <1>1. CASE promise' = promise /\ request' = request
    BY <1>1
  <1>2. ASSUME NEW t \in Tabs, promise' = [promise EXCEPT ![t] = NoCall],
               \A r \in Calls : TabOf[r] # t => request'[r] = request[r]
        PROVE  PromisesHeld'
    BY <1>2
  <1>3. ASSUME NEW t \in Tabs, Reload(t) PROVE PromisesHeld'
    BY <1>2, <1>3, LeavePages DEF Reload
  <1>4. ASSUME NEW c \in Calls, StartRefresh(c) PROVE PromisesHeld'
    BY <1>4 DEF StartRefresh, NoRequest
  <1>5. ASSUME NEW r \in Calls, NEW q \in Request, promise' = promise,
               request' = [request EXCEPT ![r] = q], request[r].page => q.page
        PROVE  PromisesHeld'
    BY <1>5
  <1>6. ASSUME NEW r \in Calls, CheckRefresh(r) \/ Rotate(r) \/ RefreshLost(r)
        PROVE  PromisesHeld'
    <2>1. request'[r] \in Request /\ request[r] \in Request
      BY TypeStep
    <2>2. CASE CheckRefresh(r)
      BY <1>5, <2>1, <2>2 DEF CheckRefresh
    <2>3. CASE Rotate(r)
      <3>1. request'[r].page = request[r].page
        BY <2>1, <2>3 DEF Rotate
      <3>2. request' = [request EXCEPT ![r] = request'[r]] /\ promise' = promise
        BY <2>3 DEF Rotate
      <3> QED
        BY <1>5, <2>1, <3>1, <3>2
    <2>4. CASE RefreshLost(r)
      BY <1>5, <2>1, <2>4 DEF RefreshLost
    <2> QED
      BY <1>6, <2>2, <2>3, <2>4
  <1>7. ASSUME NEW r \in Calls, RefreshAnswered(r) \/ RefreshRefused(r) PROVE PromisesHeld'
    <2>1. /\ request' = [request EXCEPT ![r] = NoRequest]
          /\ request[r].page => promise' = [promise EXCEPT ![TabOf[r]] = NoCall]
          /\ ~request[r].page => promise' = promise
      BY <1>7, AnswerSettles, RefusalSettles
    <2>2. CASE request[r].page
      BY <1>2, <2>1, <2>2
    <2>3. CASE ~request[r].page
      BY <1>5, <2>1, <2>3, Records
    <2> QED
      BY <2>2, <2>3
  <1>8. ASSUME NEW r \in Calls, RefreshFails(r) PROVE PromisesHeld'
    BY <1>2, <1>8, LeavePages DEF RefreshFails, SendToLogin
  <1> QED
    BY <1>1, <1>3, <1>4, <1>6, <1>7, <1>8, PromiseSteps

\* The steps that touch a call are its own, or a page's that is settled or left.
LEMMA CallSteps ==
  ASSUME TypeOK, [Next]_vars, NEW c \in Calls
  PROVE  \/ call'[c] = call[c]
         \/ \E t \in Tabs : call' = CallsLeft(t)
         \/ Confirm(c) \/ Login(c) \/ Logout(c)
         \/ ConfirmFails(c) \/ LoginRefused(c) \/ CallLost(c) \/ RejectRetry(c)
         \/ LoginAnswered(c) \/ LogoutAnswered(c) \/ CallFails(c) \/ Authorize(c)
         \/ JoinRefresh(c) \/ StartRefresh(c) \/ IssueTokens(c)
         \/ RevokeAccess(c) \/ RevokeRefresh(c)
         \/ \E r \in Calls : RefreshAnswered(r)
  <1> DEFINE Own(d) == \/ Confirm(d) \/ Login(d) \/ Logout(d)
                       \/ ConfirmFails(d) \/ LoginRefused(d) \/ CallLost(d) \/ RejectRetry(d)
                       \/ LoginAnswered(d) \/ LogoutAnswered(d) \/ CallFails(d) \/ Authorize(d)
                       \/ JoinRefresh(d) \/ StartRefresh(d) \/ IssueTokens(d)
                       \/ RevokeAccess(d) \/ RevokeRefresh(d)
  <1>1. ASSUME NEW d \in Calls, Own(d) PROVE d = c \/ call'[c] = call[c]
    BY <1>1
    DEF TypeOK, Confirm, Login, Logout, ConfirmFails, LoginRefused, CallLost, RejectRetry,
        LoginAnswered, LogoutAnswered, CallFails, Authorize, JoinRefresh, StartRefresh,
        IssueTokens, RevokeAccess, RevokeRefresh
  <1>2. ASSUME NEW r \in Calls, CheckRefresh(r) \/ Rotate(r) \/ RefreshLost(r)
        PROVE  call' = call
    BY <1>2 DEF CheckRefresh, Rotate, RefreshLost
  <1>3. ASSUME NEW r \in Calls, RefreshRefused(r) \/ RefreshFails(r)
        PROVE  call' = call \/ \E t \in Tabs : call' = CallsLeft(t)
    BY <1>3, CallsAssumption DEF RefreshRefused, RefreshFails, SendToLogin
  <1>4. \/ \E kind \in {"access", "refresh"} : Expire(kind)
        \/ \E t \in Tabs : Reload(t)
        \/ \E d \in Calls : \/ Own(d)
                            \/ CheckRefresh(d) \/ Rotate(d) \/ RefreshLost(d)
                            \/ RefreshAnswered(d) \/ RefreshRefused(d) \/ RefreshFails(d)
        \/ UNCHANGED vars
    BY DEF Next, CallStep, RefreshStep
  <1>5. (\E kind \in {"access", "refresh"} : Expire(kind)) => call' = call
    BY DEF Expire
  <1>6. (\E t \in Tabs : Reload(t)) => \E t \in Tabs : call' = CallsLeft(t)
    BY DEF Reload
  <1>7. UNCHANGED vars => call' = call
    BY DEF vars
  <1> QED
    BY <1>1, <1>2, <1>3, <1>4, <1>5, <1>6, <1>7

\* What a step does to a call: it stays where it is or gets on, and waits for
\* a refresh only if there is one.
LEMMA CallMoves ==
  ASSUME TypeOK, OneRefresh, [Next]_vars, NEW c \in Calls
  PROVE  /\ CallStays(c) \/ CallAdvances(c)
         /\ call'[c].pc = "waiting" =>
               call[c].pc = "waiting" \/ JoinRefresh(c) \/ StartRefresh(c)
  <1> DEFINE Goal == /\ CallStays(c) \/ CallAdvances(c)
                     /\ call'[c].pc = "waiting" =>
                           call[c].pc = "waiting" \/ JoinRefresh(c) \/ StartRefresh(c)
  <1>0. call[c] \in Call /\ call'[c] \in Call
    BY TypeStep DEF TypeOK
  <1>1. CASE call'[c] = call[c]
    BY <1>1 DEF CallStays
  <1>2. CASE call[c].pc # "done" /\ call'[c].pc = "done"
    <2>1. Place(call[c]) < 6
      BY <1>0, <1>2 DEF Place, Call, ConfirmPC, LoginPC, LogoutPC
    <2>2. Place(call'[c]) = 6
      BY <1>2 DEF Place
    <2> QED
      BY <1>2, <2>1, <2>2 DEF CallAdvances
  <1>3. ASSUME NEW t \in Tabs, call' = CallsLeft(t) PROVE Goal
    BY <1>2, <1>3, LeaveCalls DEF CallStays, Done, New, ConfirmPC
  <1>4. ASSUME Confirm(c) \/ Login(c) \/ Logout(c) PROVE Goal
    <2>1. call[c].pc = "new"
      BY <1>4 DEF Confirm, Login, Logout
    <2>2. call'[c].pc \in {"confirm", "login", "logout"}
      <3>1. CASE Confirm(c)
        BY <3>1 DEF Confirm, New, TypeOK
      <3>2. CASE Login(c)
        BY <3>2 DEF Login, New, TypeOK
      <3>3. CASE Logout(c)
        BY <3>3 DEF Logout, New, TypeOK
      <3> QED
        BY <1>4, <3>1, <3>2, <3>3
    <2> QED
      BY <2>1, <2>2 DEF CallAdvances, Place
  <1>5. ASSUME ConfirmFails(c) \/ LoginRefused(c) \/ CallLost(c) \/ RejectRetry(c)
               \/ LoginAnswered(c) \/ LogoutAnswered(c)
        PROVE  Goal
    <2>1. call[c].pc # "done" /\ call'[c] = Done
      BY <1>5 DEF LoginPC, LogoutPC, ConfirmFails, LoginRefused, CallLost, RejectRetry, LoginAnswered,
                  LogoutAnswered, TypeOK
    <2> QED
      BY <1>2, <2>1 DEF Done, New
  <1>6. ASSUME CallFails(c) PROVE Goal
    <2>1. call'[c] = [call[c] EXCEPT !.page = FALSE]
      BY <1>6 DEF CallFails, TypeOK
    <2> QED
      BY <1>0, <2>1 DEF CallStays, Call
  <1>7. ASSUME Authorize(c) PROVE Goal
    <2>1. call[c].pc = "confirm"
      BY <1>7 DEF Authorize
    <2>2. call'[c] = Done \/ call'[c] = [call[c] EXCEPT !.pc = "refused"]
      BY <1>7 DEF Authorize, TypeOK
    <2>3. CASE call'[c] = Done
      BY <1>2, <2>1, <2>3 DEF Done, New
    <2>4. CASE call'[c] = [call[c] EXCEPT !.pc = "refused"]
      <3>1. call'[c].pc = "refused" /\ call'[c].again = call[c].again
        BY <1>0, <2>4 DEF Call
      <3> QED
        BY <1>0, <2>1, <3>1 DEF CallAdvances, Place, Call
    <2> QED
      BY <2>2, <2>3, <2>4
  <1>8. ASSUME JoinRefresh(c) \/ StartRefresh(c) PROVE Goal
    <2>1. call[c].pc = "refused" /\ ~call[c].again
      BY <1>8 DEF JoinRefresh, StartRefresh
    <2>2. call'[c].pc = "waiting"
      BY <1>0, <1>8 DEF JoinRefresh, StartRefresh, TypeOK, Call
    <2> QED
      BY <1>8, <2>1, <2>2 DEF CallAdvances, Place
  <1>9. ASSUME IssueTokens(c) PROVE Goal
    <2>1. call[c].pc = "login" /\ call'[c].pc = "welcome"
      BY <1>0, <1>9 DEF IssueTokens, TypeOK, Call
    <2> QED
      BY <2>1 DEF CallAdvances, Place
  <1>10. ASSUME RevokeAccess(c) PROVE Goal
    <2>1. call[c].pc = "logout" /\ call'[c].pc = "leaving"
      BY <1>0, <1>10 DEF RevokeAccess, TypeOK, Call
    <2> QED
      BY <2>1 DEF CallAdvances, Place
  <1>11. ASSUME RevokeRefresh(c) PROVE Goal
    <2>1. call[c].pc = "leaving" /\ call'[c].pc = "bye"
      BY <1>0, <1>11 DEF RevokeRefresh, TypeOK, Call
    <2> QED
      BY <2>1 DEF CallAdvances, Place
  <1>12. ASSUME NEW r \in Calls, RefreshAnswered(r) PROVE Goal
    <2>1. CASE request[r].page /\ TabOf[c] = TabOf[r] /\ call[c].pc = "waiting"
      <3>1. call'[c].pc = "confirm" /\ call'[c].again = call[c].again
        BY <1>12, <2>1, AnswerSettles
      <3> QED
        BY <2>1, <3>1 DEF CallAdvances, Place, OneRefresh
    <2>2. CASE ~(request[r].page /\ TabOf[c] = TabOf[r] /\ call[c].pc = "waiting")
      BY <1>1, <1>12, <2>2, AnswerSettles
    <2> QED
      BY <2>1, <2>2
  <1>13. \/ call'[c] = call[c]
         \/ \E t \in Tabs : call' = CallsLeft(t)
         \/ Confirm(c) \/ Login(c) \/ Logout(c)
         \/ ConfirmFails(c) \/ LoginRefused(c) \/ CallLost(c) \/ RejectRetry(c)
         \/ LoginAnswered(c) \/ LogoutAnswered(c) \/ CallFails(c) \/ Authorize(c)
         \/ JoinRefresh(c) \/ StartRefresh(c) \/ IssueTokens(c)
         \/ RevokeAccess(c) \/ RevokeRefresh(c)
         \/ \E r \in Calls : RefreshAnswered(r)
    BY CallSteps
  <1> QED
    BY <1>1, <1>3, <1>4, <1>5, <1>6, <1>7, <1>8, <1>9, <1>10, <1>11, <1>12, <1>13

LEMMA WaitersPromisedStep ==
  TypeOK /\ OneRefresh /\ WaitersPromised /\ [Next]_vars => WaitersPromised'
  <1> SUFFICES ASSUME TypeOK, OneRefresh, WaitersPromised, [Next]_vars PROVE WaitersPromised'
    OBVIOUS
  <1> USE CallsAssumption, NothingAssumption DEF TypeOK, WaitersPromised
  <1>1. ASSUME promise' = promise,
               \A c \in Calls : call'[c].pc = "waiting" =>
                     call[c].pc = "waiting" \/ promise[TabOf[c]] # NoCall
        PROVE  WaitersPromised'
    BY <1>1
  <1>2. ASSUME NEW t \in Tabs, promise' = [promise EXCEPT ![t] = NoCall],
               \A c \in Calls : call'[c].pc = "waiting" =>
                     TabOf[c] # t /\ call[c].pc = "waiting"
        PROVE  WaitersPromised'
    BY <1>2
  <1>3. ASSUME NEW t \in Tabs, NEW c \in Calls, CallsLeft(t)[c].pc = "waiting"
        PROVE  TabOf[c] # t /\ call[c].pc = "waiting"
    BY <1>3, LeaveCalls DEF ConfirmPC, Done, New
  <1>4. ASSUME NEW t \in Tabs, Reload(t) PROVE WaitersPromised'
    BY <1>2, <1>3, <1>4 DEF Reload
  <1>5. ASSUME NEW c \in Calls, StartRefresh(c) PROVE WaitersPromised'
    <2>1. promise' = [promise EXCEPT ![TabOf[c]] = c] /\ TabOf[c] \in Tabs
      BY <1>5 DEF StartRefresh
    <2>2. \A d \in Calls \ {c} : call'[d] = call[d]
      BY <1>5 DEF StartRefresh
    <2>3. \A d \in Calls : call'[d].pc = "waiting" => promise'[TabOf[d]] # NoCall
      BY <2>1, <2>2
    <2> QED
      BY <2>3
  <1>6. ASSUME NEW r \in Calls, RefreshAnswered(r) PROVE WaitersPromised'
    <2>1. CASE request[r].page
      <3>1. promise' = [promise EXCEPT ![TabOf[r]] = NoCall]
        BY <1>6, <2>1, AnswerSettles
      <3>2. ASSUME NEW c \in Calls, call'[c].pc = "waiting"
            PROVE  TabOf[c] # TabOf[r] /\ call[c].pc = "waiting"
        BY <1>6, <2>1, <3>2, AnswerSettles
      <3> QED
        BY <1>2, <3>1, <3>2
    <2>2. CASE ~request[r].page
      BY <1>1, <1>6, <2>2, AnswerSettles
    <2> QED
      BY <2>1, <2>2
  <1>7. ASSUME NEW r \in Calls, RefreshRefused(r) PROVE WaitersPromised'
    <2>1. CASE request[r].page
      BY <1>2, <1>3, <1>7, <2>1, RefusalSettles
    <2>2. CASE ~request[r].page
      BY <1>1, <1>7, <2>2, RefusalSettles
    <2> QED
      BY <2>1, <2>2
  <1>8. ASSUME NEW r \in Calls, RefreshFails(r) PROVE WaitersPromised'
    BY <1>2, <1>3, <1>8 DEF RefreshFails, SendToLogin
  <1>9. \A c \in Calls : call'[c].pc = "waiting" =>
           \/ call[c].pc = "waiting" \/ promise[TabOf[c]] # NoCall
           \/ \E d \in Calls : StartRefresh(d)
    BY CallMoves DEF JoinRefresh
  <1>10. CASE promise' = promise
    BY <1>1, <1>5, <1>9, <1>10
  <1>11. \A r \in Calls : CheckRefresh(r) \/ Rotate(r) \/ RefreshLost(r) => promise' = promise
    BY DEF CheckRefresh, Rotate, RefreshLost, browser
  <1> QED
    BY <1>4, <1>5, <1>6, <1>7, <1>8, <1>10, <1>11, PromiseSteps

\* What a step does to a refresh; only a call that goes on starts one.
LEMMA RefreshMoves ==
  ASSUME TypeOK, OneRefresh, [Next]_vars, NEW r \in Calls
  PROVE  request'[r].pc = request[r].pc \/ RequestAdvances(r) \/ CallAdvances(r)
  <1> DEFINE Goal == request'[r].pc = request[r].pc \/ RequestAdvances(r) \/ CallAdvances(r)
  <1>0. request[r] \in Request /\ CallsAssumption
    BY CallsAssumption DEF TypeOK
  <1>1. CASE request'[r] = request[r]
    BY <1>1
  <1>2. ASSUME NEW t \in Tabs, request' = RequestsLeft(t) PROVE Goal
    BY <1>2, LeaveQuiet
  <1>3. ASSUME NEW q \in Calls, q # r,
               \/ StartRefresh(q) \/ CheckRefresh(q) \/ Rotate(q) \/ RefreshAnswered(q)
               \/ RefreshRefused(q) \/ RefreshLost(q)
        PROVE  request'[r] = request[r]
    <2>1. CASE RefreshAnswered(q)
      BY <1>3, <2>1, AnswerSettles DEF TypeOK
    <2>2. CASE RefreshRefused(q)
      BY <1>3, <2>2, RefusalSettles DEF TypeOK
    <2> QED
      BY <1>3, <2>1, <2>2 DEF StartRefresh, CheckRefresh, Rotate, RefreshLost, TypeOK
  <1>4. ASSUME StartRefresh(r) PROVE Goal
    <2>1. call[r].pc = "refused"
      BY <1>4 DEF StartRefresh
    <2>2. call'[r].pc = "waiting"
      BY <1>4 DEF StartRefresh, TypeOK, Call
    <2> QED
      BY <2>1, <2>2, CallMoves DEF CallStays
  <1>5. ASSUME RefreshStep(r) \/ RefreshLost(r)
        PROVE  request'[r].pc # request[r].pc /\ RequestAdvances(r)
    <2>1. CASE CheckRefresh(r)
      <3>1. request[r].pc = "sent" /\ request'[r].pc \in {"checked", "refused"}
        BY <1>0, <2>1 DEF CheckRefresh, TypeOK, Request
      <3> QED
        BY <3>1 DEF RequestAdvances, RequestPlace
    <2>2. CASE Rotate(r)
      <3>1. request[r].pc = "checked" /\ request'[r].pc = "answered"
        BY <1>0, <2>2 DEF Rotate, TypeOK, Request
      <3> QED
        BY <3>1 DEF RequestAdvances, RequestPlace
    <2>3. CASE RefreshAnswered(r) \/ RefreshRefused(r) \/ RefreshLost(r)
      <3>1. request[r].pc # "none"
        BY <2>3, AnswerSettles, RefusalSettles DEF RefreshLost
      <3>2. request' = [request EXCEPT ![r] = NoRequest]
        BY <2>3, AnswerSettles, RefusalSettles DEF RefreshLost
      <3>3. request'[r].pc = "none"
        BY <3>2 DEF TypeOK, NoRequest
      <3> QED
        BY <1>0, <3>1, <3>3 DEF RequestAdvances, RequestPlace, Request
    <2> QED
      BY <1>5, <2>1, <2>2, <2>3 DEF RefreshStep
  <1>6. ASSUME NEW q \in Calls, RefreshFails(q) PROVE Goal
    BY <1>0, <1>2, <1>6 DEF RefreshFails, CallsAssumption
  <1>7. ASSUME NEW t \in Tabs, Reload(t) PROVE Goal
    BY <1>2, <1>7 DEF Reload
  <1> QED
    BY <1>1, <1>3, <1>4, <1>5, <1>6, <1>7, PromiseSteps DEF RefreshStep

LEMMA OwnStepsMove ==
  ASSUME TypeOK, NEW c \in Calls
  PROVE  /\ CallStep(c) => call'[c].pc # call[c].pc
         /\ RefreshStep(c) => request'[c].pc # request[c].pc
  <1>0. call[c] \in Call /\ request[c] \in Request
    BY DEF TypeOK
  <1>1. ASSUME CallStep(c) PROVE call'[c].pc # call[c].pc
    <2>1. CASE Authorize(c)
      <3>1. call[c].pc = "confirm"
        BY <2>1 DEF Authorize
      <3>2. call'[c] = Done \/ call'[c] = [call[c] EXCEPT !.pc = "refused"]
        BY <2>1 DEF Authorize, TypeOK
      <3> QED
        BY <1>0, <3>1, <3>2 DEF Done, New, Call
    <2>2. CASE JoinRefresh(c) \/ StartRefresh(c)
      BY <1>0, <2>2 DEF JoinRefresh, StartRefresh, TypeOK, Call
    <2>3. CASE IssueTokens(c)
      BY <1>0, <2>3 DEF IssueTokens, TypeOK, Call
    <2>4. CASE RevokeAccess(c) \/ RevokeRefresh(c)
      BY <1>0, <2>4 DEF RevokeAccess, RevokeRefresh, TypeOK, Call
    <2>5. CASE RejectRetry(c) \/ LoginAnswered(c) \/ LogoutAnswered(c)
      <3>1. call[c].pc # "done" /\ call'[c] = Done
        BY <2>5 DEF RejectRetry, LoginAnswered, LogoutAnswered, TypeOK
      <3> QED
        BY <3>1 DEF Done, New
    <2> QED
      BY <1>1, <2>1, <2>2, <2>3, <2>4, <2>5 DEF CallStep
  <1>2. ASSUME RefreshStep(c) PROVE request'[c].pc # request[c].pc
    <2>1. CASE CheckRefresh(c) \/ Rotate(c)
      BY <1>0, <2>1 DEF CheckRefresh, Rotate, TypeOK, Request
    <2>2. CASE RefreshAnswered(c) \/ RefreshRefused(c)
      <3>1. request[c].pc # "none"
        BY <2>2, AnswerSettles, RefusalSettles
      <3>2. request' = [request EXCEPT ![c] = NoRequest]
        BY <2>2, AnswerSettles, RefusalSettles
      <3> QED
        BY <3>1, <3>2 DEF TypeOK, NoRequest
    <2> QED
      BY <1>2, <2>1, <2>2 DEF RefreshStep
  <1> QED
    BY <1>1, <1>2

LEMMA CallsAdvanceStep == TypeOK /\ OneRefresh /\ [Next]_vars => CallsAdvance
  <1> SUFFICES ASSUME TypeOK, OneRefresh, [Next]_vars, NEW c \in Calls
               PROVE  /\ CallStays(c) \/ CallAdvances(c)
                      /\ \/ request'[c].pc = request[c].pc
                         \/ RequestAdvances(c) \/ CallAdvances(c)
                      /\ CallStep(c) \/ RefreshStep(c) => CallAdvances(c) \/ RequestAdvances(c)
    BY DEF CallsAdvance
  <1> QED
    BY CallMoves, RefreshMoves, OwnStepsMove DEF CallStays

(***************************************************************************)
(* A call that waits for a refresh waits for one its own page is waiting   *)
(* for and that is under way; a call never goes back to where it was, its  *)
(* one retry included, and each step that the API and the browser are to   *)
(* take for it, by the fairness, brings it or its refresh further.  There  *)
(* are seven places for a call and four for a refresh: this is why calls   *)
(* end (CallsEnd), for any number of tabs and calls.                       *)
(***************************************************************************)
THEOREM CallsGoOn == Spec => []NobodyWaitsInVain /\ [][CallsAdvance]_vars
  <1> DEFINE Held == PromisesHeld /\ WaitersPromised
  <1>1. Init => Held
    BY CallsAssumption DEF Init, PromisesHeld, WaitersPromised, New
  <1>2. AuthInv /\ Held /\ [Next]_vars => Held'
    BY PromisesHeldStep, WaitersPromisedStep DEF AuthInv
  <1>3. AuthInv /\ Held => NobodyWaitsInVain
    BY CallsAssumption
    DEF AuthInv, TypeOK, PromisesHeld, WaitersPromised, SingleFlight, NobodyWaitsInVain
  <1>4. AuthInv /\ [Next]_vars => CallsAdvance
    BY CallsAdvanceStep DEF AuthInv
  <1> QED
    BY <1>1, <1>2, <1>3, <1>4, AuthInvariant, PTL DEF Spec

=============================================================================
