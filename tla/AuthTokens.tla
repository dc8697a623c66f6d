----------------------------- MODULE AuthTokens -----------------------------
(***************************************************************************)
(* One user's login: the access and refresh tokens the API issues          *)
(* (api/app/services/auth.py, api/app/core/dependencies.py), and the       *)
(* frontend that keeps and renews them (frontend/src/lib/api.ts).          *)
(*                                                                         *)
(* Tokens come in pairs; a pair is a number and 0 is no token.  The        *)
(* browser has one cookie with a refresh token and one localStorage entry  *)
(* with an access token; each tab has a copy of its own of the latter and  *)
(* its own refreshPromise.  Every await of a handler that another request  *)
(* can overtake is a step of its own, and so is every answer on its way.   *)
(***************************************************************************)
EXTENDS Naturals, FiniteSets

CONSTANTS
    Tabs,
    Calls,      \* calls made through the axios instance, each once
    TabOf,      \* call -> its tab
    KindsOf,    \* call -> what it may be: "confirm", "login", "logout"
    NoCall,     \* refreshPromise is null
    MaxExpired  \* bound: pairs that live to expire

ASSUME CallsAssumption ==
    /\ TabOf \in [Calls -> Tabs]
    /\ KindsOf \in [Calls -> SUBSET {"confirm", "login", "logout"}]
ASSUME NothingAssumption == NoCall \notin Calls /\ Tabs \cap {"logout", "abandoned"} = {}
ASSUME LifetimeAssumption == MaxExpired \in Nat

Token == [kind : {"access", "refresh"}, pair : Nat]

Access(n) == [kind |-> "access", pair |-> n]

Refresh(n) == [kind |-> "refresh", pair |-> n]

VARIABLES
    (* the API *)
    issued,   \* pairs issued so far
    revoked,  \* tokens whose jti is in revoked_tokens
    expired,  \* kind -> how many of the pairs issued are past their exp
    (* the browser *)
    cookie,   \* the refresh token in the HttpOnly cookie
    saved,    \* the access token in localStorage
    store,    \* tab -> the access token in useAuthStore
    promise,  \* tab -> refreshPromise: the call that started the refresh
    call,     \* call -> where it is, and what it carries
    request,  \* call -> the refresh it started
    (* history *)
    uses      \* who presented a refresh token to the API

api == <<issued, revoked, expired>>
browser == <<cookie, saved, store, promise>>
vars == <<api, browser, call, request, uses>>

LogoutPC == {"logout", "leaving", "bye"}

LoginPC == {"login", "welcome"}

ConfirmPC == {"confirm", "refused", "waiting"}

Call ==
    [pc : {"new", "done"} \cup ConfirmPC \cup LoginPC \cup LogoutPC,
     access : Nat,     \* the Authorization header
     refresh : Nat,    \* the cookie it was sent with
     pair : Nat,       \* the pair in the answer
     again : BOOLEAN,   \* config._retry
     page : BOOLEAN]    \* the page that made the call is still there

New == [pc |-> "new", access |-> 0, refresh |-> 0, pair |-> 0,
        again |-> FALSE, page |-> FALSE]

Done == [New EXCEPT !.pc = "done"]

Request ==
    [pc : {"none", "sent", "checked", "answered", "refused"},
     refresh : Nat, pair : Nat, page : BOOLEAN]

NoRequest == [pc |-> "none", refresh |-> 0, pair |-> 0, page |-> FALSE]

Presenter == Tabs \cup {"logout", "abandoned"}

TypeOK ==
    /\ issued \in Nat
    /\ revoked \subseteq Token
    /\ expired \in [{"access", "refresh"} -> Nat]
    /\ cookie \in Nat
    /\ saved \in Nat
    /\ store \in [Tabs -> Nat]
    /\ promise \in [Tabs -> Calls \cup {NoCall}]
    /\ call \in [Calls -> Call]
    /\ request \in [Calls -> Request]
    /\ uses \subseteq Nat \X Presenter

\* Nobody is logged in, or the tabs were opened after a login.
Init ==
    /\ issued \in {0, 1}
    /\ revoked = {}
    /\ expired = [kind \in {"access", "refresh"} |-> 0]
    /\ cookie = issued
    /\ saved = issued
    /\ store = [t \in Tabs |-> issued]
    /\ promise = [t \in Tabs |-> NoCall]
    /\ call = [c \in Calls |-> New]
    /\ request = [c \in Calls |-> NoRequest]
    /\ uses = {}

Used(pairs, presenter) == uses \cup ((pairs \ {0}) \X {presenter})

\* exp is in the past; all tokens of a kind live equally long.
Expired(token) == token.pair <= expired[token.kind]

\* verify_token, then is_revoked; there is no pair 0.
Valid(token) == ~Expired(token) /\ token \notin revoked

\* Time passes; an access token lives for minutes, a refresh token for days.
Expire(kind) ==
    /\ expired[kind] < IF kind = "access" THEN issued ELSE expired["access"]
    /\ expired[kind] < MaxExpired   \* bound
    /\ expired' = [expired EXCEPT ![kind] = @ + 1]
    /\ UNCHANGED <<issued, revoked, browser, call, request, uses>>

-----------------------------------------------------------------------------
(* A page goes away: its scripts end, its requests may still be handled. *)

CallsLeft(t) ==
    [c \in Calls |->
        IF TabOf[c] # t THEN call[c]
        ELSE IF call[c].pc \in ConfirmPC THEN Done
        ELSE [call[c] EXCEPT !.page = FALSE]]

RequestsLeft(t) ==
    [r \in Calls |-> IF TabOf[r] = t
                       THEN [request[r] EXCEPT !.page = FALSE]
                       ELSE request[r]]

\* The refresh tokens in requests whose answers the page of t will not see.
Abandoned(t) ==
    {call[c].refresh : c \in {d \in Calls : TabOf[d] = t}} \cup
    {request[r].refresh : r \in {q \in Calls : TabOf[q] = t /\ request[q].pc # "refused"}}

\* clear() and window.location.assign("/login").  When another tab stores a
\* token before the page loads, the outcome is that of a Reload afterwards.
SendToLogin(t) ==
    /\ store' = [store EXCEPT ![t] = 0]
    /\ saved' = 0
    /\ promise' = [promise EXCEPT ![t] = NoCall]
    /\ call' = CallsLeft(t)
    /\ uses' = Used(Abandoned(t), "abandoned")

\* The user reloads the page; the store starts from localStorage.
Reload(t) ==
    /\ store' = [store EXCEPT ![t] = saved]
    /\ promise' = [promise EXCEPT ![t] = NoCall]
    /\ call' = CallsLeft(t)
    /\ request' = RequestsLeft(t)
    /\ uses' = Used(Abandoned(t), "abandoned")
    /\ UNCHANGED <<api, cookie, saved>>

-----------------------------------------------------------------------------
(* An authenticated call, and the response interceptor. *)

Confirm(c) ==
    /\ call[c].pc = "new" /\ "confirm" \in KindsOf[c]
    /\ store[TabOf[c]] # 0
    /\ call' = [call EXCEPT ![c] = [New EXCEPT !.pc = "confirm", !.page = TRUE,
                                                !.access = store[TabOf[c]]]]
    /\ UNCHANGED <<api, browser, request, uses>>

\* get_token_payload and get_current_user; what follows is Enrollment's.
Authorize(c) ==
    /\ call[c].pc = "confirm"
    /\ call' = [call EXCEPT ![c] = IF Valid(Access(@.access))
                                     THEN Done
                                     ELSE [@ EXCEPT !.pc = "refused"]]
    /\ UNCHANGED <<api, browser, request, uses>>

ConfirmFails(c) ==
    /\ call[c].pc \in {"confirm", "refused"}
    /\ call' = [call EXCEPT ![c] = Done]
    /\ UNCHANGED <<api, browser, request, uses>>

RejectRetry(c) ==
    /\ call[c].pc = "refused"
    /\ call[c].again
    /\ call' = [call EXCEPT ![c] = Done]
    /\ UNCHANGED <<api, browser, request, uses>>

JoinRefresh(c) ==
    /\ call[c].pc = "refused"
    /\ ~call[c].again
    /\ promise[TabOf[c]] # NoCall
    /\ call' = [call EXCEPT ![c].pc = "waiting", ![c].again = TRUE]
    /\ UNCHANGED <<api, browser, request, uses>>

\* Mutant: without "refreshPromise ??".
StartRefreshAnyway(c) ==
    /\ call[c].pc = "refused"
    /\ ~call[c].again
    /\ call' = [call EXCEPT ![c].pc = "waiting", ![c].again = TRUE]
    /\ promise' = [promise EXCEPT ![TabOf[c]] = c]
    /\ request' = [request EXCEPT ![c] = [NoRequest EXCEPT !.pc = "sent", !.page = TRUE,
                                                           !.refresh = cookie]]
    /\ uses' = Used({cookie}, TabOf[c])
    /\ UNCHANGED <<api, cookie, saved, store>>

\* refreshAccessToken; the browser adds the cookie.
StartRefresh(c) ==
    /\ call[c].pc = "refused"
    /\ ~call[c].again
    /\ promise[TabOf[c]] = NoCall
    /\ call' = [call EXCEPT ![c].pc = "waiting", ![c].again = TRUE]
    /\ promise' = [promise EXCEPT ![TabOf[c]] = c]
    /\ request' = [request EXCEPT ![c] = [NoRequest EXCEPT !.pc = "sent", !.page = TRUE,
                                                           !.refresh = cookie]]
    /\ uses' = Used({cookie}, TabOf[c])
    /\ UNCHANGED <<api, cookie, saved, store>>

-----------------------------------------------------------------------------
(* POST /auth/refresh *)

CheckRefresh(r) ==
    /\ request[r].pc = "sent"
    /\ request' = [request EXCEPT ![r].pc = IF Valid(Refresh(request[r].refresh))
                                              THEN "checked"
                                              ELSE "refused"]
    /\ UNCHANGED <<api, browser, call, uses>>

\* issue_tokens, then the old token's jti is inserted and committed.
Rotate(r) ==
    /\ request[r].pc = "checked"
    /\ issued' = issued + 1
    /\ revoked' = revoked \cup {Refresh(request[r].refresh)}
    /\ request' = [request EXCEPT ![r].pc = "answered", ![r].pair = issued + 1]
    /\ UNCHANGED <<expired, browser, call, uses>>

\* Mutant: the endpoint returns the access token and sets no cookie.
RefreshAnsweredWithoutCookie(r) ==
    LET t == TabOf[r]
        n == request[r].pair
    IN /\ request[r].pc = "answered"
       /\ request' = [request EXCEPT ![r] = NoRequest]
       /\ IF request[r].page
            THEN /\ store' = [store EXCEPT ![t] = n]
                 /\ saved' = n
                 /\ promise' = [promise EXCEPT ![t] = NoCall]
                 /\ call' = [c \in Calls |->
                       IF TabOf[c] = t /\ call[c].pc = "waiting"
                         THEN [call[c] EXCEPT !.pc = "confirm", !.access = n]
                         ELSE call[c]]
            ELSE UNCHANGED <<store, saved, promise, call>>
       /\ UNCHANGED <<api, cookie, uses>>

\* Set-Cookie, and if the page is there setTokens and the retries.
RefreshAnswered(r) ==
    LET t == TabOf[r]
        n == request[r].pair
    IN /\ request[r].pc = "answered"
       /\ request' = [request EXCEPT ![r] = NoRequest]
       /\ cookie' = n
       /\ IF request[r].page
            THEN /\ store' = [store EXCEPT ![t] = n]
                 /\ saved' = n
                 /\ promise' = [promise EXCEPT ![t] = NoCall]
                 /\ call' = [c \in Calls |->
                       IF TabOf[c] = t /\ call[c].pc = "waiting"
                         THEN [call[c] EXCEPT !.pc = "confirm", !.access = n]
                         ELSE call[c]]
            ELSE UNCHANGED <<store, saved, promise, call>>
       /\ UNCHANGED <<api, uses>>

\* Mutant: the refresh goes through the interceptor, where its own 401 waits
\* for the refreshPromise it is to settle.
RefreshRefusedUnsettled(r) ==
    /\ request[r].pc = "refused"
    /\ request' = [request EXCEPT ![r] = NoRequest]
    /\ UNCHANGED <<api, browser, call, uses>>

RefreshRefused(r) ==
    /\ request[r].pc = "refused"
    /\ request' = [request EXCEPT ![r] = NoRequest]
    /\ IF request[r].page
         THEN SendToLogin(TabOf[r])
         ELSE UNCHANGED <<store, saved, promise, call, uses>>
    /\ UNCHANGED <<api, cookie>>

\* The connection breaks: to the page that is a refusal.
RefreshFails(r) ==
    /\ request[r].pc # "none" /\ request[r].page
    /\ SendToLogin(TabOf[r])
    /\ request' = RequestsLeft(TabOf[r])
    /\ UNCHANGED <<api, cookie>>

\* A request nobody waits for does not arrive, or its answer does not.
RefreshLost(r) ==
    /\ request[r].pc # "none" /\ ~request[r].page
    /\ request' = [request EXCEPT ![r] = NoRequest]
    /\ UNCHANGED <<api, browser, call, uses>>

-----------------------------------------------------------------------------
(* POST /auth/login *)

Login(c) ==
    /\ call[c].pc = "new" /\ "login" \in KindsOf[c]
    /\ call' = [call EXCEPT ![c] = [New EXCEPT !.pc = "login", !.page = TRUE]]
    /\ UNCHANGED <<api, browser, request, uses>>

IssueTokens(c) ==
    /\ call[c].pc = "login"
    /\ issued' = issued + 1
    /\ call' = [call EXCEPT ![c].pc = "welcome", ![c].pair = issued + 1]
    /\ UNCHANGED <<revoked, expired, browser, request, uses>>

\* Wrong credentials: the interceptor leaves a login's 401 alone.
LoginRefused(c) ==
    /\ call[c].pc = "login"
    /\ call' = [call EXCEPT ![c] = Done]
    /\ UNCHANGED <<api, browser, request, uses>>

LoginAnswered(c) ==
    /\ call[c].pc = "welcome"
    /\ call' = [call EXCEPT ![c] = Done]
    /\ cookie' = call[c].pair
    /\ IF call[c].page
         THEN /\ store' = [store EXCEPT ![TabOf[c]] = call[c].pair]
              /\ saved' = call[c].pair
         ELSE UNCHANGED <<store, saved>>
    /\ UNCHANGED <<api, promise, request, uses>>

-----------------------------------------------------------------------------
(* POST /auth/logout *)

Logout(c) ==
    /\ call[c].pc = "new" /\ "logout" \in KindsOf[c]
    /\ store[TabOf[c]] # 0
    /\ call' = [call EXCEPT ![c] = [New EXCEPT !.pc = "logout", !.page = TRUE,
                                       !.access = store[TabOf[c]], !.refresh = cookie]]
    /\ uses' = Used({cookie}, "logout")
    /\ UNCHANGED <<api, browser, request>>

\* get_optional_token_payload, then the first commit
RevokeAccess(c) ==
    /\ call[c].pc = "logout"
    /\ revoked' = IF Valid(Access(call[c].access))
                    THEN revoked \cup {Access(call[c].access)}
                    ELSE revoked
    /\ call' = [call EXCEPT ![c].pc = "leaving"]
    /\ UNCHANGED <<issued, expired, browser, request, uses>>

RevokeRefresh(c) ==
    /\ call[c].pc = "leaving"
    /\ revoked' = IF ~Expired(Refresh(call[c].refresh))
                    THEN revoked \cup {Refresh(call[c].refresh)}
                    ELSE revoked
    /\ call' = [call EXCEPT ![c].pc = "bye"]
    /\ UNCHANGED <<issued, expired, browser, request, uses>>

\* The cookie is deleted whatever it holds by now.
LogoutAnswered(c) ==
    /\ call[c].pc = "bye"
    /\ call' = [call EXCEPT ![c] = Done]
    /\ cookie' = 0
    /\ IF call[c].page
         THEN /\ store' = [store EXCEPT ![TabOf[c]] = 0]
              /\ saved' = 0
         ELSE UNCHANGED <<store, saved>>
    /\ UNCHANGED <<api, promise, request, uses>>

\* The connection breaks.  The page drops its token all the same after a
\* logout; the API may go on.
CallFails(c) ==
    /\ call[c].pc \in LoginPC \cup LogoutPC
    /\ call[c].page
    /\ call' = [call EXCEPT ![c].page = FALSE]
    /\ IF call[c].pc \in LogoutPC
         THEN /\ store' = [store EXCEPT ![TabOf[c]] = 0]
              /\ saved' = 0
              /\ uses' = Used({call[c].refresh}, "abandoned")
         ELSE UNCHANGED <<store, saved, uses>>
    /\ UNCHANGED <<api, cookie, promise, request>>

CallLost(c) ==
    /\ call[c].pc \in LoginPC \cup LogoutPC
    /\ ~call[c].page
    /\ call' = [call EXCEPT ![c] = Done]
    /\ UNCHANGED <<api, browser, request, uses>>

-----------------------------------------------------------------------------

CallStep(c) ==
    \/ Authorize(c) \/ RejectRetry(c) \/ JoinRefresh(c) \/ StartRefresh(c)
    \/ IssueTokens(c) \/ LoginAnswered(c)
    \/ RevokeAccess(c) \/ RevokeRefresh(c) \/ LogoutAnswered(c)

RefreshStep(r) ==
    CheckRefresh(r) \/ Rotate(r) \/ RefreshAnswered(r) \/ RefreshRefused(r)

Next ==
    \/ \E kind \in {"access", "refresh"} : Expire(kind)
    \/ \E t \in Tabs : Reload(t)
    \/ \E c \in Calls : \/ Confirm(c) \/ Login(c) \/ Logout(c)
                        \/ CallStep(c)
                        \/ ConfirmFails(c) \/ LoginRefused(c)
                        \/ CallFails(c) \/ CallLost(c)
                        \/ RefreshStep(c) \/ RefreshFails(c) \/ RefreshLost(c)

(***************************************************************************)
(* A handler of the API that has begun goes on, and the browser's event    *)
(* loop runs the continuation of an answer that has arrived.  A call and   *)
(* the refresh it started never have a step to take at the same time.      *)
(***************************************************************************)
Fairness ==
    \A c \in Calls : WF_vars(CallStep(c) \/ RefreshStep(c))

Spec == Init /\ [][Next]_vars /\ Fairness

-----------------------------------------------------------------------------

(***************************************************************************)
(* A refresh token in the cookie is revoked only while the answer that     *)
(* replaces it, or the logout that deletes it, is on its way to the        *)
(* browser, or after nobody waited for that answer.  Rotation revokes in   *)
(* the database first and replaces the cookie last, with two tabs doing it *)
(* at once; if this failed, the browser would be left with a cookie that   *)
(* can only be refused.                                                    *)
(***************************************************************************)
CookieIsUsable ==
    cookie # 0 /\ Refresh(cookie) \in revoked =>
        \/ \E r \in Calls : request[r].pc = "answered" /\ request[r].refresh = cookie
        \/ \E c \in Calls : call[c].pc = "bye" /\ call[c].refresh = cookie
        \/ <<cookie, "abandoned">> \in uses

(***************************************************************************)
(* A refresh is refused, which sends the tab to the login page, only if    *)
(* the token in the cookie has expired (or there was none), or it was also *)
(* presented by another tab, by a logout or by a request that was given    *)
(* up.  However many calls of a page are answered 401, and however late,   *)
(* they never use the token up for each other: the point of the single     *)
(* refreshPromise.                                                         *)
(***************************************************************************)
RefusedForCause ==
    \A r \in Calls :
        request[r].pc = "refused" =>
            \/ Expired(Refresh(request[r].refresh))
            \/ \E p \in Presenter \ {TabOf[r]} : <<request[r].refresh, p>> \in uses

(***************************************************************************)
(* Every call ends: none waits for a refresh that will not be settled, and *)
(* none is retried for ever.                                               *)
(***************************************************************************)
CallsEnd ==
    \A c \in Calls : call[c].pc # "new" ~> call[c].pc = "done"

=============================================================================
