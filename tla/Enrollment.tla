----------------------------- MODULE Enrollment -----------------------------
(***************************************************************************)
(* How an agent gets its API key: agent/account.py on the machine,         *)
(* api/app/services/device.py and api/app/core/ws.py in the API, and the   *)
(* page on which the user confirms the device.                             *)
(*                                                                         *)
(*   agent                    API                         browser          *)
(*   enroll, show the link -------------------------->  confirm page       *)
(*   open the socket ---->  register it                                    *)
(*                          look the device up  <----   POST /confirm      *)
(*                          create it | refuse                             *)
(*                          revoke its keys                                *)
(*                          issue a key                                    *)
(*   save the key    <----  send it             ---->   answer             *)
(*                                                                         *)
(* One agent installation: device rows, keys and sockets of others are     *)
(* never touched.  Every arrow out of a step of the API is a commit or an  *)
(* await, so confirmations interleave at each of them.                     *)
(*                                                                         *)
(* The two ends of a socket do not see the same: a handshake may be        *)
(* accepted after its agent has given it up, and the API may take a        *)
(* connection for lost, and end its handler, while the agent still waits.  *)
(***************************************************************************)
EXTENDS Naturals, Sequences

CONSTANTS
    Confirm,      \* confirmations users may send; each mints one key
    TabOf,        \* confirmation -> the load of the page it is sent from: a tab
                  \* that is reloaded, and so forgets what it sent, is another
    UserOf,       \* confirmation -> the user logged in there
    NoUser,       \* the device has no row yet
    NoKey,        \* nothing in secrets.bin
    NoSocket,     \* the registry has no entry
    MaxAttempts,  \* bound: how often the user chooses "Connect account"
    MaxRestarts   \* bound: restarts of the API

Attempt == 1..MaxAttempts

User == {UserOf[c] : c \in Confirm}

ASSUME ConfirmAssumption ==
    TabOf = [c \in Confirm |-> TabOf[c]] /\ UserOf = [c \in Confirm |-> UserOf[c]]
ASSUME NobodyAssumption ==
    NoUser \notin User /\ NoKey \notin Confirm /\ NoSocket \notin Attempt
ASSUME EnrollmentBoundAssumption == MaxAttempts \in Nat /\ MaxRestarts \in Nat

VARIABLES
    (* the database *)
    owner,     \* user_id of the device's row, or NoUser
    issued,    \* rows of user_api_keys for the device
    revoked,   \* those with revoked_at set
    (* the API process *)
    registry,  \* EnrollmentSocketRegistry: the socket of the installation
    socket,    \* attempt -> where its handshake, then its handler is
    lost,      \* attempts whose connection carries nothing any more
    pc,        \* confirmation -> where its request is
    (* the agent *)
    attempt,   \* the current or last attempt
    agent,     \* what it does: at most one at a time (_connecting)
    inbox,     \* attempt -> keys sent to its socket and not yet read
    received,  \* the key read and not yet saved
    stored,    \* the key in secrets.bin
    (* history, read by no action *)
    revokedBy, \* key -> the confirmation that revoked it
    overtaken, \* attempts whose registered socket another one replaced
    dropped,   \* keys read and not saved
    (* bound *)
    restarts

database == <<owner, issued, revoked>>
client == <<attempt, agent, received, stored>>
history == <<revokedBy, overtaken, dropped>>
vars == <<database, registry, socket, lost, pc, client, inbox, history, restarts>>

PC == {"new", "lookup", "create", "revoke", "issue", "send",
       "confirmed", "undelivered", "refused", "failed"}

Finished == {"confirmed", "undelivered", "refused", "failed"}

TypeOK ==
    /\ owner \in User \cup {NoUser}
    /\ issued \subseteq Confirm
    /\ revoked \subseteq issued
    /\ registry \in Attempt \cup {NoSocket}
    /\ socket \in [Attempt -> {"none", "asked", "hello", "open", "closed"}]
    /\ lost \subseteq Attempt
    /\ pc \in [Confirm -> PC]
    /\ attempt \in 0..MaxAttempts
    /\ agent \in {"idle", "enrolled", "waiting", "saving"}
    /\ inbox \in [Attempt -> Seq(Confirm)]
    /\ received \in Confirm \cup {NoKey}
    /\ stored \in Confirm \cup {NoKey}
    /\ revokedBy \in [Confirm -> Confirm \cup {NoKey}]
    /\ overtaken \subseteq Attempt
    /\ dropped \subseteq Confirm
    /\ restarts \in Nat

Init ==
    /\ owner = NoUser
    /\ issued = {}
    /\ revoked = {}
    /\ registry = NoSocket
    /\ socket = [a \in Attempt |-> "none"]
    /\ lost = {}
    /\ pc = [c \in Confirm |-> "new"]
    /\ attempt = 0
    /\ agent = "idle"
    /\ inbox = [a \in Attempt |-> <<>>]
    /\ received = NoKey
    /\ stored = NoKey
    /\ revokedBy = [c \in Confirm |-> NoKey]
    /\ overtaken = {}
    /\ dropped = {}
    /\ restarts = 0

-----------------------------------------------------------------------------
(* The agent: account.connect_account, one thread at a time *)

\* POST /devices/enroll returns a token, and the link is shown.
Enroll ==
    /\ agent = "idle"
    /\ attempt < MaxAttempts
    /\ attempt' = attempt + 1
    /\ agent' = "enrolled"
    /\ UNCHANGED <<database, registry, socket, lost, pc, inbox, received, stored,
                   history, restarts>>

\* create_connection sends the handshake; from here on the agent waits, for the
\* answer first, then for messages.
OpenSocket ==
    /\ agent = "enrolled"
    /\ agent' = "waiting"
    /\ socket' = [socket EXCEPT ![attempt] = "asked"]
    /\ UNCHANGED <<database, registry, lost, pc, attempt, inbox, received, stored,
                   history, restarts>>

\* await_api_key reads the first key and closes the socket.
ReceiveKey ==
    /\ agent = "waiting"
    /\ inbox[attempt] # <<>>
    /\ received' = Head(inbox[attempt])
    /\ inbox' = [inbox EXCEPT ![attempt] = Tail(@)]
    /\ agent' = "saving"
    /\ UNCHANGED <<database, registry, socket, lost, pc, attempt, stored, history,
                   restarts>>

\* save_api_key: written to a file beside secrets.bin, then moved over it.
SaveKey ==
    /\ agent = "saving"
    /\ stored' = received
    /\ received' = NoKey
    /\ agent' = "idle"
    /\ UNCHANGED <<database, registry, socket, lost, pc, attempt, inbox, history,
                   restarts>>

\* The API cannot be reached or does not answer the handshake, the connection
\* breaks, a read finds nothing for sixty seconds, the key cannot be encrypted, or
\* the process ends.
AttemptFails ==
    /\ agent # "idle"
    /\ agent' = "idle"
    /\ received' = NoKey
    /\ dropped' = IF agent = "saving" THEN dropped \cup {received} ELSE dropped
    /\ UNCHANGED <<database, registry, socket, lost, pc, attempt, inbox, stored,
                   revokedBy, overtaken, restarts>>

\* What the agent waits on gives no sign of life: the handshake has no answer, or
\* the connection is lost.  On one that is up the keep-alive pings of the API
\* restart the timeout of the read.
Silent == agent = "waiting" /\ (socket[attempt] = "asked" \/ attempt \in lost)

-----------------------------------------------------------------------------
(* The API: enrollment_socket *)

\* Mutant: any handler that ends empties the entry.
UnregisterAny(a) == registry' = NoSocket

\* EnrollmentSocketRegistry.unregister: only the socket itself.
Unregister(a) ==
    registry' = IF registry = a THEN NoSocket ELSE registry

\* Mutant: the first socket of an installation keeps its entry.
AcceptUnlessTaken(a) ==
    /\ socket[a] = "asked"
    /\ socket' = [socket EXCEPT ![a] = "hello"]
    /\ registry' = IF registry = NoSocket THEN a ELSE registry
    /\ UNCHANGED <<database, lost, pc, client, inbox, history, restarts>>

\* The handshake is accepted and the socket registered, over any other one,
\* whether or not the agent still waits on it.
Accept(a) ==
    /\ socket[a] = "asked"
    /\ socket' = [socket EXCEPT ![a] = "hello"]
    /\ registry' = a
    /\ overtaken' = overtaken \cup ({registry} \ {NoSocket})
    /\ UNCHANGED <<database, lost, pc, client, inbox, revokedBy, dropped, restarts>>

\* The connection goes: the agent has closed it, it is reset, or a keep-alive ping
\* finds no answer.  Neither end need know yet.
Break(a) ==
    /\ socket[a] \in {"hello", "open"}
    /\ a \notin lost
    /\ lost' = lost \cup {a}
    /\ UNCHANGED <<database, registry, socket, pc, client, inbox, history, restarts>>

Greet(a) ==
    /\ socket[a] = "hello"
    /\ a \notin lost
    /\ socket' = [socket EXCEPT ![a] = "open"]
    /\ UNCHANGED <<database, registry, lost, pc, client, inbox, history, restarts>>

\* The hello cannot be sent: the exception leaves the handler outside its try, and
\* the socket stays registered.
GreetFails(a) ==
    /\ socket[a] = "hello"
    /\ a \in lost
    /\ socket' = [socket EXCEPT ![a] = "closed"]
    /\ UNCHANGED <<database, registry, lost, pc, client, inbox, history, restarts>>

\* receive_text raises WebSocketDisconnect, some time after the connection went.
Disconnect(a) ==
    /\ socket[a] = "open"
    /\ a \in lost
    /\ socket' = [socket EXCEPT ![a] = "closed"]
    /\ Unregister(a)
    /\ UNCHANGED <<database, lost, pc, client, inbox, history, restarts>>

-----------------------------------------------------------------------------
(* The API: confirm_enrollment *)

Goto(c, label) == pc' = [pc EXCEPT ![c] = label]

InProgress(c) == pc[c] \notin {"new"} \cup Finished

\* A page sends one confirmation at a time (confirming, which a reload forgets).
\* The token is good from the first attempt on, whichever attempt it came from.
Begin(c) ==
    /\ pc[c] = "new"
    /\ attempt > 0
    /\ \A d \in Confirm : TabOf[d] = TabOf[c] => ~InProgress(d)
    /\ Goto(c, IF registry = NoSocket THEN "refused" ELSE "lookup")
    /\ UNCHANGED <<database, registry, socket, lost, client, inbox, history,
                   restarts>>

\* Mutant: the owner of the row is not compared.
LookupAnyOwner(c) ==
    /\ pc[c] = "lookup"
    /\ Goto(c, IF owner = NoUser THEN "create" ELSE "revoke")
    /\ UNCHANGED <<database, registry, socket, lost, client, inbox, history,
                   restarts>>

\* get_by_installation_id; a row of one's own is updated and committed, which
\* changes nothing but metadata.
Lookup(c) ==
    /\ pc[c] = "lookup"
    /\ Goto(c, IF owner = NoUser THEN "create"
               ELSE IF owner = UserOf[c] THEN "revoke"
               ELSE "refused")
    /\ UNCHANGED <<database, registry, socket, lost, client, inbox, history,
                   restarts>>

\* Mutant: installation_id is not unique, and the newest row is found.
CreateAnotherDevice(c) ==
    /\ pc[c] = "create"
    /\ owner' = UserOf[c]
    /\ Goto(c, "revoke")
    /\ UNCHANGED <<issued, revoked, registry, socket, lost, client, inbox, history,
                   restarts>>

\* installation_id is unique: if another confirmation has created the row in
\* the meantime the insert raises IntegrityError, which nothing catches.
CreateDevice(c) ==
    /\ pc[c] = "create"
    /\ \/ /\ owner = NoUser
          /\ owner' = UserOf[c]
          /\ Goto(c, "revoke")
       \/ /\ owner # NoUser
          /\ Goto(c, "failed")
          /\ UNCHANGED owner
    /\ UNCHANGED <<issued, revoked, registry, socket, lost, client, inbox, history,
                   restarts>>

\* Mutant: only the user's legacy keys, those without a device, are revoked.
RevokeLegacyKeys(c) ==
    /\ pc[c] = "revoke"
    /\ Goto(c, "issue")
    /\ UNCHANGED <<database, registry, socket, lost, client, inbox, history,
                   restarts>>

RevokeKeys(c) ==
    /\ pc[c] = "revoke"
    /\ LET own == {k \in issued \ revoked : UserOf[k] = UserOf[c]}
       IN  /\ revoked' = revoked \cup own
           /\ revokedBy' = [k \in Confirm |-> IF k \in own THEN c ELSE revokedBy[k]]
    /\ Goto(c, "issue")
    /\ UNCHANGED <<owner, issued, registry, socket, lost, client, inbox, overtaken,
                   dropped, restarts>>

\* Mutant: the new key is stored before the old ones are revoked.
IssueKeyBeforeRevoking(c) ==
    /\ pc[c] = "issue"
    /\ issued' = issued \cup {c}
    /\ revoked' = revoked \cup {c}
    /\ revokedBy' = [revokedBy EXCEPT ![c] = c]
    /\ Goto(c, "send")
    /\ UNCHANGED <<owner, registry, socket, lost, client, inbox, overtaken, dropped,
                   restarts>>

IssueKey(c) ==
    /\ pc[c] = "issue"
    /\ issued' = issued \cup {c}
    /\ Goto(c, "send")
    /\ UNCHANGED <<owner, revoked, registry, socket, lost, client, inbox, history,
                   restarts>>

\* send_json finds a socket whose connection takes the message, read or not.
Send(c) ==
    /\ pc[c] = "send"
    /\ registry # NoSocket
    /\ registry \notin lost
    /\ inbox' = [inbox EXCEPT ![registry] = Append(@, c)]
    /\ Goto(c, "confirmed")
    /\ UNCHANGED <<database, registry, socket, lost, client, history, restarts>>

\* There is none, or sending raises because the connection is lost.
SendFails(c) ==
    /\ pc[c] = "send"
    /\ \/ registry = NoSocket /\ UNCHANGED registry
       \/ registry \in lost /\ Unregister(registry)
    /\ Goto(c, "undelivered")
    /\ UNCHANGED <<database, socket, lost, client, inbox, history, restarts>>

Served == {a \in Attempt : socket[a] \in {"hello", "open"}}

\* The API restarts: requests die where they are, connections break, and a
\* handshake still on its way may reach the new process.  The agent is told
\* nothing.
Restart ==
    /\ restarts < MaxRestarts
    /\ restarts' = restarts + 1
    /\ registry' = NoSocket
    /\ socket' = [a \in Attempt |-> IF a \in Served THEN "closed" ELSE socket[a]]
    /\ lost' = lost \cup Served
    /\ pc' = [c \in Confirm |-> IF InProgress(c) THEN "failed" ELSE pc[c]]
    /\ UNCHANGED <<database, client, inbox, history>>

-----------------------------------------------------------------------------

Connect == Enroll \/ OpenSocket \/ ReceiveKey \/ SaveKey \/ AttemptFails

Handle(a) == Accept(a) \/ Break(a) \/ Greet(a) \/ GreetFails(a) \/ Disconnect(a)

Answer(c) ==
    \/ Lookup(c)
    \/ CreateDevice(c)
    \/ RevokeKeys(c)
    \/ IssueKey(c)
    \/ Send(c)
    \/ SendFails(c)

Next ==
    \/ Connect
    \/ \E a \in Attempt : Handle(a)
    \/ \E c \in Confirm : Begin(c) \/ Answer(c)
    \/ Restart

\* A key on its way arrives, or the connection is lost; a read that finds nothing
\* for sixty seconds raises.  Nothing ends a wait on a connection that is up.
Fairness == WF_vars(ReceiveKey \/ (Silent /\ AttemptFails))

Spec == Init /\ [][Next]_vars /\ Fairness

-----------------------------------------------------------------------------
(* Properties *)

\* A device keeps its owner, whoever else confirms it at the same moment.
OwnerKept == [][owner # NoUser => owner' = owner]_owner

\* Every key of the device was issued to its owner: heartbeats sent with one
\* are stored for the user who registered the device.
KeysAreOwners == \A k \in issued : UserOf[k] = owner

\* The agent never stores a key that the API does not know, wherever a request
\* or the API died.
StoredKeyIsIssued == stored # NoKey => stored \in issued

\* A socket that is served on a connection that is up is the one a confirmation
\* reaches, unless another was registered over it: no handler of another attempt
\* that ends late, no failed send and no handshake before it takes it out.
LiveIsRegistered ==
    \A a \in Served \ lost : registry = a \/ a \in overtaken

OneTabPerUser ==
    \A c, d \in Confirm : UserOf[c] = UserOf[d] => TabOf[c] = TabOf[d]

\* "Rotate: revoke this device's previous key, then issue a fresh one"
\* (device.py): a device has at most one key that works, wherever a confirmation
\* was cut off, if each user confirms from one page.  With two pages, or one that
\* is reloaded in between, both may revoke before either issues.
OneActiveKey == OneTabPerUser => \A j, k \in issued \ revoked : j = k

\* The key of c has not arrived: c is under way, broke off or could not deliver,
\* or its key was sent and not read, or read and not saved.
NotArrived(c) ==
    \/ pc[c] \in {"issue", "send", "undelivered", "failed"}
    \/ \E a \in Attempt : \E i \in 1..Len(inbox[a]) : inbox[a][i] = c
    \/ agent = "saving" /\ received = c
    \/ c \in dropped

\* The keys are rotated before the new one is delivered (endpoints/device.py).
\* An agent that is left with a revoked key has missed a newer one: that of the
\* very confirmation which revoked its own.  What failed to arrive before that
\* is no excuse, and no key is revoked by the confirmation that issued it.
CutOffForCause ==
    OneTabPerUser /\ stored \in revoked =>
        LET c == revokedBy[stored]
        IN  c # stored /\ UserOf[c] = owner /\ NotArrived(c)

\* "Connect account" can be chosen again when an attempt has ended, and one that
\* nobody confirms need not end.  But if it never does, nobody has confirmed it:
\* its socket is registered, so that the next confirmation reaches it, and holds
\* no key; or another was registered over it.
HangsUnconfirmed ==
    <>[](agent = "waiting") =>
        \/ <>[](registry = attempt /\ inbox[attempt] = <<>>)
        \/ <>[](attempt \in overtaken)
=============================================================================
