-------------------------- MODULE EnrollmentProofs --------------------------
(***************************************************************************)
(* Proofs about Enrollment, for any users, pages, attempts and restarts.   *)
(***************************************************************************)
EXTENDS Enrollment, TLAPS

-----------------------------------------------------------------------------
(* The inductive invariant *)

\* An attempt that is under way has a number.
AttemptCounted == agent # "idle" => attempt \in Attempt

Past(c) == pc[c] \in {"revoke", "issue", "send", "confirmed", "undelivered"}

\* Who is past the lookup owns the device.
PastOwns == \A c \in Confirm : Past(c) => owner = UserOf[c]

\* A key that is being sent, was sent, or was read, is in the table.
SentIsIssued == \A c \in Confirm : pc[c] \in {"send", "confirmed"} => c \in issued

InboxIsIssued ==
    \A a \in Attempt : \A i \in 1..Len(inbox[a]) : inbox[a][i] \in issued

ReceivedIsIssued == agent = "saving" => received \in issued

Inv ==
    /\ TypeOK
    /\ AttemptCounted
    /\ PastOwns
    /\ KeysAreOwners
    /\ SentIsIssued
    /\ InboxIsIssued
    /\ ReceivedIsIssued
    /\ StoredKeyIsIssued
    /\ LiveIsRegistered

\* A user is somebody.
LEMMA Somebody == \A c \in Confirm : UserOf[c] \in User /\ UserOf[c] # NoUser
  BY NobodyAssumption DEF User

LEMMA InvInit == Init => Inv
  <1> SUFFICES ASSUME Init PROVE Inv
    OBVIOUS
  <1>1. inbox \in [Attempt -> Seq(Confirm)] /\ \A a \in Attempt : Len(inbox[a]) = 0
    BY DEF Init
  <1>2. TypeOK
    BY <1>1, EnrollmentBoundAssumption DEF Init, TypeOK, PC
  <1> QED
    BY <1>1, <1>2, NobodyAssumption
    DEF Init, Inv, AttemptCounted, PastOwns, Past, KeysAreOwners, SentIsIssued,
        InboxIsIssued, ReceivedIsIssued, StoredKeyIsIssued, LiveIsRegistered,
        Served

-----------------------------------------------------------------------------
(* Every step keeps it *)

\* Types.
LEMMA TypeStep == TypeOK /\ AttemptCounted /\ ReceivedIsIssued /\ [Next]_vars => TypeOK'
  <1> SUFFICES ASSUME TypeOK, AttemptCounted, ReceivedIsIssued, [Next]_vars PROVE TypeOK'
    OBVIOUS
  <1> USE EnrollmentBoundAssumption DEF TypeOK, Attempt
  <1>1. CASE Enroll
    BY <1>1 DEF Enroll, database, history
  <1>2. CASE ReceiveKey
    <2>1. inbox[attempt] \in Seq(Confirm) /\ inbox[attempt] # <<>>
      BY <1>2 DEF ReceiveKey, AttemptCounted
    <2>2. Head(inbox[attempt]) \in Confirm /\ Tail(inbox[attempt]) \in Seq(Confirm)
      BY <2>1
    <2> QED
      BY <1>2, <2>2 DEF ReceiveKey, database, history
  <1>3. CASE SaveKey
    BY <1>3 DEF SaveKey, database, history
  <1>4. CASE AttemptFails
    BY <1>4 DEF AttemptFails, database, ReceivedIsIssued
  <1>5. CASE OpenSocket
    BY <1>5 DEF OpenSocket, database, history, AttemptCounted
  <1>6. ASSUME NEW a \in Attempt, Handle(a) PROVE TypeOK'
    <2>1. CASE Accept(a)
      BY <1>6, <2>1 DEF Accept, database, client
    <2>2. CASE Break(a) \/ Greet(a) \/ GreetFails(a) \/ Disconnect(a)
      BY <1>6, <2>2 DEF Break, Greet, GreetFails, Disconnect, Unregister, database,
                        client, history
    <2> QED
      BY <1>6, <2>1, <2>2 DEF Handle
  <1>7. ASSUME NEW c \in Confirm, Begin(c) PROVE TypeOK'
    BY <1>7 DEF Begin, Goto, PC, database, client, history
  <1>8. ASSUME NEW c \in Confirm, Answer(c) PROVE TypeOK'
    <2>1. CASE Lookup(c)
      BY <2>1 DEF Lookup, Goto, PC, database, client, history
    <2>2. CASE CreateDevice(c)
      BY <2>2 DEF CreateDevice, Goto, PC, User, client, history
    <2>3. CASE RevokeKeys(c)
      BY <2>3 DEF RevokeKeys, Goto, PC, client
    <2>4. CASE IssueKey(c)
      BY <2>4 DEF IssueKey, Goto, PC, client, history
    <2>5. CASE Send(c)
      <3>1. Append(inbox[registry], c) \in Seq(Confirm)
        BY <2>5 DEF Send
      <3> QED
        BY <2>5, <3>1 DEF Send, Goto, PC, database, client, history
    <2>6. CASE SendFails(c)
      BY <2>6 DEF SendFails, Unregister, Goto, PC, database, client, history
    <2> QED
      BY <1>8, <2>1, <2>2, <2>3, <2>4, <2>5, <2>6 DEF Answer
  <1>9. CASE Restart
    <2>1. /\ Served \subseteq Attempt /\ lost' = lost \cup Served
          /\ registry' = NoSocket /\ restarts' = restarts + 1
          /\ UNCHANGED <<owner, issued, revoked, attempt, agent, received, stored>>
          /\ UNCHANGED <<inbox, revokedBy, overtaken, dropped>>
      BY <1>9 DEF Restart, Served, database, client, history
    <2>2. socket' \in [Attempt -> {"none", "asked", "hello", "open", "closed"}]
      BY <1>9 DEF Restart
    <2>3. pc' \in [Confirm -> PC]
      BY <1>9 DEF Restart, PC
    <2> QED
      BY <2>1, <2>2, <2>3
  <1>10. CASE UNCHANGED vars
    BY <1>10 DEF vars, database, client, history
  <1> QED
    BY <1>1, <1>2, <1>3, <1>4, <1>5, <1>6, <1>7, <1>8, <1>9, <1>10
    DEF Next, Connect

\* The owner, and who may act for the device.
LEMMA OwnerStep ==
  TypeOK /\ PastOwns /\ KeysAreOwners /\ [Next]_vars
    => /\ PastOwns'
       /\ KeysAreOwners'
       /\ owner # NoUser => owner' = owner
  <1> SUFFICES ASSUME TypeOK, PastOwns, KeysAreOwners, [Next]_vars
               PROVE  /\ PastOwns'
                      /\ KeysAreOwners'
                      /\ owner # NoUser => owner' = owner
    OBVIOUS
  <1> USE DEF TypeOK, PastOwns, Past, KeysAreOwners
  <1>1. CASE UNCHANGED <<owner, issued, pc>>
    BY <1>1
  <1>2. ASSUME NEW c \in Confirm, Begin(c)
        PROVE  UNCHANGED <<owner, issued>> /\ PastOwns'
    BY <1>2 DEF Begin, Goto, database
  <1>3. ASSUME NEW c \in Confirm, Lookup(c)
        PROVE  UNCHANGED <<owner, issued>> /\ PastOwns'
    BY <1>3 DEF Lookup, Goto, database
  <1>4. ASSUME NEW c \in Confirm, CreateDevice(c)
        PROVE  /\ PastOwns'
               /\ KeysAreOwners'
               /\ owner # NoUser => owner' = owner
    BY <1>4, Somebody DEF CreateDevice, Goto
  <1>5. ASSUME NEW c \in Confirm,
               RevokeKeys(c) \/ Send(c) \/ SendFails(c)
        PROVE  UNCHANGED <<owner, issued>> /\ PastOwns'
    BY <1>5 DEF RevokeKeys, Send, SendFails, Goto, database
  <1>6. ASSUME NEW c \in Confirm, IssueKey(c)
        PROVE  owner' = owner /\ PastOwns' /\ KeysAreOwners'
    BY <1>6 DEF IssueKey, Goto
  <1>7. CASE Restart
    BY <1>7 DEF Restart, InProgress, Finished, database
  <1>8. CASE Connect \/ UNCHANGED vars
    BY <1>1, <1>8 DEF Connect, Enroll, OpenSocket, ReceiveKey, SaveKey, AttemptFails,
                      vars, database
  <1>9. ASSUME NEW a \in Attempt, Handle(a) PROVE UNCHANGED <<owner, issued, pc>>
    BY <1>9 DEF Handle, Accept, Break, Greet, GreetFails, Disconnect, database
  <1> QED
    BY <1>1, <1>2, <1>3, <1>4, <1>5, <1>6, <1>7, <1>8, <1>9 DEF Next, Answer

\* Keys on their way to the agent.
LEMMA KeyStep ==
  Inv /\ TypeOK' /\ [Next]_vars
    => SentIsIssued' /\ InboxIsIssued' /\ ReceivedIsIssued' /\ StoredKeyIsIssued'
  <1> SUFFICES ASSUME Inv, TypeOK', [Next]_vars
               PROVE  /\ SentIsIssued' /\ InboxIsIssued'
                      /\ ReceivedIsIssued' /\ StoredKeyIsIssued'
    OBVIOUS
  <1> USE DEF Inv, TypeOK, SentIsIssued, InboxIsIssued, ReceivedIsIssued,
              StoredKeyIsIssued
  <1>1. CASE Enroll \/ OpenSocket \/ SaveKey \/ AttemptFails
    BY <1>1 DEF Enroll, OpenSocket, SaveKey, AttemptFails, database
  <1>2. CASE ReceiveKey
    <2> DEFINE box == inbox[attempt]
    <2>1. attempt \in Attempt /\ box \in Seq(Confirm) /\ box # <<>>
      BY <1>2 DEF ReceiveKey, AttemptCounted
    <2>2. /\ Head(box) = box[1] /\ 1 \in 1..Len(box)
          /\ Len(Tail(box)) = Len(box) - 1
          /\ \A i \in 1..Len(Tail(box)) : Tail(box)[i] = box[i + 1]
                                          /\ i + 1 \in 1..Len(box)
      BY <2>1
    <2>3. \A i \in 1..Len(Tail(box)) : Tail(box)[i] \in issued
      BY <2>1, <2>2
    <2>4. InboxIsIssued'
      BY <1>2, <2>1, <2>3 DEF ReceiveKey, database
    <2> QED
      BY <1>2, <2>1, <2>2, <2>4 DEF ReceiveKey, database
  <1>3. ASSUME NEW a \in Attempt, Handle(a)
        PROVE  UNCHANGED <<issued, pc, inbox, agent, received, stored>>
    BY <1>3 DEF Handle, Accept, Break, Greet, GreetFails, Disconnect, database, client
  <1>4. ASSUME NEW c \in Confirm,
               \/ Begin(c) \/ Lookup(c) \/ CreateDevice(c) \/ RevokeKeys(c)
               \/ SendFails(c)
        PROVE  /\ UNCHANGED <<issued, inbox, agent, received, stored>>
               /\ SentIsIssued'
    BY <1>4 DEF Begin, Lookup, CreateDevice, RevokeKeys, SendFails, Goto, database,
                client
  <1>5. ASSUME NEW c \in Confirm, IssueKey(c)
        PROVE  /\ UNCHANGED <<inbox, agent, received, stored>>
               /\ issued \subseteq issued'
               /\ SentIsIssued'
    BY <1>5 DEF IssueKey, Goto, client
  <1>6. ASSUME NEW c \in Confirm, Send(c)
        PROVE  /\ UNCHANGED <<issued, agent, received, stored>>
               /\ SentIsIssued' /\ InboxIsIssued'
    <2> DEFINE box == inbox[registry]
    <2>1. c \in issued /\ registry \in Attempt /\ box \in Seq(Confirm)
      BY <1>6 DEF Send
    <2>2. \A i \in 1..Len(Append(box, c)) : Append(box, c)[i] \in issued
      <3>1. \A i \in 1..Len(box) : box[i] \in issued
        BY <2>1
      <3> HIDE DEF box
      <3>2. /\ Len(Append(box, c)) = Len(box) + 1
            /\ Append(box, c)[Len(box) + 1] = c
            /\ \A i \in 1..Len(box) : Append(box, c)[i] = box[i]
        BY <2>1
      <3>3. \A i \in 1..Len(Append(box, c)) : i \in 1..Len(box) \/ i = Len(box) + 1
        BY <2>1, <3>2
      <3> QED
        BY <2>1, <3>1, <3>2, <3>3
    <2>3. InboxIsIssued'
      BY <1>6, <2>1, <2>2 DEF Send, database
    <2>4. SentIsIssued'
      BY <1>6, <2>1 DEF Send, Goto, database
    <2> QED
      BY <1>6, <2>3, <2>4 DEF Send, database, client
  <1>7. CASE Restart
    BY <1>7 DEF Restart, InProgress, Finished, database, client
  <1>8. CASE UNCHANGED vars
    BY <1>8 DEF vars, database, client
  <1> QED
    BY <1>1, <1>2, <1>3, <1>4, <1>5, <1>6, <1>7, <1>8 DEF Next, Connect, Answer

\* The registry.
LEMMA RegistryStep ==
  TypeOK /\ AttemptCounted /\ LiveIsRegistered /\ [Next]_vars
    => AttemptCounted' /\ LiveIsRegistered'
  <1> SUFFICES ASSUME TypeOK, AttemptCounted, LiveIsRegistered, [Next]_vars
               PROVE  AttemptCounted' /\ LiveIsRegistered'
    OBVIOUS
  <1> USE EnrollmentBoundAssumption, NobodyAssumption
      DEF TypeOK, AttemptCounted, LiveIsRegistered, Served, Attempt
  <1>1. CASE Enroll \/ ReceiveKey \/ SaveKey \/ AttemptFails
    BY <1>1 DEF Enroll, ReceiveKey, SaveKey, AttemptFails, history
  <1>2. CASE OpenSocket
    BY <1>2 DEF OpenSocket, history
  <1>3. ASSUME NEW a \in Attempt, Handle(a)
        PROVE  AttemptCounted' /\ LiveIsRegistered'
    <2>1. AttemptCounted'
      BY <1>3 DEF Handle, Accept, Break, Greet, GreetFails, Disconnect, client
    <2>2. CASE Accept(a)
      BY <2>1, <2>2 DEF Accept
    <2>3. CASE Break(a) \/ Greet(a) \/ GreetFails(a)
      BY <2>1, <2>3 DEF Break, Greet, GreetFails, history
    <2>4. CASE Disconnect(a)
      BY <2>1, <2>4 DEF Disconnect, Unregister, history
    <2> QED
      BY <1>3, <2>2, <2>3, <2>4 DEF Handle
  <1>4. ASSUME NEW c \in Confirm, Begin(c) \/ Answer(c)
        PROVE  AttemptCounted' /\ LiveIsRegistered'
    <2>1. UNCHANGED <<socket, lost, overtaken, attempt, agent>>
      BY <1>4 DEF Begin, Answer, Lookup, CreateDevice, RevokeKeys, IssueKey, Send,
                  SendFails, client, history
    <2>2. registry' = registry \/ registry \in lost
      BY <1>4 DEF Begin, Answer, Lookup, CreateDevice, RevokeKeys, IssueKey, Send,
                  SendFails
    <2> QED
      BY <2>1, <2>2
  <1>5. CASE Restart
    BY <1>5 DEF Restart, client, history
  <1>6. CASE UNCHANGED vars
    BY <1>6 DEF vars, client, history
  <1> QED
    BY <1>1, <1>2, <1>3, <1>4, <1>5, <1>6 DEF Next, Connect

THEOREM Inductive == Spec => []Inv
  <1>1. Inv /\ [Next]_vars => Inv'
    BY TypeStep, OwnerStep, KeyStep, RegistryStep DEF Inv
  <1> QED
    BY InvInit, <1>1, PTL DEF Spec

-----------------------------------------------------------------------------
(* The results *)

\* Every variable keeps its type (Enrollment!TypeOK).
THEOREM EnrollmentTypeCorrect == Spec => []TypeOK
  BY Inductive, PTL DEF Inv

\* Keys are issued to the device's owner only, however confirmations of several
\* users interleave.
THEOREM KeysIssuedToOwner == Spec => []KeysAreOwners
  BY Inductive, PTL DEF Inv

\* The agent never stores a key the API does not have.
THEOREM StoredKeysKnown == Spec => []StoredKeyIsIssued
  BY Inductive, PTL DEF Inv

\* A socket that is served on a connection that is up is the one the registry
\* names, unless another was registered over it: however late handshakes and
\* handlers, failed sends and restarts interleave, nothing else takes it out.
THEOREM LiveSocketsRegistered == Spec => []LiveIsRegistered
  BY Inductive, PTL DEF Inv

\* The device never changes hands.
THEOREM OwnerNeverChanges == Spec => OwnerKept
  <1>1. Inv /\ [Next]_vars => [owner # NoUser => owner' = owner]_owner
    BY OwnerStep DEF Inv
  <1> QED
    BY Inductive, <1>1, PTL DEF Spec, OwnerKept

-----------------------------------------------------------------------------
(* One page for each user *)

OneAtATime ==
  \A c, d \in Confirm :
      InProgress(c) /\ InProgress(d) /\ UserOf[c] = UserOf[d] => c = d

AllRevoked == \A c \in Confirm : pc[c] = "issue" => issued \subseteq revoked

LEMMA OneTabStep ==
  ASSUME OneTabPerUser, Inv, OneAtATime, AllRevoked, OneActiveKey, [Next]_vars
  PROVE  OneAtATime' /\ AllRevoked' /\ OneActiveKey'
  <1> USE DEF Inv, TypeOK, InProgress, Finished, OneAtATime, AllRevoked, OneActiveKey,
              OneTabPerUser
  <1>1. CASE UNCHANGED <<issued, revoked, pc>>
    BY <1>1
  <1>2. ASSUME NEW c \in Confirm, Begin(c)
        PROVE  OneAtATime' /\ AllRevoked' /\ OneActiveKey'
    BY <1>2 DEF Begin, Goto, database
  <1>3. ASSUME NEW c \in Confirm,
               Lookup(c) \/ CreateDevice(c) \/ Send(c) \/ SendFails(c)
        PROVE  OneAtATime' /\ AllRevoked' /\ OneActiveKey'
    <2>1. CASE Lookup(c)
      BY <2>1 DEF Lookup, Goto, database
    <2>2. CASE CreateDevice(c)
      BY <2>2 DEF CreateDevice, Goto, database
    <2>3. CASE Send(c)
      BY <2>3 DEF Send, Goto, database
    <2>4. CASE SendFails(c)
      BY <2>4 DEF SendFails, Goto, database
    <2> QED
      BY <1>3, <2>1, <2>2, <2>3, <2>4
  <1>4. ASSUME NEW c \in Confirm, RevokeKeys(c)
        PROVE  OneAtATime' /\ AllRevoked' /\ OneActiveKey'
    <2>1. \A k \in issued : UserOf[k] = UserOf[c]
      BY <1>4 DEF RevokeKeys, PastOwns, Past, KeysAreOwners
    <2>2. issued' = issued /\ issued \subseteq revoked'
      BY <1>4, <2>1 DEF RevokeKeys
    <2> QED
      BY <1>4, <2>2 DEF RevokeKeys, Goto
  <1>5. ASSUME NEW c \in Confirm, IssueKey(c)
        PROVE  OneAtATime' /\ AllRevoked' /\ OneActiveKey'
    <2>1. issued \subseteq revoked
      BY <1>5 DEF IssueKey
    <2>2. issued' = issued \cup {c} /\ revoked' = revoked
      BY <1>5 DEF IssueKey
    <2>3. OneActiveKey'
      BY <2>1, <2>2
    <2>4. pc' = [pc EXCEPT ![c] = "send"] /\ pc[c] = "issue"
      BY <1>5 DEF IssueKey, Goto
    <2>5. ASSUME NEW d \in Confirm PROVE pc'[d] # "issue"
      <3>1. pc[d] = "issue" => UserOf[d] = owner /\ UserOf[c] = owner
        BY <2>4 DEF PastOwns, Past
      <3>2. pc[d] = "issue" => d = c
        BY <2>4, <3>1
      <3> QED
        BY <2>4, <3>2
    <2> QED
      BY <2>3, <2>4, <2>5
  <1>6. CASE Restart
    BY <1>6 DEF Restart, database
  <1>7. CASE Connect \/ UNCHANGED vars
    BY <1>1, <1>7 DEF Connect, Enroll, OpenSocket, ReceiveKey, SaveKey, AttemptFails,
                      vars, database
  <1>8. ASSUME NEW a \in Attempt, Handle(a) PROVE UNCHANGED <<issued, revoked, pc>>
    BY <1>8 DEF Handle, Accept, Break, Greet, GreetFails, Disconnect, database
  <1> QED
    BY <1>1, <1>2, <1>3, <1>4, <1>5, <1>6, <1>7, <1>8 DEF Next, Answer

KeyInv == OneTabPerUser => OneAtATime /\ AllRevoked /\ OneActiveKey

LEMMA KeyInvariant == Spec => []KeyInv
  <1>1. Init => KeyInv
    BY DEF Init, KeyInv, OneAtATime, InProgress, AllRevoked, OneActiveKey
  <1>2. Inv /\ KeyInv /\ [Next]_vars => KeyInv'
    <2>1. OneTabPerUser' = OneTabPerUser
      BY DEF OneTabPerUser
    <2> QED
      BY <2>1, OneTabStep DEF KeyInv
  <1> QED
    BY Inductive, <1>1, <1>2, PTL DEF Spec

\* If each user confirms from one page, a device never has two keys that work,
\* wherever a confirmation was cut off.
THEOREM OneTabOneKey == Spec => []OneActiveKey
  <1>1. KeyInv => OneActiveKey
    BY DEF KeyInv, OneActiveKey
  <1> QED
    BY KeyInvariant, <1>1, PTL

-----------------------------------------------------------------------------
(* Where the key of the confirmation that revoked one is *)

IssuedKeys == \A c \in issued : pc[c] \in {"send", "confirmed", "undelivered", "failed"}

\* A confirmation revokes the keys of others only, on behalf of the owner.
RevokersAreOthers ==
    \A k \in revoked :
        /\ revokedBy[k] \in Confirm \ {k}
        /\ pc[revokedBy[k]] \in {"issue", "send", "confirmed", "undelivered", "failed"}
        /\ UserOf[revokedBy[k]] = owner

\* No key is sent to an attempt before its handshake is accepted.
NothingBeforeAccept ==
    /\ \A a \in Attempt : socket[a] \in {"none", "asked"} => inbox[a] = <<>>
    /\ \A a \in Attempt : a > attempt => socket[a] = "none"
    /\ agent = "enrolled" => socket[attempt] = "none"
    /\ registry # NoSocket => socket[registry] \notin {"none", "asked"}

SentAreActive == \A c \in Confirm : pc[c] = "send" => c \notin revoked

Holds(box, c) == \E i \in 1..Len(box) : box[i] = c

\* The agent has the key, or may still read it.
Keeps(k) ==
    \/ stored = k
    \/ agent = "saving" /\ received = k
    \/ agent = "waiting" /\ Holds(inbox[attempt], k)

\* Keys are read in the order in which they were sent: of two, the older one is out
\* of reach when the newer one is saved.
Cause == \A k \in revoked : Keeps(k) => NotArrived(revokedBy[k])

ArrivalInv ==
    /\ IssuedKeys
    /\ RevokersAreOthers
    /\ NothingBeforeAccept
    /\ OneTabPerUser => SentAreActive /\ Cause

LEMMA ArrivalInit == Init => ArrivalInv
  BY EnrollmentBoundAssumption
  DEF Init, ArrivalInv, IssuedKeys, RevokersAreOthers, NothingBeforeAccept,
      SentAreActive, Cause, Attempt

\* The table of keys.
LEMMA RotationStep ==
  ASSUME Inv, TypeOK', [Next]_vars, IssuedKeys, RevokersAreOthers,
         OneTabPerUser => OneAtATime /\ SentAreActive
  PROVE  IssuedKeys' /\ RevokersAreOthers' /\ (OneTabPerUser => SentAreActive')
  <1> USE DEF Inv, TypeOK, IssuedKeys, RevokersAreOthers, SentAreActive
  <1> DEFINE Kept == IssuedKeys' /\ RevokersAreOthers' /\ (OneTabPerUser => SentAreActive')
  <1>1. ASSUME UNCHANGED <<database, revokedBy>>,
               \A c \in Confirm : \/ pc'[c] = pc[c]
                                  \/ pc'[c] = "failed"
                                  \/ pc[c] \in {"new", "lookup"} /\ pc'[c] # "send"
                                  \/ pc[c] = "send" /\ pc'[c] \in {"confirmed", "undelivered"}
        PROVE  Kept
    <2>1. IssuedKeys'
      BY <1>1 DEF database
    <2>2. RevokersAreOthers'
      BY <1>1 DEF database
    <2>3. OneTabPerUser => SentAreActive'
      BY <1>1 DEF database
    <2> QED
      BY <2>1, <2>2, <2>3
  <1>2. CASE Connect \/ UNCHANGED vars
    <2>1. UNCHANGED <<database, pc, revokedBy>>
      BY <1>2 DEF Connect, Enroll, OpenSocket, ReceiveKey, SaveKey, AttemptFails, vars,
                  history
    <2> QED
      BY <1>1, <2>1
  <1>3. ASSUME NEW a \in Attempt, Handle(a)  PROVE Kept
    <2>1. UNCHANGED <<database, pc, revokedBy>>
      BY <1>3 DEF Handle, Accept, Break, Greet, GreetFails, Disconnect, history
    <2> QED
      BY <1>1, <2>1
  <1>4. ASSUME NEW c \in Confirm, Begin(c) \/ Lookup(c) \/ Send(c) \/ SendFails(c)
        PROVE  Kept
    <2>1. /\ UNCHANGED <<database, revokedBy>>
          /\ \E label \in PC : /\ pc' = [pc EXCEPT ![c] = label]
                               /\ \/ pc[c] \in {"new", "lookup"} /\ label # "send"
                                  \/ pc[c] = "send" /\ label \in {"confirmed", "undelivered"}
      BY <1>4 DEF Begin, Lookup, Send, SendFails, Goto, PC, history
    <2> QED
      BY <1>1, <2>1
  <1>5. ASSUME NEW c \in Confirm, CreateDevice(c)  PROVE Kept
    <2>1. c \notin issued /\ UNCHANGED <<issued, revoked, revokedBy>>
      BY <1>5 DEF CreateDevice, history
    <2>2. PICK label \in {"revoke", "failed"} : pc' = [pc EXCEPT ![c] = label]
      BY <1>5 DEF CreateDevice, Goto
    <2>3. \A d \in Confirm : UserOf[d] = owner => owner' = owner
      BY <1>5, Somebody DEF CreateDevice
    <2>4. pc[c] = "create"
      BY <1>5 DEF CreateDevice
    <2> QED
      BY <2>1, <2>2, <2>3, <2>4
  <1>6. ASSUME NEW c \in Confirm, RevokeKeys(c)  PROVE Kept
    <2> DEFINE own == {k \in issued \ revoked : UserOf[k] = UserOf[c]}
    <2>1. /\ pc[c] = "revoke" /\ pc' = [pc EXCEPT ![c] = "issue"]
          /\ UNCHANGED <<owner, issued>> /\ UserOf[c] = owner
          /\ revoked' = revoked \cup own
          /\ \A k \in Confirm : revokedBy'[k] = IF k \in own THEN c ELSE revokedBy[k]
      BY <1>6, Zenon DEF RevokeKeys, Goto, PastOwns, Past
    <2>2. c \notin issued
      BY <2>1
    <2>3. ASSUME OneTabPerUser, NEW d \in Confirm, pc'[d] = "send"
          PROVE  d \notin revoked'
      <3>1. pc[d] = "send" /\ d # c
        BY <2>1, <2>3
      <3>2. UserOf[d] = owner
        BY <3>1 DEF PastOwns, Past
      <3> QED
        BY <2>1, <2>3, <3>1, <3>2 DEF OneAtATime, InProgress, Finished
    <2>4. SentAreActive' \/ ~OneTabPerUser
      BY <2>3
    <2>5. IssuedKeys'
      BY <2>1, <2>2
    <2>6. RevokersAreOthers'
      BY <2>1, <2>2
    <2> QED
      BY <2>4, <2>5, <2>6
  <1>7. ASSUME NEW c \in Confirm, IssueKey(c)  PROVE Kept
    <2>1. /\ pc[c] = "issue" /\ pc' = [pc EXCEPT ![c] = "send"]
          /\ issued' = issued \cup {c} /\ UNCHANGED <<owner, revoked, revokedBy>>
      BY <1>7 DEF IssueKey, Goto, history
    <2>2. c \notin revoked
      BY <2>1
    <2> QED
      BY <2>1, <2>2
  <1>8. CASE Restart
    BY <1>1, <1>8 DEF Restart, history
  <1> QED
    BY <1>2, <1>3, <1>4, <1>5, <1>6, <1>7, <1>8 DEF Next, Answer

\* The inboxes.
LEMMA AcceptStep ==
  ASSUME Inv, [Next]_vars, NothingBeforeAccept
  PROVE  NothingBeforeAccept'
  <1> USE EnrollmentBoundAssumption, NobodyAssumption
      DEF Inv, TypeOK, NothingBeforeAccept, Attempt
  <1>1. CASE Enroll
    BY <1>1 DEF Enroll
  <1>2. CASE OpenSocket
    <2>1. /\ attempt \in Attempt /\ agent = "enrolled" /\ agent' = "waiting"
          /\ socket' = [socket EXCEPT ![attempt] = "asked"]
          /\ UNCHANGED <<attempt, registry, inbox>>
      BY <1>2 DEF OpenSocket, AttemptCounted
    <2>2. socket[attempt] = "none" /\ inbox[attempt] = <<>>
      BY <2>1
    <2>3. \A a \in Attempt : socket'[a] = IF a = attempt THEN "asked" ELSE socket[a]
      BY <2>1
    <2>4. registry # NoSocket => registry # attempt
      BY <2>2
    <2> QED
      BY <2>1, <2>2, <2>3, <2>4
  <1>3. CASE ReceiveKey
    BY <1>3 DEF ReceiveKey, AttemptCounted
  <1>4. CASE SaveKey \/ AttemptFails
    BY <1>4 DEF SaveKey, AttemptFails
  <1>5. ASSUME NEW a \in Attempt, Handle(a)  PROVE NothingBeforeAccept'
    <2>1. CASE Accept(a)
      BY <2>1 DEF Accept, client
    <2>2. CASE Break(a) \/ Greet(a) \/ GreetFails(a) \/ Disconnect(a)
      <3>1. /\ socket[a] \in {"hello", "open"}
            /\ UNCHANGED <<attempt, agent, inbox>>
            /\ registry' \in {registry, NoSocket}
        BY <2>2 DEF Break, Greet, GreetFails, Disconnect, Unregister, client
      <3>2. socket' = socket \/ \E at \in {"open", "closed"} :
                                     socket' = [socket EXCEPT ![a] = at]
        BY <2>2 DEF Break, Greet, GreetFails, Disconnect
      <3>3. \A b \in Attempt :
                socket'[b] = socket[b] \/ (b = a /\ socket'[b] \in {"open", "closed"})
        BY <3>2
      <3>4. \A b \in Attempt : socket'[b] \in {"none", "asked"} => socket[b] = socket'[b]
        BY <3>3
      <3>5. \A b \in Attempt : socket[b] = "none" => socket'[b] = "none"
        BY <3>1, <3>3
      <3>6. agent = "enrolled" => attempt \in Attempt
        BY DEF AttemptCounted
      <3>7. registry' # NoSocket => registry' \in Attempt /\ registry' = registry
        BY <3>1
      <3> QED
        BY <3>1, <3>4, <3>5, <3>6, <3>7
    <2> QED
      BY <1>5, <2>1, <2>2 DEF Handle
  <1>6. ASSUME NEW c \in Confirm,
               Begin(c) \/ Lookup(c) \/ CreateDevice(c) \/ RevokeKeys(c) \/ IssueKey(c)
        PROVE  NothingBeforeAccept'
    <2>1. UNCHANGED <<attempt, agent, socket, registry, inbox>>
      BY <1>6 DEF Begin, Lookup, CreateDevice, RevokeKeys, IssueKey, client
    <2> QED
      BY <2>1
  <1>7. ASSUME NEW c \in Confirm, Send(c)  PROVE NothingBeforeAccept'
    <2>1. /\ registry \in Attempt
          /\ UNCHANGED <<registry, attempt, agent, socket>>
          /\ inbox' = [inbox EXCEPT ![registry] = Append(inbox[registry], c)]
      BY <1>7 DEF Send, client
    <2>2. socket[registry] \notin {"none", "asked"}
      BY <2>1
    <2>3. \A a \in Attempt : a # registry => inbox'[a] = inbox[a]
      BY <2>1
    <2> QED
      BY <2>1, <2>2, <2>3
  <1>8. ASSUME NEW c \in Confirm, SendFails(c)  PROVE NothingBeforeAccept'
    BY <1>8 DEF SendFails, Unregister, client
  <1>9. CASE Restart
    <2>1. /\ registry' = NoSocket /\ UNCHANGED <<attempt, agent, inbox>>
          /\ socket' = [a \in Attempt |-> IF a \in Served THEN "closed" ELSE socket[a]]
      BY <1>9 DEF Restart, client
    <2>2. \A a \in Attempt : socket'[a] \in {"none", "asked"} => socket[a] = socket'[a]
      BY <2>1
    <2>3. \A a \in Attempt : socket[a] = "none" => socket'[a] = "none"
      BY <2>1 DEF Served
    <2>4. agent = "enrolled" => attempt \in Attempt
      BY DEF AttemptCounted
    <2> QED
      BY <2>1, <2>2, <2>3, <2>4
  <1>10. CASE UNCHANGED vars
    BY <1>10 DEF vars, client
  <1> QED
    BY <1>1, <1>2, <1>3, <1>4, <1>5, <1>6, <1>7, <1>8, <1>9, <1>10
    DEF Next, Connect, Answer

LEMMA TailHolds ==
  ASSUME NEW box \in Seq(Confirm), box # <<>>
  PROVE  /\ Holds(box, Head(box))
         /\ \A c : Holds(box, c) => c = Head(box) \/ Holds(Tail(box), c)
  <1>1. /\ Len(box) \in Nat /\ Len(box) # 0 /\ Tail(box) \in Seq(Confirm)
        /\ Len(Tail(box)) = Len(box) - 1 /\ Head(box) = box[1]
        /\ \A i \in 1..Len(Tail(box)) : Tail(box)[i] = box[i + 1]
    <2>1. Len(box) \in Nat /\ Tail(box) \in Seq(Confirm)
      OBVIOUS
    <2>2. Len(box) # 0
      OBVIOUS
    <2>3. Len(Tail(box)) = Len(box) - 1 /\ Head(box) = box[1]
      BY <2>2
    <2>4. \A i \in 1..Len(Tail(box)) : Tail(box)[i] = box[i + 1]
      BY <2>2
    <2> QED
      BY <2>1, <2>2, <2>3, <2>4
  <1>2. ASSUME NEW c, NEW i \in 1..Len(box), box[i] = c, c # Head(box)
        PROVE  Holds(Tail(box), c)
    <2>1. i - 1 \in 1..Len(Tail(box)) /\ Tail(box)[i - 1] = box[i]
      BY <1>1, <1>2
    <2> QED
      BY <1>2, <2>1 DEF Holds
  <1> QED
    BY <1>1, <1>2 DEF Holds

LEMMA AppendHolds ==
  ASSUME NEW box \in Seq(Confirm), NEW c \in Confirm
  PROVE  \A k : Holds(Append(box, c), k) <=> k = c \/ Holds(box, k)
  <1> DEFINE new == Append(box, c)
  <1>1. /\ Len(box) \in Nat /\ Len(new) = Len(box) + 1 /\ new[Len(box) + 1] = c
        /\ \A i \in 1..Len(box) : new[i] = box[i]
    OBVIOUS
  <1> HIDE DEF new
  <1>2. \A i : i \in 1..Len(new) <=> i \in 1..Len(box) \/ i = Len(box) + 1
    BY <1>1
  <1>3. \A k : Holds(new, k) <=> k = c \/ Holds(box, k)
    BY <1>1, <1>2 DEF Holds
  <1> QED
    BY <1>3 DEF new

\* What is not yet delivered, or was delivered in vain.
Pending(c) == pc[c] \in {"issue", "send", "undelivered", "failed"}

InSomeBox(c) == \E a \in Attempt : Holds(inbox[a], c)

LEMMA NotArrivedCases ==
  \A c \in Confirm :
      NotArrived(c) <=> \/ Pending(c) \/ InSomeBox(c)
                        \/ agent = "saving" /\ received = c
                        \/ c \in dropped
  BY DEF NotArrived, Pending, InSomeBox, Holds

LEMMA CauseStep ==
  ASSUME Inv, ArrivalInv, SentAreActive, Cause, [Next]_vars
  PROVE  Cause'
  <1> USE DEF Cause
  <1>0. /\ \A k \in revoked : k \in Confirm /\ revokedBy[k] \in Confirm \ {k}
        /\ inbox \in [Attempt -> Seq(Confirm)]
    BY DEF ArrivalInv, RevokersAreOthers, Inv, TypeOK
  <1>a. \A c \in Confirm :
            NotArrived(c)' <=> \/ Pending(c)' \/ InSomeBox(c)'
                               \/ agent' = "saving" /\ received' = c
                               \/ c \in dropped'
    BY DEF NotArrived, Pending, InSomeBox, Holds
  \* Nothing is revoked or read.
  <1>1. ASSUME UNCHANGED <<attempt, inbox, agent, received, stored, dropped>>,
               UNCHANGED <<revoked, revokedBy>>,
               \A c \in Confirm : Pending(c) => Pending(c)'
        PROVE  Cause'
    BY <1>0, <1>1 DEF NotArrived, Pending, Keeps, Holds
  <1>2. CASE Enroll
    <2>1. /\ agent = "idle" /\ agent' = "enrolled"
          /\ UNCHANGED <<inbox, stored, dropped, revoked, revokedBy, pc>>
      BY <1>2 DEF Enroll, database, history
    <2> QED
      BY <1>0, <2>1 DEF NotArrived, Keeps, Holds
  <1>3. CASE OpenSocket
    <2>1. /\ agent = "enrolled" /\ agent' = "waiting"
          /\ UNCHANGED <<attempt, inbox, stored, dropped, revoked, revokedBy, pc>>
      BY <1>3 DEF OpenSocket, database, history
    <2>2. attempt \in Attempt /\ inbox[attempt] = <<>>
      BY <2>1 DEF Inv, AttemptCounted, ArrivalInv, NothingBeforeAccept
    <2>3. \A k : ~Holds(inbox[attempt], k)
      BY <2>2 DEF Holds
    <2> QED
      BY <1>0, <2>1, <2>3 DEF NotArrived, Keeps, Holds
  <1>4. CASE ReceiveKey
    <2> DEFINE box == inbox[attempt]
    <2>1. /\ attempt \in Attempt /\ box \in Seq(Confirm) /\ box # <<>>
          /\ agent = "waiting" /\ agent' = "saving" /\ received' = Head(box)
          /\ inbox' = [inbox EXCEPT ![attempt] = Tail(box)]
          /\ UNCHANGED <<attempt, stored, dropped, revoked, revokedBy, pc>>
      BY <1>4 DEF ReceiveKey, Inv, TypeOK, AttemptCounted, database, history
    <2>2. /\ inbox'[attempt] = Tail(box)
          /\ \A a \in Attempt : a # attempt => inbox'[a] = inbox[a]
      BY <1>0, <2>1
    <2>3. ASSUME NEW c \in Confirm, NotArrived(c)  PROVE NotArrived(c)'
      <3>1. CASE Pending(c) \/ c \in dropped
        BY <1>a, <2>1, <3>1 DEF Pending
      <3>2. CASE InSomeBox(c)
        <4>1. PICK a \in Attempt : Holds(inbox[a], c)
          BY <3>2 DEF InSomeBox
        <4>2. CASE a = attempt
          <5>1. c = Head(box) \/ Holds(inbox'[attempt], c)
            BY <2>1, <2>2, <4>1, <4>2, TailHolds
          <5> QED
            BY <1>a, <2>1, <5>1 DEF InSomeBox
        <4>3. CASE a # attempt
          BY <1>a, <2>2, <4>1, <4>3 DEF InSomeBox
        <4> QED
          BY <4>2, <4>3
      <3> QED
        BY <2>1, <2>3, <3>1, <3>2, NotArrivedCases
    <2>4. Holds(box, Head(box))
      BY <2>1, TailHolds
    <2>5. ASSUME NEW k \in revoked, Keeps(k)'  PROVE Keeps(k)
      BY <2>1, <2>4, <2>5 DEF Keeps
    <2> QED
      BY <1>0, <2>1, <2>3, <2>5
  <1>5. CASE SaveKey
    <2>1. /\ agent = "saving" /\ agent' = "idle" /\ stored' = received
          /\ UNCHANGED <<attempt, inbox, dropped, revoked, revokedBy, pc>>
      BY <1>5 DEF SaveKey, database, history
    <2>2. ASSUME NEW k \in revoked, Keeps(k)'
          PROVE  NotArrived(revokedBy[k])'
      <3>1. k = received /\ Keeps(k)
        BY <2>1, <2>2 DEF Keeps
      <3>2. NotArrived(revokedBy[k]) /\ revokedBy[k] # received
        BY <1>0, <3>1
      <3> QED
        BY <2>1, <3>2 DEF NotArrived
    <2> QED
      BY <2>1, <2>2
  <1>6. CASE AttemptFails
    <2>1. /\ agent' = "idle"
          /\ dropped' = IF agent = "saving" THEN dropped \cup {received} ELSE dropped
          /\ UNCHANGED <<attempt, inbox, stored, revoked, revokedBy, pc>>
      BY <1>6 DEF AttemptFails, database
    <2> QED
      BY <1>0, <2>1 DEF NotArrived, Keeps
  <1>7. ASSUME NEW a \in Attempt, Handle(a)  PROVE Cause'
    <2>1. /\ UNCHANGED <<attempt, inbox, agent, received, stored, dropped>>
          /\ UNCHANGED <<revoked, revokedBy, pc>>
      BY <1>7 DEF Handle, Accept, Break, Greet, GreetFails, Disconnect, database,
                  client, history
    <2> QED
      BY <1>1, <2>1 DEF Pending
  <1>8. ASSUME NEW c \in Confirm,
               \/ Begin(c) \/ Lookup(c) \/ CreateDevice(c) \/ IssueKey(c)
               \/ SendFails(c)
        PROVE  Cause'
    <2>1. /\ UNCHANGED <<attempt, inbox, agent, received, stored, dropped>>
          /\ UNCHANGED <<revoked, revokedBy>>
      BY <1>8 DEF Begin, Lookup, CreateDevice, IssueKey, SendFails, database, client,
                  history
    <2>2. \E label \in PC :
              /\ pc' = [pc EXCEPT ![c] = label]
              /\ \/ pc[c] \in {"new", "lookup", "create"}
                 \/ label \in {"send", "undelivered"}
      BY <1>8 DEF Begin, Lookup, CreateDevice, IssueKey, SendFails, Goto, PC
    <2> QED
      BY <1>1, <2>1, <2>2 DEF Pending, Inv, TypeOK
  <1>9. ASSUME NEW c \in Confirm, RevokeKeys(c)  PROVE Cause'
    <2> DEFINE own == {k \in issued \ revoked : UserOf[k] = UserOf[c]}
    <2>1. /\ UNCHANGED <<attempt, inbox, agent, received, stored, dropped>>
          /\ pc[c] = "revoke" /\ pc' = [pc EXCEPT ![c] = "issue"]
          /\ revoked' = revoked \cup own
          /\ \A k \in Confirm : revokedBy'[k] = IF k \in own THEN c ELSE revokedBy[k]
      BY <1>9, Zenon DEF RevokeKeys, Goto, client
    <2>2. own \subseteq Confirm /\ pc'[c] = "issue"
          /\ \A d \in Confirm : Pending(d) => Pending(d)'
      BY <2>1 DEF Inv, TypeOK, Pending
    <2>3. ASSUME NEW k \in revoked', Keeps(k)'  PROVE NotArrived(revokedBy[k])'
      <3>1. Keeps(k)
        BY <2>1, <2>3 DEF Keeps
      <3>2. CASE k \in own
        BY <2>1, <2>2, <3>2 DEF NotArrived
      <3>3. CASE k \notin own
        <4>1. k \in revoked /\ revokedBy'[k] = revokedBy[k]
          BY <1>0, <2>1, <3>3
        <4>2. NotArrived(revokedBy[k]) /\ revokedBy[k] \in Confirm
          BY <1>0, <3>1, <4>1
        <4> QED
          BY <2>1, <2>2, <4>1, <4>2 DEF NotArrived, Pending
      <3> QED
        BY <3>2, <3>3
    <2> QED
      BY <2>3
  <1>10. ASSUME NEW c \in Confirm, Send(c)  PROVE Cause'
    <2> DEFINE box == inbox[registry]
    <2>1. /\ registry \in Attempt /\ box \in Seq(Confirm) /\ pc[c] = "send"
          /\ pc' = [pc EXCEPT ![c] = "confirmed"]
          /\ inbox' = [inbox EXCEPT ![registry] = Append(box, c)]
          /\ UNCHANGED <<attempt, agent, received, stored, dropped, revoked, revokedBy>>
      BY <1>10 DEF Send, Goto, Inv, TypeOK, database, client, history
    <2>2. /\ inbox'[registry] = Append(box, c)
          /\ \A a \in Attempt : a # registry => inbox'[a] = inbox[a]
          /\ c \notin revoked
          /\ \A d \in Confirm : d # c => pc'[d] = pc[d]
      BY <1>0, <2>1 DEF SentAreActive, Inv, TypeOK
    <2>3. \A k : Holds(inbox'[registry], k) <=> k = c \/ Holds(box, k)
      BY <2>1, <2>2, AppendHolds
    <2>4. ASSUME NEW d \in Confirm, NotArrived(d)  PROVE NotArrived(d)'
      <3>1. d = c \/ InSomeBox(d) => InSomeBox(d)'
        BY <2>1, <2>2, <2>3 DEF InSomeBox
      <3>2. Pending(d) => d = c \/ Pending(d)'
        BY <2>2 DEF Pending
      <3> QED
        BY <1>a, <2>1, <2>4, <3>1, <3>2, NotArrivedCases
    <2>5. ASSUME NEW k \in revoked, Keeps(k)'  PROVE Keeps(k)
      <3>1. agent = "waiting" => attempt \in Attempt
        BY DEF Inv, AttemptCounted
      <3> QED
        BY <2>1, <2>2, <2>3, <2>5, <3>1 DEF Keeps
    <2> QED
      BY <1>0, <2>1, <2>4, <2>5
  <1>11. CASE Restart
    <2>1. /\ UNCHANGED <<attempt, inbox, agent, received, stored, dropped>>
          /\ UNCHANGED <<revoked, revokedBy>>
      BY <1>11 DEF Restart, database, client, history
    <2>2. \A c \in Confirm : pc'[c] = "failed" \/ pc'[c] = pc[c]
      BY <1>11 DEF Restart
    <2> QED
      BY <1>1, <2>1, <2>2 DEF Pending
  <1>12. CASE UNCHANGED vars
    BY <1>1, <1>12 DEF vars, database, client, history, Pending
  <1> QED
    BY <1>2, <1>3, <1>4, <1>5, <1>6, <1>7, <1>8, <1>9, <1>10, <1>11, <1>12
    DEF Next, Connect, Answer

\* If each user confirms from one page, an agent whose key was revoked has missed
\* the key of the confirmation that revoked it.
THEOREM AgentsCutOffForCause == Spec => []CutOffForCause
  <1>1. Inv /\ Inv' /\ KeyInv /\ ArrivalInv /\ [Next]_vars => ArrivalInv'
    <2>1. OneTabPerUser' = OneTabPerUser
      BY DEF OneTabPerUser
    <2> QED
      BY <2>1, RotationStep, AcceptStep, CauseStep DEF Inv, KeyInv, ArrivalInv
  <1>2. Spec => []ArrivalInv
    BY Inductive, KeyInvariant, ArrivalInit, <1>1, PTL DEF Spec
  <1>3. ArrivalInv => CutOffForCause
    BY DEF ArrivalInv, RevokersAreOthers, Cause, Keeps, CutOffForCause
  <1> QED
    BY <1>2, <1>3, PTL
=============================================================================
