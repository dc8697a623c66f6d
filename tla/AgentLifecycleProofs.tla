------------------------ MODULE AgentLifecycleProofs ------------------------
(***************************************************************************)
(* Proofs about AgentLifecycle, for any number of starts and whichever joins *)
(* time out.                                                               *)
(***************************************************************************)
EXTENDS AgentIdentity, TLAPS

\* Runs that have not been started.
NotYet == \A r \in Run : r > started => phase[r] = "new"

\* A start that is under way is within the bound.
Starting == ui[Tray] \in {"clear", "spawn"} => started < MaxRuns

\* Who is past the lock holds it, and nobody else does.
LockIsHeld == \A r \in Run : InLoop(r) <=> lock = r

\* Who joins, joins a run.
Joining == \A t \in UIThread : ui[t] \in {"joining", "forget"} => joins[t] \in Run

Inv == TypeOK /\ NotYet /\ Starting /\ LockIsHeld /\ Joining

LEMMA InvInit == Init => Inv
  BY LifecycleBoundAssumption, HandleAssumption
  DEF Init, Inv, TypeOK, NotYet, Starting, LockIsHeld, Joining, InLoop, Run, UIThread

LEMMA ControllerStep == ASSUME Inv, Controller PROVE Inv'
  <1> USE LifecycleBoundAssumption, HandleAssumption
      DEF Inv, TypeOK, NotYet, Starting, LockIsHeld, Joining, InLoop, Run, UIThread, agents, Goto
  <1>1. CASE BeginStart \/ ClearEvent \/ BeginStop
    <2>1. CASE BeginStart
      BY <2>1 DEF BeginStart
    <2>2. CASE ClearEvent
      BY <2>2 DEF ClearEvent
    <2>3. CASE BeginStop
      BY <2>3 DEF BeginStop
    <2> QED
      BY <1>1, <2>1, <2>2, <2>3
  <1>2. CASE Spawn
    <2> DEFINE next == started + 1
    <2>1. next \in Run /\ next > started
      BY <1>2 DEF Spawn, Starting
    <2>2. phase[next] = "new" /\ lock # next
      BY <2>1
    <2>3. /\ started' = next /\ handle' = next /\ lock' = lock
          /\ phase' = [phase EXCEPT ![next] = "locking"]
          /\ ui' = [ui EXCEPT ![Tray] = "idle"]
          /\ UNCHANGED <<stop_event, joins, exits, alive, abandoned>>
      BY <1>2 DEF Spawn
    <2>4. started \in Nat /\ next = started + 1
      OBVIOUS
    <2> HIDE DEF next
    <2>5. TypeOK'
      BY <2>1, <2>3
    <2>6. NotYet'
      BY <2>1, <2>3, <2>4
    <2>7. Starting'
      BY <2>3
    <2>8. LockIsHeld'
      BY <2>1, <2>2, <2>3
    <2>9. Joining'
      BY <2>3
    <2> QED
      BY <2>5, <2>6, <2>7, <2>8, <2>9
  <1>3. ASSUME NEW t \in UIThread,
               \/ BeginExit(t) \/ SetEvent(t) \/ Join(t) \/ JoinRaises(t)
               \/ JoinReturns(t) \/ Forget(t)
        PROVE  Inv'
    <2>1. CASE BeginExit(t)
      BY <2>1 DEF BeginExit
    <2>2. CASE SetEvent(t)
      BY <2>2 DEF SetEvent
    <2>3. CASE Join(t)
      BY <2>3 DEF Join
    <2>4. CASE JoinRaises(t)
      BY <2>4 DEF JoinRaises
    <2>5. CASE JoinReturns(t)
      BY <2>5 DEF JoinReturns
    <2>6. CASE Forget(t)
      BY <2>6 DEF Forget
    <2> QED
      BY <1>3, <2>1, <2>2, <2>3, <2>4, <2>5, <2>6
  <1>4. ASSUME NEW t \in UIThread, Exit(t) PROVE Inv'
    BY <1>4 DEF Exit
  <1> QED
    BY <1>1, <1>2, <1>3, <1>4 DEF Controller

LEMMA AgentStep == ASSUME Inv, NEW r \in Run, Agent(r) PROVE Inv'
  <1> USE HandleAssumption DEF Inv, TypeOK, NotYet, Starting, LockIsHeld, Joining, InLoop, Move
  <1>1. CASE TakeLock(r) \/ LockTaken(r)
    BY <1>1 DEF TakeLock, LockTaken
  <1>2. CASE SetUp(r) \/ LeaveLoop(r) \/ LoopFails(r)
    BY <1>2 DEF SetUp, LeaveLoop, LoopFails
  <1>3. CASE SetUpFails(r) \/ Close(r)
    BY <1>3 DEF SetUpFails, Close
  <1> QED
    BY <1>1, <1>2, <1>3 DEF Agent

THEOREM LifecycleInvariant == Spec => []Inv
  <1>1. Inv /\ [Next]_vars => Inv'
    <2>1. Inv /\ UNCHANGED vars => Inv'
      BY DEF Inv, TypeOK, NotYet, Starting, LockIsHeld, Joining, InLoop, vars, agents
    <2> QED
      BY <2>1, ControllerStep, AgentStep DEF Next
  <1> QED
    BY InvInit, <1>1, PTL DEF Spec

\* Every variable keeps its type (AgentLifecycle!TypeOK).
THEOREM LifecycleTypeCorrect == Spec => []TypeOK
  BY LifecycleInvariant, PTL DEF Inv

\* Two runs of the agent are never past the instance lock at once.
THEOREM RunsExcludeEachOther == Spec => []OneRunAtATime
  <1>1. Inv => OneRunAtATime
    BY DEF Inv, LockIsHeld, OneRunAtATime
  <1> QED
    BY LifecycleInvariant, <1>1, PTL

\* A run that is over never holds the lock.
THEOREM LockReleased == Spec => []LockIsReleased
  <1>1. Inv => LockIsReleased
    BY DEF Inv, LockIsHeld, LockIsReleased
  <1> QED
    BY LifecycleInvariant, <1>1, PTL

-----------------------------------------------------------------------------
(* Which run the controller knows of *)

\* The window's thread has joined: from here on it exits.
Leaving == ui[Window] \in {"joining", "forget", "exit"}

\* Until then only the tray changes _agent_thread, and every run that it does not
\* name has ended or was given up on.
OthersAreOver ==
    /\ ui[Tray] \in {"clear", "spawn"} => handle = NoThread \/ phase[handle] = "ended"
    /\ ui[Tray] \in {"joining", "forget"} => handle = joins[Tray]
    /\ ui[Tray] = "forget" => phase[handle] = "ended" \/ handle \in abandoned
    /\ \A r \in Run : r <= started /\ r # handle =>
                         phase[r] = "ended" \/ r \in abandoned

Handled ==
    /\ handle # NoThread => handle <= started
    /\ \A r \in Run : r <= started => phase[r] # "new"
    /\ ui[Window] \notin {"clear", "spawn"}
    /\ ui[Window] # "idle" => Window \in exits
    /\ ~Leaving => OthersAreOver

LEMMA HandledInit == Init => Handled
  BY LifecycleBoundAssumption, HandleAssumption
  DEF Init, Handled, Leaving, OthersAreOver, Run, UIThread

LEMMA HandledController == ASSUME Inv, Handled, Controller PROVE Handled'
  <1> USE HandleAssumption
      DEF Inv, TypeOK, Joining, Handled, Leaving, OthersAreOver, UIThread, agents, Goto
  <1>1. CASE BeginStart
    BY <1>1 DEF BeginStart, IsRunning
  <1>2. CASE ClearEvent
    BY <1>2 DEF ClearEvent
  <1>3. CASE Spawn
    <2> DEFINE next == started + 1
    <2>1. next \in Run /\ started \in Nat /\ Run \subseteq Nat
      BY <1>3, LifecycleBoundAssumption DEF Spawn, Starting, Run
    <2>2. /\ ui[Tray] = "spawn"
          /\ started' = next /\ handle' = next
          /\ phase' = [phase EXCEPT ![next] = "locking"]
          /\ ui' = [ui EXCEPT ![Tray] = "idle"]
          /\ UNCHANGED <<joins, exits, abandoned>>
      BY <1>3 DEF Spawn
    <2>3. \A r \in Run : r <= next /\ r # next => r <= started
      BY <2>1
    <2>4. next <= next /\ \A r \in Run : r <= started => r <= next
      BY <2>1
    <2> HIDE DEF next
    <2>5. \A r \in Run : r # next => phase'[r] = phase[r]
      BY <2>2
    <2>6. phase'[next] = "locking"
      BY <2>1, <2>2
    <2>7. ASSUME ~Leaving', NEW r \in Run, r <= started', r # handle'
          PROVE  phase'[r] = "ended" \/ r \in abandoned'
      BY <2>2, <2>3, <2>5, <2>7
    <2>8. \A r \in Run : r <= started' => phase'[r] # "new"
      BY <2>2, <2>3, <2>5, <2>6
    <2> QED
      BY <2>2, <2>4, <2>7, <2>8
  <1>4. CASE BeginStop
    BY <1>4 DEF BeginStop
  <1>5. ASSUME NEW t \in UIThread, BeginExit(t) \/ SetEvent(t)  PROVE Handled'
    BY <1>5 DEF BeginExit, SetEvent
  <1>6. ASSUME NEW t \in UIThread, Join(t) \/ JoinRaises(t)  PROVE Handled'
    BY <1>6 DEF Join, JoinRaises
  <1>7. ASSUME NEW t \in UIThread, JoinReturns(t)  PROVE Handled'
    BY <1>7 DEF JoinReturns
  <1>8. ASSUME NEW t \in UIThread, Forget(t)  PROVE Handled'
    BY <1>8 DEF Forget
  <1>9. ASSUME NEW t \in UIThread, Exit(t)  PROVE Handled'
    BY <1>9 DEF Exit
  <1> QED
    BY <1>1, <1>2, <1>3, <1>4, <1>5, <1>6, <1>7, <1>8, <1>9 DEF Controller

LEMMA HandledAgent == ASSUME Inv, Handled, NEW r \in Run, Agent(r) PROVE Handled'
  <1>1. UNCHANGED <<handle, started, ui, joins, exits, abandoned>>
    BY DEF Agent, TakeLock, LockTaken, SetUp, SetUpFails, LeaveLoop, LoopFails, Close
  <1>2. phase[r] \in {"locking", "setup", "loop", "closing"}
    BY DEF Agent, TakeLock, LockTaken, SetUp, SetUpFails, LeaveLoop, LoopFails, Close
  <1>3. PICK label \in {"setup", "loop", "closing", "ended"} :
           phase' = [phase EXCEPT ![r] = label]
    BY DEF Agent, TakeLock, LockTaken, SetUp, SetUpFails, LeaveLoop, LoopFails,
           Close, Move
  <1>4. \A q \in Run : phase[q] \in {"new", "ended"} => phase'[q] = phase[q]
    BY <1>2, <1>3 DEF Inv, TypeOK
  <1>5. \A q \in Run : phase[q] # "new" => phase'[q] # "new"
    BY <1>3 DEF Inv, TypeOK
  <1>6. handle \in Run \/ handle = NoThread
    BY DEF Inv, TypeOK
  <1>7. ~Leaving' => OthersAreOver'
    <2> SUFFICES ASSUME ~Leaving PROVE OthersAreOver'
      BY <1>1 DEF Leaving
    <2>1. OthersAreOver
      BY DEF Handled
    <2>2. ui[Tray] = "forget" => handle \in Run
      BY <2>1 DEF OthersAreOver, Inv, Joining, UIThread
    <2> QED
      BY <1>1, <1>4, <1>6, <2>1, <2>2 DEF OthersAreOver
  <1> QED
    BY <1>1, <1>5, <1>7 DEF Handled

THEOREM ControllerKnows == Spec => []Handled
  <1>1. Inv /\ Handled /\ [Next]_vars => Handled'
    <2>1. Inv /\ Handled /\ UNCHANGED vars => Handled'
      BY DEF Handled, Leaving, OthersAreOver, vars, agents
    <2> QED
      BY <2>1, HandledController, HandledAgent DEF Next
  <1> QED
    BY HandledInit, LifecycleInvariant, <1>1, PTL DEF Spec

\* A start finds the lock free unless a run is overdue or somebody exits.
THEOREM RestartsSucceed == Spec => []PromptRestartRuns
  <1>1. Inv /\ Handled => PromptRestartRuns
    <2> SUFFICES ASSUME Inv, Handled, Overdue = {}, exits = {},
                        NEW r \in Run, phase[r] = "locking"
                 PROVE  lock = NoThread
      BY DEF PromptRestartRuns, StartedAgentRuns
    <2>1. OthersAreOver
      BY DEF Handled, Leaving
    <2>2. \A q \in Run : phase[q] \notin {"new", "ended"} => q = handle
      BY <2>1, LifecycleBoundAssumption DEF OthersAreOver, Overdue, Inv, NotYet, TypeOK, Run
    <2>3. r = handle
      BY <2>2
    <2>4. ASSUME lock # NoThread PROVE FALSE
      <3>1. lock \in Run /\ InLoop(lock)
        BY <2>4 DEF Inv, TypeOK, LockIsHeld
      <3> QED
        BY <2>2, <2>3, <3>1 DEF InLoop
    <2> QED
      BY <2>4
  <1> QED
    BY LifecycleInvariant, ControllerKnows, <1>1, PTL

\* The run that polls is the one the menu shows, under the same conditions.
THEOREM MenuIsTrue == Spec => []MenuShowsRun
  <1>1. Inv /\ Handled => MenuShowsRun
    <2> SUFFICES ASSUME Inv, Handled, Overdue = {}, exits = {},
                        NEW r \in Run, phase[r] = "loop"
                 PROVE  handle = r
      BY DEF MenuShowsRun
    <2>1. OthersAreOver
      BY DEF Handled, Leaving
    <2> QED
      BY <2>1, LifecycleBoundAssumption DEF OthersAreOver, Overdue, Inv, NotYet, TypeOK, Run
  <1> QED
    BY LifecycleInvariant, ControllerKnows, <1>1, PTL

-----------------------------------------------------------------------------
(* The process: AgentIdentity *)

LEMMA AgentStepIsStep == [AgentNext]_agentVars => [Next]_vars
<1>1. ASSUME NEW r \in Run, Proceed(r) \/ Break(r)  PROVE [Next]_vars
  BY <1>1 DEF Proceed, Break, Load, FindFile, FindNoFile, WriteTmp, Replace,
     ReplaceRaises, EndSetUp, Next, Agent
<1>2. ASSUME NEW c \in Connection, Load(c)  PROVE UNCHANGED vars
  BY <1>2 DEF Load, FindFile, FindNoFile, WriteTmp, Replace, ReplaceRaises
<1> QED
  BY <1>1, <1>2 DEF AgentNext, agentVars, Next, StartConnection, EndConnection

\* What is proved of the runs holds of the whole process.
THEOREM AgentRunsAsSpecified == AgentSpec => Spec
<1>1. AgentInit => Init
  BY DEF AgentInit
<1> QED
  BY <1>1, AgentStepIsStep, PTL DEF AgentSpec, Spec

\* Whoever has not begun to load is at the beginning.
NotBegun ==
    /\ link = "open" => connected > 0
    /\ \A r \in Run : phase[r] \in {"new", "locking"} => step[r] = "check"
    /\ \A c \in Connection : c > MaxRuns + connected => step[c] = "check"

\* One creates the file, and nobody does when it is there.
OneCreator ==
    ~raced => /\ \A a, b \in Minter : Creating(a) /\ Creating(b) => a = b
              /\ file # NoIdentity => \A a \in Minter : ~Creating(a)

IdentityInv == AgentTypeOK /\ NotBegun /\ OneCreator

LEMMA Numbers ==
    /\ MaxRuns \in Nat /\ MaxConnections \in Nat
    /\ Run \subseteq Nat /\ Connection \subseteq Nat /\ Minter = Run \cup Connection
    /\ \A r \in Run : r >= 1 /\ r <= MaxRuns
    /\ \A c \in Connection : c > MaxRuns
    /\ NoIdentity \notin Minter
  BY LifecycleBoundAssumption, MinterAssumption DEF Run, Connection, Minter

LEMMA IdentityInit == AgentInit => IdentityInv
<1> SUFFICES ASSUME AgentInit PROVE IdentityInv
  OBVIOUS
<1>1. AgentTypeOK
  <2>1. connected \in 0..MaxConnections
    BY MinterAssumption DEF AgentInit
  <2>2. step \in [Minter -> {"check", "create", "replace", "loaded", "failed"}]
    BY DEF AgentInit
  <2> QED
    BY <2>1, <2>2 DEF AgentInit, AgentTypeOK
<1>2. \A a \in Minter : step[a] = "check"
  BY DEF AgentInit
<1>3. NotBegun
  BY <1>2, Numbers DEF AgentInit, NotBegun
<1>4. OneCreator
  BY <1>2 DEF OneCreator, Creating, At
<1> QED
  BY <1>1, <1>3, <1>4 DEF IdentityInv

\* Steps that leave the file alone and begin no creation keep the invariant.
LEMMA NobodyBegins ==
    ASSUME IdentityInv, AgentTypeOK', NotBegun', UNCHANGED <<file, raced>>,
           \A a \in Minter : Creating(a)' => Creating(a)
    PROVE  IdentityInv'
  BY DEF IdentityInv, OneCreator

LEMMA LifecycleKeepsIdentity ==
    ASSUME Inv, Inv', IdentityInv, UNCHANGED connections, UNCHANGED <<file, tmp, raced>>,
           alive' = "up" => alive = "up",
           NEW r \in Run,
           \/ UNCHANGED step /\ \A q \in Run : phase'[q] \in {"new", "locking"}
                                  => phase[q] \in {"new", "locking"}
           \/ step' = [step EXCEPT ![r] = "check"] /\ \A q \in Run :
                 phase'[q] \in {"new", "locking"} => phase[q] \in {"new", "locking"},
           \A q \in Run : phase'[q] = "setup" => phase[q] \in {"setup", "locking"}
    PROVE  IdentityInv'
<1> USE Numbers
<1>1. UNCHANGED <<connected, link>>
  BY DEF connections
<1>2. \A a \in Minter : step'[a] = step[a] \/ step'[a] = "check"
  BY DEF IdentityInv, AgentTypeOK
<1>3. AgentTypeOK'
  BY <1>1 DEF IdentityInv, AgentTypeOK
<1>4. NotBegun'
  BY <1>1, <1>2 DEF IdentityInv, NotBegun
<1>5. ASSUME NEW a \in Minter, Creating(a)'  PROVE Creating(a)
  <2>1. step'[a] \in {"create", "replace"} /\ step[a] = step'[a]
    BY <1>2, <1>5 DEF Creating, At
  <2>2. CASE a \in Run /\ phase'[a] = "setup"
    <3>1. phase[a] = "setup"
      BY <2>1, <2>2 DEF IdentityInv, NotBegun
    <3> QED
      BY <2>1, <2>2, <3>1 DEF Creating, At, Working
  <2>3. CASE a = MaxRuns + connected /\ link = "open" /\ alive' = "up"
    BY <2>1, <2>3 DEF Creating, At, Working
  <2> QED
    BY <1>1, <1>5, <2>2, <2>3 DEF Creating, At, Working
<1> QED
  BY <1>3, <1>4, <1>5, NobodyBegins

LEMMA ControllerKeepsIdentity ==
    ASSUME Inv, Inv', IdentityInv, Controller, UNCHANGED <<loading, connections>>
    PROVE  IdentityInv'
<1>1. UNCHANGED <<file, tmp, step, raced, connections>>
  BY DEF loading
<1>2. /\ alive' = "up" => alive = "up"
      /\ \A q \in Run : phase'[q] = "setup" => phase[q] \in {"setup", "locking"}
      /\ \A q \in Run : phase'[q] \in {"new", "locking"} => phase[q] \in {"new", "locking"}
  <2>1. CASE Spawn
    <3>1. \A q \in Run : q = started + 1 => phase[q] = "new"
      BY LifecycleBoundAssumption DEF Inv, NotYet, TypeOK, Run
    <3> QED
      BY <2>1, <3>1 DEF Spawn, Inv, TypeOK
  <2>2. ASSUME NEW t \in UIThread, Exit(t)
        PROVE  /\ alive' = "gone"
               /\ \A q \in Run : phase'[q] \in {"new", "ended"}
               /\ \A q \in Run : phase'[q] = "new" => phase[q] = "new"
    <3>1. \A q \in Run : ~(q <= started) => q > started
      BY LifecycleBoundAssumption DEF Inv, TypeOK, Run
    <3> QED
      BY <2>2, <3>1 DEF Exit, Inv, NotYet
  <2>3. ASSUME BeginStart \/ ClearEvent \/ BeginStop \/ \E t \in UIThread :
                  \/ BeginExit(t) \/ SetEvent(t) \/ Join(t) \/ JoinRaises(t)
                  \/ JoinReturns(t) \/ Forget(t)
        PROVE  UNCHANGED <<alive, phase>>
    BY <2>3 DEF BeginStart, ClearEvent, BeginStop, BeginExit, SetEvent, Join,
       JoinRaises, JoinReturns, Forget, agents
  <2> QED
    BY <2>1, <2>2, <2>3 DEF Controller, Spawn
<1>3. 1 \in Run
  BY LifecycleBoundAssumption DEF Run
<1> QED
  BY <1>1, <1>2, <1>3, LifecycleKeepsIdentity

LEMMA RunKeepsIdentity ==
    ASSUME Inv, Inv', IdentityInv, NEW r \in Run, EndSetUp(r) \/ Break(r) \/
           (/\ TakeLock(r) \/ LockTaken(r) \/ LeaveLoop(r) \/ Close(r)
            /\ UNCHANGED <<loading, connections>>)
    PROVE  IdentityInv'
<1>1. UNCHANGED <<file, tmp, raced, connections, alive>>
  BY DEF EndSetUp, Break, TakeLock, LockTaken, LeaveLoop, Close, LoopFails, SetUp,
         SetUpFails, loading
<1>2. UNCHANGED step \/ step' = [step EXCEPT ![r] = "check"]
  BY DEF EndSetUp, Break, loading, Continue
<1>3. PICK label \in {"setup", "loop", "closing", "ended"} :
         /\ phase' = [phase EXCEPT ![r] = label]
         /\ label = "setup" => phase[r] = "locking"
  BY DEF EndSetUp, Break, TakeLock, LockTaken, LeaveLoop, Close, LoopFails, SetUp,
         SetUpFails, Move
<1>4. /\ \A q \in Run : phase'[q] = "setup" => phase[q] \in {"setup", "locking"}
      /\ \A q \in Run : phase'[q] \in {"new", "locking"} => phase[q] \in {"new", "locking"}
  BY <1>3 DEF Inv, TypeOK
<1> QED
  BY <1>1, <1>2, <1>4, LifecycleKeepsIdentity

LEMMA LoadKeepsIdentity ==
    ASSUME Inv, IdentityInv, NEW a \in Minter, Load(a)
    PROVE  IdentityInv'
<1> USE Numbers
<1>1. /\ UNCHANGED <<vars, connected, link>> /\ UNCHANGED <<phase, alive>>
      /\ Working(a)
  BY DEF Load, FindFile, FindNoFile, WriteTmp, Replace, ReplaceRaises, At, vars,
         agents, connections
<1>2. PICK label \in {"create", "replace", "loaded", "failed"} :
         step' = [step EXCEPT ![a] = label]
  BY DEF Load, FindFile, FindNoFile, WriteTmp, Replace, ReplaceRaises, Continue
<1>3. \A b \in Minter : b # a => step'[b] = step[b]
  BY <1>2 DEF IdentityInv, AgentTypeOK
<1>4. \A b \in Minter : Working(b)' <=> Working(b)
  BY <1>1 DEF Working
<1>5. AgentTypeOK'
  <2>1. /\ file' \in Minter \cup {NoIdentity} /\ tmp' \in Minter \cup {NoIdentity}
        /\ raced' \in BOOLEAN
    BY DEF Load, FindFile, FindNoFile, WriteTmp, Replace, ReplaceRaises,
           IdentityInv, AgentTypeOK
  <2> QED
    BY <1>1, <1>2, <2>1 DEF IdentityInv, AgentTypeOK
<1>6. NotBegun'
  <2>1. ~(a \in Run /\ phase[a] \in {"new", "locking"})
    BY <1>1, Numbers DEF Working, IdentityInv, NotBegun, AgentTypeOK
  <2>2. ~(a \in Connection /\ a > MaxRuns + connected)
    BY <1>1 DEF Working, IdentityInv, AgentTypeOK
  <2> QED
    BY <1>1, <1>3, <2>1, <2>2 DEF IdentityInv, NotBegun
<1>7. \A b \in Minter : b # a /\ Creating(b)' => Creating(b)
  BY <1>3, <1>4 DEF Creating, At
<1>8. CASE FindNoFile(a)
  <2>1. file' = file /\ file = NoIdentity
    BY <1>8 DEF FindNoFile
  <2>2. ASSUME ~raced', NEW b \in Minter, b # a, Creating(b)  PROVE FALSE
    <3>1. a \notin Connection /\ b \notin Connection
      BY <1>8, <2>2 DEF FindNoFile
    <3>2. a \in Run /\ b \in Run
      BY <3>1
    <3>3. phase[a] = "setup" /\ phase[b] = "setup"
      BY <1>1, <2>2, <3>1, <3>2 DEF Creating, At, Working, IdentityInv, NotBegun,
         AgentTypeOK, Connection
    <3> QED
      BY <2>2, <3>2, <3>3 DEF Inv, LockIsHeld, InLoop
  <2> QED
    BY <1>5, <1>6, <1>7, <2>1, <2>2 DEF IdentityInv, OneCreator
<1>9. CASE Replace(a)
  <2>1. Creating(a) /\ raced' = raced /\ step'[a] = "loaded"
    BY <1>9 DEF Replace, Creating, Continue, IdentityInv, AgentTypeOK
  <2>2. ~Creating(a)'
    BY <2>1 DEF Creating, At
  <2> QED
    BY <1>5, <1>6, <1>7, <2>1, <2>2 DEF IdentityInv, OneCreator
<1>10. CASE FindFile(a) \/ WriteTmp(a) \/ ReplaceRaises(a)
  <2>1. UNCHANGED <<file, raced>>
    BY <1>10 DEF FindFile, WriteTmp, ReplaceRaises
  <2>2. Creating(a)' => Creating(a)
    BY <1>4, <1>10 DEF FindFile, WriteTmp, ReplaceRaises, Creating, At, Continue,
       IdentityInv, AgentTypeOK
  <2> QED
    BY <1>5, <1>6, <1>7, <2>1, <2>2, NobodyBegins
<1> QED
  BY <1>8, <1>9, <1>10 DEF Load

LEMMA ConnectionKeepsIdentity ==
    ASSUME IdentityInv,
           EndConnection \/ \E t \in UIThread : StartConnection(t)
    PROVE  IdentityInv'
<1> USE Numbers
<1>1. UNCHANGED <<file, tmp, raced, phase, alive>>
  BY DEF EndConnection, StartConnection, loading, vars, agents
<1>2. CASE EndConnection
  <2>1. /\ link' = "none" /\ connected' = connected
        /\ step' = [step EXCEPT ![MaxRuns + connected] = "check"]
    BY <1>2 DEF EndConnection, Continue
  <2>2. \A a \in Minter : step'[a] = step[a] \/ step'[a] = "check"
    BY <2>1 DEF IdentityInv, AgentTypeOK
  <2>3. AgentTypeOK' /\ NotBegun'
    BY <1>1, <2>1, <2>2 DEF IdentityInv, AgentTypeOK, NotBegun
  <2>4. \A a \in Minter : Creating(a)' => Creating(a)
    BY <1>1, <2>1, <2>2 DEF Creating, At, Working
  <2> QED
    BY <1>1, <2>3, <2>4, NobodyBegins
<1>3. CASE \E t \in UIThread : StartConnection(t)
  <2>1. /\ link' = "open" /\ connected' = connected + 1 /\ step' = step
        /\ connected < MaxConnections
    BY <1>3 DEF StartConnection, loading
  <2>2. connected \in Nat
    BY DEF IdentityInv, AgentTypeOK
  <2>3. AgentTypeOK' /\ NotBegun'
    BY <1>1, <2>1, <2>2 DEF IdentityInv, AgentTypeOK, NotBegun
  <2>4. MaxRuns + connected' \in Connection /\ MaxRuns + connected' > MaxRuns + connected
    BY <2>1, <2>2 DEF Connection
  <2>5. step[MaxRuns + connected'] = "check"
    BY <2>4 DEF IdentityInv, NotBegun
  <2>6. \A a \in Minter : Creating(a)' => Creating(a)
    BY <1>1, <2>1, <2>5 DEF Creating, At, Working
  <2> QED
    BY <1>1, <2>3, <2>6, NobodyBegins
<1> QED
  BY <1>2, <1>3

LEMMA IdentityStep == Inv /\ Inv' /\ IdentityInv /\ [AgentNext]_agentVars => IdentityInv'
<1> SUFFICES ASSUME Inv, Inv', IdentityInv, [AgentNext]_agentVars PROVE IdentityInv'
  OBVIOUS
<1>1. CASE UNCHANGED agentVars
  BY <1>1 DEF agentVars, vars, agents, loading, connections, IdentityInv, AgentTypeOK,
     NotBegun, OneCreator, Creating, At, Working
<1>2. ASSUME NEW r \in Run, Proceed(r) \/ Break(r)  PROVE IdentityInv'
  BY <1>2, RunKeepsIdentity, LoadKeepsIdentity DEF Proceed, Minter
<1>3. ASSUME NEW c \in Connection, Load(c)  PROVE IdentityInv'
  BY <1>3, LoadKeepsIdentity DEF Minter
<1> QED
  BY <1>1, <1>2, <1>3, ControllerKeepsIdentity, ConnectionKeepsIdentity DEF AgentNext

THEOREM IdentityInvariant == AgentSpec => []IdentityInv
  BY IdentityInit, IdentityStep, AgentRunsAsSpecified, LifecycleInvariant, PTL DEF AgentSpec

\* Every variable of the process keeps its type (AgentIdentity!AgentTypeOK).
THEOREM AgentTypeCorrect == AgentSpec => []AgentTypeOK
  BY IdentityInvariant, PTL DEF IdentityInv

\* identity.json is written once, unless a connection races a run to it.
THEOREM IdentityKept == AgentSpec => OneInstallation
<1>1. IdentityInv /\ [AgentNext]_agentVars
        => [~raced' /\ file # NoIdentity => file' = file]_file
  <2> SUFFICES ASSUME IdentityInv, [AgentNext]_agentVars, ~raced',
                      file # NoIdentity, file' # file
               PROVE  FALSE
    OBVIOUS
  <2>1. PICK a \in Minter : Replace(a)
    BY DEF AgentNext, agentVars, Proceed, Break, EndSetUp, Load, FindFile, FindNoFile,
       WriteTmp, ReplaceRaises, StartConnection, EndConnection, loading, Minter
  <2>2. Creating(a) /\ raced' = raced
    BY <2>1 DEF Replace, Creating
  <2> QED
    BY <2>2 DEF IdentityInv, OneCreator
<1> QED
  BY <1>1, IdentityInvariant, PTL DEF AgentSpec, OneInstallation
=============================================================================
