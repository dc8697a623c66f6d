---------------------------- MODULE AgentIdentity ----------------------------
(***************************************************************************)
(* The process of the agent: the runs of AgentLifecycle, and the threads   *)
(* that "Connect account" starts beside them (connect_account in           *)
(* agent/tray.py).  Both load identity.json or create it                   *)
(* (agent/identity.py): a run while it holds the instance lock, a          *)
(* connection without it.                                                  *)
(*                                                                         *)
(* The file is written beside itself and moved over, in two steps and      *)
(* through one temporary name.  An identity is named by who minted it, as  *)
(* every uuid4 is new.  What a connection does with its identity is module *)
(* Enrollment.                                                             *)
(***************************************************************************)
EXTENDS AgentLifecycle

CONSTANTS
    MaxConnections,  \* bound: how often an account is connected
    NoIdentity       \* there is no file

\* Numbered after the runs.
Connection == MaxRuns + 1 .. MaxRuns + MaxConnections

Minter == Run \cup Connection

ASSUME MinterAssumption == MaxConnections \in Nat /\ NoIdentity \notin Minter

VARIABLES
    file,       \* identity.json
    tmp,        \* identity.json.tmp
    step,       \* minter -> where in load_or_create_identity
    connected,  \* connections begun so far
    link,       \* whether the last one is open: _connecting
    raced       \* history: a connection and a run found no file at once

loading == <<file, tmp, step, raced>>
connections == <<connected, link>>
agentVars == <<vars, loading, connections>>

AgentTypeOK ==
    /\ file \in Minter \cup {NoIdentity}
    /\ tmp \in Minter \cup {NoIdentity}
    /\ step \in [Minter -> {"check", "create", "replace", "loaded", "failed"}]
    /\ connected \in 0..MaxConnections
    /\ link \in {"none", "open"}
    /\ raced \in BOOLEAN

AgentInit ==
    /\ Init
    /\ file = NoIdentity
    /\ tmp = NoIdentity
    /\ step = [a \in Minter |-> "check"]
    /\ connected = 0
    /\ link = "none"
    /\ raced = FALSE

-----------------------------------------------------------------------------
(* load_or_create_identity *)

Working(a) ==
    \/ a \in Run /\ phase[a] = "setup"
    \/ a = MaxRuns + connected /\ link = "open" /\ alive = "up"

At(a, label) == Working(a) /\ step[a] = label

Creating(a) == At(a, "create") \/ At(a, "replace")

Continue(a, label) == step' = [step EXCEPT ![a] = label]

\* path.is_file(): the identity is the one in the file.
FindFile(a) ==
    /\ At(a, "check")
    /\ file # NoIdentity
    /\ Continue(a, "loaded")
    /\ UNCHANGED <<vars, connections, file, tmp, raced>>

FindNoFile(a) ==
    /\ At(a, "check")
    /\ file = NoIdentity
    /\ Continue(a, "create")
    /\ raced' = (raced \/ \E b \in Minter \ {a} :
                             Creating(b) /\ {a, b} \cap Connection # {})
    /\ UNCHANGED <<vars, connections, file, tmp>>

\* tmp.write_text
WriteTmp(a) ==
    /\ At(a, "create")
    /\ tmp' = a
    /\ Continue(a, "replace")
    /\ UNCHANGED <<vars, connections, file, raced>>

\* tmp.replace(path)
Replace(a) ==
    /\ At(a, "replace")
    /\ tmp # NoIdentity
    /\ file' = tmp
    /\ tmp' = NoIdentity
    /\ Continue(a, "loaded")
    /\ UNCHANGED <<vars, connections, raced>>

\* Another has moved the temporary file, or (on Windows) has it open.
ReplaceRaises(a) ==
    /\ At(a, "replace")
    /\ tmp = NoIdentity \/ \E b \in Minter \ {a} : At(b, "create")
    /\ Continue(a, "failed")
    /\ UNCHANGED <<vars, connections, file, tmp, raced>>

Load(a) ==
    FindFile(a) \/ FindNoFile(a) \/ WriteTmp(a) \/ Replace(a) \/ ReplaceRaises(a)

-----------------------------------------------------------------------------
(* AgentController.connect_account and _run_connect *)

\* From the tray or the window; the flag is looked at and set in one step.
StartConnection(t) ==
    /\ alive = "up" /\ ui[t] = "idle"
    /\ link = "none"
    /\ connected < MaxConnections
    /\ connected' = connected + 1
    /\ link' = "open"
    /\ UNCHANGED <<vars, loading>>

\* The account is connected, or connecting failed: at the file, at the API, or
\* waiting for the key.
EndConnection ==
    /\ alive = "up" /\ link = "open"
    /\ link' = "none"
    /\ Continue(MaxRuns + connected, "check")
    /\ UNCHANGED <<vars, file, tmp, raced, connected>>

-----------------------------------------------------------------------------

\* main.run loads the identity as the first part of its set-up.
EndSetUp(r) ==
    /\ \/ SetUp(r) /\ step[r] = "loaded"
       \/ SetUpFails(r)
    /\ Continue(r, "check")
    /\ UNCHANGED <<file, tmp, raced, connections>>

Proceed(r) ==
    \/ Load(r)
    \/ EndSetUp(r)
    \/ /\ TakeLock(r) \/ LockTaken(r) \/ LeaveLoop(r) \/ Close(r)
       /\ UNCHANGED <<loading, connections>>

Break(r) == LoopFails(r) /\ UNCHANGED <<loading, connections>>

AgentNext ==
    \/ Controller /\ UNCHANGED <<loading, connections>>
    \/ \E r \in Run : Proceed(r) \/ Break(r)
    \/ \E c \in Connection : Load(c)
    \/ \E t \in UIThread : StartConnection(t)
    \/ EndConnection

\* The thread of a run goes on; nothing makes a poll fail.
AgentFairness == \A r \in Run : WF_agentVars(Proceed(r))

AgentSpec == AgentInit /\ [][AgentNext]_agentVars /\ AgentFairness

-----------------------------------------------------------------------------
(* Properties *)

\* The machine stays one installation: whatever runs and connections load the
\* identity or die over it, the file that was written first is the only one,
\* unless a connection and a run found no file at once.  Two runs cannot: they
\* take the lock first (main.py).
OneInstallation == [][~raced' /\ file # NoIdentity => file' = file]_file
=============================================================================
