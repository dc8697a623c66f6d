----------------------------- MODULE IdleClock -----------------------------
(***************************************************************************)
(* The idle time the Windows collector reports,                            *)
(* agent/collectors/windows.py.  Windows counts milliseconds since boot in *)
(* an unsigned 32-bit word, GetTickCount, and stamps the last input with   *)
(* it.  The stamp is read into a c_uint, but a foreign function without a  *)
(* restype returns a signed int: from half of the range on the count reads *)
(* negative.                                                               *)
(***************************************************************************)
EXTENDS Integers

CONSTANTS
    Modulus,   \* 2^32
    MaxUptime  \* bound on the time since boot

ASSUME ModulusAssumption == Modulus \in Nat \ {0}
ASSUME UptimeAssumption == MaxUptime \in Nat

VARIABLES
    uptime,  \* ticks since boot, as they really are
    input,   \* when the user last touched keyboard or mouse
    tick,    \* the word GetTickCount reads
    dwTime   \* LASTINPUTINFO.dwTime

vars == <<uptime, input, tick, dwTime>>

Init == uptime = 0 /\ input = 0 /\ tick = 0 /\ dwTime = 0

\* The count wraps.
Count ==
    /\ uptime < MaxUptime
    /\ uptime' = uptime + 1
    /\ tick' = IF tick + 1 = Modulus THEN 0 ELSE tick + 1
    /\ UNCHANGED <<input, dwTime>>

UserInput ==
    /\ input' = uptime
    /\ dwTime' = tick
    /\ UNCHANGED <<uptime, tick>>

Next == Count \/ UserInput

Spec == Init /\ [][Next]_vars

-----------------------------------------------------------------------------

\* ctypes: a word as a C int.
Signed(word) == IF 2 * word < Modulus THEN word ELSE word - Modulus

\* Mutants: the stamp read signed and the count unsigned; the wrong way round.
IdleTimeUnsigned == tick - Signed(dwTime)

IdleTimeReversed == dwTime - Signed(tick)

\* get_idle_seconds, in ticks.
IdleTime == Signed(tick) - dwTime

-----------------------------------------------------------------------------
(* Properties *)

\* Whatever has wrapped, the idle time is never more than it is: the tracker
\* never takes a user for idle who has just typed.
NeverFalselyIdle == IdleTime <= uptime - input

\* In the first half of the count's range the idle time is exact.
ExactAtFirst == 2 * uptime < Modulus => IdleTime = uptime - input

\* "Return the number of seconds since the last user input" (windows.py):
\* refuted once the count has passed half of its range.
IdleTimeIsElapsed == IdleTime = uptime - input
=============================================================================
