------------------------------ MODULE TimeUtil ------------------------------
(***************************************************************************)
(* TimeUtil::GetCurrentMillisecond: the second at which it was first       *)
(* called, plus the milliseconds that clock() has counted since.  clock()  *)
(* starts over after a while; that is noticed by its being less than it    *)
(* was at the reference point, and a new reference point is taken.         *)
(*                                                                         *)
(* clock() is external.  On Windows it follows real time and, as a comment *)
(* in the code says, starts over after a while (here Wrap); on             *)
(* Linux it counts the processor time of all threads of the process, which *)
(* may be less or more than the time that passes, and does not start over  *)
(* in any process's life.                                                  *)
(***************************************************************************)
EXTENDS Integers

CONSTANTS
    Second,   \* milliseconds in a second
    Wrap,     \* clock() counts 0 .. Wrap - 1 and starts over
    Started,  \* the time at which the process was started
    MaxPass,  \* bound: time between two steps
    Horizon   \* bound: the last moment looked at

ASSUME TimeAssumption ==
    /\ Second \in Nat \ {0} /\ Wrap \in Nat \ {0}
    /\ Started \in Nat /\ Started >= Second
    /\ MaxPass \in Nat /\ Horizon \in Nat

VARIABLES
    platform,        \* "windows" or "linux"
    now,             \* real time in milliseconds
    clock,           \* what clock() has counted
    StartSecond,
    StartTickCount,
    answer,          \* what the last call returned, 0 before the first
    called,          \* when that was
    frequent         \* no call came too late, see Call

timeVars == << platform, now, clock, StartSecond, StartTickCount, answer, called, frequent >>

TimeInit ==
    /\ platform \in {"windows", "linux"}
    /\ now = Started /\ clock = 0
    /\ StartSecond = 0 /\ StartTickCount = 0
    /\ answer = 0 /\ called = 0
    /\ frequent = TRUE

\* Mutant of GetTickCount: the count is 32 bits wide on Linux too.
GetTickCount32 == clock % Wrap

GetTickCount == IF platform = "windows" THEN clock % Wrap ELSE clock

\* GetCurrentSecond() * 1000
CurrentSecond == (now \div Second) * Second

\* Time passes, and clock() goes on; two busy threads make it twice as fast.
Pass(d) ==
    /\ now + d <= Horizon
    /\ now' = now + d
    /\ clock' \in IF platform = "windows" THEN {clock + d} ELSE clock .. clock + 2 * d
    /\ UNCHANGED << platform, StartSecond, StartTickCount, answer, called, frequent >>

\* Mutant of NewReference: the tick that starts over is not noticed.
NewReferenceOnce == StartSecond = 0

\* The first call, or the tick has started over.
NewReference == StartSecond = 0 \/ GetTickCount < StartTickCount

(***************************************************************************)
(* One call.  A tick that has started over shows for StartTickCount        *)
(* milliseconds; frequent says that calls never were further apart.        *)
(***************************************************************************)
GetCurrentMillisecond ==
    /\ StartSecond' = IF NewReference THEN CurrentSecond ELSE StartSecond
    /\ StartTickCount' = IF NewReference THEN GetTickCount ELSE StartTickCount
    /\ answer' = StartSecond' + (GetTickCount - StartTickCount')
    /\ called' = now
    /\ frequent' = (frequent /\ (called = 0 \/ now - called <= StartTickCount \/ now - Started < Wrap))
    /\ UNCHANGED << platform, now, clock >>

TimeNext == (\E d \in 1 .. MaxPass : Pass(d)) \/ GetCurrentMillisecond

TimeSpec == TimeInit /\ [][TimeNext]_timeVars
-----------------------------------------------------------------------------
(***************************************************************************)
(* "The current time in milliseconds": on Windows the answer is less than  *)
(* a second behind the time and never ahead of it, also after the tick has *)
(* started over once or several times, as long as the calls are frequent   *)
(* enough for that to be noticed.                                          *)
(***************************************************************************)
TimeAccurate ==
    platform = "windows" /\ called # 0 /\ frequent => answer \in called - Second + 1 .. called

(***************************************************************************)
(* The answer never goes back on Linux, whatever the processor time does   *)
(* and however rare the calls are; on Windows, as long as they are         *)
(* frequent, only when a tick that has started over makes it take a new    *)
(* reference point, then by less than a second.  A call on Windows that    *)
(* comes too late to see that may go back by a whole round of the tick.    *)
(***************************************************************************)
TimeHardlyBack ==
    [][\/ answer' >= answer
       \/ /\ platform = "windows"
          /\ frequent' => StartTickCount' < StartTickCount /\ answer - answer' < Second]_timeVars
=============================================================================
