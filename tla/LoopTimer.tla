------------------------------ MODULE LoopTimer ------------------------------
(***************************************************************************)
(* The timing of the control loop, mds_update_thread_f of                  *)
(* motor_control/src/mds.c, with chThdSleepUntil of the ChibiOS kernel: a  *)
(* pass of the loop a tick, counted on a system time that wraps round.     *)
(*                                                                         *)
(* What a pass does is the matter of MDS.  Here only the time counts: a    *)
(* tick may come between any two statements, at most BodyTicks of them     *)
(* while the pass is being run and at most ExitTicks between its last look *)
(* at the clock and the next sleep.                                        *)
(***************************************************************************)
EXTENDS Integers

CONSTANTS
    TimeSpan,   \* the number of values of systime_t: 2^32 in the code
    BodyTicks,  \* the most ticks that a pass takes, prints included
    ExitTicks   \* the most ticks from the end of a pass to its sleep

ASSUME TimeAssumption ==
    /\ TimeSpan \in Nat /\ TimeSpan >= 4
    /\ BodyTicks \in Nat
    /\ ExitTicks \in Nat

Times == 0..TimeSpan - 1

\* t + MS2ST(MDS_LOOP_TIME_MS) and t - u, as systime_t computes them:
\* a period of the loop is a single tick of the kernel (CH_FREQUENCY 1000).
Later(t)     == IF t = TimeSpan - 1 THEN 0 ELSE t + 1
Until(t, u)  == IF t >= u THEN t - u ELSE t - u + TimeSpan

VARIABLES
    now,        \* the system time, chTimeNow()
    next_time,  \* the local variable next_time
    at,         \* where the control thread is
    left,       \* the ticks left of its sleep
    lag,        \* the ticks that this stage of the pass has taken
    since,      \* history: the ticks since the last pass began
    slow        \* history: a stage since then has taken more than a tick

vars == <<now, next_time, at, left, lag, since, slow>>

\* "exit": about to call chThdSleepUntil; "asleep": in it; "awake": back from
\* it; "pass": next_time moved on, the pass being run; "late": found late, the
\* clock to be read again.
Places == {"exit", "asleep", "awake", "pass", "late"}

-----------------------------------------------------------------------------
\* The thread is created at any time and records its first next_time.
Init ==
    /\ now \in Times
    /\ next_time = Later(now)
    /\ at = "exit"
    /\ left = 0
    /\ lag = 0
    /\ since = 0
    /\ slow = FALSE

\* Mutant: the comparison of the two times by their order.
chThdSleepUntil_ByOrder ==
    /\ at = "exit"
    /\ \/ /\ next_time > now
          /\ at' = "asleep"
          /\ left' = Until(next_time, now)
          /\ UNCHANGED <<since, slow>>
       \/ /\ next_time <= now
          /\ at' = "awake"
          /\ since' = 0
          /\ slow' = FALSE
          /\ UNCHANGED left
    /\ lag' = 0
    /\ UNCHANGED <<now, next_time>>

\* chThdSleepUntil(next_time): the unsigned difference is the time to sleep,
\* and there is none if it is zero.
chThdSleepUntil ==
    /\ at = "exit"
    /\ \/ /\ Until(next_time, now) > 0
          /\ at' = "asleep"
          /\ left' = Until(next_time, now)
          /\ UNCHANGED <<since, slow>>
       \/ /\ Until(next_time, now) = 0
          /\ at' = "awake"
          /\ since' = 0
          /\ slow' = FALSE
          /\ UNCHANGED left
    /\ lag' = 0
    /\ UNCHANGED <<now, next_time>>

\* next_time += MS2ST(MDS_LOOP_TIME_MS)
Advance ==
    /\ at = "awake"
    /\ next_time' = Later(next_time)
    /\ at' = "pass"
    /\ UNCHANGED <<now, left, lag, since, slow>>

\* Mutant: "chTimeNow() > next_time" for ">=".
Check_Strict ==
    /\ at = "pass"
    /\ at' = IF now > next_time THEN "late" ELSE "exit"
    /\ lag' = IF now > next_time THEN lag ELSE 0
    /\ UNCHANGED <<now, next_time, left, since, slow>>

\* "Don't sleep forever!": is it next_time already?
Check ==
    /\ at = "pass"
    /\ \/ now >= next_time /\ at' = "late" /\ UNCHANGED lag
       \/ now < next_time  /\ at' = "exit" /\ lag' = 0
    /\ UNCHANGED <<now, next_time, left, since, slow>>

\* next_time = chTimeNow() + MS2ST(MDS_LOOP_TIME_MS)
Reset ==
    /\ at = "late"
    /\ next_time' = Later(now)
    /\ at' = "exit"
    /\ lag' = 0
    /\ UNCHANGED <<now, left, since, slow>>

\* The tick of the kernel while the thread sleeps: its last one wakes it.  A
\* sleep of TIME_INFINITE, the greatest systime_t, has no last one.
TickAsleep ==
    /\ at = "asleep"
    /\ now' = Later(now)
    /\ \/ left = TimeSpan - 1 /\ UNCHANGED <<left, since, slow, at>>
       \/ left \in 2..TimeSpan - 2 /\ left' = left - 1 /\ since' = since + 1
          /\ UNCHANGED <<slow, at>>
       \/ left = 1 /\ left' = 0 /\ since' = 0 /\ slow' = FALSE /\ at' = "awake"
    /\ UNCHANGED <<next_time, lag>>

\* The tick of the kernel while the thread runs.
TickRunning ==
    /\ \/ at \in {"awake", "pass", "late"} /\ lag < BodyTicks
       \/ at = "exit" /\ lag < ExitTicks
    /\ now' = Later(now)
    /\ lag' = lag + 1
    /\ since' = since + 1
    /\ slow' = (slow \/ lag' > 1)
    /\ UNCHANGED <<next_time, at, left>>

ThreadStep == chThdSleepUntil \/ Advance \/ Check \/ Reset
Tick       == TickAsleep \/ TickRunning

Next == ThreadStep \/ Tick

Spec == Init /\ [][Next]_vars

\* The kernel ticks, and the thread, of the highest priority, is never kept
\* from the processor.
FairSpec == Spec /\ WF_vars(ThreadStep) /\ WF_vars(Tick)

-----------------------------------------------------------------------------
\* The types of the variables.
TypeOK ==
    /\ now \in Times /\ next_time \in Times
    /\ at \in Places
    /\ left \in Nat /\ lag \in Nat /\ since \in Nat
    /\ slow \in BOOLEAN

\* A sleep of the control thread is one period of its loop at the most, wherever
\* the system time wraps round, if neither the pass before it nor the way from
\* there to the sleep has taken more than a tick.
SleepsAtMostOnePeriod == at = "asleep" /\ ~slow => left <= 1

\* No two passes begin in the same tick, whatever they take; and the next one
\* is a tick late at the most if no stage of the last has taken more than one.
PassInterval ==
    [][at # "awake" /\ at' = "awake" =>
          LET gap == since + (IF at = "asleep" THEN 1 ELSE 0)
          IN  1 <= gap /\ (slow \/ gap <= 2)]_vars

\* mds.c:754, "Don't sleep forever!": the loop runs again and again.
NeverSleepsForever == []<>(at = "awake")

\* That much of it is so: the loop runs again and again but for a pass of which
\* a stage takes more than a tick.
BriskLoopGoesOn == []<>(at = "awake" \/ slow)

\* However long a pass takes, only one that the system time wrapped round in
\* can be followed by a sleep of more than a period, if it does not take more
\* than a tick from the test to the sleep: everywhere else the test at the end
\* of the pass puts next_time right.
OnlyTheWrapOversleeps ==
    at = "exit" /\ lag <= 1 /\ Until(next_time, now) > 1 => now <= BodyTicks + ExitTicks
=============================================================================
