---------------------------- MODULE LoopTimerProofs ----------------------------
(***************************************************************************)
(* Proofs about LoopTimer for every range of the system time and passes of *)
(* any length.  As long as no stage of a pass takes more than a tick,      *)
(* next_time is within a tick of the clock, wherever the time wraps round, *)
(* and the loop sleeps a period at most and goes on; whatever a pass       *)
(* takes, a sleep that ends finds next_time right again.                   *)
(***************************************************************************)
EXTENDS LoopTimer, TLAPS

\* Where next_time is when a pass takes any number of ticks: ahead of the clock
\* by a period, or not ahead of it, or the clock has begun again while the pass
\* ran, or the way from the test to the sleep has taken more than a tick.
Behind ==
    /\ at = "awake"  => /\ lag = 0 => now = next_time
                        /\ lag >= 1 => now >= Later(next_time) \/ now < lag - 1
    /\ at = "pass"   => /\ lag = 0 => next_time = Later(now)
                        /\ lag >= 1 => now >= next_time \/ now < lag - 1
    /\ at = "exit"   => /\ lag <= ExitTicks /\ lag <= since
                        /\ lag = 0 => Until(next_time, now) > 0
                        /\ \/ lag > 1
                           \/ Until(next_time, now) = 1 - lag
                           \/ now <= BodyTicks + lag
    /\ at = "asleep" => lag = 0 /\ left > 0
                        /\ (left = TimeSpan - 1 \/ left = Until(next_time, now))
    /\ at # "exit"   => lag <= BodyTicks

\* And while no stage has taken more than a tick: next_time is within a tick of
\* the clock, and the pass began no more than two ticks ago.
Timely ==
    ~slow =>
      /\ lag <= 1
      /\ at = "exit"   => Until(next_time, now) = 1 - lag /\ since <= 1 + lag
      /\ at = "asleep" => left = 1 /\ since <= 1
      /\ at = "awake"  => Until(now, next_time) = lag /\ since = lag
      /\ at = "pass"   => Until(next_time, now) = 1 - lag /\ since = lag
      /\ at = "late"   => since = lag

IInv == TypeOK /\ Behind /\ Timely

\* The condition of PassInterval on a step.
GapOK ==
    at # "awake" /\ at' = "awake" =>
        LET gap == since + (IF at = "asleep" THEN 1 ELSE 0)
        IN  1 <= gap /\ (slow \/ gap <= 2)

-----------------------------------------------------------------------------
\* A tick brings an earlier time one nearer and takes a later one one further.
LEMMA LaterUntil ==
    ASSUME NEW t \in Times, NEW u \in Times
    PROVE  /\ Later(t) \in Times
           /\ Until(t, u) \in Times
           /\ Until(Later(t), t) = 1
           /\ Until(t, t) = 0
           /\ Until(t, u) > 0 => Until(t, Later(u)) = Until(t, u) - 1
           /\ Until(t, u) < TimeSpan - 1 => Until(Later(t), u) = Until(t, u) + 1
           /\ Until(t, u) = 0 => t = u
           /\ Until(t, u) = 1 => t = Later(u)
  BY TimeAssumption DEF Times, Later, Until

\* A tick takes the clock past a time that it has reached, or to zero.
LEMMA LaterOrder ==
    ASSUME NEW t \in Times
    PROVE  Later(t) = t + 1 \/ Later(t) = 0
  BY TimeAssumption DEF Times, Later

\* The thread starts a period ahead of the clock.
LEMMA InitIInv ==
    Init => IInv
  <1> SUFFICES ASSUME Init PROVE IInv
    OBVIOUS
  <1>1. now \in Times /\ next_time \in Times /\ Until(next_time, now) = 1
    BY LaterUntil DEF Init
  <1>2. at = "exit" /\ lag = 0 /\ left = 0 /\ since = 0 /\ slow = FALSE
    BY DEF Init
  <1>3. TypeOK
    BY <1>1, <1>2 DEF TypeOK, Places
  <1>4. Behind
    BY <1>1, <1>2, TimeAssumption DEF Behind
  <1>5. Timely
    BY <1>1, <1>2 DEF Timely
  <1>6. QED BY <1>3, <1>4, <1>5 DEF IInv

\* Every statement and every tick keeps it so.
LEMMA NextBehind ==
    ASSUME TypeOK, Behind, [Next]_vars
    PROVE  TypeOK' /\ Behind'
  <1> USE DEF TypeOK, Behind, Places
  <1>0. slow' \in BOOLEAN
    BY DEF Next, ThreadStep, Tick, chThdSleepUntil, Advance, Check, Reset, TickAsleep,
           TickRunning, vars
  <1> USE <1>0
  <1>1. CASE chThdSleepUntil
    <2>1. now' = now /\ next_time' = next_time /\ now \in Times /\ next_time \in Times
          /\ Until(next_time, now) \in Nat /\ lag' = 0
      BY <1>1, LaterUntil DEF chThdSleepUntil, Times
    <2>2. CASE Until(next_time, now) > 0
      BY <1>1, <2>1, <2>2, TimeAssumption DEF chThdSleepUntil
    <2>3. CASE Until(next_time, now) = 0
      <3>1. now = next_time
        BY <2>1, <2>3, LaterUntil
      <3>2. QED BY <1>1, <2>1, <2>3, <3>1, TimeAssumption DEF chThdSleepUntil
    <2>4. QED BY <2>1, <2>2, <2>3
  <1>2. CASE Advance
    BY <1>2, LaterUntil DEF Advance
  <1>3. CASE Check
    <2>1. now' = now /\ next_time' = next_time /\ left' = left /\ since' = since /\ at = "pass"
          /\ now \in Nat /\ next_time \in Nat /\ lag <= BodyTicks
      BY <1>3 DEF Check, Times
    <2>2. CASE now >= next_time
      BY <1>3, <2>1, <2>2 DEF Check
    <2>3. CASE now < next_time
      <3>1. (lag = 0 => Until(next_time, now) = 1) /\ Until(next_time, now) > 0
        BY <2>1, <2>3, LaterUntil DEF Until
      <3>2. lag >= 1 => now <= BodyTicks
        BY <2>1, <2>3, TimeAssumption
      <3>3. at' = "exit" /\ lag' = 0
        BY <1>3, <2>1, <2>3 DEF Check
      <3>4. QED BY <2>1, <3>1, <3>2, <3>3, TimeAssumption
    <2>4. QED BY <2>1, <2>2, <2>3
  <1>4. CASE Reset
    BY <1>4, LaterUntil, TimeAssumption DEF Reset
  <1>5. CASE TickAsleep
    <2>1. /\ now' = Later(now) /\ next_time' = next_time /\ at = "asleep" /\ lag' = lag
          /\ now' \in Times /\ next_time \in Times
      BY <1>5, LaterUntil DEF TickAsleep
    <2>2. CASE left = TimeSpan - 1 /\ UNCHANGED <<left, since, at>>
      BY <2>1, <2>2
    <2>3. CASE left \in 2..TimeSpan - 2 /\ left' = left - 1 /\ since' = since + 1 /\ at' = at
      <3>1. left = Until(next_time, now) /\ Until(next_time, now') = left - 1
        BY <2>1, <2>3, LaterUntil, TimeAssumption
      <3>2. QED BY <2>1, <2>3, <3>1, TimeAssumption
    <2>4. CASE left = 1 /\ left' = 0 /\ since' = 0 /\ at' = "awake"
      <3>1. next_time = now'
        BY <2>1, <2>4, LaterUntil, TimeAssumption
      <3>2. QED BY <2>1, <2>4, <3>1, TimeAssumption
    <2>5. QED BY <1>5, <2>2, <2>3, <2>4 DEF TickAsleep
  <1>6. CASE TickRunning
    <2>1. /\ now \in Times /\ next_time \in Times /\ now' = Later(now) /\ next_time' = next_time
          /\ at' = at /\ left' = left /\ lag' = lag + 1 /\ since' = since + 1
          /\ now' \in Times /\ Later(next_time) \in Times
          /\ at # "exit" => lag < BodyTicks
          /\ at = "exit" => lag < ExitTicks
          /\ at # "asleep"
      BY <1>6, LaterUntil DEF TickRunning
    <2>2. now' = now + 1 \/ now' = 0
      BY <2>1, LaterOrder
    <2>3. CASE at = "exit"
      <3>1. lag = 0 /\ Until(next_time, now) = 1 => Until(next_time, now') = 0
        BY <2>1, LaterUntil
      <3>2. now <= BodyTicks + lag => now' <= BodyTicks + lag'
        BY <2>1, <2>2, TimeAssumption DEF Times
      <3>3. lag' > 0 /\ lag' <= ExitTicks /\ lag' <= since'
        BY <2>1, <2>3, TimeAssumption
      <3>4. lag' <= 1 => lag = 0 /\ lag' = 1
        BY <2>1, TimeAssumption
      <3>5. CASE lag' > 1
        BY <2>1, <2>3, <3>3, <3>5, TimeAssumption
      <3>6. CASE lag' <= 1
        BY <2>1, <2>3, <3>1, <3>2, <3>3, <3>4, <3>6, TimeAssumption
      <3>7. QED BY <2>1, <3>5, <3>6
    <2>4. CASE at = "awake" /\ lag = 0
      BY <2>1, <2>4, TimeAssumption DEF Times
    <2>5. CASE at = "awake" /\ lag >= 1
      BY <2>1, <2>2, <2>5, TimeAssumption DEF Times
    <2>6. CASE at = "pass"
      BY <2>1, <2>2, <2>6, TimeAssumption DEF Times
    <2>7. CASE at = "late"
      BY <2>1, <2>7, TimeAssumption
    <2>8. QED BY <2>1, <2>3, <2>4, <2>5, <2>6, <2>7
  <1>7. CASE UNCHANGED vars
    BY <1>7 DEF vars
  <1>8. QED
    BY <1>1, <1>2, <1>3, <1>4, <1>5, <1>6, <1>7 DEF Next, ThreadStep, Tick

\* As long as no stage takes more than a tick, next_time stays near the clock;
\* and a sleep that ends, or that is none, leaves it there whatever went before.
LEMMA NextTimely ==
    ASSUME IInv, [Next]_vars
    PROVE  Timely' /\ (Next => GapOK)
  <1> USE DEF IInv, TypeOK, Timely, GapOK, Places
  <1>1. CASE chThdSleepUntil
    <2>1. now' = now /\ next_time' = next_time /\ Until(now, now) = 0 /\ lag' = 0
      BY <1>1, LaterUntil DEF chThdSleepUntil
    <2>2. CASE Until(next_time, now) > 0
      BY <1>1, <2>1, <2>2, TimeAssumption DEF chThdSleepUntil
    <2>3. CASE Until(next_time, now) = 0
      <3>1. at = "exit" /\ at' = "awake" /\ since' = 0 /\ slow' = FALSE /\ now = next_time
        BY <1>1, <2>3, LaterUntil DEF chThdSleepUntil
      <3>2. lag # 0 /\ lag <= since
        BY <2>3, <3>1 DEF Behind
      <3>3. 1 <= since /\ (slow \/ since <= 2)
        BY <3>1, <3>2
      <3>4. QED BY <2>1, <3>1, <3>3
    <2>4. QED BY <2>2, <2>3, LaterUntil DEF Times
  <1>2. CASE Advance
    <2>1. now \in Times /\ next_time \in Times /\ next_time' = Later(next_time) /\ now' = now
      BY <1>2 DEF Advance
    <2>2. CASE lag = 0
      <3>1. now = next_time
        BY <1>2, <2>1, <2>2 DEF Advance, Behind
      <3>2. Until(next_time', now') = 1 /\ next_time' \in Times
        BY <2>1, <3>1, LaterUntil
      <3>3. QED BY <1>2, <2>1, <2>2, <3>2 DEF Advance
    <2>3. CASE lag = 1 /\ ~slow
      <3>1. now = Later(next_time)
        BY <1>2, <2>1, <2>3, LaterUntil DEF Advance
      <3>2. Until(next_time', now') = 0 /\ next_time' \in Times
        BY <2>1, <3>1, LaterUntil
      <3>3. QED BY <1>2, <2>1, <2>3, <3>2 DEF Advance
    <2>4. CASE slow
      BY <1>2, <2>4 DEF Advance
    <2>5. QED BY <1>2, <2>2, <2>3, <2>4 DEF Advance
  <1>3. CASE Check
    <2>1. now' = now /\ next_time' = next_time /\ left' = left /\ since' = since /\ at = "pass"
          /\ slow' = slow
      BY <1>3 DEF Check
    <2>2. CASE now >= next_time
      BY <1>3, <2>1, <2>2 DEF Check, Times
    <2>3. CASE now < next_time
      <3>1. ~slow => lag = 0
        BY <2>1, <2>3, LaterUntil DEF Times
      <3>2. QED BY <1>3, <2>1, <2>3, <3>1, TimeAssumption DEF Check, Times
    <2>4. QED BY <2>2, <2>3 DEF Times
  <1>4. CASE Reset
    BY <1>4, LaterUntil, TimeAssumption DEF Reset
  <1>5. CASE TickAsleep
    <2>1. now' = Later(now) /\ next_time' = next_time /\ lag' = lag /\ lag = 0 /\ at = "asleep"
      BY <1>5 DEF TickAsleep, Behind
    <2>2. CASE left = TimeSpan - 1 /\ UNCHANGED <<left, since, slow, at>>
      BY <2>1, <2>2, TimeAssumption
    <2>3. CASE left \in 2..TimeSpan - 2 /\ left' = left - 1 /\ UNCHANGED <<slow, at>>
      BY <2>1, <2>3, TimeAssumption
    <2>4. CASE left = 1 /\ left' = 0 /\ since' = 0 /\ slow' = FALSE /\ at' = "awake"
      <3>1. now' = next_time'
        BY <2>1, <2>4, LaterUntil, TimeAssumption DEF Behind
      <3>2. Until(now', next_time') = 0
        BY <2>1, <3>1, LaterUntil
      <3>3. QED BY <2>1, <2>4, <3>2
    <2>5. QED BY <1>5, <2>2, <2>3, <2>4 DEF TickAsleep
  <1>6. CASE TickRunning
    <2>1. now \in Times /\ next_time \in Times /\ now' = Later(now) /\ next_time' = next_time
          /\ at' = at /\ lag' = lag + 1 /\ since' = since + 1 /\ at # "asleep"
      BY <1>6 DEF TickRunning
    <2>2. ~slow' => ~slow /\ lag = 0 /\ lag' = 1
      <3>1. slow' = (slow \/ lag' > 1)
        BY <1>6 DEF TickRunning
      <3>2. ~slow' => ~slow /\ ~(lag' > 1)
        BY <3>1, Zenon
      <3>3. QED BY <2>1, <3>2
    <2>3. CASE slow'
      BY <2>1, <2>3
    <2>4. CASE ~slow' /\ at = "exit"
      BY <2>1, <2>2, <2>4, LaterUntil, TimeAssumption
    <2>5. CASE ~slow' /\ at \in {"awake", "pass", "late"}
      BY <2>1, <2>2, <2>5, LaterUntil, TimeAssumption
    <2>6. QED BY <2>1, <2>3, <2>4, <2>5
  <1>7. CASE UNCHANGED vars
    BY <1>7 DEF vars
  <1>8. QED
    BY <1>1, <1>2, <1>3, <1>4, <1>5, <1>6, <1>7 DEF Next, ThreadStep, Tick

\* So the whole invariant is kept.
LEMMA NextIInv ==
    ASSUME IInv, [Next]_vars
    PROVE  IInv'
  BY NextBehind, NextTimely DEF IInv

-----------------------------------------------------------------------------
\* The control thread sleeps one period at the most after a pass that was not
\* slow, for every range of the system time.
THEOREM NoOversleeping ==
    Spec => []SleepsAtMostOnePeriod
  <1>1. IInv => SleepsAtMostOnePeriod
    BY DEF IInv, TypeOK, Timely, SleepsAtMostOnePeriod
  <1>2. IInv /\ [Next]_vars => IInv'
    BY NextIInv
  <1>3. QED BY <1>1, <1>2, InitIInv, PTL DEF Spec

\* No two passes share a tick, and one that follows a pass that was not slow is
\* a tick late at the most.
THEOREM PassesKeepTheirInterval ==
    Spec => PassInterval
  <1>1. IInv /\ [Next]_vars => IInv'
    BY NextIInv
  <1>2. IInv /\ [Next]_vars => [GapOK]_vars
    BY NextTimely
  <1>3. QED BY <1>1, <1>2, InitIInv, PTL DEF Spec, PassInterval, GapOK

\* However long a pass takes and wherever the time wraps round, only a pass
\* that it wrapped round in can be followed by a sleep of more than a period,
\* if it takes a tick at most from the test to the sleep.
THEOREM OversleepingNeedsTheWrap ==
    Spec => []OnlyTheWrapOversleeps
  <1>1. IInv => OnlyTheWrapOversleeps
    BY TimeAssumption DEF IInv, TypeOK, Behind, OnlyTheWrapOversleeps, Times
  <1>2. IInv /\ [Next]_vars => IInv'
    BY NextIInv
  <1>3. QED BY <1>1, <1>2, InitIInv, PTL DEF Spec

\* The types, likewise.
THEOREM TypeCorrectness ==
    Spec => []TypeOK
  <1>1. IInv /\ [Next]_vars => IInv'
    BY NextIInv
  <1>2. QED BY <1>1, InitIInv, PTL DEF Spec, IInv
-----------------------------------------------------------------------------
\* Where the guards of the thread and of a tick that ends a sleep hold, they are
\* enabled: the prover knows nothing of ENABLED.
StepsExist ==
    /\ at \in {"exit", "awake", "pass", "late"} => ENABLED <<ThreadStep>>_vars
    /\ at = "asleep" => ENABLED <<Tick>>_vars

\* The loop goes round again and again but for a slow pass: a sleep after one
\* that was not is over with the next tick.
THEOREM LoopGoesOn ==
    FairSpec /\ []StepsExist => BriskLoopGoesOn
  <1> DEFINE At(p) == at = p
             Slow  == slow
  <1>1. IInv /\ [Next]_vars => IInv'
    BY NextIInv
  <1>2. IInv => At("exit") \/ At("asleep") \/ At("awake") \/ At("pass") \/ At("late")
    BY DEF IInv, TypeOK, Places
  <1>3. IInv /\ [Next]_vars =>
           /\ At("exit")   => At("exit")' \/ At("asleep")' \/ At("awake")'
           /\ At("asleep") => At("asleep")' \/ At("awake")'
           /\ At("pass")   => At("pass")' \/ At("late")' \/ At("exit")'
           /\ At("late")   => At("late")' \/ At("exit")'
    BY DEF Next, ThreadStep, Tick, chThdSleepUntil, Advance, Check, Reset, TickAsleep,
           TickRunning, vars
  <1>4. IInv /\ <<ThreadStep>>_vars =>
           /\ At("exit")   => At("asleep")' \/ At("awake")'
           /\ At("pass")   => At("late")' \/ At("exit")'
           /\ At("late")   => At("exit")'
    BY DEF ThreadStep, chThdSleepUntil, Advance, Check, Reset
  <1>5. IInv /\ <<Tick>>_vars => (At("asleep") /\ ~Slow => At("awake")')
    BY TimeAssumption DEF Tick, TickAsleep, TickRunning, IInv, Timely
  <1>6. StepsExist =>
           /\ At("exit") \/ At("pass") \/ At("late") => ENABLED <<ThreadStep>>_vars
           /\ At("asleep") => ENABLED <<Tick>>_vars
    BY DEF StepsExist
  <1>7. (At("awake") <=> at = "awake") /\ (Slow <=> slow)
    OBVIOUS
  <1> HIDE DEF At, Slow
  <1> QED
    BY <1>1, <1>2, <1>3, <1>4, <1>5, <1>6, <1>7, InitIInv, PTL
       DEF FairSpec, Spec, BriskLoopGoesOn
=============================================================================
