------------------------------ MODULE MDSProofs ------------------------------
(***************************************************************************)
(* Proofs about MDS, for all axes, counts, safety zones, targets, loop     *)
(* parameters and for both builds.  The inductive invariant has four       *)
(* parts: the types, the lock, the modes, the calibration.  From it follow *)
(* the safety properties, and that MDS implements MalletDrive; and, where  *)
(* a thread with a step to make can make it, that each of main and the     *)
(* control thread gets its turn.                                           *)
(***************************************************************************)
EXTENDS MDS, TLAPS

\* The types of what the lock is made of.
KernelOK == sem \in -1..1 /\ queue \in Seq(Threads) /\ pc \in [Threads -> Places]

\* The states of the lock.  Nobody has it before mds_init; then it is free,
\* or one thread is inside and the other is outside or the only one waiting.
LockInv ==
    /\ pc["main"] \in {"none", "idle", "between", "waiting", "locked", "unlock"}
    /\ pc["control"] \in {"none", "idle", "waiting", "locked", "printing", "unlock"}
    /\ pc["control"] = "none" <=> pc["main"] = "none"
    /\ \/ /\ pc["main"] = "none"
          /\ sem = 0 /\ queue = << >>
       \/ /\ pc["main"] \in {"idle", "between"} /\ pc["control"] = "idle"
          /\ sem = 1 /\ queue = << >>
       \/ /\ Holds("main") /\ pc["control"] = "idle"
          /\ sem = 0 /\ queue = << >>
       \/ /\ pc["main"] \in {"idle", "between"} /\ Holds("control")
          /\ sem = 0 /\ queue = << >>
       \/ /\ Holds("main") /\ pc["control"] = "waiting"
          /\ sem = -1 /\ queue = <<"control">>
       \/ /\ pc["main"] = "waiting" /\ Holds("control")
          /\ sem = -1 /\ queue = <<"main">>

\* What each mode goes with.  From the mds_stop that starts a calibration to
\* the section that begins it, the driver stays off.
ModeInv ==
    /\ pc["main"] = "none" => mode = "UNINIT" /\ section = "mds_init"
    /\ mode = "ON" => is_calibrated
    /\ mode = "CALIBRATING" => ~is_calibrated
    /\ (\E a \in Axes : en[a]) => mode = "ON"
    /\ section = "mds_init" => pc["main"] \in {"none", "unlock", "idle"}
    /\ pc["main"] = "between" => section = "mds_start_calibration.mds_stop"
    /\ section = "mds_start_calibration.mds_stop" /\ pc["main"] \in {"unlock", "between"}
          => mode = "OFF"
    /\ section = "mds_start_calibration" /\ pc["main"] \in {"waiting", "locked"}
          => mode = "OFF"

IInv ==
    /\ TypeOK
    /\ LockInv
    /\ ModeInv
    /\ CalibrationIsExact
    /\ PlayfieldInsideTravel
    /\ SetpointInPlayfield
    /\ CalibrationStartsFresh

-----------------------------------------------------------------------------
\* Every reading gives each axis an integer.
LEMMA ReadingsAreIntegers ==
    \A c \in Readings : c \in [Axes -> Int] /\ \A a \in Axes : c[a] \in Int
  BY CountAssumption DEF Readings

\* Zero is a reading.
LEMMA ZeroIsReading == Zero \in Readings
  BY CountAssumption DEF Readings, Zero

\* chSemWait takes the lock states to lock states when the thread was outside.
LEMMA SemWaitKeepsLock ==
    ASSUME KernelOK, LockInv, NEW t \in Threads, SemWait(t),
           \/ t = "main" /\ pc[t] \in {"idle", "between"}
           \/ t = "control" /\ pc[t] = "idle"
    PROVE  LockInv' /\ KernelOK'
  <1>1. CASE sem > 0
    <2>1. sem = 1 /\ queue = << >> /\ pc["main"] \in {"idle", "between"} /\ pc["control"] = "idle"
      BY <1>1 DEF LockInv
    <2>2. pc' = [pc EXCEPT ![t] = "locked"] /\ sem' = 0 /\ queue' = << >>
      BY <1>1, <2>1 DEF SemWait
    <2>3. QED BY <2>1, <2>2 DEF KernelOK, LockInv, Threads, Places, Holds
  <1>2. CASE sem <= 0
    <2>1. sem = 0 /\ queue = << >> /\ \E u \in Threads \ {t} : Holds(u)
      BY <1>2 DEF KernelOK, LockInv, Threads, Holds
    <2>2. pc' = [pc EXCEPT ![t] = "waiting"] /\ sem' = -1 /\ queue' = Append(<< >>, t)
      BY <1>2, <2>1 DEF SemWait
    <2>3. queue' = <<t>>
      BY <2>2
    <2>4. QED BY <2>1, <2>2, <2>3 DEF KernelOK, LockInv, Threads, Places, Holds
  <1>3. QED BY <1>1, <1>2 DEF KernelOK

\* chSemSignal does so when the thread was inside.
LEMMA SemSignalKeepsLock ==
    ASSUME KernelOK, LockInv, NEW t \in Threads, NEW p, SemSignal(t, p),
           pc[t] = "unlock",
           \/ t = "main" /\ p \in {"idle", "between"}
           \/ t = "control" /\ p = "idle"
    PROVE  LockInv' /\ KernelOK'
  <1>1. CASE t = "main"
    BY <1>1 DEF KernelOK, LockInv, SemSignal, Threads, Places, Holds
  <1>2. CASE t = "control"
    BY <1>2 DEF KernelOK, LockInv, SemSignal, Threads, Places, Holds
  <1>3. QED BY <1>1, <1>2 DEF Threads

\* A thread that is inside stays inside until it signals.
LEMMA InsideKeepsLock ==
    ASSUME KernelOK, LockInv, NEW t \in Threads, Holds(t),
           NEW p \in {"unlock", "printing"}, t = "main" => p = "unlock",
           pc' = [pc EXCEPT ![t] = p], UNCHANGED <<sem, queue>>
    PROVE  LockInv' /\ KernelOK'
  <1>1. CASE t = "main"
    BY <1>1 DEF KernelOK, LockInv, Threads, Places, Holds
  <1>2. CASE t = "control"
    BY <1>2 DEF KernelOK, LockInv, Threads, Places, Holds
  <1>3. QED BY <1>1, <1>2 DEF Threads

\* The lock part of the invariant holds after every step.
LEMMA LockStep ==
    ASSUME KernelOK, LockInv, [Next]_vars
    PROVE  LockInv' /\ KernelOK'
  <1>1. CASE mds_init
    BY <1>1 DEF KernelOK, LockInv, mds_init, Threads, Places, Holds
  <1>2. CASE Call \/ CallAgain
    BY <1>2, SemWaitKeepsLock DEF Call, CallAgain, Threads
  <1>3. CASE Wake
    BY <1>3, SemWaitKeepsLock DEF Wake, Threads
  <1>4. CASE Return
    BY <1>4, SemSignalKeepsLock DEF Return, Threads
  <1>5. CASE Unlock
    BY <1>5, SemSignalKeepsLock DEF Unlock, Threads
  <1>6. CASE Body
    <2>1. Holds("main") /\ pc' = [pc EXCEPT !["main"] = "unlock"] /\ UNCHANGED <<sem, queue>>
      BY <1>6 DEF Body, mds_set_pid, mds_stop, mds_start_calibration, mds_stop_calibration,
                  mds_start, mds_set_location, Executes, Holds
    <2>2. QED BY <2>1, InsideKeepsLock DEF Threads
  <1>7. CASE Update \/ Printed
    <2>1. PICK p \in {"unlock", "printing"} :
             Holds("control") /\ pc' = [pc EXCEPT !["control"] = p] /\ UNCHANGED <<sem, queue>>
      BY <1>7 DEF Update, UpdateOn, UpdateCalibrating, UpdateOff, Sample, Printed, Holds
    <2>2. QED BY <2>1, InsideKeepsLock DEF Threads
  <1>8. CASE UNCHANGED vars
    BY <1>8 DEF KernelOK, LockInv, vars, kernel, Holds
  <1>9. QED
    BY <1>1, <1>2, <1>3, <1>4, <1>5, <1>6, <1>7, <1>8 DEF Next, MainProceeds, ControlStep

\* The main thread does nothing while the control thread is inside, and the
\* control thread has no part in where main is or what it calls.
LEMMA ControlLeavesMain ==
    ASSUME KernelOK, LockInv, ControlStep
    PROVE  /\ UNCHANGED <<section, mode, is_calibrated>>
           /\ \/ pc'["main"] = pc["main"]
              \/ pc["main"] = "waiting" /\ pc'["main"] = "locked"
  <1>1. CASE Wake
    BY <1>1 DEF Wake, SemWait, KernelOK, Threads, field
  <1>2. CASE Update \/ Printed
    BY <1>2 DEF Update, UpdateOn, UpdateCalibrating, UpdateOff, Sample, Printed,
                KernelOK, Threads, field
  <1>3. CASE Unlock
    BY <1>3 DEF Unlock, SemSignal, LockInv, KernelOK, Threads, Holds, field
  <1>4. QED BY <1>1, <1>2, <1>3 DEF ControlStep

\* The mode part of the invariant holds after every step.
LEMMA ModeStep ==
    ASSUME KernelOK, LockInv, ModeInv, [Next]_vars
    PROVE  ModeInv'
  <1> USE DEF ModeInv
  <1>1. CASE mds_init
    BY <1>1 DEF mds_init, LockInv, KernelOK, field, OutputsOff
  <1>2. CASE Call
    <2>1. /\ pc["main"] = "idle" /\ pc'["main"] \in {"locked", "waiting"}
          /\ section' \in Calls /\ UNCHANGED <<mode, is_calibrated, en>>
      BY <1>2 DEF Call, SemWait, KernelOK, Threads, field
    <2>2. section' \notin {"mds_init", "mds_start_calibration"}
      BY <2>1 DEF Calls
    <2>3. QED BY <2>1, <2>2
  <1>3. CASE CallAgain
    <2>1. /\ pc["main"] = "between" /\ pc'["main"] \in {"locked", "waiting"}
          /\ section' = "mds_start_calibration" /\ UNCHANGED <<mode, is_calibrated, en>>
      BY <1>3 DEF CallAgain, SemWait, KernelOK, Threads, field
    <2>2. QED BY <2>1
  <1>4. CASE Return
    <2>1. /\ pc["main"] = "unlock" /\ UNCHANGED <<section, mode, is_calibrated, en>>
          /\ pc'["main"] = IF section = "mds_start_calibration.mds_stop"
                           THEN "between" ELSE "idle"
      BY <1>4 DEF Return, SemSignal, KernelOK, LockInv, Threads, Holds, field
    <2>2. QED BY <2>1
  <1>5. CASE Body
    <2>1. pc["main"] = "locked" /\ pc'["main"] = "unlock" /\ UNCHANGED section
      BY <1>5 DEF Body, mds_set_pid, mds_stop, mds_start_calibration, mds_stop_calibration,
                  mds_start, mds_set_location, Executes, KernelOK, Threads
    <2>2. CASE mds_set_pid \/ mds_set_location
      BY <2>1, <2>2 DEF mds_set_pid, mds_set_location, Executes, field
    <2>3. CASE mds_stop
      BY <2>1, <2>3 DEF mds_stop, Executes, OutputsOff, field
    <2>4. CASE mds_start_calibration
      BY <2>1, <2>4 DEF mds_start_calibration, Executes
    <2>5. CASE mds_stop_calibration
      BY <2>1, <2>5 DEF mds_stop_calibration, Executes, field
    <2>6. CASE mds_start
      BY <2>1, <2>6 DEF mds_start, Executes, field
    <2>7. QED BY <1>5, <2>2, <2>3, <2>4, <2>5, <2>6 DEF Body
  <1>6. CASE ControlStep
    <2>1. \A a \in Axes : en'[a] => en[a] \/ mode = "ON"
      BY <1>6 DEF ControlStep, Wake, Update, UpdateOn, UpdateCalibrating, UpdateOff,
                  Printed, Unlock, OutputsOff
    <2>2. pc["main"] # "none"
      BY <1>6 DEF ControlStep, Wake, Update, UpdateOn, UpdateCalibrating, UpdateOff, Sample,
                  Printed, Unlock, LockInv
    <2>3. QED BY <1>6, <2>1, <2>2, ControlLeavesMain
  <1>7. CASE UNCHANGED vars
    BY <1>7 DEF vars, kernel, field
  <1>8. QED
    BY <1>1, <1>2, <1>3, <1>4, <1>5, <1>6, <1>7 DEF Next, MainProceeds

\* The types hold after every step.
LEMMA TypeStep ==
    ASSUME TypeOK, LockInv, [Next]_vars
    PROVE  TypeOK'
  <1>1. KernelOK'
    BY LockStep DEF TypeOK, KernelOK
  <1> DEFINE Lengths == {setpoint, lower, upper} \subseteq [Axes -> Int]
             Reads   == {count, offset, cal_max, cal_min} \subseteq Readings
             Rest    == /\ mode \in Modes /\ is_calibrated \in BOOLEAN
                        /\ gains \in [Axes -> Gains] /\ en \in [Axes -> BOOLEAN]
                        /\ section \in Sections /\ err \in Errors
                        /\ reported \in [Axes -> [lower : Int, upper : Int]]
                        /\ seen \in [Axes -> SUBSET Int] /\ commanded \in BOOLEAN
  <1>2. Lengths /\ Reads /\ Rest
    BY DEF TypeOK
  <1>3. ASSUME Lengths', Reads', Rest' PROVE TypeOK'
    BY <1>1, <1>3 DEF TypeOK, KernelOK
  <1> HIDE DEF Lengths, Reads, Rest
  <1>4. CASE mds_init \/ Call \/ CallAgain \/ Return \/ Wake \/ Printed \/ Unlock \/ UNCHANGED vars
    <2>1. /\ UNCHANGED <<setpoint, lower, upper, count, offset, cal_max, cal_min, is_calibrated,
                        gains, err, reported, seen, commanded>>
          /\ mode' \in {mode, "OFF"} /\ en' \in {en, [a \in Axes |-> FALSE]}
          /\ section' \in {section, "mds_start_calibration"} \cup Calls
      BY <1>4 DEF mds_init, Call, CallAgain, Return, Wake, Printed, Unlock, vars, field, travel,
                  command, OutputsOff
    <2>2. Lengths' /\ Reads'
      BY <1>2, <2>1 DEF Lengths, Reads
    <2>3. Rest'
      BY <1>2, <2>1 DEF Rest, Calls, Sections, Modes
    <2>4. QED BY <1>3, <2>2, <2>3
  <1>5. CASE mds_set_pid
    <2>1. gains' \in [Axes -> Gains] /\ err' \in Errors
      BY <1>2, <1>5 DEF mds_set_pid, Errors, Rest
    <2>2. QED
      BY <1>2, <1>3, <1>5, <2>1 DEF mds_set_pid, Executes, field, travel, command, Lengths, Reads, Rest
  <1>6. CASE mds_stop
    BY <1>2, <1>3, <1>6 DEF mds_stop, Executes, OutputsOff, field, travel, command, Lengths, Reads, Rest,
                            Errors, Modes
  <1>7. CASE mds_start_calibration
    <2>1. seen' \in [Axes -> SUBSET Int]
      BY <1>2, <1>7, ReadingsAreIntegers DEF mds_start_calibration, travel, Reads, Rest
    <2>2. QED
      BY <1>2, <1>3, <1>7, <2>1 DEF mds_start_calibration, Executes, travel, command, Lengths, Reads,
                                    Rest, Errors, Modes
  <1>8. CASE mds_stop_calibration
    <2>1. \A a \in Axes : cal_max[a] \in Int /\ cal_min[a] \in Int /\ Safety[a] \in Int
      BY <1>2, ReadingsAreIntegers, ParameterAssumption DEF Reads
    <2>2. lower' \in [Axes -> Int] /\ upper' \in [Axes -> Int]
          /\ reported' \in [Axes -> [lower : Int, upper : Int]]
      <3>1. [a \in Axes |-> cal_max[a] - cal_min[a] - Safety[a]] \in [Axes -> Int]
        BY <2>1
      <3>2. [a \in Axes |-> [lower |-> 0, upper |-> cal_max[a] - cal_min[a]]]
               \in [Axes -> [lower : Int, upper : Int]]
        BY <2>1
      <3>3. [a \in Axes |-> [lower |-> 0, upper |-> 0]] \in [Axes -> [lower : Int, upper : Int]]
        OBVIOUS
      <3>4. Safety \in [Axes -> Int]
        BY ParameterAssumption
      <3>5. /\ lower' \in {lower, Safety}
            /\ upper' \in {upper, [a \in Axes |-> cal_max[a] - cal_min[a] - Safety[a]]}
            /\ reported' \in {[a \in Axes |-> [lower |-> 0, upper |-> cal_max[a] - cal_min[a]]],
                             [a \in Axes |-> [lower |-> 0, upper |-> 0]]}
        BY <1>8 DEF mds_stop_calibration, field
      <3>6. QED BY <1>2, <3>1, <3>2, <3>3, <3>4, <3>5 DEF Lengths
    <2>3. QED
      BY <1>2, <1>3, <1>8, <2>2 DEF mds_stop_calibration, Executes, field, travel, command, Lengths,
                                    Reads, Rest, Errors, Modes
  <1>9. CASE mds_start
    <2>1. setpoint' \in [Axes -> Int]
      BY <1>2, <1>9, ReadingsAreIntegers DEF mds_start, Location, Lengths, Reads, command
    <2>2. QED
      BY <1>2, <1>3, <1>9, <2>1 DEF mds_start, Executes, field, travel, command, Lengths, Reads, Rest,
                                    Errors, Modes
  <1>10. CASE mds_set_location
    <2>1. setpoint' \in [Axes -> Int]
      BY <1>2, <1>10, ParameterAssumption DEF mds_set_location, Limited, Lengths, command
    <2>2. QED
      BY <1>2, <1>3, <1>10, <2>1 DEF mds_set_location, Executes, field, travel, command, Lengths, Reads,
                                     Rest, Errors, Modes
  <1>11. CASE Update
    <2>1. count' \in Readings /\ en' \in [Axes -> BOOLEAN]
      BY <1>11 DEF Update, UpdateOn, UpdateCalibrating, UpdateOff, Sample, OutputsOff
    <2>2. CASE UNCHANGED travel
      BY <1>2, <1>3, <1>11, <2>1, <2>2 DEF Update, field, travel, command, Lengths, Reads, Rest
    <2>3. CASE UpdateCalibrating
      <3>1. cal_max' \in Readings /\ cal_min' \in Readings
        BY <1>2, <2>1, <2>3 DEF UpdateCalibrating, NewMax, NewMin, Reads, Readings
      <3>2. seen' \in [Axes -> SUBSET Int]
        BY <1>2, <2>1, <2>3, ReadingsAreIntegers DEF UpdateCalibrating, Rest
      <3>3. QED
        BY <1>2, <1>3, <1>11, <2>1, <3>1, <3>2 DEF Update, field, command, Lengths, Reads, Rest
    <2>4. QED BY <1>11, <2>2, <2>3 DEF Update, UpdateOn, UpdateOff
  <1>12. QED
    BY <1>4, <1>5, <1>6, <1>7, <1>8, <1>9, <1>10, <1>11 DEF Next, MainProceeds, Body, ControlStep
-----------------------------------------------------------------------------
\* Every step but three leaves the record of the travel alone.
LEMMA TravelStep ==
    ASSUME [Next]_vars, ~UpdateCalibrating, ~mds_start_calibration
    PROVE  UNCHANGED travel
  BY DEF Next, MainProceeds, Body, ControlStep, mds_init, Call, CallAgain, Return, Wake, Update,
         UpdateOn, UpdateOff, Printed, Unlock, mds_set_pid, mds_stop, mds_stop_calibration,
         mds_start, mds_set_location, vars

\* A calibration is entered by mds_start_calibration alone.
LEMMA CalibratingStep ==
    ASSUME [Next]_vars, mode' = "CALIBRATING", ~mds_start_calibration
    PROVE  mode = "CALIBRATING"
  BY DEF Next, MainProceeds, Body, ControlStep, mds_init, Call, CallAgain, Return, Wake, Update,
         Printed, Unlock, mds_set_pid, mds_stop, mds_stop_calibration, mds_start,
         mds_set_location, vars

\* The extremes stay exact: the test for a minimum may be skipped for a new
\* maximum because the maximum is never below the minimum.
LEMMA ExactStep ==
    ASSUME TypeOK, CalibrationIsExact, [Next]_vars
    PROVE  CalibrationIsExact'
  <1>1. CASE mds_start_calibration
    <2>1. CASE mode # "CALIBRATING"
      <3>1. \A a \in Axes : count[a] \in Int
        BY ReadingsAreIntegers DEF TypeOK
      <3>2. cal_min' = count /\ cal_max' = count /\ seen' = [a \in Axes |-> {count[a]}]
        BY <1>1, <2>1 DEF mds_start_calibration
      <3>3. QED BY <3>1, <3>2 DEF CalibrationIsExact
    <2>2. CASE mode = "CALIBRATING"
      BY <1>1, <2>2 DEF mds_start_calibration, CalibrationIsExact, travel
    <2>3. QED BY <2>1, <2>2
  <1>2. CASE UpdateCalibrating
    <2> SUFFICES ASSUME NEW a \in Axes
                 PROVE  /\ {cal_min'[a], cal_max'[a]} \subseteq seen'[a]
                        /\ \A c \in seen'[a] : cal_min'[a] <= c /\ c <= cal_max'[a]
      BY DEF CalibrationIsExact
    <2>1. /\ cal_min[a] \in seen[a] /\ cal_max[a] \in seen[a]
          /\ \A c \in seen[a] : c \in Int /\ cal_min[a] <= c /\ c <= cal_max[a]
          /\ cal_min[a] \in Int /\ cal_max[a] \in Int
      BY <1>2, ReadingsAreIntegers DEF UpdateCalibrating, CalibrationIsExact, TypeOK
    <2>2. count'[a] \in Int
      BY <1>2, ReadingsAreIntegers DEF UpdateCalibrating, Sample
    <2>3. /\ cal_max'[a] = IF count'[a] > cal_max[a] THEN count'[a] ELSE cal_max[a]
          /\ cal_min'[a] = IF count'[a] <= cal_max[a] /\ count'[a] < cal_min[a]
                           THEN count'[a] ELSE cal_min[a]
          /\ seen'[a] = seen[a] \cup {count'[a]}
      BY <1>2 DEF UpdateCalibrating, NewMax, NewMin
    <2>4. QED BY <2>1, <2>2, <2>3
  <1>3. CASE ~mds_start_calibration /\ ~UpdateCalibrating
    BY <1>3, TravelStep, CalibratingStep DEF CalibrationIsExact, travel
  <1>4. QED BY <1>1, <1>2, <1>3

\* The play field is made from an exact travel by mds_stop_calibration, and
\* neither changes before mds_start_calibration forgets them both.
LEMMA PlayfieldStep ==
    ASSUME TypeOK, ModeInv, CalibrationIsExact, PlayfieldInsideTravel, [Next]_vars
    PROVE  PlayfieldInsideTravel'
  <1>1. CASE mds_stop_calibration /\ mode = "CALIBRATING" /\ WideEnough
    <2> SUFFICES ASSUME NEW a \in Axes
                 PROVE  /\ lower'[a] <= upper'[a]
                        /\ \E c \in seen'[a] : c + Safety[a] <= lower'[a] + offset'[a]
                        /\ \E c \in seen'[a] : upper'[a] + offset'[a] + Safety[a] <= c
      BY DEF PlayfieldInsideTravel
    <2>1. cal_min[a] \in Int /\ cal_max[a] \in Int /\ Safety[a] \in Int
      BY ReadingsAreIntegers, ParameterAssumption DEF TypeOK
    <2>2. cal_min[a] \in seen[a] /\ cal_max[a] \in seen[a]
      BY <1>1 DEF CalibrationIsExact
    <2>3. cal_max[a] - cal_min[a] >= 2 * Safety[a]
      BY <1>1 DEF WideEnough
    <2>4. /\ lower'[a] = Safety[a] /\ upper'[a] = cal_max[a] - cal_min[a] - Safety[a]
          /\ offset'[a] = cal_min[a] /\ seen' = seen
      BY <1>1 DEF mds_stop_calibration, travel
    <2>5. QED BY <2>1, <2>2, <2>3, <2>4
  <1>2. CASE mds_stop_calibration /\ ~(mode = "CALIBRATING" /\ WideEnough)
    <2>1. ~is_calibrated' \/ UNCHANGED <<field, seen>>
      BY <1>2 DEF mds_stop_calibration, ModeInv, travel
    <2>2. QED BY <2>1 DEF PlayfieldInsideTravel, field
  <1>3. CASE mds_start_calibration
    BY <1>3 DEF mds_start_calibration, ModeInv, PlayfieldInsideTravel
  <1>4. CASE ~mds_stop_calibration /\ ~mds_start_calibration
    <2>1. UNCHANGED field
      BY <1>4 DEF Next, MainProceeds, Body, ControlStep, mds_init, Call, CallAgain, Return, Wake,
                  Update, Printed, Unlock, mds_set_pid, mds_stop, mds_start, mds_set_location, vars
    <2>2. CASE UpdateCalibrating
      BY <2>1, <2>2 DEF UpdateCalibrating, ModeInv, PlayfieldInsideTravel, field
    <2>3. CASE ~UpdateCalibrating
      BY <1>4, <2>1, <2>3, TravelStep DEF PlayfieldInsideTravel, field, travel
    <2>4. QED BY <2>2, <2>3
  <1>5. QED BY <1>1, <1>2, <1>3, <1>4

\* mds_set_location brings every target into the play field, which is not
\* empty; mds_start forgets that a location was ever asked for.
LEMMA SetpointStep ==
    ASSUME TypeOK, ModeInv, PlayfieldInsideTravel, SetpointInPlayfield, [Next]_vars
    PROVE  SetpointInPlayfield'
  <1>1. CASE mds_set_location /\ mode = "ON"
    <2> SUFFICES ASSUME NEW a \in Axes
                 PROVE  lower'[a] <= setpoint'[a] /\ setpoint'[a] <= upper'[a]
      BY DEF SetpointInPlayfield
    <2>1. lower[a] <= upper[a]
      BY <1>1 DEF PlayfieldInsideTravel, ModeInv
    <2>2. PICK v \in Targets : setpoint'[a] = Limited(v, a)
      BY <1>1 DEF mds_set_location
    <2>3. UNCHANGED <<lower, upper>> /\ lower[a] \in Int /\ upper[a] \in Int /\ v \in Int
      BY <1>1, ParameterAssumption DEF mds_set_location, field, TypeOK
    <2>4. QED BY <2>1, <2>2, <2>3 DEF Limited
  <1>2. CASE ~(mds_set_location /\ mode = "ON")
    <2>1. mode' = "ON" /\ commanded' =>
             mode = "ON" /\ commanded /\ UNCHANGED <<setpoint, lower, upper>>
      BY <1>2 DEF Next, MainProceeds, Body, ControlStep, mds_init, Call, CallAgain, Return, Wake,
                  Update, Printed, Unlock, mds_set_pid, mds_stop, mds_start_calibration,
                  mds_stop_calibration, mds_start, mds_set_location, vars, field, command
    <2>2. QED BY <2>1 DEF SetpointInPlayfield
  <1>3. QED BY <1>1, <1>2

\* The control thread cannot sample before mds_start_calibration is over.
LEMMA FreshStep ==
    ASSUME TypeOK, LockInv, ModeInv, CalibrationStartsFresh, [Next]_vars
    PROVE  CalibrationStartsFresh'
  <1> DEFINE Ending == pc["main"] = "unlock" /\ section = "mds_start_calibration"
  <1> SUFFICES ASSUME Ending'
               PROVE  /\ mode' = "CALIBRATING" /\ ~is_calibrated'
                      /\ cal_min' = count' /\ cal_max' = count'
                      /\ \A a \in Axes : ~en'[a]
    BY DEF CalibrationStartsFresh
  <1>1. CASE mds_start_calibration
    <2>1. mode = "OFF" /\ \A a \in Axes : ~en[a]
      BY <1>1 DEF mds_start_calibration, Executes, ModeInv
    <2>2. QED BY <1>1, <2>1 DEF mds_start_calibration
  <1>2. CASE Wake \/ UNCHANGED vars
    <2>1. Ending
      BY <1>2 DEF Wake, SemWait, TypeOK, Threads, vars, kernel
    <2>2. QED BY <1>2, <2>1 DEF CalibrationStartsFresh, Wake, vars, field, travel
  <1>3. CASE Update \/ Printed \/ Unlock
    <2>1. pc["control"] \in {"locked", "printing", "unlock"}
      BY <1>3 DEF Update, UpdateOn, UpdateCalibrating, UpdateOff, Sample, Printed, Unlock
    <2>2. pc["main"] # "unlock"
      BY <2>1 DEF LockInv, Holds
    <2>3. QED BY <1>3, <2>2, ControlLeavesMain DEF ControlStep, TypeOK, KernelOK
  <1>4. CASE mds_init \/ Call \/ CallAgain \/ Return
    <2>1. section' # "mds_start_calibration" \/ pc'["main"] # "unlock"
      BY <1>4 DEF mds_init, Call, CallAgain, Return, SemWait, SemSignal, ModeInv, Calls, TypeOK,
                  LockInv, Holds, Threads
    <2>2. QED BY <2>1
  <1>5. CASE Body /\ ~mds_start_calibration
    BY <1>5 DEF Body, mds_set_pid, mds_stop, mds_stop_calibration, mds_start, mds_set_location,
                Executes
  <1>6. QED
    BY <1>1, <1>2, <1>3, <1>4, <1>5 DEF Next, MainProceeds, ControlStep

-----------------------------------------------------------------------------
\* The program starts in the invariant.
LEMMA InitIInv ==
    Init => IInv
  <1> SUFFICES ASSUME Init PROVE IInv
    OBVIOUS
  <1>1. TypeOK
    <2>1. setpoint = Zero /\ Zero \in Readings /\ Zero \in [Axes -> Int]
      BY ZeroIsReading DEF Init, Zero
    <2>2. [a \in Axes |-> [lower |-> 0, upper |-> 0]] \in [Axes -> [lower : Int, upper : Int]]
      OBVIOUS
    <2>3. [t \in Threads |-> "none"] \in [Threads -> Places] /\ << >> \in Seq(Threads)
      BY DEF Places
    <2>4. /\ {setpoint, lower, upper} \subseteq [Axes -> Int]
          /\ {count, offset, cal_max, cal_min} \subseteq Readings
          /\ reported \in [Axes -> [lower : Int, upper : Int]]
          /\ pc \in [Threads -> Places] /\ queue \in Seq(Threads)
      BY <2>1, <2>2, <2>3 DEF Init
    <2>5. /\ gains \in [Axes -> Gains] /\ en \in [Axes -> BOOLEAN]
          /\ seen \in [Axes -> SUBSET Int]
      BY ParameterAssumption DEF Init
    <2>6. /\ mode \in Modes /\ is_calibrated \in BOOLEAN
          /\ section \in Sections /\ err \in Errors /\ commanded \in BOOLEAN
      BY DEF Init, Modes, Sections, Errors
    <2>7. sem \in -1..1
      BY DEF Init
    <2>8. QED BY <2>4, <2>5, <2>6, <2>7 DEF TypeOK
  <1>2. LockInv
    BY DEF Init, LockInv, Threads
  <1>3. ModeInv
    BY DEF Init, ModeInv, Threads
  <1>4. CalibrationIsExact /\ PlayfieldInsideTravel /\ SetpointInPlayfield /\ CalibrationStartsFresh
    BY DEF Init, CalibrationIsExact, PlayfieldInsideTravel, SetpointInPlayfield,
           CalibrationStartsFresh
  <1>5. QED BY <1>1, <1>2, <1>3, <1>4 DEF IInv

\* Every step of either thread keeps the invariant.
LEMMA NextIInv ==
    IInv /\ [Next]_vars => IInv'
  <1> SUFFICES ASSUME IInv, [Next]_vars PROVE IInv'
    OBVIOUS
  <1>1. KernelOK
    BY DEF IInv, TypeOK, KernelOK
  <1>2. TypeOK' /\ LockInv' /\ ModeInv'
    BY <1>1, TypeStep, LockStep, ModeStep DEF IInv
  <1>3. CalibrationIsExact' /\ PlayfieldInsideTravel'
    BY ExactStep, PlayfieldStep DEF IInv
  <1>4. SetpointInPlayfield' /\ CalibrationStartsFresh'
    BY SetpointStep, FreshStep DEF IInv
  <1>5. QED BY <1>2, <1>3, <1>4 DEF IInv

\* The invariant holds throughout every behaviour of the driver.
THEOREM Invariance ==
    Spec => []IInv
  BY InitIInv, NextIInv, PTL DEF Spec

\* The variables have their types, for all parameters.
THEOREM TypeCorrectness ==
    Spec => []TypeOK
  <1>1. IInv => TypeOK
    BY DEF IInv
  <1>2. QED BY <1>1, Invariance, PTL

\* The semaphore that mds_init creates taken is a lock on mds_info, in both
\* builds and however the calls interleave with the control thread.
THEOREM LockIsExclusive ==
    Spec => []MutualExclusion
  <1>1. IInv => MutualExclusion
    BY DEF IInv, LockInv, MutualExclusion, Holds
  <1>2. QED BY <1>1, Invariance, PTL

\* No motor is enabled outside mode ON, or without a calibration, between any
\* two critical sections.
THEOREM MotorsAreGuarded ==
    Spec => []MotorsNeedCalibration
  <1>1. IInv => MotorsNeedCalibration
    BY DEF IInv, ModeInv, MotorsNeedCalibration
  <1>2. QED BY <1>1, Invariance, PTL

\* The recorded travel is exact, whatever the encoders give.
THEOREM TravelIsExact ==
    Spec => []CalibrationIsExact
  <1>1. IInv => CalibrationIsExact
    BY DEF IInv
  <1>2. QED BY <1>1, Invariance, PTL

\* The play field in force is not empty and lies a safety zone inside places
\* the mallet has been in, for every safety zone.
THEOREM PlayfieldIsSafe ==
    Spec => []PlayfieldInsideTravel
  <1>1. IInv => PlayfieldInsideTravel
    BY DEF IInv
  <1>2. QED BY <1>1, Invariance, PTL

\* A commanded location that is driven to is inside the play field in force,
\* for every target.
THEOREM SetpointIsSafe ==
    Spec => []SetpointInPlayfield
  <1>1. IInv => SetpointInPlayfield
    BY DEF IInv
  <1>2. QED BY <1>1, Invariance, PTL

\* A calibration starts from one sample, with the motors off.
THEOREM CalibrationIsFresh ==
    Spec => []CalibrationStartsFresh
  <1>1. IInv => CalibrationStartsFresh
    BY DEF IInv
  <1>2. QED BY <1>1, Invariance, PTL

\* In the build without prints the control thread is never found inside by the
\* main thread, which therefore never queues on the semaphore.
THEOREM MainIsNeverKeptWaiting ==
    ASSUME Debug = FALSE
    PROVE  Spec => []MainNeverWaits
  <1> DEFINE Unblocked == pc["control"] # "printing" /\ pc["main"] # "waiting"
  <1>1. Init => Unblocked
    BY DEF Init, Threads
  <1>2. ASSUME IInv, Unblocked, [Next]_vars PROVE Unblocked'
    <2>1. pc \in [Threads -> Places] /\ LockInv
      BY <1>2 DEF IInv, TypeOK
    <2>2. CASE Call \/ CallAgain
      <3>1. MainRuns /\ pc["main"] \in {"idle", "between"} /\ SemWait("main")
        BY <2>2 DEF Call, CallAgain
      <3>2. sem = 1
        BY <1>2, <2>1, <3>1 DEF LockInv, MainRuns, Holds
      <3>3. pc' = [pc EXCEPT !["main"] = "locked"]
        BY <3>1, <3>2 DEF SemWait
      <3>4. QED BY <1>2, <2>1, <3>3 DEF Threads
    <2>3. CASE Wake
      BY <1>2, <2>1, <2>3 DEF Wake, SemWait, Threads
    <2>4. CASE Return \/ Unlock
      <3>1. CASE Return
        <4>1. pc["main"] = "unlock" /\ \E p \in {"idle", "between"} : SemSignal("main", p)
          BY <3>1 DEF Return
        <4>2. QED BY <1>2, <2>1, <4>1 DEF SemSignal, LockInv, Holds, Threads
      <3>2. CASE Unlock
        BY <1>2, <2>1, <3>2 DEF Unlock, SemSignal, LockInv, Holds, Threads
      <3>3. QED BY <2>4, <3>1, <3>2
    <2>5. CASE mds_init
      BY <2>5 DEF mds_init
    <2>6. CASE Body
      <3>1. pc' = [pc EXCEPT !["main"] = "unlock"]
        BY <2>6 DEF Body, mds_set_pid, mds_stop, mds_start_calibration, mds_stop_calibration,
                    mds_start, mds_set_location, Executes
      <3>2. QED BY <1>2, <2>1, <3>1 DEF Threads
    <2>7. CASE Update \/ Printed
      <3>1. pc' = [pc EXCEPT !["control"] = "unlock"]
        BY <2>7 DEF Update, UpdateOn, UpdateCalibrating, UpdateOff, Sample, Printed
      <3>2. QED BY <1>2, <2>1, <3>1 DEF Threads
    <2>8. CASE UNCHANGED vars
      BY <1>2, <2>8 DEF vars, kernel
    <2>9. QED
      BY <1>2, <2>2, <2>3, <2>4, <2>5, <2>6, <2>7, <2>8 DEF Next, MainProceeds, ControlStep
  <1>3. IInv /\ Unblocked /\ [Next]_vars => Unblocked'
    BY <1>2
  <1>4. Unblocked => MainNeverWaits
    BY DEF MainNeverWaits
  <1> HIDE DEF Unblocked
  <1>5. QED BY <1>1, <1>3, <1>4, Invariance, PTL DEF Spec

\* Gains, offset and bounds as a condition on a step.
Steady == (\E a \in Axes : en[a]) => UNCHANGED <<gains, offset, lower, upper>>

\* No step changes them while a motor is enabled: the driver is on then, and
\* the calls that would change them look at the mode first.
THEOREM LoopIsSteady ==
    Spec => SteadyWhileDriven
  <1>1. ASSUME IInv, [Next]_vars PROVE Steady
    <2> SUFFICES ASSUME \E a \in Axes : en[a] PROVE UNCHANGED <<gains, offset, lower, upper>>
      BY DEF Steady
    <2>1. mode = "ON"
      BY <1>1 DEF IInv, ModeInv
    <2>2. UNCHANGED <<gains, offset, lower, upper>>
      BY <1>1, <2>1 DEF Next, MainProceeds, Body, ControlStep, mds_init, Call, CallAgain, Return,
                  Wake, Update, Printed, Unlock, mds_set_pid, mds_stop, mds_start_calibration,
                  mds_stop_calibration, mds_start, mds_set_location, vars, field
    <2>3. QED BY <2>2
  <1>2. IInv /\ [Next]_vars => [Steady]_vars
    BY <1>1
  <1>3. QED BY <1>2, Invariance, PTL DEF Spec, SteadyWhileDriven, Steady

-----------------------------------------------------------------------------
(* The driver does what mds.h promises *)

\* The phase of the promise, as the refinement mapping gives it
Phase == CASE mode = "ON" -> "driven"
           [] mode = "CALIBRATING" -> "calibrating"
           [] OTHER -> "released"

Moving == \E a \in Axes : en[a]

\* The phases, mode by mode.
LEMMA PhaseOfMode ==
    /\ mode = "ON" => Phase = "driven"
    /\ mode = "CALIBRATING" => Phase = "calibrating"
    /\ mode \in {"OFF", "UNINIT"} => Phase = "released"
  BY DEF Phase

\* A step that the promise cannot see.
Unseen == UNCHANGED <<Phase, is_calibrated, Moving, setpoint, lower, upper>>

\* The steps that neither thread takes inside its section are unseen.
LEMMA UnseenSteps ==
    ASSUME IInv, \/ mds_init \/ Call \/ CallAgain \/ Return \/ Wake \/ Printed \/ Unlock
                 \/ mds_set_pid \/ UNCHANGED vars
    PROVE  Unseen
  <1>1. CASE mds_init
    <2>1. mode = "UNINIT" /\ mode' = "OFF" /\ ~Moving /\ ~Moving'
      BY <1>1 DEF mds_init, IInv, LockInv, ModeInv, OutputsOff, Moving
    <2>2. UNCHANGED <<Phase, Moving>>
      BY <2>1 DEF Phase, Moving
    <2>3. QED BY <1>1, <2>2 DEF mds_init, field, command, Unseen
  <1>2. CASE ~mds_init
    <2>1. UNCHANGED <<mode, en, field, setpoint>>
      BY <1>2 DEF Call, CallAgain, Return, Wake, Printed, Unlock, mds_set_pid, vars, command, field
    <2>2. QED BY <2>1 DEF Unseen, Phase, Moving, field
  <1>3. QED BY <1>1, <1>2

\* Every step of the driver is a step of the promise or unseen.
LEMMA StepsAreKept ==
    ASSUME IInv, IInv', [Next]_vars
    PROVE  [Promised!Next]_(Promised!vars)
  <1> DEFINE Kept == [Promised!Next]_(Promised!vars)
  <1>0. ASSUME Unseen PROVE Kept
    BY <1>0 DEF Unseen, Promised!vars, Phase, Moving
  <1>1. CASE \/ mds_init \/ Call \/ CallAgain \/ Return \/ Wake \/ Printed \/ Unlock
             \/ mds_set_pid \/ UNCHANGED vars
    BY <1>0, <1>1, UnseenSteps
  <1>2. CASE mds_stop
    <2>1. mode' = "OFF" /\ ~Moving' /\ UNCHANGED <<is_calibrated, setpoint, lower, upper>>
      BY <1>2 DEF mds_stop, OutputsOff, Moving, field, command
    <2>2. Promised!Release
      BY <2>1 DEF Promised!Release, Moving
    <2>3. QED BY <2>2 DEF Promised!Next
  <1>3. CASE mds_start_calibration
    <2>1. mode = "OFF" /\ ~Moving
      BY <1>3 DEF mds_start_calibration, Executes, IInv, ModeInv, Moving
    <2>2. /\ mode' = "CALIBRATING" /\ is_calibrated' = FALSE
          /\ UNCHANGED <<en, setpoint, lower, upper>>
      BY <1>3, <2>1 DEF mds_start_calibration, command
    <2>3. Promised!BeginCalibration
      BY <2>1, <2>2 DEF Promised!BeginCalibration, Moving
    <2>4. QED BY <2>3 DEF Promised!Next
  <1>4. CASE mds_stop_calibration
    <2>1. CASE mode = "CALIBRATING"
      <3>1. mode' = "OFF" /\ UNCHANGED <<en, setpoint>>
        BY <1>4, <2>1 DEF mds_stop_calibration, command
      <3>2. CASE WideEnough
        <4>1. is_calibrated' = TRUE
          BY <1>4, <2>1, <3>2 DEF mds_stop_calibration
        <4>2. {lower', upper'} \subseteq [Axes -> Int] /\ \A a \in Axes : lower'[a] <= upper'[a]
          BY <4>1 DEF IInv, TypeOK, PlayfieldInsideTravel
        <4>3. Promised!EndCalibration
          BY <2>1, <3>1, <4>1, <4>2 DEF Promised!EndCalibration
        <4>4. QED BY <4>3 DEF Promised!Next
      <3>3. CASE ~WideEnough
        <4>1. UNCHANGED <<is_calibrated, lower, upper>>
          BY <1>4, <2>1, <3>3 DEF mds_stop_calibration
        <4>2. Promised!EndCalibration
          BY <2>1, <3>1, <4>1 DEF Promised!EndCalibration
        <4>3. QED BY <4>2 DEF Promised!Next
      <3>4. QED BY <3>2, <3>3
    <2>2. CASE mode # "CALIBRATING"
      <3>1. UNCHANGED <<mode, en, field, setpoint>>
        BY <1>4, <2>2 DEF mds_stop_calibration, command
      <3>2. QED BY <1>0, <3>1 DEF Unseen, Phase, Moving, field
    <2>3. QED BY <2>1, <2>2
  <1>5. CASE mds_start
    <2>1. CASE mode = "OFF" /\ is_calibrated
      <3>1. mode' = "ON" /\ UNCHANGED <<en, is_calibrated, lower, upper>>
        BY <1>5, <2>1 DEF mds_start, field
      <3>2. setpoint' \in [Axes -> Int]
        BY DEF IInv, TypeOK
      <3>3. Promised!Start
        BY <2>1, <3>1, <3>2 DEF Promised!Start
      <3>4. QED BY <3>3 DEF Promised!Next
    <2>2. CASE ~(mode = "OFF" /\ is_calibrated)
      <3>1. UNCHANGED <<mode, en, field, setpoint>>
        BY <1>5, <2>2 DEF mds_start, command
      <3>2. QED BY <1>0, <3>1 DEF Unseen, Phase, Moving, field
    <2>3. QED BY <2>1, <2>2
  <1>6. CASE mds_set_location
    <2>1. CASE mode = "ON"
      <3>1. mode' = "ON" /\ commanded' /\ UNCHANGED <<en, is_calibrated, lower, upper>>
        BY <1>6, <2>1 DEF mds_set_location, field
      <3>2. setpoint' \in [Axes -> Int]
            /\ \A a \in Axes : lower[a] <= setpoint'[a] /\ setpoint'[a] <= upper[a]
        BY <3>1 DEF IInv, TypeOK, SetpointInPlayfield
      <3>3. Promised!SetLocation
        BY <2>1, <3>1, <3>2 DEF Promised!SetLocation
      <3>4. QED BY <3>3 DEF Promised!Next
    <2>2. CASE mode # "ON"
      <3>1. UNCHANGED <<mode, en, field, setpoint>>
        BY <1>6, <2>2 DEF mds_set_location, command
      <3>2. QED BY <1>0, <3>1 DEF Unseen, Phase, Moving, field
    <2>3. QED BY <2>1, <2>2
  <1>7. CASE Update
    <2>1. UNCHANGED <<mode, field, setpoint>>
      BY <1>7 DEF Update, command
    <2>2. CASE mode = "ON"
      <3>1. Moving' \in BOOLEAN
        BY DEF Moving
      <3>2. Promised!Drive
        BY <2>1, <2>2, <3>1 DEF Promised!Drive, Moving, field
      <3>3. QED BY <3>2 DEF Promised!Next
    <2>3. CASE mode # "ON"
      <3>1. ~Moving /\ ~Moving'
        BY <2>1, <2>3 DEF IInv, ModeInv, Moving
      <3>2. UNCHANGED Moving
        BY <3>1 DEF Moving
      <3>3. UNCHANGED Phase
        BY <2>1 DEF Phase
      <3>4. QED BY <1>0, <2>1, <3>2, <3>3 DEF Unseen, field
    <2>4. QED BY <2>2, <2>3
  <1>8. QED
    BY <1>1, <1>2, <1>3, <1>4, <1>5, <1>6, <1>7 DEF Next, MainProceeds, Body, ControlStep

\* The two threads, the lock and the control loop implement the machine that
\* mds.h describes, for all parameters.
THEOREM PromiseIsKept ==
    Spec => KeepsPromise
  <1>1. Init => Promised!Init
    <2> SUFFICES ASSUME Init PROVE Promised!Init
      OBVIOUS
    <2>1. mode = "UNINIT" /\ is_calibrated = FALSE /\ \A a \in Axes : ~en[a]
      BY DEF Init
    <2>2. setpoint \in [Axes -> Int] /\ lower \in [Axes -> Int] /\ upper \in [Axes -> Int]
      BY InitIInv DEF IInv, TypeOK
    <2>3. QED BY <2>1, <2>2 DEF Promised!Init
  <1>2. IInv /\ IInv' /\ [Next]_vars => [Promised!Next]_(Promised!vars)
    BY StepsAreKept
  <1>3. QED BY <1>1, <1>2, Invariance, PTL DEF Spec, KeepsPromise, Promised!Spec
-----------------------------------------------------------------------------
(* Liveness.  The prover has no rules for ENABLED: that a thread which has  *)
(* a step to make, and the processor, can make it, is the hypothesis        *)
(* StepsExist of the theorems, and all else is proved.                      *)

\* Where the guards of the two fair actions hold, they are enabled.
StepsExist ==
    /\ MainRuns /\ pc["main"] \in {"none", "between", "locked", "unlock"}
          => ENABLED <<MainProceeds>>_vars
    /\ pc["control"] \in {"idle", "locked", "printing", "unlock"}
          => ENABLED <<ControlStep>>_vars

\* Where main and the control thread are.
MainAt(p)    == pc["main"] = p
ControlAt(p) == pc["control"] = p

\* The section that main is in has another one behind it.
Stopping == section = "mds_start_calibration.mds_stop"

\* Main is at p, in a section that is the first of two, or in the last.
First(p) == MainAt(p) /\ Stopping
Last(p)  == MainAt(p) /\ ~Stopping

\* What a step of main does to its place.
LEMMA MainMoves ==
    ASSUME IInv, MainProceeds
    PROVE  /\ MainAt("none") \/ MainAt("between") \/ MainAt("locked") \/ MainAt("unlock")
           /\ MainRuns \/ MainAt("none")
           /\ MainAt("none") => Last("unlock")' /\ ControlAt("idle")'
           /\ First("between") => Last("waiting")' \/ Last("locked")'
           /\ First("locked") => First("unlock")'
           /\ Last("locked") => Last("unlock")'
           /\ First("unlock") => First("between")'
           /\ Last("unlock") => MainAt("idle")'
           /\ ControlAt("waiting") =>
                  ControlAt("waiting")' \/ (MainAt("unlock") /\ ControlAt("locked")')
           /\ ControlAt("waiting") /\ MainAt("unlock") => ControlAt("locked")'
           /\ MainAt("none") \/ ControlAt("waiting") \/ UNCHANGED pc["control"]
  <1> USE DEF MainAt, ControlAt, First, Last, Stopping
  <1>0. pc \in [Threads -> Places] /\ LockInv /\ ModeInv
    BY DEF IInv, TypeOK
  <1>1. CASE mds_init
    BY <1>0, <1>1 DEF mds_init, LockInv, ModeInv, Threads
  <1>2. CASE CallAgain
    BY <1>0, <1>2 DEF CallAgain, SemWait, LockInv, Threads, Holds
  <1>3. CASE Body
    <2>1. /\ pc["main"] = "locked" /\ pc' = [pc EXCEPT !["main"] = "unlock"]
          /\ MainRuns /\ section' = section
      BY <1>3 DEF Body, mds_set_pid, mds_stop, mds_start_calibration, mds_stop_calibration,
                  mds_start, mds_set_location, Executes
    <2> QED BY <1>0, <2>1 DEF Threads
  <1>4. CASE Return
    <2>1. MainRuns /\ pc["main"] = "unlock" /\ section' = section
      BY <1>4 DEF Return
    <2>2. CASE pc["control"] = "waiting"
      <3>1. sem = -1 /\ Head(queue) = "control"
        BY <1>0, <2>1, <2>2 DEF LockInv, Holds
      <3> QED BY <1>0, <1>4, <2>1, <2>2, <3>1 DEF Return, SemSignal, Threads
    <2>3. CASE pc["control"] # "waiting"
      <3>1. sem = 0
        BY <1>0, <2>1, <2>3 DEF LockInv, Holds
      <3> QED BY <1>0, <1>4, <2>1, <2>3, <3>1 DEF Return, SemSignal, Threads
    <2> QED BY <2>2, <2>3
  <1> QED BY <1>1, <1>2, <1>3, <1>4 DEF MainProceeds

\* What a step of the control thread does to its place, and to that of main.
LEMMA ControlMoves ==
    ASSUME IInv, ControlStep
    PROVE  /\ ControlAt("idle") => ControlAt("locked")' \/ ControlAt("waiting")'
           /\ ControlAt("locked") => ControlAt("printing")' \/ ControlAt("unlock")'
           /\ ControlAt("printing") => ControlAt("unlock")'
           /\ ControlAt("unlock") => ControlAt("idle")' /\ (MainAt("waiting") => MainAt("locked")')
           /\ ~ControlAt("none") /\ ~ControlAt("waiting")
           /\ MainAt("waiting") /\ ~ControlAt("unlock") => MainAt("waiting")'
           /\ MainAt("waiting") \/ UNCHANGED pc["main"]
           /\ UNCHANGED section
  <1> USE DEF MainAt, ControlAt
  <1>0. pc \in [Threads -> Places] /\ LockInv
    BY DEF IInv, TypeOK
  <1>1. CASE Wake
    BY <1>0, <1>1 DEF Wake, SemWait, LockInv, Threads, Holds
  <1>2. CASE Update
    BY <1>0, <1>2 DEF Update, UpdateOn, UpdateCalibrating, UpdateOff, Sample, Threads
  <1>3. CASE Printed
    BY <1>0, <1>3 DEF Printed, Threads
  <1>4. CASE Unlock
    <2>1. pc["control"] = "unlock" /\ section' = section
      BY <1>4 DEF Unlock
    <2>2. CASE pc["main"] = "waiting"
      <3>1. sem = -1 /\ Head(queue) = "main"
        BY <1>0, <2>1, <2>2 DEF LockInv, Holds
      <3> QED BY <1>0, <1>4, <2>1, <2>2, <3>1 DEF Unlock, SemSignal, Threads
    <2>3. CASE pc["main"] # "waiting"
      <3>1. sem = 0
        BY <1>0, <2>1, <2>3 DEF LockInv, Holds
      <3> QED BY <1>0, <1>4, <2>1, <2>3, <3>1 DEF Unlock, SemSignal, Threads
    <2> QED BY <2>2, <2>3
  <1> QED BY <1>1, <1>2, <1>3, <1>4 DEF ControlStep

\* A call begins where main is idle, and leaves the control thread alone.
LEMMA CallMoves ==
    ASSUME IInv, Call
    PROVE  MainAt("idle") /\ ~MainAt("idle")' /\ UNCHANGED pc["control"]
  BY DEF MainAt, IInv, TypeOK, Call, SemWait, Threads

\* Every place of main but "idle" leads to the next one, or stays.
LEMMA MainLinks ==
    ASSUME IInv, [Next]_vars
    PROVE  /\ Last("none")     => Last("none")' \/ Last("unlock")'
           /\ First("waiting") => First("waiting")' \/ First("locked")'
           /\ First("locked")  => First("locked")' \/ First("unlock")'
           /\ First("unlock")  => First("unlock")' \/ First("between")'
           /\ First("between") => First("between")' \/ Last("waiting")' \/ Last("locked")'
           /\ Last("waiting")  => Last("waiting")' \/ Last("locked")'
           /\ Last("locked")   => Last("locked")' \/ Last("unlock")'
           /\ Last("unlock")   => Last("unlock")' \/ MainAt("idle")'
  <1>1. CASE MainProceeds
    BY <1>1, MainMoves DEF First, Last, MainAt
  <1>2. CASE ControlStep
    <2>1. CASE MainAt("waiting")
      <3>1. MainAt("waiting")' \/ MainAt("locked")'
        BY <1>2, <2>1, ControlMoves DEF IInv, LockInv, MainAt, ControlAt, Holds
      <3> QED BY <1>2, <2>1, <3>1, ControlMoves DEF First, Last, Stopping, MainAt
    <2>2. CASE ~MainAt("waiting")
      BY <1>2, <2>2, ControlMoves DEF First, Last, Stopping, MainAt
    <2> QED BY <2>1, <2>2
  <1>3. CASE Call
    BY <1>3, CallMoves DEF First, Last, MainAt
  <1>4. CASE UNCHANGED vars
    BY <1>4 DEF First, Last, MainAt, Stopping, vars, kernel
  <1> QED BY <1>1, <1>2, <1>3, <1>4 DEF Next

\* Every place of the control thread leads to the next one, or stays.
LEMMA ControlLinks ==
    ASSUME IInv, [Next]_vars
    PROVE  /\ ControlAt("none")     => ControlAt("none")' \/ ControlAt("idle")'
           /\ ControlAt("idle")     => ControlAt("idle")' \/ ControlAt("locked")'
                                                          \/ ControlAt("waiting")'
           /\ ControlAt("waiting")  => ControlAt("waiting")' \/ ControlAt("locked")'
           /\ ControlAt("locked")   => ControlAt("locked")' \/ ControlAt("printing")'
                                                            \/ ControlAt("unlock")'
           /\ ControlAt("printing") => ControlAt("printing")' \/ ControlAt("unlock")'
           /\ ControlAt("unlock")   => ControlAt("unlock")' \/ ControlAt("idle")'
  <1>1. CASE MainProceeds
    <2>1. CASE MainAt("none")
      <3>1. ControlAt("none")
        BY <2>1 DEF IInv, LockInv, MainAt, ControlAt
      <3> QED BY <1>1, <2>1, <3>1, MainMoves DEF ControlAt
    <2>2. CASE ~MainAt("none") /\ ControlAt("waiting")
      BY <1>1, <2>2, MainMoves DEF ControlAt
    <2>3. CASE ~MainAt("none") /\ ~ControlAt("waiting")
      BY <1>1, <2>3, MainMoves DEF ControlAt
    <2> QED BY <2>1, <2>2, <2>3
  <1>2. CASE ControlStep
    BY <1>2, ControlMoves DEF ControlAt
  <1>3. CASE Call
    BY <1>3, CallMoves DEF ControlAt
  <1>4. CASE UNCHANGED vars
    BY <1>4 DEF ControlAt, vars, kernel
  <1> QED BY <1>1, <1>2, <1>3, <1>4 DEF Next

\* Where main and the control thread can be together.
LEMMA PlacesTogether ==
    ASSUME IInv
    PROVE  /\ \/ MainAt("idle") \/ Last("none") \/ First("between")
              \/ First("waiting") \/ First("locked") \/ First("unlock")
              \/ Last("waiting") \/ Last("locked") \/ Last("unlock")
           /\ \/ ControlAt("none") \/ ControlAt("idle") \/ ControlAt("waiting")
              \/ ControlAt("locked") \/ ControlAt("printing") \/ ControlAt("unlock")
           /\ First("waiting") \/ Last("waiting") =>
                 ControlAt("locked") \/ ControlAt("printing") \/ ControlAt("unlock")
           /\ ControlAt("waiting") =>
                 \/ First("locked") \/ First("unlock") \/ Last("locked") \/ Last("unlock")
           /\ ControlAt("none") <=> Last("none")
  BY DEF IInv, LockInv, ModeInv, First, Last, MainAt, ControlAt, Stopping, Holds

\* The control thread is in the way of main only until its next signal.
LEMMA MainRunsAgain ==
    FairSpec /\ []StepsExist => []<>MainRuns
  <1>1. IInv /\ [Next]_vars /\ ControlAt("locked") =>
           ControlAt("locked")' \/ ControlAt("printing")' \/ ControlAt("unlock")'
    BY ControlLinks
  <1>2. IInv /\ [Next]_vars /\ ControlAt("unlock") => ControlAt("unlock")' \/ ControlAt("idle")'
    BY ControlLinks
  <1>3. IInv /\ <<ControlStep>>_vars /\ ControlAt("locked") =>
           ControlAt("printing")' \/ ControlAt("unlock")'
    BY ControlMoves
  <1>4. IInv /\ <<ControlStep>>_vars /\ ControlAt("unlock") => ControlAt("idle")'
    BY ControlMoves
  <1>5. StepsExist /\ (ControlAt("locked") \/ ControlAt("unlock")) => ENABLED <<ControlStep>>_vars
    BY DEF StepsExist, ControlAt
  <1>6. IInv => MainRuns \/ ControlAt("locked") \/ ControlAt("unlock")
    BY PlacesTogether DEF MainRuns, ControlAt
  <1>7. ControlAt("printing") \/ ControlAt("idle") => MainRuns
    BY DEF MainRuns, ControlAt
  <1> QED
    BY <1>1, <1>2, <1>3, <1>4, <1>5, <1>6, <1>7, Invariance, PTL DEF FairSpec, Spec

\* A thread that waits for the lock gets it from the one that has it.
LEMMA MainGetsLock ==
    FairSpec /\ []StepsExist =>
        /\ First("waiting") ~> First("locked")
        /\ Last("waiting") ~> Last("locked")
  <1>1. IInv /\ [Next]_vars =>
           /\ First("waiting") => First("waiting")' \/ First("locked")'
           /\ Last("waiting")  => Last("waiting")' \/ Last("locked")'
           /\ ControlAt("locked")   => ControlAt("locked")' \/ ControlAt("printing")'
                                                            \/ ControlAt("unlock")'
           /\ ControlAt("printing") => ControlAt("printing")' \/ ControlAt("unlock")'
    BY MainLinks, ControlLinks
  <1>2. IInv /\ <<ControlStep>>_vars =>
           /\ ControlAt("locked")   => ControlAt("printing")' \/ ControlAt("unlock")'
           /\ ControlAt("printing") => ControlAt("unlock")'
           /\ ControlAt("unlock") /\ First("waiting") => First("locked")'
           /\ ControlAt("unlock") /\ Last("waiting")  => Last("locked")'
    BY ControlMoves DEF First, Last, Stopping
  <1>3. IInv /\ (First("waiting") \/ Last("waiting")) =>
            ControlAt("locked") \/ ControlAt("printing") \/ ControlAt("unlock")
    BY PlacesTogether
  <1>4. IInv /\ [Next]_vars /\ ControlAt("unlock") /\ (First("waiting") \/ Last("waiting")) =>
            \/ ControlAt("unlock")'
            \/ ~First("waiting")' /\ ~Last("waiting")'
    <2> SUFFICES ASSUME IInv, [Next]_vars, ControlAt("unlock"), First("waiting") \/ Last("waiting")
                 PROVE  ControlAt("unlock")' \/ (~First("waiting")' /\ ~Last("waiting")')
      OBVIOUS
    <2>1. CASE ControlStep
      BY <2>1, ControlMoves DEF First, Last, MainAt
    <2>2. CASE MainProceeds
      BY <2>2, MainMoves DEF First, Last, MainAt
    <2>3. CASE Call
      BY <2>3, CallMoves DEF First, Last, MainAt
    <2>4. CASE UNCHANGED vars
      BY <2>4 DEF vars, kernel, ControlAt
    <2> QED BY <2>1, <2>2, <2>3, <2>4 DEF Next
  <1>5. StepsExist /\ (ControlAt("locked") \/ ControlAt("printing") \/ ControlAt("unlock"))
           => ENABLED <<ControlStep>>_vars
    BY DEF StepsExist, ControlAt
  <1> QED
    BY <1>1, <1>2, <1>3, <1>4, <1>5, Invariance, PTL DEF FairSpec, Spec

\* A thread that has the processor again and again goes on.
LEMMA MainGoesOn ==
    FairSpec /\ []StepsExist =>
        /\ Last("none") ~> Last("unlock")
        /\ First("locked") ~> First("unlock")
        /\ First("unlock") ~> First("between")
        /\ First("between") ~> Last("waiting") \/ Last("locked")
        /\ Last("locked") ~> Last("unlock")
        /\ Last("unlock") ~> MainAt("idle")
  <1>1. IInv /\ [Next]_vars =>
           /\ Last("none")     => Last("none")' \/ Last("unlock")'
           /\ First("locked")  => First("locked")' \/ First("unlock")'
           /\ First("unlock")  => First("unlock")' \/ First("between")'
           /\ First("between") => First("between")' \/ Last("waiting")' \/ Last("locked")'
           /\ Last("locked")   => Last("locked")' \/ Last("unlock")'
           /\ Last("unlock")   => Last("unlock")' \/ MainAt("idle")'
    BY MainLinks
  <1>2. IInv /\ <<MainProceeds>>_vars =>
           /\ Last("none")     => Last("unlock")'
           /\ First("locked")  => First("unlock")'
           /\ First("unlock")  => First("between")'
           /\ First("between") => Last("waiting")' \/ Last("locked")'
           /\ Last("locked")   => Last("unlock")'
           /\ Last("unlock")   => MainAt("idle")'
    BY MainMoves DEF Last
  <1>3. StepsExist /\ MainRuns
        /\ (Last("none") \/ First("locked") \/ First("unlock") \/ First("between")
            \/ Last("locked") \/ Last("unlock"))
           => ENABLED <<MainProceeds>>_vars
    BY DEF StepsExist, First, Last, MainAt
  <1> QED
    BY <1>1, <1>2, <1>3, MainRunsAgain, Invariance, PTL DEF FairSpec, Spec

\* Every call of the driver returns (CallsReturn): main waits for the lock only
\* while the control thread is in its section, which ends, and is kept from the
\* processor only while that thread runs.
THEOREM CallsComeBack ==
    FairSpec /\ []StepsExist => CallsReturn
  <1>1. IInv => \/ pc["main"] = "idle" \/ Last("none") \/ First("between")
                \/ First("waiting") \/ First("locked") \/ First("unlock")
                \/ Last("waiting") \/ Last("locked") \/ Last("unlock")
    BY PlacesTogether DEF MainAt
  <1>2. MainAt("idle") <=> pc["main"] = "idle"
    BY DEF MainAt
  <1> QED
    BY <1>1, <1>2, MainGoesOn, MainGetsLock, Invariance, PTL DEF FairSpec, CallsReturn

\* The control thread waits for the lock only while main is in a section, and
\* goes before it when it is signalled.
LEMMA ControlGetsLock ==
    FairSpec /\ []StepsExist => (ControlAt("waiting") ~> ControlAt("locked"))
  <1>1. IInv /\ [Next]_vars => (ControlAt("waiting") => ControlAt("waiting")' \/ ControlAt("locked")')
    BY ControlLinks
  <1>2. IInv /\ <<MainProceeds>>_vars =>
           /\ First("locked") => First("unlock")'
           /\ Last("locked")  => Last("unlock")'
           /\ ControlAt("waiting") /\ (First("unlock") \/ Last("unlock")) => ControlAt("locked")'
    BY MainMoves DEF First, Last
  <1>3. IInv /\ [Next]_vars =>
           /\ First("locked") => First("locked")' \/ First("unlock")'
           /\ Last("locked")  => Last("locked")' \/ Last("unlock")'
    BY MainLinks
  <1>4. IInv /\ ControlAt("waiting") => First("locked") \/ First("unlock") \/ Last("locked") \/ Last("unlock")
    BY PlacesTogether
  <1>5. IInv /\ [Next]_vars /\ ControlAt("waiting") =>
           /\ First("unlock") => First("unlock")' \/ ControlAt("locked")'
           /\ Last("unlock")  => Last("unlock")' \/ ControlAt("locked")'
    <2> SUFFICES ASSUME IInv, [Next]_vars, ControlAt("waiting")
                 PROVE  /\ First("unlock") => First("unlock")' \/ ControlAt("locked")'
                        /\ Last("unlock")  => Last("unlock")' \/ ControlAt("locked")'
      OBVIOUS
    <2>1. CASE ControlStep
      BY <2>1, ControlMoves
    <2>2. CASE MainProceeds
      BY <2>2, MainMoves DEF First, Last
    <2>3. CASE Call
      BY <2>3, CallMoves DEF First, Last, MainAt
    <2>4. CASE UNCHANGED vars
      BY <2>4 DEF vars, kernel, First, Last, MainAt, Stopping
    <2> QED BY <2>1, <2>2, <2>3, <2>4 DEF Next
  <1>6. StepsExist /\ ControlAt("waiting") /\ (First("locked") \/ First("unlock") \/ Last("locked") \/ Last("unlock"))
           => ENABLED <<MainProceeds>>_vars
    BY DEF StepsExist, ControlAt, First, Last, MainAt, MainRuns
  <1> QED
    BY <1>1, <1>2, <1>3, <1>4, <1>5, <1>6, Invariance, PTL DEF FairSpec, Spec

\* The control thread comes to its section again and again
\* (ControlKeepsRunning), whatever main does: no sequence of calls starves it.
THEOREM LoopGoesOn ==
    FairSpec /\ []StepsExist => ControlKeepsRunning
  <1>1. IInv /\ [Next]_vars =>
           /\ ControlAt("none")     => ControlAt("none")' \/ ControlAt("idle")'
           /\ ControlAt("idle")     => ControlAt("idle")' \/ ControlAt("locked")' \/ ControlAt("waiting")'
           /\ ControlAt("printing") => ControlAt("printing")' \/ ControlAt("unlock")'
           /\ ControlAt("unlock")   => ControlAt("unlock")' \/ ControlAt("idle")'
    BY ControlLinks
  <1>2. IInv /\ <<ControlStep>>_vars =>
           /\ ControlAt("idle")     => ControlAt("locked")' \/ ControlAt("waiting")'
           /\ ControlAt("printing") => ControlAt("unlock")'
           /\ ControlAt("unlock")   => ControlAt("idle")'
    BY ControlMoves
  <1>3. StepsExist /\ (ControlAt("idle") \/ ControlAt("printing") \/ ControlAt("unlock"))
           => ENABLED <<ControlStep>>_vars
    BY DEF StepsExist, ControlAt
  <1>4. IInv => \/ ControlAt("none") \/ ControlAt("idle") \/ ControlAt("waiting")
                \/ ControlAt("locked") \/ ControlAt("printing") \/ ControlAt("unlock")
    BY PlacesTogether
  <1>5. IInv => (ControlAt("none") <=> Last("none"))
    BY PlacesTogether
  <1>6. Last("none") => ~Last("unlock")
    BY DEF Last, MainAt
  <1>7. ControlAt("locked") <=> pc["control"] = "locked"
    BY DEF ControlAt
  <1> QED
    BY <1>1, <1>2, <1>3, <1>4, <1>5, <1>6, <1>7, MainGoesOn, ControlGetsLock, Invariance, PTL
       DEF FairSpec, Spec, ControlKeepsRunning
=============================================================================
