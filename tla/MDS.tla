-------------------------------- MODULE MDS --------------------------------
(***************************************************************************)
(* The Mallet Drive System driver, motor_control/src/mds.c: the record     *)
(* mds_info, the API that the serial thread calls and the control thread   *)
(* that samples the encoders and drives the motors once a millisecond.     *)
(*                                                                         *)
(* Two threads share mds_info under the counting semaphore mds_lock_sem:   *)
(*   "main"     main(), NORMALPRIO, calls one API function at a time;      *)
(*   "control"  mds_update_thread_f, HIGHPRIO.                             *)
(* A call is three steps: chSemWait, the body (atomic because the lock is  *)
(* held, which MutualExclusion checks), chSemSignal.  The scheduler is the *)
(* fixed-priority one of ChibiOS: main runs only while control is blocked. *)
(*                                                                         *)
(* Lengths are in encoder counts of their axis: mds_counts_to_mm divides   *)
(* by a positive constant per axis, so every comparison of millimetres is  *)
(* the same comparison of counts.  What the PID computes is left out: a    *)
(* motor outside the dead band may get a command or may get one that       *)
(* mds_set_output takes for zero.                                          *)
(***************************************************************************)
EXTENDS Integers, Sequences

CONSTANTS
    Axes,        \* the driven axes, x and y in the code
    Counts,      \* the encoder counts that occur on each axis
    Targets,     \* the locations that mds_set_location is asked for
    Gains,       \* the loop parameters that mds_set_pid_<axis> is given
    DefaultGain, \* the loop parameters mds_info starts with
    Safety,      \* MDS_SAFETY_ZONE_MM_<axis>, in counts
    ErrThresh,   \* MDS_ERR_THRESH_<axis>, in counts
    Debug        \* DEBUG of util.h: whether the control thread prints

ASSUME CountAssumption ==
    /\ Counts \in [Axes -> SUBSET Int]
    /\ \A a \in Axes : 0 \in Counts[a]
ASSUME ParameterAssumption ==
    /\ Targets \subseteq Int
    /\ DefaultGain \in Gains
    /\ Safety \in [Axes -> Nat]
    /\ ErrThresh \in [Axes -> Nat]
    /\ Debug \in BOOLEAN

\* One reading of every encoder
Readings == {c \in [Axes -> UNION {Counts[a] : a \in Axes}] :
                \A a \in Axes : c[a] \in Counts[a]}

Threads == {"main", "control"}

\* mds_mode_t
Modes == {"UNINIT", "OFF", "ON", "CALIBRATING"}

\* mds_err_t, as far as the driver returns it
Errors == {"SUCCESS", "UNCALIBRATED", "INVALID_MODE", "OUT_OF_BOUNDS",
           "BAD_CALIBRATION"}

\* The critical sections of the main thread.  mds_start_calibration is the
\* only function with two: the mds_stop it calls, then its own.
Sections == {"mds_init", "mds_set_pid", "mds_start_calibration.mds_stop",
             "mds_start_calibration", "mds_stop_calibration", "mds_start",
             "mds_stop", "mds_set_location"}

Calls == Sections \ {"mds_init", "mds_start_calibration"}

\* Where a thread is.  "none": before it exists (for main: before mds_init);
\* "idle": outside the driver, or asleep for the control thread;
\* "between": main between the two sections of mds_start_calibration;
\* "waiting": queued on the semaphore; "locked": lock held, body to run;
\* "printing": lock held, blocked in DEBUG_PRINTF; "unlock": body done.
Places == {"none", "idle", "between", "waiting", "locked", "printing", "unlock"}

VARIABLES
    \* mds_info
    mode, is_calibrated, setpoint, count, gains, lower, upper, offset,
    cal_max, cal_min,
    \* the EN_X and EN_Y pads
    en,
    \* mds_lock_sem: s_cnt and s_queue
    sem, queue,
    \* the threads: place of each, section of main, last result given to main
    pc, section, err, reported,
    \* history: the counts that belong to the latest calibration, and whether
    \* the setpoint in force came from mds_set_location
    seen, commanded

field   == <<lower, upper, offset, is_calibrated>>
travel  == <<cal_max, cal_min, seen>>
kernel  == <<sem, queue, pc>>
command == <<setpoint, commanded>>
vars    == <<mode, count, gains, en, section, err, reported,
             field, travel, kernel, command>>

-----------------------------------------------------------------------------
(* The semaphore *)

\* chSemWait: take a unit or join the queue.
SemWait(t) ==
    /\ sem' = sem - 1
    /\ \/ /\ sem > 0
          /\ pc' = [pc EXCEPT ![t] = "locked"]
          /\ UNCHANGED queue
       \/ /\ sem <= 0
          /\ pc' = [pc EXCEPT ![t] = "waiting"]
          /\ queue' = Append(queue, t)

\* Mutant: the test of the count before it is incremented, "if (s_cnt++ <= 0)",
\* kept with "<": the last waiter is never woken.
SemSignal_LostWakeup(t, p) ==
    /\ sem' = sem + 1
    /\ \/ /\ sem >= -1
          /\ pc' = [pc EXCEPT ![t] = p]
          /\ UNCHANGED queue
       \/ /\ sem < -1
          /\ pc' = [pc EXCEPT ![t] = p, ![Head(queue)] = "locked"]
          /\ queue' = Tail(queue)

\* chSemSignal by t, which goes on to place p: the longest waiter, if there
\* is one, is made ready with the lock already its own.
SemSignal(t, p) ==
    /\ sem' = sem + 1
    /\ \/ /\ sem >= 0
          /\ pc' = [pc EXCEPT ![t] = p]
          /\ UNCHANGED queue
       \/ /\ sem < 0
          /\ pc' = [pc EXCEPT ![t] = p, ![Head(queue)] = "locked"]
          /\ queue' = Tail(queue)

\* The thread is inside its critical section.
Holds(t) == pc[t] \in {"locked", "printing", "unlock"}

\* The control thread has the higher priority: main has the processor only
\* while control does not exist or is blocked.
MainRuns == pc["control"] \in {"none", "idle", "waiting", "printing"}

\* mds_counts_to_mm_<axis>, in counts
Location(c, a) == c[a] - offset[a]

OutputsOff == en' = [a \in Axes |-> FALSE]

-----------------------------------------------------------------------------
Zero == [a \in Axes |-> 0]

Init ==
    /\ mode = "UNINIT"
    /\ is_calibrated = FALSE
    /\ gains = [a \in Axes |-> DefaultGain]
    /\ setpoint = Zero /\ count = Zero
    /\ lower = Zero /\ upper = Zero /\ offset = Zero
    /\ cal_max = Zero /\ cal_min = Zero
    /\ en = [a \in Axes |-> FALSE]
    /\ sem = 0
    /\ queue = << >>
    /\ pc = [t \in Threads |-> "none"]
    /\ section = "mds_init"
    /\ err = "SUCCESS"
    /\ reported = [a \in Axes |-> [lower |-> 0, upper |-> 0]]
    /\ seen = [a \in Axes |-> {0}]
    /\ commanded = FALSE

-----------------------------------------------------------------------------
(* The main thread *)

\* Mutant: chSemInit(&mds_lock_sem, 1) with the chSemSignal left in place.
mds_init_Unlocked ==
    /\ pc["main"] = "none"
    /\ sem' = 1
    /\ queue' = << >>
    /\ OutputsOff
    /\ mode' = "OFF"
    /\ pc' = [main |-> "unlock", control |-> "idle"]
    /\ UNCHANGED <<count, gains, section, err, reported, field, travel, command>>

\* mds_init, up to its chSemSignal: the lock is created taken, the enable
\* pads are cleared, and the control thread is created.  That thread runs at
\* once, being of higher priority, and goes to sleep.
mds_init ==
    /\ pc["main"] = "none"
    /\ sem' = 0
    /\ queue' = << >>
    /\ OutputsOff
    /\ mode' = "OFF"
    /\ pc' = [main |-> "unlock", control |-> "idle"]
    /\ UNCHANGED <<count, gains, section, err, reported, field, travel, command>>

\* A call of one of the API functions, up to its first chSemWait.
Call ==
    /\ MainRuns
    /\ pc["main"] = "idle"
    /\ section' \in Calls
    /\ SemWait("main")
    /\ UNCHANGED <<mode, count, gains, en, err, reported, field, travel, command>>

\* The second chSemWait of mds_start_calibration.
CallAgain ==
    /\ MainRuns
    /\ pc["main"] = "between"
    /\ section' = "mds_start_calibration"
    /\ SemWait("main")
    /\ UNCHANGED <<mode, count, gains, en, err, reported, field, travel, command>>

\* main has the lock and executes the body of section s.
Executes(s) ==
    /\ MainRuns
    /\ pc["main"] = "locked"
    /\ section = s
    /\ pc' = [pc EXCEPT !["main"] = "unlock"]
    /\ UNCHANGED <<sem, queue, section>>

\* Mutant: loop parameters accepted in every mode.
mds_set_pid_AnyMode ==
    /\ Executes("mds_set_pid")
    /\ \E a \in Axes, g \in Gains : gains' = [gains EXCEPT ![a] = g]
    /\ err' = "SUCCESS"
    /\ UNCHANGED <<mode, count, en, reported, field, travel, command>>

mds_set_pid ==
    /\ Executes("mds_set_pid")
    /\ \/ /\ mode \in {"UNINIT", "OFF", "CALIBRATING"}
          /\ \E a \in Axes, g \in Gains : gains' = [gains EXCEPT ![a] = g]
          /\ err' = "SUCCESS"
       \/ /\ mode = "ON"
          /\ err' = "INVALID_MODE"
          /\ UNCHANGED gains
    /\ UNCHANGED <<mode, count, en, reported, field, travel, command>>

\* Mutant: the outputs are left to the next pass of the control thread.
mds_stop_LeavesOutputs ==
    /\ \/ Executes("mds_stop")
       \/ Executes("mds_start_calibration.mds_stop")
    /\ mode' = "OFF"
    /\ err' = "SUCCESS"
    /\ UNCHANGED <<count, gains, en, reported, field, travel, command>>

\* Mutant: a calibration in progress is not stopped.
mds_stop_SparesCalibration ==
    /\ \/ Executes("mds_stop")
       \/ Executes("mds_start_calibration.mds_stop")
    /\ mode' = IF mode = "CALIBRATING" THEN mode ELSE "OFF"
    /\ OutputsOff
    /\ err' = "SUCCESS"
    /\ UNCHANGED <<count, gains, reported, field, travel, command>>

mds_stop ==
    /\ \/ Executes("mds_stop")
       \/ Executes("mds_start_calibration.mds_stop")
    /\ mode' = "OFF"
    /\ OutputsOff
    /\ err' = "SUCCESS"
    /\ UNCHANGED <<count, gains, reported, field, travel, command>>

mds_start_calibration ==
    /\ Executes("mds_start_calibration")
    /\ err' = "SUCCESS"
    /\ \/ /\ mode # "CALIBRATING"
          /\ is_calibrated' = FALSE
          /\ cal_min' = count
          /\ cal_max' = count
          /\ seen' = [a \in Axes |-> {count[a]}]
          /\ mode' = "CALIBRATING"
       \/ /\ mode = "CALIBRATING"
          /\ UNCHANGED <<is_calibrated, travel, mode>>
    /\ UNCHANGED <<count, gains, en, reported, lower, upper, offset, command>>

\* Mutant: "||" for "&&".
WideEnough_AnyAxis == \E a \in Axes : cal_max[a] - cal_min[a] >= 2 * Safety[a]

\* Whether the travel recorded leaves room for the safety zone at both ends,
\* on every axis.  offset has just been set to cal_min.
WideEnough == \A a \in Axes : cal_max[a] - cal_min[a] >= 2 * Safety[a]

mds_stop_calibration ==
    /\ Executes("mds_stop_calibration")
    /\ \/ /\ mode = "CALIBRATING"
          /\ mode' = "OFF"
          /\ offset' = cal_min
          /\ \/ /\ WideEnough
                /\ lower' = Safety
                /\ upper' = [a \in Axes |-> cal_max[a] - cal_min[a] - Safety[a]]
                /\ is_calibrated' = TRUE
                /\ reported' = [a \in Axes |->
                      [lower |-> 0, upper |-> cal_max[a] - cal_min[a]]]
                /\ err' = "SUCCESS"
             \/ /\ ~WideEnough
                /\ err' = "BAD_CALIBRATION"
                /\ reported' = [a \in Axes |-> [lower |-> 0, upper |-> 0]]
                /\ UNCHANGED <<lower, upper, is_calibrated>>
       \/ /\ mode # "CALIBRATING"
          /\ err' = "INVALID_MODE"
          /\ reported' = [a \in Axes |-> [lower |-> 0, upper |-> 0]]
          /\ UNCHANGED <<mode, field>>
    /\ UNCHANGED <<count, gains, en, travel, command>>

\* Mutant: the setpoint of the last time is taken up again.
mds_start_KeepsSetpoint ==
    /\ Executes("mds_start")
    /\ \/ /\ mode = "OFF"
          /\ is_calibrated
          /\ mode' = "ON"
          /\ err' = "SUCCESS"
       \/ /\ mode = "OFF"
          /\ ~is_calibrated
          /\ err' = "UNCALIBRATED"
          /\ UNCHANGED mode
       \/ /\ mode # "OFF"
          /\ err' = "INVALID_MODE"
          /\ UNCHANGED mode
    /\ UNCHANGED <<count, gains, en, reported, field, travel, command>>

\* Mutant: the driver is turned on without a calibration.
mds_start_Uncalibrated ==
    /\ Executes("mds_start")
    /\ \/ /\ mode = "OFF"
          /\ setpoint' = [a \in Axes |-> Location(count, a)]
          /\ commanded' = FALSE
          /\ mode' = "ON"
          /\ err' = "SUCCESS"
       \/ /\ mode # "OFF"
          /\ err' = "INVALID_MODE"
          /\ UNCHANGED <<mode, command>>
    /\ UNCHANGED <<count, gains, en, reported, field, travel>>

mds_start ==
    /\ Executes("mds_start")
    /\ \/ /\ mode = "OFF"
          /\ is_calibrated
          /\ setpoint' = [a \in Axes |-> Location(count, a)]
          /\ commanded' = FALSE
          /\ mode' = "ON"
          /\ err' = "SUCCESS"
       \/ /\ mode = "OFF"
          /\ ~is_calibrated
          /\ err' = "UNCALIBRATED"
          /\ UNCHANGED <<mode, command>>
       \/ /\ mode # "OFF"
          /\ err' = "INVALID_MODE"
          /\ UNCHANGED <<mode, command>>
    /\ UNCHANGED <<count, gains, en, reported, field, travel>>

\* The setpoint that mds_set_location records for the target v on axis a.
Limited(v, a) ==
    IF v > upper[a] THEN upper[a] ELSE IF v < lower[a] THEN lower[a] ELSE v

mds_set_location ==
    /\ Executes("mds_set_location")
    /\ \/ /\ mode = "ON"
          /\ \E target \in [Axes -> Targets] :
                /\ setpoint' = [a \in Axes |-> Limited(target[a], a)]
                /\ err' = IF setpoint' = target THEN "SUCCESS" ELSE "OUT_OF_BOUNDS"
          /\ commanded' = TRUE
       \/ /\ mode # "ON"
          /\ err' = "INVALID_MODE"
          /\ UNCHANGED command
    /\ UNCHANGED <<mode, count, gains, en, reported, field, travel>>

\* The chSemSignal that ends the section of main, and the return to the
\* caller unless mds_start_calibration has its second section to run.
Return ==
    /\ MainRuns
    /\ pc["main"] = "unlock"
    /\ SemSignal("main", IF section = "mds_start_calibration.mds_stop"
                         THEN "between" ELSE "idle")
    /\ UNCHANGED <<mode, count, gains, en, section, err, reported,
                   field, travel, command>>

-----------------------------------------------------------------------------
(* The control thread *)

\* chThdSleepUntil returns, and the thread asks for the lock.
Wake ==
    /\ pc["control"] = "idle"
    /\ SemWait("control")
    /\ UNCHANGED <<mode, count, gains, en, section, err, reported,
                   field, travel, command>>

\* Mutant: the prints of a debug build left in.
Sample_Prints ==
    /\ pc["control"] = "locked"
    /\ count' \in Readings
    /\ pc' = [pc EXCEPT !["control"] =
                 IF mode \in {"ON", "CALIBRATING"} THEN "printing" ELSE "unlock"]

\* The encoders are read; what follows depends on the mode.  A debug build ends
\* a pass that drives or calibrates with a print, and any pass found late.
Sample ==
    /\ pc["control"] = "locked"
    /\ count' \in Readings
    /\ \E p \in {"printing", "unlock"} :
         /\ p = "printing" => Debug
         /\ p = "unlock" => ~Debug \/ mode \notin {"ON", "CALIBRATING"}
         /\ pc' = [pc EXCEPT !["control"] = p]

\* Mutant: the minimum is compared with the offset in force, which belongs to
\* the calibration before.
NewMin_OldOffset(a) == IF count'[a] < offset[a] THEN count'[a] ELSE cal_min[a]

\* A new extreme widens the travel; the test for a minimum is only made on a
\* count that is not a new maximum.
NewMax(a) == IF count'[a] > cal_max[a] THEN count'[a] ELSE cal_max[a]
NewMin(a) == IF count'[a] <= cal_max[a] /\ count'[a] < cal_min[a]
             THEN count'[a] ELSE cal_min[a]

\* |error| > MDS_ERR_THRESH on axis a, with the count just read
OutsideDeadBand(a) ==
    LET error == setpoint[a] - Location(count', a)
    IN  error > ErrThresh[a] \/ error < -ErrThresh[a]

\* One pass of the loop under control: a motor in its dead band is switched
\* off, and any other is given the command of the PID.
UpdateOn ==
    /\ Sample
    /\ mode = "ON"
    /\ en' \in [Axes -> BOOLEAN]
    /\ \A a \in Axes : en'[a] => OutsideDeadBand(a)
    /\ UNCHANGED travel

UpdateCalibrating ==
    /\ Sample
    /\ mode = "CALIBRATING"
    /\ cal_max' = [a \in Axes |-> NewMax(a)]
    /\ cal_min' = [a \in Axes |-> NewMin(a)]
    /\ seen' = [a \in Axes |-> seen[a] \cup {count'[a]}]
    /\ OutputsOff

UpdateOff ==
    /\ Sample
    /\ mode \notin {"ON", "CALIBRATING"}
    /\ OutputsOff
    /\ UNCHANGED travel

Update ==
    /\ UpdateOn \/ UpdateCalibrating \/ UpdateOff
    /\ UNCHANGED <<mode, gains, section, err, reported, field, sem, queue, command>>

\* DEBUG_PRINTF returns.
Printed ==
    /\ pc["control"] = "printing"
    /\ pc' = [pc EXCEPT !["control"] = "unlock"]
    /\ UNCHANGED <<mode, count, gains, en, section, err, reported,
                   field, travel, sem, queue, command>>

\* chSemSignal, and back to chThdSleepUntil.
Unlock ==
    /\ pc["control"] = "unlock"
    /\ SemSignal("control", "idle")
    /\ UNCHANGED <<mode, count, gains, en, section, err, reported,
                   field, travel, command>>

-----------------------------------------------------------------------------
Body ==
    \/ mds_set_pid \/ mds_stop \/ mds_start_calibration
    \/ mds_stop_calibration \/ mds_start \/ mds_set_location

\* What main does once it is in a call; whether it makes one is its own affair.
MainProceeds == mds_init \/ CallAgain \/ Body \/ Return
ControlStep  == Wake \/ Update \/ Printed \/ Unlock

Next == Call \/ MainProceeds \/ ControlStep

Spec == Init /\ [][Next]_vars

\* The tick wakes the control thread, and a pass of its loop is far shorter
\* than a tick, so main gets the processor again and again.
FairSpec == Spec /\ WF_vars(ControlStep) /\ SF_vars(MainProceeds)

-----------------------------------------------------------------------------
(* Properties *)

\* The types of the variables.
TypeOK ==
    /\ mode \in Modes
    /\ is_calibrated \in BOOLEAN
    /\ {setpoint, lower, upper} \subseteq [Axes -> Int]
    /\ {count, offset, cal_max, cal_min} \subseteq Readings
    /\ gains \in [Axes -> Gains]
    /\ en \in [Axes -> BOOLEAN]
    /\ sem \in -1..1 /\ queue \in Seq(Threads)
    /\ pc \in [Threads -> Places]
    /\ section \in Sections
    /\ err \in Errors
    /\ reported \in [Axes -> [lower : Int, upper : Int]]
    /\ seen \in [Axes -> SUBSET Int]
    /\ commanded \in BOOLEAN

\* mds_info is never in the hands of both threads: the semaphore that
\* mds_init creates taken and then signals is a lock (mds.c:261, 335).
MutualExclusion == ~(Holds("main") /\ Holds("control"))

\* A motor is enabled only when the driver is on and calibrated, between any
\* two critical sections: a stop, and the first half of the start of a
\* calibration, leave none running for the control thread to switch off.
MotorsNeedCalibration ==
    (\E a \in Axes : en[a]) => mode = "ON" /\ is_calibrated

\* During a calibration the extremes are exactly those of the counts sampled
\* since it began, although an extreme maximum is never tried as a minimum
\* and the first count is one sampled in another mode (mds.c:438, 729).
CalibrationIsExact ==
    mode = "CALIBRATING" =>
        \A a \in Axes :
            /\ {cal_min[a], cal_max[a]} \subseteq seen[a]
            /\ \A c \in seen[a] : cal_min[a] <= c /\ c <= cal_max[a]

\* The play field of a calibrated driver is not empty, and its ends, as
\* encoder counts, are a safety zone away from places the mallet has been in
\* during the calibration that is in force.
PlayfieldInsideTravel ==
    is_calibrated =>
        \A a \in Axes :
            /\ lower[a] <= upper[a]
            /\ \E c \in seen[a] : c + Safety[a] <= lower[a] + offset[a]
            /\ \E c \in seen[a] : upper[a] + offset[a] + Safety[a] <= c

\* The setpoint in force was either asked for since the driver was turned on,
\* and is in the play field of today, or is where the mallet was then: one
\* that was valid in the play field of an earlier calibration is never driven
\* to.
SetpointInPlayfield ==
    mode = "ON" /\ commanded =>
        \A a \in Axes : lower[a] <= setpoint[a] /\ setpoint[a] <= upper[a]

\* When the second section of mds_start_calibration is over the driver is
\* calibrating from the last sampled count alone, uncalibrated and with its
\* motors off, whatever mode the call found it in and whatever the control
\* thread did between the two sections.
CalibrationStartsFresh ==
    pc["main"] = "unlock" /\ section = "mds_start_calibration" =>
        /\ mode = "CALIBRATING" /\ ~is_calibrated
        /\ cal_min = count /\ cal_max = count
        /\ \A a \in Axes : ~en[a]

\* Without the prints of a debug build the control thread never blocks with
\* the lock in its hands, so the serial thread never has to wait for it.
MainNeverWaits == pc["main"] # "waiting"

\* What the running loop is made of stays put while a motor is driven: its
\* parameters (mds.h:57, "can't set these on the fly"), and the offset and
\* bounds that its setpoint is relative to.
SteadyWhileDriven ==
    [][(\E a \in Axes : en[a]) => UNCHANGED <<gains, offset, lower, upper>>]_vars

\* Every call of the driver returns, the control thread notwithstanding.
CallsReturn == pc["main"] # "idle" ~> pc["main"] = "idle"

\* The control thread samples the encoders again and again, whatever calls
\* are made: it never waits for the lock for ever.
ControlKeepsRunning == []<>(pc["control"] = "locked")

\* The driver as mds.h describes it, without threads or lock: the two
\* critical sections of mds_start_calibration are two steps of it, and what
\* the control thread does is at most to start or stop a motor.
Promised == INSTANCE MalletDrive WITH
    phase <- CASE mode = "ON" -> "driven"
               [] mode = "CALIBRATING" -> "calibrating"
               [] OTHER -> "released",
    calibrated <- is_calibrated,
    moving <- \E a \in Axes : en[a],
    target <- setpoint,
    low <- lower,
    high <- upper

KeepsPromise == Promised!Spec

\* mds.h:101 says of mds_stop_calibration that it gives the "boundary of
\* playfield": a location within the bounds it gives would then be one that
\* mds_set_location takes as it is.
ReportedIsPlayfield ==
    (pc["main"] = "unlock" /\ section = "mds_stop_calibration" /\ err = "SUCCESS") =>
        \A a \in Axes :
            lower[a] <= reported[a].lower /\ reported[a].upper <= upper[a]
=============================================================================
