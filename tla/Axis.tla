-------------------------------- MODULE Axis --------------------------------
(***************************************************************************)
(* The controller and the output stage of one axis of the driver,          *)
(* motor_control/src/mds.c: what a pass of the control thread computes     *)
(* from the location, and what mds_set_output_x makes of it.  The lock,    *)
(* the calibration and the limits of a setpoint are in module MDS: here    *)
(* every call is one step, the driver is on or it is not, and a call that  *)
(* is refused is no step.  The axes have the same code, twice.             *)
(*                                                                         *)
(* Numbers are in fixed point: a length is a number of millimetres and a   *)
(* voltage a number of units of which Supply make MDS_SUPPLY_VOLTS, so     *)
(* that a gain is a number of units per millimetre.                        *)
(***************************************************************************)
EXTENDS Integers

CONSTANTS
    Locations,    \* where the mallet can be
    Setpoints,    \* the setpoints that mds_set_location records
    Params,       \* the loop parameters that mds_set_pid_x is given
    Default,      \* the loop parameters mds_info starts with
    ErrThresh,    \* MDS_ERR_THRESH_X
    VoltThresh,   \* MDS_VOLT_THRESH
    Supply,       \* MDS_SUPPLY_VOLTS
    Period,       \* pwm_config.period
    MaxIntegral   \* bound: the largest integral

ASSUME InputAssumption ==
    /\ Locations \subseteq Int /\ 0 \in Locations
    /\ Setpoints \subseteq Int
    /\ Params \subseteq [kp : Nat, ki : Nat, kd : Nat, sat : Nat]
    /\ Default \in Params
ASSUME StageAssumption ==
    /\ ErrThresh \in Nat /\ VoltThresh \in Nat /\ MaxIntegral \in Nat
    /\ Supply \in Nat \ {0}
    /\ Period \in 1..19999  \* less than two steps of the width in one of the percentage

VARIABLES
    on,          \* mode = MDS_MODE_ON
    params, setpoint, integral, last_error,
    location,    \* mds_counts_to_mm_x(count_x)
    command,     \* the argument of the latest mds_set_output_x
    en, dir,     \* the pads: motor enabled, and backwards
    width,       \* the compare register of the PWM channel
    \* history: the passes since the driver was turned on (2: two or more),
    \* whether a location has been set since then, where the mallet was then,
    \* and the error that the latest pass computed
    passes, commanded, origin, error

outputs == <<command, en, dir, width>>
history == <<passes, commanded, origin, error>>
vars    == <<on, params, setpoint, integral, last_error, location, outputs, history>>

-----------------------------------------------------------------------------
Magnitude(n) == IF n < 0 THEN -n ELSE n

\* The duty cycle for volts >= 0, in hundredths of a percent: lroundf.
Percentage(volts) == (2 * volts * 10000 + Supply) \div (2 * Supply)

\* The values of pwmcnt_t, which has 16 bits
WidthSpan == 65536

\* PWM_PERCENTAGE_TO_WIDTH: it makes a pwmcnt_t of the percentage as well.
Width(percentage) == ((Period * (percentage % WidthSpan)) \div 10000) % WidthSpan

Saturated(volts) == IF volts > params.sat THEN params.sat ELSE volts

\* mds_set_output_x(volts)
mds_set_output_x(volts) ==
    /\ command' = volts
    /\ \/ /\ Magnitude(volts) <= VoltThresh
          /\ en' = FALSE /\ width' = 0
          /\ UNCHANGED dir
       \/ /\ Magnitude(volts) > VoltThresh
          /\ \/ volts < 0 /\ dir' = TRUE
             \/ volts > 0 /\ dir' = FALSE
          /\ width' = Width(Percentage(Saturated(Magnitude(volts))))
          /\ en' = TRUE

-----------------------------------------------------------------------------
\* mds_init, in the mode that it leaves behind.
Init ==
    /\ on = FALSE
    /\ params = Default
    /\ setpoint = 0 /\ location = 0 /\ integral = 0 /\ last_error = 0
    /\ command = 0 /\ en = FALSE /\ dir = FALSE /\ width = 0
    /\ passes = 0 /\ commanded = FALSE /\ origin = 0 /\ error = 0

\* Mutant: loop parameters accepted while the driver is on.
mds_set_pid_x_AnyMode ==
    /\ params' \in Params
    /\ UNCHANGED <<on, setpoint, integral, last_error, location, outputs, history>>

\* mds_set_pid_x.  main.c never asks for a reversed loop.
mds_set_pid_x ==
    /\ ~on
    /\ params' \in Params
    /\ UNCHANGED <<on, setpoint, integral, last_error, location, outputs, history>>

\* Mutant: the integral of the last time is taken up again.
mds_start_KeepsIntegral ==
    /\ ~on
    /\ on' = TRUE
    /\ setpoint' = location
    /\ last_error' = 0
    /\ passes' = 0 /\ commanded' = FALSE /\ origin' = location /\ error' = 0
    /\ UNCHANGED <<params, integral, location, outputs>>

\* mds_start, when there is a calibration: from the location last sampled.
mds_start ==
    /\ ~on
    /\ on' = TRUE
    /\ setpoint' = location
    /\ integral' = 0
    /\ last_error' = setpoint' - location
    /\ passes' = 0 /\ commanded' = FALSE /\ origin' = location /\ error' = last_error'
    /\ UNCHANGED <<params, location, outputs>>

\* Mutant: only the mode is changed.
mds_stop_ModeOnly ==
    /\ on' = FALSE
    /\ UNCHANGED <<params, setpoint, integral, last_error, location, outputs, history>>

mds_stop ==
    /\ on' = FALSE
    /\ mds_set_output_x(0)
    /\ UNCHANGED <<params, setpoint, integral, last_error, location, history>>

mds_set_location ==
    /\ on
    /\ setpoint' \in Setpoints
    /\ commanded' = TRUE
    /\ UNCHANGED <<on, params, integral, last_error, location, outputs,
                   passes, origin, error>>

\* History: one more pass, which has computed the error e.
Passed(e) ==
    /\ passes' = IF passes < 2 THEN passes + 1 ELSE passes
    /\ error' = e
    /\ UNCHANGED <<commanded, origin>>

\* A pass with the driver on that finds the error within the dead band.
UpdateInside ==
    /\ on
    /\ location' \in Locations
    /\ Passed(setpoint - location')
    /\ Magnitude(error') <= ErrThresh
    /\ mds_set_output_x(0)
    /\ UNCHANGED <<on, params, setpoint, integral, last_error>>

\* A pass with the driver on that finds it outside.
UpdateOutside ==
    /\ on
    /\ location' \in Locations
    /\ Passed(setpoint - location')
    /\ Magnitude(error') > ErrThresh
    /\ integral' = integral + error'
    /\ Magnitude(integral') <= MaxIntegral
    /\ last_error' = error'
    /\ mds_set_output_x(params.kp * error' + params.ki * integral'
                        + params.kd * (error' - last_error))
    /\ UNCHANGED <<on, params, setpoint>>

\* A pass with the driver off.  A calibration, too, may change what the
\* location is: its origin moves.
UpdateOff ==
    /\ ~on
    /\ location' \in Locations
    /\ mds_set_output_x(0)
    /\ UNCHANGED <<on, params, setpoint, integral, last_error, history>>

Next ==
    \/ mds_set_pid_x \/ mds_start \/ mds_stop \/ mds_set_location
    \/ UpdateInside \/ UpdateOutside \/ UpdateOff

Spec == Init /\ [][Next]_vars

-----------------------------------------------------------------------------
(* Properties *)

\* The types of the variables.
TypeOK ==
    /\ on \in BOOLEAN /\ en \in BOOLEAN /\ dir \in BOOLEAN /\ commanded \in BOOLEAN
    /\ params \in Params
    /\ setpoint \in Int /\ last_error \in Int /\ command \in Int /\ error \in Int
    /\ location \in Locations /\ origin \in Locations
    /\ integral \in -MaxIntegral..MaxIntegral
    /\ width \in Nat /\ width < WidthSpan
    /\ passes \in 0..2

\* The pulse is never longer than the period of the PWM, although nothing in
\* mds_set_output_x compares the two (mds.c:804-809): pwm.h:155 asks for a
\* percentage "between 0 and 10000", and gets what volts and saturation give.
DutyInRange == width <= Period

\* The duty cycle in force is that of the latest command and of the
\* saturation in force, to within the two roundings: less than a step of the
\* PWM too much and less than two too little.  A saturation that is set later
\* never meets a motor that was given more.
DutyIsCommanded ==
    LET ideal == Saturated(Magnitude(command)) * Period
    IN  IF en THEN (width - 1) * Supply < ideal /\ ideal < (width + 2) * Supply
        ELSE width = 0

\* "Avoid impulse on first timestep" (mds.c:542): unless a location has been
\* set by then, the first pass after the driver is turned on answers nothing
\* but the motion of the mallet since the sample that it was turned on with,
\* whatever an earlier drive left in the integral, the last error, the
\* setpoint and the outputs.
NoImpulseAtStart ==
    (on /\ ~commanded /\ passes < 2) =>
        Magnitude(command) <=
            (params.kp + params.ki + params.kd) * Magnitude(location - origin)

\* A motor is only enabled by a pass that found the mallet outside the dead
\* band: all that module MDS has of the controller.
RestsInDeadBand == en => on /\ Magnitude(error) > ErrThresh
=============================================================================
