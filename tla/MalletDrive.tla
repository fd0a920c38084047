----------------------------- MODULE MalletDrive -----------------------------
(***************************************************************************)
(* What motor_control/inc/mds.h promises of the Mallet Drive System, as    *)
(* one machine without threads or locks: the mallet is released, is being  *)
(* calibrated or is driven; it is only driven once calibrated, and only    *)
(* towards where it was taken over or a location within its bounds.        *)
(***************************************************************************)
EXTENDS Integers

CONSTANT Axes   \* the driven axes

VARIABLES
    phase,        \* "released", "calibrating" or "driven"
    calibrated,   \* whether the bounds are those of a valid calibration
    moving,       \* whether a motor may be turning
    target,       \* the location driven to, per axis
    low, high     \* the bounds of a location, per axis

vars == <<phase, calibrated, moving, target, low, high>>

Init ==
    /\ phase = "released"
    /\ calibrated = FALSE
    /\ moving = FALSE
    /\ target \in [Axes -> Int]
    /\ low \in [Axes -> Int] /\ high \in [Axes -> Int]

\* mds_stop: "Releases MDS controll of the mallet", from any phase.
Release ==
    /\ phase' = "released"
    /\ moving' = FALSE
    /\ UNCHANGED <<calibrated, target, low, high>>

\* mds_start_calibration, of a mallet that has been stopped.
BeginCalibration ==
    /\ phase = "released"
    /\ ~moving
    /\ phase' = "calibrating"
    /\ calibrated' = FALSE
    /\ UNCHANGED <<moving, target, low, high>>

\* mds_stop_calibration: bounds are found, or nothing changes.
EndCalibration ==
    /\ phase = "calibrating"
    /\ phase' = "released"
    /\ \/ /\ calibrated' = TRUE
          /\ {low', high'} \subseteq [Axes -> Int]
          /\ \A a \in Axes : low'[a] <= high'[a]
       \/ UNCHANGED <<calibrated, low, high>>
    /\ UNCHANGED <<moving, target>>

\* mds_start: where the mallet is becomes the target.
Start ==
    /\ phase = "released"
    /\ calibrated
    /\ phase' = "driven"
    /\ target' \in [Axes -> Int]
    /\ UNCHANGED <<calibrated, moving, low, high>>

\* mds_set_location: the target is within the bounds, whatever was asked for.
SetLocation ==
    /\ phase = "driven"
    /\ target' \in [Axes -> Int]
    /\ \A a \in Axes : low[a] <= target'[a] /\ target'[a] <= high[a]
    /\ UNCHANGED <<phase, calibrated, moving, low, high>>

\* The control loop starts or stops a motor.
Drive ==
    /\ phase = "driven"
    /\ moving' \in BOOLEAN
    /\ UNCHANGED <<phase, calibrated, target, low, high>>

Next == Release \/ BeginCalibration \/ EndCalibration \/ Start \/ SetLocation \/ Drive

Spec == Init /\ [][Next]_vars

-----------------------------------------------------------------------------
\* mds_start_calibration seen from outside: Release and BeginCalibration at once.
StartCalibration ==
    /\ phase' = "calibrating"
    /\ moving' = FALSE
    /\ calibrated' = FALSE
    /\ UNCHANGED <<target, low, high>>

\* The machine for one who sees whole calls only, and a board that may lose its
\* power and start again.
CalledSpec == Init /\ [][Next \/ StartCalibration \/ Init']_vars
=============================================================================
