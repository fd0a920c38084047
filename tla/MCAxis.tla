------------------------------- MODULE MCAxis -------------------------------
(* Constants for the model checking of Axis: a voltage is in hundredths.   *)
EXTENDS Axis

\* Locations on both sides of the origin of the calibration, with differences
\* inside the dead band, just outside it and far outside.
Places == {-13, 0, 4, 7, 12}

\* The parameters that mds.c starts x with, but for the integral constant,
\* which is rounded up.
DefaultX == [kp |-> 15, ki |-> 1, kd |-> 500, sat |-> 1000]

\* Two more: commands near the threshold of 0.1 V, and the full supply.
Weak == [kp |-> 2, ki |-> 0, kd |-> 0, sat |-> 1000]
Full == [kp |-> 100, ki |-> 7, kd |-> 3000, sat |-> 2000]

ParamsWithinSupply == {DefaultX, Weak, Full}
=============================================================================
