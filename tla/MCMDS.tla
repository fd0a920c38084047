------------------------------- MODULE MCMDS -------------------------------
(* Constants for the model checking of MDS. *)
EXTENDS MDS

OneAxis == {"x"}
TwoAxes == {"x", "y"}

\* One axis with a safety zone and a dead band of one count: a calibration
\* must see a travel of two counts, and one of three leaves a play field that
\* a location can be inside of, above or below.
Counts1    == [a \in OneAxis |-> 0..3]
Safety1    == [a \in OneAxis |-> 1]
ErrThresh1 == [a \in OneAxis |-> 1]

\* The same with the fewest counts that can be calibrated, on both sides of
\* the zero that the encoder has at reset.
CountsMin == [a \in OneAxis |-> -1..1]

\* Two axes that differ: on x a calibration must see two counts, and y, of one
\* count and no safety zone, only has to agree.
CountsL    == [a \in TwoAxes |-> IF a = "x" THEN -1..1 ELSE {0}]
Safety2    == [a \in TwoAxes |-> IF a = "x" THEN 1 ELSE 0]
ErrThreshL == [a \in TwoAxes |-> 1]
=============================================================================
