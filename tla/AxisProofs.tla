----------------------------- MODULE AxisProofs -----------------------------
(***************************************************************************)
(* Proofs about Axis for every set of locations, setpoints and loop        *)
(* parameters, every supply and every period of the PWM.  What is said of  *)
(* the duty cycle needs saturations within the supply: with one beyond it  *)
(* TLC shows that the duty cycle leaves its range.                         *)
(***************************************************************************)
EXTENDS Axis, TLAPS

WithinSupply == \A p \in Params : p.sat <= Supply

\* What a drive begins with: an axis that is off is given no volts, and one
\* that has just been turned on has its mallet where it should be and nothing
\* to remember.
Fresh ==
    /\ ~on => command = 0 /\ ~en
    /\ on /\ passes = 0 =>
          /\ integral = 0 /\ last_error = 0 /\ command = 0
          /\ location = origin
          /\ ~commanded => setpoint = origin

IInv == TypeOK /\ RestsInDeadBand /\ NoImpulseAtStart /\ Fresh

Duty == DutyInRange /\ DutyIsCommanded

-----------------------------------------------------------------------------
(* Arithmetic *)

\* What the quotient of the output stage is.
LEMMA Division ==
    ASSUME NEW a \in Nat, NEW b \in Nat \ {0}
    PROVE  /\ a \div b \in Nat
           /\ b * (a \div b) <= a
           /\ a < b * (a \div b) + b
  OBVIOUS

\* A product grows with its factor.
LEMMA Scaling ==
    ASSUME NEW a \in Int, NEW b \in Int, NEW k \in Nat, a <= b
    PROVE  k * a <= k * b
  OBVIOUS

\* The percentage of the output stage is that of the volts, to the nearest
\* hundredth, and no more than all of the supply is 100%.
LEMMA PercentageBounds ==
    ASSUME NEW v \in Nat
    PROVE  /\ Percentage(v) \in Nat
           /\ 2 * (Supply * Percentage(v)) <= 20000 * v + Supply
           /\ 20000 * v < 2 * (Supply * Percentage(v)) + Supply
           /\ v <= Supply => Percentage(v) <= 10000
  <1> DEFINE p == Percentage(v)
             a == 2 * v * 10000 + Supply
             b == 2 * Supply
  <1>a. a \in Nat /\ b \in Nat \ {0} /\ p = a \div b
    BY StageAssumption DEF Percentage
  <1>b. p \in Nat /\ b * p <= a /\ a < b * p + b
    <2> HIDE DEF a, b, p
    <2> QED BY <1>a, Division
  <1>1. /\ p \in Nat
        /\ (2 * Supply) * p <= 20000 * v + Supply
        /\ 20000 * v + Supply < (2 * Supply) * p + 2 * Supply
    BY <1>b, StageAssumption
  <1>2. (2 * Supply) * p = 2 * (Supply * p)
    BY <1>1, StageAssumption
  <1>3. v <= Supply => p <= 10000
    <2> SUFFICES ASSUME v <= Supply, p >= 10001 PROVE FALSE
      BY <1>1
    <2>1. Supply * 10001 <= Supply * p
      BY <1>1, Scaling, StageAssumption
    <2> QED BY <1>1, <1>2, <2>1, StageAssumption
  <1> QED BY <1>1, <1>2, <1>3, StageAssumption

\* The width of the output stage is that of the volts to within its two
\* roundings, and at most the period.
LEMMA WidthBounds ==
    ASSUME NEW v \in Nat, v <= Supply
    PROVE  LET w == Width(Percentage(v))
           IN  /\ w \in Nat /\ w <= Period
               /\ (w - 1) * Supply < v * Period
               /\ v * Period < (w + 2) * Supply
  <1> DEFINE p == Percentage(v)
             a == Period * p
             w == a \div 10000
  <1>1. /\ p \in Nat /\ p <= 10000
        /\ 2 * (Supply * p) <= 20000 * v + Supply
        /\ 20000 * v < 2 * (Supply * p) + Supply
    BY PercentageBounds
  <1>2. a \in Nat /\ a <= 10000 * Period
    <2>1. Period * p <= Period * 10000
      BY <1>1, Scaling, StageAssumption
    <2> QED BY <1>1, <2>1, StageAssumption
  <1>3. w \in Nat /\ 10000 * w <= a /\ a < 10000 * w + 10000
    <2> HIDE DEF a
    <2> QED BY <1>2, Division
  <1>4. w <= Period
    BY <1>2, <1>3, StageAssumption
  <1>5. Width(p) = w
    <2>1. p % WidthSpan = p
      BY <1>1 DEF WidthSpan
    <2>2. w % WidthSpan = w
      <3> HIDE DEF w
      <3> QED BY <1>3, <1>4, StageAssumption DEF WidthSpan
    <2> QED BY <2>1, <2>2 DEF Width
  \* Both bounds, with Supply * Period * p taken for one number.
  <1> DEFINE sp == Supply * Period
             sa == Supply * a
             sw == Supply * w
             pv == Period * v
  <1>6. sp \in Nat /\ sa \in Nat /\ sw \in Nat /\ pv \in Nat /\ sp <= 19999 * Supply
    <2>1. Supply * Period <= Supply * 19999
      BY Scaling, StageAssumption
    <2> QED BY <1>2, <1>3, <2>1, StageAssumption
  <1>7. 10000 * sw <= sa /\ sa <= 10000 * sw + 10000 * Supply
    <2>1. Supply * (10000 * w) <= Supply * a
      BY <1>2, <1>3, Scaling, StageAssumption
    <2>2. Supply * a <= Supply * (10000 * w + 10000)
      BY <1>2, <1>3, Scaling, StageAssumption
    <2> QED BY <1>2, <1>3, <2>1, <2>2, StageAssumption
  <1>8. 2 * sa <= 20000 * pv + sp /\ 20000 * pv <= 2 * sa + sp
    <2>1. Period * (2 * (Supply * p)) <= Period * (20000 * v + Supply)
      BY <1>1, Scaling, StageAssumption
    <2>2. Period * (20000 * v) <= Period * (2 * (Supply * p) + Supply)
      BY <1>1, Scaling, StageAssumption
    <2>3. sa = Period * (Supply * p)
      BY <1>1, StageAssumption
    <2> QED BY <1>1, <2>1, <2>2, <2>3, StageAssumption
  <1>9. sw - Supply < pv /\ pv < sw + 2 * Supply
    <2> HIDE DEF sp, sa, sw, pv
    <2> QED BY <1>6, <1>7, <1>8, StageAssumption
  <1>10. (w - 1) * Supply = sw - Supply /\ (w + 2) * Supply = sw + 2 * Supply /\ v * Period = pv
    BY <1>3, StageAssumption
  <1> QED BY <1>3, <1>4, <1>5, <1>9, <1>10

\* The magnitude of a number, and of a multiple of one.
LEMMA Magnitudes ==
    ASSUME NEW n \in Int
    PROVE  /\ Magnitude(n) \in Nat
           /\ Magnitude(n) = 0 <=> n = 0
           /\ Magnitude(-n) = Magnitude(n)
           /\ \A k \in Nat : Magnitude(k * n) = k * Magnitude(n)
  <1>1. ASSUME NEW k \in Nat PROVE Magnitude(k * n) = k * Magnitude(n)
    <2>1. CASE n < 0
      <3>1. k * n <= 0 /\ k * n \in Int /\ k * (-n) = -(k * n)
        BY <2>1
      <3> QED BY <2>1, <3>1 DEF Magnitude
    <2>2. CASE n >= 0
      <3>1. k * n >= 0 /\ k * n \in Int
        BY <2>2
      <3> QED BY <2>2, <3>1 DEF Magnitude
    <2> QED BY <2>1, <2>2
  <1> QED BY <1>1 DEF Magnitude

-----------------------------------------------------------------------------
(* The steps *)

\* A width fits the compare register.
LEMMA WidthRange ==
    ASSUME NEW p \in Int
    PROVE  Width(p) \in Nat /\ Width(p) < WidthSpan
  <1> DEFINE q == (Period * (p % WidthSpan)) \div 10000
  <1>1. q \in Int
    BY StageAssumption DEF WidthSpan
  <1>2. Width(p) = q % WidthSpan
    BY DEF Width
  <1> HIDE DEF q
  <1> QED BY <1>1, <1>2 DEF WidthSpan

\* The register holds zero.
LEMMA RegisterSpan ==
    WidthSpan \in Nat /\ 0 < WidthSpan
  BY DEF WidthSpan

\* What mds_set_output_x does, for any loop parameters.
LEMMA Output ==
    ASSUME TypeOK, NEW volts \in Int, mds_set_output_x(volts)
    PROVE  /\ command' = volts
           /\ dir' \in BOOLEAN
           /\ \/ /\ Magnitude(volts) <= VoltThresh
                 /\ en' = FALSE /\ width' = 0
              \/ /\ Magnitude(volts) > VoltThresh
                 /\ en' = TRUE
                 /\ width' = Width(Percentage(Saturated(Magnitude(volts))))
                 /\ width' \in Nat /\ width' < WidthSpan
  <1>1. Magnitude(volts) \in Nat /\ params.sat \in Nat
    BY Magnitudes, InputAssumption DEF TypeOK
  <1>3. Percentage(Saturated(Magnitude(volts))) \in Int
    <2>1. Saturated(Magnitude(volts)) \in Nat
      BY <1>1 DEF Saturated
    <2> QED BY <2>1, PercentageBounds
  <1>4. LET w == Width(Percentage(Saturated(Magnitude(volts))))
        IN  w \in Nat /\ w < WidthSpan
    BY <1>3, WidthRange
  <1>5. CASE Magnitude(volts) <= VoltThresh
    <2>1. command' = volts /\ en' = FALSE /\ width' = 0 /\ dir' = dir
      BY <1>1, <1>5, StageAssumption DEF mds_set_output_x
    <2> QED BY <1>5, <2>1 DEF TypeOK
  <1>6. CASE Magnitude(volts) > VoltThresh
    <2>1. /\ command' = volts /\ en' = TRUE
          /\ width' = Width(Percentage(Saturated(Magnitude(volts))))
      BY <1>1, <1>6, StageAssumption DEF mds_set_output_x
    <2>2. dir' = TRUE \/ dir' = FALSE
      BY <1>1, <1>6, StageAssumption DEF mds_set_output_x
    <2> QED BY <1>4, <1>6, <2>1, <2>2
  <1>7. Magnitude(volts) <= VoltThresh \/ Magnitude(volts) > VoltThresh
    BY <1>1, StageAssumption
  <1> QED BY <1>5, <1>6, <1>7

\* An output of zero volts is none.
LEMMA OutputOfNothing ==
    ASSUME TypeOK, mds_set_output_x(0)
    PROVE  /\ command' = 0 /\ en' = FALSE /\ width' = 0
           /\ dir' \in BOOLEAN
  <1>1. Magnitude(0) <= VoltThresh /\ ~(Magnitude(0) > VoltThresh)
    BY StageAssumption DEF Magnitude
  <1>2. command' = 0 /\ en' = FALSE /\ width' = 0 /\ dir' = dir
    BY <1>1 DEF mds_set_output_x
  <1> QED BY <1>2 DEF TypeOK

\* The driver starts with everything at rest.
LEMMA InitIInv ==
    Init => IInv /\ Duty
  <1> SUFFICES ASSUME Init PROVE IInv /\ Duty
    OBVIOUS
  <1>1. TypeOK
    <2>1. params \in Params /\ location \in Locations /\ origin \in Locations
      BY InputAssumption DEF Init
    <2>2. integral \in -MaxIntegral..MaxIntegral /\ width \in Nat /\ width < WidthSpan
      BY StageAssumption, RegisterSpan DEF Init
    <2>3. /\ setpoint \in Int /\ last_error \in Int /\ command \in Int /\ error \in Int
          /\ passes \in 0..2
      BY DEF Init
    <2>4. on \in BOOLEAN /\ en \in BOOLEAN /\ dir \in BOOLEAN /\ commanded \in BOOLEAN
      BY DEF Init
    <2> QED BY <2>1, <2>2, <2>3, <2>4 DEF TypeOK
  <1>2. RestsInDeadBand /\ NoImpulseAtStart /\ Fresh /\ DutyIsCommanded
    BY DEF Init, RestsInDeadBand, NoImpulseAtStart, Fresh, DutyIsCommanded
  <1>3. DutyInRange
    BY StageAssumption DEF Init, DutyInRange
  <1> QED BY <1>1, <1>2, <1>3 DEF IInv, Duty

\* Every step keeps the invariant.
LEMMA NextIInv ==
    IInv /\ [Next]_vars => IInv'
  <1> SUFFICES ASSUME IInv, [Next]_vars PROVE IInv'
    OBVIOUS
  <1>0. TypeOK /\ RestsInDeadBand /\ NoImpulseAtStart /\ Fresh
    BY DEF IInv
  <1>1. CASE mds_set_pid_x
    <2>1. TypeOK'
      BY <1>0, <1>1 DEF mds_set_pid_x, TypeOK, outputs, history
    <2>2. (RestsInDeadBand /\ NoImpulseAtStart /\ Fresh)'
      BY <1>0, <1>1 DEF mds_set_pid_x, RestsInDeadBand, NoImpulseAtStart, Fresh, outputs, history
    <2> QED BY <2>1, <2>2 DEF IInv
  <1>2. CASE mds_start
    <2>1. setpoint' = location /\ last_error' = 0 /\ location \in Int
      BY <1>0, <1>2, InputAssumption DEF mds_start, TypeOK
    <2>2. TypeOK'
      <3>1. 0 \in -MaxIntegral..MaxIntegral
        BY StageAssumption
      <3>2. error' = 0 /\ setpoint' \in Int
        BY <1>2, <2>1 DEF mds_start
      <3>3. integral' \in -MaxIntegral..MaxIntegral /\ passes' \in 0..2
        BY <1>2, <3>1 DEF mds_start
      <3>4. /\ last_error' \in Int /\ error' \in Int
            /\ location' \in Locations /\ origin' \in Locations /\ params' \in Params
        BY <1>0, <1>2, <2>1, <3>2 DEF mds_start, TypeOK
      <3>5. on' \in BOOLEAN /\ commanded' \in BOOLEAN
        BY <1>2 DEF mds_start
      <3>6. /\ en' \in BOOLEAN /\ dir' \in BOOLEAN /\ command' \in Int
            /\ width' \in Nat /\ width' < WidthSpan
        BY <1>0, <1>2 DEF mds_start, outputs, TypeOK
      <3> QED BY <3>2, <3>3, <3>4, <3>5, <3>6 DEF TypeOK
    <2>3. ~en' /\ command' = 0
      BY <1>0, <1>2 DEF mds_start, Fresh, outputs
    <2>4. RestsInDeadBand' /\ Fresh'
      BY <1>2, <2>1, <2>3 DEF mds_start, RestsInDeadBand, Fresh
    <2>5. NoImpulseAtStart'
      <3>1. command' = 0 /\ location' - origin' = 0 /\ params' = params
        BY <1>2, <2>1, <2>3 DEF mds_start
      <3> QED BY <1>0, <3>1, InputAssumption DEF NoImpulseAtStart, Magnitude, TypeOK
    <2> QED BY <2>2, <2>4, <2>5 DEF IInv
  <1>3. CASE mds_stop
    <2>1. command' = 0 /\ en' = FALSE /\ width' = 0 /\ dir' \in BOOLEAN
      BY <1>0, <1>3, OutputOfNothing DEF mds_stop
    <2>2. TypeOK'
      <3>1. width' \in Nat /\ width' < WidthSpan /\ command' \in Int
        BY <2>1, RegisterSpan
      <3> QED BY <1>0, <1>3, <2>1, <3>1 DEF mds_stop, TypeOK, history
    <2>3. (RestsInDeadBand /\ NoImpulseAtStart /\ Fresh)'
      BY <1>3, <2>1 DEF mds_stop, RestsInDeadBand, NoImpulseAtStart, Fresh
    <2> QED BY <2>2, <2>3 DEF IInv
  <1>4. CASE mds_set_location
    <2>1. TypeOK'
      BY <1>0, <1>4, InputAssumption DEF mds_set_location, TypeOK, outputs
    <2>2. (RestsInDeadBand /\ NoImpulseAtStart /\ Fresh)'
      BY <1>0, <1>4 DEF mds_set_location, RestsInDeadBand, NoImpulseAtStart, Fresh, outputs
    <2> QED BY <2>1, <2>2 DEF IInv
  <1>5. CASE UpdateInside
    <2>1. command' = 0 /\ en' = FALSE /\ width' = 0 /\ dir' \in BOOLEAN
      BY <1>0, <1>5, OutputOfNothing DEF UpdateInside
    <2>2. error' \in Int /\ passes' \in 1..2
      BY <1>0, <1>5, InputAssumption DEF UpdateInside, Passed, TypeOK
    <2>3. TypeOK'
      <3>1. width' \in Nat /\ width' < WidthSpan /\ command' \in Int /\ passes' \in 0..2
        BY <2>1, <2>2, RegisterSpan
      <3> QED BY <1>0, <1>5, <2>1, <2>2, <3>1 DEF UpdateInside, Passed, TypeOK
    <2>4. RestsInDeadBand' /\ Fresh'
      BY <1>5, <2>1, <2>2 DEF UpdateInside, RestsInDeadBand, Fresh
    <2>5. NoImpulseAtStart'
      <3>1. /\ location' - origin' \in Int
            /\ params' \in [kp : Nat, ki : Nat, kd : Nat, sat : Nat]
        BY <2>3, InputAssumption DEF TypeOK
      <3>2. Magnitude(location' - origin') \in Nat
        BY <3>1, Magnitudes
      <3>3. (params'.kp + params'.ki + params'.kd) * Magnitude(location' - origin') \in Nat
        BY <3>1, <3>2
      <3>4. Magnitude(command') = 0
        BY <2>1 DEF Magnitude
      <3> QED BY <3>3, <3>4 DEF NoImpulseAtStart
    <2> QED BY <2>3, <2>4, <2>5 DEF IInv
  <1>6. CASE UpdateOutside
    <2> DEFINE volts == params.kp * error' + params.ki * integral'
                        + params.kd * (error' - last_error)
    <2>1. /\ location' \in Int /\ error' = setpoint - location' /\ error' \in Int
          /\ integral' = integral + error' /\ integral' \in Int
          /\ passes' \in 1..2
          /\ params \in [kp : Nat, ki : Nat, kd : Nat, sat : Nat]
      BY <1>0, <1>6, InputAssumption, StageAssumption DEF UpdateOutside, Passed, TypeOK
    <2>2. volts \in Int
      BY <1>0, <2>1 DEF TypeOK
    <2>3. /\ command' = volts /\ dir' \in BOOLEAN /\ en' \in BOOLEAN
          /\ width' \in Nat /\ width' < WidthSpan
      <3> HIDE DEF volts
      <3>1. mds_set_output_x(volts)
        BY <1>6 DEF UpdateOutside, volts
      <3>2. \/ en' = FALSE /\ width' = 0
            \/ en' = TRUE /\ width' \in Nat /\ width' < WidthSpan
        BY <1>0, <2>2, <3>1, Output
      <3>3. command' = volts /\ dir' \in BOOLEAN
        BY <1>0, <2>2, <3>1, Output
      <3>4. width' \in Nat /\ width' < WidthSpan
        BY <3>2, RegisterSpan
      <3> QED BY <3>2, <3>3, <3>4
    <2>4. integral' \in -MaxIntegral..MaxIntegral
      BY <1>6, <2>1, StageAssumption DEF UpdateOutside, Magnitude
    <2>5. TypeOK'
      BY <1>0, <1>6, <2>1, <2>2, <2>3, <2>4 DEF UpdateOutside, Passed, TypeOK
    <2>6. RestsInDeadBand' /\ Fresh'
      BY <1>6, <2>1 DEF UpdateOutside, RestsInDeadBand, Fresh
    <2>7. NoImpulseAtStart'
      <3> SUFFICES ASSUME ~commanded', passes' < 2
                   PROVE  Magnitude(command') <=
                            (params.kp + params.ki + params.kd) * Magnitude(location' - origin')
        BY <1>6 DEF UpdateOutside, NoImpulseAtStart
      <3>1. passes = 0 /\ on /\ ~commanded /\ origin' = origin
        BY <1>0, <1>6 DEF UpdateOutside, Passed, TypeOK
      <3>2. integral = 0 /\ last_error = 0 /\ setpoint = origin /\ origin \in Int
        BY <1>0, <3>1, InputAssumption DEF Fresh, TypeOK
      <3>3. error' = -(location' - origin') /\ location' - origin' \in Int
        BY <2>1, <3>1, <3>2
      <3>4. volts = (params.kp + params.ki + params.kd) * error'
        BY <2>1, <3>2
      <3>5. Magnitude(error') = Magnitude(location' - origin')
        BY <3>3, Magnitudes
      <3>6. params.kp + params.ki + params.kd \in Nat
        BY <2>1
      <3>7. Magnitude(volts) = (params.kp + params.ki + params.kd) * Magnitude(error')
        BY <2>1, <3>4, <3>6, Magnitudes
      <3>8. Magnitude(volts) \in Int
        BY <2>2, Magnitudes
      <3> HIDE DEF volts
      <3> QED BY <2>3, <3>5, <3>7, <3>8
    <2> QED BY <2>5, <2>6, <2>7 DEF IInv
  <1>7. CASE UpdateOff
    <2>1. command' = 0 /\ en' = FALSE /\ width' = 0 /\ dir' \in BOOLEAN
      BY <1>0, <1>7, OutputOfNothing DEF UpdateOff
    <2>2. TypeOK'
      <3>1. width' \in Nat /\ width' < WidthSpan /\ command' \in Int
        BY <2>1, RegisterSpan
      <3> QED BY <1>0, <1>7, <2>1, <3>1 DEF UpdateOff, TypeOK, history
    <2>3. (RestsInDeadBand /\ NoImpulseAtStart /\ Fresh)'
      BY <1>7, <2>1 DEF UpdateOff, RestsInDeadBand, NoImpulseAtStart, Fresh, history
    <2> QED BY <2>2, <2>3 DEF IInv
  <1>8. CASE UNCHANGED vars
    <2>1. TypeOK'
      BY <1>0, <1>8 DEF vars, outputs, history, TypeOK
    <2>2. (RestsInDeadBand /\ NoImpulseAtStart /\ Fresh)'
      BY <1>0, <1>8 DEF vars, outputs, history, RestsInDeadBand, NoImpulseAtStart, Fresh
    <2> QED BY <2>1, <2>2 DEF IInv
  <1> QED BY <1>1, <1>2, <1>3, <1>4, <1>5, <1>6, <1>7, <1>8 DEF Next

\* With saturations within the supply every step keeps the duty cycle in its
\* range and that of the command.
LEMMA NextDuty ==
    ASSUME WithinSupply
    PROVE  IInv /\ Duty /\ [Next]_vars => Duty'
  <1> SUFFICES ASSUME IInv, Duty, [Next]_vars PROVE Duty'
    OBVIOUS
  <1>0. TypeOK /\ RestsInDeadBand /\ Fresh
    BY DEF IInv
  <1>1. ASSUME NEW volts \in Int, mds_set_output_x(volts), params' = params
        PROVE  Duty'
    <2>1. /\ params.sat \in Nat /\ params.sat <= Supply
          /\ Magnitude(volts) \in Nat /\ Saturated(Magnitude(volts)) \in Nat
          /\ Saturated(Magnitude(volts)) <= Supply
      <3>1. params.sat \in Nat /\ params.sat <= Supply
        BY <1>0, InputAssumption DEF TypeOK, WithinSupply
      <3>2. Magnitude(volts) \in Nat
        BY Magnitudes
      <3> QED BY <3>1, <3>2, StageAssumption DEF Saturated
    <2>2. command' = volts /\ Saturated(Magnitude(command))' = Saturated(Magnitude(volts))
      BY <1>0, <1>1, Output DEF Saturated
    <2>3. CASE en' = FALSE /\ width' = 0
      BY <2>3, StageAssumption DEF Duty, DutyInRange, DutyIsCommanded
    <2>4. CASE en' = TRUE /\ width' = Width(Percentage(Saturated(Magnitude(volts))))
      <3> DEFINE v == Saturated(Magnitude(volts))
      <3>1. /\ width' <= Period
            /\ (width' - 1) * Supply < v * Period
            /\ v * Period < (width' + 2) * Supply
        <4> HIDE DEF v
        <4>1. v \in Nat /\ v <= Supply /\ width' = Width(Percentage(v))
          BY <2>1, <2>4 DEF v
        <4> DEFINE w == Width(Percentage(v))
        <4>2. w <= Period /\ (w - 1) * Supply < v * Period /\ v * Period < (w + 2) * Supply
          BY <4>1, WidthBounds
        <4>3. width' = w
          BY <4>1
        <4> HIDE DEF w
        <4> QED BY <4>2, <4>3
      <3> QED BY <2>2, <2>4, <3>1 DEF Duty, DutyInRange, DutyIsCommanded
    <2> QED BY <1>0, <1>1, <2>3, <2>4, Output
  <1>2. CASE mds_set_pid_x
    <2>1. ~en /\ UNCHANGED <<en, width>>
      BY <1>0, <1>2 DEF mds_set_pid_x, Fresh, outputs
    <2> QED BY <2>1 DEF Duty, DutyInRange, DutyIsCommanded
  <1>3. CASE mds_start \/ mds_set_location \/ UNCHANGED vars
    <2>1. UNCHANGED <<command, en, width, params>>
      BY <1>3 DEF mds_start, mds_set_location, vars, outputs
    <2> QED BY <2>1 DEF Duty, DutyInRange, DutyIsCommanded, Saturated
  <1>4. CASE mds_stop \/ UpdateInside \/ UpdateOff
    BY <1>1, <1>4 DEF mds_stop, UpdateInside, UpdateOff
  <1>5. CASE UpdateOutside
    <2> DEFINE volts == params.kp * error' + params.ki * integral'
                        + params.kd * (error' - last_error)
    <2>1. /\ error' \in Int /\ integral' \in Int /\ last_error \in Int
          /\ params \in [kp : Nat, ki : Nat, kd : Nat, sat : Nat]
      BY <1>0, <1>5, InputAssumption, StageAssumption DEF UpdateOutside, Passed, TypeOK
    <2>2. volts \in Int
      BY <2>1
    <2>3. mds_set_output_x(volts) /\ params' = params
      BY <1>5 DEF UpdateOutside
    <2> HIDE DEF volts
    <2> QED BY <1>1, <2>2, <2>3
  <1> QED BY <1>2, <1>3, <1>4, <1>5 DEF Next

-----------------------------------------------------------------------------
\* The inductive invariant holds in every reachable state.
THEOREM Invariance == Spec => []IInv
  BY InitIInv, NextIInv, PTL DEF Spec

\* The variables keep their types: the integral its bound, and the width the
\* register.
THEOREM TypeCorrectness == Spec => []TypeOK
  <1>1. IInv => TypeOK
    BY DEF IInv
  <1> QED BY <1>1, Invariance, PTL

\* Whatever the loop parameters, the first pass of a drive answers nothing but
\* the motion of the mallet since it was turned on (mds.c:542).
THEOREM StartHasNoImpulse == Spec => []NoImpulseAtStart
  <1>1. IInv => NoImpulseAtStart
    BY DEF IInv
  <1> QED BY <1>1, Invariance, PTL

\* A motor is only enabled outside the dead band (mds.c:681).
THEOREM DeadBandIsAtRest == Spec => []RestsInDeadBand
  <1>1. IInv => RestsInDeadBand
    BY DEF IInv
  <1> QED BY <1>1, Invariance, PTL

\* While no saturation is beyond the supply, the pulse is never longer than
\* the period, whatever the supply and the period (mds.c:808).
THEOREM DutyStaysInRange ==
    ASSUME WithinSupply
    PROVE  Spec => []DutyInRange
  <1>1. IInv /\ Duty /\ [Next]_vars => Duty'
    BY NextDuty
  <1>2. Duty => DutyInRange
    BY DEF Duty
  <1> QED BY <1>1, <1>2, InitIInv, Invariance, PTL DEF Spec

\* Then the duty cycle also is that of the command and of the saturation in
\* force, to within the roundings.
THEOREM DutyFollowsCommand ==
    ASSUME WithinSupply
    PROVE  Spec => []DutyIsCommanded
  <1>1. IInv /\ Duty /\ [Next]_vars => Duty'
    BY NextDuty
  <1>2. Duty => DutyIsCommanded
    BY DEF Duty
  <1> QED BY <1>1, <1>2, InitIInv, Invariance, PTL DEF Spec
=============================================================================
