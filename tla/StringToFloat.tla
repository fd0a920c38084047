---------------------------- MODULE StringToFloat ----------------------------
(***************************************************************************)
(* string_to_float of motor_control/src/main.c: the value of the digits    *)
(* and points that serial_read_float has collected, read from the end with *)
(* a weight that wraps in 32 bits.  A value is a pair of a number and of   *)
(* the power of ten that it is divided by; the rounding of floats is left  *)
(* out, and so is a sign, which serial_read_float never lets through.      *)
(***************************************************************************)
EXTENDS Integers, Sequences

CONSTANT WeightSpan     \* the number of values of the weight: 2^32 in the code

ASSUME WeightAssumption == WeightSpan \in Nat \ {0, 1}

Digit == [c \in {"0", "1", "9"} |-> CASE c = "0" -> 0 [] c = "1" -> 1 [] c = "9" -> 9]

\* Mutant: the point is counted as a decimal place.
Accumulate_PointCounts(c, acc) ==
    IF c = "."
    THEN [acc EXCEPT !.seen = @ + 1, !.exp = acc.seen + 1]
    ELSE [acc EXCEPT !.seen = @ + 1, !.number = @ + Digit[c] * acc.digit,
                     !.digit = (@ * 10) % WeightSpan]

\* A character, read from the end of the text.
Accumulate(c, acc) ==
    IF c = "."
    THEN [acc EXCEPT !.seen = @ + 1, !.exp = acc.seen]
    ELSE [acc EXCEPT !.seen = @ + 1, !.number = @ + Digit[c] * acc.digit,
                     !.digit = (@ * 10) % WeightSpan]

\* What has been gathered when the last n characters have been read, for every n.
ReadBack(buf) ==
    LET end[n \in 0..Len(buf)] ==
            IF n = 0 THEN [number |-> 0, digit |-> 1, exp |-> 0, seen |-> 0]
            ELSE Accumulate(buf[Len(buf) - n + 1], end[n - 1])
    IN  end

string_to_float(buf) ==
    LET end == ReadBack(buf)[Len(buf)]
    IN  [number |-> end.number, exp |-> end.exp]

-----------------------------------------------------------------------------
(* What a decimal numeral means *)

Points(buf) == {i \in DOMAIN buf : buf[i] = "."}

\* Digits with one point at most.
IsNumeral(buf) == Points(buf) # DOMAIN buf /\ \A i, j \in Points(buf) : i = j

\* The number that the first n characters make, the point aside, for every n.
ReadOn(buf) ==
    LET up[n \in 0..Len(buf)] ==
            IF n = 0 THEN 0
            ELSE IF buf[n] = "." THEN up[n - 1]
            ELSE 10 * up[n - 1] + Digit[buf[n]]
    IN  up

Meant(buf) ==
    [number |-> ReadOn(buf)[Len(buf)],
     exp    |-> IF Points(buf) = {} THEN 0
                ELSE Len(buf) - (CHOOSE i \in Points(buf) : TRUE)]

PowerOfTen[n \in Nat] == IF n = 0 THEN 1 ELSE 10 * PowerOfTen[n - 1]

\* The digits behind the i-th character of a numeral.
Behind(buf, i) == Len(buf) - i - (IF \E j \in Points(buf) : i < j THEN 1 ELSE 0)

\* The code counts to the weight of every digit but leading zeros: it has ten
\* of them with its 32 bits.
WeightsFit(buf) ==
    \A i \in DOMAIN buf :
        buf[i] \in {"0", "."} \/ PowerOfTen[Behind(buf, i)] < WeightSpan

=============================================================================
