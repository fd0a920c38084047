---------------------------- MODULE SerialGrammar ----------------------------
(***************************************************************************)
(* What the lines of the protocol mean, from the table of commands of      *)
(* README.md and not from the handlers: the reference that Serial is       *)
(* checked against.  It is not README.md's in one point: what a number is  *)
(* is taken from serial_read_float.  README.md:38 requires a               *)
(* floating-point representation, while the code takes any run of digits   *)
(* and points, "." and "1.2.3" among them, and no sign: MinusBeginsANumber *)
(* is about that.                                                          *)
(***************************************************************************)
EXTENDS Serial, StringToFloat, SequencesExt, FiniteSetsExt

\* Every command as README.md writes it; a "digit" stands for a number, which is
\* any run of digits and points as in serial_read_float (main.c:806).
Syntax ==
    [mds_set_pid_x |-> <<"M", "R", "X", "colon", "digit", "comma", "digit", "comma",
                         "digit", "comma", "digit">>,
     mds_set_pid_y |-> <<"M", "R", "Y", "colon", "digit", "comma", "digit", "comma",
                         "digit", "comma", "digit">>,
     mds_set_location      |-> <<"M", "L", "colon", "digit", "comma", "digit">>,
     mds_start             |-> <<"M", "S">>,
     mds_stop              |-> <<"M", "P">>,
     mds_start_calibration |-> <<"M", "C">>,
     mds_stop_calibration  |-> <<"M", "D">>]

\* A command and the end of its line; behind values there may be a comma.
Plain(f)     == Append(Syntax[f], "eol")
Comma(f)     == Syntax[f] \o <<"comma", "eol">>
Spellings(f) == IF FieldsOf[f] = {} THEN {Plain(f)} ELSE {Plain(f), Comma(f)}
Sentences    == UNION {Spellings(f) : f \in Commands}

\* The command that a line is, if it is one.
Means(l, f) == Append(l, "eol") \in Spellings(f)
Meaning(l) ==
    IF \E f \in Commands : Means(l, f) THEN CHOOSE f \in Commands : Means(l, f) ELSE "none"

\* The sentences that can still become of a text, and what comes next in them.
Sequels(p) == {s \in Sentences : Len(p) < Len(s) /\ IsPrefix(p, s)}
Follow(p)  == {s[Len(p) + 1] : s \in Sequels(p)}

\* The length of the part of a line that could still become a sentence, what
\* spoils it, and what would not have.
Good(l)     == Max({n \in 0..Len(l) : Sequels(SubSeq(l, 1, n)) # {}})
Spoiler(l)  == Append(l, "eol")[Good(l) + 1]
Expected(l) == Follow(SubSeq(l, 1, Good(l)))

\* The error for a token t where one of E should have come, and that of a line
\* that is no sentence: it is told by what should have come where the line goes
\* wrong.
Names(E, t) ==
    IF "M" \in E THEN "BAD_START"
    ELSE IF E \cap {"S", "X"} # {} THEN "BAD_MSG_TYPE"
    ELSE IF "digit" \in E /\ t \in {"comma", "eol"} THEN "PARSE_VALUE"
    ELSE IF E = {"eol"} THEN "TRAILING_CHARS"
    ELSE "BAD_SEPARATOR"
Fault(l) == Names(Expected(l), Spoiler(l))

\* The error that tells of an answer of the driver.
Told == [INIT |-> "MDS_INIT", UNCALIBRATED |-> "MDS_UNCALIBRATED",
         INVALID_MODE |-> "MDS_INVALID_MODE", INVALID_PARAM |-> "MDS_INVALID_PARAM",
         OUT_OF_BOUNDS |-> "MDS_OUT_OF_BOUNDS", BAD_CALIBRATION |-> "MDS_BAD_CALIBRATION",
         FAIL |-> "MDS_FAIL"]

-----------------------------------------------------------------------------
\* A line is carried out exactly when the table of commands has it, as that
\* command and never before its end: its letters, separators and number of
\* values, the optional comma behind them included.  What a value looks like is
\* not the matter of the table, but of ValueIsMeant and MinusBeginsANumber.
ExecutesCommandTable ==
    executed = IF ended /\ line # << >> THEN Meaning(line) ELSE "none"

\* The answer to a command says what the driver returned, although the two
\* enumerations only agree by position; that to any other line names the
\* first fault of the line, and nothing that follows it.
ReplyFits ==
    ended /\ line # << >> =>
        reply = IF executed = "none" THEN Fault(line)
                ELSE IF result # "SUCCESS" THEN Told[result]
                ELSE IF executed = "mds_stop_calibration" THEN "MI" ELSE "MA"

\* A text that serial_read_float has collected has the value that it means as
\* a decimal numeral exactly if the weights of its digits fit; a longer one is
\* taken for another value without an error.
ValueIsMeant ==
    IsNumeral(serial_buf) =>
        (string_to_float(serial_buf) = Meant(serial_buf) <=> WeightsFit(serial_buf))

\* README.md:38 asks for the "floating-point representation" of a number, and
\* mds.h:54 says that a loop is reversed "by negating the loop parameters": a
\* minus sign where a number is to begin would not be a fault.
MinusBeginsANumber ==
    serial_mode = "ERROR" /\ Last(line) = "minus" => "digit" \notin Expected(line)
=============================================================================
