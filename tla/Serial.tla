------------------------------- MODULE Serial -------------------------------
(***************************************************************************)
(* The serial command interpreter of the MDS board,                        *)
(* motor_control/src/main.c: main() takes a character from the serial port *)
(* and gives it to the handler of the mode it is in.  A line that makes a  *)
(* command is carried out and answered; any other line is answered with an *)
(* error.                                                                  *)
(*                                                                         *)
(* Characters are told apart only as far as the handlers do: CR and LF are *)
(* "eol", and punctuation is written by its name.  A value is the text of  *)
(* its figures (module StringToFloat); what matters of it here is which    *)
(* line it came from.                                                      *)
(* What the driver answers to a command is any answer it has (module MDS). *)
(***************************************************************************)
EXTENDS Integers, Sequences

CONSTANT MaxDigits  \* bound: the most digits sent for one value

ASSUME MaxDigitsAssumption == MaxDigits \in Nat \ {0}

Letters == {"M", "R", "X", "Y", "L", "S", "P", "C", "D"}
Figures == {"0", "1", "9", "."}     \* three digits for ten, and the point
Chars   == Letters \cup Figures \cup {"colon", "comma", "minus", "eol", "other"}

\* The modes that take a value, with the mode that takes the next one.
NextValue == [PARAM_X_P |-> "PARAM_X_I", PARAM_X_I |-> "PARAM_X_D",
              PARAM_X_D |-> "PARAM_X_S",
              PARAM_Y_P |-> "PARAM_Y_I", PARAM_Y_I |-> "PARAM_Y_D",
              PARAM_Y_D |-> "PARAM_Y_S",
              LOCATION_X |-> "LOCATION_Y"]

\* The modes that take the last value of a line, and those that only wait for
\* its end, with the command that is then carried out.
LastValue == [PARAM_X_S |-> "mds_set_pid_x", PARAM_Y_S |-> "mds_set_pid_y",
              LOCATION_Y |-> "mds_set_location"]
Immediate == [RUN |-> "mds_start", STOP |-> "mds_stop",
              CALIBRATE |-> "mds_start_calibration",
              CALIBRATE_DONE |-> "mds_stop_calibration"]

\* The other modes: which character leads to which mode, and the error that
\* every other character is.
Keyword == { <<"IDLE", "M", "STARTED">>,
             <<"STARTED", "R", "PARAM">>, <<"STARTED", "L", "LOCATION">>,
             <<"STARTED", "S", "RUN">>, <<"STARTED", "P", "STOP">>,
             <<"STARTED", "C", "CALIBRATE">>, <<"STARTED", "D", "CALIBRATE_DONE">>,
             <<"PARAM", "X", "PARAM_X">>, <<"PARAM", "Y", "PARAM_Y">>,
             <<"PARAM_X", "colon", "PARAM_X_P">>, <<"PARAM_Y", "colon", "PARAM_Y_P">>,
             <<"LOCATION", "colon", "LOCATION_X">> }
BadKeyword == [IDLE |-> "BAD_START", STARTED |-> "BAD_MSG_TYPE",
               PARAM |-> "BAD_MSG_TYPE", PARAM_X |-> "BAD_SEPARATOR",
               PARAM_Y |-> "BAD_SEPARATOR", LOCATION |-> "BAD_SEPARATOR"]

Fields == DOMAIN NextValue \cup DOMAIN LastValue
Modes  == Fields \cup DOMAIN Immediate \cup DOMAIN BadKeyword \cup {"ERROR"}

\* The fields that the driver is given with a command
FieldsOf == [mds_set_pid_x |-> {"PARAM_X_P", "PARAM_X_I", "PARAM_X_D", "PARAM_X_S"},
             mds_set_pid_y |-> {"PARAM_Y_P", "PARAM_Y_I", "PARAM_Y_D", "PARAM_Y_S"},
             mds_set_location |-> {"LOCATION_X", "LOCATION_Y"},
             mds_start |-> {}, mds_stop |-> {}, mds_start_calibration |-> {},
             mds_stop_calibration |-> {}]
Commands == DOMAIN FieldsOf

\* The result of a driver call is stored in serial_error as it is: the two
\* enumerations agree by their order alone.
mds_err_t == <<"SUCCESS", "INIT", "UNCALIBRATED", "INVALID_MODE", "INVALID_PARAM",
               "OUT_OF_BOUNDS", "BAD_CALIBRATION", "FAIL">>
\* Mutant: one error of the driver is missing from the second.
serial_error_t_Short == <<"NONE", "MDS_INIT", "MDS_UNCALIBRATED", "MDS_INVALID_MODE",
                    "MDS_INVALID_PARAM", "MDS_BAD_CALIBRATION",
                    "MDS_FAIL", "BAD_START", "BAD_MSG_TYPE", "BAD_SEPARATOR",
                    "PARSE_VALUE", "TRAILING_CHARS">>

serial_error_t == <<"NONE", "MDS_INIT", "MDS_UNCALIBRATED", "MDS_INVALID_MODE",
                    "MDS_INVALID_PARAM", "MDS_OUT_OF_BOUNDS", "MDS_BAD_CALIBRATION",
                    "MDS_FAIL", "BAD_START", "BAD_MSG_TYPE", "BAD_SEPARATOR",
                    "PARSE_VALUE", "TRAILING_CHARS">>
Errors == {serial_error_t[i] : i \in DOMAIN serial_error_t}

\* What the driver may return for a command
Results == [mds_set_pid_x |-> {"SUCCESS", "INVALID_MODE"},
            mds_set_pid_y |-> {"SUCCESS", "INVALID_MODE"},
            mds_set_location |-> {"SUCCESS", "OUT_OF_BOUNDS", "INVALID_MODE"},
            mds_start |-> {"SUCCESS", "UNCALIBRATED", "INVALID_MODE"},
            mds_stop |-> {"SUCCESS"},
            mds_start_calibration |-> {"SUCCESS"},
            mds_stop_calibration |-> {"SUCCESS", "BAD_CALIBRATION", "INVALID_MODE"}]

VARIABLES
    serial_mode, serial_error, serial_buf,
    at,         \* "flush": start of main; "loop": in its loop; "trailing":
                \* in the sdGet that follows the comma after a last value
    \* history, of the latest line: its characters up to its first fault, with
    \* "digit" for the figures of a number,
    \* whether it has ended, the fields whose values came from it, the answers
    \* it has had, the last of them ("MO", "MA", "MI" or the error of an "ME"),
    \* the command that was carried out and what the driver returned for it
    line, ended, fresh, answers, reply, executed, result

history == <<line, ended, fresh, answers, reply, executed, result>>

vars == <<serial_mode, serial_error, serial_buf, at, history>>

-----------------------------------------------------------------------------
Init ==
    /\ serial_mode = "IDLE" /\ serial_error = "NONE" /\ serial_buf = << >>
    /\ at = "flush"
    /\ line = << >> /\ ended = TRUE /\ fresh = {}
    /\ answers = 1 /\ reply = "none" /\ executed = "none" /\ result = "SUCCESS"

\* The end of the flushing of the serial port: the power-on signal is sent.
\* What was received before is dropped, and no step of this module sees it.
PowerOn ==
    /\ at = "flush"
    /\ at' = "loop"
    /\ reply' = "MO"
    /\ UNCHANGED <<serial_mode, serial_error, serial_buf, line, ended,
                   fresh, answers, executed, result>>

\* The board is reset, in the middle of a line perhaps.
Reset ==
    /\ at # "flush"
    /\ serial_mode' = "IDLE" /\ serial_error' = "NONE" /\ serial_buf' = << >>
    /\ at' = "flush"
    /\ line' = << >> /\ ended' = TRUE /\ fresh' = {}
    /\ answers' = 1 /\ reply' = "none" /\ executed' = "none" /\ result' = "SUCCESS"

-----------------------------------------------------------------------------
(* What the handlers do, in terms of the character c just taken *)

\* The first character of a line.
Begins(c) == ended /\ c # "eol"

Class(c) == IF c \in Figures THEN "digit" ELSE c

\* One more figure of a number.
Continues(c) == c \in Figures /\ line[Len(line)] = "digit"

\* History: the line as it has been received so far.
Record(c) ==
    /\ ended' = (c = "eol")
    /\ line' = IF Begins(c) THEN <<Class(c)>>
               ELSE IF c = "eol" \/ serial_mode = "ERROR" \/ Continues(c) THEN line
               ELSE Append(line, Class(c))

\* No answer, and no command carried out.
Silent(c) ==
    \/ /\ Begins(c)
       /\ answers' = 0 /\ reply' = "none" /\ executed' = "none" /\ result' = "SUCCESS"
    \/ ~Begins(c) /\ UNCHANGED <<answers, reply, executed, result>>

Answer(r) == reply' = r /\ answers' = answers + 1

\* Mutant: an error found at the very end of a line waits for the next line.
serial_set_error_Late(e, c) ==
    /\ serial_mode' = "ERROR" /\ serial_error' = e
    /\ Silent(c)

\* serial_set_error(e, c)
serial_set_error(e, c) ==
    \/ /\ c = "eol"
       /\ Answer(e)
       /\ serial_mode' = "IDLE" /\ serial_error' = "NONE"
       /\ UNCHANGED <<executed, result>>
    \/ /\ c # "eol"
       /\ serial_mode' = "ERROR" /\ serial_error' = e
       /\ Silent(c)

\* The command f is given to the driver and answered.
Execute(f) ==
    \E e \in Results[f], i \in DOMAIN mds_err_t :
        /\ mds_err_t[i] = e
        /\ executed' = f
        /\ result' = e
        /\ Answer(IF serial_error_t[i] # "NONE" THEN serial_error_t[i]
                  ELSE IF f = "mds_stop_calibration" THEN "MI" ELSE "MA")
        /\ serial_mode' = "IDLE" /\ serial_error' = "NONE"

-----------------------------------------------------------------------------
(* The handlers *)

\* serial_mode_{idle,started,param,param_x,param_y,location}_handler
KeywordHandler(c) ==
    /\ serial_mode \in DOMAIN BadKeyword
    /\ \/ \E m \in Modes : /\ <<serial_mode, c, m>> \in Keyword
                           /\ serial_mode' = m
                           /\ Silent(c)
                           /\ UNCHANGED serial_error
       \/ /\ serial_mode = "IDLE" /\ c = "eol"
          /\ Silent(c)
          /\ UNCHANGED <<serial_mode, serial_error>>
       \/ /\ ~(serial_mode = "IDLE" /\ c = "eol")
          /\ ~\E m \in Modes : <<serial_mode, c, m>> \in Keyword
          /\ serial_set_error(BadKeyword[serial_mode], c)
    /\ fresh' = IF Begins(c) THEN {} ELSE fresh
    /\ UNCHANGED <<serial_buf, at>>

\* Mutant: the digits read so far stay in serial_buf.
serial_read_float_Bad_KeepsDigits(c) ==
    /\ c \notin Figures \cup {"comma", "eol"}
    /\ serial_set_error("BAD_SEPARATOR", c)
    /\ UNCHANGED <<serial_buf, fresh>>

\* serial_read_float, when it does not return 0: a digit is kept, and an
\* empty value and a character that is no part of a value are errors.
serial_read_float_Digit(c) ==
    /\ c \in Figures
    /\ serial_buf' = Append(serial_buf, c)
    /\ Silent(c)
    /\ UNCHANGED <<serial_mode, serial_error, fresh>>

serial_read_float_Empty(c) ==
    /\ c \in {"comma", "eol"}
    /\ serial_buf = << >>
    /\ serial_set_error("PARSE_VALUE", c)
    /\ UNCHANGED <<serial_buf, fresh>>

serial_read_float_Bad(c) ==
    /\ c \notin Figures \cup {"comma", "eol"}
    /\ serial_buf' = << >>
    /\ serial_set_error("BAD_SEPARATOR", c)
    /\ UNCHANGED fresh

Unfinished(c) ==
    \/ serial_read_float_Digit(c)
    \/ serial_read_float_Empty(c)
    \/ serial_read_float_Bad(c)

\* serial_read_float returns 0: the value of this mode is complete.
Finished(c) ==
    /\ c \in {"comma", "eol"}
    /\ serial_buf # << >>
    /\ serial_buf' = << >>
    /\ fresh' = fresh \cup {serial_mode}

\* The handlers of a value that another one follows.
ValueHandler(c) ==
    /\ serial_mode \in DOMAIN NextValue
    /\ \/ Unfinished(c)
       \/ /\ Finished(c)
          /\ \/ /\ c = "comma"
                /\ serial_mode' = NextValue[serial_mode]
                /\ Silent(c)
                /\ UNCHANGED serial_error
             \/ c = "eol" /\ serial_set_error("BAD_SEPARATOR", c)
    /\ UNCHANGED at

\* The handlers of a last value: the end of the line carries the command out,
\* a comma makes the handler read one more character.
LastValueHandler(c) ==
    /\ serial_mode \in DOMAIN LastValue
    /\ \/ Unfinished(c) /\ UNCHANGED at
       \/ /\ Finished(c)
          /\ \/ /\ c = "comma"
                /\ at' = "trailing"
                /\ Silent(c)
                /\ UNCHANGED <<serial_mode, serial_error>>
             \/ /\ c = "eol"
                /\ Execute(LastValue[serial_mode])
                /\ UNCHANGED at

\* Mutant: the character after the comma is taken for the end of the line.
TrailingRead_Unchecked(c) ==
    /\ at' = "loop"
    /\ Execute(LastValue[serial_mode])
    /\ UNCHANGED <<serial_buf, fresh>>

\* The rest of that handler, with the character after the comma.
TrailingRead(c) ==
    /\ at' = "loop"
    /\ \/ c = "eol" /\ Execute(LastValue[serial_mode])
       \/ c # "eol" /\ serial_set_error("TRAILING_CHARS", c)
    /\ UNCHANGED <<serial_buf, fresh>>

\* serial_mode_{run,stop,calibrate,calibrate_done}_handler
ImmediateHandler(c) ==
    /\ serial_mode \in DOMAIN Immediate
    /\ \/ c = "eol" /\ Execute(Immediate[serial_mode])
       \/ c # "eol" /\ serial_set_error("TRAILING_CHARS", c)
    /\ UNCHANGED <<serial_buf, at, fresh>>

serial_mode_error_handler(c) ==
    /\ serial_mode = "ERROR"
    /\ \/ /\ c = "eol"
          /\ Answer(serial_error)
          /\ serial_mode' = "IDLE" /\ serial_error' = "NONE"
          /\ UNCHANGED <<executed, result>>
       \/ /\ c # "eol"
          /\ Silent(c)
          /\ UNCHANGED <<serial_mode, serial_error>>
    /\ UNCHANGED <<serial_buf, at, fresh>>

Handler(c) ==
    \/ KeywordHandler(c) \/ ValueHandler(c) \/ LastValueHandler(c)
    \/ ImmediateHandler(c) \/ serial_mode_error_handler(c)

\* sdGet returns c, in the loop of main or in the handler of a last value.
Get(c) ==
    /\ c \in Figures => Len(serial_buf) < MaxDigits
    /\ Record(c)
    /\ \/ at = "loop" /\ Handler(c)
       \/ at = "trailing" /\ TrailingRead(c)

Next == PowerOn \/ Reset \/ \E c \in Chars : Get(c)

Spec == Init /\ [][Next]_vars

-----------------------------------------------------------------------------
\* The types of the variables.
TypeOK ==
    /\ serial_mode \in Modes
    /\ serial_error \in Errors
    /\ serial_buf \in Seq(Figures) /\ Len(serial_buf) <= MaxDigits
    /\ at \in {"flush", "loop", "trailing"}
    /\ fresh \subseteq Fields
    /\ reply \in Errors \cup {"none", "MO", "MA", "MI"}
    /\ result \in {mds_err_t[i] : i \in DOMAIN mds_err_t}
    /\ line \in Seq({Class(c) : c \in Chars}) /\ ended \in BOOLEAN /\ answers \in Nat
    /\ executed \in Commands \cup {"none"}

\* A line has one answer when it has ended and none before: the host reads one
\* line after each it writes.  Where the answer is sent depends on the mode,
\* on the character and on who reads it (main.c:518, 788, 846).
OneAnswerPerLine == answers = IF ended THEN 1 ELSE 0

\* Nothing is left of a line that broke off half way: no value (they are static)
\* that the next command would be carried out with, no digit that its next
\* number would begin with (serial_buf is static too), and no error.
NothingLeftOver ==
    /\ ended /\ executed # "none" => FieldsOf[executed] \subseteq fresh
    /\ serial_mode \notin Fields \/ at = "trailing" => serial_buf = << >>
    /\ serial_error # "NONE" <=> serial_mode = "ERROR"
    /\ serial_mode = "IDLE" <=> ended
=============================================================================
