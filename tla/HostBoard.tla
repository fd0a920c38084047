------------------------------ MODULE HostBoard ------------------------------
(***************************************************************************)
(* The main loop of the vision host, vector prediction/vector_final.py,    *)
(* and the motor board on the serial line between them.  The host writes a *)
(* command, waits a second at most for a line and takes what it reads, or  *)
(* nothing, for the answer.  Nothing ties an answer to its command but the *)
(* order of both, and the host never drops what it has not read.           *)
(*                                                                         *)
(* The board is reduced to what modules Serial and MDS show of it: a line  *)
(* has one answer, and the driver is released, calibrated or driven as     *)
(* MalletDrive has it.  A reset cuts the command that is being received    *)
(* and the answer that is being sent, and a time-out may return a part of  *)
(* an answer.                                                              *)
(***************************************************************************)
EXTENDS Integers, Sequences

CONSTANTS
    MaxFaults,          \* bound: answers that are late and resets, together
    MaxCalibrations     \* bound: calibrations that the host begins

ASSUME HostBoardAssumption == MaxFaults \in Nat /\ MaxCalibrations \in Nat

Commands == {"MC", "MD", "MRX", "MRY", "MS", "ML", "MP"}

\* Mutant: a game is left without its stop.
Program_NoStop ==
           { <<"idle", "MC", "corners">>,   <<"corners", "MD", "idle">>,
             <<"idle", "MRX", "params">>,   <<"params", "MRY", "ready">>,
             <<"ready", "MS", "playing">>,
             <<"playing", "ML", "playing">>, <<"playing", "ML", "idle">> }

\* The order in which the host gives its commands: where it is, the command,
\* and where it goes on when the call has returned, whatever the answer was.
Program == { <<"idle", "MC", "corners">>,   <<"corners", "MD", "idle">>,
             <<"idle", "MRX", "params">>,   <<"params", "MRY", "ready">>,
             <<"ready", "MS", "playing">>,
             <<"playing", "ML", "playing">>, <<"playing", "MP", "idle">> }

VARIABLES
    \* the host
    at,             \* where its main loop is, or will be after the call, or
                    \* "dead" when a call has raised an exception
    asked,          \* the command whose call has not returned, or "none"
    x_calibration,  \* the calibration that x_calibration_min and _max come
                    \* from, 0 when both are zero
    digits,         \* "all" of theirs, or the last ones were "lost"
    \* the serial line
    commands,       \* commands that the board has not taken
    answers,        \* lines of the board that the host has not read
    \* the board
    phase,          \* "released", "calibrating", "driven", or "booting"
    current,        \* the calibration that it is in
    calibrated,     \* the calibration in force, or 0
    \* history
    begun,          \* the calibrations begun by the host
    faults          \* the answers that were late and the resets of the board

host    == <<at, asked, x_calibration, digits, begun>>
board   == <<phase, current, calibrated>>
vars    == <<host, commands, answers, board, faults>>

\* A command, with the calibration that it belongs to (history), or what is left
\* of one.
Command(c, n) == [name |-> c, of |-> n]
CommandLines  == [name : Commands \cup {"cut"}, of : Nat]

\* What there is to read in a line, or a part of one: one of the board's own
\* four, or ME before its colon, MI whose values are not all numbers or of which
\* the first two are not there, MI whose second value has lost digits, and any
\* other part, in which the host finds nothing.
Whole == {"MA", "ME", "MI", "MO"}
Says  == Whole \cup {"no colon", "no number", "less", "part"}

\* A line of the board: the command that it answers, what it says, the
\* calibration whose bounds it has, if any, and whether its end has been sent.
Line(to, says, of) == [to |-> to, says |-> says, of |-> of, ended |-> TRUE]
AnswerLines ==
    [to : Commands \cup {"cut", "none"}, says : Says, of : Nat, ended : BOOLEAN]

\* What the beginning of a line may say.
Parts(s) ==
    {"part"} \cup
    CASE s = "MI"                  -> {"no number", "less", "MI"}
      [] s \in {"no number", "less"} -> {"no number", "less"}
      [] s = "ME"                  -> {"no colon", "ME"}
      [] s = "no colon"            -> {"no colon"}
      [] OTHER                     -> {}

\* What a beginning says when MO follows it in the line.
Joined(s) ==
    CASE s \in {"MI", "less", "no number"} -> "no number"
      [] s \in {"ME", "no colon"}          -> s
      [] OTHER                             -> "part"

-----------------------------------------------------------------------------
\* Both are turned on, the board has said so, and pyserial dropped it when the
\* port was opened.
Init ==
    /\ at = "idle" /\ asked = "none" /\ x_calibration = 0 /\ digits = "all"
    /\ commands = << >> /\ answers = << >>
    /\ phase = "released" /\ current = 0 /\ calibrated = 0
    /\ begun = 0 /\ faults = 0

-----------------------------------------------------------------------------
(* The host *)

\* Mutant: the bounds of the calibration before are kept.
Ask_KeepsBounds ==
    /\ asked = "none"
    /\ \E p \in Program :
        /\ at = p[1] /\ asked' = p[2] /\ at' = p[3]
        /\ begun' = IF p[2] = "MC" THEN begun + 1 ELSE begun
        /\ commands' = Append(commands, Command(p[2], begun'))
        /\ begun' <= MaxCalibrations
    /\ UNCHANGED <<x_calibration, digits, answers, board, faults>>

\* sendCommand, setMDSParams and setMDSLocation, up to readline.  sendCommand,
\* whatever the command, clears the bounds.
Ask ==
    /\ asked = "none"
    /\ \E p \in Program :
        /\ at = p[1] /\ asked' = p[2] /\ at' = p[3]
        /\ IF p[2] \in {"MC", "MD", "MS", "MP"}
           THEN x_calibration' = 0 /\ digits' = "all"
           ELSE UNCHANGED <<x_calibration, digits>>
        /\ begun' = IF p[2] = "MC" THEN begun + 1 ELSE begun
        /\ commands' = Append(commands, Command(p[2], begun'))
        /\ begun' <= MaxCalibrations
    /\ UNCHANGED <<answers, board, faults>>

\* What the host makes of what readline has returned.  No caller looks at the
\* error that it may be; but nothing catches what the parsing of a line raises
\* that is no line of the board, and the program ends.
Raises(a) == a.says = "no colon" \/ (asked = "MD" /\ a.says = "no number")

Returned(a) ==
    /\ asked' = "none"
    /\ at' = IF Raises(a) THEN "dead" ELSE at
    /\ IF asked = "MD" /\ a.says \in {"MI", "less"}
       THEN x_calibration' = a.of /\ digits' = IF a.says = "less" THEN "lost" ELSE "all"
       ELSE UNCHANGED <<x_calibration, digits>>
    /\ UNCHANGED <<begun, commands, board>>

\* readline returns a line.
Readline ==
    /\ asked # "none" /\ answers # << >> /\ Head(answers).ended
    /\ Returned(Head(answers))
    /\ answers' = Tail(answers)
    /\ UNCHANGED faults

\* readline returns after a second with what has arrived: nothing, a part of a
\* line, or all of a line that has no end.  That is no error either.
ReadlineTimeout ==
    /\ asked # "none"
    /\ faults < MaxFaults /\ faults' = faults + 1
    /\ \/ Returned(Line("none", "part", 0)) /\ UNCHANGED answers
       \/ /\ answers # << >>
          /\ \E s \in Parts(Head(answers).says) : Returned([Head(answers) EXCEPT !.says = s])
          /\ answers' = [answers EXCEPT ![1].says = "part"]
       \/ /\ answers # << >> /\ ~Head(answers).ended
          /\ Returned(Head(answers)) /\ answers' = Tail(answers)

-----------------------------------------------------------------------------
(* The board *)

\* What the driver makes of a command, and the answer to it.
Taken    == Head(commands)
Reply(r) == answers' = Append(answers, Line(Taken.name, r, 0))

\* The handler of MC: mds_start_calibration.
Begin ==
    /\ Taken.name = "MC"
    /\ phase' = "calibrating" /\ current' = Taken.of /\ calibrated' = 0
    /\ Reply("MA")

\* Mutant: a good calibration is not left.
End_Stays ==
    /\ Taken.name = "MD"
    /\ \/ /\ phase = "calibrating"
          /\ calibrated' = current
          /\ answers' = Append(answers, Line("MD", "MI", current))
          /\ UNCHANGED phase
       \/ /\ phase' = IF phase = "calibrating" THEN "released" ELSE phase
          /\ Reply("ME") /\ UNCHANGED calibrated
    /\ UNCHANGED current

\* The handler of MD: mds_stop_calibration, of a calibration or not, which may
\* have seen too little.
End ==
    /\ Taken.name = "MD"
    /\ \/ /\ phase = "calibrating"
          /\ phase' = "released" /\ calibrated' = current
          /\ answers' = Append(answers, Line("MD", "MI", current))
       \/ /\ phase' = IF phase = "calibrating" THEN "released" ELSE phase
          /\ Reply("ME") /\ UNCHANGED calibrated
    /\ UNCHANGED current

\* The handlers of MRX and MRY: mds_set_pid_x and mds_set_pid_y.
Set ==
    /\ Taken.name \in {"MRX", "MRY"}
    /\ Reply(IF phase = "driven" THEN "ME" ELSE "MA")
    /\ UNCHANGED board

\* The handler of MS: mds_start.
Start ==
    /\ Taken.name = "MS"
    /\ \/ /\ phase = "released" /\ calibrated # 0
          /\ phase' = "driven" /\ Reply("MA")
       \/ /\ ~(phase = "released" /\ calibrated # 0)
          /\ Reply("ME") /\ UNCHANGED phase
    /\ UNCHANGED <<current, calibrated>>

\* Mutant: a location that is out of bounds has an error and an acknowledgement.
Locate_Twice ==
    /\ Taken.name = "ML"
    /\ \/ phase = "driven" /\ Reply("MA")
       \/ answers' = answers \o <<Line("ML", "ME", 0), Line("ML", "MA", 0)>>
    /\ UNCHANGED board

\* The handler of ML: mds_set_location, within the bounds or not.
Locate ==
    /\ Taken.name = "ML"
    /\ \/ phase = "driven" /\ Reply("MA")
       \/ Reply("ME")
    /\ UNCHANGED board

\* The handler of MP: mds_stop.
Stop ==
    /\ Taken.name = "MP"
    /\ phase' = "released" /\ Reply("MA")
    /\ UNCHANGED <<current, calibrated>>

\* What is left of a line that was cut is no command, nor empty.
Refuse ==
    /\ Taken.name = "cut"
    /\ Reply("ME")
    /\ UNCHANGED board

Obey ==
    /\ phase # "booting" /\ commands # << >>
    /\ Begin \/ End \/ Set \/ Start \/ Locate \/ Stop \/ Refuse
    /\ commands' = Tail(commands)
    /\ UNCHANGED <<host, faults>>

\* What a reset leaves of the answers: those that have left the board, the last
\* of them whole or cut.
Sent(k) ==
    LET out == SubSeq(answers, 1, k)
    IN  {out} \cup {[out EXCEPT ![k].says = s, ![k].ended = FALSE] :
                       s \in IF k = 0 THEN {} ELSE Parts(out[k].says)}

\* The board loses its power: the mallet is released, the calibration is lost,
\* and the answers that have not left it yet.
Reset ==
    /\ phase # "booting"
    /\ faults < MaxFaults /\ faults' = faults + 1
    /\ phase' = "booting" /\ current' = 0 /\ calibrated' = 0
    /\ \E k \in 0..Len(answers) : answers' \in Sent(k)
    /\ UNCHANGED <<host, commands>>

\* What the flush of main leaves of the commands: the last ones, the first of
\* them whole or cut.
Flushed(k) ==
    LET rest == SubSeq(commands, k + 1, Len(commands))
    IN  {rest} \cup (IF rest = << >> THEN {} ELSE {<<Command("cut", 0)>> \o Tail(rest)})

\* Mutant: the board does not say that it is on.
PowerOn_Silent ==
    /\ phase = "booting"
    /\ phase' = "released"
    /\ \E k \in 0..Len(commands) : commands' \in Flushed(k)
    /\ UNCHANGED <<host, answers, current, calibrated, faults>>

\* The line that the power-on signal is sent in: it ends the one that was cut.
Signalled ==
    LET n == Len(answers)
    IN  IF n # 0 /\ ~answers[n].ended
        THEN [answers EXCEPT ![n].says = Joined(@), ![n].ended = TRUE]
        ELSE Append(answers, Line("none", "MO", 0))

\* It has started again, and the power-on signal is sent.
PowerOn ==
    /\ phase = "booting"
    /\ phase' = "released"
    /\ \E k \in 0..Len(commands) : commands' \in Flushed(k)
    /\ answers' = Signalled
    /\ UNCHANGED <<host, current, calibrated, faults>>

HostStep  == Ask \/ Readline \/ ReadlineTimeout
BoardStep == Obey \/ Reset \/ PowerOn

\* The host has ended, and is not started again.
Terminating == at = "dead" /\ UNCHANGED vars

Next == HostStep \/ BoardStep \/ Terminating

Spec == Init /\ [][Next]_vars

\* The host reads what there is, and a board that is turned on starts and takes
\* what it is sent; no call need be made, no power fail and no time run out.
FairSpec == Spec /\ WF_vars(Readline) /\ WF_vars(Obey \/ PowerOn)

-----------------------------------------------------------------------------
\* The types of the variables.
TypeOK ==
    /\ at \in {"idle", "corners", "params", "ready", "playing", "dead"}
    /\ asked \in Commands \cup {"none"}
    /\ commands \in Seq(CommandLines) /\ answers \in Seq(AnswerLines)
    /\ phase \in {"released", "calibrating", "driven", "booting"}
    /\ {x_calibration, current, calibrated, begun, faults} \subseteq Nat
    /\ digits \in {"all", "lost"}

\* Every answer that is late and every reset puts the host one line behind, for
\* good, and nothing else does.  As long as there was neither, the only thing on
\* the line is the command that the host waits for, or the answer to it, and no
\* answer makes the host raise an exception.
AnswersAreOwn ==
    /\ Len(commands) + Len(answers) <= faults + (IF asked = "none" THEN 0 ELSE 1)
    /\ faults = 0 =>
        /\ asked # "none" => Len(commands) + Len(answers) = 1
        /\ \A i \in 1..Len(commands) : commands[i].name = asked
        /\ \A i \in 1..Len(answers)  : answers[i].to = asked
        /\ at # "dead"

\* The bounds that the host computes the scale from are those of the
\* calibration that it has just done, unless it is two lines behind: at one line
\* the answer to the start of the calibration is read in their place.  They have
\* lost no digits without a call that timed out or a reset.
BoundsAreFresh ==
    /\ x_calibration \in {0, begun} \/ faults >= 2
    /\ digits = "lost" => faults >= 1

\* Whatever was late, lost, cut or refused, the mallet is not driven when a game
\* is over, but until the board has taken the stop, or for good if the host has
\* ended with an exception.
ReleasedAfterGame ==
    phase = "driven" =>
        \/ at \in {"playing", "dead"}
        \/ \E i \in DOMAIN commands : commands[i].name = "MP"

\* The host, which does not look at the answers, plays with a mallet that is
\* driven, if the calibration was good and the board is not reset.
GameIsDriven ==
    faults = 0 /\ at = "playing" /\ asked = "none" /\ calibrated # 0 => phase = "driven"

\* The call of a command ends, with an answer or an exception, even if no
\* time-out helped it: a reset that loses the command, or the answer, leaves the
\* power-on signal in its place, at the end of the answer that it has cut.
CallsReturn == asked # "none" ~> asked = "none"
=============================================================================
