-------------------------------- MODULE Game --------------------------------
(***************************************************************************)
(* A session at the table: the screens of ui/finaltest.py, the connection  *)
(* to the vision host, and the two threads of vector prediction/           *)
(* vector_final.py: listen(), which keeps the last message received in     *)
(* dataFromUI, and the main loop, which looks there for the message that   *)
(* its state waits for.                                                    *)
(*                                                                         *)
(* Nothing tells the screens what the host has seen.  The history variable *)
(* excuse says what the host could not be expected to follow:              *)
(*   "hasty"    a message was sent before the host had settled the last,   *)
(*   "unheard"  a message was not sent: no connection, or none it listens to,*)
(*   "changed"  a choice of difficulty was taken back,                     *)
(*   "double"   the end of a game was reported twice (module Score).       *)
(***************************************************************************)
EXTENDS Integers, Sequences

CONSTANTS
    Levels,     \* the messages of the difficulties that can be chosen
    MaxLink     \* bound: the most messages that are under way

ASSUME GameAssumption ==
    /\ Levels \subseteq {"UD1", "UD2", "UD3"}
    /\ MaxLink \in Nat \ {0, 1}

Messages == {"UCS", "UC1", "UC2", "UC3", "UC4", "UCD", "US", "UP", "UF"} \cup Levels

\* What recv can leave in dataFromUI: a message, several at once, which are
\* equal to none, or nothing.
Data == Messages \cup {"several", ""}

\* The buttons: where they are, the message they send and where they lead.
Buttons ==
    { <<"start",      "",    "welcome">>,
      <<"over",       "",    "welcome">>,
      <<"welcome",    "UCS", "cal0">>,
      <<"cal0",       "UC1", "cal1">>,
      <<"cal1",       "UC2", "cal2">>,
      <<"cal2",       "UC3", "cal3">>,
      <<"cal3",       "UC4", "cal4">>,
      <<"cal4",       "UCD", "welcome">>,
      <<"welcome",    "",    "difficulty">>,
      <<"difficulty", "",    "welcome">>,
      <<"ready",      "",    "difficulty">>,
      <<"ready",      "US",  "score">>,
      <<"welcome",    "UF",  "off">> }
    \cup {<<"difficulty", d, "ready">> : d \in Levels}

Screens == {"start", "welcome", "cal0", "cal1", "cal2", "cal3", "cal4",
            "difficulty", "ready", "score", "over", "off"}

States == {"startup", "idle", "calibrate", "await", "image", "key", "params",
           "wait", "starting", "camera", "playing", "stopping", "shutdown",
           "aborting", "dead"}

\* Mutant: the last corner is taken with the message of the one before.
Awaited_Repeats == <<"UC1", "UC2", "UC3", "UC4", "UC4">>

\* The message that each step of a calibration waits for.
Awaited == <<"UC1", "UC2", "UC3", "UC4", "UCD">>

\* The screen with the instruction of each step, and the screens that the button
\* on it leads to, at once or by one more button that sends nothing.
Instruction == <<"cal0", "cal1", "cal2", "cal3", "cal4">>
After(s) ==
    LET next == {b[3] : b \in {c \in Buttons : c[1] = s}}
    IN  next \cup {b[3] : b \in {c \in Buttons : c[1] \in next /\ c[2] = ""}}

VARIABLES
    screen,             \* what the screen shows
    ui,                 \* vector_listen_f: "listening" in accept, "accepted",
                        \* "leaving" told to end there, "closing" told so
                        \* later, "off" the machine
    link,               \* messages sent on the connection and not received
    sock,               \* the host's socket: "none", "up", "eof" when the
                        \* other end is closed, "backlog" when it was never
                        \* accepted, "reset"
    hears,              \* the thread of listen(): "none" before it is started,
                        \* "listening", "connecting", "ended"
    listen_should_exit,
    dataFromUI,
    state,              \* the state of the main loop, with the places in it
                        \* where it waits or that are between two commands
    step,               \* which message of a calibration is awaited
    difficulty,
    params,             \* the difficulty of the parameters last set
    ser_open,           \* whether the serial port is open
    mallet,             \* what the board was told last: "off", "calibrating", "on"
    \* history
    chosen,             \* the difficulty shown as chosen
    heeded,             \* whether the main loop has acted on dataFromUI
    reheeded,           \* whether it ever did twice, but for a turn-off
    died,               \* the state that the host was interrupted in
    excuse

screens == <<screen, ui, chosen>>
thread  == <<sock, hears, dataFromUI>>
main    == <<state, step, difficulty, params, ser_open, listen_should_exit, mallet,
             reheeded, died>>

vars == <<screens, link, thread, main, heeded, excuse>>

-----------------------------------------------------------------------------
Init ==
    /\ screen = "start" /\ ui = "listening" /\ link = << >>
    /\ sock = "none" /\ hears = "none" /\ listen_should_exit = FALSE
    /\ dataFromUI = ""
    /\ state = "startup" /\ step = 0
    /\ difficulty \in Levels /\ params = difficulty /\ chosen = difficulty
    /\ ser_open = FALSE /\ mallet = "off"
    /\ heeded = FALSE /\ reheeded = FALSE /\ died = "none" /\ excuse = {}

\* Mutant: a game is ended by a turn-off only.
Heeds_WrongEnd == {m \in Messages :
    \/ state = "idle"    /\ m \in {"UCS", "UF"} \cup Levels
    \/ state = "await"   /\ m = Awaited[step]
    \/ state = "wait"    /\ m = "US"
    \/ state = "playing" /\ m = "UF"}

\* Mutant: a game is also started by the message that chose it.
Heeds_ChoiceStarts == {m \in Messages :
    \/ state = "idle"    /\ m \in {"UCS", "UF"} \cup Levels
    \/ state = "await"   /\ m = Awaited[step]
    \/ state = "wait"    /\ m \in {"US"} \cup Levels
    \/ state = "playing" /\ m = "UP"}

\* The messages that the main loop acts on where it is.
Heeds == {m \in Messages :
    \/ state = "idle"    /\ m \in {"UCS", "UF"} \cup Levels
    \/ state = "await"   /\ m = Awaited[step]
    \/ state = "wait"    /\ m = "US"
    \/ state = "playing" /\ m = "UP"}

\* The host is connected, has received all there is, and waits for more: a
\* turn-off that it has obeyed is not news to it, however often it sees it.
Settled ==
    /\ ui = "accepted" /\ sock = "up" /\ hears = "listening"
    /\ link = << >>
    /\ state \in {"idle", "await", "wait", "playing"}
    /\ dataFromUI \notin Heeds \/ (dataFromUI = "UF" /\ ~ser_open)

-----------------------------------------------------------------------------
(* The screens *)

\* vector_send: without a connection nothing is sent, and what is sent to a
\* host that no longer listens is never read.
Sent(ms) ==
    IF ui = "accepted" /\ sock = "up" /\ hears # "ended" THEN link \o ms ELSE link

\* History: whatever is sent, the host should have been ready for.
Note(ms, also) ==
    excuse' = excuse \cup also \cup
        IF ms = << >> \/ Settled THEN {}
        ELSE IF Sent(ms) = link THEN {"unheard"} ELSE {"hasty"}

\* A button is pressed.  turn_off tells the listening thread to end and waits
\* for it.
Press ==
    \E b \in Buttons :
        LET ms == IF b[2] = "" THEN << >> ELSE << b[2] >>
        IN  /\ screen = b[1] /\ screen' = b[3]
            /\ link' = Sent(ms) /\ Len(link') <= MaxLink
            /\ chosen' = IF b[2] \in Levels THEN b[2] ELSE chosen
            /\ Note(ms, IF b[1] = "ready" /\ b[3] = "difficulty" THEN {"changed"} ELSE {})
            /\ ui' = IF b[2] # "UF" THEN ui
                     ELSE IF ui = "listening" THEN "leaving" ELSE "closing"
    /\ UNCHANGED <<thread, main, heeded>>

\* winner_screen or loser_screen: the game is over, and was reported so once
\* or, if its time ran out as well, twice.
GameOver ==
    /\ screen = "score"
    /\ screen' = "over"
    /\ \/ link' = Sent(<<"UP">>) /\ Note(<<"UP">>, {})
       \/ link' = Sent(<<"UP", "UP">>) /\ Note(<<"UP">>, {"double"})
    /\ Len(link') <= MaxLink
    /\ UNCHANGED <<ui, chosen, thread, main, heeded>>

\* The end of turn_off: the listening thread has closed its socket and the
\* process, then the machine, goes down.
PowerOff ==
    /\ ui \in {"leaving", "closing"}
    /\ ui' = "off"
    /\ sock' = CASE sock = "up"      -> "eof"
                 [] sock = "backlog" -> "reset"
                 [] OTHER            -> sock
    /\ UNCHANGED <<screen, chosen, link, hears, dataFromUI, main, heeded, excuse>>

\* The machine is turned on again, which takes it longer than the host needs
\* to look at the message of the turn-off.
PowerOn ==
    /\ ui = "off"
    /\ link = << >> /\ state # "shutdown"
    /\ state = "idle" /\ dataFromUI = "UF" => ~ser_open
    /\ ui' = "listening" /\ screen' = "start"
    /\ UNCHANGED <<chosen, link, thread, main, heeded, excuse>>

-----------------------------------------------------------------------------
(* The host's connection *)

\* connect(): refused until there is a socket that listens.  It is accepted
\* once, before a time-out of accept has shown that the thread is to end; a
\* connection that only the kernel has accepted looks the same.
connect ==
    \/ ui = "listening" /\ ui' = "accepted" /\ sock' = "up"
    \/ ui = "leaving"   /\ ui' = "closing"  /\ sock' \in {"up", "backlog"}
    \/ ui = "closing"   /\ UNCHANGED ui     /\ sock' = "backlog"

\* The end of a round of listen().
NextRound == hears' = IF listen_should_exit THEN "ended" ELSE "listening"

\* What recv returns when k messages have arrived.
Received(k) == IF k = 1 THEN Head(link) ELSE "several"

\* listen(): a message, or several at once.  After a turn-off the connection
\* is given up and the next one waited for.
Listen ==
    /\ hears = "listening" /\ sock \in {"up", "eof"}
    /\ \E k \in 1..Len(link) :
        /\ dataFromUI' = Received(k)
        /\ heeded' = FALSE
        /\ \/ /\ dataFromUI' = "UF"
              /\ sock' = "none" /\ link' = << >> /\ hears' = "connecting"
           \/ /\ dataFromUI' # "UF"
              /\ link' = SubSeq(link, k + 1, Len(link))
              /\ NextRound
              /\ UNCHANGED sock
    /\ UNCHANGED <<screens, main, excuse>>

\* listen(): the other end has closed the connection, and recv returns an
\* empty string at once, every time.
ListenEof ==
    /\ hears = "listening" /\ sock = "eof" /\ link = << >>
    /\ dataFromUI' = "" /\ heeded' = FALSE
    /\ NextRound
    /\ UNCHANGED <<screens, link, sock, main, excuse>>

\* listen(): "connection reset. Retrying connection"
ListenReset ==
    /\ hears = "listening" /\ sock = "reset"
    /\ sock' = "none" /\ hears' = "connecting"
    /\ UNCHANGED <<screens, link, dataFromUI, main, heeded, excuse>>

\* listen(): nothing for a second.
ListenNothing ==
    /\ hears = "listening" /\ sock \in {"up", "backlog"} /\ link = << >>
    /\ listen_should_exit
    /\ hears' = "ended"
    /\ UNCHANGED <<screens, link, sock, dataFromUI, main, heeded, excuse>>

ListenConnect ==
    /\ hears = "connecting"
    /\ connect
    /\ NextRound
    /\ UNCHANGED <<screen, chosen, link, dataFromUI, main, heeded, excuse>>

ListenStep == Listen \/ ListenEof \/ ListenReset \/ ListenNothing \/ ListenConnect

-----------------------------------------------------------------------------
(* The main loop of the host *)

\* state "startup"
Startup ==
    /\ state = "startup"
    /\ connect
    /\ hears' = "listening"
    /\ ser_open' = TRUE
    /\ state' = "idle"
    /\ UNCHANGED <<screen, chosen, link, dataFromUI, step, difficulty, params,
                   listen_should_exit, mallet, reheeded, died, heeded, excuse>>

\* The main loop finds the message that it waits for.
Heed ==
    /\ dataFromUI \in Heeds
    /\ \/ state = "idle" /\ dataFromUI = "UCS" /\ state' = "calibrate"
       \/ state = "idle" /\ dataFromUI = "UF"  /\ state' = "shutdown"
       \/ state = "idle" /\ dataFromUI \in Levels /\ state' = "params"
       \/ state = "await" /\ state' = IF step = 1 THEN "await" ELSE "image"
       \/ state = "wait" /\ state' = "starting"
       \/ state = "playing" /\ state' = "stopping"
    /\ step' = IF state = "await" /\ step = 1 THEN 2 ELSE step
    /\ difficulty' = IF state = "idle" /\ dataFromUI \in Levels THEN dataFromUI ELSE difficulty
    /\ heeded' = TRUE
    /\ reheeded' = (reheeded \/ (heeded /\ dataFromUI # "UF"))
    /\ UNCHANGED <<screens, link, thread, params, ser_open, listen_should_exit,
                   mallet, died, excuse>>

\* The rest of what the main loop does, one command to the board in each.
Calibrate ==
    /\ state = "calibrate"
    /\ mallet' = "calibrating" /\ state' = "await" /\ step' = 1
    /\ UNCHANGED <<params, ser_open, listen_should_exit>>

\* doMDScalibration: the camera looks where the mallet is.
Image ==
    /\ state = "image"
    /\ \/ step < 5 /\ state' = "await" /\ step' = step + 1 /\ UNCHANGED mallet
       \/ step = 5 /\ state' = "key" /\ mallet' = "off" /\ UNCHANGED step
    /\ UNCHANGED <<params, ser_open, listen_should_exit>>

\* cv2.waitKey(0): the picture of the result is shown until a key is pressed.
Key ==
    /\ state = "key"
    /\ state' = "idle"
    /\ UNCHANGED <<step, params, ser_open, listen_should_exit, mallet>>

\* Mutant: the parameters are those of the game before.
setMDSParams_Kept ==
    /\ state = "params"
    /\ state' = "wait"
    /\ UNCHANGED <<step, params, ser_open, listen_should_exit, mallet>>

setMDSParams ==
    /\ state = "params"
    /\ params' = difficulty /\ state' = "wait"
    /\ UNCHANGED <<step, ser_open, listen_should_exit, mallet>>

Start ==
    /\ state = "starting"
    /\ mallet' = "on" /\ state' = "camera"
    /\ UNCHANGED <<step, params, ser_open, listen_should_exit>>

Camera ==
    /\ state = "camera"
    /\ state' = "playing"
    /\ UNCHANGED <<step, params, ser_open, listen_should_exit, mallet>>

Stop ==
    /\ state = "stopping"
    /\ mallet' = "off" /\ state' = "idle"
    /\ UNCHANGED <<step, params, ser_open, listen_should_exit>>

\* Mutant: the listening thread is not told to end.
Shutdown_Reopens ==
    /\ state = "shutdown"
    /\ ser_open' = FALSE /\ state' = "idle"
    /\ UNCHANGED <<step, params, listen_should_exit, mallet>>

\* Mutant: the serial port is left open.
Shutdown_KeepsPort ==
    /\ state = "shutdown"
    /\ listen_should_exit' = TRUE /\ state' = "idle"
    /\ UNCHANGED <<step, params, ser_open, mallet>>

\* state "shutdown"
Shutdown ==
    /\ state = "shutdown"
    /\ ser_open' = FALSE /\ listen_should_exit' = TRUE /\ state' = "idle"
    /\ UNCHANGED <<step, params, mallet>>

Work ==
    /\ \/ Calibrate \/ Image \/ Key \/ setMDSParams \/ Start \/ Camera \/ Stop \/ Shutdown
    /\ UNCHANGED <<screens, link, thread, difficulty, reheeded, died, heeded, excuse>>

\* The end of the process, and with it of its thread and its connection.
Dies == state' = "dead" /\ hears' = "ended" /\ link' = << >> /\ sock' = "none"

\* KeyboardInterrupt: within a round of the loop of a game it is caught, the
\* mallet stopped and the port closed.  Anywhere else, between two rounds too,
\* it ends the program as it is.
Interrupt ==
    /\ state # "dead"
    /\ died' = state
    /\ \/ /\ state = "playing" /\ state' = "aborting"
          /\ mallet' = "off" /\ ser_open' = FALSE /\ listen_should_exit' = TRUE
          /\ UNCHANGED <<link, sock, hears>>
       \/ Dies /\ UNCHANGED <<mallet, ser_open, listen_should_exit>>
    /\ UNCHANGED <<screens, dataFromUI, step, difficulty, params, reheeded, heeded,
                   excuse>>

\* The stop behind the loop, after an interrupt in it: on the closed port it is
\* an exception that nothing catches.
StopAborted ==
    /\ state = "aborting"
    /\ Dies
    /\ UNCHANGED <<screens, dataFromUI, step, difficulty, params, ser_open,
                   listen_should_exit, mallet, reheeded, died, heeded, excuse>>

MainStep == Startup \/ Heed \/ Work \/ StopAborted

Next == Press \/ GameOver \/ PowerOff \/ PowerOn \/ ListenStep \/ MainStep \/ Interrupt

Spec == Init /\ [][Next]_vars

\* Both threads of the host and those of the interface run, a game ends in
\* time, and someone presses the key after a calibration.  Nobody has to press
\* a button, to turn the machine on or to interrupt the host.
FairSpec ==
    /\ Spec
    /\ WF_vars(MainStep) /\ WF_vars(ListenStep)
    /\ WF_vars(PowerOff) /\ WF_vars(GameOver)

-----------------------------------------------------------------------------
\* The types of the variables: the screens and what is between them and the
\* host, the two threads of the host, and what is remembered.
TableOK ==
    /\ screen \in Screens
    /\ ui \in {"listening", "accepted", "leaving", "closing", "off"}
    /\ chosen \in Levels

LinkOK == link \in Seq(Messages) /\ dataFromUI \in Data

HostOK ==
    /\ sock \in {"none", "up", "eof", "backlog", "reset"}
    /\ hears \in {"none", "listening", "connecting", "ended"}
    /\ state \in States /\ died \in States \cup {"none"}
    /\ step \in 0..5 /\ (state \in {"await", "image"} => step \in 1..5)
    /\ difficulty \in Levels /\ params \in Levels
    /\ mallet \in {"off", "calibrating", "on"}

FlagsOK ==
    /\ {listen_should_exit, ser_open, heeded, reheeded} \subseteq BOOLEAN
    /\ excuse \subseteq {"hasty", "unheard", "changed", "double"}

TypeOK == TableOK /\ LinkOK /\ HostOK /\ FlagsOK

\* dataFromUI is never cleared, yet no message but a turn-off is acted on
\* twice: no state waits for a message that can have led to it.
HeededOnce == ~reheeded

\* The mallet is only driven in a game and until the host has heard of its end:
\* never while it is carried to a corner, nor when the next game is set up.  An
\* interrupt leaves it driven only if it comes between the start of the mallet
\* and the loop of the game, between two rounds of that, or between that and the
\* stop.
DrivenInGameOnly ==
    mallet = "on" =>
        IF died # "none" THEN died \in {"camera", "playing", "stopping"}
        ELSE excuse \subseteq {"changed"} =>
                screen \in {"score", "over", "welcome", "difficulty"}

\* The game that is played is the one that is shown: started for it, and with
\* the parameters of the difficulty chosen.
ChosenIsPlayed ==
    excuse = {} /\ state = "playing" /\ screen = "score" => params = chosen

\* The picture of a step is taken when the button on its instruction has been
\* pressed and no later one: the host is not a step ahead of the user, nor behind.
\* The screen asks for the next corner by then (finaltest.py:346-361); whether the
\* mallet is still where the last instruction had it is up to the user's hands.
PicturesFollowButtons ==
    excuse = {} /\ state = "image" => screen \in After(Instruction[step])

\* On a serial port that the host has closed it sends one command at the most, the
\* stop at which it dies after an interrupt in the game (vector_final.py:810), and
\* none after a turn-off, although idle follows shutdown there and the listening
\* thread takes up to a second to end.
ClosedPortMeetsOneStop ==
    "hasty" \notin excuse /\ ~ser_open =>
        state \in {"startup", "idle", "shutdown", "aborting", "dead"}

\* vector_final.py:654, "change the parameters based on what the difficulty
\* level is", and :818, "set the parameters based on the difficulty selected",
\* also for a choice that was taken back first.
LastChoiceIsPlayed ==
    excuse \subseteq {"changed"} /\ state = "playing" /\ screen = "score" =>
        params = chosen

\* A game that is shown is played, and one that is over is stopped, unless there is
\* an excuse or the host is interrupted.
GamesAreFollowed ==
    /\ screen = "score" ~> state = "playing" \/ excuse # {} \/ died # "none"
    /\ screen = "over"  ~> mallet = "off" \/ excuse # {} \/ died # "none"

\* A turn-off closes the port and ends the listening thread's loop or leaves
\* it waiting for a machine that is off, likewise.
TurnOffIsHeeded ==
    screen = "off" ~> (~ser_open /\ hears # "listening") \/ excuse # {} \/ died # "none"
=============================================================================
