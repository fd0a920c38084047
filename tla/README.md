# tdfw: specifications and proofs

TDFW is an autonomous air-hockey table. This directory holds TLA+ models of its
programs, the TLC configurations that check them and TLAPS proofs about them.
The paths below are those of the repository.

## 1. The system

```
 goal switches --> scoring.cpp --u/a--> finaltest.py (touch screen, score)
                                              |  TCP, "UCS" "UD1" "US" "UP" "UF"
 camera ------------------------------> vector_final.py (vision host)
                                              |  serial line, "MS" "ML:x,y" ...
                                        main.c (serial interpreter) \  one board,
 encoders, motors <-------------------> mds.c  (driver, control loop)/ ChibiOS
```

| Part | State it keeps | Operations | Talks to |
|---|---|---|---|
| MDS driver, `motor_control/src/mds.c` | `mds_info` (mode, calibration, play field, setpoint, gains, PID state), semaphore, pads and PWM | `mds_init`, `mds_set_pid_x/y`, `mds_start_calibration`, `mds_stop_calibration`, `mds_start`, `mds_stop`, `mds_set_location`; the pass of the control thread | called by the interpreter; shares `mds_info` with the control thread under `mds_lock_sem` |
| Timing of the control loop, `mds.c` with `chThdSleepUntil` | `next_time`, the system time | one pass a tick | kernel |
| Serial interpreter, `motor_control/src/main.c` | mode, error, digits of a value, values of a command | one handler per mode, `string_to_float` | host over UART; calls the driver |
| Vision host, `vector prediction/vector_final.py` | state of the game, difficulty, `dataFromUI` of the listening thread, serial port | startup, idle, calibrate, play, shutdown; `sendCommand`, `setMDSParams`, `setMDSLocation`, `listen`, `connect` | interface over TCP, board over serial |
| Touch screen, `ui/finaltest.py` | screen, connection, scores | a function per screen, `vector_listen_f`, `score_read`, `update_scores` | host over TCP, goal sensor over standard input |
| Goal sensor, `scoring/scoring.cpp` | first-time flag and last time per switch | two interrupts | writes `u` and `a` |
| ChibiOS kernel and HAL, ST libraries | | | vendored |

What is hard in it, in a sentence each (the list with lines is "hazards" in
PROJECT.json):

* Two threads of different priority share `mds_info` through a semaphore used as
  a lock; `mds_start_calibration` is two critical sections and not one.
* A calibration, a stop and a start leave state behind (offset, bounds,
  setpoint) that a later call relies on; any order of calls is possible, because
  any order of lines is.
* The control loop keeps its own time on a clock that wraps round.
* The interpreter works character by character, keeps digits and values in
  static variables, and reads ahead in one handler.
* The host takes the next line from the board for the answer to its last
  command, whatever it answers, and gives up after a second.
* Host and interface exchange messages through a variable that keeps only the
  last one, and through a connection that the interface accepts once.
* The end of a game is decided by a timer callback and a thread together.

What makes each part correct, in the same order: the lock is exclusive and every
call returns; motors run only in mode ON with a calibration; the recorded travel
is exact, the play field lies inside it and every setpoint inside the play
field; the loop runs once a period, for ever; every line has one answer and is
carried out exactly when the protocol table has it, a number being any run of digits
and points; an answer is taken for the
command that it answers as long as none was late, and how far it is off afterwards
is known; a mallet that was started is stopped; what the screen shows is what the
host does; a goal is counted once, and a game ends once.

## 2. The modules

| Module | What it is |
|---|---|
| `MDS` | the driver: its two threads, lock, modes, calibration, play field, setpoint |
| `MalletDrive` | what `mds.h` promises, without threads or lock; `MDS` implements it, and so does the board of `HostBoard`, call by call |
| `MCMDS` | constants for TLC |
| `MDSProofs` | theorems about `MDS` |
| `Axis` | the controller and output stage of one axis, in fixed point |
| `MCAxis` | constants for TLC |
| `AxisProofs` | theorems about `Axis` |
| `LoopTimer` | the timing of the control loop on a clock that wraps |
| `LoopTimerProofs` | theorems about `LoopTimer` |
| `Serial` | the interpreter, character by character |
| `SerialGrammar` | the protocol table of `README.md` as a reference for `Serial` |
| `StringToFloat` | `string_to_float` with the width of its weight, and what a numeral means |
| `SerialProofs` | theorems about `Serial` |
| `SerialGrammarProofs` | theorems about `Serial` and the protocol table |
| `HostBoard` | the host's commands, the board's answers and the line between them, with time-outs and resets |
| `HostBoardProofs` | theorems about `HostBoard` |
| `Game` | the screens, the connection, the listening thread and the main loop of the host |
| `GameProofs` | theorems about `Game` |
| `Score` | goal sensor, thread and timer of the score keeping |
| `ScoreProofs` | theorems about `Score` |

How they fit together. `MalletDrive` is what the modules above the driver may rely
on: `MDS` implements it. `Serial` shows that a line has one answer and is one call
of the driver. `HostBoard` has one answer to a line for that reason, and the driver as the
three phases of `MalletDrive`: the theorem `BoardIsDriver` says that its board does
what `MalletDrive` allows, so that the driver that the host is checked with has the
phases of the one that `MDS` implements. `Game` has each command to the board as one step of the
main loop, since `HostBoard` shows that calls end whatever the board does, and without a
fault by returning; that a call raises an exception after a fault is not in `Game`. The
end of a game comes from `Score`, once or twice (`OneVerdict`).

Definitions named `X_Something` just before a definition `X` are X with a
plausible bug, and no specification uses them: they serve to show that each
property can be violated.

### MDS

A call of an API function is three steps, as it is in the code: `Call`
(`chSemWait`), the body (`mds_set_pid`, `mds_stop`, `mds_start_calibration`,
`mds_stop_calibration`, `mds_start`, `mds_set_location`) and `Return`
(`chSemSignal`). The body is atomic since the lock is held; that the lock does
keep the other thread out is the invariant `MutualExclusion`, not an assumption.
`mds_start_calibration` takes the lock twice, first in the `mds_stop` it calls:
after the first `Return` the main thread is "between" and goes on with
`CallAgain`. A pass of the control thread is `Wake` (the sleep ends, `chSemWait`),
`UpdateOn`, `UpdateCalibrating` or `UpdateOff` by the mode it finds, in a debug
build `Printed` (after a pass that drives or calibrates, and after any that is found
late), and `Unlock`.

`SemWait` and `SemSignal` are `chSemWaitS` and `chSemSignal`: the count may
be negative, and a signal hands the unit to the longest waiter. The control
thread is created with HIGHPRIO, so `main` runs only while it does not exist or is
blocked (`MainRuns`); it can block on the semaphore, in its sleep, and in a debug
build in a print.

Where the model abstracts:

* Lengths are encoder counts of their axis. `mds_counts_to_mm_x` subtracts the
  offset and divides by a positive constant, so comparisons come out alike.
  The widths of the counters are left out: at 0.7 counts per millimetre the
  16-bit counter spans 49 m.
* A reading of the encoders is any member of `Counts`: the mallet is also moved by
  hand and by the puck.
* The command of the PID is any: outside the dead band a motor is enabled or, if
  the command is within 0.1 V of zero, not. `Axis` has the integral, the last error
  and the width; its invariant `RestsInDeadBand` is what `MDS` takes for granted.
* The parameters of a loop are one value per axis.
* `mds_set_pid_x` and `mds_set_pid_y` are one action with an axis.
* The null pointers that `mds_stop_calibration` refuses are never passed.

### Axis

The same driver seen from one motor: the lock, the calibration and the bounds
(`MDS`) are left out, a call or a pass is one step, and numbers are there instead.
A pass is `UpdateInside` or `UpdateOutside` by the dead band, or `UpdateOff`; each
ends in `mds_set_output_x`, as `mds_stop` does. `Percentage` and `Width` are the two
conversions of the output stage with their roundings and their 16 bits. Lengths are
whole millimetres and voltages whole hundredths of a volt, so that the sums of the
controller are exact: the rounding of floats is left out, that of `lroundf` and of
the integer division is not. `command` is the argument of the latest output, a local
variable of the code; `passes`, `commanded`, `origin` and `error` are history.
`UpdateOff` also stands for a calibration, after which the same count is another
location. The `reverse` argument of `mds_set_pid_x` is left out, since `main.c` always
passes 0. A new width reaches the motor at the end of a PWM cycle (4 ms); the model
has the compare register and not what is behind it.

### LoopTimer

`now` is the system time and `next_time` the local variable, both modulo
`TimeSpan` (2^32 in the code). A tick can come between any two statements:
`BodyTicks` bounds the ticks during a pass and `ExitTicks` those between the test
at its end and the entry to `chThdSleepUntil`. A difference of -1 becomes
TIME_INFINITE, with which the kernel starts no timer: such a sleep does not end
(`TickAsleep`). The history `slow` says whether a stage of the pass, up to the test or
from there to the sleep, has taken more than a tick; a sleep that ends begins it anew.

### Serial and SerialGrammar

A character is a member of `Chars`, which tells characters apart as the handlers
do. The handlers that only differ in their tables are one action with a table:
`Keyword` and `BadKeyword`, `NextValue`, `LastValue`, `Immediate`. A board reset may
come at any moment, within a line too. The driver answers anything that it can
answer (`Results`, which `MDS` shows by its `err`). `SerialGrammar` states what a line
means from the table of commands, and `Fault` what is wrong with a line that
has no meaning; `Serial` is compared with it after every character. For that the
history `line` keeps one "digit" in the place of each number. What a number is, the table
leaves to the code: `README.md:38` requires a "floating-point representation", but
`serial_read_float` takes any run of digits and points, so that "." and "1.2.3" are
carried out (with the value that `string_to_float` makes of them) and "-1" is not
(finding `serial_minus`). `ExecutesCommandTable` is about the rest of the line.

The text of a value is a sequence of three of the ten digits and of points.
`string_to_float` reads it from the end with a weight that wraps at `WeightSpan`
(2^32 in the code); `ValueIsMeant` compares the number that a command is given with
`Meant`, for numerals whose digits have weights that fit.

### HostBoard

The host writes a command and reads a line, or nothing after a second: `Ask`, and
`Readline` or `ReadlineTimeout`, which returns what has arrived of a line and leaves the
rest to be read as a line of its own. `Program` is the order in which its main loop gives
commands; the answer never changes that order, as no caller looks at the error, but an
answer that cannot be parsed ends the program with an exception (`Raises`, place
"dead"): ME without its colon, in any call, and MI in whose values there is one that is
no number, or less than two, in that of MD. `x_calibration` stands for the bounds that
the scale is computed from, and is the number of the calibration that they come from;
`digits` says whether all of them have arrived. The board takes a line (`Obey`, with
one action per command) when it has started; `Reset` takes its driver, its calibration
and part of what it had to say, and `PowerOn` throws away a part of what had been
sent and says "MO". The first line after that may be cut. So may the last one that the
board had begun to send: `Sent` leaves a beginning of it (`Parts`), which the host reads
when it times out or else with the "MO" that ends it (`Signalled`, `Joined`). A line is
what the host finds in it, not its characters. Commands and answers carry
history that the code has not: the command that a line answers, and the calibration
that it belongs to (and `ended`, whether its end has been sent). `faults` counts time-outs and resets, which are all that can go
wrong; the properties say what the host can rely on as a function of it.

### Game

The screens are a graph of buttons (`Buttons`), each with the message that it sends.
The connection is a sequence of messages, of which one `recv` takes one or several
(`Listen`): several are a string that equals none. `dataFromUI` keeps the last one and
is never cleared; `Heeds` is what the main loop would act on where it is, and `Heed`
acts on it. The rest of the main loop is a step per command to the board and a state
per place where it waits ("await", "key", "wait", "playing"). The interface accepts
once; after a turn-off the listening thread connects again, to a machine that may be
closing (the kernel's backlog), off or started again, and to one whose interface is
leaving its `accept`, which may yet take the connection. An interrupt ends the host; in
the loop of a game it stops the mallet, closes the port and leaves the loop for the stop
behind it, which the closed port refuses (`Interrupt`, place "aborting", `StopAborted`).

The calibration is four pictures of the mallet in the corners. The screen of a step has
the instruction for a corner, and its button sends the message that the host takes the
picture on and shows the next instruction at once (`Instruction`, `After`). So the screen
is a step ahead of the camera by design, and `PicturesFollowButtons` says that it is by
one step, in the order of the buttons. Whether the mallet is still in the corner when the
picture is taken is the user's doing and not in the model.

Nothing tells the screens what the host has seen, so that a message can overtake it.
The history variable `excuse` says when that has happened: "hasty" for a message that
came before the host had settled the last one, "unheard" for one that went nowhere,
"changed" for a choice taken back, "double" for a game reported over twice. The
properties say what holds without the excuses that excuse it, and `HeededOnce`
and what `DrivenInGameOnly` says of an interrupt hold with any of them.

### Score

Times are abstracted to their order. A switch is in `first` before its first
interrupt, in `recent` for a second after the time it recorded, and bounces for less
than that. A goal is a line in the pipe; `score_read` is `Reset`, `Flush`, and `Poll` and
`Check` in turns. `Poll` has both the pipe, which `select` and `os.read` look at, and
the buffer of standard input, which `readline` fills with all there is. `update_scores`
is the parts that its waits for the thread divide it into: `Won` for either side,
`Joined` where the thread has ended, `TimeCheck`. `timers` are the calls scheduled and
`loopy` is the one that this call can cancel.

## 3. The runs

| Run | Constants | States | What it asks |
|---|---|---|---|
| `mds` | one axis, counts 0..3, safety zone 1, dead band 1, three targets, two gains, no prints | 972 000 | motors, setpoint, start of a calibration and the wait of the main thread; the action property `SteadyWhileDriven` and the refinement of `MalletDrive` |
| `mds_live` | two axes, one with counts -1..1 and a safety zone, the other that only has to agree, prints | 71 000 | the lock, the travel and the play field when the control thread blocks inside; every call returns, the loop keeps running |
| `mds_reported` | one axis, counts -1..1 | | finding: bounds reported and play field differ |
| `loop_timer` | 16 times, pass of three ticks and exit of two at most | 1 494 | where a sleep of more than a period can come from; the loop keeps its period and goes on but for a slow pass, across the wrap |
| `loop_timer_slow` | 16 times, pass of two ticks at most | | finding: the loop can stop for ever |
| `axis` | five locations on both sides of zero, dead band 5 mm, three sets of loop parameters with saturations up to the supply, integral up to 40 | 1 240 000 | exactness of the duty cycle, a start without an impulse, rest in the dead band |
| `serial` | values of up to six characters, a weight of 16 values | 55 508 | one answer a line; commands as in the table; the first fault named; nothing left over; values as they are meant |
| `serial_minus` | values of up to four characters | | finding: no negative value can be sent |
| `host_board` | three faults, three calibrations | 60 376 | whose answer is read and whose bounds are used after so many faults; the mallet is released after a game and driven in it; calls return or raise an exception |
| `game` | two of the three difficulties, two messages under way | 697 068 | no message acted on twice, no mallet driven outside a game, the choice shown is the one played, pictures in the order of the buttons, one command at the most on a closed port; games and turn-offs are followed |
| `game_choice` | the same | | finding: a choice made again is not played |
| `score` | games of three goals, a pipe of two lines | 316 239 | one line a goal, lines conserved, one reader, one timer, one verdict; every game ends |

Why the bounds are enough. A calibration must see a travel of twice the safety
zone: with a zone of one and counts 0..3 there are travels that are too short,
that are just enough and that leave a play field with an inside; targets lie
below it, in it and above it. Counts on both sides of zero are in `mds_live`,
because the encoder reads zero at reset, wherever the mallet is. The threads
number two in the code. The number of calls is not bounded. The clock of
`LoopTimer` differs from the real one in its size only, and the theorems do not
depend on that; with passes of three ticks and an exit of two the thread does sleep for
the whole range of the time there, after the wrap and after a long exit, which the
properties have to tell from the rest. In `axis` the supply, the period of the PWM, the thresholds and the first
set of parameters are those of the code (but for an integral gain of 0.01 in place of
0.000005 V/mm): one pass can saturate, reverse or stay below the voltage threshold. The
integral is capped at 40 mm, three passes far outside the dead band. In `serial` a
value has up to six characters, so that with a weight of 16 values the weight wraps
within it, as it does at the eleventh digit with its 32 bits; for the rest of the
interpreter one digit behaves like any number up to the length of the buffer, of
which the model says nothing. In `host_board` two faults are what it takes to use the
bounds of another calibration, and the third one and the third calibration show that
the properties do not rest on there being no more (the proofs do so for all). In
`game` two difficulties are one to choose and one to change to; two messages under
way are the fewest that can arrive together, and `GameOver` may send two. In `score` the
goals that win are those of the code, and two lines in the pipe are one to read and
one to read ahead.

Deadlock is checked in every run.

Fairness. `MDS!FairSpec` has weak fairness of the control thread, which has the
highest priority and is woken by the tick, and strong fairness of what the main
thread does inside a call, since it has the processor whenever the control thread
is blocked, and a pass is far shorter than a period. No fairness is put on the
making of calls. `LoopTimer!FairSpec` says that ticks come and that the thread
runs between them. `Serial` is checked for safety only: characters may never come.
`HostBoard!FairSpec` says that the host reads what is there and that a board with power
starts and takes what it is sent; no time-out is assumed, so that `CallsReturn` does not
hold because of it. `Game!FairSpec` has weak fairness of each of the two threads of the
host, which the operating system runs, of the way down of a machine that was told to
turn off, and of the end of a game, which has a time limit; within the first, someone
presses a key on the picture of a calibration (`cv2.waitKey(0)`). Nobody has to press a
button, start the machine or interrupt the host. The machine is taken to boot for
longer than the host needs to look at its last message (`PowerOn`). `Score!FairSpec` says
that the thread, the timer and the clock go on; no goal need be scored. The first call
of `update_scores` is taken to find that the thread has cleared the scores, for which
it has a second.

## 4. The findings

* `mds_reported`. `mds.h:101-104` calls what `mds_stop_calibration` gives back the
  boundaries of the play field; the code gives back 0 and the full travel
  (`mds.c:465-468`, `493-494`), a safety zone more at each end than
  `mds_set_location` accepts.
* `loop_timer_slow`. `mds.c:754` says "Don't sleep forever!", but the test in 755
  compares two times by their order. If the pass starts before the wrap of the
  system time and its second tick is after it, the test fails, and
  `chThdSleepUntil` is asked for a time that has gone by. The clock wraps after
  49.7 days and only a debug build, whose prints block, has passes that long.
* `game_choice`. `vector_final.py:654` says "change the parameters based on what the
  difficulty level is." and 818 "set the parameters based on the difficulty selected",
  but after the first choice the host waits for US alone (`vector_final.py:698`). The
  screen offers Back (`finaltest.py:159`) and another choice, which is not seen: the
  game is played with the first one.
* `serial_minus`. `README.md:38` asks for a floating-point number and `mds.h:53`
  suggests negative gains; `serial_read_float` takes digits and points only
  (`main.c:806`), so that the sign handling in `string_to_float` (`main.c:891`) is
  never reached.

## 5. The proofs

`MDSProofs` proves, for every set of axes, counts, targets and gains, every safety
zone and dead band and both builds, from `CountAssumption` (every axis has a count
zero) and `ParameterAssumption` (the types of the rest):

| Theorem | States |
|---|---|
| `Invariance` | `Spec => []IInv` |
| `TypeCorrectness` | `TypeOK` |
| `LockIsExclusive` | `MutualExclusion` |
| `MotorsAreGuarded` | `MotorsNeedCalibration` |
| `TravelIsExact` | `CalibrationIsExact` |
| `PlayfieldIsSafe` | `PlayfieldInsideTravel` |
| `SetpointIsSafe` | `SetpointInPlayfield` |
| `CalibrationIsFresh` | `CalibrationStartsFresh` |
| `MainIsNeverKeptWaiting` | `MainNeverWaits`, if `Debug = FALSE` |
| `LoopIsSteady` | the action property `SteadyWhileDriven` |
| `PromiseIsKept` | `KeepsPromise`: `MDS` implements `MalletDrive` |

The argument. `IInv` adds two parts to the properties. `LockInv` lists the six
states that the semaphore, its queue and the places of the threads can be in
together: nobody there yet, free, one thread inside with the other outside, one
inside with the other queued. `MutualExclusion` alone is not inductive, because a
unit in the semaphore while a thread is inside would break it one step later.
`ModeInv` says what a mode goes with: ON with a calibration, CALIBRATING without,
a motor with ON, and the mode OFF from the `mds_stop` in `mds_start_calibration` up
to its second body; the last is what makes `CalibrationStartsFresh` hold although
the control thread may run in between. The lock enters once more there: between
the body and the `Return` the control thread can queue but not sample. The
calibration properties need each other: the play field is inside the travel
because the extremes are those of the counts seen, and a setpoint can be limited
to it because it is not empty. The refinement takes `IInv` in both states of a step
and shows every action to be one of `MalletDrive`, or unseen by it.

The liveness of the driver is proved from the same invariant and from the enabledness
of its steps, which the last part of this section explains:

| Theorem | States |
|---|---|
| `CallsComeBack` | `CallsReturn` |
| `LoopGoesOn` | `ControlKeepsRunning` |

`MainLinks` and `ControlLinks` say where each place of a thread leads, `MainMoves` and
`ControlMoves` that a step of the thread itself leads there. `PlacesTogether`, from
`LockInv`, is why nobody waits for a thread that waits: while main is queued the control
thread is inside, and the other way round. `MainRunsAgain` is the point of the strong
fairness: main is without the processor only while the control thread is at "locked" or
"unlock", and that thread leaves both, so that main has it again and again although
never for long. Then main goes on (`MainGoesOn`), gets the lock when it waits for it
(`MainGetsLock`), and so does the control thread (`ControlGetsLock`).

`LoopTimerProofs` proves for every range of the system time and passes of any
length, from `TimeAssumption` alone, `SleepsAtMostOnePeriod` (`NoOversleeping`),
`PassInterval` (`PassesKeepTheirInterval`) and `OnlyTheWrapOversleeps`
(`OversleepingNeedsTheWrap`). The invariant has two parts. `Behind` holds whatever a
pass takes: `next_time` is ahead of the clock by a period, or not ahead, or the clock
has begun again while the pass ran, or the exit took more than a tick. `Timely` says
how far `next_time` is from the clock while no stage has taken more than a tick; that a
sleep which ends restores it, however it came about, is what `Behind` says of sleeping.
The wrap is in the lemma `LaterUntil` and hardly anywhere else. `LoopGoesOn` is
`BriskLoopGoesOn`, from enabledness: by `Timely` a sleep after a pass that was not slow is
for one tick, so that the next tick ends it.

`AxisProofs` proves, for all loop parameters, locations, thresholds, supplies and periods
of the PWM below 20000, from `InputAssumption` and `StageAssumption` (types, gains and
saturations not negative):

| Theorem | States |
|---|---|
| `TypeCorrectness` | `TypeOK` |
| `StartHasNoImpulse` | `NoImpulseAtStart` |
| `DeadBandIsAtRest` | `RestsInDeadBand` |
| `DutyStaysInRange` | `DutyInRange`, if no saturation exceeds the supply |
| `DutyFollowsCommand` | `DutyIsCommanded`, under the same condition |

`Fresh` is what `NoImpulseAtStart` lacks to be inductive: an axis that is off has no
command, and one that has just been turned on has nothing to remember. The duty cycle
comes down to `PercentageBounds` and `WidthBounds`, the error of the two roundings for
every supply and period; `DutyIsCommanded` is kept by a change of the saturation because
`Fresh` has the motor off then. The condition is needed: nothing in the code refuses a
saturation above the supply or limits the percentage (`mds.c:363`, `mds.c:808`), and with
one of 150 V the width passes the period, and far above it wraps in its 16 bits. No run
has such a saturation.

`HostBoardProofs` proves for any number of faults and calibrations:

| Theorem | States |
|---|---|
| `TypeCorrectness` | `TypeOK` |
| `AnswersBelongToCommands` | `AnswersAreOwn` |
| `BoundsAreOfLastCalibration` | `BoundsAreFresh` |
| `MalletIsReleased` | `ReleasedAfterGame` |
| `GameHasItsMallet` | `GameIsDriven` |

A line is on its way for the call and one for each fault at most (`Counted`, which counts
the "MO" that a starting board still owes). Without a fault all of it is the command
asked or its answer (`Own`), and the board is where the host is or one command behind
(`InStep`). `StopComes` makes `ReleasedAfterGame` inductive: a start that is still under
way has a stop behind it; a host that has raised an exception is its exception,
and `Own` with `ReturnedEffect` says that it takes a fault to raise one. `Ends` says that
only the last line can be without its end, and only until the board has started. For the
bounds, `LastComes` orders the calibrations on the
line, and `OldIsGone` says that with one fault an answer of an earlier calibration can
only be read for the answer to the MC of the next one, which clears the bounds. It
speaks of every line that bounds, or a beginning of them, may be read from (`Bears`);
`Sending` and `Signalling` say what a reset leaves of the lines and what "MO" makes of them.

`BoardIsDriver` is the refinement of `MalletDrive` one level above `MDS`. Nobody sees
the inside of a call there, so that a calibration begins in one step from any phase
(`StartCalibration` of `MalletDrive`, which is `Release` and `BeginCalibration` at once),
and a reset is its initial state again; `CalledSpec` is the machine with these two
steps. Locations and motors are no part of `HostBoard`: the set of axes is empty in the
mapping and nothing moves, and what is left is the order of the phases and the
calibration that a start needs. `StaysNamed` is the invariant that it takes.

`SomethingIsComing` proves from `Spec` alone what makes calls end: while the host
waits, a command is before the board, or a line is on its way, or a board is starting,
which says "MO" and so ends the line that was cut (`ObeyAnswers`, `StartingEnds`); a
time-out is never needed. `CallsComeBack` makes `CallsReturn` of it,
from enabledness, unless the board is reset for ever. In the model `MaxFaults` rules that
out; that steps which each count a fault are finitely many is an induction for which the
temporal prover has no rule, and the theorem does without the bound instead.

`ScoreProofs` proves for any number of goals that win and any length of the pipe
`TypeCorrectness`, `GoalIsOneLine`, `NoGoalIsLost`, `ReaderAndTimerAreAlone`, `VerdictIsOne`
and `ScoreStops`, which says that no score passes the winning one and that the two
sides do not both reach it. `Debounced` ties a line to the contact that wrote it;
`Scores` has the thread reading only while nobody has won; `Alone` says which flag the
scheduled call goes with; `Judged` how many verdicts there can be at each place, and on
what score. That no line is lost rests on lemmas about what `Append` and `Tail` do to
the number of lines of a side (`Count`). `GameComesToAnEnd` is `GameEnds`, from
enabledness: where `update_scores` waits for the thread (`Joining`), the score is the
winning one or, by `StaysTold`, the thread has been told to end, so that its next
`Check` ends it (`ReaderMoves`).

`SerialProofs` proves for values of any number of characters `TypeCorrectness`,
`LineHasOneAnswer` and `NothingOfALineIsLeft`. `Modal` says what a mode goes with,
`Answered` that a command and an answer come with the end of the line, and `Filled` that
the values before the one in hand are of this line, from the order of the fields
(`Before`).

It also proves what `string_to_float` computes, for texts of any length and a weight of
any width: `NumeralsHaveTheirValue` says that a numeral is given what it means exactly if
the weights of its digits fit, and `ShortNumeralsAreExact` that n + 1 digits do where ten
to the n fits, which is ten digits with the 32 bits of the code. The code reads the
characters from the end and the meaning is defined from the beginning, both by
recursion, so that this takes an induction. The induction theorems of the library have
an operator for a parameter; the lemma `Induction` here has a set, and follows from
there being a least number outside of it (`LeastNumber`). `Recursion` and `Unique` give
the two functions their equations (`ReadBackFacts`, `ReadOnFacts`). The invariant of the
loop is in three parts: the weight is the power of ten of the next digit if that has
room, and less if it has not (`WeightIs`); the number is what the characters read add to
the meaning if their weights had room, and less if one had not (`NumberIs`); the
exponent is where the point was (`PointIs`). A weight that wraps only makes a number
smaller, and no later digit makes up for it: that is the other half of "exactly".

`SerialGrammarProofs` proves, also for values of any number of characters,
`LinesMeanWhatTheTableSays` (`ExecutesCommandTable`) and `AnswersNameTheFault`
(`ReplyFits`): the interpreter carries out the lines that the protocol table of
`README.md` has, where a number is what `serial_read_float` takes, and names the first
fault of any other. The invariant `Spelled` (theorem `ModeIsPlaceInSentence`) says
what its states are: a mode, with whether a digit has been read and whether the handler
is behind the comma, is a number of tokens that have come (`Place`) and the sentences
that begin with them (`Possible`); in mode ERROR the error is the `Fault` of the line.
The lemmas about the table (`SyntaxFacts` to `SpellingsDiffer`) say which tokens can
come next after each of these places, and those about the handlers compare them with
the characters that each handler takes: a character that can come leads to the place of
the next mode, and the error for any other is the one that `Fault` finds, by `SpoiltFacts`.
`TextsHaveTheirValue` is the property `ValueIsMeant` of every state, from
`NumeralsHaveTheirValue`.

`GameProofs` proves for any number of messages under way, and whatever is pressed,
`TypeCorrectness`, `NoMessageIsHeededTwice` and `MalletIsDrivenInGame`. `LedTo` says, for
every message, where the main loop can be while it is the last one heeded: in none of
these places is it waited for again.

It also proves what the screens and the host promise together: `MalletFollowsTheScreens`
(`DrivenInGameOnly`), `ChoiceIsPlayed` (`ChosenIsPlayed`), `PicturesAreInStep`
(`PicturesFollowButtons`) and `ClosedPortIsMetOnce` (`ClosedPortMeetsOneStop`). The theorem `Agreement` is
the invariant behind them, `Session`, in parts that hold as long as their excuses do
not apply. Without "hasty": a connection that was closed has the turn-off in it
(`Closing`), a busy host is busy with what `dataFromUI` says (`Cause`), what is under
way was sent to a host that waited for a message (`InFlight`), and nobody listens to a
machine that has been turned off (`TurnedOff`). With no excuse but "changed": the screen
goes with the latest message sent (`Followed`, `Shown`). With none at all: the latest
message is the one that the place of the main loop goes with (`Lockstep`), and the
choice last shown is the one it plays (`Choice`). Every step of screens, thread and
main loop is shown to keep all of it or to set an excuse.

The liveness of a session is proved from enabledness as well: `GamesFollowTheScreens` is
`GamesAreFollowed`, `TurnOffIsFollowed` is `TurnOffIsHeeded`. By `Session` the latest
message sent, while there is no excuse, is on the link or in `dataFromUI`, of a host that
is where it waits for it or on its way from there (`LatestIsSomewhere`, `HostFollows`,
`Stages`). `OthersLeave` says that nothing else touches such a message without an
excuse, `MessageSteps` and `MessageIsHeeded` that it is received and acted on, `WorkSteps`
that the main loop goes on from there. After a turn-off `ClosedSteps` and `ThreadGivesUp`
have the port closed, and the listening thread at its end or without a connection with
its next step.

What enabledness has to be assumed. The prover reads a fairness condition, but has no
rules for the ENABLED in it. Each theorem of liveness therefore has the hypothesis
`[]StepsExist`, where `StepsExist` is a list of implications from the guard of a fair
action, as it stands in its module, to the action's being enabled: an action whose guard
holds has values for its primed variables, and changes something. It says nothing of
which states are reached, of the other threads or of the future. All the rest of these
theorems is proved: that the guard holds, and goes on holding until the step is made,
that the step leads on, and the chain up to the property. TLC evaluates ENABLED: with
`StepsExist` as the invariant of a module that extends the component's proof module, it
finds it true in every state of `MCMDS.cfg`, `MCMDS_live.cfg`, `LoopTimer.cfg`,
`HostBoard.cfg`, `Score.cfg` and `Game.cfg`. That is no run of its own, as the runs check
the temporal properties themselves, with no such hypothesis.

Model-checked only: that these actions are enabled, and that in `HostBoard` resets come
to an end. Every safety property of the passing runs is a theorem for all values of the
constants, under the conditions named above.

## 6. Plan

Done, in this order: `MDS` with `MalletDrive`, `LoopTimer`, `Axis`, `Serial` with
`SerialGrammar` and `StringToFloat`, `HostBoard`, `Game`, `Score`, and the proofs of
each. What is left, and what it would say:

1. `Axis` with the hidden register of the PWM channel: a direction is on its pad at
   once and a width at the end of a cycle, four passes later at most. How long after
   a reversal, and after a stop and a start, an old width still drives.
2. `Game` with a second start of the host, against an interface that accepts once.
3. `Serial` with the length of the buffer of digits, up to the write beyond it.

## 7. Not modelled, and why

Parts:

* Image processing, puck prediction and the geometry of the camera calibration:
  OpenCV and floating point, with no state of their own.
* The register access of the ST libraries, and the parts of ChibiOS that the driver
  does not stand on: vendored. They are nearly all of the repository's 460 000 lines, so
  that the share of lines that the models stand for is small, while the programs that
  this project wrote itself are some thousands of lines, most of whose control is here.
* Superseded copies and trial programs (`ui-backup`, `ui/test.py`, `scratch`,
  `vector_prediction/test.py`, `MDSTest.py`, `MDS_Comms_test.py`,
  `Vector_prediction_test.py`); the bench program, data sheets and boards under `doc` and
  `hardware`.

Behaviour of the parts that are modelled:

* The register behind the compare register of a PWM channel (`mds.c:794`).
* `pwm_config`, a local variable that the PWM driver keeps a pointer to (`mds.c:323`):
  what is read there is decided by the compiler.
* The 128th digit of a value, written behind its buffer (`main.c:807`): what it
  overwrites is decided by the linker.
* The rounding of floats, and numerals with more than one point, which
  `string_to_float` takes without an error (`ValueIsMeant` is silent on them).
* A second start of the host, and the exception that `vector_send` raises when the
  host has died: nothing in the source starts either program again.
* "UO", which the interface sends when it has just begun to listen (`finaltest.py:185`):
  it is dropped unless a host connects in that moment, and no state of the host waits
  for it.
* What a call that raises an exception does to a session: `HostBoard` has the exception,
  `Game` has only the one of the stop on a closed port.
* The hand that moves the mallet from corner to corner (`finaltest.py:346-361`,
  `vector_final.py:590-610`): the screen asks for the next corner while the camera for
  this one is still being opened.

What the models show and no source text speaks of, so that it is no finding:

* After a turn-off the host goes round idle and shutdown until another message comes,
  on a port that is closed, and its listening thread ends at the first round that
  sees `listen_should_exit`; from then on it hears nothing (`ListenNothing`, `NextRound`).
* A goal that `readline` has read ahead when a game ends counts in the next one: the
  flush sees the pipe and not the buffer (`Flush`).
* An interrupt in the loop of a game ends in an exception: the port is closed
  (`vector_final.py:803`) before the stop behind the loop is sent (810). The comment on the
  states, "ctl-c also enters the shutdown state" (559), is about a state that no interrupt
  leads to; the mallet has been stopped by then (801).
* A reset or a time-out that cuts an answer may end the host with an exception
  (`vector_final.py:466-475`), in a game with a mallet that is driven, for good or until
  the board is reset (`Raises`, `ReleasedAfterGame`).
* After two faults the host may compute its scale from the bounds of a calibration
  before the last (`BoundsAreFresh` has the bound of two).
* `last_error` is left alone in the dead band: the first pass out of it divides the
  change of many passes by the period of one (`UpdateInside`).
