-------------------------------- MODULE Score --------------------------------
(***************************************************************************)
(* The score of a game: the goal sensor, scoring/scoring.cpp, writes a     *)
(* line for every goal into a pipe; in ui/finaltest.py the thread          *)
(* score_read takes the lines out of it and counts, and the timer callback *)
(* update_scores looks at the counts every two seconds and ends the game.  *)
(*                                                                         *)
(* Times are abstracted to their order: a second has passed since a switch *)
(* was last recorded or not, the sixty seconds of a game are over or not.  *)
(***************************************************************************)
EXTENDS Integers, Sequences, FiniteSets

CONSTANTS
    Win,        \* the goals that win a game: 3 in the code
    MaxPipe     \* bound: the most lines in the pipe

ASSUME ScoreAssumption == Win \in Nat \ {0} /\ MaxPipe \in Nat \ {0}

Sides == {"u", "a"}     \* the lines of the player's goals and of the table's

VARIABLES
    \* scoring.cpp: the switches
    first,              \* whose first interrupt is still to come
    recent,             \* whose time in last_* is less than a second ago
    bouncing,           \* whose contact is still bouncing
    own,                \* history: whose present contact set last_*
    lines,              \* history: the lines written for each one's present contact
    \* between the programs
    pipe,               \* the lines in the pipe
    buffer,             \* the lines that the interface's stdin has read ahead
    \* score_read
    reader,             \* its place: "none", "reset", "flush", "poll", "check"
    score,              \* userScore and AHAScore
    \* start_scorekeeping and update_scores
    at,                 \* "menu", "game", or the part of update_scores that is run
    timers,             \* the calls of update_scores that are scheduled
    loopy,              \* whether the one that this call has scheduled still is
    scorekeeping_done, turnoff,
    timeup,             \* whether the game has lasted a minute
    \* history, of this game
    verdicts,           \* the screens that ended it, each of which sends "UP"
    overlap,            \* whether a reader was ever started beside another
    due                 \* the lines that the reader of a game has to count: those
                        \* it found in the buffer and those written since

sensor  == <<first, recent, bouncing, own, lines>>
keeping == <<at, timers, loopy, scorekeeping_done, turnoff, timeup, verdicts, overlap>>

vars == <<sensor, pipe, buffer, reader, score, keeping, due>>

\* The lines of side s in a sequence of lines.
Count(s, q) == Cardinality({i \in DOMAIN q : q[i] = s})
None        == [s \in Sides |-> 0]

-----------------------------------------------------------------------------
Init ==
    /\ first = Sides /\ recent = {} /\ bouncing = {} /\ own = {} /\ lines = None
    /\ pipe = << >> /\ buffer = << >>
    /\ reader = "none" /\ score = None
    /\ at = "menu" /\ timers = 0 /\ loopy = FALSE
    /\ scorekeeping_done = FALSE /\ turnoff = FALSE /\ timeup = FALSE
    /\ verdicts = << >> /\ overlap = FALSE
    /\ due = None

-----------------------------------------------------------------------------
(* The goal sensor *)

Reading == reader \in {"poll", "check"}

Write(s) ==
    /\ Len(pipe) < MaxPipe
    /\ pipe' = Append(pipe, s)
    /\ due' = IF Reading THEN [due EXCEPT ![s] = @ + 1] ELSE due

Record(s) == recent' = recent \cup {s} /\ own' = own \cup {s}

\* Mutant: the time of a goal is not recorded.
score_interrupt_Untimed(s) ==
    \/ /\ s \in first /\ first' = first \ {s} /\ Record(s)
       /\ UNCHANGED <<lines, pipe, due>>
    \/ /\ s \notin first \cup recent
       /\ Write(s) /\ lines' = [lines EXCEPT ![s] = @ + 1]
       /\ UNCHANGED <<first, recent, own>>
    \/ /\ s \in recent \ first
       /\ UNCHANGED <<first, recent, own, lines, pipe, due>>

\* player_score_interrupt and aha_score_interrupt: the first interrupt only
\* records its time; another one is a goal if it comes a second after the one
\* recorded.
score_interrupt(s) ==
    \/ /\ s \in first /\ first' = first \ {s} /\ Record(s)
       /\ UNCHANGED <<lines, pipe, due>>
    \/ /\ s \notin first \cup recent
       /\ Write(s) /\ lines' = [lines EXCEPT ![s] = @ + 1] /\ Record(s)
       /\ UNCHANGED first
    \/ /\ s \in recent \ first
       /\ UNCHANGED <<first, recent, own, lines, pipe, due>>

\* A goal closes the switch, and the contact may bounce: each time is an
\* interrupt.
Contact(s) ==
    /\ bouncing' = bouncing \cup {s}
    /\ score_interrupt(s)
    /\ UNCHANGED <<buffer, reader, score, keeping>>

Settle(s) ==
    /\ s \in bouncing
    /\ bouncing' = bouncing \ {s} /\ own' = own \ {s} /\ lines' = [lines EXCEPT ![s] = 0]
    /\ UNCHANGED <<first, recent, pipe, buffer, reader, score, keeping, due>>

\* A contact bounces for less than a second, so that the second after a time
\* that it recorded ends after its bounces.
Second(s) ==
    /\ s \in recent \ own
    /\ recent' = recent \ {s}
    /\ UNCHANGED <<first, bouncing, own, lines, pipe, buffer, reader, score, keeping, due>>

Sensor == \E s \in Sides : Contact(s) \/ Settle(s) \/ Second(s)

-----------------------------------------------------------------------------
(* score_read *)

Reset ==
    /\ reader = "reset"
    /\ score' = None /\ reader' = "flush"
    /\ UNCHANGED <<pipe, buffer, due>>

\* The lines of before the game are read with os.read, which does not see
\* those in the buffer of stdin.  The loop takes no time, as goals go.
Flush ==
    /\ reader = "flush"
    /\ pipe' = << >> /\ reader' = "poll"
    /\ due' = [s \in Sides |-> Count(s, buffer)]
    /\ UNCHANGED <<buffer, score>>

\* Mutant: what was read ahead is lost.
Poll_DropsRest ==
    /\ reader = "poll"
    /\ \/ /\ pipe # << >>
          /\ score' = [score EXCEPT ![Head(pipe)] = @ + 1]
          /\ pipe' = << >> /\ UNCHANGED buffer
       \/ pipe = << >> /\ UNCHANGED <<score, pipe, buffer>>
    /\ reader' = "check"
    /\ UNCHANGED due

\* select looks at the pipe; readline takes a line out of the buffer, which it
\* fills with all there is in the pipe when it is empty.
Poll ==
    /\ reader = "poll"
    /\ \/ /\ pipe # << >>
          /\ LET all == IF buffer = << >> THEN pipe ELSE buffer
             IN  /\ score' = [score EXCEPT ![Head(all)] = @ + 1]
                 /\ buffer' = Tail(all)
          /\ pipe' = IF buffer = << >> THEN << >> ELSE pipe
       \/ pipe = << >> /\ UNCHANGED <<score, pipe, buffer>>
    /\ reader' = "check"
    /\ UNCHANGED due

Check ==
    /\ reader = "check"
    /\ reader' = IF turnoff \/ \E s \in Sides : score[s] = Win THEN "none" ELSE "poll"
    /\ due' = IF reader' = "none" THEN None ELSE due
    /\ UNCHANGED <<pipe, buffer, score>>

score_read == (Reset \/ Flush \/ Poll \/ Check) /\ UNCHANGED <<sensor, keeping>>

-----------------------------------------------------------------------------
(* start_scorekeeping and update_scores *)

counting == <<sensor, pipe, buffer, score, due>>

start_scorekeeping ==
    /\ at = "menu"
    /\ at' = "game"
    /\ scorekeeping_done' = FALSE /\ turnoff' = FALSE /\ timeup' = FALSE
    /\ reader' = "reset" /\ overlap' = (overlap \/ reader # "none")
    /\ timers' = timers + 1
    /\ verdicts' = << >>
    /\ UNCHANGED <<counting, loopy>>

TimeUp ==
    /\ at # "menu" /\ ~timeup
    /\ timeup' = TRUE
    /\ UNCHANGED <<counting, reader, at, timers, loopy, scorekeeping_done, turnoff,
                   verdicts, overlap>>

\* A call of update_scores, which schedules the next one before all else.  The
\* first comes a second after the thread was started, which is enough for it
\* to clear the scores.
update_scores ==
    /\ at \in {"menu", "game"} /\ timers > 0
    /\ reader # "reset"
    /\ at' = "aha" /\ loopy' = TRUE
    /\ UNCHANGED <<counting, reader, timers, scorekeeping_done, turnoff, timeup,
                   verdicts, overlap>>

\* top.after_cancel(loopy), which may have been cancelled already
after_cancel == timers' = (IF loopy THEN timers - 1 ELSE timers) /\ loopy' = FALSE

\* Mutant: the next call is left scheduled.
Won_Uncancelled(s, here, join, next) ==
    /\ at = here
    /\ \/ score[s] >= Win /\ scorekeeping_done /\ at' = join
          /\ UNCHANGED scorekeeping_done
       \/ score[s] >= Win /\ ~scorekeeping_done /\ at' = next
          /\ scorekeeping_done' = TRUE
       \/ score[s] < Win /\ at' = next /\ UNCHANGED scorekeeping_done
    /\ UNCHANGED <<counting, reader, timers, loopy, turnoff, timeup, verdicts, overlap>>

\* Has side s won?  The first time that it has, only scorekeeping_done is set,
\* so that the last number is shown for two seconds.
Won(s, here, join, next) ==
    /\ at = here
    /\ \/ /\ score[s] >= Win /\ scorekeeping_done
          /\ after_cancel /\ at' = join
          /\ UNCHANGED scorekeeping_done
       \/ /\ score[s] >= Win /\ ~scorekeeping_done
          /\ scorekeeping_done' = TRUE /\ at' = next
          /\ UNCHANGED <<timers, loopy>>
       \/ /\ score[s] < Win
          /\ at' = next
          /\ UNCHANGED <<timers, loopy, scorekeeping_done>>
    /\ UNCHANGED <<counting, reader, turnoff, timeup, verdicts, overlap>>

\* Mutant: the screen is shown without waiting for the thread.
Joined_NoWait(here, verdict, next) ==
    /\ at = here
    /\ verdicts' = Append(verdicts, verdict)
    /\ scorekeeping_done' = (here # "time_join" \/ scorekeeping_done)
    /\ at' = next
    /\ UNCHANGED <<counting, reader, timers, loopy, turnoff, timeup, overlap>>

\* score_read_thread.join(), then the screen that ends the game.
Joined(here, verdict, next) ==
    /\ at = here
    /\ reader = "none"
    /\ verdicts' = Append(verdicts, verdict)
    /\ scorekeeping_done' = (here # "time_join" \/ scorekeeping_done)
    /\ at' = next
    /\ UNCHANGED <<counting, reader, timers, loopy, turnoff, timeup, overlap>>

\* Mutant: the reader is not told that the time is up.
TimeCheck_Untold ==
    /\ at = "time"
    /\ \/ timeup /\ after_cancel /\ at' = "time_join"
       \/ ~timeup /\ at' = (IF verdicts = << >> THEN "game" ELSE "menu")
          /\ UNCHANGED <<timers, loopy>>
    /\ UNCHANGED <<counting, reader, scorekeeping_done, turnoff, timeup, verdicts, overlap>>

\* The last part of update_scores: the sixty seconds.
TimeCheck ==
    /\ at = "time"
    /\ \/ /\ timeup
          /\ turnoff' = TRUE /\ after_cancel /\ at' = "time_join"
       \/ /\ ~timeup
          /\ at' = IF verdicts = << >> THEN "game" ELSE "menu"
          /\ UNCHANGED <<timers, loopy, turnoff>>
    /\ UNCHANGED <<counting, reader, scorekeeping_done, timeup, verdicts, overlap>>

Visit ==
    \/ update_scores
    \/ Won("a", "aha", "aha_join", "user") \/ Joined("aha_join", "loser", "user")
    \/ Won("u", "user", "user_join", "time") \/ Joined("user_join", "winner", "time")
    \/ TimeCheck \/ Joined("time_join", "loser", "menu")

Next == Sensor \/ score_read \/ start_scorekeeping \/ TimeUp \/ Visit

Spec == Init /\ [][Next]_vars

\* The thread, the timer and the clock go on; no goal need be scored and no
\* game be started.
FairSpec == Spec /\ WF_vars(score_read) /\ WF_vars(Visit) /\ WF_vars(TimeUp)

-----------------------------------------------------------------------------
\* The types of the flags, and of the variables.
FlagsOK == {loopy, scorekeeping_done, turnoff, timeup, overlap} \subseteq BOOLEAN

TypeOK ==
    /\ first \subseteq Sides /\ recent \subseteq Sides
    /\ bouncing \subseteq Sides /\ own \subseteq Sides
    /\ lines \in [Sides -> Nat] /\ score \in [Sides -> Nat] /\ due \in [Sides -> Nat]
    /\ pipe \in Seq(Sides) /\ Len(pipe) <= MaxPipe
    /\ buffer \in Seq(Sides) /\ Len(buffer) < MaxPipe
    /\ reader \in {"none", "reset", "flush", "poll", "check"}
    /\ at \in {"menu", "game", "aha", "aha_join", "user", "user_join", "time", "time_join"}
    /\ timers \in Nat /\ FlagsOK
    /\ verdicts \in Seq({"winner", "loser"})

\* A goal is one line at the most, however its contact bounces.
OneLineAGoal == \A s \in Sides : lines[s] <= 1

\* While a game is read, every line written since then is counted or still
\* waits; what is counted beside them was in the buffer when the game began,
\* a goal of the game before.
GoalsAreConserved ==
    Reading => \A s \in Sides :
        due[s] = score[s] + Count(s, buffer) + Count(s, pipe)

\* The thread ends on a score that is equal to three: no score passes it, and
\* the two do not reach it both.
ScoreStopsAtWin ==
    /\ \A s \in Sides : score[s] <= Win
    /\ \E s \in Sides : score[s] < Win

\* Two readers would share the scores and the buffer: none is started while
\* another one runs.  One call of update_scores is scheduled while a game is
\* on, and none when it is over: it would end the next game.
OneOfEach ==
    /\ ~overlap
    /\ timers = IF at = "menu" \/ verdicts # << >> \/ at \in {"aha_join", "user_join", "time_join"}
                THEN 0 ELSE 1

\* A game has one verdict, and so one message that ends it, unless its time is
\* up when it is found to be decided.
OneVerdict ==
    Len(verdicts) > 1 => /\ Len(verdicts) = 2 /\ verdicts[2] = "loser"
                         /\ timeup /\ \E s \in Sides : score[s] = Win

\* A game that was started is over some time: no wait for the thread is in
\* vain.
GameEnds == at = "game" ~> at = "menu"
=============================================================================
