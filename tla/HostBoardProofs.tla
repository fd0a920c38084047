--------------------------- MODULE HostBoardProofs ---------------------------
(***************************************************************************)
(* Proofs about HostBoard for any number of late answers, resets and       *)
(* calibrations: what is on the line is counted by the faults, a stop      *)
(* follows every start, and of the calibrations the last one is in order;  *)
(* that the board is a MalletDrive; and that a call has something to wait  *)
(* for.                                                                    *)
(***************************************************************************)
EXTENDS HostBoard, SequenceTheorems, TLAPS

\* What is on the line, with the power-on signal of a board that is starting.
Counted ==
    Len(commands) + Len(answers) + (IF phase = "booting" THEN 1 ELSE 0)
        <= faults + (IF asked = "none" THEN 0 ELSE 1)

\* Without a fault, all that is on the line is the command asked or its answer.
Own ==
    faults = 0 =>
        /\ asked # "none" => Len(commands) + Len(answers) = 1
        /\ \A i \in 1..Len(commands) : commands[i].name = asked
        /\ \A i \in 1..Len(answers)  : answers[i].to = asked /\ answers[i].says \in Whole
        /\ at # "dead" /\ digits = "all"

\* Only the last line is without its end, until the board has started again.
Ends ==
    \A i \in 1..Len(answers) : answers[i].ended \/ (i = Len(answers) /\ phase = "booting")

\* The phases of a board that has followed the host.
PhaseFits(a) ==
    /\ a \in {"idle", "params", "ready"} => phase = "released"
    /\ a = "corners" => phase = "calibrating"
    /\ a = "playing" => phase = IF calibrated # 0 THEN "driven" ELSE "released"

\* Without a fault, the board is where the host is, or where it was when it
\* gave the command that the board has not taken yet.
InStep ==
    faults = 0 =>
        IF commands = << >> THEN PhaseFits(at)
        ELSE \E p \in Program : p[2] = asked /\ p[3] = at /\ PhaseFits(p[1])

\* A stop is on its way to a board that is driven, and behind every start.
StopComes ==
    /\ phase = "driven" =>
        at \in {"playing", "dead"} \/ \E j \in 1..Len(commands) : commands[j].name = "MP"
    /\ \A i \in 1..Len(commands) : commands[i].name = "MS" =>
        at \in {"playing", "dead"}
        \/ \E j \in 1..Len(commands) : j > i /\ commands[j].name = "MP"

\* The command that begins the last calibration of the host.
IsLast(c) == c.name = "MC" /\ c.of = begun

\* The board is in the last calibration, or the command for it is on its way;
\* nothing of that calibration precedes this command.
LastComes ==
    /\ \A i \in 1..Len(commands) : commands[i].of <= begun
    /\ phase = "calibrating" =>
        current = begun \/ \E j \in 1..Len(commands) : IsLast(commands[j])
    /\ \A i \in 1..Len(commands) : commands[i].name = "MC" =>
        /\ commands[i].of > 0
        /\ commands[i].of = begun
           \/ \E j \in 1..Len(commands) : j > i /\ IsLast(commands[j])
        /\ \A h \in 1..i-1 : commands[h].of < commands[i].of

\* What bounds may be read from, or from a beginning of it.
Bears(a) == a.says \in {"MI", "less", "no number"}

\* With one fault at the most, what is left of an earlier calibration is one
\* line, and is read for the answer to the command that begins the next one.
OldIsGone ==
    faults <= 1 =>
        /\ x_calibration \in {0, begun}
        /\ \A i \in 1..Len(answers) : Bears(answers[i]) /\ answers[i].of # begun =>
            asked = "MC" /\ i = 1 /\ Len(answers) + Len(commands) = 2
        /\ \A i \in 1..Len(commands) : commands[i].name = "MD" /\ commands[i].of # begun =>
            asked = "MC" /\ i = 1 /\ answers = << >> /\ Len(commands) = 2

IInv == TypeOK /\ Counted /\ Own /\ Ends /\ InStep /\ StopComes /\ LastComes /\ OldIsGone

-----------------------------------------------------------------------------
\* What is left of a sequence when its first element is taken.
LEMMA Taking ==
    ASSUME NEW S, NEW s \in Seq(S), s # << >>
    PROVE  /\ Len(s) \in Nat \ {0} /\ Head(s) = s[1] /\ s[1] \in S
           /\ Tail(s) \in Seq(S) /\ Len(Tail(s)) = Len(s) - 1
           /\ \A i \in 1..Len(s)-1 : Tail(s)[i] = s[i+1]
  BY EmptySeq, HeadTailProperties

\* The beginnings of a line say what there is to say, and bear no bounds that the
\* line does not; nor does a line that MO has ended.
LEMMA PartsOfLines ==
    /\ "part" \in Says
    /\ \A s \in Says : \A t \in Parts(s) \cup {Joined(s)} :
        /\ t \in Says
        /\ t \in {"MI", "less", "no number"} => s \in {"MI", "less", "no number"}
  BY DEF Parts, Joined, Says, Whole

\* What a flush leaves: the end of the commands, the first of it perhaps cut.
LEMMA Flushing ==
    ASSUME commands \in Seq(CommandLines), NEW k \in 0..Len(commands), NEW c \in Flushed(k)
    PROVE  /\ c \in Seq(CommandLines) /\ Len(c) = Len(commands) - k
           /\ \A i \in 1..Len(c) : c[i] = commands[i+k] \/ (i = 1 /\ c[i] = Command("cut", 0))
  <1> DEFINE rest == SubSeq(commands, k + 1, Len(commands))
  <1>1. Len(commands) \in Nat /\ \A i \in 1..Len(commands) : commands[i] \in CommandLines
    BY LenProperties, ElementOfSeq
  <1>2. /\ rest \in Seq(CommandLines) /\ Len(rest) = Len(commands) - k
        /\ \A i \in 1..Len(rest) : rest[i] = commands[i+k]
    BY <1>1, SubSeqProperties
  <1>3. Command("cut", 0) \in CommandLines
    BY DEF Command, CommandLines
  <1>4. CASE c = rest
    BY <1>2, <1>4
  <1>5. CASE rest # << >> /\ c = <<Command("cut", 0)>> \o Tail(rest)
    <2> DEFINE cut == <<Command("cut", 0)>>
    <2>1. cut \in Seq(CommandLines) /\ Len(cut) = 1 /\ cut[1] = Command("cut", 0)
      BY <1>3
    <2>2. /\ Tail(rest) \in Seq(CommandLines) /\ Len(Tail(rest)) = Len(rest) - 1
          /\ \A i \in 1..Len(rest)-1 : Tail(rest)[i] = rest[i+1]
          /\ Len(rest) \in Nat \ {0}
      BY <1>2, <1>5, Taking
    <2> HIDE DEF cut, rest
    <2>3. /\ c \in Seq(CommandLines) /\ Len(c) = Len(rest)
          /\ \A i \in 1..Len(rest) : c[i] = IF i <= 1 THEN cut[i] ELSE Tail(rest)[i-1]
      BY <1>5, <2>1, <2>2, ConcatProperties DEF cut
    <2> QED BY <1>1, <1>2, <2>1, <2>2, <2>3
  <1> QED BY <1>4, <1>5 DEF Flushed

\* The conditions hold when both are turned on: the line is empty.
LEMMA InitIInv ==
    Init => IInv
  <1> SUFFICES ASSUME Init PROVE IInv
    OBVIOUS
  <1>1. Len(commands) = 0 /\ Len(answers) = 0
    BY DEF Init
  <1>2. TypeOK
    BY DEF Init, TypeOK, Commands
  <1> QED
    BY <1>1, <1>2 DEF Init, IInv, Counted, Own, Ends, InStep, StopComes, LastComes, OldIsGone, PhaseFits

\* As long as there is one line at the most, it is of the last calibration.
LEMMA OneLine ==
    ASSUME TypeOK, OldIsGone, faults <= 1, Len(commands) + Len(answers) <= 1
    PROVE  /\ \A i \in 1..Len(answers) : Bears(answers[i]) => answers[i].of = begun
           /\ \A i \in 1..Len(commands) : commands[i].name = "MD" => commands[i].of = begun
  <1>1. Len(commands) \in Nat /\ Len(answers) \in Nat
    BY LenProperties DEF TypeOK
  <1>2. Len(commands) < 2 /\ Len(answers) + Len(commands) < 2
    BY <1>1
  <1> QED BY <1>1, <1>2 DEF OldIsGone

-----------------------------------------------------------------------------
(* The steps of the host *)

\* A command of the host keeps the conditions: the line was within its count,
\* and the command is behind all the others.
LEMMA AskIInv ==
    ASSUME IInv, Ask
    PROVE  IInv'
  <1> USE DEF IInv
  <1>1. PICK p \in Program :
            /\ asked = "none" /\ at = p[1] /\ asked' = p[2] /\ at' = p[3]
            /\ \/ x_calibration' = 0 /\ digits' = "all"
               \/ x_calibration' = x_calibration /\ digits' = digits
            /\ p[2] = "MC" => x_calibration' = 0
            /\ begun' = IF p[2] = "MC" THEN begun + 1 ELSE begun
            /\ commands' = Append(commands, Command(p[2], begun'))
            /\ answers' = answers /\ phase' = phase /\ current' = current
            /\ calibrated' = calibrated /\ faults' = faults
    BY DEF Ask, board
  <1>2. /\ p[1] \in {"idle", "corners", "params", "ready", "playing"}
        /\ p[3] \in {"idle", "corners", "params", "ready", "playing"}
        /\ p[2] \in Commands /\ p[2] # "none" /\ p[2] # "cut"
        /\ p[1] # "dead" /\ p[3] # "dead"
        /\ p[1] = "playing" => p[3] = "playing" \/ p[2] = "MP"
        /\ p[2] = "MS" => p[3] = "playing"
    BY DEF Program, Commands
  <1>3. begun' \in Nat /\ Command(p[2], begun') \in CommandLines
    BY <1>1, <1>2 DEF TypeOK, Command, CommandLines
  <1>4. /\ commands \in Seq(CommandLines) /\ Len(commands) \in Nat /\ Len(answers) \in Nat
        /\ begun \in Nat /\ faults \in Nat
        /\ \A i \in 1..Len(commands) : commands[i] \in CommandLines
    BY LenProperties, ElementOfSeq DEF TypeOK
  <1>5. /\ commands' \in Seq(CommandLines) /\ Len(commands') = Len(commands) + 1
        /\ \A i \in 1..Len(commands) : commands'[i] = commands[i]
        /\ commands'[Len(commands)+1] = Command(p[2], begun')
    BY <1>1, <1>3, <1>4, AppendProperties
  <1>6. Command(p[2], begun').name = p[2] /\ Command(p[2], begun').of = begun'
    BY DEF Command
  <1>7. \A i \in 1..Len(commands) : commands[i].of \in Nat
    BY <1>4 DEF CommandLines
  <1>8. TypeOK'
    BY <1>1, <1>2, <1>3, <1>5 DEF TypeOK
  <1>9. Counted'
    BY <1>1, <1>2, <1>4, <1>5 DEF Counted
  <1>10. Own'
    BY <1>1, <1>2, <1>4, <1>5, <1>6 DEF Own, Counted
  <1>11. InStep'
    <2> SUFFICES ASSUME faults = 0 PROVE commands' # << >> /\ PhaseFits(p[1])'
      BY <1>1 DEF InStep
    <2>1. commands = << >>
      BY <1>1, <1>4, EmptySeq DEF Counted
    <2>2. PhaseFits(p[1])
      BY <1>1, <2>1 DEF InStep
    <2>3. commands' # << >>
      BY <1>4, <1>5, EmptySeq
    <2> QED BY <1>1, <2>2, <2>3 DEF PhaseFits
  <1>12. StopComes'
    <2> SUFFICES ASSUME at' \notin {"playing", "dead"}
                 PROVE  /\ phase = "driven" => \E j \in 1..Len(commands') : commands'[j].name = "MP"
                        /\ \A i \in 1..Len(commands') : commands'[i].name = "MS" =>
                             \E j \in 1..Len(commands') : j > i /\ commands'[j].name = "MP"
      BY <1>1 DEF StopComes
    <2>1. at = "playing" => commands'[Len(commands)+1].name = "MP"
      BY <1>1, <1>2, <1>5, <1>6
    <2>2. at # "dead" /\ commands'[Len(commands)+1].name # "MS"
      BY <1>1, <1>2, <1>5, <1>6
    <2>3. \A j \in 1..Len(commands) : j \in 1..Len(commands') /\ commands'[j] = commands[j]
      BY <1>4, <1>5
    <2>4. \A i \in 1..Len(commands') : i \in 1..Len(commands) \/ i = Len(commands)+1
      BY <1>4, <1>5
    <2>5. CASE at = "playing"
      BY <1>4, <1>5, <2>1, <2>2, <2>4, <2>5
    <2>6. CASE at # "playing"
      BY <2>2, <2>3, <2>4, <2>6 DEF StopComes
    <2> QED BY <2>5, <2>6
  <1>13. LastComes'
    <2>1. CASE p[2] = "MC"
      <3>1. /\ Len(commands') \in 1..Len(commands') /\ Len(commands') > Len(commands)
            /\ commands'[Len(commands')].name = "MC" /\ commands'[Len(commands')].of = begun'
        BY <1>1, <1>4, <1>5, <1>6, <2>1
      <3>2. \A i \in 1..Len(commands)+1 : commands'[i].name = "MC" =>
                /\ commands'[i].of > 0
                /\ \A h \in 1..i-1 : commands'[h].of < commands'[i].of
        BY <1>1, <1>4, <1>5, <1>6, <1>7, <2>1 DEF LastComes
      <3>3. \A i \in 1..Len(commands') : commands'[i].of <= begun'
        BY <1>1, <1>4, <1>5, <1>6, <1>7, <2>1 DEF LastComes
      <3>4. \A i \in 1..Len(commands)+1 : i # Len(commands') => i < Len(commands')
        BY <1>4, <1>5
      <3> QED BY <1>5, <3>1, <3>2, <3>3, <3>4 DEF LastComes, IsLast
    <2>2. CASE p[2] # "MC"
      <3>1. begun' = begun /\ commands'[Len(commands)+1].name # "MC"
        BY <1>1, <1>5, <1>6, <2>2
      <3>2. phase' = "calibrating" =>
              current' = begun' \/ \E j \in 1..Len(commands') :
                                       commands'[j].name = "MC" /\ commands'[j].of = begun'
        BY <1>1, <1>4, <1>5, <3>1 DEF LastComes, IsLast
      <3>3. ASSUME NEW i \in 1..Len(commands'), commands'[i].name = "MC"
            PROVE  /\ commands'[i].of > 0
                   /\ commands'[i].of = begun'
                      \/ \E j \in 1..Len(commands') :
                            j > i /\ commands'[j].name = "MC" /\ commands'[j].of = begun'
                   /\ \A h \in 1..i-1 : commands'[h].of < commands'[i].of
        <4>1. i \in 1..Len(commands) /\ commands'[i] = commands[i]
          BY <1>4, <1>5, <3>1, <3>3
        <4>2. commands[i].of > 0 /\ \A h \in 1..i-1 : commands[h].of < commands[i].of
          BY <3>3, <4>1 DEF LastComes
        <4>3. commands[i].of = begun \/ \E j \in 1..Len(commands) : j > i /\ IsLast(commands[j])
          BY <3>3, <4>1 DEF LastComes
        <4>4. \A h \in 1..i-1 : commands'[h] = commands[h]
          BY <1>4, <1>5, <4>1
        <4>5. \A j \in 1..Len(commands) : j \in 1..Len(commands') /\ commands'[j] = commands[j]
          BY <1>4, <1>5
        <4> QED BY <3>1, <4>1, <4>2, <4>3, <4>4, <4>5 DEF IsLast
      <3>4. \A i \in 1..Len(commands') : commands'[i].of <= begun'
        BY <1>1, <1>4, <1>5, <1>6, <1>7, <2>2 DEF LastComes
      <3> QED BY <3>2, <3>3, <3>4 DEF LastComes, IsLast
    <2> QED BY <2>1, <2>2
  <1>14. OldIsGone'
    <2> SUFFICES ASSUME faults <= 1 PROVE OldIsGone'
      BY <1>1 DEF OldIsGone
    <2>1. Len(commands) + Len(answers) <= 1
      BY <1>1, <1>4 DEF Counted
    <2>2. /\ \A i \in 1..Len(answers) : Bears(answers[i]) => answers[i].of = begun
          /\ \A i \in 1..Len(commands) : commands[i].name = "MD" => commands[i].of = begun
      BY <2>1, OneLine
    <2>3. x_calibration' \in {0, begun'}
      BY <1>1 DEF OldIsGone
    <2>4. \A i \in 1..Len(answers) : Bears(answers[i]) /\ answers[i].of # begun' =>
            p[2] = "MC" /\ i = 1 /\ Len(answers) + Len(commands') = 2
      BY <1>1, <1>4, <1>5, <2>1, <2>2
    <2>5. \A i \in 1..Len(commands') : commands'[i].name = "MD" /\ commands'[i].of # begun' =>
            p[2] = "MC" /\ i = 1 /\ Len(answers) = 0 /\ Len(commands') = 2
      BY <1>1, <1>4, <1>5, <1>6, <2>1, <2>2
    <2>6. Len(answers) = 0 => answers = << >>
      BY EmptySeq DEF TypeOK
    <2> QED BY <1>1, <2>3, <2>4, <2>5, <2>6 DEF OldIsGone, Bears
  <1>15. Ends'
    BY <1>1 DEF Ends
  <1> QED BY <1>8, <1>9, <1>10, <1>11, <1>12, <1>13, <1>14, <1>15

\* What is read ends the call, and the program at the worst; bounds are taken
\* from what bears them, by the end of a calibration only.
LEMMA ReturnedEffect ==
    ASSUME TypeOK, NEW a \in AnswerLines, Returned(a)
    PROVE  /\ asked' = "none" /\ at' \in {at, "dead"} /\ begun' = begun
           /\ commands' = commands /\ phase' = phase /\ current' = current
           /\ calibrated' = calibrated
           /\ x_calibration' = x_calibration
              \/ (asked = "MD" /\ Bears(a) /\ x_calibration' = a.of)
           /\ x_calibration' \in Nat /\ digits' \in {"all", "lost"}
           /\ a.says \in Whole => at' = at /\ (digits = "all" => digits' = "all")
  <1>1. a.of \in Nat /\ a.says \in Says
    BY DEF AnswerLines
  <1>2. /\ asked' = "none" /\ begun' = begun
        /\ commands' = commands /\ phase' = phase /\ current' = current
        /\ calibrated' = calibrated
        /\ at' = IF Raises(a) THEN "dead" ELSE at
    BY DEF Returned, board
  <1>3. CASE asked = "MD" /\ a.says \in {"MI", "less"}
    <2>1. x_calibration' = a.of /\ digits' = IF a.says = "less" THEN "lost" ELSE "all"
      BY <1>3 DEF Returned
    <2>2. digits' \in {"all", "lost"} /\ (a.says \in Whole => digits' = "all")
      BY <2>1 DEF Whole
    <2>3. a.says \in Whole => ~Raises(a)
      BY DEF Whole, Raises
    <2> QED BY <1>1, <1>2, <1>3, <2>1, <2>2, <2>3 DEF Bears
  <1>4. CASE ~(asked = "MD" /\ a.says \in {"MI", "less"})
    <2>1. x_calibration' = x_calibration /\ digits' = digits
      BY <1>4 DEF Returned
    <2>2. a.says \in Whole => ~Raises(a)
      BY DEF Whole, Raises
    <2> QED BY <1>2, <2>1, <2>2 DEF TypeOK
  <1> QED BY <1>3, <1>4

\* A line that is read, the answer meant or an older one, keeps them.
LEMMA ReadlineIInv ==
    ASSUME IInv, Readline
    PROVE  IInv'
  <1> USE DEF IInv
  <1> DEFINE a == Head(answers)
  <1>1. /\ asked # "none" /\ answers # << >> /\ answers' = Tail(answers)
        /\ Returned(a) /\ faults' = faults
    BY DEF Readline
  <1>2. /\ answers \in Seq(AnswerLines) /\ Len(commands) \in Nat
        /\ begun \in Nat /\ faults \in Nat
    BY LenProperties DEF TypeOK
  <1>3. /\ Len(answers) \in Nat \ {0} /\ a = answers[1] /\ a \in AnswerLines
        /\ answers' \in Seq(AnswerLines) /\ Len(answers') = Len(answers) - 1
        /\ \A i \in 1..Len(answers)-1 : answers'[i] = answers[i+1]
    BY <1>1, <1>2, Taking
  <1> HIDE DEF a
  <1>4. /\ asked' = "none" /\ at' \in {at, "dead"} /\ begun' = begun
        /\ commands' = commands /\ phase' = phase /\ current' = current
        /\ calibrated' = calibrated
        /\ x_calibration' = x_calibration
           \/ (asked = "MD" /\ Bears(a) /\ x_calibration' = a.of)
        /\ x_calibration' \in Nat /\ digits' \in {"all", "lost"}
        /\ a.says \in Whole => at' = at /\ (digits = "all" => digits' = "all")
    BY <1>1, <1>3, ReturnedEffect
  <1>5. TypeOK'
    BY <1>1, <1>3, <1>4 DEF TypeOK
  <1>6. Counted'
    BY <1>1, <1>2, <1>3, <1>4 DEF Counted
  <1>7. Own'
    <2> SUFFICES ASSUME faults = 0
                 PROVE  Len(commands) = 0 /\ Len(answers') = 0 /\ at' # "dead" /\ digits' = "all"
      BY <1>1, <1>2, <1>3, <1>4 DEF Own
    <2>1. a.says \in Whole
      BY <1>3 DEF Own
    <2> QED BY <1>1, <1>2, <1>3, <1>4, <2>1 DEF Own
  <1>8. InStep'
    <2> SUFFICES ASSUME faults = 0 PROVE commands = << >> /\ PhaseFits(at)'
      BY <1>1, <1>4 DEF InStep
    <2>1. commands = << >>
      BY <1>1, <1>2, <1>3, EmptySeq DEF Own, TypeOK
    <2>2. at' = at
      BY <1>3, <1>4 DEF Own
    <2> QED BY <1>4, <2>1, <2>2 DEF InStep, PhaseFits
  <1>9. StopComes' /\ LastComes'
    BY <1>4 DEF StopComes, LastComes, IsLast
  <1>10. OldIsGone'
    <2> SUFFICES ASSUME faults <= 1 PROVE OldIsGone'
      BY <1>1 DEF OldIsGone
    <2>1. x_calibration' \in {0, begun}
      <3>1. asked = "MD" /\ Bears(a) => a.of = begun
        BY <1>2, <1>3 DEF OldIsGone
      <3> QED BY <1>4, <3>1 DEF OldIsGone
    <2>2. \A i \in 1..Len(answers') : ~(Bears(answers'[i]) /\ answers'[i].of # begun)
      <3>1. \A i \in 1..Len(answers') : i + 1 \in 1..Len(answers) /\ answers'[i] = answers[i+1]
                                        /\ i + 1 # 1
        BY <1>3
      <3> QED BY <3>1 DEF OldIsGone
    <2>3. \A i \in 1..Len(commands) : ~(commands[i].name = "MD" /\ commands[i].of # begun)
      BY <1>1 DEF OldIsGone
    <2> QED BY <1>4, <2>1, <2>2, <2>3 DEF OldIsGone, Bears
  <1>11. Ends'
    BY <1>3, <1>4 DEF Ends
  <1> QED BY <1>5, <1>6, <1>7, <1>8, <1>9, <1>10, <1>11

\* So does a call that times out: its fault is counted.
LEMMA TimeoutIInv ==
    ASSUME IInv, ReadlineTimeout
    PROVE  IInv'
  <1> USE DEF IInv
  <1>1. asked # "none" /\ faults' = faults + 1
    BY DEF ReadlineTimeout
  <1>2. /\ answers \in Seq(AnswerLines) /\ Len(commands) \in Nat /\ Len(answers) \in Nat
        /\ begun \in Nat /\ faults \in Nat
    BY LenProperties DEF TypeOK
  <1>3. answers # << >> =>
          /\ Len(answers) \in Nat \ {0} /\ Head(answers) = answers[1] /\ 1 \in 1..Len(answers)
          /\ answers[1] \in AnswerLines
          /\ Tail(answers) \in Seq(AnswerLines) /\ Len(Tail(answers)) = Len(answers) - 1
          /\ \A i \in 1..Len(answers)-1 : Tail(answers)[i] = answers[i+1]
    BY <1>2, Taking
  <1>4. PICK a \in AnswerLines :
          /\ Returned(a)
          /\ Bears(a) => answers # << >> /\ Bears(answers[1]) /\ a.of = answers[1].of
    <2>1. CASE Returned(Line("none", "part", 0))
      <3> DEFINE a == Line("none", "part", 0)
      <3>1. a \in AnswerLines /\ ~Bears(a)
        BY DEF Line, AnswerLines, Bears, Says
      <3> QED BY <2>1, <3>1
    <2>2. ASSUME answers # << >>,
                 NEW s \in Parts(Head(answers).says), Returned([Head(answers) EXCEPT !.says = s])
          PROVE  \E a \in AnswerLines :
                   /\ Returned(a)
                   /\ Bears(a) => answers # << >> /\ Bears(answers[1]) /\ a.of = answers[1].of
      <3> DEFINE a == [answers[1] EXCEPT !.says = s]
      <3>1. /\ answers[1].says \in Says /\ s \in Says
            /\ s \in {"MI", "less", "no number"} => answers[1].says \in {"MI", "less", "no number"}
        BY <1>3, <2>2, PartsOfLines DEF AnswerLines
      <3>2. a \in AnswerLines /\ a.of = answers[1].of /\ a.says = s
        BY <1>3, <2>2, <3>1 DEF AnswerLines
      <3>3. Returned(a)
        BY <1>3, <2>2
      <3> QED BY <2>2, <3>1, <3>2, <3>3 DEF Bears
    <2>3. CASE answers # << >> /\ Returned(Head(answers))
      BY <1>3, <2>3
    <2> QED BY <2>1, <2>2, <2>3 DEF ReadlineTimeout
  <1>5. /\ answers' \in Seq(AnswerLines) /\ Len(answers') \in Nat /\ Len(answers') <= Len(answers)
        /\ \A i \in 1..Len(answers') :
             Bears(answers'[i]) => \E j \in 1..Len(answers) : answers'[i] = answers[j]
        /\ Ends'
    <2>0. phase' = phase
      BY <1>4, ReturnedEffect
    <2>1. CASE answers' = answers
      BY <1>2, <2>0, <2>1 DEF Ends
    <2>2. CASE answers # << >> /\ answers' = [answers EXCEPT ![1].says = "part"]
      <3> DEFINE e == [answers[1] EXCEPT !.says = "part"]
      <3>1. e \in AnswerLines /\ e.says = "part" /\ e.ended = answers[1].ended
        BY <1>3, <2>2, PartsOfLines DEF AnswerLines
      <3>2. answers' = [answers EXCEPT ![1] = e]
        BY <2>2
      <3> HIDE DEF e
      <3>3. /\ answers' \in Seq(AnswerLines) /\ Len(answers') = Len(answers)
            /\ \A j \in 1..Len(answers) : j # 1 => answers'[j] = answers[j]
            /\ answers'[1] = e
        <4>1. 1 \in 1..Len(answers)
          BY <1>3, <2>2
        <4> QED BY <1>2, <3>1, <3>2, <4>1, ExceptSeq
      <3>4. \A i \in 1..Len(answers') : Bears(answers'[i]) => answers'[i] = answers[i]
        BY <3>1, <3>3 DEF Bears
      <3>5. Ends'
        BY <1>2, <2>0, <3>1, <3>3 DEF Ends
      <3> QED BY <1>2, <3>3, <3>4, <3>5
    <2>3. CASE answers # << >> /\ answers' = Tail(answers)
      BY <1>2, <1>3, <2>0, <2>3 DEF Ends
    <2> QED BY <2>1, <2>2, <2>3 DEF ReadlineTimeout
  <1>6. /\ asked' = "none" /\ at' \in {at, "dead"} /\ begun' = begun
        /\ commands' = commands /\ phase' = phase /\ current' = current
        /\ calibrated' = calibrated
        /\ x_calibration' = x_calibration
           \/ (asked = "MD" /\ Bears(a) /\ x_calibration' = a.of)
        /\ x_calibration' \in Nat /\ digits' \in {"all", "lost"}
    BY <1>4, ReturnedEffect
  <1>7. TypeOK'
    BY <1>1, <1>2, <1>5, <1>6 DEF TypeOK
  <1>8. Counted' /\ Own' /\ InStep'
    BY <1>1, <1>2, <1>5, <1>6 DEF Counted, Own, InStep
  <1>9. StopComes' /\ LastComes'
    BY <1>6 DEF StopComes, LastComes, IsLast
  <1>10. OldIsGone'
    <2> SUFFICES ASSUME faults = 0 PROVE OldIsGone'
      BY <1>1, <1>2 DEF OldIsGone
    <2>1. Len(commands) + Len(answers) = 1 /\ 1 \in 1..1
      BY <1>1 DEF Own
    <2>2. /\ \A i \in 1..Len(answers) : Bears(answers[i]) => answers[i].of = begun
          /\ \A i \in 1..Len(commands) : commands[i].name = "MD" => commands[i].of = begun
      BY <1>2, <2>1, OneLine
    <2>3. x_calibration' \in {0, begun}
      BY <1>2, <1>3, <1>4, <1>6, <2>2 DEF OldIsGone
    <2>4. \A i \in 1..Len(answers') : Bears(answers'[i]) => answers'[i].of = begun
      BY <1>5, <2>2
    <2> QED BY <1>6, <2>2, <2>3, <2>4 DEF OldIsGone, Bears
  <1> QED BY <1>5, <1>7, <1>8, <1>9, <1>10

-----------------------------------------------------------------------------
(* The steps of the board *)

\* What a command does to the board, and what the answer to it is.
LEMMA ObeyEffect ==
    ASSUME TypeOK, Obey, NEW c, c = commands[1]
    PROVE  /\ commands # << >> /\ commands' = Tail(commands) /\ phase # "booting"
           /\ phase' \in {"released", "calibrating", "driven"}
           /\ current' \in Nat /\ calibrated' \in Nat
           /\ \E a \in AnswerLines :
                /\ answers' = Append(answers, a) /\ a.to = c.name
                /\ a.says \in Whole /\ a.ended
                /\ Bears(a) => c.name = "MD" /\ phase = "calibrating" /\ a.of = current
           /\ c.name = "MC" => phase' = "calibrating" /\ current' = c.of
           /\ c.name # "MC" => current' = current /\ (phase' = "calibrating" => phase = "calibrating")
           /\ c.name \notin {"MC", "MD"} => calibrated' = calibrated
           /\ c.name = "MD" => phase' = IF phase = "calibrating" THEN "released" ELSE phase
           /\ c.name \in {"MRX", "MRY", "ML"} => phase' = phase
           /\ c.name = "MS" => phase' = IF phase = "released" /\ calibrated # 0 THEN "driven" ELSE phase
           /\ c.name = "MP" => phase' = "released"
           /\ c.name = "cut" => phase' = phase
  <1>1. /\ commands # << >> /\ commands' = Tail(commands) /\ phase # "booting"
        /\ Begin \/ End \/ Set \/ Start \/ Locate \/ Stop \/ Refuse
    BY DEF Obey
  <1>2. /\ Taken = c /\ c \in CommandLines /\ c.name \in Commands \cup {"cut"} /\ c.of \in Nat
        /\ current \in Nat /\ calibrated \in Nat
        /\ phase \in {"released", "calibrating", "driven"}
    <2>1. commands \in Seq(CommandLines) /\ Taken = c
      BY <1>1, Taking DEF TypeOK, Taken
    <2>2. c \in CommandLines
      BY <1>1, <2>1, Taking
    <2> QED BY <1>1, <2>1, <2>2 DEF TypeOK, CommandLines
  <1>3. \A r \in {"MA", "ME"} :
            /\ Line(c.name, r, 0) \in AnswerLines /\ Line(c.name, r, 0).to = c.name
            /\ Line(c.name, r, 0).says \in Whole /\ Line(c.name, r, 0).ended
            /\ ~Bears(Line(c.name, r, 0))
    BY <1>2 DEF Line, AnswerLines, Bears, Says, Whole
  <1>4. /\ Line("MD", "MI", current) \in AnswerLines
        /\ Line("MD", "MI", current).to = "MD" /\ Line("MD", "MI", current).of = current
        /\ Line("MD", "MI", current).says \in Whole /\ Line("MD", "MI", current).ended
    BY <1>2 DEF Line, AnswerLines, Commands, Says, Whole
  <1>5. CASE Begin
    BY <1>1, <1>2, <1>3, <1>5 DEF Begin, Reply
  <1>6. CASE End
    BY <1>1, <1>2, <1>3, <1>4, <1>6 DEF End, Reply
  <1>7. CASE Set
    BY <1>1, <1>2, <1>3, <1>7 DEF Set, Reply, board
  <1>8. CASE Start
    BY <1>1, <1>2, <1>3, <1>8 DEF Start, Reply
  <1>9. CASE Locate
    BY <1>1, <1>2, <1>3, <1>9 DEF Locate, Reply, board
  <1>10. CASE Stop
    BY <1>1, <1>2, <1>3, <1>10 DEF Stop, Reply
  <1>11. CASE Refuse
    BY <1>1, <1>2, <1>3, <1>11 DEF Refuse, Reply, board
  <1> QED BY <1>1, <1>5, <1>6, <1>7, <1>8, <1>9, <1>10, <1>11

\* The board keeps the conditions with every command that it takes.
LEMMA ObeyIInv ==
    ASSUME IInv, Obey
    PROVE  IInv'
  <1> USE DEF IInv
  <1> DEFINE c == commands[1]
  <1>1. /\ commands # << >> /\ commands' = Tail(commands) /\ phase # "booting"
        /\ phase' \in {"released", "calibrating", "driven"}
        /\ current' \in Nat /\ calibrated' \in Nat
        /\ c.name = "MC" => phase' = "calibrating" /\ current' = c.of
        /\ c.name # "MC" => current' = current /\ (phase' = "calibrating" => phase = "calibrating")
    BY ObeyEffect
  <1>2. /\ c.name \notin {"MC", "MD"} => calibrated' = calibrated
        /\ c.name = "MD" => phase' = IF phase = "calibrating" THEN "released" ELSE phase
        /\ c.name \in {"MRX", "MRY", "ML"} => phase' = phase
        /\ c.name = "MS" => phase' = IF phase = "released" /\ calibrated # 0 THEN "driven" ELSE phase
        /\ c.name = "MP" => phase' = "released"
        /\ c.name = "cut" => phase' = phase
    BY ObeyEffect
  <1>3. PICK a \in AnswerLines :
            /\ answers' = Append(answers, a) /\ a.to = c.name
            /\ a.says \in Whole /\ a.ended
            /\ Bears(a) => c.name = "MD" /\ phase = "calibrating" /\ a.of = current
    BY ObeyEffect
  <1>4. /\ at' = at /\ asked' = asked /\ x_calibration' = x_calibration /\ begun' = begun
        /\ digits' = digits /\ faults' = faults
    BY DEF Obey, host
  <1>5. /\ commands \in Seq(CommandLines) /\ answers \in Seq(AnswerLines)
        /\ Len(answers) \in Nat /\ begun \in Nat /\ faults \in Nat
    BY LenProperties DEF TypeOK
  <1>6. /\ Len(commands) \in Nat \ {0} /\ c \in CommandLines
        /\ commands' \in Seq(CommandLines) /\ Len(commands') = Len(commands) - 1
        /\ \A i \in 1..Len(commands)-1 : commands'[i] = commands[i+1]
    BY <1>1, <1>5, Taking
  <1>7. /\ answers' \in Seq(AnswerLines) /\ Len(answers') = Len(answers) + 1
        /\ \A i \in 1..Len(answers) : answers'[i] = answers[i]
        /\ answers'[Len(answers)+1] = a
    BY <1>3, <1>5, AppendProperties
  <1>8. c.name \in Commands \cup {"cut"} /\ c.of \in Nat /\ c.of <= begun
    <2>1. c.of <= begun
      BY <1>6 DEF LastComes
    <2> QED BY <1>6, <2>1 DEF CommandLines
  <1>9. 1 \in 1..Len(commands)
    BY <1>6
  <1> HIDE DEF c
  <1>10. TypeOK'
    BY <1>1, <1>4, <1>6, <1>7 DEF TypeOK
  <1>11. Counted'
    BY <1>1, <1>4, <1>5, <1>6, <1>7 DEF Counted
  <1>12. Own'
    <2> SUFFICES ASSUME faults = 0
                 PROVE  /\ asked # "none" => Len(commands') + Len(answers') = 1
                        /\ \A i \in 1..Len(commands') : commands'[i].name = asked
                        /\ \A i \in 1..Len(answers')  :
                              answers'[i].to = asked /\ answers'[i].says \in Whole
      BY <1>4 DEF Own
    <2>1. c.name = asked
      BY <1>9 DEF Own, c
    <2>2. \A i \in 1..Len(commands') : commands'[i].name = asked
      BY <1>6 DEF Own
    <2>3. \A i \in 1..Len(answers') : answers'[i].to = asked /\ answers'[i].says \in Whole
      BY <1>3, <1>5, <1>7, <2>1 DEF Own
    <2> QED BY <1>5, <1>6, <1>7, <2>2, <2>3 DEF Own
  <1>13. InStep'
    <2> SUFFICES ASSUME faults = 0 PROVE commands' = << >> /\ PhaseFits(at)'
      BY <1>4 DEF InStep
    <2>1. PICK p \in Program : p[2] = asked /\ p[3] = at /\ PhaseFits(p[1])
      BY <1>1 DEF InStep
    <2>2. c.name = asked /\ asked # "none"
      BY <1>9, <2>1 DEF Own, Program, c
    <2>3. commands' = << >>
      BY <1>5, <1>6, <2>2, EmptySeq DEF Own
    <2>4. PhaseFits(at)'
      BY <1>1, <1>2, <1>4, <2>1, <2>2 DEF Program, PhaseFits
    <2> QED BY <2>3, <2>4
  <1>14. StopComes'
    <2>1. phase' = "driven" =>
            at \in {"playing", "dead"} \/ \E j \in 1..Len(commands') : commands'[j].name = "MP"
      <3> SUFFICES ASSUME phase' = "driven", at \notin {"playing", "dead"}
                   PROVE  \E j \in 1..Len(commands) : j > 1 /\ commands[j].name = "MP"
        <4>1. \A j \in 1..Len(commands) : j > 1 =>
                j - 1 \in 1..Len(commands') /\ commands'[j-1] = commands[j]
          BY <1>6
        <4> QED BY <4>1
      <3>1. c.name = "MS" \/ (phase = "driven" /\ c.name # "MP")
        BY <1>1, <1>2, <1>8 DEF Commands
      <3>2. CASE c.name = "MS"
        BY <1>6, <1>9, <3>2 DEF StopComes, c
      <3>3. CASE phase = "driven" /\ c.name # "MP"
        <4>1. PICK j \in 1..Len(commands) : commands[j].name = "MP"
          BY <3>3 DEF StopComes
        <4>2. j # 1
          BY <3>3, <4>1 DEF c
        <4> QED BY <1>6, <4>1, <4>2
      <3> QED BY <3>1, <3>2, <3>3
    <2>2. ASSUME NEW i \in 1..Len(commands'), commands'[i].name = "MS", at \notin {"playing", "dead"}
          PROVE  \E j \in 1..Len(commands') : j > i /\ commands'[j].name = "MP"
      <3>1. i + 1 \in 1..Len(commands) /\ commands'[i] = commands[i+1]
        BY <1>6
      <3>2. PICK j \in 1..Len(commands) : j > i + 1 /\ commands[j].name = "MP"
        BY <2>2, <3>1 DEF StopComes
      <3>3. j - 1 \in 1..Len(commands') /\ j - 1 > i /\ commands'[j-1] = commands[j]
        BY <1>6, <3>2
      <3> QED BY <3>2, <3>3
    <2> QED BY <1>4, <2>1, <2>2 DEF StopComes
  <1>15. LastComes'
    <2>1. phase' = "calibrating" => current' = begun \/ \E j \in 1..Len(commands') : IsLast(commands'[j])
      <3> SUFFICES ASSUME phase' = "calibrating", current' # begun
                   PROVE  \E j \in 1..Len(commands) : j > 1 /\ IsLast(commands[j])
        <4>1. \A j \in 1..Len(commands) : j > 1 =>
                j - 1 \in 1..Len(commands') /\ commands'[j-1] = commands[j]
          BY <1>6
        <4> QED BY <4>1
      <3>1. CASE c.name = "MC"
        BY <1>1, <1>6, <1>9, <3>1 DEF LastComes, c
      <3>2. CASE c.name # "MC"
        BY <1>1, <1>6, <1>9, <3>2 DEF LastComes, IsLast, c
      <3> QED BY <3>1, <3>2
    <2>2. ASSUME NEW i \in 1..Len(commands'), commands'[i].name = "MC"
          PROVE  /\ commands'[i].of > 0
                 /\ commands'[i].of = begun
                    \/ \E j \in 1..Len(commands') : j > i /\ IsLast(commands'[j])
                 /\ \A h \in 1..i-1 : commands'[h].of < commands'[i].of
      <3>1. i + 1 \in 1..Len(commands) /\ commands'[i] = commands[i+1]
        BY <1>6
      <3>2. /\ commands[i+1].of > 0
            /\ commands[i+1].of = begun
               \/ \E j \in 1..Len(commands) : j > i+1 /\ IsLast(commands[j])
            /\ \A h \in 1..i : commands[h].of < commands[i+1].of
        BY <2>2, <3>1 DEF LastComes
      <3>3. \A j \in 1..Len(commands) : j > i + 1 =>
                j - 1 \in 1..Len(commands') /\ j - 1 > i /\ commands'[j-1] = commands[j]
        BY <1>6
      <3>4. \A h \in 1..i-1 : h + 1 \in 1..i /\ commands'[h] = commands[h+1]
        BY <1>6, <3>1
      <3> QED BY <3>1, <3>2, <3>3, <3>4
    <2>3. \A i \in 1..Len(commands') : commands'[i].of <= begun
      BY <1>6 DEF LastComes
    <2>4. \A j \in 1..Len(commands') : IsLast(commands'[j]) <=>
            commands'[j].name = "MC" /\ commands'[j].of = begun'
      BY <1>4 DEF IsLast
    <2> QED BY <1>4, <2>1, <2>2, <2>3, <2>4 DEF LastComes, IsLast
  <1>16. OldIsGone'
    <2> SUFFICES ASSUME faults <= 1 PROVE OldIsGone'
      BY <1>4 DEF OldIsGone
    <2>1. x_calibration' \in {0, begun'}
      BY <1>4 DEF OldIsGone
    <2>2. Len(answers') + Len(commands') = Len(answers) + Len(commands)
      BY <1>5, <1>6, <1>7
    <2>5. \A i \in 1..Len(answers) : Bears(answers'[i]) /\ answers'[i].of # begun =>
            asked = "MC" /\ i = 1 /\ Len(answers') + Len(commands') = 2
      <3> SUFFICES ASSUME NEW i \in 1..Len(answers), Bears(answers[i]), answers[i].of # begun
                   PROVE  asked = "MC" /\ i = 1 /\ Len(answers) + Len(commands) = 2
        BY <1>7, <2>2
      <3> QED BY DEF OldIsGone
    <2>3. Bears(a) /\ a.of # begun =>
            asked = "MC" /\ Len(answers) = 0 /\ Len(commands) = 2
      <3> SUFFICES ASSUME Bears(a), a.of # begun
                   PROVE  asked = "MC" /\ Len(answers) = 0 /\ Len(commands) = 2
        OBVIOUS
      <3>1. c.name = "MD" /\ phase = "calibrating" /\ current # begun
        BY <1>3
      <3>2. PICK j \in 1..Len(commands) : IsLast(commands[j])
        BY <3>1 DEF LastComes
      <3>3. j # 1
        BY <3>1, <3>2 DEF IsLast, c
      <3>4. c.of < begun
        BY <1>6, <3>2, <3>3 DEF LastComes, IsLast, c
      <3> QED BY <1>5, <1>8, <1>9, <3>1, <3>4, EmptySeq DEF OldIsGone, c
    <2>4. \A i \in 1..Len(commands') : commands'[i].name = "MD" => commands'[i].of = begun
      <3> SUFFICES ASSUME NEW i \in 1..Len(commands'), commands'[i].name = "MD"
                   PROVE  commands'[i].of = begun
        OBVIOUS
      <3>1. i + 1 \in 1..Len(commands) /\ i + 1 # 1 /\ commands'[i] = commands[i+1]
        BY <1>6
      <3> QED BY <3>1 DEF OldIsGone
    <2>6. \A i \in 1..Len(answers') : Bears(answers'[i]) /\ answers'[i].of # begun =>
            asked = "MC" /\ i = 1 /\ Len(answers') + Len(commands') = 2
      <3> SUFFICES ASSUME NEW i \in 1..Len(answers'), Bears(answers'[i]), answers'[i].of # begun
                   PROVE  asked = "MC" /\ i = 1 /\ Len(answers') + Len(commands') = 2
        OBVIOUS
      <3>1. i \in 1..Len(answers) \/ i = Len(answers) + 1
        BY <1>5, <1>7
      <3>2. CASE i \in 1..Len(answers)
        BY <2>5, <3>2
      <3>3. CASE i = Len(answers) + 1
        <4>1. Bears(a) /\ a.of # begun
          BY <1>7, <3>3
        <4>2. asked = "MC" /\ Len(answers) = 0 /\ Len(commands) = 2
          BY <2>3, <4>1
        <4> QED BY <2>2, <3>3, <4>2
      <3> QED BY <3>1, <3>2, <3>3
    <2> QED BY <1>4, <2>1, <2>4, <2>6 DEF OldIsGone, Bears
  <1>17. Ends'
    <2>1. \A i \in 1..Len(answers) : answers[i].ended
      BY <1>1 DEF Ends
    <2> QED BY <1>3, <1>5, <1>7, <2>1 DEF Ends
  <1> QED BY <1>10, <1>11, <1>12, <1>13, <1>14, <1>15, <1>16, <1>17

\* What a reset leaves of the lines: the first ones, the last perhaps cut.
LEMMA Sending ==
    ASSUME answers \in Seq(AnswerLines), NEW k \in 0..Len(answers), NEW b \in Sent(k)
    PROVE  /\ b \in Seq(AnswerLines) /\ Len(b) = k
           /\ \A i \in 1..k : i # k => b[i] = answers[i]
           /\ \A i \in 1..k : Bears(b[i]) => Bears(answers[i]) /\ b[i].of = answers[i].of
  <1> DEFINE out == SubSeq(answers, 1, k)
  <1>1. Len(answers) \in Nat /\ \A i \in 1..Len(answers) : answers[i] \in AnswerLines
    BY LenProperties, ElementOfSeq
  <1>2. /\ out \in Seq(AnswerLines) /\ Len(out) = k
        /\ \A i \in 1..k : out[i] = answers[i]
    BY <1>1, SubSeqProperties
  <1>3. CASE b = out
    BY <1>2, <1>3
  <1>4. ASSUME k # 0, NEW s \in Parts(out[k].says),
               b = [out EXCEPT ![k].says = s, ![k].ended = FALSE]
        PROVE  /\ b \in Seq(AnswerLines) /\ Len(b) = k
               /\ \A i \in 1..k : i # k => b[i] = answers[i]
               /\ \A i \in 1..k : Bears(b[i]) => Bears(answers[i]) /\ b[i].of = answers[i].of
    <2> DEFINE e == [answers[k] EXCEPT !.says = s, !.ended = FALSE]
    <2>1. k \in 1..Len(answers) /\ k \in 1..Len(out) /\ answers[k] \in AnswerLines
          /\ out[k] = answers[k]
      BY <1>1, <1>2, <1>4
    <2>2. /\ answers[k].says \in Says /\ s \in Says
          /\ s \in {"MI", "less", "no number"} => answers[k].says \in {"MI", "less", "no number"}
      BY <1>4, <2>1, PartsOfLines DEF AnswerLines
    <2>3. e \in AnswerLines /\ e.says = s /\ e.of = answers[k].of
      BY <2>1, <2>2 DEF AnswerLines
    <2>4. b = [out EXCEPT ![k] = e]
      BY <1>2, <1>4, <2>1
    <2> HIDE DEF e, out
    <2>5. /\ b \in Seq(AnswerLines) /\ Len(b) = Len(out)
          /\ \A j \in 1..Len(out) : b[j] = IF j = k THEN e ELSE out[j]
      BY <1>2, <2>1, <2>3, <2>4, ExceptSeq
    <2> QED BY <1>2, <2>2, <2>3, <2>5 DEF Bears
  <1> QED BY <1>3, <1>4 DEF Sent

\* A reset keeps them: what is lost only shortens the line, and the power-on
\* signal to come is counted as a fault.
LEMMA ResetIInv ==
    ASSUME IInv, Reset
    PROVE  IInv'
  <1> USE DEF IInv
  <1>1. /\ faults' = faults + 1 /\ phase' = "booting" /\ current' = 0 /\ calibrated' = 0
        /\ at' = at /\ asked' = asked /\ x_calibration' = x_calibration /\ begun' = begun
        /\ digits' = digits /\ commands' = commands /\ phase # "booting"
    BY DEF Reset, host
  <1>2. PICK k \in 0..Len(answers) : answers' \in Sent(k)
    BY DEF Reset
  <1>3. /\ answers \in Seq(AnswerLines) /\ Len(answers) \in Nat /\ Len(commands) \in Nat
        /\ faults \in Nat /\ \A i \in 1..Len(answers) : answers[i] \in AnswerLines
    BY LenProperties, ElementOfSeq DEF TypeOK
  <1>4. /\ answers' \in Seq(AnswerLines) /\ Len(answers') = k
        /\ \A i \in 1..k : i # k => answers'[i] = answers[i]
        /\ \A i \in 1..k : Bears(answers'[i]) => Bears(answers[i]) /\ answers'[i].of = answers[i].of
    BY <1>2, <1>3, Sending
  <1>5. TypeOK'
    BY <1>1, <1>4 DEF TypeOK
  <1>6. Counted' /\ Own' /\ InStep' /\ StopComes' /\ LastComes'
    BY <1>1, <1>3, <1>4 DEF Counted, Own, InStep, StopComes, LastComes, IsLast
  <1>7. OldIsGone'
    <2> SUFFICES ASSUME faults = 0 PROVE OldIsGone'
      BY <1>1, <1>3 DEF OldIsGone
    <2>1. Len(commands) + Len(answers) <= 1
      BY <1>3 DEF Counted
    <2>2. /\ \A i \in 1..Len(answers) : Bears(answers[i]) => answers[i].of = begun
          /\ \A i \in 1..Len(commands) : commands[i].name = "MD" => commands[i].of = begun
      BY <1>3, <2>1, OneLine
    <2>3. \A i \in 1..Len(answers') : Bears(answers'[i]) => answers'[i].of = begun
      BY <1>3, <1>4, <2>2
    <2>4. x_calibration \in {0, begun}
      BY <1>3 DEF OldIsGone
    <2> QED BY <1>1, <2>2, <2>3, <2>4 DEF OldIsGone, Bears
  <1>8. Ends'
    BY <1>1, <1>3, <1>4 DEF Ends
  <1> QED BY <1>5, <1>6, <1>7, <1>8

\* The power-on signal ends the line that was cut, or has a line of its own.
LEMMA Signalling ==
    ASSUME answers \in Seq(AnswerLines), Ends
    PROVE  /\ Signalled \in Seq(AnswerLines)
           /\ Len(Signalled) \in Nat \ {0} /\ Len(Signalled) <= Len(answers) + 1
           /\ \A i \in 1..Len(Signalled) :
                /\ Signalled[i].ended
                /\ Bears(Signalled[i]) => /\ i \in 1..Len(answers) /\ Bears(answers[i])
                                         /\ Signalled[i].of = answers[i].of
  <1> DEFINE n == Len(answers)
  <1>1. n \in Nat /\ \A i \in 1..n : answers[i] \in AnswerLines
    BY LenProperties, ElementOfSeq
  <1>2. CASE n # 0 /\ ~answers[n].ended
    <2> DEFINE e == [answers[n] EXCEPT !.says = Joined(answers[n].says), !.ended = TRUE]
    <2>1. n \in 1..n /\ answers[n] \in AnswerLines
      BY <1>1, <1>2
    <2>2. /\ answers[n].says \in Says /\ Joined(answers[n].says) \in Says
          /\ Joined(answers[n].says) \in {"MI", "less", "no number"} =>
                answers[n].says \in {"MI", "less", "no number"}
      BY <2>1, PartsOfLines DEF AnswerLines
    <2>3. e \in AnswerLines /\ e.says = Joined(answers[n].says) /\ e.of = answers[n].of /\ e.ended
      BY <2>1, <2>2 DEF AnswerLines
    <2>4. Signalled = [answers EXCEPT ![n] = e]
      BY <1>2, <2>1 DEF Signalled
    <2> HIDE DEF e
    <2>5. /\ Signalled \in Seq(AnswerLines) /\ Len(Signalled) = n
          /\ \A j \in 1..n : Signalled[j] = IF j = n THEN e ELSE answers[j]
      BY <2>1, <2>3, <2>4, ExceptSeq
    <2>6. \A i \in 1..n : i # n => answers[i].ended
      BY DEF Ends
    <2>7. Bears(e) => Bears(answers[n])
      BY <2>2, <2>3 DEF Bears
    <2>8. \A i \in 1..n : Signalled[i].ended
      BY <2>3, <2>5, <2>6
    <2>9. \A i \in 1..n : Bears(Signalled[i]) =>
            Bears(answers[i]) /\ Signalled[i].of = answers[i].of
      BY <2>3, <2>5, <2>7
    <2> QED BY <1>1, <1>2, <2>5, <2>8, <2>9
  <1>3. CASE ~(n # 0 /\ ~answers[n].ended)
    <2> DEFINE m == Line("none", "MO", 0)
    <2>1. m \in AnswerLines /\ m.ended /\ ~Bears(m)
      BY DEF Line, AnswerLines, Bears, Says, Whole
    <2>2. Signalled = Append(answers, m)
      BY <1>3 DEF Signalled
    <2> HIDE DEF m
    <2>3. /\ Signalled \in Seq(AnswerLines) /\ Len(Signalled) = n + 1
          /\ \A i \in 1..n : Signalled[i] = answers[i]
          /\ Signalled[n+1] = m
      BY <2>1, <2>2, AppendProperties
    <2>4. \A i \in 1..n : answers[i].ended
      BY <1>1, <1>3 DEF Ends
    <2> QED BY <1>1, <2>1, <2>3, <2>4
  <1> QED BY <1>2, <1>3

\* A start of the board keeps them, whatever the flush leaves of the commands.
LEMMA PowerOnIInv ==
    ASSUME IInv, PowerOn
    PROVE  IInv'
  <1> USE DEF IInv
  <1>1. /\ phase = "booting" /\ phase' = "released"
        /\ answers' = Signalled
        /\ at' = at /\ asked' = asked /\ x_calibration' = x_calibration /\ begun' = begun
        /\ digits' = digits /\ current' = current /\ calibrated' = calibrated /\ faults' = faults
    BY DEF PowerOn, host
  <1>2. /\ commands \in Seq(CommandLines) /\ answers \in Seq(AnswerLines)
        /\ Len(answers) \in Nat /\ Len(commands) \in Nat /\ begun \in Nat /\ faults \in Nat
    BY LenProperties DEF TypeOK
  <1>3. PICK k \in 0..Len(commands) : commands' \in Flushed(k)
    BY DEF PowerOn
  <1>4. /\ commands' \in Seq(CommandLines) /\ Len(commands') = Len(commands) - k
        /\ \A i \in 1..Len(commands') : commands'[i] = commands[i+k]
                                       \/ (i = 1 /\ commands'[i] = Command("cut", 0))
    BY <1>2, <1>3, Flushing
  <1>5. Command("cut", 0).name = "cut" /\ Command("cut", 0).of = 0
    BY DEF Command
  <1>7. /\ answers' \in Seq(AnswerLines)
        /\ Len(answers') \in Nat \ {0} /\ Len(answers') <= Len(answers) + 1
        /\ \A i \in 1..Len(answers') :
             /\ answers'[i].ended
             /\ Bears(answers'[i]) => /\ i \in 1..Len(answers) /\ Bears(answers[i])
                                     /\ answers'[i].of = answers[i].of
    BY <1>1, <1>2, Signalling
  <1>8. faults # 0
    BY <1>1, <1>2, EmptySeq DEF Counted, Own
  <1>9. \A i \in 1..Len(commands') : i + k \in 1..Len(commands)
    BY <1>2, <1>4
  <1>10. \A j \in 1..Len(commands), i \in 1..Len(commands') : j > i + k =>
            j - k \in 1..Len(commands') /\ j - k > i /\ commands'[j-k] = commands[j]
    <2> SUFFICES ASSUME NEW j \in 1..Len(commands), NEW i \in 1..Len(commands'), j > i + k
                 PROVE  j - k \in 1..Len(commands') /\ j - k > i /\ commands'[j-k] = commands[j]
      OBVIOUS
    <2>1. j - k \in 1..Len(commands') /\ j - k > i /\ j - k # 1 /\ (j - k) + k = j
      BY <1>2, <1>4
    <2> QED BY <1>4, <2>1
  <1>11. TypeOK'
    BY <1>1, <1>4, <1>7 DEF TypeOK
  <1>12. Counted'
    BY <1>1, <1>2, <1>4, <1>7 DEF Counted
  <1>13. Own' /\ InStep'
    BY <1>1, <1>8 DEF Own, InStep
  <1>14. StopComes'
    <2> SUFFICES ASSUME NEW i \in 1..Len(commands'), commands'[i].name = "MS",
                        at \notin {"playing", "dead"}
                 PROVE  \E j \in 1..Len(commands') : j > i /\ commands'[j].name = "MP"
      BY <1>1 DEF StopComes
    <2>1. commands'[i] = commands[i+k]
      BY <1>4, <1>5
    <2>2. PICK j \in 1..Len(commands) : j > i + k /\ commands[j].name = "MP"
      BY <1>9, <2>1 DEF StopComes
    <2> QED BY <1>10, <2>2
  <1>15. LastComes'
    <2>1. \A i \in 1..Len(commands') : commands'[i].of <= begun
      <3> SUFFICES ASSUME NEW i \in 1..Len(commands') PROVE commands'[i].of <= begun
        OBVIOUS
      <3>1. i + k \in 1..Len(commands) /\ commands[i+k].of <= begun
        BY <1>9 DEF LastComes
      <3>2. commands'[i].of = commands[i+k].of \/ commands'[i].of = 0
        BY <1>4, <1>5
      <3> QED BY <1>2, <3>1, <3>2
    <2>2. ASSUME NEW i \in 1..Len(commands'), commands'[i].name = "MC"
          PROVE  /\ commands'[i].of > 0
                 /\ commands'[i].of = begun
                    \/ \E j \in 1..Len(commands') :
                          j > i /\ commands'[j].name = "MC" /\ commands'[j].of = begun
                 /\ \A h \in 1..i-1 : commands'[h].of < commands'[i].of
      <3>1. commands'[i] = commands[i+k] /\ i + k \in 1..Len(commands)
        BY <1>4, <1>5, <1>9, <2>2
      <3>2. /\ commands[i+k].of > 0
            /\ commands[i+k].of = begun
               \/ \E j \in 1..Len(commands) :
                     j > i + k /\ commands[j].name = "MC" /\ commands[j].of = begun
            /\ \A h \in 1..(i+k)-1 : commands[h].of < commands[i+k].of
        BY <2>2, <3>1 DEF LastComes, IsLast
      <3>3. \A h \in 1..i-1 : h \in 1..Len(commands') /\ h + k \in 1..(i+k)-1
        BY <1>2, <1>4
      <3>4. \A h \in 1..i-1 : commands'[h].of < commands'[i].of
        BY <1>4, <1>5, <3>1, <3>2, <3>3
      <3> QED BY <1>10, <3>1, <3>2, <3>4
    <2> QED BY <1>1, <2>1, <2>2 DEF LastComes, IsLast
  <1>16. OldIsGone'
    <2> SUFFICES ASSUME faults <= 1 PROVE OldIsGone'
      BY <1>1 DEF OldIsGone
    <2>1. Len(commands) + Len(answers) <= 1
      BY <1>1, <1>2 DEF Counted
    <2>2. \A i \in 1..Len(answers') : Bears(answers'[i]) => answers'[i].of = begun
      <3>1. \A i \in 1..Len(answers) : Bears(answers[i]) => answers[i].of = begun
        BY <2>1, OneLine
      <3> QED BY <1>7, <3>1
    <2>3. \A i \in 1..Len(commands') : commands'[i].name = "MD" => commands'[i].of = begun
      <3>1. \A i \in 1..Len(commands) : commands[i].name = "MD" => commands[i].of = begun
        BY <2>1, OneLine
      <3> QED BY <1>4, <1>5, <1>9, <3>1
    <2> QED BY <1>1, <2>2, <2>3 DEF OldIsGone, Bears
  <1>17. Ends'
    BY <1>7 DEF Ends
  <1> QED BY <1>11, <1>12, <1>13, <1>14, <1>15, <1>16, <1>17

-----------------------------------------------------------------------------
\* The conditions above hold in every state that the two programs and the line
\* can reach.
THEOREM Invariance ==
    Spec => []IInv
  <1>1. IInv /\ [Next]_vars => IInv'
    <2> SUFFICES ASSUME IInv, [Next]_vars PROVE IInv'
      OBVIOUS
    <2>1. CASE UNCHANGED vars
      <3>1. /\ at' = at /\ asked' = asked /\ x_calibration' = x_calibration /\ digits' = digits
            /\ begun' = begun /\ commands' = commands /\ answers' = answers /\ phase' = phase
            /\ current' = current /\ calibrated' = calibrated /\ faults' = faults
        BY <2>1 DEF vars, host, board
      <3>2. TypeOK' /\ Counted' /\ Own' /\ Ends'
        BY <3>1 DEF IInv, TypeOK, Counted, Own, Ends
      <3>3. InStep' /\ StopComes'
        BY <3>1 DEF IInv, InStep, PhaseFits, StopComes
      <3>4. LastComes' /\ OldIsGone'
        BY <3>1 DEF IInv, LastComes, IsLast, OldIsGone, Bears
      <3> QED BY <3>2, <3>3, <3>4 DEF IInv
    <2>2. CASE Next
      BY <2>1, <2>2, AskIInv, ReadlineIInv, TimeoutIInv, ObeyIInv, ResetIInv, PowerOnIInv
         DEF Next, HostStep, BoardStep, Terminating
    <2> QED BY <2>1, <2>2
  <1> QED BY <1>1, InitIInv, PTL DEF Spec

\* The variables of the host, the line and the board have their types, however
\* many faults and calibrations there are.
THEOREM TypeCorrectness ==
    Spec => []TypeOK
  <1>1. IInv => TypeOK
    BY DEF IInv
  <1> QED BY <1>1, Invariance, PTL

\* Every late answer and every reset puts the host one line behind at the most;
\* without them an answer is that of the command, and no call raises an exception.
THEOREM AnswersBelongToCommands ==
    Spec => []AnswersAreOwn
  <1>1. IInv => AnswersAreOwn
    <2> SUFFICES ASSUME IInv PROVE AnswersAreOwn
      OBVIOUS
    <2>1. Len(commands) \in Nat /\ Len(answers) \in Nat
      BY LenProperties DEF IInv, TypeOK
    <2> QED BY <2>1 DEF IInv, TypeOK, Counted, Own, AnswersAreOwn
  <1> QED BY <1>1, Invariance, PTL

\* The bounds that the host has are those of its last calibration, or none,
\* until it is two lines behind; digits are lost from them by faults only.
THEOREM BoundsAreOfLastCalibration ==
    Spec => []BoundsAreFresh
  <1>1. IInv => BoundsAreFresh
    BY DEF IInv, TypeOK, Own, OldIsGone, BoundsAreFresh
  <1> QED BY <1>1, Invariance, PTL

\* The mallet is not driven when a game is over, but until the board has taken
\* the stop or if the host has ended with an exception, however many answers were
\* late and resets lost or cut what was sent.
THEOREM MalletIsReleased ==
    Spec => []ReleasedAfterGame
  <1>1. IInv => ReleasedAfterGame
    <2> SUFFICES ASSUME IInv PROVE ReleasedAfterGame
      OBVIOUS
    <2>1. DOMAIN commands = 1..Len(commands)
      BY LenProperties DEF IInv, TypeOK
    <2> QED BY <2>1 DEF IInv, StopComes, ReleasedAfterGame
  <1> QED BY <1>1, Invariance, PTL

\* Without a fault a game after a good calibration is played with a mallet that
\* is driven, although the host looks at no answer.
THEOREM GameHasItsMallet ==
    Spec => []GameIsDriven
  <1>1. IInv => GameIsDriven
    <2> SUFFICES ASSUME IInv, faults = 0, at = "playing", asked = "none", calibrated # 0
                 PROVE  phase = "driven"
      BY DEF GameIsDriven
    <2>1. commands = << >>
      <3>1. commands \in Seq(CommandLines) /\ Len(commands) \in Nat /\ Len(answers) \in Nat
        BY LenProperties DEF IInv, TypeOK
      <3> QED BY <3>1, EmptySeq DEF IInv, Counted
    <2> QED BY <2>1 DEF IInv, InStep, PhaseFits
  <1> QED BY <1>1, Invariance, PTL
-----------------------------------------------------------------------------
\* The board as the driver that mds.h describes, without the locations: a board
\* that has not started again is a driver that is released.
Driver == INSTANCE MalletDrive WITH
    Axes <- {},
    phase <- IF phase = "booting" THEN "released" ELSE phase,
    calibrated <- calibrated # 0,
    moving <- FALSE,
    target <- [a \in {} |-> 0], low <- [a \in {} |-> 0], high <- [a \in {} |-> 0]

\* What the driver is seen to do: a call, or the loss of its power.
Called == Driver!Next \/ Driver!StartCalibration \/ Driver!Init'

\* A calibration that the board is in was begun by a command: it is not the 0
\* that stands for no calibration.
Named == phase = "calibrating" => current > 0

\* Only the handler of MC begins a calibration, and its command has a number.
LEMMA StaysNamed ==
    ASSUME IInv, Named, [Next]_vars
    PROVE  Named'
  <1>1. ASSUME Obey PROVE Named'
    <2>1. commands # << >> /\ phase # "booting"
      BY <1>1 DEF Obey
    <2>2. CASE Begin
      <3>1. Taken = commands[1] /\ 1 \in 1..Len(commands)
        BY <2>1, Taking DEF IInv, TypeOK, Taken
      <3> QED BY <2>2, <3>1 DEF IInv, LastComes, Begin, Named
    <2>3. CASE ~Begin
      BY <1>1, <2>3 DEF Obey, End, Set, Start, Locate, Stop, Refuse, Named, board
    <2> QED BY <2>2, <2>3
  <1>2. CASE UNCHANGED board
    BY <1>2 DEF Named, board
  <1> QED
    BY <1>1, <1>2 DEF Next, HostStep, BoardStep, Ask, Readline, ReadlineTimeout, Returned,
       Reset, PowerOn, Terminating, Named, board, vars

\* What the handler of a command does is a call of the driver, or nothing to it.
LEMMA ObeyIsCall ==
    ASSUME IInv, Named, Obey
    PROVE  [Called]_(Driver!vars)
  <1>1. phase \in {"released", "calibrating", "driven"} /\ phase' # "booting"
    BY DEF IInv, TypeOK, Obey, Begin, End, Set, Start, Locate, Stop, Refuse, board
  <1>2. CASE Begin
    BY <1>1, <1>2 DEF Begin, Called, Driver!StartCalibration
  <1>3. CASE End
    <2>1. CASE phase = "calibrating" /\ phase' = "released" /\ calibrated' = current
      BY <1>1, <2>1 DEF Named, IInv, TypeOK, Called, Driver!Next, Driver!EndCalibration
    <2>2. CASE phase = "calibrating" /\ phase' = "released" /\ calibrated' = calibrated
      BY <1>1, <2>2 DEF Called, Driver!Next, Driver!EndCalibration
    <2>3. CASE phase' = phase /\ calibrated' = calibrated
      BY <1>1, <2>3 DEF Driver!vars
    <2> QED BY <1>3, <2>1, <2>2, <2>3 DEF End
  <1>4. CASE Start
    <2>1. CASE phase = "released" /\ calibrated # 0 /\ phase' = "driven"
      BY <1>1, <1>4, <2>1 DEF Start, Called, Driver!Next, Driver!Start
    <2>2. CASE phase' = phase
      BY <1>1, <1>4, <2>2 DEF Start, Driver!vars
    <2> QED BY <1>4, <2>1, <2>2 DEF Start
  <1>5. CASE Stop
    BY <1>1, <1>5 DEF Stop, Called, Driver!Next, Driver!Release
  <1>6. CASE Set \/ Locate \/ Refuse
    BY <1>1, <1>6 DEF Set, Locate, Refuse, board, Driver!vars
  <1> QED BY <1>2, <1>3, <1>4, <1>5, <1>6 DEF Obey

\* Whatever the host sends, and wherever the power fails, the board does to the
\* driver what mds.h describes and module MDS is shown to do, call by call: it is
\* never driven but after a calibration of its own since it was turned on.
THEOREM BoardIsDriver ==
    Spec => Driver!CalledSpec
  <1>1. Init => Named /\ Driver!Init
    BY DEF Init, Named, Driver!Init
  <1>2. ASSUME IInv, Named, [Next]_vars
        PROVE  [Called]_(Driver!vars)
    <2>1. CASE UNCHANGED board
      BY <2>1 DEF board, Driver!vars
    <2>2. CASE Obey
      BY <1>2, <2>2, ObeyIsCall
    <2>3. CASE Reset
      BY <2>3 DEF Reset, Called, Driver!Init
    <2>4. CASE PowerOn
      BY <2>4 DEF PowerOn, Driver!vars
    <2> QED
      BY <1>2, <2>1, <2>2, <2>3, <2>4
         DEF Next, HostStep, BoardStep, Ask, Readline, ReadlineTimeout, Returned, Terminating, vars
  <1> QED
    BY <1>1, <1>2, StaysNamed, Invariance, PTL DEF Spec, Called, Driver!CalledSpec
-----------------------------------------------------------------------------
\* A call that has not returned has something coming: its command, or another,
\* is before the board, or a line before the host, or a board is starting.
Coming == asked # "none" => commands # << >> \/ answers # << >> \/ phase = "booting"

\* There is a line for the host, and its end has been sent.
Readable == answers # << >> /\ Head(answers).ended

\* Every handler answers, and so does a board that has started: there is a line
\* then, and the first of them has its end.
LEMMA ObeyAnswers ==
    ASSUME IInv, Obey \/ PowerOn
    PROVE  Readable'
  <1>1. answers \in Seq(AnswerLines) /\ Len(answers) \in Nat
    BY LenProperties DEF IInv, TypeOK
  <1>2. CASE Obey
    <2>1. PICK a \in AnswerLines : answers' = Append(answers, a) /\ a.ended
      BY <1>2, ObeyEffect DEF IInv
    <2>2. /\ answers' \in Seq(AnswerLines) /\ Len(answers') = Len(answers) + 1
          /\ \A i \in 1..Len(answers) : answers'[i] = answers[i]
          /\ answers'[Len(answers)+1] = a
      BY <1>1, <2>1, AppendProperties
    <2>3. \A i \in 1..Len(answers) : answers[i].ended
      BY <1>2 DEF IInv, Ends, Obey
    <2>4. answers'[1].ended
      BY <1>1, <2>1, <2>2, <2>3
    <2>5. answers' # << >> /\ Head(answers') = answers'[1]
      <3>1. answers' # << >>
        BY <1>1, <2>2, EmptySeq
      <3> QED BY <2>2, <3>1, Taking
    <2> QED BY <2>4, <2>5 DEF Readable
  <1>3. CASE PowerOn
    <2>1. /\ answers' \in Seq(AnswerLines) /\ Len(answers') \in Nat \ {0}
          /\ answers'[1].ended
      BY <1>1, <1>3, Signalling DEF IInv, PowerOn
    <2>2. answers' # << >>
      BY <2>1, EmptySeq
    <2>3. Head(answers') = answers'[1]
      BY <2>1, <2>2, Taking
    <2> QED BY <2>1, <2>2, <2>3 DEF Readable
  <1> QED BY <1>2, <1>3

\* A line that has no end is that of a board that is starting.
LEMMA StartingEnds ==
    ASSUME IInv, answers # << >>, phase # "booting"
    PROVE  Readable
  <1>1. Head(answers) = answers[1] /\ 1 \in 1..Len(answers)
    BY Taking DEF IInv, TypeOK
  <1> QED BY <1>1 DEF IInv, Ends, Readable

\* No call is left with nothing to come, whatever was reset or late: a host
\* without its time-out would not wait in vain.
THEOREM SomethingIsComing ==
    Spec => []Coming
  <1>1. Init => Coming
    BY DEF Init, Coming
  <1>2. ASSUME IInv, Coming, [Next]_vars
        PROVE  Coming'
    <2>1. CASE Ask
      <3>1. \A l : Append(commands, l) # << >>
        BY <1>2, AppendProperties, EmptySeq DEF IInv, TypeOK
      <3> QED BY <2>1, <3>1 DEF Ask, Coming
    <2>2. CASE Readline \/ ReadlineTimeout
      BY <2>2 DEF Readline, ReadlineTimeout, Returned, Coming
    <2>3. CASE Obey \/ PowerOn
      BY <1>2, <2>3, ObeyAnswers DEF Coming, Readable
    <2>4. CASE Reset
      BY <2>4 DEF Reset, Coming
    <2>5. CASE UNCHANGED vars \/ Terminating
      BY <1>2, <2>5 DEF Terminating, vars, host, board, Coming
    <2> QED BY <1>2, <2>1, <2>2, <2>3, <2>4, <2>5 DEF Next, HostStep, BoardStep
  <1> QED BY <1>1, <1>2, Invariance, PTL DEF Spec

\* Where the guards of the fair actions hold, they are enabled: the prover knows
\* nothing of ENABLED.
StepsExist ==
    /\ asked # "none" /\ Readable => ENABLED <<Readline>>_vars
    /\ phase = "booting" \/ commands # << >> => ENABLED <<Obey \/ PowerOn>>_vars

\* A call ends, with an answer or an exception, without a time-out, or the board
\* is reset for ever.
THEOREM CallsComeBack ==
    FairSpec /\ []StepsExist => CallsReturn \/ []<><<Reset>>_vars
  <1> DEFINE Asking    == asked # "none"
             Answering == phase = "booting" \/ commands # << >>
  <1>1. IInv /\ [Next]_vars /\ Asking /\ Readable => ~Asking' \/ Readable' \/ <<Reset>>_vars
    <2> SUFFICES ASSUME IInv, [Next]_vars, asked # "none", Readable
                 PROVE  asked' = "none" \/ Readable' \/ <<Reset>>_vars
      OBVIOUS
    <2>1. CASE Obey \/ PowerOn
      BY <2>1, ObeyAnswers
    <2>2. CASE Reset
      BY <2>2 DEF Reset, IInv, TypeOK, vars
    <2>3. CASE Ask \/ Readline \/ ReadlineTimeout
      BY <2>3 DEF Ask, Readline, ReadlineTimeout, Returned
    <2>4. CASE Terminating \/ UNCHANGED vars
      BY <2>4 DEF Terminating, vars, Readable
    <2> QED
      BY <2>1, <2>2, <2>3, <2>4 DEF Next, HostStep, BoardStep
  <1>2. IInv /\ <<Obey \/ PowerOn>>_vars => Readable'
    BY ObeyAnswers
  <1>3. <<Readline>>_vars => ~Asking'
    BY DEF Readline, Returned
  <1>4. IInv /\ Coming /\ Asking => Readable \/ Answering
    BY StartingEnds DEF Coming
  <1>5. StepsExist =>
           /\ Asking /\ Readable => ENABLED <<Readline>>_vars
           /\ Answering => ENABLED <<Obey \/ PowerOn>>_vars
    BY DEF StepsExist
  <1>6. /\ Asking <=> asked # "none"
        /\ ~Asking <=> asked = "none"
    OBVIOUS
  <1> HIDE DEF Asking, Answering
  <1> QED
    BY <1>1, <1>2, <1>3, <1>4, <1>5, <1>6, SomethingIsComing, Invariance, PTL
       DEF FairSpec, Spec, CallsReturn
=============================================================================
