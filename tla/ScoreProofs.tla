----------------------------- MODULE ScoreProofs -----------------------------
(***************************************************************************)
(* Proofs about Score for any number of goals that win, and any length of  *)
(* the pipe; and, where a step that is due can be made, that every game    *)
(* comes to an end.                                                        *)
(***************************************************************************)
EXTENDS Score, FiniteSetTheorems, FunctionTheorems, SequenceTheorems, TLAPS

\* A switch whose time its present contact set is in the second after it, and
\* only such a contact has a line.
Debounced ==
    /\ own \subseteq recent
    /\ \A s \in Sides : lines[s] <= 1 /\ (lines[s] > 0 => s \in own)

\* The scores of a game start at nothing, and the thread reads on only while
\* nobody has won.
Scores ==
    /\ reader = "flush" => score = None
    /\ reader \in {"flush", "poll"} => \A s \in Sides : score[s] < Win
    /\ ScoreStopsAtWin

\* The reader and the timer of a game are gone when it is over.
Alone ==
    /\ OneOfEach
    /\ reader # "none" => at # "menu" /\ verdicts = << >>
    /\ reader = "reset" => at = "game"
    /\ loopy => at # "menu" /\ at \notin {"aha_join", "user_join", "time_join"} /\ verdicts = << >>
    /\ at \in {"aha", "user", "time"} /\ verdicts = << >> => loopy

\* How many verdicts there can be where, and on what score.
Judged ==
    /\ at \in {"game", "aha", "aha_join", "user_join"} => verdicts = << >>
    /\ at \in {"user", "time", "time_join"} => Len(verdicts) <= 1
    /\ verdicts # << >> /\ at \in {"user", "time", "time_join"} =>
        \E s \in Sides : score[s] = Win
    /\ at = "user" /\ verdicts # << >> => score["a"] = Win
    /\ at = "aha_join"  => score["a"] = Win
    /\ at = "user_join" => score["u"] = Win
    /\ at = "time_join" => timeup
    /\ OneVerdict

IInv == TypeOK /\ Debounced /\ Scores /\ GoalsAreConserved /\ Alone /\ Judged

-----------------------------------------------------------------------------
\* How many lines of a side a sequence has.
LEMMA CountType ==
    ASSUME NEW q \in Seq(Sides), NEW s \in Sides
    PROVE  /\ IsFiniteSet({i \in DOMAIN q : q[i] = s})
           /\ Count(s, q) \in Nat
  <1>1. IsFiniteSet(1..Len(q)) /\ DOMAIN q = 1..Len(q)
    BY FS_Interval, LenProperties
  <1>2. {i \in DOMAIN q : q[i] = s} \in SUBSET (1..Len(q))
    BY <1>1
  <1> QED BY <1>1, <1>2, FS_Subset, FS_CardinalityType DEF Count

\* An empty pipe has no lines.
LEMMA CountEmpty ==
    ASSUME NEW s
    PROVE  Count(s, << >>) = 0
  BY FS_EmptySet DEF Count

\* A line more.
LEMMA CountAppend ==
    ASSUME NEW q \in Seq(Sides), NEW s \in Sides, NEW t \in Sides
    PROVE  Count(s, Append(q, t)) = IF s = t THEN Count(s, q) + 1 ELSE Count(s, q)
  <1> DEFINE n == Len(q)
             A == {i \in DOMAIN q : q[i] = s}
             B == {i \in DOMAIN Append(q, t) : Append(q, t)[i] = s}
  <1>1. n \in Nat /\ DOMAIN q = 1..n
    BY LenProperties
  <1>2. /\ Append(q, t) \in Seq(Sides) /\ Len(Append(q, t)) = n + 1
        /\ \A i \in 1..n : Append(q, t)[i] = q[i]
        /\ Append(q, t)[n+1] = t
    BY AppendProperties
  <1>3. DOMAIN Append(q, t) = 1..n+1
    BY <1>2, LenProperties
  <1>4. B = IF s = t THEN A \cup {n+1} ELSE A
    BY <1>1, <1>2, <1>3
  <1>5. n + 1 \notin A
    BY <1>1
  <1>6. IsFiniteSet(A)
    BY CountType
  <1>7. IsFiniteSet(A) => Cardinality(A \cup {n+1}) = Cardinality(A) + 1
    BY <1>5, FS_AddElement
  <1> QED BY <1>4, <1>6, <1>7 DEF Count

\* The first line less.
LEMMA CountTail ==
    ASSUME NEW q \in Seq(Sides), NEW s \in Sides, q # << >>
    PROVE  Count(s, q) = IF s = Head(q) THEN Count(s, Tail(q)) + 1 ELSE Count(s, Tail(q))
  <1> DEFINE n == Len(q)
             A == {i \in DOMAIN q : q[i] = s}
             B == {i \in DOMAIN Tail(q) : Tail(q)[i] = s}
             C == A \ {1}
             f == [i \in B |-> i + 1]
  <1>1. /\ n \in Nat \ {0} /\ DOMAIN q = 1..n /\ Head(q) = q[1]
        /\ Tail(q) \in Seq(Sides) /\ Len(Tail(q)) = n - 1
        /\ \A i \in 1..n-1 : Tail(q)[i] = q[i+1]
    BY LenProperties, EmptySeq, HeadTailProperties
  <1>2. DOMAIN Tail(q) = 1..n-1
    BY <1>1, LenProperties
  <1>3. IsFiniteSet(A) /\ IsFiniteSet(B)
    BY <1>1, CountType
  <1>4. f \in Bijection(B, C)
    <2>1. f \in [B -> C]
      BY <1>1, <1>2
    <2>2. \A i, j \in B : f[i] = f[j] => i = j
      BY <1>1, <1>2
    <2>3. \A k \in C : \E i \in B : f[i] = k
      <3> SUFFICES ASSUME NEW k \in C PROVE \E i \in B : f[i] = k
        OBVIOUS
      <3>1. k - 1 \in B
        BY <1>1, <1>2
      <3> WITNESS k - 1 \in B
      <3> QED BY <1>1, <3>1
    <2> QED BY <2>1, <2>2, <2>3, Fun_IsBij
  <1>5. Cardinality(C) = Cardinality(B)
    <2>1. ExistsBijection(B, C)
      BY <1>4 DEF ExistsBijection
    <2> HIDE DEF B, C
    <2> QED BY <1>3, <2>1, FS_Bijection
  <1>6. Cardinality(C) = IF 1 \in A THEN Cardinality(A) - 1 ELSE Cardinality(A)
    <2> HIDE DEF A
    <2> QED BY <1>3, FS_RemoveElement
  <1>7. 1 \in A <=> s = Head(q)
    BY <1>1
  <1>8. Cardinality(A) \in Nat /\ Cardinality(B) \in Nat
    BY <1>1, CountType DEF Count
  <1>9. Count(s, q) = Cardinality(A) /\ Count(s, Tail(q)) = Cardinality(B)
    BY DEF Count
  <1> HIDE DEF A, B, C
  <1> QED BY <1>5, <1>6, <1>7, <1>8, <1>9

\* The sensor and the reader leave what update_scores keeps alone.
LEMMA Kept ==
    ASSUME IInv, UNCHANGED keeping
    PROVE  FlagsOK' /\ at' = at /\ timers' = timers /\ verdicts' = verdicts
  <1>1. FlagsOK
    BY DEF IInv, TypeOK
  <1>2. FlagsOK'
    BY <1>1 DEF FlagsOK, keeping
  <1>3. at' = at /\ timers' = timers /\ verdicts' = verdicts
    BY DEF keeping
  <1> QED BY <1>2, <1>3

-----------------------------------------------------------------------------
\* The conditions hold before the first game.
LEMMA InitIInv ==
    Init => IInv
  <1> SUFFICES ASSUME Init PROVE IInv
    OBVIOUS
  <1> USE ScoreAssumption DEF Init
  <1>1. TypeOK
    <2>1. FlagsOK
      BY DEF FlagsOK
    <2> QED BY <2>1 DEF TypeOK, None
  <1>2. Debounced /\ Scores
    BY DEF Debounced, Scores, ScoreStopsAtWin, None, Sides
  <1>3. GoalsAreConserved /\ Alone /\ Judged
    BY DEF GoalsAreConserved, Reading, Alone, OneOfEach, Judged, OneVerdict
  <1> QED BY <1>1, <1>2, <1>3 DEF IInv

\* An interrupt of a switch keeps them: its line is counted as due.
LEMMA ContactIInv ==
    ASSUME IInv, NEW s \in Sides, Contact(s)
    PROVE  IInv'
  <1> USE ScoreAssumption DEF IInv
  <1>1. UNCHANGED <<buffer, reader, score, keeping>> /\ score_interrupt(s)
        /\ bouncing' = bouncing \cup {s}
    BY DEF Contact
  <1>2. Scores' /\ Alone' /\ Judged'
    BY <1>1 DEF Scores, ScoreStopsAtWin, Alone, OneOfEach, Judged, OneVerdict, keeping
  <1> DEFINE Goal == s \notin first \cup recent
  <1>6. /\ first' \subseteq Sides /\ recent' = IF s \in first \/ Goal THEN recent \cup {s} ELSE recent
        /\ own' = IF s \in first \/ Goal THEN own \cup {s} ELSE own
        /\ lines' = IF Goal THEN [lines EXCEPT ![s] = @ + 1] ELSE lines
    BY <1>1 DEF score_interrupt, Record, TypeOK
  <1>7. first \subseteq Sides /\ recent \subseteq Sides /\ own \subseteq Sides /\ lines \in [Sides -> Nat]
        /\ bouncing \subseteq Sides
    BY DEF TypeOK
  <1>8. /\ recent' \subseteq Sides /\ own' \subseteq Sides /\ bouncing' \subseteq Sides
        /\ lines' \in [Sides -> Nat]
    BY <1>1, <1>6, <1>7
  <1>3. Debounced'
    <2>1. own' \subseteq recent'
      BY <1>6 DEF Debounced
    <2>2. ASSUME NEW t \in Sides PROVE lines'[t] <= 1 /\ (lines'[t] > 0 => t \in own')
      <3>1. lines[t] \in Nat /\ lines[t] <= 1 /\ (lines[t] > 0 => t \in own /\ t \in recent)
        BY <1>7 DEF Debounced
      <3>2. lines'[t] = IF t = s /\ Goal THEN lines[t] + 1 ELSE lines[t]
        BY <1>6, <1>7
      <3> QED BY <1>6, <3>1, <3>2
    <2> QED BY <2>1, <2>2 DEF Debounced
  <1>4. CASE UNCHANGED <<pipe, due>>
    <2>1. TypeOK'
      BY <1>1, <1>4, <1>6, <1>8, Kept DEF TypeOK
    <2>2. GoalsAreConserved'
      BY <1>1, <1>4 DEF GoalsAreConserved, Reading
    <2> QED BY <1>2, <1>3, <2>1, <2>2
  <1>5. CASE Write(s)
    <2>1. /\ pipe' = Append(pipe, s) /\ Len(pipe) < MaxPipe
          /\ due' = IF Reading THEN [due EXCEPT ![s] = @ + 1] ELSE due
      BY <1>5 DEF Write
    <2>2. pipe' \in Seq(Sides) /\ Len(pipe') <= MaxPipe
      BY <2>1, LenProperties, AppendProperties DEF TypeOK
    <2>7. due' \in [Sides -> Nat]
      <3>1. due \in [Sides -> Nat]
        BY DEF TypeOK
      <3> QED BY <2>1, <3>1
    <2>3. TypeOK'
      BY <1>1, <1>6, <1>8, <2>2, <2>7, Kept DEF TypeOK
    <2>4. \A t \in Sides : Count(t, pipe') = IF t = s THEN Count(t, pipe) + 1 ELSE Count(t, pipe)
      BY <2>1, CountAppend DEF TypeOK
    <2>5. \A t \in Sides : Count(t, pipe) \in Nat /\ Count(t, buffer) \in Nat
      BY CountType DEF TypeOK
    <2>6. GoalsAreConserved'
      <3> SUFFICES ASSUME Reading, NEW t \in Sides
                   PROVE  due'[t] = score[t] + Count(t, buffer) + Count(t, pipe')
        BY <1>1 DEF GoalsAreConserved, Reading
      <3>1. due[t] = score[t] + Count(t, buffer) + Count(t, pipe)
        BY DEF GoalsAreConserved
      <3>2. due'[t] = IF t = s THEN due[t] + 1 ELSE due[t]
        BY <2>1 DEF TypeOK
      <3>3. score[t] \in Nat /\ due[t] \in Nat
        BY DEF TypeOK
      <3> QED BY <2>4, <2>5, <3>1, <3>2, <3>3
    <2> QED BY <1>2, <1>3, <2>3, <2>6
  <1> QED BY <1>1, <1>4, <1>5 DEF score_interrupt

\* So do the end of a contact's bounces and the end of the second after it.
LEMMA QuietIInv ==
    ASSUME IInv, NEW s \in Sides, Settle(s) \/ Second(s)
    PROVE  IInv'
  <1> USE DEF IInv
  <1>1. UNCHANGED <<pipe, buffer, reader, score, keeping, due>>
    BY DEF Settle, Second
  <1>2. TypeOK'
    BY <1>1, Kept DEF TypeOK, Settle, Second
  <1>3. Debounced'
    BY DEF Debounced, Settle, Second, TypeOK
  <1>4. Scores' /\ GoalsAreConserved' /\ Alone' /\ Judged'
    BY <1>1 DEF Scores, ScoreStopsAtWin, GoalsAreConserved, Reading, Alone,
                OneOfEach, Judged, OneVerdict, keeping
  <1> QED BY <1>2, <1>3, <1>4

-----------------------------------------------------------------------------
(* The thread that reads *)

\* A reader that clears the scores, flushes the pipe, or looks whether it is to
\* end keeps the conditions.
LEMMA NoLineIInv ==
    ASSUME IInv, Reset \/ Flush \/ Check, UNCHANGED <<sensor, keeping>>
    PROVE  IInv'
  <1> USE ScoreAssumption DEF IInv
  <1>1. TypeOK'
    <2>1. CASE Reset
      BY <2>1, Kept DEF Reset, TypeOK, None, sensor
    <2>2. CASE Flush
      <3>1. \A s \in Sides : Count(s, buffer) \in Nat
        BY CountType DEF TypeOK
      <3>2. Len(pipe') <= MaxPipe /\ pipe' \in Seq(Sides)
        BY <2>2 DEF Flush
      <3> QED BY <2>2, <3>1, <3>2, Kept DEF Flush, TypeOK, sensor
    <2>3. CASE Check
      BY <2>3, Kept DEF Check, TypeOK, None, sensor
    <2> QED BY <2>1, <2>2, <2>3
  <1>2. Debounced'
    BY DEF Debounced, sensor
  <1>3. Scores'
    <2>1. CASE Reset
      BY <2>1 DEF Reset, Scores, ScoreStopsAtWin, None, Sides
    <2>2. CASE Flush
      BY <2>2 DEF Flush, Scores, ScoreStopsAtWin
    <2>3. CASE Check
      <3>1. \A s \in Sides : score[s] \in Nat /\ score[s] <= Win
        BY DEF TypeOK, Scores, ScoreStopsAtWin
      <3> QED BY <2>3, <3>1 DEF Check, Scores, ScoreStopsAtWin
    <2> QED BY <2>1, <2>2, <2>3
  <1>4. GoalsAreConserved'
    <2>1. CASE Reset
      BY <2>1 DEF Reset, GoalsAreConserved, Reading
    <2>2. CASE Flush
      <3> SUFFICES ASSUME NEW s \in Sides
                   PROVE  due'[s] = score'[s] + Count(s, buffer') + Count(s, pipe')
        BY DEF GoalsAreConserved
      <3>1. Count(s, buffer) \in Nat /\ Count(s, pipe') = 0
        BY <2>2, CountType, CountEmpty DEF TypeOK, Flush
      <3> QED BY <2>2, <3>1 DEF Flush, Scores, None
    <2>3. CASE Check
      BY <2>3 DEF Check, GoalsAreConserved, Reading
    <2> QED BY <2>1, <2>2, <2>3
  <1>5. Alone'
    BY DEF Alone, OneOfEach, Reset, Flush, Check, keeping
  <1>6. Judged'
    BY DEF Judged, OneVerdict, Alone, Reset, Flush, Check, keeping
  <1> QED BY <1>1, <1>2, <1>3, <1>4, <1>5, <1>6

\* A line that is taken moves from the buffer, or from the pipe, into the score,
\* and what is read ahead from the pipe into the buffer.
LEMMA PollIInv ==
    ASSUME IInv, Poll, UNCHANGED <<sensor, keeping>>
    PROVE  IInv'
  <1> USE ScoreAssumption DEF IInv
  <1> DEFINE all == IF buffer = << >> THEN pipe ELSE buffer
  <1>1. reader = "poll" /\ reader' = "check" /\ due' = due
    BY DEF Poll
  <1>2. Debounced'
    BY DEF Debounced, sensor
  <1>3. Alone'
    BY <1>1 DEF Alone, OneOfEach, keeping
  <1>4. verdicts = << >> /\ at \notin {"aha_join", "user_join"}
    BY <1>1 DEF Alone, Scores, Judged, TypeOK, Sides
  <1>5. Judged'
    BY <1>1, <1>4 DEF Judged, OneVerdict, keeping
  <1>6. CASE pipe = << >>
    <2>1. UNCHANGED <<score, pipe, buffer>>
      BY <1>6 DEF Poll
    <2>2. TypeOK'
      BY <1>1, <2>1, Kept DEF TypeOK, sensor
    <2>3. Scores' /\ GoalsAreConserved'
      BY <1>1, <2>1 DEF Scores, ScoreStopsAtWin, GoalsAreConserved, Reading
    <2> QED BY <1>2, <1>3, <1>5, <2>2, <2>3
  <1>7. CASE pipe # << >>
    <2>1. /\ score' = [score EXCEPT ![Head(all)] = @ + 1]
          /\ buffer' = Tail(all)
          /\ pipe' = IF buffer = << >> THEN << >> ELSE pipe
      BY <1>7 DEF Poll
    <2>2. all \in Seq(Sides) /\ all # << >> /\ Len(all) <= MaxPipe
      BY <1>7, LenProperties DEF TypeOK
    <2> HIDE DEF all
    <2>3. /\ Head(all) \in Sides /\ Tail(all) \in Seq(Sides) /\ Len(Tail(all)) = Len(all) - 1
          /\ Len(all) \in Nat
      BY <2>2, LenProperties, EmptySeq, HeadTailProperties
    <2>4. TypeOK'
      <3>1. score' \in [Sides -> Nat]
        <4>1. score \in [Sides -> Nat]
          BY DEF TypeOK
        <4> QED BY <2>1, <2>3, <4>1
      <3>2. pipe' \in Seq(Sides) /\ Len(pipe') <= MaxPipe
        BY <2>1 DEF TypeOK
      <3>3. buffer' \in Seq(Sides) /\ Len(buffer') < MaxPipe
        BY <2>1, <2>2, <2>3
      <3> QED BY <1>1, <3>1, <3>2, <3>3, Kept DEF TypeOK, sensor
    <2>5. Scores'
      <3>1. \A s \in Sides : score[s] \in Nat /\ score[s] < Win
        BY <1>1 DEF Scores, TypeOK
      <3>2. \A s \in Sides : score'[s] = IF s = Head(all) THEN score[s] + 1 ELSE score[s]
        BY <2>1, <2>3 DEF TypeOK
      <3>3. \E s \in Sides : s # Head(all)
        BY DEF Sides
      <3> QED BY <1>1, <3>1, <3>2, <3>3 DEF Scores, ScoreStopsAtWin
    <2>6. GoalsAreConserved'
      <3> SUFFICES ASSUME NEW s \in Sides
                   PROVE  due[s] = score'[s] + Count(s, buffer') + Count(s, pipe')
        BY <1>1 DEF GoalsAreConserved
      <3>1. due[s] = score[s] + Count(s, buffer) + Count(s, pipe)
        BY <1>1 DEF GoalsAreConserved, Reading
      <3>2. score'[s] = IF s = Head(all) THEN score[s] + 1 ELSE score[s]
        BY <2>1, <2>3 DEF TypeOK
      <3>3. Count(s, all) = IF s = Head(all) THEN Count(s, buffer') + 1 ELSE Count(s, buffer')
        BY <2>1, <2>2, CountTail
      <3>4. Count(s, buffer) + Count(s, pipe) = Count(s, all) + Count(s, pipe')
        <4>1. Count(s, buffer) \in Nat /\ Count(s, pipe) \in Nat /\ Count(s, << >>) = 0
          BY CountType, CountEmpty DEF TypeOK
        <4> QED BY <2>1, <4>1 DEF all
      <3>5. /\ Count(s, buffer) \in Nat /\ Count(s, pipe) \in Nat /\ score[s] \in Nat
            /\ Count(s, buffer') \in Nat /\ Count(s, pipe') \in Nat
        BY <2>4, CountType DEF TypeOK
      <3> QED BY <3>1, <3>2, <3>3, <3>4, <3>5
    <2> QED BY <1>2, <1>3, <1>5, <2>4, <2>5, <2>6
  <1> QED BY <1>6, <1>7

-----------------------------------------------------------------------------
(* start_scorekeeping, update_scores and the minute *)

\* What a step of these leaves alone keeps its conditions.
LEMMA CountingKept ==
    ASSUME IInv, UNCHANGED <<counting, reader>>
    PROVE  Debounced' /\ Scores' /\ GoalsAreConserved'
  BY DEF IInv, counting, sensor, Debounced, Scores, ScoreStopsAtWin, GoalsAreConserved, Reading

\* The types, with those that such a step assigns.
LEMMA CountingTypes ==
    ASSUME IInv, UNCHANGED counting, FlagsOK', timers' \in Nat,
           reader' \in {"none", "reset", "flush", "poll", "check"},
           at' \in {"menu", "game", "aha", "aha_join", "user", "user_join", "time", "time_join"},
           verdicts' \in Seq({"winner", "loser"})
    PROVE  TypeOK'
  BY DEF IInv, counting, sensor, TypeOK

\* A game is started when nothing of the one before is left.
LEMMA StartIInv ==
    ASSUME IInv, start_scorekeeping
    PROVE  IInv'
  <1> USE DEF IInv
  <1>1. /\ at = "menu" /\ at' = "game" /\ reader' = "reset" /\ timers' = timers + 1
        /\ verdicts' = << >> /\ loopy' = loopy /\ overlap' = (overlap \/ reader # "none")
        /\ UNCHANGED counting
    BY DEF start_scorekeeping
  <1>2. reader = "none" /\ ~overlap /\ timers = 0 /\ ~loopy
    BY <1>1 DEF Alone, OneOfEach
  <1>3. FlagsOK'
    <2>1. FlagsOK
      BY DEF TypeOK
    <2> QED BY <2>1, <1>2, <1>1 DEF FlagsOK, start_scorekeeping
  <1>4. TypeOK'
    BY <1>1, <1>2, <1>3, CountingTypes
  <1>5. Debounced' /\ Scores' /\ GoalsAreConserved'
    BY <1>1 DEF counting, sensor, Debounced, Scores, ScoreStopsAtWin, GoalsAreConserved, Reading
  <1>8. ~overlap' /\ ~loopy'
    BY <1>1, <1>2, Zenon
  <1>6. Alone'
    <2>1. timers' = 1 /\ at' = "game" /\ verdicts' = << >> /\ reader' = "reset"
      BY <1>1, <1>2
    <2>2. OneOfEach'
      BY <1>8, <2>1 DEF OneOfEach
    <2> QED BY <1>8, <2>1, <2>2 DEF Alone
  <1>7. Judged'
    BY <1>1 DEF Judged, OneVerdict
  <1> QED BY <1>4, <1>5, <1>6, <1>7, <1>8

\* The end of the minute.
LEMMA TimeUpIInv ==
    ASSUME IInv, TimeUp
    PROVE  IInv'
  <1> USE DEF IInv
  <1>1. /\ UNCHANGED <<counting, reader, at, timers, loopy, verdicts, overlap>>
        /\ timeup' = TRUE
    BY DEF TimeUp
  <1>2. FlagsOK'
    <2>1. FlagsOK
      BY DEF TypeOK
    <2> QED BY <2>1 DEF FlagsOK, TimeUp
  <1>3. TypeOK' /\ Debounced' /\ Scores' /\ GoalsAreConserved'
    <2>1. /\ timers \in Nat /\ reader \in {"none", "reset", "flush", "poll", "check"}
          /\ at \in {"menu", "game", "aha", "aha_join", "user", "user_join", "time", "time_join"}
          /\ verdicts \in Seq({"winner", "loser"})
      BY DEF TypeOK
    <2> QED BY <1>1, <1>2, <2>1, CountingTypes, CountingKept
  <1>4. Alone'
    BY <1>1 DEF Alone, OneOfEach
  <1>5. Judged'
    BY <1>1 DEF Judged, OneVerdict, counting
  <1> QED BY <1>3, <1>4, <1>5

\* A call of update_scores begins.
LEMMA CallIInv ==
    ASSUME IInv, update_scores
    PROVE  IInv'
  <1> USE DEF IInv
  <1>1. /\ at \in {"menu", "game"} /\ timers > 0 /\ reader # "reset"
        /\ at' = "aha" /\ loopy' = TRUE
        /\ UNCHANGED <<counting, reader, timers, timeup, verdicts, overlap>>
    BY DEF update_scores
  <1>2. at = "game" /\ verdicts = << >>
    BY <1>1 DEF Alone, OneOfEach, Judged
  <1>9. timers = 1 /\ ~overlap
    BY <1>2 DEF Alone, OneOfEach
  <1>3. FlagsOK'
    <2>1. FlagsOK
      BY DEF TypeOK
    <2> QED BY <2>1 DEF FlagsOK, update_scores
  <1>4. TypeOK' /\ Debounced' /\ Scores' /\ GoalsAreConserved'
    <2>1. reader \in {"none", "reset", "flush", "poll", "check"}
      BY DEF TypeOK
    <2> QED BY <1>1, <1>2, <1>3, <1>9, <2>1, CountingTypes, CountingKept
  <1>7. OneOfEach'
    <2>1. ~overlap' /\ timers' = 1 /\ at' = "aha" /\ verdicts' = << >>
      BY <1>1, <1>2, <1>9
    <2> QED BY <2>1 DEF OneOfEach
  <1>8. at' = "aha" /\ reader' # "reset" /\ verdicts' = << >> /\ loopy'
    BY <1>1, <1>2
  <1>5. Alone'
    BY <1>7, <1>8 DEF Alone
  <1>6. Judged'
    BY <1>1, <1>2 DEF Judged, OneVerdict
  <1> QED BY <1>4, <1>5, <1>6

\* after_cancel leaves no call scheduled.
LEMMA Cancelled ==
    ASSUME IInv, after_cancel, at \in {"aha", "user", "time"}
    PROVE  timers' = 0 /\ loopy' = FALSE
  <1>1. IF verdicts = << >> THEN loopy /\ timers = 1 ELSE ~loopy /\ timers = 0
    BY DEF IInv, Alone, OneOfEach
  <1> QED BY <1>1 DEF after_cancel

\* The test whether a side has won: the join that may follow is on a score that
\* no longer changes.
LEMMA WonIInv ==
    ASSUME IInv,
           NEW s \in Sides, NEW here, NEW join, NEW next, Won(s, here, join, next),
           \/ s = "a" /\ here = "aha"  /\ join = "aha_join"  /\ next = "user"
           \/ s = "u" /\ here = "user" /\ join = "user_join" /\ next = "time"
    PROVE  IInv'
  <1> USE DEF IInv
  <1>1. /\ at = here /\ UNCHANGED <<counting, reader, turnoff, timeup, verdicts, overlap>>
    BY DEF Won
  <1>2. /\ timers \in Nat /\ reader \in {"none", "reset", "flush", "poll", "check"}
        /\ verdicts \in Seq({"winner", "loser"}) /\ score[s] \in Nat
    BY DEF TypeOK
  <1>3. reader # "reset"
    BY <1>1 DEF Alone
  <1>4. FlagsOK
    BY DEF TypeOK
  <1>5. CASE score[s] >= Win /\ scorekeeping_done
    <2>1. at' = join /\ timers' = 0 /\ loopy' = FALSE /\ scorekeeping_done' = scorekeeping_done
      <3>1. at' = join /\ after_cancel /\ scorekeeping_done' = scorekeeping_done
        <4>1. ~(score[s] < Win)
          BY <1>2, <1>5, ScoreAssumption
        <4> QED BY <1>5, <4>1, Zenon DEF Won
      <3> QED BY <1>1, <3>1, Cancelled
    <2>2. score[s] = Win /\ Win \in Nat \ {0}
      BY <1>2, <1>5, ScoreAssumption DEF Scores, ScoreStopsAtWin
    <2>3. verdicts = << >>
      <3>1. here = "user" /\ verdicts # << >> => score["a"] = Win
        BY <1>1 DEF Judged
      <3>2. score["a"] # Win \/ score["u"] # Win
        BY ScoreAssumption DEF Scores, ScoreStopsAtWin, Sides, TypeOK
      <3>3. here = "aha" => verdicts = << >>
        BY <1>1 DEF Judged
      <3> QED BY <2>2, <3>1, <3>2, <3>3
    <2>4. FlagsOK'
      BY <1>1, <1>4, <2>1 DEF FlagsOK
    <2>5. TypeOK' /\ Debounced' /\ Scores' /\ GoalsAreConserved'
      BY <1>1, <1>2, <2>1, <2>4, CountingTypes, CountingKept
    <2>6. Alone'
      BY <1>1, <1>3, <2>1, <2>3 DEF Alone, OneOfEach
    <2>7. Judged'
      BY <1>1, <2>1, <2>2, <2>3 DEF Judged, OneVerdict, counting
    <2> QED BY <2>5, <2>6, <2>7
  <1>6. CASE ~(score[s] >= Win /\ scorekeeping_done)
    <2>1. at' = next /\ timers' = timers /\ loopy' = loopy
          /\ scorekeeping_done' \in {TRUE, scorekeeping_done}
      BY <1>2, <1>6, ScoreAssumption DEF Won
    <2>2. FlagsOK'
      BY <1>1, <1>4, <2>1 DEF FlagsOK
    <2>3. TypeOK' /\ Debounced' /\ Scores' /\ GoalsAreConserved'
      BY <1>1, <1>2, <2>1, <2>2, CountingTypes, CountingKept
    <2>4. Alone'
      BY <1>1, <2>1 DEF Alone, OneOfEach
    <2>5. Judged'
      BY <1>1, <2>1 DEF Judged, OneVerdict, counting
    <2> QED BY <2>3, <2>4, <2>5
  <1> QED BY <1>5, <1>6

\* The screen after a join; the second one of a game is the one for its time.
LEMMA JoinedIInv ==
    ASSUME IInv, NEW here, NEW verdict, NEW next, Joined(here, verdict, next),
           \/ here = "aha_join"  /\ verdict = "loser"  /\ next = "user"
           \/ here = "user_join" /\ verdict = "winner" /\ next = "time"
           \/ here = "time_join" /\ verdict = "loser"  /\ next = "menu"
    PROVE  IInv'
  <1> USE DEF IInv
  <1>1. /\ at = here /\ at' = next /\ reader = "none" /\ verdicts' = Append(verdicts, verdict)
        /\ UNCHANGED <<counting, reader, timers, loopy, turnoff, timeup, overlap>>
    BY DEF Joined
  <1>2. /\ verdicts \in Seq({"winner", "loser"}) /\ timers \in Nat /\ Len(verdicts) \in Nat
    BY LenProperties DEF TypeOK
  <1>3. /\ verdicts' \in Seq({"winner", "loser"}) /\ Len(verdicts') = Len(verdicts) + 1
        /\ verdicts'[Len(verdicts')] = verdict
    BY <1>1, <1>2, AppendProperties
  <1>4. verdicts' # << >> /\ (verdicts = << >> => Len(verdicts) = 0)
    BY <1>2, <1>3, EmptySeq
  <1>5. timers = 0 /\ ~loopy /\ ~overlap
    BY <1>1 DEF Alone, OneOfEach
  <1>6. FlagsOK'
    <2>1. FlagsOK
      BY DEF TypeOK
    <2>2. scorekeeping_done' \in BOOLEAN
      <3>1. scorekeeping_done' = (here # "time_join" \/ scorekeeping_done)
        BY DEF Joined
      <3> QED BY <3>1
    <2> QED BY <1>1, <2>1, <2>2 DEF FlagsOK
  <1>7. TypeOK' /\ Debounced' /\ Scores' /\ GoalsAreConserved'
    BY <1>1, <1>2, <1>3, <1>6, CountingTypes, CountingKept
  <1>8. Alone'
    BY <1>1, <1>4, <1>5 DEF Alone, OneOfEach
  <1>9. Judged'
    <2>1. here \in {"aha_join", "user_join"} => Len(verdicts') = 1
      BY <1>1, <1>2, <1>3, <1>4 DEF Judged
    <2>2. here = "aha_join" => score["a"] = Win
      BY <1>1 DEF Judged
    <2>3. here = "user_join" => score["u"] = Win
      BY <1>1 DEF Judged
    <2>4. score' = score /\ timeup' = timeup
      BY <1>1 DEF counting
    <2>5. here = "time_join" =>
            Len(verdicts) <= 1 /\ timeup /\ (verdicts # << >> => \E s \in Sides : score[s] = Win)
      BY <1>1 DEF Judged
    <2>6. CASE here \in {"aha_join", "user_join"}
      BY <1>1, <2>1, <2>2, <2>3, <2>4, <2>6 DEF Judged, OneVerdict, Sides
    <2>7. CASE here = "time_join"
      <3>1. OneVerdict'
        <4>1. Len(verdicts') > 1 => Len(verdicts') = 2
          BY <1>2, <1>3, <2>5, <2>7
        <4>2. Len(verdicts') = 2 => verdicts'[2] = "loser"
          BY <1>3, <2>7
        <4>3. verdicts = << >> => Len(verdicts') = 1
          BY <1>2, <1>3, <1>4
        <4>4. timeup' /\ (verdicts # << >> => \E s \in Sides : score'[s] = Win)
          BY <2>4, <2>5, <2>7
        <4> QED BY <4>1, <4>2, <4>3, <4>4 DEF OneVerdict
      <3> QED BY <1>1, <2>7, <3>1 DEF Judged
    <2> QED BY <1>1, <2>6, <2>7
  <1> QED BY <1>7, <1>8, <1>9

\* The look at the minute.
LEMMA TimeCheckIInv ==
    ASSUME IInv, TimeCheck
    PROVE  IInv'
  <1> USE DEF IInv
  <1>1. at = "time" /\ UNCHANGED <<counting, reader, timeup, verdicts, overlap>>
    BY DEF TimeCheck
  <1>2. /\ timers \in Nat /\ reader \in {"none", "reset", "flush", "poll", "check"}
        /\ verdicts \in Seq({"winner", "loser"})
    BY DEF TypeOK
  <1>3. FlagsOK
    BY DEF TypeOK
  <1>4. reader # "reset"
    BY <1>1 DEF Alone
  <1>5. CASE timeup
    <2>1. /\ at' = "time_join" /\ timers' = 0 /\ loopy' = FALSE /\ turnoff' = TRUE
          /\ scorekeeping_done' = scorekeeping_done
      BY <1>1, <1>5, Cancelled DEF TimeCheck
    <2>2. FlagsOK'
      BY <1>1, <1>3, <2>1 DEF FlagsOK
    <2>3. TypeOK' /\ Debounced' /\ Scores' /\ GoalsAreConserved'
      BY <1>1, <1>2, <2>1, <2>2, CountingTypes, CountingKept
    <2>4. Alone'
      BY <1>1, <1>4, <2>1 DEF Alone, OneOfEach
    <2>5. Judged'
      BY <1>1, <1>5, <2>1 DEF Judged, OneVerdict, counting
    <2> QED BY <2>3, <2>4, <2>5
  <1>6. CASE ~timeup
    <2>1. /\ at' = IF verdicts = << >> THEN "game" ELSE "menu"
          /\ UNCHANGED <<timers, loopy, turnoff, scorekeeping_done>>
      BY <1>6 DEF TimeCheck
    <2>2. FlagsOK'
      BY <1>1, <1>3, <2>1 DEF FlagsOK
    <2>3. TypeOK' /\ Debounced' /\ Scores' /\ GoalsAreConserved'
      BY <1>1, <1>2, <2>1, <2>2, CountingTypes, CountingKept
    <2>4. Alone'
      BY <1>1, <1>4, <2>1 DEF Alone, OneOfEach
    <2>5. Judged'
      BY <1>1, <2>1 DEF Judged, OneVerdict, counting
    <2> QED BY <2>3, <2>4, <2>5
  <1> QED BY <1>5, <1>6

-----------------------------------------------------------------------------
\* The conditions above hold in every state that the programs can reach.
THEOREM Invariance ==
    Spec => []IInv
  <1>1. IInv /\ [Next]_vars => IInv'
    <2> SUFFICES ASSUME IInv, [Next]_vars PROVE IInv'
      OBVIOUS
    <2>1. CASE UNCHANGED vars
      <3>1. UNCHANGED <<counting, reader, timers, at, verdicts, loopy, overlap, timeup>>
        BY <2>1 DEF vars, counting, sensor, keeping
      <3>2. TypeOK'
        <4>1. FlagsOK' /\ at' = at /\ timers' = timers /\ verdicts' = verdicts
          BY <2>1, Kept DEF vars
        <4> QED BY <3>1, <4>1 DEF IInv, TypeOK, counting, sensor
      <3>3. Debounced' /\ Scores' /\ GoalsAreConserved'
        BY <3>1, CountingKept
      <3>4. Alone' /\ Judged'
        BY <3>1 DEF IInv, Alone, OneOfEach, Judged, OneVerdict, counting
      <3> QED BY <3>2, <3>3, <3>4 DEF IInv
    <2>2. CASE Sensor
      BY <2>2, ContactIInv, QuietIInv DEF Sensor
    <2>3. CASE score_read
      BY <2>3, NoLineIInv, PollIInv DEF score_read
    <2>4. CASE start_scorekeeping \/ TimeUp
      BY <2>4, StartIInv, TimeUpIInv
    <2>5. CASE Visit
      <3>1. "a" \in Sides /\ "u" \in Sides
        BY DEF Sides
      <3> QED BY <2>5, <3>1, CallIInv, WonIInv, JoinedIInv, TimeCheckIInv DEF Visit
    <2> QED BY <2>1, <2>2, <2>3, <2>4, <2>5 DEF Next
  <1> QED BY <1>1, InitIInv, PTL DEF Spec

\* The variables of the three programs have their types, for every number of
\* goals that win and every length of the pipe.
THEOREM TypeCorrectness ==
    Spec => []TypeOK
  <1>1. IInv => TypeOK
    BY DEF IInv
  <1> QED BY <1>1, Invariance, PTL

\* However a contact bounces, its goal is one line.
THEOREM GoalIsOneLine ==
    Spec => []OneLineAGoal
  <1>1. IInv => OneLineAGoal
    BY DEF IInv, Debounced, OneLineAGoal
  <1> QED BY <1>1, Invariance, PTL

\* No line of a game is lost between the pipe, the buffer and the scores, and
\* none is counted twice.
THEOREM NoGoalIsLost ==
    Spec => []GoalsAreConserved
  <1>1. IInv => GoalsAreConserved
    BY DEF IInv, GoalsAreConserved
  <1> QED BY <1>1, Invariance, PTL

\* There is one reader at the most, and one timer while a game is on.
THEOREM ReaderAndTimerAreAlone ==
    Spec => []OneOfEach
  <1>1. IInv => OneOfEach
    BY DEF IInv, Alone
  <1> QED BY <1>1, Invariance, PTL

\* A game has one verdict, or the loser's screen for its time as a second.
THEOREM VerdictIsOne ==
    Spec => []OneVerdict
  <1>1. IInv => OneVerdict
    BY DEF IInv, Judged
  <1> QED BY <1>1, Invariance, PTL

\* The thread ends on a score equal to Win, so none passes it, and the two sides
\* do not reach it both.
THEOREM ScoreStops ==
    Spec => []ScoreStopsAtWin
  <1>1. IInv => ScoreStopsAtWin
    BY DEF IInv, Scores
  <1> QED BY <1>1, Invariance, PTL
-----------------------------------------------------------------------------
\* Where the guards of the fair actions hold, they are enabled: the prover knows
\* nothing of ENABLED.
StepsExist ==
    /\ reader # "none" => ENABLED <<score_read>>_vars
    /\ at = "game" /\ timers > 0 /\ reader # "reset" => ENABLED <<Visit>>_vars
    /\ at \in {"aha", "user", "time"} => ENABLED <<Visit>>_vars
    /\ at \in {"aha_join", "user_join", "time_join"} /\ reader = "none" => ENABLED <<Visit>>_vars
    /\ at # "menu" /\ ~timeup => ENABLED <<TimeUp>>_vars

\* Where update_scores and the thread of score_read are, whether the minute is
\* over, and whether the thread is waited for.
At(p)       == at = p
ReaderAt(p) == reader = p
Up          == timeup
Joining     == at \in {"aha_join", "user_join", "time_join"}

\* The thread has been told to end when update_scores waits for it at the end of
\* the minute.
Told == at = "time_join" => turnoff

\* Told is kept by every step.
LEMMA StaysTold ==
    ASSUME Told, [Next]_vars
    PROVE  Told'
  BY DEF Told, Next, Sensor, Contact, Settle, Second, score_read, start_scorekeeping, TimeUp,
         Visit, update_scores, Won, Joined, TimeCheck, keeping, vars

\* Where a call of update_scores goes on.
LEMMA VisitMoves ==
    ASSUME IInv, Visit
    PROVE  /\ UNCHANGED <<reader, timeup>>
           /\ At("game")      => At("aha")'
           /\ At("aha")       => At("aha_join")' \/ At("user")'
           /\ At("aha_join")  => At("user")'
           /\ At("user")      => At("user_join")' \/ At("time")'
           /\ At("user_join") => At("time")'
           /\ At("time")      => IF timeup THEN At("time_join")' ELSE At("game")' \/ At("menu")'
           /\ At("time_join") => At("menu")'
  BY DEF At, Visit, update_scores, Won, Joined, TimeCheck, counting

\* Nothing else moves it, but for the start of a game, and the minute is not
\* forgotten before that.
LEMMA OthersKeep ==
    ASSUME IInv, [Next]_vars, ~Visit, at # "menu"
    PROVE  /\ at' = at /\ (timeup => timeup')
           /\ reader' = reader \/ score_read
  BY DEF Next, Sensor, Contact, Settle, Second, score_read, start_scorekeeping, TimeUp, keeping,
         counting, vars

\* Where the thread goes on; where it is waited for it finds the game decided, or
\* is told.
LEMMA ReaderMoves ==
    ASSUME IInv, Told, score_read
    PROVE  /\ ~ReaderAt("none")
           /\ ReaderAt("reset") => ReaderAt("flush")'
           /\ ReaderAt("flush") => ReaderAt("poll")'
           /\ ReaderAt("poll")  => ReaderAt("check")'
           /\ ReaderAt("check") /\ Joining => ReaderAt("none")'
           /\ ReaderAt("check") => ReaderAt("none")' \/ ReaderAt("poll")'
  <1>1. Joining => turnoff \/ \E s \in Sides : score[s] = Win
    BY DEF IInv, Judged, Told, Joining, Sides
  <1> QED
    BY <1>1 DEF ReaderAt, score_read, Reset, Flush, Poll, Check

\* Every place leads to the next one, or stays.
LEMMA Links ==
    ASSUME IInv, Told, [Next]_vars
    PROVE  /\ At("game")      => At("game")' \/ At("aha")'
           /\ At("aha")       => At("aha")' \/ At("aha_join")' \/ At("user")'
           /\ At("aha_join")  => At("aha_join")' \/ At("user")'
           /\ At("user")      => At("user")' \/ At("user_join")' \/ At("time")'
           /\ At("user_join") => At("user_join")' \/ At("time")'
           /\ At("time")      => \/ At("time")' \/ At("menu")'
                                 \/ IF Up THEN At("time_join")' ELSE At("game")'
           /\ At("time_join") => At("time_join")' \/ At("menu")'
           /\ ~At("menu") /\ Up => Up'
           /\ ~At("menu") => /\ ReaderAt("none")  => ReaderAt("none")'
                             /\ ReaderAt("reset") => ReaderAt("reset")' \/ ReaderAt("flush")'
                             /\ ReaderAt("flush") => ReaderAt("flush")' \/ ReaderAt("poll")'
                             /\ ReaderAt("poll")  => ReaderAt("poll")' \/ ReaderAt("check")'
                             /\ ReaderAt("check") => \/ ReaderAt("check")' \/ ReaderAt("none")'
                                                     \/ ~Joining /\ ReaderAt("poll")'
  <1>1. CASE Visit
    BY <1>1, VisitMoves DEF At, ReaderAt, Up
  <1>2. CASE ~Visit /\ at # "menu"
    <2>1. at' = at /\ (timeup => timeup') /\ (reader' = reader \/ score_read)
      BY <1>2, OthersKeep
    <2>2. CASE reader' = reader
      BY <2>1, <2>2 DEF At, ReaderAt, Up
    <2>3. CASE score_read
      BY <1>2, <2>1, <2>3, ReaderMoves DEF At, ReaderAt, Up
    <2> QED BY <2>1, <2>2, <2>3
  <1>3. CASE ~Visit /\ at = "menu"
    BY <1>3 DEF At
  <1> QED BY <1>1, <1>2, <1>3

\* The thread clears the scores, so that the first call of update_scores comes.
LEMMA CallComes ==
    FairSpec /\ []StepsExist => (At("game") ~> At("aha"))
  <1>1. IInv /\ Told /\ [Next]_vars /\ At("game") =>
           /\ At("game")' \/ At("aha")'
           /\ ~ReaderAt("reset") => ~ReaderAt("reset")'
    BY Links DEF IInv, TypeOK, At, ReaderAt
  <1>2. IInv /\ Told /\ <<score_read>>_vars => (ReaderAt("reset") => ~ReaderAt("reset")')
    BY ReaderMoves DEF ReaderAt
  <1>3. IInv /\ <<Visit>>_vars => (At("game") => At("aha")')
    BY VisitMoves
  <1>4. IInv /\ StepsExist =>
           /\ ReaderAt("reset") => ENABLED <<score_read>>_vars
           /\ At("game") /\ ~ReaderAt("reset") => ENABLED <<Visit>>_vars
    BY DEF StepsExist, At, ReaderAt, IInv, Alone, Judged, OneOfEach
  <1>5. Init => Told
    BY DEF Init, Told
  <1> QED
    BY <1>1, <1>2, <1>3, <1>4, <1>5, StaysTold, Invariance, PTL DEF FairSpec, Spec

\* The thread ends where it is waited for.
LEMMA JoinsEnd ==
    FairSpec /\ []StepsExist =>
        /\ At("aha_join") ~> At("user")
        /\ At("user_join") ~> At("time")
        /\ At("time_join") ~> At("menu")
  <1>1. IInv /\ Told /\ [Next]_vars =>
           /\ At("aha_join")  => At("aha_join")' \/ At("user")'
           /\ At("user_join") => At("user_join")' \/ At("time")'
           /\ At("time_join") => At("time_join")' \/ At("menu")'
    BY Links
  <1>2. IInv /\ Told /\ [Next]_vars /\ Joining =>
           /\ ReaderAt("none")  => ReaderAt("none")'
           /\ ReaderAt("flush") => ReaderAt("flush")' \/ ReaderAt("poll")'
           /\ ReaderAt("poll")  => ReaderAt("poll")' \/ ReaderAt("check")'
           /\ ReaderAt("check") => ReaderAt("check")' \/ ReaderAt("none")'
    BY Links DEF Joining, At
  <1>3. IInv /\ Told /\ <<score_read>>_vars =>
           /\ ReaderAt("flush") => ReaderAt("poll")'
           /\ ReaderAt("poll")  => ReaderAt("check")'
           /\ ReaderAt("check") /\ Joining => ReaderAt("none")'
    BY ReaderMoves
  <1>4. IInv /\ <<Visit>>_vars =>
           /\ At("aha_join")  => At("user")'
           /\ At("user_join") => At("time")'
           /\ At("time_join") => At("menu")'
    BY VisitMoves
  <1>5. IInv /\ Joining =>
            ReaderAt("flush") \/ ReaderAt("poll") \/ ReaderAt("check") \/ ReaderAt("none")
    BY DEF IInv, TypeOK, Alone, Joining, ReaderAt
  <1>6. At("aha_join") \/ At("user_join") \/ At("time_join") <=> Joining
    BY DEF At, Joining
  <1>7. StepsExist =>
           /\ ReaderAt("flush") \/ ReaderAt("poll") \/ ReaderAt("check")
                 => ENABLED <<score_read>>_vars
           /\ Joining /\ ReaderAt("none") => ENABLED <<Visit>>_vars
    BY DEF StepsExist, ReaderAt, Joining
  <1>8. Init => Told
    BY DEF Init, Told
  <1> QED
    BY <1>1, <1>2, <1>3, <1>4, <1>5, <1>6, <1>7, <1>8, StaysTold, Invariance, PTL
       DEF FairSpec, Spec

\* A game that has begun is over some time: the minute ends it if nothing else
\* does, and the thread is never waited for in vain.
THEOREM GameComesToAnEnd ==
    FairSpec /\ []StepsExist => GameEnds
  <1>1. IInv /\ Told /\ [Next]_vars =>
           /\ At("aha")  => At("aha")' \/ At("aha_join")' \/ At("user")'
           /\ At("user") => At("user")' \/ At("user_join")' \/ At("time")'
           /\ At("time") => At("time")' \/ At("menu")' \/ At("game")' \/ At("time_join")'
           /\ At("time") /\ Up => At("time")' \/ At("menu")' \/ At("time_join")'
           /\ ~At("menu") /\ Up => Up'
    BY Links
  <1>2. IInv /\ <<Visit>>_vars =>
           /\ At("aha")  => At("aha_join")' \/ At("user")'
           /\ At("user") => At("user_join")' \/ At("time")'
           /\ At("time") /\ Up => At("time_join")'
    BY VisitMoves DEF Up
  <1>3. <<TimeUp>>_vars => Up'
    BY DEF TimeUp, Up
  <1>4. StepsExist =>
           /\ At("aha") \/ At("user") \/ At("time") => ENABLED <<Visit>>_vars
           /\ ~At("menu") /\ ~Up => ENABLED <<TimeUp>>_vars
    BY DEF StepsExist, At, Up
  <1>5. IInv => \/ At("menu") \/ At("game") \/ At("aha") \/ At("aha_join") \/ At("user")
                \/ At("user_join") \/ At("time") \/ At("time_join")
    BY DEF IInv, TypeOK, At
  <1>6. (At("game") <=> at = "game") /\ (At("menu") <=> at = "menu")
    BY DEF At
  <1>7. Init => Told
    BY DEF Init, Told
  <1> QED
    BY <1>1, <1>2, <1>3, <1>4, <1>5, <1>6, <1>7, CallComes, JoinsEnd, StaysTold, Invariance, PTL
       DEF FairSpec, Spec, GameEnds
=============================================================================
