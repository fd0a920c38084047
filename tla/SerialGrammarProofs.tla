------------------------- MODULE SerialGrammarProofs -------------------------
(***************************************************************************)
(* Proofs about SerialGrammar for values of any number of digits: the mode *)
(* of the interpreter is a place in the sentences of the table of commands *)
(* that the line can still become, and its error is what is wrong with the *)
(* line.  A number in them is any run of digits and points (Syntax).       *)
(***************************************************************************)
EXTENDS SerialGrammar, SerialProofs

\* What a line and a sentence consist of.
Tokens == {Class(c) : c \in Chars}

\* Every character has a token, and only the digits share one.
LEMMA TokenFacts ==
    /\ {"M", "R", "X", "Y", "L", "S", "P", "C", "D", "colon", "comma", "eol", "digit"}
          \subseteq Tokens
    /\ \A c \in Chars : Class(c) \in Tokens
    /\ \A c \in Chars : Class(c) = "digit" <=> c \in Figures
    /\ \A c \in Chars \ Figures : Class(c) = c
  <1>1. "digit" \notin Chars
    BY DEF Chars, Letters, Figures
  <1>2. \A c \in Chars : Class(c) \in Tokens
    BY DEF Tokens
  <1>3. \A c \in Chars :
            (Class(c) = "digit" <=> c \in Figures) /\ (c \notin Figures => Class(c) = c)
    BY <1>1 DEF Class
  <1>4. {"M", "R", "X", "Y", "L", "S", "P", "C", "D", "colon", "comma", "eol"}
            \subseteq Chars \ Figures
    BY DEF Chars, Letters, Figures
  <1>5. "digit" \in Tokens
    <2>1. "0" \in Chars /\ "0" \in Figures
      BY DEF Chars, Figures
    <2> QED BY <1>2, <1>3, <2>1
  <1>6. \A c \in Chars \ Figures : c \in Tokens
    BY <1>2, <1>3
  <1> QED BY <1>2, <1>3, <1>4, <1>5, <1>6

\* A text is the start of another one if that agrees with it place by place.
LEMMA PrefixFacts ==
    ASSUME NEW p \in Seq(Tokens), NEW s \in Seq(Tokens)
    PROVE  IsPrefix(p, s) <=> Len(p) <= Len(s) /\ \A i \in 1..Len(p) : p[i] = s[i]
  <1>1. SubSeq(p, 1, Len(p)) = p
    BY SubSeqFull
  <1>2. ASSUME Len(p) <= Len(s)
        PROVE  /\ SubSeq(s, 1, Len(p)) \in Seq(Tokens)
               /\ Len(SubSeq(s, 1, Len(p))) = Len(p)
               /\ \A i \in 1..Len(p) : SubSeq(s, 1, Len(p))[i] = s[i]
    <2>1. \A i \in 1..Len(p) : s[i] \in Tokens
      BY <1>2
    <2> QED BY <1>2, <2>1, LenProperties, SubSeqProperties
  <1>3. ASSUME IsPrefix(p, s) PROVE Len(p) <= Len(s) /\ \A i \in 1..Len(p) : p[i] = s[i]
    BY <1>1, <1>2, <1>3 DEF IsPrefix
  <1>4. ASSUME Len(p) <= Len(s), \A i \in 1..Len(p) : p[i] = s[i] PROVE IsPrefix(p, s)
    <2>1. SubSeq(s, 1, Len(p)) = p
      BY <1>2, <1>4, SeqEqual
    <2> QED BY <1>1, <1>4, <2>1 DEF IsPrefix
  <1> QED BY <1>3, <1>4

\* A text with one more token.
LEMMA AppendFacts ==
    ASSUME NEW t \in Seq(Tokens), NEW c \in Tokens
    PROVE  /\ Append(t, c) \in Seq(Tokens)
           /\ Len(t) \in Nat /\ Len(Append(t, c)) = Len(t) + 1
           /\ Append(t, c)[Len(t) + 1] = c
           /\ \A i \in 1..Len(t) : Append(t, c)[i] = t[i]
  BY AppendProperties, LenProperties

\* The greatest number of a set is the one that no other exceeds.
LEMMA MaxFacts ==
    ASSUME NEW S, NEW n \in S, \A i \in S : i \in Int /\ n >= i
    PROVE  Max(S) = n
  <1>1. \E x \in S : \A y \in S : x >= y
    OBVIOUS
  <1>2. Max(S) \in S /\ \A y \in S : Max(S) >= y
    BY <1>1 DEF Max
  <1> QED BY <1>2

-----------------------------------------------------------------------------
(* The sentences *)

\* Texts of the lengths that the commands with values have.
LEMMA TokensOfValues ==
    ASSUME NEW T, NEW a \in T, NEW b \in T, NEW c \in T, NEW d \in T, NEW e \in T, NEW f \in T,
           NEW g \in T, NEW h \in T, NEW i \in T, NEW j \in T, NEW k \in T
    PROVE  <<a, b, c, d, e, f>> \in Seq(T) /\ <<a, b, c, d, e, f, g, h, i, j, k>> \in Seq(T)
  <1> DEFINE s == Append(Append(Append(Append(<<a, b>>, c), d), e), f)
  <1>1. <<a, b>> \in Seq(T)
    OBVIOUS
  <1>2. <<a, b, c, d, e, f>> = s
    OBVIOUS
  <1>3. <<a, b, c, d, e, f, g, h, i, j, k>> =
            Append(Append(Append(Append(Append(s, g), h), i), j), k)
    OBVIOUS
  <1>4. \A t \in Seq(T), x \in T : Append(t, x) \in Seq(T)
    BY AppendProperties
  <1> QED BY <1>1, <1>2, <1>3, <1>4

\* How the commands are written, token by token.
LEMMA SyntaxFacts ==
    /\ \A f \in Commands :
          Syntax[f] \in Seq(Tokens) /\ Len(Syntax[f]) \in 2..11 /\ Syntax[f][1] = "M"
    /\ \A f \in {"mds_set_pid_x", "mds_set_pid_y"} :
          Len(Syntax[f]) = 11 /\ Syntax[f][2] = "R" /\ Syntax[f][4] = "colon"
          /\ Syntax[f][5] = "digit" /\ Syntax[f][6] = "comma" /\ Syntax[f][7] = "digit"
          /\ Syntax[f][8] = "comma" /\ Syntax[f][9] = "digit" /\ Syntax[f][10] = "comma"
          /\ Syntax[f][11] = "digit"
    /\ Syntax["mds_set_pid_x"][3] = "X" /\ Syntax["mds_set_pid_y"][3] = "Y"
    /\ Len(Syntax["mds_set_location"]) = 6
    /\ Syntax["mds_set_location"][2] = "L" /\ Syntax["mds_set_location"][3] = "colon"
    /\ Syntax["mds_set_location"][4] = "digit" /\ Syntax["mds_set_location"][5] = "comma"
    /\ Syntax["mds_set_location"][6] = "digit"
    /\ \A f \in {"mds_start", "mds_stop", "mds_start_calibration", "mds_stop_calibration"} :
          Len(Syntax[f]) = 2
    /\ Syntax["mds_start"][2] = "S" /\ Syntax["mds_stop"][2] = "P"
    /\ Syntax["mds_start_calibration"][2] = "C" /\ Syntax["mds_stop_calibration"][2] = "D"
  <1> DEFINE T == Seq(Tokens)
  <1>0. /\ "M" \in Tokens /\ "R" \in Tokens /\ "X" \in Tokens /\ "Y" \in Tokens /\ "L" \in Tokens
        /\ "S" \in Tokens /\ "P" \in Tokens /\ "C" \in Tokens /\ "D" \in Tokens
        /\ "colon" \in Tokens /\ "comma" \in Tokens /\ "digit" \in Tokens
    BY TokenFacts
  <1>1. Commands = {"mds_set_pid_x", "mds_set_pid_y", "mds_set_location", "mds_start", "mds_stop",
                    "mds_start_calibration", "mds_stop_calibration"}
    BY DEF Commands, FieldsOf
  <1>2. LET s == Syntax["mds_set_pid_x"]
        IN  /\ s \in T /\ Len(s) = 11 /\ s[1] = "M" /\ s[2] = "R" /\ s[3] = "X" /\ s[4] = "colon"
            /\ s[5] = "digit" /\ s[6] = "comma" /\ s[7] = "digit" /\ s[8] = "comma"
            /\ s[9] = "digit" /\ s[10] = "comma" /\ s[11] = "digit"
    <2>1. Syntax["mds_set_pid_x"] =
              <<"M", "R", "X", "colon", "digit", "comma", "digit", "comma",
                "digit", "comma", "digit">>
      BY DEF Syntax
    <2>2. Syntax["mds_set_pid_x"] \in T
      BY <1>0, <2>1, TokensOfValues
    <2> QED BY <2>1, <2>2
  <1>3. LET s == Syntax["mds_set_pid_y"]
        IN  /\ s \in T /\ Len(s) = 11 /\ s[1] = "M" /\ s[2] = "R" /\ s[3] = "Y" /\ s[4] = "colon"
            /\ s[5] = "digit" /\ s[6] = "comma" /\ s[7] = "digit" /\ s[8] = "comma"
            /\ s[9] = "digit" /\ s[10] = "comma" /\ s[11] = "digit"
    <2>1. Syntax["mds_set_pid_y"] =
              <<"M", "R", "Y", "colon", "digit", "comma", "digit", "comma",
                "digit", "comma", "digit">>
      BY DEF Syntax
    <2>2. Syntax["mds_set_pid_y"] \in T
      BY <1>0, <2>1, TokensOfValues
    <2> QED BY <2>1, <2>2
  <1>4. LET s == Syntax["mds_set_location"]
        IN  /\ s \in T /\ Len(s) = 6 /\ s[1] = "M" /\ s[2] = "L" /\ s[3] = "colon"
            /\ s[4] = "digit" /\ s[5] = "comma" /\ s[6] = "digit"
    <2>1. Syntax["mds_set_location"] = <<"M", "L", "colon", "digit", "comma", "digit">>
      BY DEF Syntax
    <2>2. Syntax["mds_set_location"] \in T
      BY <1>0, <2>1, TokensOfValues
    <2> QED BY <2>1, <2>2
  <1>5. ASSUME NEW f \in {"mds_start", "mds_stop", "mds_start_calibration", "mds_stop_calibration"}
        PROVE  /\ Syntax[f] \in T /\ Len(Syntax[f]) = 2 /\ Syntax[f][1] = "M"
               /\ f = "mds_start" => Syntax[f][2] = "S"
               /\ f = "mds_stop" => Syntax[f][2] = "P"
               /\ f = "mds_start_calibration" => Syntax[f][2] = "C"
               /\ f = "mds_stop_calibration" => Syntax[f][2] = "D"
    <2>1. CASE f = "mds_start"
      <3>1. Syntax[f] = <<"M", "S">>
        BY <2>1 DEF Syntax
      <3>2. Syntax[f] \in T
        BY <1>0, <3>1
      <3> QED BY <2>1, <3>1, <3>2
    <2>2. CASE f = "mds_stop"
      <3>1. Syntax[f] = <<"M", "P">>
        BY <2>2 DEF Syntax
      <3>2. Syntax[f] \in T
        BY <1>0, <3>1
      <3> QED BY <2>2, <3>1, <3>2
    <2>3. CASE f = "mds_start_calibration"
      <3>1. Syntax[f] = <<"M", "C">>
        BY <2>3 DEF Syntax
      <3>2. Syntax[f] \in T
        BY <1>0, <3>1
      <3> QED BY <2>3, <3>1, <3>2
    <2>4. CASE f = "mds_stop_calibration"
      <3>1. Syntax[f] = <<"M", "D">>
        BY <2>4 DEF Syntax
      <3>2. Syntax[f] \in T
        BY <1>0, <3>1
      <3> QED BY <2>4, <3>1, <3>2
    <2> QED BY <2>1, <2>2, <2>3, <2>4
  <1> HIDE DEF T
  <1>6. ASSUME NEW f \in Commands
        PROVE  Syntax[f] \in T /\ Len(Syntax[f]) \in 2..11 /\ Syntax[f][1] = "M"
    <2>1. CASE f \in {"mds_set_pid_x", "mds_set_pid_y"}
      BY <1>2, <1>3, <2>1
    <2>2. CASE f = "mds_set_location"
      BY <1>4, <2>2
    <2>3. CASE f \in {"mds_start", "mds_stop", "mds_start_calibration", "mds_stop_calibration"}
      BY <1>5, <2>3
    <2> QED BY <1>1, <2>1, <2>2, <2>3
  <1>7. ASSUME NEW f \in {"mds_set_pid_x", "mds_set_pid_y"}
        PROVE  /\ Len(Syntax[f]) = 11 /\ Syntax[f][2] = "R" /\ Syntax[f][4] = "colon"
               /\ Syntax[f][5] = "digit" /\ Syntax[f][6] = "comma" /\ Syntax[f][7] = "digit"
               /\ Syntax[f][8] = "comma" /\ Syntax[f][9] = "digit" /\ Syntax[f][10] = "comma"
               /\ Syntax[f][11] = "digit"
    BY <1>2, <1>3
  <1> QED BY <1>2, <1>3, <1>4, <1>5, <1>6, <1>7 DEF T

\* The spelling with a comma, place by place.
LEMMA CommaFacts ==
    ASSUME NEW f \in Commands
    PROVE  /\ Comma(f) \in Seq(Tokens) /\ Len(Comma(f)) = Len(Syntax[f]) + 2
           /\ Comma(f)[Len(Syntax[f]) + 1] = "comma" /\ Comma(f)[Len(Syntax[f]) + 2] = "eol"
           /\ \A i \in 1..Len(Syntax[f]) : Comma(f)[i] = Syntax[f][i]
  <1> DEFINE t == Syntax[f]
             u == Append(t, "comma")
  <1>1. t \in Seq(Tokens) /\ "eol" \in Tokens /\ "comma" \in Tokens
    BY SyntaxFacts, TokenFacts
  <1>2. Comma(f) = Append(u, "eol")
    <2>1. <<"comma", "eol">> = <<"comma">> \o <<"eol">>
      OBVIOUS
    <2>2. <<"comma">> \in Seq(Tokens) /\ <<"eol">> \in Seq(Tokens)
      BY <1>1
    <2> HIDE DEF t
    <2>3. (t \o <<"comma">>) \o <<"eol">> = t \o (<<"comma">> \o <<"eol">>)
      BY <1>1, <2>2, ConcatAssociative
    <2>4. u = t \o <<"comma">> /\ u \in Seq(Tokens)
      BY <1>1, AppendIsConcat, AppendProperties
    <2>5. Append(u, "eol") = u \o <<"eol">>
      BY <1>1, <2>4, AppendIsConcat
    <2> QED BY <2>1, <2>3, <2>4, <2>5 DEF Comma, t
  <1> HIDE DEF t
  <1>3. /\ u \in Seq(Tokens) /\ Len(u) = Len(t) + 1 /\ u[Len(t) + 1] = "comma"
        /\ Len(t) \in Nat /\ \A i \in 1..Len(t) : u[i] = t[i]
    BY <1>1, AppendFacts
  <1> DEFINE s == Append(u, "eol")
  <1> HIDE DEF u
  <1>4. /\ s \in Seq(Tokens) /\ Len(s) = Len(u) + 1 /\ s[Len(u) + 1] = "eol"
        /\ \A i \in 1..Len(u) : s[i] = u[i]
    BY <1>1, <1>3, AppendFacts
  <1> HIDE DEF s
  <1>5. Len(t) + 1 \in 1..Len(u) /\ \A i \in 1..Len(t) : i \in 1..Len(u)
    BY <1>3
  <1>6. Len(u) + 1 = Len(t) + 2
    BY <1>3
  <1>7. /\ s \in Seq(Tokens) /\ Len(s) = Len(t) + 2 /\ s[Len(t) + 1] = "comma"
        /\ s[Len(t) + 2] = "eol" /\ \A i \in 1..Len(t) : s[i] = t[i]
    BY <1>3, <1>4, <1>5, <1>6
  <1> QED BY <1>2, <1>7 DEF s, t

\* The two spellings of a command, place by place.
LEMMA SpellingFacts ==
    ASSUME NEW f \in Commands, NEW s \in Spellings(f)
    PROVE  /\ s \in Seq(Tokens) /\ s \in Sentences /\ Len(Syntax[f]) \in 2..11
           /\ \A i \in 1..Len(Syntax[f]) : s[i] = Syntax[f][i]
           /\ \/ /\ s = Plain(f) /\ Len(s) = Len(Syntax[f]) + 1
                 /\ s[Len(Syntax[f]) + 1] = "eol"
              \/ /\ s = Comma(f) /\ FieldsOf[f] # {} /\ Len(s) = Len(Syntax[f]) + 2
                 /\ s[Len(Syntax[f]) + 1] = "comma" /\ s[Len(Syntax[f]) + 2] = "eol"
  <1> DEFINE t == Syntax[f]
  <1>1. t \in Seq(Tokens) /\ Len(t) \in 2..11 /\ "eol" \in Tokens
    BY SyntaxFacts, TokenFacts
  <1>2. s \in Sentences
    BY DEF Sentences
  <1>3. CASE s = Plain(f)
    <2>1. s = Append(t, "eol")
      BY <1>3 DEF Plain
    <2> HIDE DEF t
    <2>2. /\ s \in Seq(Tokens) /\ Len(s) = Len(t) + 1 /\ s[Len(t) + 1] = "eol"
          /\ \A i \in 1..Len(t) : s[i] = t[i]
      BY <1>1, <2>1, AppendFacts
    <2> QED BY <1>1, <1>2, <1>3, <2>2 DEF t
  <1>4. CASE s = Comma(f) /\ FieldsOf[f] # {}
    BY <1>1, <1>2, <1>4, CommaFacts
  <1> QED BY <1>3, <1>4 DEF Spellings

\* A sentence is a spelling of a command and has a keyword and an end.
LEMMA SentenceFacts ==
    ASSUME NEW s \in Sentences
    PROVE  /\ s \in Seq(Tokens) /\ Len(s) \in Nat /\ Len(s) > 2
           /\ \E f \in Commands : s \in Spellings(f)
  <1>1. PICK f \in Commands : s \in Spellings(f)
    BY DEF Sentences
  <1>2. /\ s \in Seq(Tokens) /\ Len(Syntax[f]) \in 2..11
        /\ Len(s) = Len(Syntax[f]) + 1 \/ Len(s) = Len(Syntax[f]) + 2
    BY <1>1, SpellingFacts
  <1>3. Len(s) \in Nat /\ Len(s) > 2
    <2> DEFINE n == Len(Syntax[f])
    <2>1. n \in 2..11 /\ (Len(s) = n + 1 \/ Len(s) = n + 2)
      BY <1>2
    <2> HIDE DEF n
    <2> QED BY <2>1
  <1> QED BY <1>1, <1>2, <1>3

-----------------------------------------------------------------------------
(* What can become of a text *)

\* Of nothing, every sentence.
LEMMA SequelsOfNothing == Sequels(<< >>) = Sentences
  <1>1. ASSUME NEW s \in Sentences PROVE Len(<< >>) < Len(s) /\ IsPrefix(<< >>, s)
    <2>1. << >> \in Seq(Tokens) /\ Len(<< >>) = 0
      OBVIOUS
    <2>2. s \in Seq(Tokens) /\ Len(s) \in Nat /\ Len(s) > 2
      BY SentenceFacts
    <2>3. IsPrefix(<< >>, s) <=>
              Len(<< >>) <= Len(s) /\ \A i \in 1..Len(<< >>) : << >>[i] = s[i]
      BY <2>1, <2>2, PrefixFacts
    <2>4. 1..Len(<< >>) = {}
      BY <2>1
    <2> QED BY <2>1, <2>2, <2>3, <2>4
  <1> QED BY <1>1 DEF Sequels

\* Of a text and one more token, the sentences that have it there.
LEMMA SequelsOfMore ==
    ASSUME NEW p \in Seq(Tokens), NEW c \in Tokens
    PROVE  Sequels(Append(p, c)) =
               {s \in Sequels(p) : s[Len(p) + 1] = c /\ Len(s) > Len(p) + 1}
  <1> DEFINE l == Append(p, c)
             n == Len(p)
  <1>1. /\ l \in Seq(Tokens) /\ n \in Nat /\ Len(l) = n + 1
        /\ l[n + 1] = c /\ \A i \in 1..n : l[i] = p[i]
    BY LenProperties, AppendProperties
  <1> HIDE DEF l, n
  <1>2. ASSUME NEW s \in Sentences
        PROVE  (Len(l) < Len(s) /\ IsPrefix(l, s)) <=>
               (Len(p) < Len(s) /\ IsPrefix(p, s) /\ s[n + 1] = c /\ Len(s) > n + 1)
    <2>1. s \in Seq(Tokens) /\ Len(s) \in Nat
      BY SentenceFacts
    <2>2. IsPrefix(l, s) <=> Len(l) <= Len(s) /\ \A i \in 1..(n + 1) : l[i] = s[i]
      BY <1>1, <2>1, PrefixFacts
    <2>3. IsPrefix(p, s) <=> n <= Len(s) /\ \A i \in 1..n : p[i] = s[i]
      BY <1>1, <2>1, PrefixFacts DEF n
    <2>4. (\A i \in 1..(n + 1) : l[i] = s[i]) <=> (\A i \in 1..n : p[i] = s[i]) /\ s[n + 1] = c
      <3>1. 1..(n + 1) = 1..n \cup {n + 1}
        BY <1>1
      <3> QED BY <1>1, <3>1
    <2> QED BY <1>1, <2>1, <2>2, <2>3, <2>4 DEF n
  <1> QED BY <1>2 DEF Sequels, l, n

\* Where a text that can become a sentence ends, or a token spoils it, is where
\* it goes wrong; and it is no command.
LEMMA SpoiltFacts ==
    ASSUME NEW p \in Seq(Tokens), Sequels(p) # {}, NEW c \in Tokens, c \notin Follow(p)
    PROVE  /\ c = "eol" =>
                Meaning(p) = "none" /\ Expected(p) = Follow(p) /\ Spoiler(p) = "eol"
           /\ /\ Meaning(Append(p, c)) = "none"
              /\ Expected(Append(p, c)) = Follow(p) /\ Spoiler(Append(p, c)) = c
  <1> DEFINE n == Len(p)
             l == Append(p, c)
             G(t) == {i \in 0..Len(t) : Sequels(SubSeq(t, 1, i)) # {}}
  <1>1. /\ l \in Seq(Tokens) /\ n \in Nat /\ Len(l) = n + 1
        /\ l[n + 1] = c /\ \A i \in 1..n : l[i] = p[i]
    BY LenProperties, AppendProperties
  <1>2. SubSeq(p, 1, n) = p /\ SubSeq(l, 1, n) = p /\ SubSeq(l, 1, n + 1) = l
    <2>1. SubSeq(p, 1, n) = p /\ SubSeq(l, 1, n + 1) = l
      BY <1>1, SubSeqFull
    <2>2. SubSeq(l, 1, n) = p
      <3>1. \A i \in 1..n : l[i] \in Tokens
        BY <1>1
      <3>2. /\ SubSeq(l, 1, n) \in Seq(Tokens) /\ Len(SubSeq(l, 1, n)) = n
            /\ \A i \in 1..n : SubSeq(l, 1, n)[i] = l[i]
        BY <1>1, <3>1, SubSeqProperties
      <3> QED BY <1>1, <3>2, SeqEqual
    <2> QED BY <2>1, <2>2
  <1>3. Sequels(l) = {}
    BY SequelsOfMore DEF Follow
  <1> HIDE DEF l
  <1>4. Good(p) = n
    <2> DEFINE S == {i \in 0..Len(p) : Sequels(SubSeq(p, 1, i)) # {}}
    <2>1. n \in S
      <3>1. n \in 0..Len(p)
        BY <1>1
      <3> QED BY <1>2, <3>1
    <2>2. \A i \in S : i \in Int /\ n >= i
      BY <1>1
    <2> HIDE DEF S
    <2>3. Max(S) = n
      BY <2>1, <2>2, MaxFacts
    <2> QED BY <2>3 DEF Good, S
  <1>5. Good(l) = n
    <2> DEFINE S == {i \in 0..Len(l) : Sequels(SubSeq(l, 1, i)) # {}}
    <2>1. n \in S
      <3>1. n \in 0..Len(l)
        BY <1>1
      <3> QED BY <1>2, <3>1
    <2>2. n + 1 \notin S
      BY <1>2, <1>3
    <2>3. \A i \in S : i \in Int /\ n >= i
      <3>1. \A i \in S : i \in 0..(n + 1) /\ i # n + 1
        BY <1>1, <2>2
      <3> HIDE DEF S
      <3> QED BY <1>1, <3>1
    <2> HIDE DEF S
    <2>4. Max(S) = n
      BY <2>1, <2>3, MaxFacts
    <2> QED BY <2>4 DEF Good, S
  <1>6. Append(p, "eol")[n + 1] = "eol" /\ Append(l, "eol")[n + 1] = c
    <2>1. "eol" \in Tokens
      BY TokenFacts
    <2>2. Append(p, "eol")[n + 1] = "eol"
      BY <2>1, AppendFacts
    <2>3. \A i \in 1..Len(l) : Append(l, "eol")[i] = l[i]
      BY <1>1, <2>1, AppendFacts
    <2>4. n + 1 \in 1..Len(l)
      <3> HIDE DEF n
      <3> QED BY <1>1
    <2> QED BY <1>1, <2>2, <2>3, <2>4
  <1>7. Meaning(l) = "none"
    <2>1. ASSUME NEW f \in Commands, Means(l, f) PROVE FALSE
      <3> DEFINE s == Append(l, "eol")
      <3>1. s \in Sentences
        BY <2>1 DEF Means, Sentences
      <3>2. /\ s \in Seq(Tokens) /\ Len(s) = n + 2 /\ s[n + 1] = c
            /\ \A i \in 1..n : s[i] = p[i]
        <4>1. /\ s \in Seq(Tokens) /\ Len(s) = Len(l) + 1
              /\ \A i \in 1..Len(l) : s[i] = l[i]
          BY <1>1, TokenFacts, AppendFacts
        <4> HIDE DEF s, l, n
        <4> QED BY <1>1, <4>1
      <3> HIDE DEF s
      <3>3. IsPrefix(p, s) /\ Len(p) < Len(s)
        <4>1. n <= Len(s) /\ \A i \in 1..n : p[i] = s[i]
          BY <1>1, <3>2
        <4> QED BY <1>1, <3>2, <4>1, PrefixFacts
      <3>4. s \in Sequels(p)
        BY <3>1, <3>3 DEF Sequels
      <3> QED BY <3>2, <3>4 DEF Follow
    <2> QED BY <2>1 DEF Meaning
  <1>8. c = "eol" => Meaning(p) = "none"
    <2>1. ASSUME c = "eol", NEW f \in Commands, Means(p, f) PROVE FALSE
      <3> DEFINE s == Append(p, "eol")
      <3>1. s \in Sentences
        BY <2>1 DEF Means, Sentences
      <3>2. s \in Seq(Tokens) /\ Len(s) = n + 1 /\ s[n + 1] = c /\ \A i \in 1..n : s[i] = p[i]
        BY <2>1, AppendFacts
      <3> HIDE DEF s
      <3>3. IsPrefix(p, s) /\ Len(p) < Len(s)
        BY <1>1, <3>2, PrefixFacts
      <3>4. s \in Sequels(p)
        BY <3>1, <3>3 DEF Sequels
      <3> QED BY <3>2, <3>4 DEF Follow
    <2> QED BY <2>1 DEF Meaning
  <1> QED BY <1>2, <1>4, <1>5, <1>6, <1>7, <1>8 DEF Expected, Spoiler, l
-----------------------------------------------------------------------------
(* The modes and the sentences *)

\* How many tokens lead to a mode, and the commands that can still follow.
Pos == [IDLE |-> 0, STARTED |-> 1, PARAM |-> 2, LOCATION |-> 2,
        RUN |-> 2, STOP |-> 2, CALIBRATE |-> 2, CALIBRATE_DONE |-> 2,
        PARAM_X |-> 3, PARAM_X_P |-> 4, PARAM_X_I |-> 6, PARAM_X_D |-> 8, PARAM_X_S |-> 10,
        PARAM_Y |-> 3, PARAM_Y_P |-> 4, PARAM_Y_I |-> 6, PARAM_Y_D |-> 8, PARAM_Y_S |-> 10,
        LOCATION_X |-> 3, LOCATION_Y |-> 5]

MayBe(m) ==
    IF m \in {"IDLE", "STARTED"} THEN Commands
    ELSE IF m = "PARAM" THEN {"mds_set_pid_x", "mds_set_pid_y"}
    ELSE IF m \in DOMAIN Immediate THEN {Immediate[m]}
    ELSE IF m \in {"PARAM_X", "PARAM_X_P", "PARAM_X_I", "PARAM_X_D", "PARAM_X_S"}
         THEN {"mds_set_pid_x"}
    ELSE IF m \in {"PARAM_Y", "PARAM_Y_P", "PARAM_Y_I", "PARAM_Y_D", "PARAM_Y_S"}
         THEN {"mds_set_pid_y"}
    ELSE {"mds_set_location"}

\* The ways to write some commands.
Ways(F) == UNION {Spellings(f) : f \in F}

\* The line so far, its length, and the sentences that it can become.
Text == IF ended THEN << >> ELSE line
Place ==
    Pos[serial_mode] + (IF at = "trailing" THEN 2 ELSE IF serial_buf # << >> THEN 1 ELSE 0)
Possible ==
    IF at = "trailing" THEN {Comma(LastValue[serial_mode])} ELSE Ways(MayBe(serial_mode))

\* The mode is where the line stands among the sentences of the table, and the
\* error what is wrong with it.
Situated == Len(Text) = Place /\ Sequels(Text) = Possible
Spelled ==
    /\ serial_mode # "ERROR" => Situated
    /\ serial_mode = "ERROR" => Meaning(line) = "none" /\ serial_error = Fault(line)
    /\ at = "flush" => line = << >>

GInv == IInv /\ Spelled /\ ExecutesCommandTable /\ ReplyFits

\* The commands.
LEMMA CommandFacts ==
    Commands = {"mds_set_pid_x", "mds_set_pid_y", "mds_set_location", "mds_start", "mds_stop",
                "mds_start_calibration", "mds_stop_calibration"}
  BY DEF Commands, FieldsOf

\* What can follow a mode, and that only in the middle of a number it is a digit
\* that led to where the line stands.
LEMMA MayBeFacts ==
    ASSUME NEW m \in Modes \ {"ERROR"}
    PROVE  /\ MayBe(m) \in SUBSET Commands /\ MayBe(m) # {} /\ Pos[m] \in 0..10
           /\ \A f \in MayBe(m) : Pos[m] <= Len(Syntax[f])
           /\ m # "IDLE" => Pos[m] > 0 /\ \A f \in MayBe(m) : Syntax[f][Pos[m]] # "digit"
  <1>1. Pos[m] \in 0..10 /\ (m # "IDLE" => Pos[m] > 0)
    BY DEF Pos, Modes, Fields, NextValue, LastValue, Immediate, BadKeyword
  <1>2. MayBe(m) \in SUBSET Commands /\ MayBe(m) # {}
    BY CommandFacts DEF MayBe, Immediate
  <1>3. CASE m \in {"IDLE", "STARTED"}
    <2>1. \A f \in Commands : Len(Syntax[f]) \in 2..11 /\ Syntax[f][1] = "M"
      BY SyntaxFacts
    <2>2. MayBe(m) = Commands
      BY <1>3 DEF MayBe
    <2>3. (m = "IDLE" /\ Pos[m] = 0) \/ Pos[m] = 1
      BY <1>3 DEF Pos
    <2> QED BY <1>1, <1>2, <2>1, <2>2, <2>3
  <1>4. CASE m \in DOMAIN Immediate
    <2>1. Pos[m] = 2
      BY <1>4 DEF Pos, Immediate
    <2>2. MayBe(m) \subseteq {"mds_start", "mds_stop", "mds_start_calibration",
                              "mds_stop_calibration"}
      BY <1>4 DEF MayBe, Immediate
    <2>3. \A f \in MayBe(m) : Len(Syntax[f]) = 2 /\ Syntax[f][2] # "digit"
      BY <2>2, SyntaxFacts
    <2> QED BY <1>1, <1>2, <2>1, <2>3
  <1>5. CASE m \in {"PARAM", "PARAM_X", "PARAM_X_P", "PARAM_X_I", "PARAM_X_D", "PARAM_X_S",
                    "PARAM_Y", "PARAM_Y_P", "PARAM_Y_I", "PARAM_Y_D", "PARAM_Y_S"}
    <2>1. Pos[m] \in {2, 3, 4, 6, 8, 10}
      BY <1>5 DEF Pos
    <2>2. MayBe(m) \subseteq {"mds_set_pid_x", "mds_set_pid_y"}
      BY <1>5 DEF MayBe, Immediate
    <2>3. ASSUME NEW f \in MayBe(m)
          PROVE  /\ Len(Syntax[f]) = 11 /\ Syntax[f][2] = "R" /\ Syntax[f][3] \in {"X", "Y"}
                 /\ Syntax[f][4] = "colon" /\ Syntax[f][6] = "comma" /\ Syntax[f][8] = "comma"
                 /\ Syntax[f][10] = "comma"
      BY <2>2, SyntaxFacts
    <2>4. \A f \in MayBe(m) : Syntax[f][Pos[m]] # "digit"
      BY <2>1, <2>3
    <2> QED BY <1>1, <1>2, <2>3, <2>4
  <1>6. CASE m \in {"LOCATION", "LOCATION_X", "LOCATION_Y"}
    <2>1. Pos[m] \in {2, 3, 5}
      BY <1>6 DEF Pos
    <2>2. MayBe(m) = {"mds_set_location"}
      BY <1>6 DEF MayBe, Immediate
    <2>3. Syntax["mds_set_location"][Pos[m]] # "digit" /\ Len(Syntax["mds_set_location"]) = 6
      BY <2>1, SyntaxFacts
    <2> QED BY <1>1, <1>2, <2>1, <2>2, <2>3
  <1>7. m \in {"IDLE", "STARTED", "PARAM", "PARAM_X", "PARAM_X_P", "PARAM_X_I", "PARAM_X_D",
               "PARAM_X_S", "PARAM_Y", "PARAM_Y_P", "PARAM_Y_I", "PARAM_Y_D", "PARAM_Y_S",
               "LOCATION", "LOCATION_X", "LOCATION_Y"} \cup DOMAIN Immediate
    BY DEF Modes, Fields, NextValue, LastValue, Immediate, BadKeyword
  <1> QED BY <1>3, <1>4, <1>5, <1>6, <1>7

\* Where a keyword is read, it is every command's next token, and it leaves the
\* commands that have it.
LEMMA KeywordPlaces ==
    ASSUME NEW m \in DOMAIN BadKeyword, NEW f \in MayBe(m)
    PROVE  /\ Pos[m] + 1 <= Len(Syntax[f])
           /\ \E k \in Modes : <<m, Syntax[f][Pos[m] + 1], k>> \in Keyword
  <1>1. CASE m = "IDLE"
    <2>1. Pos[m] = 0 /\ f \in Commands
      BY <1>1 DEF Pos, MayBe
    <2>2. Len(Syntax[f]) \in 2..11 /\ Syntax[f][1] = "M"
      BY <2>1, SyntaxFacts
    <2>3. <<"IDLE", "M", "STARTED">> \in Keyword /\ "STARTED" \in Modes
      BY DEF Keyword, Modes, BadKeyword
    <2> QED BY <1>1, <2>1, <2>2, <2>3
  <1>2. CASE m = "STARTED"
    <2>1. Pos[m] = 1 /\ f \in Commands
      BY <1>2 DEF Pos, MayBe
    <2>2. Len(Syntax[f]) \in 2..11
      BY <2>1, SyntaxFacts
    <2>3. Syntax[f][2] \in {"R", "L", "S", "P", "C", "D"}
      BY <2>1, CommandFacts, SyntaxFacts
    <2>4. \A c \in {"R", "L", "S", "P", "C", "D"} :
              \E k \in Modes : <<"STARTED", c, k>> \in Keyword
      <3>1. {"PARAM", "LOCATION", "RUN", "STOP", "CALIBRATE", "CALIBRATE_DONE"} \subseteq Modes
        BY DEF Modes, BadKeyword, Immediate
      <3>2. /\ <<"STARTED", "R", "PARAM">> \in Keyword /\ <<"STARTED", "L", "LOCATION">> \in Keyword
            /\ <<"STARTED", "S", "RUN">> \in Keyword /\ <<"STARTED", "P", "STOP">> \in Keyword
            /\ <<"STARTED", "C", "CALIBRATE">> \in Keyword
            /\ <<"STARTED", "D", "CALIBRATE_DONE">> \in Keyword
        BY DEF Keyword
      <3> QED BY <3>1, <3>2
    <2>5. Pos[m] + 1 = 2
      BY <2>1
    <2>6. 2 <= Len(Syntax[f])
      <3> DEFINE n == Len(Syntax[f])
      <3>1. n \in 2..11
        BY <2>2
      <3> HIDE DEF n
      <3>2. 2 <= n
        BY <3>1
      <3> QED BY <3>2 DEF n
    <2> QED BY <1>2, <2>3, <2>4, <2>5, <2>6
  <1>3. CASE m = "PARAM"
    <2>1. Pos[m] = 2 /\ f \in {"mds_set_pid_x", "mds_set_pid_y"}
      BY <1>3 DEF Pos, MayBe
    <2>2. Len(Syntax[f]) = 11 /\ Syntax[f][3] \in {"X", "Y"}
      BY <2>1, SyntaxFacts
    <2>3. /\ <<"PARAM", "X", "PARAM_X">> \in Keyword /\ <<"PARAM", "Y", "PARAM_Y">> \in Keyword
          /\ "PARAM_X" \in Modes /\ "PARAM_Y" \in Modes
      BY DEF Keyword, Modes, BadKeyword
    <2> QED BY <1>3, <2>1, <2>2, <2>3
  <1>4. CASE m = "PARAM_X"
    <2>1. Pos[m] = 3 /\ f = "mds_set_pid_x"
      BY <1>4 DEF Pos, MayBe, Immediate
    <2>2. Len(Syntax[f]) = 11 /\ Syntax[f][4] = "colon"
      BY <2>1, SyntaxFacts
    <2>3. <<"PARAM_X", "colon", "PARAM_X_P">> \in Keyword /\ "PARAM_X_P" \in Modes
      BY DEF Keyword, Modes, Fields, NextValue
    <2> QED BY <1>4, <2>1, <2>2, <2>3
  <1>5. CASE m = "PARAM_Y"
    <2>1. Pos[m] = 3 /\ f = "mds_set_pid_y"
      BY <1>5 DEF Pos, MayBe, Immediate
    <2>2. Len(Syntax[f]) = 11 /\ Syntax[f][4] = "colon"
      BY <2>1, SyntaxFacts
    <2>3. <<"PARAM_Y", "colon", "PARAM_Y_P">> \in Keyword /\ "PARAM_Y_P" \in Modes
      BY DEF Keyword, Modes, Fields, NextValue
    <2> QED BY <1>5, <2>1, <2>2, <2>3
  <1>6. CASE m = "LOCATION"
    <2>1. Pos[m] = 2 /\ f = "mds_set_location"
      BY <1>6 DEF Pos, MayBe, Immediate
    <2>2. Len(Syntax[f]) = 6 /\ Syntax[f][3] = "colon"
      BY <2>1, SyntaxFacts
    <2>3. <<"LOCATION", "colon", "LOCATION_X">> \in Keyword /\ "LOCATION_X" \in Modes
      BY DEF Keyword, Modes, Fields, NextValue
    <2> QED BY <1>6, <2>1, <2>2, <2>3
  <1>7. m \in {"IDLE", "STARTED", "PARAM", "PARAM_X", "PARAM_Y", "LOCATION"}
    BY DEF BadKeyword
  <1> QED BY <1>1, <1>2, <1>3, <1>4, <1>5, <1>6, <1>7

\* A keyword is the next token of the commands that its mode leaves possible.
LEMMA KeywordSteps ==
    ASSUME NEW m, NEW c, NEW k, <<m, c, k>> \in Keyword
    PROVE  /\ Pos[k] = Pos[m] + 1
           /\ MayBe(k) = {f \in MayBe(m) : Syntax[f][Pos[m] + 1] = c}
  <1>1. \/ m = "IDLE" /\ c = "M" /\ k = "STARTED"
        \/ m = "STARTED" /\ c = "R" /\ k = "PARAM"
        \/ m = "STARTED" /\ c = "L" /\ k = "LOCATION"
        \/ m = "STARTED" /\ c = "S" /\ k = "RUN"
        \/ m = "STARTED" /\ c = "P" /\ k = "STOP"
        \/ m = "STARTED" /\ c = "C" /\ k = "CALIBRATE"
        \/ m = "STARTED" /\ c = "D" /\ k = "CALIBRATE_DONE"
        \/ m = "PARAM" /\ c = "X" /\ k = "PARAM_X"
        \/ m = "PARAM" /\ c = "Y" /\ k = "PARAM_Y"
        \/ m = "PARAM_X" /\ c = "colon" /\ k = "PARAM_X_P"
        \/ m = "PARAM_Y" /\ c = "colon" /\ k = "PARAM_Y_P"
        \/ m = "LOCATION" /\ c = "colon" /\ k = "LOCATION_X"
    BY DEF Keyword
  <1>2. /\ \A f \in Commands : Syntax[f][1] = "M"
        /\ Syntax["mds_set_pid_x"][2] = "R" /\ Syntax["mds_set_pid_y"][2] = "R"
        /\ Syntax["mds_set_location"][2] = "L" /\ Syntax["mds_start"][2] = "S"
        /\ Syntax["mds_stop"][2] = "P" /\ Syntax["mds_start_calibration"][2] = "C"
        /\ Syntax["mds_stop_calibration"][2] = "D"
        /\ Syntax["mds_set_pid_x"][3] = "X" /\ Syntax["mds_set_pid_y"][3] = "Y"
        /\ Syntax["mds_set_pid_x"][4] = "colon" /\ Syntax["mds_set_pid_y"][4] = "colon"
        /\ Syntax["mds_set_location"][3] = "colon"
    BY SyntaxFacts
  <1>3. CASE m = "IDLE" /\ c = "M" /\ k = "STARTED"
    <2>1. Pos[k] = Pos[m] + 1 /\ Pos[m] = 0
      BY <1>3 DEF Pos
    <2> QED BY <1>2, <1>3, <2>1, CommandFacts DEF MayBe, Immediate
  <1>4. CASE m = "STARTED" /\ c = "R" /\ k = "PARAM"
    <2>1. Pos[k] = Pos[m] + 1 /\ Pos[m] = 1
      BY <1>4 DEF Pos
    <2> QED BY <1>2, <1>4, <2>1, CommandFacts DEF MayBe, Immediate
  <1>5. CASE m = "STARTED" /\ c = "L" /\ k = "LOCATION"
    <2>1. Pos[k] = Pos[m] + 1 /\ Pos[m] = 1
      BY <1>5 DEF Pos
    <2> QED BY <1>2, <1>5, <2>1, CommandFacts DEF MayBe, Immediate
  <1>6. CASE m = "STARTED" /\ c = "S" /\ k = "RUN"
    <2>1. Pos[k] = Pos[m] + 1 /\ Pos[m] = 1
      BY <1>6 DEF Pos
    <2> QED BY <1>2, <1>6, <2>1, CommandFacts DEF MayBe, Immediate
  <1>7. CASE m = "STARTED" /\ c = "P" /\ k = "STOP"
    <2>1. Pos[k] = Pos[m] + 1 /\ Pos[m] = 1
      BY <1>7 DEF Pos
    <2> QED BY <1>2, <1>7, <2>1, CommandFacts DEF MayBe, Immediate
  <1>8. CASE m = "STARTED" /\ c = "C" /\ k = "CALIBRATE"
    <2>1. Pos[k] = Pos[m] + 1 /\ Pos[m] = 1
      BY <1>8 DEF Pos
    <2> QED BY <1>2, <1>8, <2>1, CommandFacts DEF MayBe, Immediate
  <1>9. CASE m = "STARTED" /\ c = "D" /\ k = "CALIBRATE_DONE"
    <2>1. Pos[k] = Pos[m] + 1 /\ Pos[m] = 1
      BY <1>9 DEF Pos
    <2> QED BY <1>2, <1>9, <2>1, CommandFacts DEF MayBe, Immediate
  <1>10. CASE m = "PARAM" /\ c = "X" /\ k = "PARAM_X"
    <2>1. Pos[k] = Pos[m] + 1 /\ Pos[m] = 2
      BY <1>10 DEF Pos
    <2> QED BY <1>2, <1>10, <2>1, CommandFacts DEF MayBe, Immediate
  <1>11. CASE m = "PARAM" /\ c = "Y" /\ k = "PARAM_Y"
    <2>1. Pos[k] = Pos[m] + 1 /\ Pos[m] = 2
      BY <1>11 DEF Pos
    <2> QED BY <1>2, <1>11, <2>1, CommandFacts DEF MayBe, Immediate
  <1>12. CASE m = "PARAM_X" /\ c = "colon" /\ k = "PARAM_X_P"
    <2>1. Pos[k] = Pos[m] + 1 /\ Pos[m] = 3
      BY <1>12 DEF Pos
    <2> QED BY <1>2, <1>12, <2>1, CommandFacts DEF MayBe, Immediate
  <1>13. CASE m = "PARAM_Y" /\ c = "colon" /\ k = "PARAM_Y_P"
    <2>1. Pos[k] = Pos[m] + 1 /\ Pos[m] = 3
      BY <1>13 DEF Pos
    <2> QED BY <1>2, <1>13, <2>1, CommandFacts DEF MayBe, Immediate
  <1>14. CASE m = "LOCATION" /\ c = "colon" /\ k = "LOCATION_X"
    <2>1. Pos[k] = Pos[m] + 1 /\ Pos[m] = 2
      BY <1>14 DEF Pos
    <2> QED BY <1>2, <1>14, <2>1, CommandFacts DEF MayBe, Immediate
  <1> QED BY <1>1, <1>3, <1>4, <1>5, <1>6, <1>7, <1>8, <1>9, <1>10, <1>11, <1>12, <1>13, <1>14

\* Where a value is read, the command is known, and its next token is a number.
LEMMA FieldPlaces ==
    /\ \A m \in DOMAIN NextValue : \A f \in MayBe(m) :
          /\ MayBe(m) = {f} /\ Pos[m] + 2 <= Len(Syntax[f])
          /\ Syntax[f][Pos[m] + 1] = "digit" /\ Syntax[f][Pos[m] + 2] = "comma"
          /\ Pos[NextValue[m]] = Pos[m] + 2 /\ MayBe(NextValue[m]) = {f}
    /\ \A m \in DOMAIN LastValue :
          /\ MayBe(m) = {LastValue[m]} /\ FieldsOf[LastValue[m]] # {}
          /\ Pos[m] + 1 = Len(Syntax[LastValue[m]])
          /\ Syntax[LastValue[m]][Pos[m] + 1] = "digit"
  <1>1. ASSUME NEW m \in DOMAIN NextValue, NEW f \in MayBe(m)
        PROVE  /\ MayBe(m) = {f} /\ Pos[m] + 2 <= Len(Syntax[f])
               /\ Syntax[f][Pos[m] + 1] = "digit" /\ Syntax[f][Pos[m] + 2] = "comma"
               /\ Pos[NextValue[m]] = Pos[m] + 2 /\ MayBe(NextValue[m]) = {f}
    <2>1. Pos[NextValue[m]] = Pos[m] + 2
      BY DEF NextValue, Pos
    <2>2. MayBe(m) = {f} /\ MayBe(NextValue[m]) = {f}
      BY DEF NextValue, MayBe, Immediate
    <2>3. CASE m = "LOCATION_X"
      <3>1. Pos[m] = 3 /\ f = "mds_set_location"
        BY <2>3 DEF Pos, MayBe, Immediate
      <3> QED BY <2>1, <2>2, <3>1, SyntaxFacts
    <2>4. CASE m # "LOCATION_X"
      <3>1. Pos[m] \in {4, 6, 8} /\ f \in {"mds_set_pid_x", "mds_set_pid_y"}
        BY <2>4 DEF Pos, MayBe, Immediate, NextValue
      <3>2. /\ Len(Syntax[f]) = 11 /\ Syntax[f][5] = "digit" /\ Syntax[f][6] = "comma"
            /\ Syntax[f][7] = "digit" /\ Syntax[f][8] = "comma" /\ Syntax[f][9] = "digit"
            /\ Syntax[f][10] = "comma"
        BY <3>1, SyntaxFacts
      <3>3. Pos[m] + 2 <= Len(Syntax[f])
        BY <3>1, <3>2
      <3>4. Syntax[f][Pos[m] + 1] = "digit" /\ Syntax[f][Pos[m] + 2] = "comma"
        BY <3>1, <3>2
      <3> QED BY <2>1, <2>2, <3>3, <3>4
    <2> QED BY <2>3, <2>4
  <1>2. ASSUME NEW m \in DOMAIN LastValue
        PROVE  /\ MayBe(m) = {LastValue[m]} /\ FieldsOf[LastValue[m]] # {}
               /\ Pos[m] + 1 = Len(Syntax[LastValue[m]])
               /\ Syntax[LastValue[m]][Pos[m] + 1] = "digit"
    <2>1. MayBe(m) = {LastValue[m]} /\ FieldsOf[LastValue[m]] # {}
      BY DEF LastValue, MayBe, Immediate, FieldsOf
    <2>2. CASE m = "LOCATION_Y"
      <3>1. Pos[m] = 5 /\ LastValue[m] = "mds_set_location"
        BY <2>2 DEF Pos, LastValue
      <3> QED BY <2>1, <3>1, SyntaxFacts
    <2>3. CASE m # "LOCATION_Y"
      <3>1. Pos[m] = 10 /\ LastValue[m] \in {"mds_set_pid_x", "mds_set_pid_y"}
        BY <2>3 DEF Pos, LastValue
      <3> QED BY <2>1, <3>1, SyntaxFacts
    <2> QED BY <2>2, <2>3
  <1> QED BY <1>1, <1>2

\* Where only the end of a line is waited for, the command is complete.
LEMMA ImmediatePlaces ==
    \A m \in DOMAIN Immediate :
        /\ MayBe(m) = {Immediate[m]} /\ FieldsOf[Immediate[m]] = {}
        /\ Pos[m] = Len(Syntax[Immediate[m]])
  <1> SUFFICES ASSUME NEW m \in DOMAIN Immediate
               PROVE  /\ MayBe(m) = {Immediate[m]} /\ FieldsOf[Immediate[m]] = {}
                      /\ Pos[m] = Len(Syntax[Immediate[m]])
    OBVIOUS
  <1>1. MayBe(m) = {Immediate[m]} /\ FieldsOf[Immediate[m]] = {} /\ Pos[m] = 2
    BY DEF Immediate, MayBe, FieldsOf, Pos
  <1>2. Immediate[m] \in {"mds_start", "mds_stop", "mds_start_calibration", "mds_stop_calibration"}
    BY DEF Immediate
  <1> QED BY <1>1, <1>2, SyntaxFacts

-----------------------------------------------------------------------------
(* What comes next *)

\* A text to which only the end of a sentence is missing.
LEMMA EndFacts ==
    ASSUME NEW p \in Seq(Tokens), NEW s \in Sequels(p), Len(s) = Len(p) + 1, s[Len(p) + 1] = "eol"
    PROVE  Append(p, "eol") = s
  <1> DEFINE l == Append(p, "eol")
             n == Len(p)
  <1>1. /\ l \in Seq(Tokens) /\ n \in Nat /\ Len(l) = n + 1 /\ l[n + 1] = "eol"
        /\ \A i \in 1..n : l[i] = p[i]
    BY TokenFacts, AppendFacts
  <1>2. s \in Sentences /\ IsPrefix(p, s)
    BY DEF Sequels
  <1>3. s \in Seq(Tokens)
    BY <1>2, SentenceFacts
  <1>4. \A i \in 1..n : p[i] = s[i]
    BY <1>2, <1>3, PrefixFacts
  <1>5. Len(s) = n + 1 /\ s[n + 1] = "eol"
    OBVIOUS
  <1> HIDE DEF l, n
  <1>6. \A i \in 1..Len(l) : l[i] = s[i]
    BY <1>1, <1>4, <1>5
  <1>7. l = s
    BY <1>1, <1>3, <1>5, <1>6, SeqEqual
  <1> QED BY <1>7 DEF l

\* In the middle of some commands, their next tokens come next, and one of them
\* leaves the commands that have it.
LEMMA NextTokens ==
    ASSUME NEW F \in SUBSET Commands, NEW p \in Seq(Tokens), Sequels(p) = Ways(F),
           \A f \in F : Len(p) + 1 <= Len(Syntax[f])
    PROVE  /\ Follow(p) = {Syntax[f][Len(p) + 1] : f \in F}
           /\ \A c \in Tokens :
                 Sequels(Append(p, c)) = Ways({f \in F : Syntax[f][Len(p) + 1] = c})
  <1> DEFINE n == Len(p)
  <1>1. n \in Nat
    BY LenProperties
  <1> HIDE DEF n
  <1>2. ASSUME NEW f \in F, NEW s \in Spellings(f)
        PROVE  s[n + 1] = Syntax[f][n + 1] /\ Len(s) > n + 1
    <2> DEFINE k == Len(Syntax[f])
    <2>1. /\ k \in 2..11 /\ (\A i \in 1..k : s[i] = Syntax[f][i])
          /\ (Len(s) = k + 1 \/ Len(s) = k + 2)
      BY SpellingFacts
    <2>2. n + 1 <= k
      BY DEF n
    <2> HIDE DEF k
    <2>3. n + 1 \in 1..k
      BY <1>1, <2>1, <2>2
    <2> QED BY <1>1, <2>1, <2>2, <2>3
  <1>3. \A f \in F : Plain(f) \in Spellings(f)
    BY DEF Spellings
  <1>4. Follow(p) = {s[n + 1] : s \in Ways(F)}
    BY DEF Follow, n
  <1>5. {s[n + 1] : s \in Ways(F)} = {Syntax[f][n + 1] : f \in F}
    <2>1. ASSUME NEW s \in Ways(F) PROVE s[n + 1] \in {Syntax[f][n + 1] : f \in F}
      <3>1. PICK f \in F : s \in Spellings(f)
        BY DEF Ways
      <3> QED BY <1>2, <3>1
    <2>2. ASSUME NEW f \in F PROVE Syntax[f][n + 1] \in {s[n + 1] : s \in Ways(F)}
      <3>1. Plain(f) \in Ways(F)
        BY <1>3 DEF Ways
      <3>2. Plain(f)[n + 1] = Syntax[f][n + 1]
        BY <1>2, <1>3
      <3> QED BY <3>1, <3>2
    <2> QED BY <2>1, <2>2
  <1>6. ASSUME NEW c \in Tokens
        PROVE  Sequels(Append(p, c)) = Ways({f \in F : Syntax[f][n + 1] = c})
    <2>1. Sequels(Append(p, c)) = {s \in Ways(F) : s[n + 1] = c /\ Len(s) > n + 1}
      BY SequelsOfMore DEF n
    <2>2. {s \in Ways(F) : s[n + 1] = c /\ Len(s) > n + 1} = Ways({f \in F : Syntax[f][n + 1] = c})
      <3> DEFINE G == {f \in F : Syntax[f][n + 1] = c}
      <3>1. ASSUME NEW s \in Ways(F), s[n + 1] = c PROVE s \in Ways(G)
        <4>1. PICK f \in F : s \in Spellings(f)
          BY DEF Ways
        <4>2. f \in G
          BY <1>2, <3>1, <4>1
        <4> QED BY <4>1, <4>2 DEF Ways
      <3>2. ASSUME NEW s \in Ways(G) PROVE s \in Ways(F) /\ s[n + 1] = c /\ Len(s) > n + 1
        <4>1. PICK f \in G : s \in Spellings(f)
          BY DEF Ways
        <4>2. f \in F /\ Syntax[f][n + 1] = c
          OBVIOUS
        <4>3. s \in Ways(F)
          BY <4>1, <4>2 DEF Ways
        <4> QED BY <1>2, <4>1, <4>2, <4>3
      <3> HIDE DEF G
      <3>3. Ways(G) \subseteq Ways(F)
        BY <3>2
      <3> QED BY <3>1, <3>2, <3>3 DEF G
    <2> QED BY <2>1, <2>2
  <1> QED BY <1>4, <1>5, <1>6 DEF n

\* Behind a complete command its end comes next, or a comma after values; the end
\* makes it that command.
LEMMA NextIsEnd ==
    ASSUME NEW f \in Commands, NEW p \in Seq(Tokens), Sequels(p) = Spellings(f),
           Len(p) = Len(Syntax[f])
    PROVE  /\ Follow(p) = IF FieldsOf[f] = {} THEN {"eol"} ELSE {"comma", "eol"}
           /\ Means(p, f)
           /\ FieldsOf[f] # {} => Sequels(Append(p, "comma")) = {Comma(f)}
  <1> DEFINE n == Len(p)
  <1>1. n \in Nat
    BY LenProperties
  <1>2. Plain(f) \in Spellings(f)
    BY DEF Spellings
  <1>3. Plain(f)[n + 1] = "eol" /\ Len(Plain(f)) = n + 1
    <2>1. Syntax[f] \in Seq(Tokens) /\ "eol" \in Tokens
      BY SyntaxFacts, TokenFacts
    <2> QED BY <2>1, AppendFacts DEF Plain
  <1>4. Means(p, f)
    BY <1>2, <1>3, EndFacts DEF Means
  <1>5. FieldsOf[f] # {} => Comma(f)[n + 1] = "comma" /\ Len(Comma(f)) = n + 2
    BY CommaFacts
  <1>6. Spellings(f) = IF FieldsOf[f] = {} THEN {Plain(f)} ELSE {Plain(f), Comma(f)}
    BY DEF Spellings
  <1>7. Follow(p) = {s[n + 1] : s \in Spellings(f)}
    BY DEF Follow
  <1>8. Sequels(Append(p, "comma")) = {s \in Spellings(f) : s[n + 1] = "comma" /\ Len(s) > n + 1}
    BY TokenFacts, SequelsOfMore
  <1>9. FieldsOf[f] # {} => Sequels(Append(p, "comma")) = {Comma(f)}
    <2>1. FieldsOf[f] # {} => n + 2 > n + 1
      BY <1>1
    <2> HIDE DEF n
    <2> QED BY <1>3, <1>5, <1>6, <1>8, <2>1
  <1> HIDE DEF n
  <1> QED BY <1>3, <1>4, <1>5, <1>6, <1>7, <1>9

\* Behind that comma only the end comes.
LEMMA NextIsOnlyEnd ==
    ASSUME NEW f \in Commands, FieldsOf[f] # {}, NEW p \in Seq(Tokens), Sequels(p) = {Comma(f)},
           Len(p) = Len(Syntax[f]) + 1
    PROVE  Follow(p) = {"eol"} /\ Means(p, f)
  <1> DEFINE n == Len(Syntax[f])
  <1>1. n \in Nat /\ Syntax[f] \in Seq(Tokens) /\ "eol" \in Tokens /\ "comma" \in Tokens
    BY SyntaxFacts, TokenFacts, LenProperties
  <1>2. Comma(f) \in Spellings(f)
    BY DEF Spellings
  <1>3. Len(Comma(f)) = n + 2 /\ Comma(f)[n + 2] = "eol"
    BY CommaFacts
  <1>4. Len(p) + 1 = n + 2
    BY <1>1
  <1>5. Follow(p) = {Comma(f)[n + 2]}
    BY <1>4 DEF Follow
  <1>6. Append(p, "eol") = Comma(f)
    BY <1>3, <1>4, EndFacts
  <1> QED BY <1>2, <1>3, <1>5, <1>6 DEF Means

\* Commands are told apart by their second and third token.
LEMMA SpellingsDiffer ==
    ASSUME NEW f \in Commands, NEW g \in Commands, NEW s \in Spellings(f), s \in Spellings(g)
    PROVE  f = g
  <1>1. ASSUME NEW h \in Commands, s \in Spellings(h)
        PROVE  /\ s[2] = Syntax[h][2]
               /\ Len(Syntax[h]) > 2 => s[3] = Syntax[h][3]
    <2> DEFINE k == Len(Syntax[h])
    <2>1. k \in 2..11 /\ \A i \in 1..k : s[i] = Syntax[h][i]
      BY <1>1, SpellingFacts
    <2> HIDE DEF k
    <2>2. 2 \in 1..k /\ (k > 2 => 3 \in 1..k)
      BY <2>1
    <2> QED BY <2>1, <2>2 DEF k
  <1>2. /\ Syntax["mds_set_pid_x"][2] = "R" /\ Syntax["mds_set_pid_y"][2] = "R"
        /\ Syntax["mds_set_location"][2] = "L" /\ Syntax["mds_start"][2] = "S"
        /\ Syntax["mds_stop"][2] = "P" /\ Syntax["mds_start_calibration"][2] = "C"
        /\ Syntax["mds_stop_calibration"][2] = "D"
    BY SyntaxFacts
  <1>3. /\ Syntax["mds_set_pid_x"][3] = "X" /\ Syntax["mds_set_pid_y"][3] = "Y"
        /\ Len(Syntax["mds_set_pid_x"]) = 11 /\ Len(Syntax["mds_set_pid_y"]) = 11
    <2>1. /\ Len(Syntax["mds_set_pid_x"]) = 11
          /\ Len(Syntax["mds_set_pid_y"]) = 11
      BY SyntaxFacts
    <2> QED BY <2>1, SyntaxFacts
  <1>4. Syntax[f][2] = Syntax[g][2]
    BY <1>1
  <1>5. f = g \/ {f, g} = {"mds_set_pid_x", "mds_set_pid_y"}
    BY <1>2, <1>4, CommandFacts
  <1>6. {f, g} # {"mds_set_pid_x", "mds_set_pid_y"}
    <2>1. s \in Spellings("mds_set_pid_x") /\ "mds_set_pid_x" \in Commands => s[3] = "X"
      BY <1>1, <1>3
    <2>2. s \in Spellings("mds_set_pid_y") /\ "mds_set_pid_y" \in Commands => s[3] = "Y"
      BY <1>1, <1>3
    <2>3. "mds_set_pid_x" \in Commands /\ "mds_set_pid_y" \in Commands
      BY CommandFacts
    <2> QED BY <2>1, <2>2, <2>3
  <1> QED BY <1>5, <1>6

\* A line means a command or none.
LEMMA MeaningFacts ==
    ASSUME NEW l, NEW f \in Commands, Means(l, f)
    PROVE  Meaning(l) = f
  <1>1. ASSUME NEW g \in Commands, Means(l, g) PROVE g = f
    BY <1>1, SpellingsDiffer DEF Means
  <1> QED BY <1>1 DEF Meaning

-----------------------------------------------------------------------------
(* The line and the mode *)

\* Before an error, the line can still become a sentence.
LEMMA TextFacts ==
    ASSUME GInv, serial_mode # "ERROR"
    PROVE  /\ line \in Seq(Tokens) /\ Text \in Seq(Tokens)
           /\ serial_mode \in Modes \ {"ERROR"}
           /\ Len(Text) = Place /\ Sequels(Text) = Possible /\ Possible # {}
           /\ \A s \in Possible : s \in Seq(Tokens) /\ \A i \in 1..Len(Text) : Text[i] = s[i]
  <1>1. line \in Seq(Tokens) /\ serial_mode \in Modes
    BY DEF GInv, IInv, TypeOK, Tokens
  <1>2. Text \in Seq(Tokens)
    BY <1>1 DEF Text
  <1>3. Len(Text) = Place /\ Sequels(Text) = Possible
    BY DEF GInv, Spelled, Situated
  <1>4. Possible # {}
    <2>1. PICK f : f \in MayBe(serial_mode)
      BY <1>1, MayBeFacts
    <2>2. Plain(f) \in Ways(MayBe(serial_mode))
      BY <2>1 DEF Ways, Spellings
    <2> QED BY <2>2 DEF Possible
  <1>5. ASSUME NEW s \in Possible
        PROVE  s \in Seq(Tokens) /\ \A i \in 1..Len(Text) : Text[i] = s[i]
    <2>1. s \in Sentences /\ IsPrefix(Text, s)
      BY <1>3 DEF Sequels
    <2> QED BY <1>2, <2>1, SentenceFacts, PrefixFacts
  <1> QED BY <1>1, <1>2, <1>3, <1>4, <1>5

\* A character that does not end the line is added to it, if it is no more of a
\* number.
LEMMA Added ==
    ASSUME GInv, NEW c \in Chars, Record(c), c # "eol", serial_mode # "ERROR",
           c \in Figures => serial_buf = << >>
    PROVE  /\ ended' = FALSE /\ line' = Append(Text, Class(c)) /\ Text' = Append(Text, Class(c))
           /\ Len(Text') = Place + 1
  <1>1. /\ line \in Seq(Tokens) /\ Text \in Seq(Tokens) /\ serial_mode \in Modes \ {"ERROR"}
        /\ Len(Text) = Place /\ Possible # {} /\ Class(c) \in Tokens
        /\ \A s \in Possible : s \in Seq(Tokens) /\ \A i \in 1..Len(Text) : Text[i] = s[i]
    BY TextFacts, TokenFacts
  <1>2. ended' = FALSE
    BY DEF Record
  <1>3. line' = Append(Text, Class(c))
    <2>1. CASE ended
      <3>1. line' = <<Class(c)>> /\ Text = << >>
        BY <2>1 DEF Record, Begins, Text
      <3>2. <<Class(c)>> = Append(<< >>, Class(c))
        OBVIOUS
      <3> QED BY <3>1, <3>2
    <2>2. CASE ~ended
      <3>1. Text = line /\ serial_mode # "IDLE"
        BY <2>2 DEF Text, GInv, IInv, Modal
      <3>2. c \in Figures => Text[Len(Text)] # "digit"
        <4> SUFFICES ASSUME c \in Figures PROVE Text[Place] # "digit"
          BY <1>1
        <4>1. serial_buf = << >>
          OBVIOUS
        <4>2. CASE at = "trailing"
          <5> DEFINE f == LastValue[serial_mode]
          <5>1. serial_mode \in DOMAIN LastValue
            BY <4>2 DEF GInv, IInv, Modal
          <5>2. /\ f \in Commands /\ Pos[serial_mode] \in 0..10
                /\ Pos[serial_mode] + 1 = Len(Syntax[f])
            BY <1>1, <5>1, LastFacts, FieldPlaces, MayBeFacts
          <5>3. Comma(f) \in Possible /\ Comma(f)[Len(Syntax[f]) + 1] = "comma"
            BY <4>2, <5>2, CommaFacts DEF Possible
          <5>4. Place = Pos[serial_mode] + 2
            BY <4>2 DEF Place
          <5> HIDE DEF f
          <5>5. Place = Len(Syntax[f]) + 1 /\ Place \in 1..Len(Text)
            <6> DEFINE k == Pos[serial_mode]
                       n == Len(Syntax[f])
            <6>1. k \in 0..10 /\ n = k + 1 /\ Place = k + 2 /\ Len(Text) = Place
              BY <1>1, <5>2, <5>4
            <6> HIDE DEF k, n
            <6>2. Place = n + 1 /\ Place \in 1..Place
              BY <6>1
            <6> QED BY <6>1, <6>2 DEF n
          <5> QED BY <1>1, <5>3, <5>5
        <4>3. CASE at # "trailing"
          <5>1. PICK f \in MayBe(serial_mode) : TRUE
            BY <1>1, MayBeFacts
          <5>2. Place = Pos[serial_mode]
            <6>1. Pos[serial_mode] \in 0..10
              BY <1>1, MayBeFacts
            <6> QED BY <4>1, <4>3, <6>1 DEF Place
          <5>3. /\ f \in Commands /\ Place \in 0..10 /\ Place > 0
                /\ Place <= Len(Syntax[f]) /\ Syntax[f][Place] # "digit"
            BY <1>1, <3>1, <5>1, <5>2, MayBeFacts
          <5>4. Plain(f) \in Spellings(f) /\ Plain(f) \in Possible
            BY <4>3, <5>1 DEF Spellings, Possible, Ways
          <5>5. \A i \in 1..Len(Syntax[f]) : Plain(f)[i] = Syntax[f][i]
            BY <5>3, <5>4, SpellingFacts
          <5>6. Len(Syntax[f]) \in 2..11
            BY <5>3, SyntaxFacts
          <5>7. Place \in 1..Len(Syntax[f]) /\ Place \in 1..Len(Text)
            BY <1>1, <5>3, <5>6
          <5> QED BY <1>1, <5>3, <5>4, <5>5, <5>7
        <4> QED BY <4>2, <4>3
      <3> QED BY <2>2, <3>1, <3>2 DEF Record, Begins, Continues
    <2> QED BY <2>1, <2>2
  <1>4. Text' = line'
    BY <1>2 DEF Text
  <1>5. Len(Append(Text, Class(c))) = Place + 1
    BY <1>1, AppendFacts
  <1> QED BY <1>2, <1>3, <1>4, <1>5

\* One more figure of a number leaves the line as it is.
LEMMA Continued ==
    ASSUME GInv, NEW c \in Figures, Record(c), serial_mode \in Fields, serial_buf # << >>
    PROVE  ended' = FALSE /\ line' = line /\ Text' = Text
  <1>1. serial_mode # "ERROR" /\ serial_mode # "IDLE" /\ at # "trailing" /\ c # "eol"
    BY ModeFacts DEF GInv, IInv, Empty, Figures
  <1>2. ~ended
    BY <1>1 DEF GInv, IInv, Modal
  <1>3. /\ Text \in Seq(Tokens) /\ serial_mode \in Modes \ {"ERROR"}
        /\ Len(Text) = Place /\ Possible # {}
        /\ \A s \in Possible : s \in Seq(Tokens) /\ \A i \in 1..Len(Text) : Text[i] = s[i]
    BY <1>1, TextFacts
  <1>4. Text = line
    BY <1>2 DEF Text
  <1>5. PICK f \in MayBe(serial_mode) : TRUE
    BY <1>3, MayBeFacts
  <1>6. /\ f \in Commands /\ Pos[serial_mode] \in 0..10 /\ Len(Syntax[f]) \in 2..11
        /\ Pos[serial_mode] + 1 <= Len(Syntax[f]) /\ Syntax[f][Pos[serial_mode] + 1] = "digit"
    <2>1. f \in Commands /\ Pos[serial_mode] \in 0..10 /\ Len(Syntax[f]) \in 2..11
      BY <1>3, <1>5, MayBeFacts, SyntaxFacts
    <2>2. CASE serial_mode \in DOMAIN NextValue
      <3>1. Pos[serial_mode] + 2 <= Len(Syntax[f]) /\ Syntax[f][Pos[serial_mode] + 1] = "digit"
        BY <1>5, <2>2, FieldPlaces
      <3>2. Pos[serial_mode] + 1 <= Len(Syntax[f])
        BY <2>1, <3>1
      <3> QED BY <2>1, <3>1, <3>2
    <2>3. CASE serial_mode \in DOMAIN LastValue
      <3>1. f = LastValue[serial_mode]
        BY <1>5, <2>3, FieldPlaces
      <3>2. Pos[serial_mode] + 1 = Len(Syntax[f]) /\ Syntax[f][Pos[serial_mode] + 1] = "digit"
        BY <2>3, <3>1, FieldPlaces
      <3> QED BY <2>1, <3>2
    <2> QED BY <2>2, <2>3 DEF Fields
  <1>7. Place = Pos[serial_mode] + 1
    BY <1>1 DEF Place
  <1>8. Plain(f) \in Spellings(f) /\ Plain(f) \in Possible
    BY <1>1, <1>5 DEF Spellings, Possible, Ways
  <1>9. \A i \in 1..Len(Syntax[f]) : Plain(f)[i] = Syntax[f][i]
    BY <1>6, <1>8, SpellingFacts
  <1>10. Text[Len(Text)] = "digit"
    <2>1. Place \in 1..Len(Syntax[f]) /\ Place \in 1..Len(Text)
      BY <1>3, <1>6, <1>7
    <2>2. Text[Place] = Syntax[f][Place]
      BY <1>3, <1>8, <1>9, <2>1
    <2> QED BY <1>3, <1>6, <1>7, <2>2
  <1>11. ended' = FALSE /\ line' = line
    BY <1>1, <1>2, <1>4, <1>10 DEF Record, Begins, Continues
  <1> QED BY <1>4, <1>11 DEF Text

-----------------------------------------------------------------------------
(* The steps *)

\* Before the first character of a line, all sentences are possible.
LEMMA Started ==
    /\ ended /\ serial_mode = "IDLE" /\ at # "trailing" /\ serial_buf = << >> => Situated
    /\ (ended /\ serial_mode = "IDLE" /\ at # "trailing" /\ serial_buf = << >> => Situated)'
  <1>1. Ways(MayBe("IDLE")) = Sentences /\ Pos["IDLE"] = 0
    BY DEF MayBe, Ways, Sentences, Pos
  <1> QED BY <1>1, SequelsOfNothing DEF Situated, Text, Place, Possible

\* What is answered to a command.
LEMMA ToldFacts ==
    ASSUME NEW f \in Commands, Execute(f)
    PROVE  reply' = IF result' # "SUCCESS" THEN Told[result']
                    ELSE IF f = "mds_stop_calibration" THEN "MI" ELSE "MA"
  <1>1. PICK i \in DOMAIN mds_err_t :
            /\ result' = mds_err_t[i]
            /\ reply' = IF serial_error_t[i] # "NONE" THEN serial_error_t[i]
                        ELSE IF f = "mds_stop_calibration" THEN "MI" ELSE "MA"
    BY Zenon DEF Execute, Answer
  <1>2. i \in {1, 2, 3, 4, 5, 6, 7, 8}
    BY DEF mds_err_t
  <1>3. /\ mds_err_t[i] = "SUCCESS" <=> serial_error_t[i] = "NONE"
        /\ mds_err_t[i] # "SUCCESS" => serial_error_t[i] = Told[mds_err_t[i]]
    BY <1>2 DEF mds_err_t, serial_error_t, Told
  <1> QED BY <1>1, <1>3

\* A step of the line that is not its end keeps the meaning of the line open.
LEMMA Onward ==
    ASSUME IInv, IInv', NEW c \in Chars, Record(c), c # "eol", Silent(c), at' # "flush",
           serial_mode' # "ERROR", Situated'
    PROVE  GInv'
  <1>1. ended' = FALSE
    BY RecordFacts
  <1>2. executed' = "none"
    BY SilentFacts
  <1> QED BY <1>1, <1>2 DEF GInv, Spelled, ExecutesCommandTable, ReplyFits

\* Something that cannot come next is an error, named for what should have come.
LEMMA Wrong ==
    ASSUME GInv, IInv', NEW c \in Chars, Record(c), NEW e \in Errors \ {"NONE"},
           serial_set_error(e, c), at' = "loop", serial_buf' = << >>, serial_mode # "ERROR",
           serial_mode = "IDLE" => c # "eol", c \in Figures => serial_buf = << >>,
           Class(c) \notin Follow(Text), e = Names(Follow(Text), Class(c))
    PROVE  GInv'
  <1>1. /\ Text \in Seq(Tokens) /\ Sequels(Text) # {} /\ Class(c) \in Tokens
    BY TextFacts, TokenFacts
  <1>2. c = "eol" => ~ended
    BY DEF GInv, IInv, Modal
  <1>3. /\ executed' = "none"
        /\ serial_mode' = (IF c = "eol" THEN "IDLE" ELSE "ERROR")
        /\ serial_error' = (IF c = "eol" THEN "NONE" ELSE e)
    BY <1>2, SetErrorFacts DEF GInv
  <1>4. ended' = (c = "eol")
    BY RecordFacts DEF GInv
  <1>5. Meaning(line') = "none" /\ Fault(line') = e
    <2>1. CASE c = "eol"
      <3>1. line' = line /\ Text = line
        BY <1>2, <2>1 DEF Record, Begins, Text
      <3>2. Class(c) = "eol"
        BY <2>1 DEF Class, Figures
      <3>3. Meaning(line) = "none" /\ Expected(line) = Follow(Text) /\ Spoiler(line) = Class(c)
        BY <1>1, <3>1, <3>2, SpoiltFacts
      <3> QED BY <3>1, <3>3 DEF Fault, Names
    <2>2. CASE c # "eol"
      <3>1. line' = Append(Text, Class(c))
        BY <2>2, Added
      <3>2. /\ Meaning(line') = "none" /\ Expected(line') = Follow(Text)
            /\ Spoiler(line') = Class(c)
        BY <1>1, <3>1, SpoiltFacts
      <3> QED BY <3>2 DEF Fault, Names
    <2> QED BY <2>1, <2>2
  <1>6. c = "eol" => reply' = e
    BY DEF serial_set_error, Answer
  <1>7. c = "eol" => Situated'
    BY <1>3, <1>4, Started
  <1>8. Spelled'
    BY <1>3, <1>5, <1>7 DEF Spelled
  <1>9. ExecutesCommandTable' /\ ReplyFits'
    BY <1>3, <1>4, <1>5, <1>6 DEF ExecutesCommandTable, ReplyFits
  <1> QED BY <1>8, <1>9 DEF GInv

\* The end of a line that is a command.
LEMMA Done ==
    ASSUME GInv, IInv', NEW f \in Commands, Record("eol"), Execute(f), at' = "loop",
           serial_buf' = << >>, serial_mode \notin {"IDLE", "ERROR"}, Means(line, f)
    PROVE  GInv'
  <1>1. ~ended /\ ended' = TRUE /\ line' = line
    BY DEF GInv, IInv, Modal, Record, Begins
  <1>2. executed' = f /\ serial_mode' = "IDLE"
    BY DEF Execute
  <1>3. Meaning(line) = f
    BY MeaningFacts
  <1>4. line # << >>
    <2>1. Len(Text) = Place /\ serial_mode \in Modes /\ line \in Seq(Tokens)
      BY TextFacts
    <2>2. Text = line
      BY <1>1 DEF Text
    <2>3. Pos[serial_mode] \in 0..10 /\ Pos[serial_mode] > 0
      BY <2>1, MayBeFacts
    <2>4. Place > 0
      BY <2>3 DEF Place
    <2>5. line = << >> => Len(line) = 0
      OBVIOUS
    <2> QED BY <2>1, <2>2, <2>4, <2>5
  <1>5. ExecutesCommandTable'
    BY <1>1, <1>2, <1>3, <1>4 DEF ExecutesCommandTable
  <1>6. ReplyFits'
    <2>1. f # "none"
      BY CommandFacts
    <2>2. reply' = IF result' # "SUCCESS" THEN Told[result']
                   ELSE IF f = "mds_stop_calibration" THEN "MI" ELSE "MA"
      BY ToldFacts
    <2> QED BY <1>2, <2>1, <2>2 DEF ReplyFits
  <1>7. Situated'
    BY <1>1, <1>2, Started
  <1> QED BY <1>2, <1>5, <1>6, <1>7 DEF GInv, Spelled

\* What is wrong where a keyword should have come.
LEMMA KeywordErrors ==
    ASSUME NEW m \in DOMAIN BadKeyword, NEW t
    PROVE  Names({Syntax[f][Pos[m] + 1] : f \in MayBe(m)}, t) = BadKeyword[m]
  <1> DEFINE E == {Syntax[f][Pos[m] + 1] : f \in MayBe(m)}
  <1>1. /\ \A f \in Commands : Syntax[f][1] = "M"
        /\ Syntax["mds_set_pid_x"][2] = "R" /\ Syntax["mds_set_pid_y"][2] = "R"
        /\ Syntax["mds_set_location"][2] = "L" /\ Syntax["mds_start"][2] = "S"
        /\ Syntax["mds_stop"][2] = "P" /\ Syntax["mds_start_calibration"][2] = "C"
        /\ Syntax["mds_stop_calibration"][2] = "D"
        /\ Syntax["mds_set_pid_x"][3] = "X" /\ Syntax["mds_set_pid_y"][3] = "Y"
        /\ Syntax["mds_set_pid_x"][4] = "colon" /\ Syntax["mds_set_pid_y"][4] = "colon"
        /\ Syntax["mds_set_location"][3] = "colon"
    BY SyntaxFacts
  <1>2. CASE m = "IDLE"
    <2>1. "M" \in E
      <3>1. Pos[m] + 1 = 1 /\ MayBe(m) = Commands /\ "mds_start" \in Commands
        BY <1>2, CommandFacts DEF Pos, MayBe
      <3> QED BY <1>1, <3>1
    <2> QED BY <1>2, <2>1 DEF Names, BadKeyword
  <1>3. CASE m = "STARTED"
    <2>1. "S" \in E /\ "M" \notin E
      <3>1. Pos[m] + 1 = 2 /\ MayBe(m) = Commands
        BY <1>3 DEF Pos, MayBe
      <3> QED BY <1>1, <3>1, CommandFacts
    <2> QED BY <1>3, <2>1 DEF Names, BadKeyword
  <1>4. CASE m = "PARAM"
    <2>1. "X" \in E /\ "M" \notin E
      <3>1. Pos[m] + 1 = 3 /\ MayBe(m) = {"mds_set_pid_x", "mds_set_pid_y"}
        BY <1>4 DEF Pos, MayBe
      <3> QED BY <1>1, <3>1
    <2> QED BY <1>4, <2>1 DEF Names, BadKeyword
  <1>5. CASE m \in {"PARAM_X", "PARAM_Y", "LOCATION"}
    <2>1. E = {"colon"}
      <3>1. CASE m = "PARAM_X"
        <4>1. Pos[m] + 1 = 4 /\ MayBe(m) = {"mds_set_pid_x"}
          BY <3>1 DEF Pos, MayBe, Immediate
        <4> QED BY <1>1, <4>1
      <3>2. CASE m = "PARAM_Y"
        <4>1. Pos[m] + 1 = 4 /\ MayBe(m) = {"mds_set_pid_y"}
          BY <3>2 DEF Pos, MayBe, Immediate
        <4> QED BY <1>1, <4>1
      <3>3. CASE m = "LOCATION"
        <4>1. Pos[m] + 1 = 3 /\ MayBe(m) = {"mds_set_location"}
          BY <3>3 DEF Pos, MayBe, Immediate
        <4> QED BY <1>1, <4>1
      <3> QED BY <1>5, <3>1, <3>2, <3>3
    <2> HIDE DEF E
    <2>2. Names(E, t) = "BAD_SEPARATOR"
      BY <2>1 DEF Names
    <2> QED BY <1>5, <2>2 DEF BadKeyword, E
  <1>6. m \in {"IDLE", "STARTED", "PARAM", "PARAM_X", "PARAM_Y", "LOCATION"}
    BY DEF BadKeyword
  <1> QED BY <1>2, <1>3, <1>4, <1>5, <1>6

\* A keyword, or something else in its place.
LEMMA KeywordMeans ==
    ASSUME GInv, NEW c \in Chars, Record(c), at = "loop", KeywordHandler(c)
    PROVE  GInv'
  <1> DEFINE m == serial_mode
             E == {Syntax[f][Pos[m] + 1] : f \in MayBe(m)}
  <1>1. IInv'
    BY KeywordIInv DEF GInv
  <1>2. /\ m \in DOMAIN BadKeyword /\ serial_buf' = serial_buf /\ at' = "loop"
        /\ fresh' = IF Begins(c) THEN {} ELSE fresh
    BY DEF KeywordHandler
  <1>3. serial_buf = << >> /\ m # "ERROR"
    BY <1>2, ModeFacts DEF GInv, IInv, Empty
  <1>4. /\ Text \in Seq(Tokens) /\ m \in Modes \ {"ERROR"}
        /\ Len(Text) = Place /\ Sequels(Text) = Possible
    BY <1>3, TextFacts
  <1>5. Pos[m] \in 0..10 /\ MayBe(m) \in SUBSET Commands
    BY <1>4, MayBeFacts
  <1>6. Len(Text) = Pos[m] /\ Sequels(Text) = Ways(MayBe(m))
    BY <1>3, <1>4, <1>5 DEF Place, Possible
  <1>7. \A f \in MayBe(m) : Len(Text) + 1 <= Len(Syntax[f])
    BY <1>2, <1>6, KeywordPlaces
  <1>8. /\ Follow(Text) = E
        /\ \A t \in Tokens :
              Sequels(Append(Text, t)) = Ways({f \in MayBe(m) : Syntax[f][Pos[m] + 1] = t})
    BY <1>4, <1>5, <1>6, <1>7, NextTokens
  <1> HIDE DEF E
  <1>9. CASE \E k \in Modes : /\ <<m, c, k>> \in Keyword
                              /\ serial_mode' = k /\ Silent(c) /\ UNCHANGED serial_error
    <2>1. PICK k \in Modes : <<m, c, k>> \in Keyword /\ serial_mode' = k /\ Silent(c)
      BY <1>9
    <2>2. c # "eol" /\ k \notin {"IDLE", "ERROR"}
      BY <1>4, <2>1, KeywordFacts
    <2>3. c \notin Figures
      BY <2>1 DEF Keyword, Figures
    <2>4. Class(c) = c /\ c \in Tokens
      BY <2>3, TokenFacts
    <2>5. Text' = Append(Text, c) /\ Len(Text') = Place + 1
      BY <1>3, <2>2, <2>3, <2>4, Added
    <2>6. Pos[k] = Pos[m] + 1 /\ MayBe(k) = {f \in MayBe(m) : Syntax[f][Pos[m] + 1] = c}
      BY <2>1, KeywordSteps
    <2>7. Sequels(Text') = Ways(MayBe(k))
      BY <1>8, <2>4, <2>5, <2>6
    <2>8. Len(Text') = Pos[k]
      BY <1>4, <1>6, <2>5, <2>6
    <2>9. Place' = Pos[k] /\ Possible' = Ways(MayBe(k))
      <3>1. Pos[k] \in 0..10
        BY <2>2, MayBeFacts
      <3> QED BY <1>2, <1>3, <2>1, <3>1 DEF Place, Possible
    <2>10. Situated'
      BY <2>7, <2>8, <2>9 DEF Situated
    <2> QED BY <1>1, <1>2, <2>1, <2>2, <2>10, Onward DEF GInv
  <1>10. CASE m = "IDLE" /\ c = "eol" /\ Silent(c) /\ UNCHANGED <<serial_mode, serial_error>>
    <2>1. ended /\ ~Begins(c)
      BY <1>10 DEF GInv, IInv, Modal, Begins
    <2>2. /\ line' = line /\ ended' = ended
          /\ executed' = executed /\ reply' = reply /\ result' = result
      BY <1>10, <2>1 DEF Record, Silent
    <2>3. Situated'
      BY <1>2, <1>3, <1>10, <2>1, <2>2, Started
    <2>4. Spelled'
      BY <1>2, <1>3, <1>10, <2>3 DEF Spelled
    <2>5. ExecutesCommandTable' /\ ReplyFits'
      BY <2>2 DEF GInv, ExecutesCommandTable, ReplyFits
    <2> QED BY <1>1, <2>4, <2>5 DEF GInv
  <1>11. CASE /\ ~(m = "IDLE" /\ c = "eol") /\ ~\E k \in Modes : <<m, c, k>> \in Keyword
              /\ serial_set_error(BadKeyword[m], c)
    <2>1. Class(c) \notin E
      <3> SUFFICES ASSUME NEW f \in MayBe(m), Class(c) = Syntax[f][Pos[m] + 1] PROVE FALSE
        BY DEF E
      <3>1. PICK k \in Modes : <<m, Class(c), k>> \in Keyword
        BY <1>2, KeywordPlaces
      <3>2. Class(c) # "digit"
        BY <3>1 DEF Keyword
      <3>3. Class(c) = c
        BY <3>2 DEF Class
      <3> QED BY <1>11, <3>1, <3>3
    <2>2. BadKeyword[m] = Names(E, Class(c)) /\ BadKeyword[m] \in Errors \ {"NONE"}
      BY <1>2, KeywordErrors, BadKeywordFacts DEF E
    <2> QED BY <1>1, <1>2, <1>3, <1>8, <1>11, <2>1, <2>2, Wrong
  <1> QED BY <1>9, <1>10, <1>11, Zenon DEF KeywordHandler

\* Where the line stands in a value of the command f: before its first figure,
\* behind some of a value that another one follows, behind some of a last value.
LEMMA FieldFacts ==
    ASSUME GInv, serial_mode \in Fields, at # "trailing", NEW f \in MayBe(serial_mode)
    PROVE  /\ f \in Commands /\ Possible = Spellings(f) /\ Pos[serial_mode] \in 0..10
           /\ Text \in Seq(Tokens) /\ Sequels(Text) = Spellings(f)
           /\ serial_buf = << >> =>
                 /\ Len(Text) = Pos[serial_mode] /\ Follow(Text) = {"digit"}
                 /\ Sequels(Append(Text, "digit")) = Spellings(f)
           /\ serial_buf # << >> =>
                 /\ Len(Text) = Pos[serial_mode] + 1
                 /\ serial_mode \in DOMAIN NextValue =>
                       /\ Follow(Text) = {"comma"}
                       /\ Sequels(Append(Text, "comma")) = Spellings(f)
                 /\ serial_mode \in DOMAIN LastValue =>
                       /\ Follow(Text) = {"comma", "eol"} /\ Means(Text, f)
                       /\ Sequels(Append(Text, "comma")) = {Comma(f)}
  <1> DEFINE m == serial_mode
             n == Pos[m]
             k == Len(Syntax[f])
  <1>1. m # "ERROR" /\ m \in Modes
    BY ModeFacts
  <1>2. /\ Text \in Seq(Tokens) /\ Len(Text) = Place /\ Sequels(Text) = Possible
    BY <1>1, TextFacts
  <1>3. n \in 0..10 /\ f \in Commands /\ k \in 2..11
    BY <1>1, MayBeFacts, SyntaxFacts
  <1>4. MayBe(m) = {f} /\ Syntax[f][n + 1] = "digit"
    <2>1. CASE m \in DOMAIN NextValue
      BY <2>1, FieldPlaces
    <2>2. CASE m \in DOMAIN LastValue
      <3>1. MayBe(m) = {LastValue[m]} /\ Syntax[LastValue[m]][Pos[m] + 1] = "digit"
        BY <2>2, FieldPlaces
      <3> QED BY <3>1
    <2> QED BY <2>1, <2>2 DEF Fields
  <1>5. /\ m \in DOMAIN NextValue => n + 2 <= k /\ Syntax[f][n + 2] = "comma"
        /\ m \in DOMAIN LastValue => f = LastValue[m] /\ FieldsOf[f] # {} /\ n + 1 = k
    <2>1. m \in DOMAIN LastValue => f = LastValue[m]
      BY <1>4, FieldPlaces
    <2> QED BY <2>1, FieldPlaces
  <1>6. Possible = Spellings(f) /\ Ways({f}) = Spellings(f)
    BY <1>4 DEF Possible, Ways
  <1>7. m \in DOMAIN NextValue \cup DOMAIN LastValue
    BY DEF Fields
  <1>8. ASSUME serial_buf = << >>
        PROVE  /\ Len(Text) = n /\ Follow(Text) = {"digit"}
               /\ Sequels(Append(Text, "digit")) = Spellings(f)
    <2>1. Len(Text) = n
      BY <1>2, <1>3, <1>8 DEF Place
    <2>2. n + 1 <= k
      <3> HIDE DEF n, k
      <3> QED BY <1>3, <1>5, <1>7
    <2>3. Follow(Text) = {Syntax[g][n + 1] : g \in {f}}
          /\ Sequels(Append(Text, "digit")) = Ways({g \in {f} : Syntax[g][n + 1] = "digit"})
      <3>1. Sequels(Text) = Ways({f}) /\ {f} \in SUBSET Commands /\ "digit" \in Tokens
        BY <1>2, <1>3, <1>6, TokenFacts
      <3>2. \A g \in {f} : Len(Text) + 1 <= Len(Syntax[g])
        BY <2>1, <2>2
      <3> QED BY <1>2, <2>1, <3>1, <3>2, NextTokens
    <2>4. {g \in {f} : Syntax[g][n + 1] = "digit"} = {f}
      BY <1>4
    <2> QED BY <1>4, <1>6, <2>1, <2>3, <2>4
  <1>9. ASSUME serial_buf # << >>
        PROVE  Len(Text) = n + 1
    BY <1>2, <1>9 DEF Place
  <1>10. ASSUME serial_buf # << >>, m \in DOMAIN NextValue
         PROVE  Follow(Text) = {"comma"} /\ Sequels(Append(Text, "comma")) = Spellings(f)
    <2>1. Len(Text) + 1 = n + 2
      BY <1>3, <1>9, <1>10
    <2>2. Follow(Text) = {Syntax[g][n + 2] : g \in {f}}
          /\ Sequels(Append(Text, "comma")) = Ways({g \in {f} : Syntax[g][n + 2] = "comma"})
      <3>1. Sequels(Text) = Ways({f}) /\ {f} \in SUBSET Commands /\ "comma" \in Tokens
        BY <1>2, <1>3, <1>6, TokenFacts
      <3>2. \A g \in {f} : Len(Text) + 1 <= Len(Syntax[g])
        BY <1>5, <1>10, <2>1
      <3> QED BY <1>2, <2>1, <3>1, <3>2, NextTokens
    <2>3. {g \in {f} : Syntax[g][n + 2] = "comma"} = {f}
      BY <1>5, <1>10
    <2> QED BY <1>5, <1>6, <1>10, <2>2, <2>3
  <1>11. ASSUME serial_buf # << >>, m \in DOMAIN LastValue
         PROVE  /\ Follow(Text) = {"comma", "eol"} /\ Means(Text, f)
                /\ Sequels(Append(Text, "comma")) = {Comma(f)}
    <2>1. Len(Text) = Len(Syntax[f]) /\ FieldsOf[f] # {}
      BY <1>5, <1>9, <1>11
    <2> QED BY <1>2, <1>3, <1>6, <2>1, NextIsEnd
  <1> QED BY <1>2, <1>3, <1>6, <1>8, <1>9, <1>10, <1>11

\* A value is not complete yet: a digit more, or an error.
LEMMA UnfinishedMeans ==
    ASSUME GInv, NEW c \in Chars, Record(c), at = "loop", serial_mode \in Fields,
           c \in Figures => Len(serial_buf) < MaxDigits,
           Unfinished(c), at' = at
    PROVE  GInv'
  <1> DEFINE m == serial_mode
  <1>1. IInv'
    BY UnfinishedIInv DEF GInv
  <1>2. m # "ERROR" /\ m # "IDLE" /\ m \in Modes
    BY ModeFacts
  <1>3. PICK f \in MayBe(m) : TRUE
    BY <1>2, MayBeFacts
  <1>4. MayBe(m) = {f}
    <2>1. CASE m \in DOMAIN NextValue
      BY <2>1, FieldPlaces
    <2>2. CASE m \in DOMAIN LastValue
      BY <2>2, FieldPlaces
    <2> QED BY <2>1, <2>2 DEF Fields
  <1>5. /\ f \in Commands /\ Possible = Spellings(f) /\ Pos[m] \in 0..10
        /\ Text \in Seq(Tokens) /\ Sequels(Text) = Spellings(f)
        /\ serial_buf = << >> =>
              /\ Len(Text) = Pos[m] /\ Follow(Text) = {"digit"}
              /\ Sequels(Append(Text, "digit")) = Spellings(f)
        /\ serial_buf # << >> =>
              /\ Len(Text) = Pos[m] + 1
              /\ Follow(Text) \in {{"comma"}, {"comma", "eol"}}
    BY FieldFacts DEF Fields
  <1>6. CASE serial_read_float_Digit(c)
    <2>1. /\ c \in Figures /\ serial_buf' = Append(serial_buf, c) /\ Silent(c)
          /\ serial_mode' = m
      BY <1>6 DEF serial_read_float_Digit
    <2>2. c # "eol" /\ Class(c) = "digit" /\ serial_buf' # << >>
      <3>1. serial_buf \in Seq(Figures)
        BY DEF GInv, IInv, TypeOK
      <3> QED BY <2>1, <3>1 DEF Figures, Class
    <2>3. Len(Text') = Pos[m] + 1 /\ Sequels(Text') = Spellings(f)
      <3>1. CASE serial_buf = << >>
        <4>1. Text' = Append(Text, "digit") /\ Len(Text') = Place + 1
          BY <1>2, <2>1, <2>2, <3>1, Added
        <4>2. Place = Pos[m]
          BY <1>5, <3>1 DEF Place
        <4> QED BY <1>5, <3>1, <4>1, <4>2
      <3>2. CASE serial_buf # << >>
        <4>1. Text' = Text
          BY <2>1, <3>2, Continued
        <4> QED BY <1>5, <3>2, <4>1
      <3> QED BY <3>1, <3>2
    <2>4. Place' = Pos[m] + 1 /\ Possible' = Spellings(f)
      BY <1>4, <2>1, <2>2 DEF Place, Possible, Ways
    <2>5. Situated'
      BY <2>3, <2>4 DEF Situated
    <2> QED BY <1>1, <1>2, <2>1, <2>2, <2>5, Onward DEF GInv
  <1>7. CASE serial_read_float_Empty(c)
    <2>1. /\ c \in {"comma", "eol"} /\ serial_buf = << >> /\ serial_buf' = << >>
          /\ serial_set_error("PARSE_VALUE", c)
      BY <1>7 DEF serial_read_float_Empty
    <2>2. Class(c) = c
      BY <2>1 DEF Class, Figures
    <2>3. Class(c) \notin Follow(Text) /\ Names(Follow(Text), Class(c)) = "PARSE_VALUE"
      <3>1. Follow(Text) = {"digit"}
        BY <1>5, <2>1
      <3> QED BY <2>1, <2>2, <3>1 DEF Names
    <2> QED BY <1>1, <1>2, <2>1, <2>3, ErrorFacts, Wrong
  <1>8. CASE serial_read_float_Bad(c)
    <2>1. /\ c \notin Figures \cup {"comma", "eol"} /\ serial_buf' = << >>
          /\ serial_set_error("BAD_SEPARATOR", c)
      BY <1>8 DEF serial_read_float_Bad
    <2>2. Class(c) = c /\ Class(c) # "digit"
      BY <2>1, TokenFacts
    <2>3. Class(c) \notin Follow(Text) /\ Names(Follow(Text), Class(c)) = "BAD_SEPARATOR"
      <3>1. Follow(Text) \in {{"digit"}, {"comma"}, {"comma", "eol"}}
        BY <1>5
      <3>2. CASE Follow(Text) = {"digit"}
        BY <2>1, <2>2, <3>2 DEF Names
      <3>3. CASE Follow(Text) = {"comma"}
        BY <2>1, <2>2, <3>3 DEF Names
      <3>4. CASE Follow(Text) = {"comma", "eol"}
        <4>1. {"comma", "eol"} # {"eol"}
          OBVIOUS
        <4> QED BY <2>1, <2>2, <3>4, <4>1 DEF Names
      <3> QED BY <3>1, <3>2, <3>3, <3>4
    <2> QED BY <1>1, <1>2, <2>1, <2>3, ErrorFacts, Wrong
  <1> QED BY <1>6, <1>7, <1>8 DEF Unfinished

\* A value that another one follows.
LEMMA ValueMeans ==
    ASSUME GInv, NEW c \in Chars, Record(c), at = "loop", ValueHandler(c),
           c \in Figures => Len(serial_buf) < MaxDigits
    PROVE  GInv'
  <1> DEFINE m == serial_mode
  <1>1. IInv'
    BY ValueIInv DEF GInv
  <1>2. m \in DOMAIN NextValue /\ m \in Fields /\ at' = at
    BY DEF ValueHandler, Fields
  <1>3. m # "ERROR" /\ m # "IDLE" /\ m \in Modes
    BY <1>2, ModeFacts
  <1>4. CASE Unfinished(c)
    BY <1>2, <1>4, UnfinishedMeans
  <1>5. CASE Finished(c) /\ ~Unfinished(c)
    <2>1. serial_buf # << >> /\ serial_buf' = << >>
      BY <1>5 DEF Finished
    <2>2. PICK f \in MayBe(m) : TRUE
      BY <1>3, MayBeFacts
    <2>3. /\ Text \in Seq(Tokens) /\ Len(Text) = Pos[m] + 1 /\ Follow(Text) = {"comma"}
          /\ Sequels(Append(Text, "comma")) = Spellings(f) /\ Pos[m] \in 0..10
      BY <1>2, <2>1, FieldFacts
    <2>4. CASE c = "comma" /\ serial_mode' = NextValue[m] /\ Silent(c) /\ UNCHANGED serial_error
      <3>1. Class(c) = "comma" /\ c \notin Figures
        BY <2>4 DEF Class, Figures
      <3>2. Text' = Append(Text, "comma") /\ Len(Text') = Place + 1
        BY <1>3, <2>4, <3>1, Added
      <3>3. Pos[NextValue[m]] = Pos[m] + 2 /\ MayBe(NextValue[m]) = {f} /\ NextValue[m] \in Fields
        BY <1>2, FieldPlaces, NextFacts
      <3>4. Place = Pos[m] + 1
        BY <2>1, <1>2 DEF Place
      <3>5. Place' = Pos[m] + 2 /\ Possible' = Spellings(f)
        BY <1>2, <2>1, <2>3, <2>4, <3>3 DEF Place, Possible, Ways
      <3>6. Situated'
        BY <2>3, <3>2, <3>4, <3>5 DEF Situated
      <3>7. serial_mode' # "ERROR"
        BY <2>4, <3>3, ModeFacts
      <3> QED BY <1>1, <1>2, <2>4, <3>6, <3>7, Onward DEF GInv
    <2>5. CASE c = "eol" /\ serial_set_error("BAD_SEPARATOR", c)
      <3>1. Class(c) = "eol" /\ c \notin Figures
        BY <2>5 DEF Class, Figures
      <3>2. Names({"comma"}, "eol") = "BAD_SEPARATOR"
        BY DEF Names
      <3> QED BY <1>1, <1>2, <1>3, <2>1, <2>3, <2>5, <3>1, <3>2, ErrorFacts, Wrong
    <2> QED BY <1>5, <2>4, <2>5 DEF ValueHandler
  <1> QED BY <1>4, <1>5 DEF ValueHandler

\* The last value of a line.
LEMMA LastValueMeans ==
    ASSUME GInv, NEW c \in Chars, Record(c), at = "loop", LastValueHandler(c),
           c \in Figures => Len(serial_buf) < MaxDigits
    PROVE  GInv'
  <1> DEFINE m == serial_mode
  <1>1. IInv'
    BY LastValueIInv DEF GInv
  <1>2. m \in DOMAIN LastValue /\ m \in Fields
    BY DEF LastValueHandler, Fields
  <1>3. m # "ERROR" /\ m # "IDLE" /\ m \in Modes
    BY <1>2, ModeFacts
  <1>4. CASE Unfinished(c) /\ UNCHANGED at
    BY <1>2, <1>4, UnfinishedMeans
  <1>5. CASE Finished(c) /\ ~(Unfinished(c) /\ UNCHANGED at)
    <2> DEFINE f == LastValue[m]
    <2>1. serial_buf # << >> /\ serial_buf' = << >>
      BY <1>5 DEF Finished
    <2>2. MayBe(m) = {f} /\ f \in Commands
      BY <1>2, FieldPlaces, LastFacts
    <2>3. /\ Text \in Seq(Tokens) /\ Len(Text) = Pos[m] + 1 /\ Means(Text, f)
          /\ Sequels(Append(Text, "comma")) = {Comma(f)} /\ Pos[m] \in 0..10
      BY <1>2, <2>1, <2>2, FieldFacts
    <2>4. CASE /\ c = "comma" /\ at' = "trailing" /\ Silent(c)
               /\ UNCHANGED <<serial_mode, serial_error>>
      <3>1. Class(c) = "comma" /\ c \notin Figures
        BY <2>4 DEF Class, Figures
      <3>2. Text' = Append(Text, "comma") /\ Len(Text') = Place + 1
        BY <1>3, <2>4, <3>1, Added
      <3>3. Place = Pos[m] + 1
        BY <2>1 DEF Place
      <3>4. Place' = Pos[m] + 2 /\ Possible' = {Comma(f)}
        BY <2>4 DEF Place, Possible
      <3>5. Situated'
        BY <2>3, <3>2, <3>3, <3>4 DEF Situated
      <3> QED BY <1>1, <1>3, <2>4, <3>5, Onward DEF GInv
    <2>5. CASE c = "eol" /\ Execute(f) /\ UNCHANGED at
      <3>1. Text = line
        BY <1>3 DEF Text, GInv, IInv, Modal
      <3> QED BY <1>1, <1>3, <2>1, <2>2, <2>3, <2>5, <3>1, Done
    <2> QED BY <1>5, <2>4, <2>5 DEF LastValueHandler
  <1> QED BY <1>4, <1>5 DEF LastValueHandler

\* The character that the handler of a last value reads behind a comma.
LEMMA TrailingMeans ==
    ASSUME GInv, NEW c \in Chars, Record(c), at = "trailing", TrailingRead(c)
    PROVE  GInv'
  <1> DEFINE m == serial_mode
             f == LastValue[m]
             k == Len(Syntax[f])
  <1>1. IInv'
    BY TrailingIInv DEF GInv
  <1>2. m \in DOMAIN LastValue /\ serial_buf = << >>
    BY DEF GInv, IInv, Modal, Empty
  <1>3. m # "ERROR" /\ m # "IDLE" /\ m \in Modes
    BY <1>2, ModeFacts
  <1>4. at' = "loop" /\ serial_buf' = << >>
    BY <1>2 DEF TrailingRead
  <1>5. /\ f \in Commands /\ FieldsOf[f] # {} /\ Pos[m] + 1 = k /\ Pos[m] \in 0..10
    BY <1>2, <1>3, LastFacts, FieldPlaces, MayBeFacts
  <1>6. Text \in Seq(Tokens) /\ Len(Text) = Place /\ Sequels(Text) = {Comma(f)}
    BY <1>3, TextFacts DEF Possible
  <1>7. Len(Text) = k + 1
    <2>1. Place = Pos[m] + 2
      BY DEF Place
    <2> HIDE DEF k
    <2> QED BY <1>5, <1>6, <2>1
  <1>8. Follow(Text) = {"eol"} /\ Means(Text, f)
    BY <1>5, <1>6, <1>7, NextIsOnlyEnd
  <1>9. CASE c = "eol" /\ Execute(f)
    <2>1. Text = line
      BY <1>3 DEF Text, GInv, IInv, Modal
    <2> QED BY <1>1, <1>3, <1>4, <1>5, <1>8, <1>9, <2>1, Done
  <1>10. CASE c # "eol" /\ serial_set_error("TRAILING_CHARS", c)
    <2>1. Class(c) # "eol"
      BY <1>10 DEF Class
    <2>2. Names({"eol"}, Class(c)) = "TRAILING_CHARS"
      BY DEF Names
    <2> QED BY <1>1, <1>2, <1>3, <1>4, <1>8, <1>10, <2>1, <2>2, ErrorFacts, Wrong
  <1> QED BY <1>9, <1>10 DEF TrailingRead

\* The end of a command without values, or something else in its place.
LEMMA ImmediateMeans ==
    ASSUME GInv, NEW c \in Chars, Record(c), at = "loop", ImmediateHandler(c)
    PROVE  GInv'
  <1> DEFINE m == serial_mode
             f == Immediate[m]
  <1>1. IInv'
    BY ImmediateIInv DEF GInv
  <1>2. m \in DOMAIN Immediate /\ serial_buf' = serial_buf /\ at' = at
    BY DEF ImmediateHandler
  <1>3. m # "ERROR" /\ m # "IDLE" /\ m \in Modes /\ serial_buf = << >>
    BY <1>2, ModeFacts DEF GInv, IInv, Empty
  <1>4. /\ f \in Commands /\ FieldsOf[f] = {} /\ MayBe(m) = {f}
        /\ Pos[m] = Len(Syntax[f]) /\ Pos[m] \in 0..10
    BY <1>2, <1>3, ImmediateFacts, ImmediatePlaces, MayBeFacts
  <1>5. Text \in Seq(Tokens) /\ Len(Text) = Place /\ Sequels(Text) = Possible
    BY <1>3, TextFacts
  <1>6. Len(Text) = Len(Syntax[f]) /\ Sequels(Text) = Spellings(f)
    <2>1. Place = Pos[m] /\ Possible = Spellings(f)
      BY <1>3, <1>4 DEF Place, Possible, Ways
    <2> QED BY <1>4, <1>5, <2>1
  <1>7. Follow(Text) = {"eol"} /\ Means(Text, f)
    BY <1>4, <1>5, <1>6, NextIsEnd
  <1>8. CASE c = "eol" /\ Execute(f)
    <2>1. Text = line
      BY <1>3 DEF Text, GInv, IInv, Modal
    <2> QED BY <1>1, <1>2, <1>3, <1>4, <1>7, <1>8, <2>1, Done
  <1>9. CASE c # "eol" /\ serial_set_error("TRAILING_CHARS", c)
    <2>1. Class(c) # "eol"
      BY <1>9 DEF Class
    <2>2. Names({"eol"}, Class(c)) = "TRAILING_CHARS"
      BY DEF Names
    <2> QED BY <1>1, <1>2, <1>3, <1>7, <1>9, <2>1, <2>2, ErrorFacts, Wrong
  <1> QED BY <1>8, <1>9 DEF ImmediateHandler

\* The rest of a line with an error.
LEMMA ErrorMeans ==
    ASSUME GInv, NEW c \in Chars, Record(c), at = "loop", serial_mode_error_handler(c)
    PROVE  GInv'
  <1>1. IInv'
    BY ErrorHandlerIInv DEF GInv
  <1>2. /\ serial_mode = "ERROR" /\ serial_buf' = serial_buf /\ at' = "loop"
    BY DEF serial_mode_error_handler
  <1>3. /\ ~ended /\ executed = "none" /\ serial_buf = << >>
        /\ Meaning(line) = "none" /\ serial_error = Fault(line)
    BY <1>2, ModeFacts DEF GInv, IInv, Modal, Answered, Empty, Spelled
  <1>4. line' = line /\ ended' = (c = "eol")
    BY <1>2, <1>3 DEF Record, Begins
  <1>5. CASE c = "eol"
    <2>1. reply' = serial_error /\ serial_mode' = "IDLE" /\ executed' = "none"
      BY <1>3, <1>5 DEF serial_mode_error_handler, Answer
    <2>2. Situated'
      BY <1>2, <1>3, <1>4, <1>5, <2>1, Started
    <2> QED BY <1>1, <1>2, <1>3, <1>4, <1>5, <2>1, <2>2
            DEF GInv, Spelled, ExecutesCommandTable, ReplyFits
  <1>6. CASE c # "eol"
    <2>1. serial_mode' = "ERROR" /\ serial_error' = serial_error /\ executed' = "none"
      <3>1. Silent(c) /\ serial_mode' = serial_mode /\ serial_error' = serial_error
        BY <1>6 DEF serial_mode_error_handler
      <3> QED BY <1>2, <1>6, <3>1, SilentFacts DEF GInv
    <2> QED BY <1>1, <1>2, <1>3, <1>4, <1>6, <2>1
            DEF GInv, Spelled, ExecutesCommandTable, ReplyFits
  <1> QED BY <1>5, <1>6

-----------------------------------------------------------------------------
\* After every character the mode is where the line stands among the sentences of
\* the table, or the error is that of the line.
THEOREM ModeIsPlaceInSentence ==
    Spec => []GInv
  <1>1. Init => GInv
    <2> SUFFICES ASSUME Init PROVE GInv
      OBVIOUS
    <2>1. IInv
      BY InitIInv
    <2>2. Situated
      BY Started DEF Init
    <2> QED BY <2>1, <2>2 DEF Init, GInv, Spelled, ExecutesCommandTable, ReplyFits
  <1>2. GInv /\ [Next]_vars => GInv'
    <2> SUFFICES ASSUME GInv, [Next]_vars PROVE GInv'
      OBVIOUS
    <2>1. CASE UNCHANGED vars
      <3>1. IInv'
        BY <2>1, NextIInv DEF GInv
      <3>2. Situated' = Situated
        BY <2>1 DEF vars, history, Situated, Text, Place, Possible
      <3> QED BY <2>1, <3>1, <3>2
              DEF vars, history, GInv, Spelled, ExecutesCommandTable, ReplyFits
    <2>2. CASE PowerOn
      <3>1. IInv'
        BY <2>2, NextIInv DEF GInv, Next
      <3>2. serial_mode = "IDLE" /\ ended /\ line = << >> /\ serial_buf = << >>
        BY <2>2, ModeFacts DEF PowerOn, GInv, IInv, Modal, Empty, Spelled
      <3>3. Situated'
        BY <2>2, <3>2, Started DEF PowerOn
      <3> QED BY <2>2, <3>1, <3>2, <3>3
              DEF PowerOn, GInv, Spelled, ExecutesCommandTable, ReplyFits
    <2>3. CASE Reset
      <3>1. IInv'
        BY <2>3, NextIInv DEF GInv, Next
      <3>2. Situated'
        BY <2>3, Started DEF Reset
      <3> QED BY <2>3, <3>1, <3>2 DEF Reset, GInv, Spelled, ExecutesCommandTable, ReplyFits
    <2>4. ASSUME NEW c \in Chars, Get(c) PROVE GInv'
      BY <2>4, KeywordMeans, ValueMeans, LastValueMeans, ImmediateMeans, ErrorMeans,
         TrailingMeans DEF Get, Handler
    <2> QED BY <2>1, <2>2, <2>3, <2>4 DEF Next
  <1> QED BY <1>1, <1>2, PTL DEF Spec

\* Whatever is received, a line is carried out exactly when the table of commands
\* has it, and as that command, where a number is any run of digits and points
\* that serial_read_float takes (main.c:806), and not what README.md:38 requires.
THEOREM LinesMeanWhatTheTableSays ==
    Spec => []ExecutesCommandTable
  <1>1. GInv => ExecutesCommandTable
    BY DEF GInv
  <1> QED BY <1>1, ModeIsPlaceInSentence, PTL

\* The answer to a command is that of the driver, and the answer to any other line
\* names what is wrong where the line leaves the sentences of the table.
THEOREM AnswersNameTheFault ==
    Spec => []ReplyFits
  <1>1. GInv => ReplyFits
    BY DEF GInv
  <1> QED BY <1>1, ModeIsPlaceInSentence, PTL

\* A text of digits and at most one point has the value that it means exactly if
\* the weights of its digits fit (main.c:917): ValueIsMeant in every state.
THEOREM TextsHaveTheirValue == Spec => []ValueIsMeant
  <1>1. TypeOK => ValueIsMeant
    <2>1. TypeOK => serial_buf \in Texts
      BY DEF TypeOK, Texts, Figures
    <2> QED BY <2>1, NumeralsHaveTheirValue DEF ValueIsMeant
  <1> QED BY <1>1, TypeCorrectness, PTL
=============================================================================
