---------------------------- MODULE SerialProofs ----------------------------
(***************************************************************************)
(* Proofs about Serial, and about string_to_float, for values of any       *)
(* number of digits.                                                       *)
(***************************************************************************)
EXTENDS Serial, StringToFloat, SequenceTheorems, WellFoundedInduction, TLAPS

\* The values that come before one in its line.
Before == [PARAM_X_P |-> {}, PARAM_X_I |-> {"PARAM_X_P"},
           PARAM_X_D |-> {"PARAM_X_P", "PARAM_X_I"},
           PARAM_X_S |-> {"PARAM_X_P", "PARAM_X_I", "PARAM_X_D"},
           PARAM_Y_P |-> {}, PARAM_Y_I |-> {"PARAM_Y_P"},
           PARAM_Y_D |-> {"PARAM_Y_P", "PARAM_Y_I"},
           PARAM_Y_S |-> {"PARAM_Y_P", "PARAM_Y_I", "PARAM_Y_D"},
           LOCATION_X |-> {}, LOCATION_Y |-> {"LOCATION_X"}]

\* The line has ended exactly in mode IDLE, and there is an error exactly in
\* mode ERROR.
Modal ==
    /\ serial_mode = "IDLE" <=> ended
    /\ serial_error # "NONE" <=> serial_mode = "ERROR"
    /\ at = "flush" => serial_mode = "IDLE"
    /\ at = "trailing" => serial_mode \in DOMAIN LastValue

Empty == serial_mode \notin Fields \/ at = "trailing" => serial_buf = << >>

\* The answer to a line comes with its end, and no command is carried out before.
Answered == OneAnswerPerLine /\ (~ended => executed = "none")

\* The values that have come before are of this line.
Filled ==
    /\ serial_mode \in Fields => Before[serial_mode] \subseteq fresh
    /\ at = "trailing" => FieldsOf[LastValue[serial_mode]] \subseteq fresh
    /\ ended /\ executed # "none" => FieldsOf[executed] \subseteq fresh

IInv == TypeOK /\ Modal /\ Empty /\ Answered /\ Filled

\* What TypeOK says of the history of the answers.
Replies == Errors \cup {"none", "MO", "MA", "MI"}
MdsErrors == {mds_err_t[i] : i \in DOMAIN mds_err_t}
AnswersOK == reply \in Replies /\ result \in MdsErrors /\ answers \in Nat

-----------------------------------------------------------------------------
\* Which modes are fields, which fields come before others, and what a command
\* is given.
LEMMA ModeFacts ==
    /\ Fields \subseteq Modes /\ DOMAIN Immediate \subseteq Modes
    /\ {"IDLE", "ERROR"} \subseteq Modes
    /\ {"IDLE", "ERROR"} \cap (Fields \cup DOMAIN Immediate) = {}
    /\ "ERROR" \notin DOMAIN BadKeyword /\ DOMAIN BadKeyword \cap Fields = {}
    /\ DOMAIN Immediate \cap Fields = {} /\ DOMAIN LastValue \subseteq Fields
    /\ DOMAIN NextValue \cap DOMAIN LastValue = {}
  BY DEF Fields, Modes, NextValue, LastValue, Immediate, BadKeyword

\* A value that another follows adds its field to those before the next.
LEMMA NextFacts ==
    ASSUME NEW m \in DOMAIN NextValue
    PROVE  NextValue[m] \in Fields /\ Before[NextValue[m]] = Before[m] \cup {m}
  BY DEF Fields, NextValue, LastValue, Before

\* The last value completes the fields of its command.
LEMMA LastFacts ==
    ASSUME NEW m \in DOMAIN LastValue
    PROVE  LastValue[m] \in Commands /\ FieldsOf[LastValue[m]] = Before[m] \cup {m}
  BY DEF LastValue, Before, Commands, FieldsOf

\* A command without values has no fields.
LEMMA ImmediateFacts ==
    ASSUME NEW m \in DOMAIN Immediate
    PROVE  Immediate[m] \in Commands /\ FieldsOf[Immediate[m]] = {}
  BY DEF Immediate, Commands, FieldsOf

\* A keyword leads from a mode that is waited in to another one, of which a value
\* is the first of its line.
LEMMA KeywordFacts ==
    ASSUME NEW m \in Modes, NEW n \in Modes, NEW c, <<m, c, n>> \in Keyword
    PROVE  /\ c # "eol" /\ n \notin {"IDLE", "ERROR"}
           /\ n \in Fields => Before[n] = {}
  BY DEF Keyword, Fields, NextValue, LastValue, Before

\* Every error of a keyword is an error.
LEMMA BadKeywordFacts ==
    ASSUME NEW m \in DOMAIN BadKeyword
    PROVE  BadKeyword[m] \in Errors \ {"NONE"}
  <1>1. {"BAD_START", "BAD_MSG_TYPE", "BAD_SEPARATOR"} \subseteq Errors \ {"NONE"}
    BY DEF Errors, serial_error_t
  <1> QED BY <1>1 DEF BadKeyword

\* The errors that are not of the driver.
LEMMA ErrorFacts ==
    {"PARSE_VALUE", "BAD_SEPARATOR", "TRAILING_CHARS"} \subseteq Errors \ {"NONE"}
  BY DEF Errors, serial_error_t

-----------------------------------------------------------------------------
(* What the handlers are made of *)

\* The history of a line.
LEMMA RecordFacts ==
    ASSUME IInv, NEW c \in Chars, Record(c)
    PROVE  ended' = (c = "eol") /\ line' \in Seq({Class(d) : d \in Chars})
  <1>1. Class(c) \in {Class(d) : d \in Chars}
    OBVIOUS
  <1>2. line \in Seq({Class(d) : d \in Chars})
    BY DEF IInv, TypeOK
  <1>3. line' \in {<<Class(c)>>, line, Append(line, Class(c))}
    BY Zenon DEF Record
  <1>4. <<Class(c)>> \in Seq({Class(d) : d \in Chars})
    BY <1>1
  <1>5. Append(line, Class(c)) \in Seq({Class(d) : d \in Chars})
    BY <1>1, <1>2, AppendProperties
  <1> QED BY <1>2, <1>3, <1>4, <1>5 DEF Record

\* A character that is taken in silence, in the middle of a line or as its first.
LEMMA SilentFacts ==
    ASSUME IInv, NEW c, c # "eol", Silent(c)
    PROVE  answers' = 0 /\ executed' = "none" /\ reply' \in Replies /\ result' \in MdsErrors
  <1>1. "SUCCESS" \in MdsErrors
    BY DEF MdsErrors, mds_err_t
  <1>2. reply \in Replies /\ result \in MdsErrors
    BY DEF IInv, TypeOK, Replies, MdsErrors
  <1>3. ~ended => answers = 0 /\ executed = "none"
    BY DEF IInv, Answered, OneAnswerPerLine
  <1> QED BY <1>1, <1>2, <1>3 DEF Silent, Begins, Replies

\* An error is answered at the end of the line, or waits for it.
LEMMA SetErrorFacts ==
    ASSUME IInv, NEW c, NEW e \in Errors \ {"NONE"}, serial_set_error(e, c),
           c = "eol" => ~ended
    PROVE  /\ answers' = (IF c = "eol" THEN 1 ELSE 0) /\ executed' = "none"
           /\ reply' \in Replies /\ result' \in MdsErrors
           /\ serial_mode' = (IF c = "eol" THEN "IDLE" ELSE "ERROR")
           /\ serial_error' = (IF c = "eol" THEN "NONE" ELSE e)
  <1>1. CASE c = "eol"
    <2>1. answers = 0 /\ executed = "none"
      BY <1>1 DEF IInv, Answered, OneAnswerPerLine
    <2>2. reply' = e /\ answers' = answers + 1 /\ executed' = executed /\ result' = result
          /\ serial_mode' = "IDLE" /\ serial_error' = "NONE"
      BY <1>1 DEF serial_set_error, Answer
    <2> QED BY <1>1, <2>1, <2>2 DEF IInv, TypeOK, Replies, MdsErrors
  <1>2. CASE c # "eol"
    <2>1. serial_mode' = "ERROR" /\ serial_error' = e /\ Silent(c)
      BY <1>2 DEF serial_set_error
    <2> QED BY <1>2, <2>1, SilentFacts
  <1> QED BY <1>1, <1>2

\* A command is answered once.
LEMMA ExecuteFacts ==
    ASSUME IInv, NEW f \in Commands, Execute(f), ~ended
    PROVE  /\ answers' = 1 /\ executed' = f
           /\ reply' \in Replies /\ result' \in MdsErrors
           /\ serial_mode' = "IDLE" /\ serial_error' = "NONE"
  <1>1. PICK i \in DOMAIN mds_err_t :
            /\ executed' = f /\ result' = mds_err_t[i]
            /\ Answer(IF serial_error_t[i] # "NONE" THEN serial_error_t[i]
                      ELSE IF f = "mds_stop_calibration" THEN "MI" ELSE "MA")
            /\ serial_mode' = "IDLE" /\ serial_error' = "NONE"
    BY Zenon DEF Execute
  <1>2. serial_error_t[i] \in Errors
    <2>1. i \in DOMAIN serial_error_t
      BY DEF mds_err_t, serial_error_t
    <2> QED BY <2>1 DEF Errors
  <1>3. answers = 0
    BY DEF IInv, Answered, OneAnswerPerLine
  <1> QED BY <1>1, <1>2, <1>3 DEF Answer, Replies, MdsErrors

-----------------------------------------------------------------------------
(* The handlers, of a character that has been recorded *)

\* A keyword, or something else in its place.
LEMMA KeywordIInv ==
    ASSUME IInv, NEW c \in Chars, Record(c), at = "loop", KeywordHandler(c)
    PROVE  IInv'
  <1> USE DEF IInv
  <1>1. ended' = (c = "eol") /\ line' \in Seq({Class(d) : d \in Chars})
    BY RecordFacts
  <1>2. /\ serial_mode \in DOMAIN BadKeyword /\ serial_mode \in Modes
        /\ serial_buf' = serial_buf /\ at' = "loop"
        /\ fresh' = IF Begins(c) THEN {} ELSE fresh
    BY DEF KeywordHandler, TypeOK
  <1>3. serial_buf = << >> /\ serial_mode # "ERROR" /\ serial_error = "NONE"
    BY <1>2, ModeFacts DEF Empty, Modal
  <1>4. fresh' \subseteq Fields
    BY <1>2 DEF TypeOK
  <1>5. "NONE" \in Errors
    BY DEF TypeOK, Errors, serial_error_t
  <1>6. CASE \E m \in Modes : /\ <<serial_mode, c, m>> \in Keyword
                              /\ serial_mode' = m /\ Silent(c) /\ UNCHANGED serial_error
    <2>1. PICK m \in Modes : /\ <<serial_mode, c, m>> \in Keyword
                             /\ serial_mode' = m /\ Silent(c) /\ UNCHANGED serial_error
      BY <1>6
    <2>2. c # "eol" /\ m \notin {"IDLE", "ERROR"} /\ (m \in Fields => Before[m] = {})
      BY <1>2, <2>1, KeywordFacts
    <2>3. answers' = 0 /\ executed' = "none" /\ reply' \in Replies /\ result' \in MdsErrors
      BY <2>1, <2>2, SilentFacts
    <2>4. TypeOK'
      BY <1>1, <1>2, <1>4, <2>1, <2>3 DEF TypeOK, Replies, MdsErrors
    <2> QED BY <1>1, <1>2, <1>3, <2>1, <2>2, <2>3, <2>4
            DEF Modal, Empty, Answered, OneAnswerPerLine, Filled
  <1>7. CASE serial_mode = "IDLE" /\ c = "eol" /\ Silent(c) /\ UNCHANGED <<serial_mode, serial_error>>
    <2>1. ended /\ ~Begins(c)
      BY <1>7 DEF Modal, Begins
    <2>2. /\ fresh' = fresh /\ serial_mode' = serial_mode /\ serial_error' = serial_error
          /\ answers' = answers /\ reply' = reply /\ executed' = executed /\ result' = result
      BY <1>2, <1>7, <2>1 DEF Silent
    <2>3. TypeOK'
      BY <1>1, <1>2, <2>2 DEF TypeOK
    <2> QED BY <1>1, <1>2, <1>3, <1>7, <2>1, <2>2, <2>3, ModeFacts
            DEF Modal, Empty, Answered, OneAnswerPerLine, Filled
  <1>8. CASE ~(serial_mode = "IDLE" /\ c = "eol") /\ serial_set_error(BadKeyword[serial_mode], c)
    <2>1. c = "eol" => ~ended
      BY <1>8 DEF Modal
    <2>2. /\ answers' = (IF c = "eol" THEN 1 ELSE 0) /\ executed' = "none"
          /\ reply' \in Replies /\ result' \in MdsErrors
          /\ serial_mode' = (IF c = "eol" THEN "IDLE" ELSE "ERROR")
          /\ serial_error' = (IF c = "eol" THEN "NONE" ELSE BadKeyword[serial_mode])
          /\ BadKeyword[serial_mode] \in Errors \ {"NONE"}
      BY <1>2, <1>8, <2>1, SetErrorFacts, BadKeywordFacts
    <2>3. TypeOK'
      BY <1>1, <1>2, <1>4, <1>5, <2>2, ModeFacts DEF TypeOK, Replies, MdsErrors
    <2> QED BY <1>1, <1>2, <1>3, <2>2, <2>3, ModeFacts
            DEF Modal, Empty, Answered, OneAnswerPerLine, Filled
  <1> QED BY <1>6, <1>7, <1>8, Zenon DEF KeywordHandler

\* An error in place of a value, or behind one, as long as no digit is left.
LEMMA ErrorIInv ==
    ASSUME IInv, NEW c \in Chars, Record(c), NEW e \in Errors \ {"NONE"}, serial_set_error(e, c),
           serial_mode # "IDLE", serial_buf' = << >>, at' = "loop", fresh' \subseteq Fields
    PROVE  IInv'
  <1> USE DEF IInv
  <1>1. ended' = (c = "eol") /\ line' \in Seq({Class(d) : d \in Chars})
    BY RecordFacts
  <1>2. ~ended
    BY DEF Modal
  <1>3. /\ answers' = (IF c = "eol" THEN 1 ELSE 0) /\ executed' = "none"
        /\ reply' \in Replies /\ result' \in MdsErrors
        /\ serial_mode' = (IF c = "eol" THEN "IDLE" ELSE "ERROR")
        /\ serial_error' = (IF c = "eol" THEN "NONE" ELSE e)
    BY <1>2, SetErrorFacts
  <1>4. "NONE" \in Errors
    BY DEF Errors, serial_error_t
  <1>5. Len(serial_buf') <= MaxDigits /\ serial_buf' \in Seq(Figures)
    BY MaxDigitsAssumption
  <1>6. TypeOK'
    BY <1>1, <1>3, <1>4, <1>5, ModeFacts DEF TypeOK, Replies, MdsErrors
  <1> QED BY <1>1, <1>3, <1>6, ModeFacts
          DEF Modal, Empty, Answered, OneAnswerPerLine, Filled

\* A command is carried out when the values that it is given have come.
LEMMA ExecuteIInv ==
    ASSUME IInv, NEW c \in Chars, Record(c), c = "eol", serial_mode # "IDLE",
           NEW f \in Commands, Execute(f), FieldsOf[f] \subseteq fresh',
           serial_buf' = << >>, at' = "loop", fresh' \subseteq Fields
    PROVE  IInv'
  <1> USE DEF IInv
  <1>1. ended' = TRUE /\ line' \in Seq({Class(d) : d \in Chars})
    BY RecordFacts
  <1>2. ~ended
    BY DEF Modal
  <1>3. /\ answers' = 1 /\ executed' = f
        /\ reply' \in Replies /\ result' \in MdsErrors
        /\ serial_mode' = "IDLE" /\ serial_error' = "NONE"
    BY <1>2, ExecuteFacts
  <1>4. "NONE" \in Errors
    BY DEF Errors, serial_error_t
  <1>5. Len(serial_buf') <= MaxDigits /\ serial_buf' \in Seq(Figures)
    BY MaxDigitsAssumption
  <1>6. TypeOK'
    BY <1>1, <1>3, <1>4, <1>5, ModeFacts DEF TypeOK, Replies, MdsErrors
  <1> QED BY <1>1, <1>3, <1>6, ModeFacts
          DEF Modal, Empty, Answered, OneAnswerPerLine, Filled

\* A value is not complete yet: a digit more, or an error.
LEMMA UnfinishedIInv ==
    ASSUME IInv, NEW c \in Chars, Record(c), at = "loop", serial_mode \in Fields,
           c \in Figures => Len(serial_buf) < MaxDigits,
           Unfinished(c), at' = at
    PROVE  IInv'
  <1> USE DEF IInv
  <1>1. ended' = (c = "eol") /\ line' \in Seq({Class(d) : d \in Chars})
    BY RecordFacts
  <1>2. serial_mode # "IDLE" /\ serial_mode # "ERROR" /\ fresh \subseteq Fields
    BY ModeFacts DEF TypeOK
  <1>3. CASE serial_read_float_Digit(c)
    <2>1. /\ c \in Figures /\ serial_buf' = Append(serial_buf, c) /\ Silent(c)
          /\ serial_mode' = serial_mode /\ serial_error' = serial_error /\ fresh' = fresh
      BY <1>3 DEF serial_read_float_Digit
    <2>2. c # "eol"
      BY <2>1 DEF Figures
    <2>3. answers' = 0 /\ executed' = "none" /\ reply' \in Replies /\ result' \in MdsErrors
      BY <2>1, <2>2, SilentFacts
    <2>4. serial_buf' \in Seq(Figures) /\ Len(serial_buf') <= MaxDigits
      BY <2>1, LenProperties, AppendProperties, MaxDigitsAssumption DEF TypeOK
    <2>5. TypeOK'
      BY <1>1, <2>1, <2>3, <2>4 DEF TypeOK, Replies, MdsErrors
    <2> QED BY <1>1, <1>2, <2>1, <2>2, <2>3, <2>5
            DEF Modal, Empty, Answered, OneAnswerPerLine, Filled
  <1>4. CASE serial_read_float_Empty(c)
    BY <1>2, <1>4, ErrorIInv, ErrorFacts DEF serial_read_float_Empty
  <1>5. CASE serial_read_float_Bad(c)
    BY <1>2, <1>5, ErrorIInv, ErrorFacts DEF serial_read_float_Bad
  <1> QED BY <1>3, <1>4, <1>5 DEF Unfinished

\* A value that another one follows.
LEMMA ValueIInv ==
    ASSUME IInv, NEW c \in Chars, Record(c), at = "loop", ValueHandler(c),
           c \in Figures => Len(serial_buf) < MaxDigits
    PROVE  IInv'
  <1> USE DEF IInv
  <1>1. ended' = (c = "eol") /\ line' \in Seq({Class(d) : d \in Chars})
    BY RecordFacts
  <1>2. serial_mode \in DOMAIN NextValue /\ at' = at
    BY DEF ValueHandler
  <1>3. serial_mode \in Fields /\ serial_mode # "IDLE" /\ serial_mode # "ERROR"
    BY <1>2, ModeFacts DEF Fields
  <1>4. CASE Unfinished(c)
    BY <1>2, <1>3, <1>4, UnfinishedIInv
  <1>5. CASE Finished(c)
    <2>1. /\ serial_buf' = << >> /\ fresh' = fresh \cup {serial_mode}
          /\ fresh' \subseteq Fields
      BY <1>3, <1>5 DEF Finished, TypeOK
    <2>2. CASE /\ c = "comma" /\ serial_mode' = NextValue[serial_mode]
               /\ Silent(c) /\ UNCHANGED serial_error
      <3>1. answers' = 0 /\ executed' = "none" /\ reply' \in Replies /\ result' \in MdsErrors
        BY <2>2, SilentFacts
      <3>2. /\ serial_mode' \in Fields
            /\ Before[serial_mode'] = Before[serial_mode] \cup {serial_mode}
        BY <1>2, <2>2, NextFacts
      <3>3. serial_error' = "NONE" /\ serial_error' \in Errors
        BY <1>3, <2>2 DEF Modal, TypeOK
      <3>4. TypeOK'
        BY <1>1, <1>2, <2>1, <3>1, <3>2, <3>3, ModeFacts, MaxDigitsAssumption
           DEF TypeOK, Replies, MdsErrors
      <3>5. Before[serial_mode'] \subseteq fresh'
        BY <1>3, <2>1, <3>2 DEF Filled
      <3> QED BY <1>1, <1>2, <2>1, <2>2, <3>1, <3>2, <3>3, <3>4, <3>5, ModeFacts
              DEF Modal, Empty, Answered, OneAnswerPerLine, Filled
    <2>3. CASE c = "eol" /\ serial_set_error("BAD_SEPARATOR", c)
      BY <1>2, <1>3, <2>1, <2>3, ErrorIInv, ErrorFacts
    <2> QED BY <1>4, <1>5, <2>2, <2>3, UnfinishedIInv, <1>2, <1>3 DEF ValueHandler
  <1> QED BY <1>4, <1>5 DEF ValueHandler

\* The last value of a line.
LEMMA LastValueIInv ==
    ASSUME IInv, NEW c \in Chars, Record(c), at = "loop", LastValueHandler(c),
           c \in Figures => Len(serial_buf) < MaxDigits
    PROVE  IInv'
  <1> USE DEF IInv
  <1>1. ended' = (c = "eol") /\ line' \in Seq({Class(d) : d \in Chars})
    BY RecordFacts
  <1>2. serial_mode \in DOMAIN LastValue
    BY DEF LastValueHandler
  <1>3. serial_mode \in Fields /\ serial_mode # "IDLE" /\ serial_mode # "ERROR"
    BY <1>2, ModeFacts DEF Fields
  <1>4. LastValue[serial_mode] \in Commands
        /\ FieldsOf[LastValue[serial_mode]] = Before[serial_mode] \cup {serial_mode}
    BY <1>2, LastFacts
  <1>5. CASE Unfinished(c) /\ UNCHANGED at
    BY <1>3, <1>5, UnfinishedIInv
  <1>6. CASE Finished(c)
    <2>1. /\ serial_buf' = << >> /\ fresh' = fresh \cup {serial_mode}
          /\ fresh' \subseteq Fields
      BY <1>3, <1>6 DEF Finished, TypeOK
    <2>2. FieldsOf[LastValue[serial_mode]] \subseteq fresh'
      BY <1>3, <1>4, <2>1 DEF Filled
    <2>3. CASE /\ c = "comma" /\ at' = "trailing" /\ Silent(c)
               /\ UNCHANGED <<serial_mode, serial_error>>
      <3>1. answers' = 0 /\ executed' = "none" /\ reply' \in Replies /\ result' \in MdsErrors
        BY <2>3, SilentFacts
      <3>2. TypeOK'
        <4>1. Len(serial_buf') <= MaxDigits /\ serial_buf' \in Seq(Figures)
          BY <2>1, MaxDigitsAssumption
        <4>2. serial_mode' \in Modes /\ serial_error' \in Errors /\ at' \in {"flush", "loop", "trailing"}
          BY <2>3 DEF TypeOK
        <4> HIDE DEF IInv
        <4> QED BY <1>1, <2>1, <3>1, <4>1, <4>2 DEF TypeOK, Replies, MdsErrors
      <3>3. Before[serial_mode] \subseteq fresh'
        BY <1>4, <2>2
      <3> QED BY <1>1, <1>2, <1>3, <2>1, <2>2, <2>3, <3>1, <3>2, <3>3
              DEF Modal, Empty, Answered, OneAnswerPerLine, Filled
    <2>4. CASE c = "eol" /\ Execute(LastValue[serial_mode]) /\ UNCHANGED at
      BY <1>3, <1>4, <2>1, <2>2, <2>4, ExecuteIInv
    <2> QED BY <1>5, <1>6, <2>3, <2>4 DEF LastValueHandler
  <1> QED BY <1>5, <1>6 DEF LastValueHandler

\* The character that the handler of a last value reads behind a comma.
LEMMA TrailingIInv ==
    ASSUME IInv, NEW c \in Chars, Record(c), at = "trailing", TrailingRead(c)
    PROVE  IInv'
  <1> USE DEF IInv
  <1>1. /\ serial_mode \in DOMAIN LastValue /\ serial_buf = << >>
        /\ FieldsOf[LastValue[serial_mode]] \subseteq fresh
    BY DEF Modal, Empty, Filled
  <1>2. LastValue[serial_mode] \in Commands /\ serial_mode # "IDLE"
    BY <1>1, LastFacts, ModeFacts
  <1>3. at' = "loop" /\ serial_buf' = << >> /\ fresh' = fresh /\ fresh \subseteq Fields
    BY <1>1 DEF TrailingRead, TypeOK
  <1> QED BY <1>1, <1>2, <1>3, ExecuteIInv, ErrorIInv, ErrorFacts DEF TrailingRead

\* The end of a command without values, or something else in its place.
LEMMA ImmediateIInv ==
    ASSUME IInv, NEW c \in Chars, Record(c), at = "loop", ImmediateHandler(c)
    PROVE  IInv'
  <1> USE DEF IInv
  <1>1. serial_mode \in DOMAIN Immediate /\ serial_buf' = serial_buf /\ at' = at /\ fresh' = fresh
    BY DEF ImmediateHandler
  <1>2. serial_buf = << >> /\ serial_mode # "IDLE" /\ fresh \subseteq Fields
    BY <1>1, ModeFacts DEF Empty, TypeOK
  <1>3. Immediate[serial_mode] \in Commands /\ FieldsOf[Immediate[serial_mode]] \subseteq fresh
    BY <1>1, ImmediateFacts
  <1> QED BY <1>1, <1>2, <1>3, ExecuteIInv, ErrorIInv, ErrorFacts DEF ImmediateHandler

\* The rest of a line with an error.
LEMMA ErrorHandlerIInv ==
    ASSUME IInv, NEW c \in Chars, Record(c), at = "loop", serial_mode_error_handler(c)
    PROVE  IInv'
  <1> USE DEF IInv
  <1>1. /\ serial_mode = "ERROR" /\ serial_buf' = serial_buf /\ at' = at /\ fresh' = fresh
    BY DEF serial_mode_error_handler
  <1>2. serial_error \in Errors \ {"NONE"} /\ serial_buf = << >> /\ fresh \subseteq Fields
    BY <1>1, ModeFacts DEF Modal, Empty, TypeOK
  <1>3. serial_set_error(serial_error, c)
    BY <1>1 DEF serial_mode_error_handler, serial_set_error
  <1> QED BY <1>1, <1>2, <1>3, ErrorIInv

-----------------------------------------------------------------------------
\* The conditions hold at the start.
LEMMA InitIInv ==
    ASSUME Init PROVE IInv
  <1>1. "NONE" \in Errors /\ "SUCCESS" \in MdsErrors
    BY DEF Errors, serial_error_t, MdsErrors, mds_err_t
  <1>2. TypeOK
    BY <1>1, ModeFacts, MaxDigitsAssumption DEF Init, TypeOK, MdsErrors
  <1> QED BY <1>2, ModeFacts
          DEF Init, IInv, Modal, Empty, Answered, OneAnswerPerLine, Filled

\* The conditions hold after every character, reset and start.
LEMMA NextIInv ==
    ASSUME IInv, [Next]_vars PROVE IInv'
  <1>1. CASE UNCHANGED vars
    BY <1>1 DEF vars, history, IInv, TypeOK, Modal, Empty, Answered, OneAnswerPerLine, Filled
  <1>2. CASE PowerOn
    <2>1. TypeOK'
      BY <1>2 DEF PowerOn, IInv, TypeOK
    <2> QED BY <1>2, <2>1
            DEF PowerOn, IInv, Modal, Empty, Answered, OneAnswerPerLine, Filled
  <1>3. CASE Reset
    <2>1. "NONE" \in Errors /\ "SUCCESS" \in MdsErrors
      BY DEF Errors, serial_error_t, MdsErrors, mds_err_t
    <2>2. TypeOK'
      BY <1>3, <2>1, ModeFacts, MaxDigitsAssumption DEF Reset, TypeOK, MdsErrors
    <2> QED BY <1>3, <2>2, ModeFacts
            DEF Reset, IInv, Modal, Empty, Answered, OneAnswerPerLine, Filled
  <1>4. ASSUME NEW c \in Chars, Get(c) PROVE IInv'
    BY <1>4, KeywordIInv, ValueIInv, LastValueIInv, ImmediateIInv, ErrorHandlerIInv,
       TrailingIInv DEF Get, Handler
  <1> QED BY <1>1, <1>2, <1>3, <1>4 DEF Next

\* The conditions hold always.
THEOREM Invariance ==
    Spec => []IInv
  <1>1. Init => IInv
    BY InitIInv
  <1>2. IInv /\ [Next]_vars => IInv'
    BY NextIInv
  <1> QED BY <1>1, <1>2, PTL DEF Spec

\* The variables of the interpreter have their types.
THEOREM TypeCorrectness ==
    Spec => []TypeOK
  <1>1. IInv => TypeOK
    BY DEF IInv
  <1> QED BY <1>1, Invariance, PTL

\* Every line has one answer, and has it at its end.
THEOREM LineHasOneAnswer ==
    Spec => []OneAnswerPerLine
  <1>1. IInv => OneAnswerPerLine
    BY DEF IInv, Answered
  <1> QED BY <1>1, Invariance, PTL

\* Nothing of a line, whatever its values and wherever it broke off, is left for
\* the next one.
THEOREM NothingOfALineIsLeft ==
    Spec => []NothingLeftOver
  <1>1. IInv => NothingLeftOver
    BY DEF IInv, Filled, Empty, Modal, NothingLeftOver
  <1> QED BY <1>1, Invariance, PTL

-----------------------------------------------------------------------------
(* Numbers, for induction and recursion over them *)

\* A set of numbers that is not empty has a least one.
LEMMA LeastNumber ==
    ASSUME NEW S \in SUBSET Nat, S # {}
    PROVE  \E m \in S : \A n \in S : m <= n
  <1> DEFINE R == {p \in Nat \X Nat : p[1] < p[2]}
  <1>1. IsWellFoundedOn(R, Nat)
    BY NatLessThanWellFounded DEF OpToRel
  <1>2. \E x \in S : \A y \in S : <<y, x>> \notin R
    <2> HIDE DEF R
    <2> QED BY <1>1, WFMin
  <1>3. \A x, y \in S : <<y, x>> \in R <=> y < x
    OBVIOUS
  <1>4. \A x, y \in S : y < x \/ x <= y
    OBVIOUS
  <1> HIDE DEF R
  <1> QED BY <1>2, <1>3, <1>4

\* Induction, for the set of the numbers that have a property.
LEMMA Induction ==
    ASSUME NEW S, 0 \in S, \A n \in Nat : n \in S => n + 1 \in S
    PROVE  Nat \subseteq S
  <1> SUFFICES ASSUME Nat \ S # {} PROVE FALSE
    OBVIOUS
  <1>1. PICK m \in Nat \ S : \A n \in Nat \ S : m <= n
    BY LeastNumber
  <1>2. m # 0 /\ m - 1 \in Nat /\ m - 1 \in S
    BY <1>1
  <1> QED BY <1>1, <1>2

\* A function with a first value, and what each step makes of the last one.
Recursive(f, base, step, L) == f[0] = base /\ \A i \in 1..L : f[i] = step[i][f[i - 1]]

\* There is such a function.
LEMMA Recursion ==
    ASSUME NEW A, NEW base \in A, NEW L \in Nat, NEW step \in [1..L -> [A -> A]]
    PROVE  \E f \in [0..L -> A] : Recursive(f, base, step, L)
  <1> DEFINE Until(n) == \E f \in [0..n -> A] : Recursive(f, base, step, n)
             S == {n \in Nat : n <= L => Until(n)}
  <1>1. 0 \in S
    <2> DEFINE f == [i \in 0..0 |-> base]
    <2>1. f \in [0..0 -> A] /\ f[0] = base
      OBVIOUS
    <2>2. \A i \in 1..0 : FALSE
      OBVIOUS
    <2> QED BY <2>1, <2>2 DEF Recursive
  <1>2. ASSUME NEW n \in Nat, n \in S PROVE n + 1 \in S
    <2> SUFFICES ASSUME n + 1 <= L PROVE Until(n + 1)
      OBVIOUS
    <2>1. PICK f \in [0..n -> A] : Recursive(f, base, step, n)
      BY <1>2
    <2> DEFINE g == [i \in 0..(n+1) |-> IF i = n + 1 THEN step[n+1][f[n]] ELSE f[i]]
    <2>2. n + 1 \in 1..L /\ n \in 0..n
      OBVIOUS
    <2>3. g \in [0..(n+1) -> A] /\ g[0] = base
      BY <2>1, <2>2 DEF Recursive
    <2>4. ASSUME NEW i \in 1..(n+1) PROVE g[i] = step[i][g[i-1]]
      <3>1. CASE i = n + 1
        BY <3>1
      <3>2. CASE i # n + 1
        <4>1. i \in 1..n /\ i - 1 \in 0..n /\ i - 1 # n + 1
          BY <3>2
        <4> QED BY <2>1, <3>2, <4>1 DEF Recursive
      <3> QED BY <3>1, <3>2
    <2> HIDE DEF g
    <2>5. Recursive(g, base, step, n + 1)
      BY <2>3, <2>4 DEF Recursive
    <2> QED BY <2>3, <2>5
  <1> HIDE DEF S
  <1>3. Nat \subseteq S
    BY <1>1, <1>2, Induction
  <1> QED BY <1>3 DEF S

\* And no other: two functions that begin and go on alike are the same.
Alike(f, g, L) == f[0] = g[0] /\ \A n \in 1..L : f[n - 1] = g[n - 1] => f[n] = g[n]
Agree(f, g, L) == \A n \in 0..L : f[n] = g[n]

\* A recursion has one result.
LEMMA Unique ==
    ASSUME NEW L \in Nat, NEW f, NEW g, Alike(f, g, L)
    PROVE  Agree(f, g, L)
  <1> DEFINE S == {n \in Nat : n <= L => f[n] = g[n]}
  <1>1. 0 \in S
    BY DEF Alike
  <1>2. ASSUME NEW n \in Nat, n \in S PROVE n + 1 \in S
    <2> SUFFICES ASSUME n + 1 <= L PROVE f[n + 1] = g[n + 1]
      OBVIOUS
    <2>1. f[n] = g[n]
      BY <1>2
    <2>2. n + 1 \in 1..L /\ (n + 1) - 1 = n
      OBVIOUS
    <2> QED BY <2>1, <2>2 DEF Alike
  <1> HIDE DEF S
  <1>3. Nat \subseteq S
    BY <1>1, <1>2, Induction
  <1> QED BY <1>3 DEF S, Agree

\* The same over all numbers.
RecursiveOverNat(f, base, step) == f[0] = base /\ \A n \in Nat : f[n + 1] = step[f[n]]

\* There is a function that a recursion over the numbers defines.
LEMMA RecursionOverNat ==
    ASSUME NEW A, NEW base \in A, NEW step \in [A -> A]
    PROVE  \E f \in [Nat -> A] : RecursiveOverNat(f, base, step)
  <1> DEFINE steps(n) == [i \in 1..n |-> step]
             Until(n, g) == g \in [0..n -> A] /\ Recursive(g, base, steps(n), n)
             F(n) == CHOOSE g : Until(n, g)
             f == [n \in Nat |-> F(n)[n]]
  <1>1. ASSUME NEW n \in Nat
        PROVE  /\ F(n) \in [0..n -> A] /\ F(n)[0] = base
               /\ \A i \in 1..n : F(n)[i] = step[F(n)[i - 1]]
    <2>1. steps(n) \in [1..n -> [A -> A]]
      OBVIOUS
    <2>2. \E g : Until(n, g)
      <3> HIDE DEF steps
      <3> QED BY <2>1, Recursion
    <2>3. Until(n, F(n))
      <3> HIDE DEF Until
      <3> QED BY <2>2
    <2>4. \A i \in 1..n : steps(n)[i] = step
      OBVIOUS
    <2> HIDE DEF F, steps
    <2> QED BY <2>3, <2>4 DEF Recursive
  <1> HIDE DEF F
  <1>2. ASSUME NEW n \in Nat PROVE F(n)[n] \in A /\ F(n + 1)[n + 1] = step[F(n)[n]]
    <2>1. /\ F(n + 1)[0] = base
          /\ \A i \in 1..(n + 1) : F(n + 1)[i] = step[F(n + 1)[i - 1]]
      BY <1>1
    <2>2. \A i \in 1..n : i \in 1..(n + 1)
      OBVIOUS
    <2>3. Alike(F(n), F(n + 1), n)
      BY <1>1, <2>1, <2>2 DEF Alike
    <2>4. F(n)[n] = F(n + 1)[n]
      BY <2>3, Unique DEF Agree
    <2>5. n + 1 \in 1..(n + 1) /\ (n + 1) - 1 = n /\ n \in 0..n
      OBVIOUS
    <2> QED BY <1>1, <2>1, <2>4, <2>5
  <1>3. F(0)[0] = base
    BY <1>1
  <1>4. f \in [Nat -> A] /\ f[0] = base /\ \A n \in Nat : f[n + 1] = step[f[n]]
    BY <1>2, <1>3
  <1> QED BY <1>4 DEF RecursiveOverNat

-----------------------------------------------------------------------------
(* string_to_float *)

\* The texts that serial_read_float collects.
Texts == Seq({"0", "1", "9", "."})

Gathered == [number : Nat, digit : Nat, exp : Nat, seen : Nat]

\* The three digits that stand for ten.
LEMMA DigitFacts ==
    /\ \A c \in {"0", "1", "9"} : Digit[c] \in Nat
    /\ Digit["0"] = 0 /\ Digit["1"] = 1 /\ Digit["9"] = 9
  BY DEF Digit

\* What one character changes.
LEMMA AccumulateFacts ==
    ASSUME NEW c \in {"0", "1", "9", "."}, NEW acc \in Gathered
    PROVE  /\ Accumulate(c, acc) \in Gathered
           /\ Accumulate(c, acc).seen = acc.seen + 1
           /\ c = "." => /\ Accumulate(c, acc).number = acc.number
                         /\ Accumulate(c, acc).digit = acc.digit
                         /\ Accumulate(c, acc).exp = acc.seen
           /\ c # "." =>
                 /\ Accumulate(c, acc).number = acc.number + Digit[c] * acc.digit
                 /\ Accumulate(c, acc).digit = (acc.digit * 10) % WeightSpan
                 /\ Accumulate(c, acc).exp = acc.exp
  <1>0. /\ acc = [number |-> acc.number, digit |-> acc.digit, exp |-> acc.exp, seen |-> acc.seen]
        /\ acc.number \in Nat /\ acc.digit \in Nat /\ acc.exp \in Nat /\ acc.seen \in Nat
    BY DEF Gathered
  <1>1. CASE c = "."
    <2>1. Accumulate(c, acc) = [number |-> acc.number, digit |-> acc.digit,
                 exp |-> acc.seen, seen |-> acc.seen + 1]
      BY <1>0, <1>1 DEF Accumulate
    <2> QED BY <1>0, <1>1, <2>1 DEF Gathered
  <1>2. CASE c # "."
    <2>1. Digit[c] * acc.digit \in Nat
      BY <1>0, <1>2, DigitFacts
    <2>2. (acc.digit * 10) % WeightSpan \in Nat
      BY <1>0, WeightAssumption
    <2>3. Accumulate(c, acc) = [number |-> acc.number + Digit[c] * acc.digit,
                 digit |-> (acc.digit * 10) % WeightSpan,
                 exp |-> acc.exp, seen |-> acc.seen + 1]
      BY <1>0, <1>2 DEF Accumulate
    <2>4. acc.number + Digit[c] * acc.digit \in Nat
      BY <1>0, <2>1
    <2> QED BY <1>0, <1>2, <2>2, <2>3, <2>4 DEF Gathered
  <1> QED BY <1>1, <1>2

\* The equations of ReadBack: what the loop of string_to_float does.
LEMMA ReadBackFacts ==
    ASSUME NEW buf \in Texts
    PROVE  /\ ReadBack(buf) \in [0..Len(buf) -> Gathered]
           /\ ReadBack(buf)[0] = [number |-> 0, digit |-> 1, exp |-> 0, seen |-> 0]
           /\ \A n \in 1..Len(buf) :
                 ReadBack(buf)[n] = Accumulate(buf[Len(buf) - n + 1], ReadBack(buf)[n - 1])
  <1> DEFINE L == Len(buf)
             base == [number |-> 0, digit |-> 1, exp |-> 0, seen |-> 0]
             step == [n \in 1..L |-> [acc \in Gathered |-> Accumulate(buf[L - n + 1], acc)]]
             Eq(g) == g = [n \in 0..L |-> IF n = 0 THEN base
                                          ELSE Accumulate(buf[L - n + 1], g[n - 1])]
  <1>1. L \in Nat /\ \A n \in 1..L : buf[L - n + 1] \in {"0", "1", "9", "."}
    BY DEF Texts
  <1>2. base \in Gathered
    BY DEF Gathered
  <1>3. step \in [1..L -> [Gathered -> Gathered]]
    BY <1>1, AccumulateFacts
  <1>4. PICK f \in [0..L -> Gathered] : Recursive(f, base, step, L)
    <2> HIDE DEF L, base, step
    <2> QED BY <1>1, <1>2, <1>3, Recursion
  <1>5. ASSUME NEW n \in 1..L PROVE f[n] = Accumulate(buf[L - n + 1], f[n - 1])
    <2>1. n - 1 \in 0..L
      BY <1>1
    <2> QED BY <1>4, <2>1 DEF Recursive
  <1>6. f[0] = base
    BY <1>4 DEF Recursive
  <1>7. Eq(f)
    <2>1. \A n \in 0..L : n = 0 \/ n \in 1..L
      BY <1>1
    <2> HIDE DEF L, base
    <2> QED BY <1>5, <1>6, <2>1
  <1> DEFINE g == ReadBack(buf)
  <1>8. Eq(g)
    <2>1. g = CHOOSE r : Eq(r)
      BY DEF ReadBack
    <2> HIDE DEF Eq, g
    <2> QED BY <1>7, <2>1
  <1>9. g = f
    <2> HIDE DEF L, base, g
    <2>1. \A n \in 1..L : n \in 0..L /\ n # 0
      BY <1>1
    <2>2. Alike(f, g, L)
      BY <1>1, <1>7, <1>8, <2>1 DEF Alike
    <2>3. \A n \in 0..L : f[n] = g[n]
      BY <1>1, <2>2, Unique DEF Agree
    <2>4. g = [n \in 0..L |-> g[n]] /\ f = [n \in 0..L |-> f[n]]
      BY <1>8
    <2> QED BY <2>3, <2>4
  <1> QED BY <1>4, <1>5, <1>6, <1>9

\* The equations of ReadOn.
LEMMA ReadOnFacts ==
    ASSUME NEW buf \in Texts
    PROVE  /\ ReadOn(buf) \in [0..Len(buf) -> Nat]
           /\ ReadOn(buf)[0] = 0
           /\ \A n \in 1..Len(buf) :
                 ReadOn(buf)[n] = IF buf[n] = "." THEN ReadOn(buf)[n - 1]
                                  ELSE 10 * ReadOn(buf)[n - 1] + Digit[buf[n]]
  <1> DEFINE L == Len(buf)
             Made(n, x) == IF buf[n] = "." THEN x ELSE 10 * x + Digit[buf[n]]
             step == [n \in 1..L |-> [x \in Nat |-> Made(n, x)]]
             zero == 0
             Eq(g) == g = [n \in 0..L |-> IF n = 0 THEN 0 ELSE Made(n, g[n - 1])]
  <1>1. L \in Nat /\ \A n \in 1..L : buf[n] \in {"0", "1", "9", "."}
    BY DEF Texts
  <1>2. \A n \in 1..L : \A x \in Nat : Made(n, x) \in Nat
    BY <1>1, DigitFacts
  <1>3. ReadOn(buf) = CHOOSE g : Eq(g)
    BY DEF ReadOn
  <1> HIDE DEF L, Made
  <1>4. step \in [1..L -> [Nat -> Nat]] /\ zero \in Nat
    BY <1>2
  <1>5. PICK f \in [0..L -> Nat] : Recursive(f, zero, step, L)
    <2> HIDE DEF step, zero
    <2> QED BY <1>1, <1>4, Recursion
  <1>6. ASSUME NEW n \in 1..L PROVE f[n] = Made(n, f[n - 1])
    <2>1. n - 1 \in 0..L
      BY <1>1
    <2> QED BY <1>5, <2>1 DEF Recursive
  <1>7. f[0] = 0
    BY <1>5 DEF Recursive
  <1>8. Eq(f)
    <2>1. \A n \in 0..L : n = 0 \/ n \in 1..L
      BY <1>1
    <2> QED BY <1>6, <1>7, <2>1
  <1> DEFINE g == ReadOn(buf)
  <1>9. Eq(g)
    <2> HIDE DEF Eq
    <2> QED BY <1>3, <1>8
  <1>10. g = f
    <2> HIDE DEF g
    <2>1. \A n \in 1..L : n \in 0..L /\ n # 0
      BY <1>1
    <2>2. Alike(f, g, L)
      BY <1>1, <1>8, <1>9, <2>1 DEF Alike
    <2>3. \A n \in 0..L : f[n] = g[n]
      BY <1>1, <2>2, Unique DEF Agree
    <2>4. g = [n \in 0..L |-> g[n]] /\ f = [n \in 0..L |-> f[n]]
      BY <1>9
    <2> QED BY <2>3, <2>4
  <1> QED BY <1>5, <1>6, <1>7, <1>10 DEF L, Made

\* The equations of PowerOfTen.
LEMMA PowerFacts ==
    /\ PowerOfTen \in [Nat -> Nat]
    /\ PowerOfTen[0] = 1
    /\ \A n \in Nat : PowerOfTen[n + 1] = 10 * PowerOfTen[n]
  <1> DEFINE Eq(g) == g = [n \in Nat |-> IF n = 0 THEN 1 ELSE 10 * g[n - 1]]
             step == [x \in Nat |-> 10 * x]
             one == 1
  <1>1. step \in [Nat -> Nat] /\ one \in Nat
    OBVIOUS
  <1>2. PICK f \in [Nat -> Nat] : RecursiveOverNat(f, one, step)
    <2> HIDE DEF step, one
    <2> QED BY <1>1, RecursionOverNat
  <1>3. Eq(f)
    <2>1. f[0] = 1 /\ \A n \in Nat : f[n + 1] = 10 * f[n]
      BY <1>2 DEF RecursiveOverNat
    <2>2. ASSUME NEW n \in Nat, n # 0 PROVE f[n] = 10 * f[n - 1]
      <3>1. n - 1 \in Nat /\ (n - 1) + 1 = n
        BY <2>2
      <3> QED BY <2>1, <3>1
    <2> QED BY <2>1, <2>2
  <1>4. PowerOfTen = CHOOSE g : Eq(g)
    BY DEF PowerOfTen
  <1> DEFINE p == PowerOfTen
  <1>5. Eq(p)
    <2> HIDE DEF Eq
    <2> QED BY <1>3, <1>4
  <1>6. p[0] = 1 /\ \A n \in Nat : p[n + 1] = 10 * p[n]
    <2> HIDE DEF p
    <2>1. \A n \in Nat : n + 1 # 0 /\ (n + 1) - 1 = n /\ n + 1 \in Nat
      OBVIOUS
    <2> QED BY <1>5, <2>1
  <1>7. \A n \in Nat : p[n] \in Nat
    <2> DEFINE S == {n \in Nat : p[n] \in Nat}
    <2>1. 0 \in S /\ \A n \in Nat : n \in S => n + 1 \in S
      <3> HIDE DEF p
      <3> QED BY <1>6
    <2> HIDE DEF S
    <2>2. Nat \subseteq S
      BY <2>1, Induction
    <2> QED BY <2>2 DEF S
  <1>8. p = [n \in Nat |-> p[n]]
    <2> HIDE DEF p
    <2> QED BY <1>5
  <1>9. p \in [Nat -> Nat]
    <2> HIDE DEF p
    <2> QED BY <1>7, <1>8
  <1> QED BY <1>6, <1>9

\* The digits among the last n characters of a text.
After(buf, n) == n - (IF \E j \in Points(buf) : Len(buf) - n < j THEN 1 ELSE 0)

\* What has been gathered from the last n characters of a numeral: the weight of
\* the next digit, as long as there is room for it; the number that they add to
\* the text, if their weights were right; and how many are behind the point.
WeightIs(acc, k) ==
    /\ acc.digit < WeightSpan /\ acc.digit <= PowerOfTen[k]
    /\ acc.digit = PowerOfTen[k] <=> PowerOfTen[k] < WeightSpan

FitFrom(buf, m) ==
    \A i \in DOMAIN buf : m < i =>
        buf[i] \in {"0", "."} \/ PowerOfTen[Behind(buf, i)] < WeightSpan

NumberIs(buf, acc, n) ==
    LET m   == Len(buf) - n
        sum == ReadOn(buf)[Len(buf)] - ReadOn(buf)[m] * PowerOfTen[After(buf, n)]
    IN  acc.number <= sum /\ (acc.number = sum <=> FitFrom(buf, m))

PointIs(buf, acc, n) ==
    /\ acc.seen = n
    /\ \A j \in Points(buf) : acc.exp = IF Len(buf) - n < j THEN Len(buf) - j ELSE 0
    /\ Points(buf) = {} => acc.exp = 0

\* The next character is a point, and the only one.
LEMMA AfterPoint ==
    ASSUME NEW buf \in Texts, IsNumeral(buf), NEW n \in 0..(Len(buf) - 1),
           buf[Len(buf) - n] = "."
    PROVE  After(buf, n) = n /\ After(buf, n + 1) = n
  <1> DEFINE i == Len(buf) - n
  <1>1. Len(buf) \in Nat /\ DOMAIN buf = 1..Len(buf)
    BY DEF Texts
  <1>2. i \in Points(buf)
    BY <1>1 DEF Points
  <1>3. \A j \in Points(buf) : j = i
    BY <1>2 DEF IsNumeral
  <1>4. ~ \E j \in Points(buf) : Len(buf) - n < j
    BY <1>1, <1>3
  <1>5. \E j \in Points(buf) : Len(buf) - (n + 1) < j
    BY <1>1, <1>2
  <1> QED BY <1>1, <1>4, <1>5 DEF After

\* It is a digit.
LEMMA AfterDigit ==
    ASSUME NEW buf \in Texts, NEW n \in 0..(Len(buf) - 1), buf[Len(buf) - n] # "."
    PROVE  /\ After(buf, n) \in Nat /\ After(buf, n + 1) = After(buf, n) + 1
           /\ Behind(buf, Len(buf) - n) = After(buf, n)
  <1> DEFINE i == Len(buf) - n
  <1>1. Len(buf) \in Nat /\ DOMAIN buf = 1..Len(buf) /\ Points(buf) \subseteq 1..Len(buf)
    BY DEF Texts, Points
  <1>2. i \notin Points(buf)
    BY DEF Points
  <1>3. \A j \in Points(buf) : i < j <=> Len(buf) - (n + 1) < j
    BY <1>1, <1>2
  <1>4. n = 0 => ~ \E j \in Points(buf) : i < j
    BY <1>1
  <1> HIDE DEF i
  <1>5. i = Len(buf) - n
    BY DEF i
  <1> QED BY <1>1, <1>3, <1>4, <1>5 DEF After, Behind

\* One more character keeps what is known of the weight.
LEMMA WeightStep ==
    ASSUME NEW buf \in Texts, IsNumeral(buf), NEW n \in 0..(Len(buf) - 1),
           NEW acc \in Gathered, WeightIs(acc, After(buf, n))
    PROVE  WeightIs(Accumulate(buf[Len(buf) - n], acc), After(buf, n + 1))
  <1> DEFINE c == buf[Len(buf) - n]
             p == PowerOfTen[After(buf, n)]
             w == acc.digit
  <1>1. Len(buf) \in Nat /\ c \in {"0", "1", "9", "."}
    BY DEF Texts
  <1>2. CASE c = "."
    <2>1. After(buf, n + 1) = After(buf, n)
      BY <1>2, AfterPoint
    <2>2. Accumulate(c, acc).digit = acc.digit
      BY <1>1, <1>2, AccumulateFacts
    <2> QED BY <2>1, <2>2 DEF WeightIs
  <1>3. CASE c # "."
    <2>1. After(buf, n) \in Nat /\ After(buf, n + 1) = After(buf, n) + 1
      BY <1>3, AfterDigit
    <2>2. p \in Nat /\ PowerOfTen[After(buf, n + 1)] = 10 * p
      BY <2>1, PowerFacts
    <2>3. Accumulate(c, acc).digit = (w * 10) % WeightSpan
      BY <1>1, <1>3, AccumulateFacts
    <2>4. w \in Nat /\ WeightSpan \in Nat /\ WeightSpan > 1
      BY WeightAssumption DEF Gathered
    <2>5. w < WeightSpan /\ w <= p /\ (w = p <=> p < WeightSpan)
      BY DEF WeightIs
    <2> DEFINE v == (w * 10) % WeightSpan
    <2>6. v \in 0..(WeightSpan - 1) /\ (w * 10 < WeightSpan => v = w * 10)
      <3> HIDE DEF w
      <3> QED BY <2>4
    <2>7. v < WeightSpan /\ v <= 10 * p /\ (v = 10 * p <=> 10 * p < WeightSpan)
      <3> HIDE DEF v, w, p
      <3>1. CASE 10 * p < WeightSpan
        BY <2>2, <2>4, <2>5, <2>6, <3>1
      <3>2. CASE 10 * p >= WeightSpan
        BY <2>2, <2>4, <2>5, <2>6, <3>2
      <3> QED BY <2>2, <2>4, <3>1, <3>2
    <2> QED BY <2>2, <2>3, <2>7 DEF WeightIs
  <1> QED BY <1>2, <1>3

\* The same for the place of the point.
LEMMA PointStep ==
    ASSUME NEW buf \in Texts, IsNumeral(buf), NEW n \in 0..(Len(buf) - 1),
           NEW acc \in Gathered, PointIs(buf, acc, n)
    PROVE  PointIs(buf, Accumulate(buf[Len(buf) - n], acc), n + 1)
  <1> DEFINE c == buf[Len(buf) - n]
             new == Accumulate(c, acc)
  <1>1. /\ Len(buf) \in Nat /\ c \in {"0", "1", "9", "."}
        /\ Len(buf) - n \in DOMAIN buf /\ Points(buf) \subseteq 1..Len(buf)
    BY DEF Texts, Points
  <1>2. new.seen = n + 1
    BY <1>1, AccumulateFacts DEF PointIs
  <1>3. CASE c = "."
    <2>1. Len(buf) - n \in Points(buf)
      BY <1>1, <1>3 DEF Points
    <2>2. \A j \in Points(buf) : j = Len(buf) - n
      BY <2>1 DEF IsNumeral
    <2>3. new.exp = n
      BY <1>1, <1>3, AccumulateFacts DEF PointIs
    <2> QED BY <1>1, <1>2, <2>1, <2>2, <2>3 DEF PointIs
  <1>4. CASE c # "."
    <2>1. Len(buf) - n \notin Points(buf)
      BY <1>4 DEF Points
    <2>2. new.exp = acc.exp
      BY <1>1, <1>4, AccumulateFacts
    <2>3. \A j \in Points(buf) : Len(buf) - (n + 1) < j <=> Len(buf) - n < j
      BY <1>1, <2>1
    <2> HIDE DEF c, new
    <2>4. PointIs(buf, new, n + 1)
      BY <1>2, <2>2, <2>3 DEF PointIs
    <2> QED BY <2>4 DEF new, c
  <1> QED BY <1>3, <1>4

\* And for the number, which loses what the weight of a digit loses.
LEMMA NumberStep ==
    ASSUME NEW buf \in Texts, IsNumeral(buf), NEW n \in 0..(Len(buf) - 1),
           NEW acc \in Gathered, WeightIs(acc, After(buf, n)), NumberIs(buf, acc, n)
    PROVE  NumberIs(buf, Accumulate(buf[Len(buf) - n], acc), n + 1)
  <1> DEFINE L == Len(buf)
             i == L - n
             c == buf[i]
             new == Accumulate(c, acc)
             k == After(buf, n)
             p == PowerOfTen[k]
             r == ReadOn(buf)
  <1>1. /\ L \in Nat /\ i \in 1..L /\ i - 1 \in 0..L /\ L - (n + 1) = i - 1
        /\ c \in {"0", "1", "9", "."} /\ DOMAIN buf = 1..L /\ n \in Nat
    BY DEF Texts
  <1>2. /\ r[L] \in Nat /\ r[i] \in Nat /\ r[i - 1] \in Nat
        /\ r[i] = IF c = "." THEN r[i - 1] ELSE 10 * r[i - 1] + Digit[c]
    <2>1. r \in [0..L -> Nat]
      BY ReadOnFacts
    <2>2. \A m \in 1..L : r[m] = IF buf[m] = "." THEN r[m - 1] ELSE 10 * r[m - 1] + Digit[buf[m]]
      BY ReadOnFacts
    <2>3. L \in 0..L /\ i \in 0..L
      BY <1>1
    <2> HIDE DEF i, r
    <2> QED BY <1>1, <2>1, <2>2, <2>3
  <1>3. acc.number \in Nat /\ acc.digit \in Nat
    BY DEF Gathered
  <1> DEFINE sum == r[L] - r[i] * p
             next == r[L] - r[i - 1] * PowerOfTen[After(buf, n + 1)]
  <1>4. acc.number <= sum /\ (acc.number = sum <=> FitFrom(buf, i))
    BY DEF NumberIs
  <1>5. /\ FitFrom(buf, i - 1) <=>
              FitFrom(buf, i) /\ (c \in {"0", "."} \/ PowerOfTen[Behind(buf, i)] < WeightSpan)
    <2>1. \A j \in DOMAIN buf : i - 1 < j <=> j = i \/ i < j
      BY <1>1
    <2> HIDE DEF i
    <2> QED BY <1>1, <2>1 DEF FitFrom
  <1>6. new.number <= next /\ (new.number = next <=> FitFrom(buf, i - 1))
    <2>1. CASE c = "."
      <3>1. PowerOfTen[After(buf, n + 1)] = p
        BY <2>1, AfterPoint
      <3>2. new.number = acc.number
        BY <1>1, <2>1, AccumulateFacts
      <3>3. sum = next
        BY <1>2, <2>1, <3>1
      <3> HIDE DEF sum, next, new, i, c
      <3> QED BY <1>4, <1>5, <2>1, <3>2, <3>3
    <2>2. CASE c # "."
      <3>1. /\ k \in Nat /\ After(buf, n + 1) = k + 1 /\ Behind(buf, i) = k
        BY <2>2, AfterDigit
      <3>2. p \in Nat /\ PowerOfTen[After(buf, n + 1)] = 10 * p
        BY <3>1, PowerFacts
      <3>3. new.number = acc.number + Digit[c] * acc.digit
        BY <1>1, <2>2, AccumulateFacts
      <3>4. Digit[c] \in {0, 1, 9} /\ (Digit[c] = 0 <=> c = "0") /\ r[i] = 10 * r[i - 1] + Digit[c]
        BY <1>1, <1>2, <2>2, DigitFacts
      <3>5. acc.digit <= p /\ (acc.digit = p <=> p < WeightSpan)
        BY DEF WeightIs
      <3>6. next = sum + Digit[c] * p
        <4> DEFINE x == r[i - 1]
                   d == Digit[c]
        <4>1. x \in Nat /\ d \in Nat /\ r[i] = 10 * x + d
          BY <1>2, <3>4
        <4>2. r[i] * p = 10 * (x * p) + d * p /\ x * (10 * p) = 10 * (x * p)
          <5> HIDE DEF x, d, p
          <5> QED BY <3>2, <4>1
        <4> HIDE DEF x, d, p
        <4>3. r[L] - x * (10 * p) = (r[L] - r[i] * p) + d * p
          BY <1>2, <3>2, <4>1, <4>2
        <4> QED BY <3>2, <4>3 DEF x, d, p
      <3>7. /\ sum \in Int
            /\ Digit[c] * acc.digit <= Digit[c] * p
            /\ Digit[c] * acc.digit = Digit[c] * p <=> c = "0" \/ p < WeightSpan
            /\ Digit[c] * acc.digit \in Nat /\ Digit[c] * p \in Nat
        <4>1. sum \in Int
          BY <1>2, <3>2
        <4> DEFINE d == Digit[c]
                   w == acc.digit
        <4>2. w \in Nat /\ p \in Nat /\ w <= p /\ d \in {0, 1, 9}
          BY <1>3, <3>2, <3>4, <3>5
        <4>3. d * w \in Nat /\ d * p \in Nat /\ d * w <= d * p /\ (d * w = d * p <=> d = 0 \/ w = p)
          <5> HIDE DEF d, w, p
          <5>1. CASE d = 0
            BY <4>2, <5>1
          <5>2. CASE d = 1
            BY <4>2, <5>2
          <5>3. CASE d = 9
            BY <4>2, <5>3
          <5> QED BY <4>2, <5>1, <5>2, <5>3
        <4>4. d = 0 <=> c = "0"
          BY <3>4
        <4>5. w = p <=> p < WeightSpan
          BY <3>5
        <4> HIDE DEF d, w, p, c, sum
        <4>6. d * w = d * p <=> c = "0" \/ p < WeightSpan
          BY <4>3, <4>4, <4>5
        <4> QED BY <4>1, <4>3, <4>6 DEF d, w
      <3> DEFINE a == Digit[c] * acc.digit
                 b == Digit[c] * p
      <3>8. FitFrom(buf, i - 1) <=> FitFrom(buf, i) /\ (c = "0" \/ p < WeightSpan)
        BY <1>5, <2>2, <3>1
      <3> HIDE DEF a, b, sum, next, new, p, c, i
      <3> QED BY <1>3, <1>4, <3>3, <3>6, <3>7, <3>8 DEF a, b
    <2> QED BY <2>1, <2>2
  <1> QED BY <1>1, <1>6 DEF NumberIs

\* string_to_float gives what a numeral means exactly if the weights fit.
THEOREM NumeralsHaveTheirValue ==
    ASSUME NEW buf \in Texts, IsNumeral(buf)
    PROVE  string_to_float(buf) = Meant(buf) <=> WeightsFit(buf)
  <1> DEFINE L == Len(buf)
             acc(n) == ReadBack(buf)[n]
             Known(n) == /\ WeightIs(acc(n), After(buf, n))
                         /\ NumberIs(buf, acc(n), n)
                         /\ PointIs(buf, acc(n), n)
             S == {n \in Nat : n <= L => Known(n)}
  <1>1. L \in Nat /\ DOMAIN buf = 1..L /\ Points(buf) \subseteq 1..L
    BY DEF Texts, Points
  <1>2. 0 \in S
    <2>1. acc(0) = [number |-> 0, digit |-> 1, exp |-> 0, seen |-> 0]
      BY ReadBackFacts
    <2>2. After(buf, 0) = 0
      <3>1. ~ \E j \in Points(buf) : L - 0 < j
        BY <1>1
      <3>2. After(buf, 0) = 0 - (IF \E j \in Points(buf) : L - 0 < j THEN 1 ELSE 0)
        BY DEF After
      <3> QED BY <3>1, <3>2
    <2>3. WeightIs(acc(0), 0)
      BY <2>1, PowerFacts, WeightAssumption DEF WeightIs
    <2>4. NumberIs(buf, acc(0), 0)
      <3>1. ReadOn(buf)[L] \in Nat
        BY <1>1, ReadOnFacts
      <3>2. FitFrom(buf, L)
        BY <1>1 DEF FitFrom
      <3>3. L - 0 = L /\ ReadOn(buf)[L] - ReadOn(buf)[L - 0] * PowerOfTen[0] = 0
        <4>1. PowerOfTen[0] = 1
          BY PowerFacts
        <4>2. L - 0 = L
          BY <1>1
        <4> QED BY <3>1, <4>1, <4>2
      <3>4. acc(0).number = 0
        BY <2>1
      <3> HIDE DEF acc, L
      <3> QED BY <2>2, <3>2, <3>3, <3>4 DEF NumberIs, L
    <2>5. PointIs(buf, acc(0), 0)
      BY <1>1, <2>1 DEF PointIs
    <2> QED BY <2>2, <2>3, <2>4, <2>5
  <1>3. ASSUME NEW n \in Nat, n \in S PROVE n + 1 \in S
    <2> SUFFICES ASSUME n + 1 <= L PROVE Known(n + 1)
      OBVIOUS
    <2>1. n \in 0..(L - 1) /\ n \in 0..L /\ n + 1 \in 1..L /\ L - (n + 1) + 1 = L - n /\ (n + 1) - 1 = n
      BY <1>1
    <2>2. acc(n) \in Gathered /\ acc(n + 1) = Accumulate(buf[L - n], acc(n))
      BY <2>1, ReadBackFacts
    <2>3. Known(n)
      BY <1>1, <1>3
    <2> HIDE DEF acc
    <2> QED BY <2>1, <2>2, <2>3, WeightStep, NumberStep, PointStep
  <1>4. Known(L)
    <2> HIDE DEF S
    <2>1. Nat \subseteq S
      BY <1>2, <1>3, Induction
    <2> QED BY <1>1, <2>1 DEF S
  <1>5. acc(L).number = ReadOn(buf)[L] <=> WeightsFit(buf)
    <2>1. FitFrom(buf, 0) <=> WeightsFit(buf)
      BY <1>1 DEF FitFrom, WeightsFit
    <2>2. ReadOn(buf)[L] \in Nat /\ ReadOn(buf)[0] = 0
      BY <1>1, ReadOnFacts
    <2>3. After(buf, L) \in Nat
      <3>1. (\E j \in Points(buf) : L - L < j) => L > 0
        BY <1>1
      <3> QED BY <1>1, <3>1 DEF After
    <2>4. ReadOn(buf)[L] - ReadOn(buf)[L - L] * PowerOfTen[After(buf, L)] = ReadOn(buf)[L]
      <3>1. PowerOfTen[After(buf, L)] \in Nat /\ L - L = 0
        BY <1>1, <2>3, PowerFacts
      <3> QED BY <2>2, <3>1
    <2> HIDE DEF acc
    <2> QED BY <1>1, <1>4, <2>1, <2>4 DEF NumberIs
  <1>6. acc(L).exp = Meant(buf).exp
    <2>1. CASE Points(buf) = {}
      BY <1>4, <2>1 DEF PointIs, Meant
    <2>2. CASE Points(buf) # {}
      <3> DEFINE j == CHOOSE i \in Points(buf) : TRUE
      <3>1. j \in Points(buf) /\ L - L < j
        BY <1>1, <2>2
      <3>2. Meant(buf).exp = L - j
        BY <2>2 DEF Meant
      <3> HIDE DEF j, acc
      <3> QED BY <1>4, <3>1, <3>2 DEF PointIs
    <2> QED BY <2>1, <2>2
  <1>7. Meant(buf).number = ReadOn(buf)[L]
    BY DEF Meant
  <1>8. /\ string_to_float(buf) = [number |-> acc(L).number, exp |-> acc(L).exp]
        /\ Meant(buf) = [number |-> Meant(buf).number, exp |-> Meant(buf).exp]
    BY DEF string_to_float, Meant
  <1> HIDE DEF acc
  <1> QED BY <1>5, <1>6, <1>7, <1>8

\* A higher power is not smaller.
LEMMA PowersGrow ==
    ASSUME NEW m \in Nat, NEW n \in Nat, m <= n
    PROVE  PowerOfTen[m] <= PowerOfTen[n]
  <1> DEFINE S == {k \in Nat : PowerOfTen[m] <= PowerOfTen[m + k]}
  <1>1. 0 \in S
    BY PowerFacts
  <1>2. ASSUME NEW k \in Nat, k \in S PROVE k + 1 \in S
    <2>1. m + k \in Nat /\ m + (k + 1) = (m + k) + 1
      OBVIOUS
    <2>2. PowerOfTen[m + (k + 1)] = 10 * PowerOfTen[m + k] /\ PowerOfTen[m + k] \in Nat
      BY <2>1, PowerFacts
    <2> QED BY <1>2, <2>2, PowerFacts
  <1> HIDE DEF S
  <1>3. n - m \in S
    BY <1>1, <1>2, Induction
  <1>4. m + (n - m) = n
    OBVIOUS
  <1> QED BY <1>3, <1>4 DEF S

\* If there is room for ten to the n, every numeral with n + 1 digits or fewer has
\* its value: ten digits with the 32 bits of the code.
THEOREM ShortNumeralsAreExact ==
    ASSUME NEW n \in Nat, PowerOfTen[n] < WeightSpan, NEW buf \in Texts, IsNumeral(buf),
           Len(buf) <= n + (IF Points(buf) = {} THEN 1 ELSE 2)
    PROVE  string_to_float(buf) = Meant(buf)
  <1>1. Len(buf) \in Nat /\ DOMAIN buf = 1..Len(buf) /\ Points(buf) \subseteq 1..Len(buf)
    BY DEF Texts, Points
  <1>2. ASSUME NEW i \in DOMAIN buf, buf[i] \notin {"0", "."}
        PROVE  Behind(buf, i) \in Nat /\ Behind(buf, i) <= n
    <2>1. i \notin Points(buf)
      BY <1>2 DEF Points
    <2>2. CASE \E j \in Points(buf) : i < j
      <3>1. Behind(buf, i) = Len(buf) - i - 1 /\ i < Len(buf)
        BY <1>1, <2>2 DEF Behind
      <3> QED BY <1>1, <3>1
    <2>3. CASE ~ \E j \in Points(buf) : i < j
      <3>1. Behind(buf, i) = Len(buf) - i
        BY <1>1, <2>3 DEF Behind
      <3>2. Points(buf) # {} => i > 1
        BY <1>1, <2>1, <2>3
      <3> QED BY <1>1, <3>1, <3>2
    <2> QED BY <2>2, <2>3
  <1>3. ASSUME NEW k \in Nat, k <= n PROVE PowerOfTen[k] < WeightSpan
    BY <1>3, PowersGrow, PowerFacts, WeightAssumption
  <1>4. WeightsFit(buf)
    BY <1>2, <1>3 DEF WeightsFit
  <1> QED BY <1>4, NumeralsHaveTheirValue
=============================================================================
