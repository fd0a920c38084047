----------------------------- MODULE GameProofs -----------------------------
(***************************************************************************)
(* Proofs about Game for any choice of difficulties and any number of      *)
(* messages that are under way: what a message that has been acted on, and *)
(* is still in dataFromUI, has led to, where the mallet is driven, and     *)
(* what the screens and the host agree on as long as each message finds    *)
(* the host ready for it; and, where a step that is due can be made, that  *)
(* each message is acted on, so that games and turn-offs are followed.     *)
(***************************************************************************)
EXTENDS Game, TLAPS

\* The types that the rest needs.
Typed ==
    /\ state \in States /\ step \in 0..5
    /\ state \in {"await", "image"} => step \in 1..5
    /\ mallet \in {"off", "calibrating", "on"}
    /\ died = "none" <=> state \notin {"aborting", "dead"}

\* Where a message that has been heeded, and no other one after it, has led.
LedTo ==
    heeded /\ died = "none" =>
        /\ dataFromUI = "UCS" => state = "calibrate" \/ (state = "await" /\ step = 1)
        /\ dataFromUI = "UC1" => state = "await" /\ step = 2
        /\ dataFromUI = "UC2" => (state = "image" /\ step = 2) \/ (state = "await" /\ step = 3)
        /\ dataFromUI = "UC3" => (state = "image" /\ step = 3) \/ (state = "await" /\ step = 4)
        /\ dataFromUI = "UC4" => (state = "image" /\ step = 4) \/ (state = "await" /\ step = 5)
        /\ dataFromUI = "UCD" => (state = "image" /\ step = 5) \/ state \in {"key", "idle"}
        /\ dataFromUI \in Levels => state \in {"params", "wait"}
        /\ dataFromUI = "US" => state \in {"starting", "camera", "playing"}
        /\ dataFromUI = "UP" => state \in {"stopping", "idle"}

\* The first of the pictures is that of the second message.
Pictured == state = "image" => step \in 2..5

\* The states between the start of the mallet and its stop.
Driving == {"camera", "playing", "stopping"}

Driven ==
    mallet = "on" => state \in Driving \/ (state = "dead" /\ died \in {"camera", "playing", "stopping"})

IInv == Typed /\ LedTo /\ Pictured /\ Driven /\ HeededOnce

-----------------------------------------------------------------------------
\* The messages of a calibration, one by one.
LEMMA AwaitedFacts ==
    /\ Awaited[1] = "UC1" /\ Awaited[2] = "UC2" /\ Awaited[3] = "UC3"
    /\ Awaited[4] = "UC4" /\ Awaited[5] = "UCD"
  BY DEF Awaited

\* What a state waits for is told apart from what has led to it.
LEMMA NotTwice ==
    ASSUME Typed, LedTo, heeded, dataFromUI # "UF"
    PROVE  dataFromUI \notin Heeds
  <1> USE GameAssumption
  <1>3. CASE state = "await"
    <2>1. dataFromUI # Awaited[step]
      <3>1. step \in {1, 2, 3, 4, 5}
        BY <1>3 DEF Typed
      <3> QED BY <1>3, <3>1, AwaitedFacts DEF Typed, LedTo
    <2> QED BY <1>3, <2>1 DEF Heeds
  <1>4. CASE state \in {"idle", "wait", "playing"}
    BY <1>4 DEF Heeds, Typed, LedTo
  <1>5. CASE state \notin {"await", "idle", "wait", "playing"}
    BY <1>5 DEF Heeds
  <1> QED BY <1>3, <1>4, <1>5

\* Only a host that is idle acts on a turn-off.
LEMMA TurnOffIsForIdle ==
    ASSUME Typed, "UF" \in Heeds
    PROVE  state = "idle"
  <1>1. state = "await" => Awaited[step] # "UF"
    <2>1. state = "await" => step \in {1, 2, 3, 4, 5}
      BY DEF Typed
    <2> QED BY <2>1, AwaitedFacts
  <1> QED BY <1>1, GameAssumption DEF Heeds

\* The screens leave what the host has seen alone.
LEMMA ScreenIInv ==
    ASSUME IInv, Press \/ GameOver
    PROVE  IInv'
  <1> USE DEF IInv
  <1>1. UNCHANGED <<thread, main, heeded>>
    BY DEF Press, GameOver
  <1>2. /\ dataFromUI' = dataFromUI /\ state' = state /\ step' = step /\ mallet' = mallet
        /\ died' = died /\ reheeded' = reheeded /\ heeded' = heeded
    BY <1>1 DEF thread, main
  <1> QED BY <1>2 DEF Typed, LedTo, Pictured, Driven, HeededOnce

\* The listening thread only exchanges the message for one not yet heeded.
LEMMA ListenIInv ==
    ASSUME IInv, ListenStep \/ PowerOff \/ PowerOn
    PROVE  IInv'
  <1> USE DEF IInv
  <1>1. UNCHANGED main
    BY DEF ListenStep, Listen, ListenEof, ListenReset, ListenNothing, ListenConnect, PowerOff,
           PowerOn
  <1>2. /\ state' = state /\ step' = step /\ mallet' = mallet /\ died' = died
        /\ reheeded' = reheeded
    BY <1>1 DEF main
  <1>3. Pictured' /\ Driven' /\ HeededOnce'
    BY <1>2 DEF Pictured, Driven, HeededOnce
  <1>4. CASE Listen \/ ListenEof
    <2>1. heeded' = FALSE
      BY <1>4 DEF Listen, ListenEof
    <2> QED BY <1>2, <1>3, <2>1 DEF Typed, LedTo
  <1>6. CASE UNCHANGED <<dataFromUI, heeded>>
    BY <1>2, <1>3, <1>6 DEF Typed, LedTo
  <1>7. ListenReset \/ ListenNothing \/ ListenConnect \/ PowerOff \/ PowerOn
            => UNCHANGED <<dataFromUI, heeded>>
    BY DEF ListenReset, ListenNothing, ListenConnect, PowerOff, PowerOn, thread
  <1> QED BY <1>4, <1>6, <1>7 DEF ListenStep

\* A message is acted on where it leads, and had not been before.
LEMMA HeedIInv ==
    ASSUME IInv, Heed
    PROVE  IInv'
  <1> USE DEF IInv
  <1>1. /\ dataFromUI \in Heeds /\ dataFromUI' = dataFromUI
        /\ mallet' = mallet /\ died' = died /\ heeded' = TRUE
        /\ step' = IF state = "await" /\ step = 1 THEN 2 ELSE step
        /\ reheeded' = (reheeded \/ (heeded /\ dataFromUI # "UF"))
    BY DEF Heed, thread
  <1>2. \/ state = "idle" /\ dataFromUI = "UCS" /\ state' = "calibrate"
        \/ state = "idle" /\ dataFromUI = "UF"  /\ state' = "shutdown"
        \/ state = "idle" /\ dataFromUI \in Levels /\ state' = "params"
        \/ state = "await" /\ state' = IF step = 1 THEN "await" ELSE "image"
        \/ state = "wait" /\ state' = "starting"
        \/ state = "playing" /\ state' = "stopping"
    BY DEF Heed
  <1>3. HeededOnce'
    <2>1. ~reheeded /\ ~(heeded /\ dataFromUI # "UF")
      BY <1>1, NotTwice DEF HeededOnce
    <2> QED BY <1>1, <2>1, Zenon DEF HeededOnce
  <1>4. Typed' /\ Pictured'
    BY <1>1, <1>2 DEF Typed, Pictured, States
  <1>5. Driven'
    BY <1>1, <1>2 DEF Driven, Driving
  <1>6. LedTo'
    <2>1. CASE state = "await"
      <3>1. step \in {1, 2, 3, 4, 5} /\ dataFromUI = Awaited[step]
        BY <1>1, <2>1 DEF Heeds, Typed
      <3>2. step' = (IF step = 1 THEN 2 ELSE step) /\ state' = (IF step = 1 THEN "await" ELSE "image")
        BY <1>1, <1>2, <2>1
      <3> QED BY <1>1, <3>1, <3>2, AwaitedFacts, GameAssumption DEF LedTo
    <2>2. CASE state # "await"
      BY <1>1, <1>2, <2>2, GameAssumption DEF LedTo, Heeds
    <2> QED BY <2>1, <2>2
  <1> QED BY <1>3, <1>4, <1>5, <1>6

\* The rest of the main loop goes on from there.
LEMMA WorkIInv ==
    ASSUME IInv, Work
    PROVE  IInv'
  <1> USE DEF IInv
  <1>1. /\ dataFromUI' = dataFromUI /\ heeded' = heeded /\ died' = died
        /\ reheeded' = reheeded
        /\ Calibrate \/ Image \/ Key \/ setMDSParams \/ Start \/ Camera \/ Stop \/ Shutdown
    BY DEF Work, thread
  <1>2. HeededOnce'
    BY <1>1 DEF HeededOnce
  <1>3. Typed' /\ Pictured'
    BY <1>1 DEF Typed, Pictured, States, Calibrate, Image, Key, setMDSParams, Start, Camera, Stop,
                Shutdown
  <1>4. Driven'
    BY <1>1 DEF Typed, Driven, Driving, Calibrate, Image, Key, setMDSParams, Start, Camera, Stop, Shutdown
  <1>5. LedTo'
    <2>1. CASE Image
      <3>1. step \in {2, 3, 4, 5} /\ state = "image"
        BY <2>1 DEF Image, Typed, Pictured
      <3>2. IF step = 5 THEN state' = "key" ELSE state' = "await" /\ step' = step + 1
        BY <2>1, <3>1 DEF Image
      <3>3. CASE ~heeded
        BY <1>1, <3>3 DEF LedTo
      <3>4. CASE heeded
        <4>1. /\ dataFromUI \notin {"UCS", "UC1", "US", "UP"} \cup Levels
              /\ dataFromUI = "UC2" => step = 2
              /\ dataFromUI = "UC3" => step = 3
              /\ dataFromUI = "UC4" => step = 4
              /\ dataFromUI = "UCD" => step = 5
          BY <3>1, <3>4, GameAssumption DEF Typed, LedTo
        <4> QED BY <1>1, <3>1, <3>2, <4>1 DEF LedTo
      <3> QED BY <3>3, <3>4
    <2>2. CASE Calibrate
      BY <1>1, <2>2, GameAssumption DEF LedTo, Calibrate
    <2>3. CASE Key \/ Stop \/ Shutdown
      BY <1>1, <2>3, GameAssumption DEF LedTo, Key, Stop, Shutdown
    <2>4. CASE setMDSParams \/ Start \/ Camera
      BY <1>1, <2>4, GameAssumption DEF LedTo, setMDSParams, Start, Camera
    <2> QED BY <1>1, <2>1, <2>2, <2>3, <2>4
  <1> QED BY <1>2, <1>3, <1>4, <1>5

\* The start of the main loop, and its end.
LEMMA EndsIInv ==
    ASSUME IInv, Startup \/ Interrupt \/ StopAborted
    PROVE  IInv'
  <1> USE DEF IInv
  <1>1. CASE Startup
    <2>1. /\ state = "startup" /\ state' = "idle"
          /\ UNCHANGED <<dataFromUI, step, mallet, reheeded, died, heeded>>
      BY <1>1 DEF Startup
    <2> QED BY <2>1, GameAssumption DEF Typed, States, LedTo, Pictured, Driven, Driving, HeededOnce
  <1>2. CASE Interrupt
    <2>1. /\ state # "dead" /\ died' = state
          /\ \/ state = "playing" /\ state' = "aborting" /\ mallet' = "off"
             \/ state' = "dead" /\ mallet' = mallet
          /\ UNCHANGED <<dataFromUI, step, reheeded, heeded>>
      BY <1>2 DEF Interrupt, Dies
    <2>2. Typed' /\ Pictured'
      BY <2>1 DEF Typed, States, Pictured
    <2>3. LedTo' /\ HeededOnce'
      BY <2>1 DEF LedTo, HeededOnce, Typed, States
    <2>4. Driven'
      BY <2>1 DEF Driven, Driving
    <2> QED BY <2>2, <2>3, <2>4
  <1>3. CASE StopAborted
    <2>1. /\ state = "aborting" /\ state' = "dead"
          /\ UNCHANGED <<dataFromUI, step, mallet, reheeded, died, heeded>>
      BY <1>3 DEF StopAborted, Dies
    <2>2. mallet # "on"
      BY <2>1 DEF Driven, Driving
    <2> QED BY <2>1, <2>2 DEF Typed, States, LedTo, Pictured, Driven, HeededOnce
  <1> QED BY <1>1, <1>2, <1>3

-----------------------------------------------------------------------------
\* The conditions above hold in every state of a session.
THEOREM Invariance ==
    Spec => []IInv
  <1>1. Init => IInv
    <2> SUFFICES ASSUME Init PROVE IInv
      OBVIOUS
    <2>1. Typed
      <3>1. state = "startup" /\ step = 0 /\ mallet = "off" /\ died = "none"
        BY DEF Init
      <3> QED BY <3>1 DEF Typed, States
    <2>2. LedTo /\ HeededOnce
      BY DEF Init, LedTo, HeededOnce
    <2>3. Pictured /\ Driven
      BY DEF Init, Pictured, Driven
    <2> QED BY <2>1, <2>2, <2>3 DEF IInv
  <1>2. IInv /\ [Next]_vars => IInv'
    <2> SUFFICES ASSUME IInv, [Next]_vars PROVE IInv'
      OBVIOUS
    <2>1. CASE UNCHANGED vars
      BY <2>1 DEF vars, thread, main, IInv, Typed, LedTo, Pictured, Driven, HeededOnce
    <2>2. CASE Next
      BY <2>2, ScreenIInv, ListenIInv, HeedIInv, WorkIInv, EndsIInv DEF Next, MainStep
    <2> QED BY <2>1, <2>2
  <1> QED BY <1>1, <1>2, PTL DEF Spec

\* The host acts on no message twice but a turn-off, although it never clears
\* the place where it looks for them, whatever is sent and when.
THEOREM NoMessageIsHeededTwice ==
    Spec => []HeededOnce
  <1>1. IInv => HeededOnce
    BY DEF IInv
  <1> QED BY <1>1, Invariance, PTL

\* The mallet is driven in three states of the main loop only, or when an
\* interrupt that nothing caught came in one of them, whatever the screens send.
THEOREM MalletIsDrivenInGame ==
    Spec => [](mallet = "on" => \/ state \in Driving
                                \/ state = "dead" /\ died \in {"camera", "playing", "stopping"})
  <1>1. IInv => (mallet = "on" => \/ state \in Driving
                                  \/ state = "dead" /\ died \in {"camera", "playing", "stopping"})
    BY DEF IInv, Driven
  <1> QED BY <1>1, Invariance, PTL
-----------------------------------------------------------------------------
\* A button leads to a screen and sends a message or nothing.
LEMMA ButtonFacts ==
    /\ Buttons \subseteq Screens \X (Messages \cup {""}) \X Screens
    /\ \A b \in Buttons : b[3] \in Screens
    /\ \A b \in Buttons : (IF b[2] = "" THEN << >> ELSE << b[2] >>) \in Seq(Messages)
  <1>1. \A d \in Levels : <<"difficulty", d, "ready">> \in Screens \X (Messages \cup {""}) \X Screens
    BY DEF Screens, Messages
  <1>2. Buttons \subseteq Screens \X (Messages \cup {""}) \X Screens
    <2> DEFINE T == Screens \X (Messages \cup {""}) \X Screens
    <2>1. /\ <<"start", "", "welcome">> \in T /\ <<"over", "", "welcome">> \in T
          /\ <<"welcome", "UCS", "cal0">> \in T /\ <<"cal0", "UC1", "cal1">> \in T
          /\ <<"cal1", "UC2", "cal2">> \in T /\ <<"cal2", "UC3", "cal3">> \in T
          /\ <<"cal3", "UC4", "cal4">> \in T /\ <<"cal4", "UCD", "welcome">> \in T
          /\ <<"welcome", "", "difficulty">> \in T /\ <<"difficulty", "", "welcome">> \in T
          /\ <<"ready", "", "difficulty">> \in T /\ <<"ready", "US", "score">> \in T
          /\ <<"welcome", "UF", "off">> \in T
      BY DEF Screens, Messages
    <2>2. \A d \in Levels : <<"difficulty", d, "ready">> \in T
      BY <1>1
    <2> HIDE DEF T
    <2>3. Buttons \subseteq T
      BY <2>1, <2>2, Zenon DEF Buttons
    <2> QED BY <2>3 DEF T
  <1>3. \A b \in Buttons : b[3] \in Screens /\ (b[2] = "" \/ b[2] \in Messages)
    BY <1>2
  <1>4. \A m \in Messages : << m >> \in Seq(Messages)
    OBVIOUS
  <1>5. << >> \in Seq(Messages)
    OBVIOUS
  <1> QED BY <1>2, <1>3, <1>4, <1>5, Zenon

\* An empty link is one of messages.
LEMMA NoMessages == << >> \in Seq(Messages)
  OBVIOUS

\* What is sent is messages.
LEMMA SentMessages ==
    ASSUME LinkOK, NEW ms \in Seq(Messages)
    PROVE  Sent(ms) \in Seq(Messages)
  BY DEF Sent, LinkOK

\* A step of the session keeps the types of the screens.
LEMMA TableStep ==
    ASSUME TableOK, Next
    PROVE  TableOK'
  <1>1. CASE Press
    <2>1. PICK b \in Buttons :
              /\ screen' = b[3]
              /\ chosen' = IF b[2] \in Levels THEN b[2] ELSE chosen
              /\ ui' \in {ui, "leaving", "closing"}
      BY <1>1 DEF Press
    <2> QED BY <2>1, ButtonFacts DEF TableOK
  <1>2. CASE GameOver \/ PowerOff \/ PowerOn
    BY <1>2 DEF GameOver, PowerOff, PowerOn, TableOK, Screens
  <1>3. CASE ListenStep
    BY <1>3 DEF ListenStep, Listen, ListenEof, ListenReset, ListenNothing, ListenConnect, connect,
                screens, TableOK
  <1>4. CASE MainStep \/ Interrupt
    BY <1>4 DEF MainStep, Startup, connect, Heed, Work, Interrupt, StopAborted, Dies, screens, TableOK
  <1> QED BY <1>1, <1>2, <1>3, <1>4 DEF Next

\* A step of the session keeps the types of the messages.
LEMMA LinkStep ==
    ASSUME LinkOK, Next
    PROVE  LinkOK'
  <1>1. CASE Press
    <2>1. PICK b \in Buttons : link' = Sent(IF b[2] = "" THEN << >> ELSE << b[2] >>)
      BY <1>1 DEF Press
    <2>2. (IF b[2] = "" THEN << >> ELSE << b[2] >>) \in Seq(Messages)
      BY ButtonFacts
    <2>3. link' \in Seq(Messages)
      BY <2>1, <2>2, SentMessages
    <2> QED BY <1>1, <2>3 DEF Press, thread, LinkOK
  <1>2. CASE GameOver
    <2>1. <<"UP">> \in Seq(Messages) /\ <<"UP", "UP">> \in Seq(Messages)
      BY DEF Messages
    <2>2. link' = Sent(<<"UP">>) \/ link' = Sent(<<"UP", "UP">>)
      BY <1>2 DEF GameOver
    <2>3. link' \in Seq(Messages)
      BY <2>1, <2>2, SentMessages
    <2> QED BY <1>2, <2>3 DEF GameOver, thread, LinkOK
  <1>3. CASE Listen
    <2>1. PICK k \in 1..Len(link) :
              /\ dataFromUI' = Received(k)
              /\ link' = << >> \/ link' = SubSeq(link, k + 1, Len(link))
      BY <1>3 DEF Listen
    <2> DEFINE n == Len(link)
    <2>4. link \in Seq(Messages) /\ n \in Nat /\ k \in 1..n /\ n >= 1
      BY DEF LinkOK
    <2>2. Received(k) \in Data
      <3>1. Head(link) \in Messages
        BY <2>4
      <3> QED BY <3>1 DEF Received, Data
    <2>3. link' \in Seq(Messages)
      <3>1. \A i \in (k + 1)..n : link[i] \in Messages
        BY <2>4
      <3>2. SubSeq(link, k + 1, n) \in Seq(Messages)
        BY <2>4, <3>1
      <3> QED BY <2>1, <3>2, NoMessages
    <2> QED BY <2>1, <2>2, <2>3 DEF LinkOK
  <1>4. CASE ListenEof \/ ListenReset \/ ListenNothing \/ ListenConnect
    BY <1>4 DEF ListenEof, ListenReset, ListenNothing, ListenConnect, LinkOK, Data
  <1>5. CASE PowerOff \/ PowerOn
    BY <1>5 DEF PowerOff, PowerOn, thread, LinkOK
  <1>6. CASE MainStep \/ Interrupt
    <2>1. dataFromUI' = dataFromUI /\ (link' = link \/ link' = << >>)
      BY <1>6 DEF MainStep, Startup, Heed, Work, Interrupt, StopAborted, Dies, thread
    <2> QED BY <2>1, NoMessages DEF LinkOK
  <1> QED BY <1>1, <1>2, <1>3, <1>4, <1>5, <1>6 DEF Next, ListenStep

\* A step of the session keeps the types of the flags.
LEMMA FlagsStep ==
    ASSUME FlagsOK, Next
    PROVE  FlagsOK'
  <1>1. {listen_should_exit, ser_open, heeded}' \subseteq BOOLEAN
    <2> USE DEF FlagsOK
    <2>1. CASE Press \/ GameOver \/ PowerOff \/ PowerOn
      BY <2>1 DEF Press, GameOver, PowerOff, PowerOn, main
    <2>2. CASE ListenStep
      BY <2>2 DEF ListenStep, Listen, ListenEof, ListenReset, ListenNothing, ListenConnect, main
    <2>3. CASE Startup \/ Heed \/ Interrupt \/ StopAborted
      BY <2>3 DEF Startup, Heed, Interrupt, StopAborted
    <2>4. CASE Work
      BY <2>4 DEF Work, Calibrate, Image, Key, setMDSParams, Start, Camera, Stop, Shutdown
    <2> QED BY <2>1, <2>2, <2>3, <2>4 DEF Next, MainStep
  <1>2. reheeded' \in BOOLEAN
    <2>1. reheeded' = reheeded \/ reheeded' = (reheeded \/ (heeded /\ dataFromUI # "UF"))
      BY Zenon DEF Next, Press, GameOver, PowerOff, PowerOn, ListenStep, Listen, ListenEof, ListenReset,
                   ListenNothing, ListenConnect, MainStep, Startup, Heed, Work, Interrupt, StopAborted, Dies, main
    <2> QED BY <2>1 DEF FlagsOK
  <1>3. excuse' \subseteq {"hasty", "unheard", "changed", "double"}
    BY DEF FlagsOK, Next, Press, GameOver, Note, PowerOff, PowerOn, ListenStep, Listen, ListenEof,
           ListenReset, ListenNothing, ListenConnect, MainStep, Startup, Heed, Work, Interrupt, StopAborted, Dies
  <1> QED BY <1>1, <1>2, <1>3 DEF FlagsOK

\* A step of the session keeps the types of the host's variables.
LEMMA HostStep ==
    ASSUME HostOK, IInv', Next
    PROVE  HostOK'
  <1> USE DEF HostOK
  <1>1. CASE Press \/ GameOver \/ PowerOn
    BY <1>1 DEF Press, GameOver, PowerOn, thread, main
  <1>2. CASE PowerOff
    BY <1>2 DEF PowerOff, main
  <1>3. CASE ListenStep
    BY <1>3 DEF ListenStep, Listen, ListenEof, ListenReset, ListenNothing, ListenConnect,
                connect, NextRound, main
  <1>4. /\ state' \in States /\ mallet' \in {"off", "calibrating", "on"}
        /\ step' \in 0..5 /\ (state' \in {"await", "image"} => step' \in 1..5)
    BY DEF IInv, Typed
  <1>5. CASE Startup \/ Heed \/ Interrupt \/ StopAborted
    BY <1>4, <1>5 DEF Startup, connect, Heed, Interrupt, StopAborted, Dies, thread
  <1>6. CASE Work
    BY <1>4, <1>6 DEF Work, Calibrate, Image, Key, setMDSParams, Start, Camera, Stop, Shutdown, thread
  <1> QED BY <1>1, <1>2, <1>3, <1>5, <1>6 DEF Next, MainStep

\* The variables have their types, with any number of messages under way.
THEOREM TypeCorrectness ==
    Spec => []TypeOK
  <1>1. Init => TypeOK
    <2> SUFFICES ASSUME Init PROVE TypeOK
      OBVIOUS
    <2>1. TableOK /\ LinkOK /\ FlagsOK
      <3>1. TableOK /\ LinkOK
        BY NoMessages DEF Init, TableOK, LinkOK, Screens, Data
      <3>2. FlagsOK
        BY DEF Init, FlagsOK
      <3> QED BY <3>1, <3>2
    <2>2. HostOK
      <3>1. /\ sock = "none" /\ hears = "none" /\ state = "startup" /\ died = "none" /\ step = 0
            /\ difficulty \in Levels /\ params = difficulty /\ mallet = "off"
        BY DEF Init
      <3>2. step \in 0..5
        <4>1. step = 0
          BY <3>1
        <4> QED BY <4>1
      <3>4. state \notin {"await", "image"}
        BY <3>1
      <3>3. state \in States /\ died \in States \cup {"none"}
        BY <3>1 DEF States
      <3> QED BY <3>1, <3>2, <3>3, <3>4 DEF HostOK
    <2> QED BY <2>1, <2>2 DEF TypeOK
  <1>2. TypeOK /\ IInv' /\ [Next]_vars => TypeOK'
    <2> SUFFICES ASSUME TypeOK, IInv', [Next]_vars PROVE TypeOK'
      OBVIOUS
    <2>1. CASE Next
      BY <2>1, TableStep, LinkStep, FlagsStep, HostStep DEF TypeOK
    <2>2. CASE UNCHANGED vars
      BY <2>2 DEF vars, screens, thread, main, TypeOK, TableOK, LinkOK, HostOK, FlagsOK
    <2> QED BY <2>1, <2>2
  <1> QED BY <1>1, <1>2, Invariance, PTL DEF Spec

-----------------------------------------------------------------------------
(* What the host and the screens agree on.  Messages that the host was not     *)
(* ready for, or did not get, or a choice that was taken back, each take away  *)
(* a part of it; an interrupt takes away all.                                  *)

\* The states that wait for a message, and those between that and the next.
Waiting == {"idle", "await", "wait", "playing"}
Busy    == {"calibrate", "image", "key", "params", "starting", "camera", "stopping", "shutdown"}

\* The machine of the screens is going down, or off.
Down == ui \in {"leaving", "closing", "off"}

\* Where the start of the host and the closing of its port leave the flags, and
\* what a screen and a socket say of the other end.
Connected ==
    /\ state = "startup" =>
        /\ hears = "none" /\ sock = "none" /\ link = << >> /\ dataFromUI = ""
        /\ ~ser_open /\ ~listen_should_exit
    /\ state \notin {"startup", "dead"} => (ser_open <=> ~listen_should_exit)
    /\ Down <=> screen = "off"
    /\ ui = "leaving" => "unheard" \in excuse
    /\ sock = "up" => ui \in {"accepted", "closing"}
    /\ state = "dead" => hears = "ended"

\* The host waits for a message that has not come.
Quiet == ser_open /\ state \in Waiting /\ dataFromUI \notin Heeds

\* A connection that the interface has closed still has the turn-off to be read,
\* or nobody to read it, or was only made after a turn-off that was not heard.
Closing ==
    sock = "eof" \/ (ui = "closing" /\ sock = "up") =>
        link = <<"UF">> \/ hears = "ended" \/ ("unheard" \in excuse /\ Quiet)

\* While the host is busy, dataFromUI is what it is busy with.
Cause ==
    /\ state = "calibrate" => dataFromUI = "UCS"
    /\ state = "image" => dataFromUI = Awaited[step]
    /\ state = "key" => dataFromUI = "UCD"
    /\ state = "params" => dataFromUI \in Levels
    /\ state \in {"starting", "camera"} => dataFromUI = "US"
    /\ state = "stopping" => dataFromUI = "UP"
    /\ state = "shutdown" => dataFromUI = "UF"

\* What is under way was sent to a host that waited for a message and did not
\* have it yet; only the end of a game can be sent twice.
InFlight ==
    link # << >> =>
        /\ hears = "listening" /\ ser_open
        /\ IF link = <<"UF">> THEN ui \in {"closing", "off"} /\ sock \in {"up", "eof"}
           ELSE ui = "accepted" /\ sock = "up"
        /\ \/ Len(link) = 1 /\ state \in Waiting /\ dataFromUI \notin Heeds
           \/ link = <<"UP", "UP">> /\ state \in Waiting /\ dataFromUI \notin Heeds
           \/ link = <<"UP">> /\ dataFromUI = "UP" /\ state \in {"playing", "stopping"}

\* From the turn-off on the listening thread has no connection to a machine, and
\* when the port has been closed it will not have one again.  Whenever it has none,
\* the host waits for a message, or has the turn-off.
Unread == ~(hears = "listening" /\ sock \in {"up", "eof"})
TurnedOff ==
    /\ ser_open /\ (state = "shutdown" \/ (state = "idle" /\ dataFromUI = "UF")) =>
        ui \in {"closing", "off"} /\ Unread
    /\ ~ser_open /\ state # "startup" =>
        state \in {"idle", "shutdown"} /\ dataFromUI = "UF" /\ Unread
    /\ ser_open /\ Unread =>
        \/ state = "shutdown"
        \/ state \in Waiting /\ (dataFromUI \in Heeds => state = "idle" /\ dataFromUI = "UF")

\* The latest message that was sent.
Latest == IF link = << >> THEN dataFromUI ELSE link[1]

\* The screens that can be shown while it is that one.
Shown ==
    /\ Latest = ""    => screen \in {"start", "welcome", "difficulty"}
    /\ Latest = "UCS" => screen = "cal0"
    /\ Latest = "UC1" => screen = "cal1"
    /\ Latest = "UC2" => screen = "cal2"
    /\ Latest = "UC3" => screen = "cal3"
    /\ Latest = "UC4" => screen = "cal4"
    /\ Latest = "UCD" => screen \in {"welcome", "difficulty"}
    /\ Latest \in Levels =>
        screen = "ready" \/ ("changed" \in excuse /\ screen \in {"welcome", "difficulty"})
    /\ Latest = "US"  => screen = "score"
    /\ Latest = "UP"  => screen \in {"over", "welcome", "difficulty"}
    /\ Latest = "UF"  => screen \in {"off", "start", "welcome", "difficulty"}

\* A machine that is off has said so, and a game is followed by its end.
Followed ==
    /\ Len(link) <= 1
    /\ Down => Latest = "UF"
    /\ state = "playing" => dataFromUI \in {"US", "UP"} /\ Latest \in {"US", "UP"}
    /\ Shown

\* Where the host is when the latest message is the one it is.
Lockstep ==
    /\ state = "idle" => Latest \in {"", "UCS", "UCD", "UP", "UF"} \cup Levels
    /\ state = "await" => Latest = Awaited[step] \/ Latest = (IF step = 1 THEN "UCS" ELSE Awaited[step - 1])
    /\ state = "wait" => Latest \in {"US"} \cup Levels

\* The choice that is shown is the one that is played.
Choice ==
    /\ Latest \in Levels => chosen = Latest
    /\ state \in {"params", "wait", "starting", "camera"} \/ (state = "playing" /\ Latest = "US") =>
        chosen = difficulty
    /\ state \in {"wait", "starting", "camera", "playing"} => params = difficulty

Session ==
    /\ Connected
    /\ died = "none" /\ "hasty" \notin excuse => Closing /\ Cause /\ InFlight /\ TurnedOff
    /\ died = "none" /\ excuse \subseteq {"changed"} => Followed
    /\ died = "none" /\ excuse = {} => Lockstep /\ Choice

SInv == IInv /\ TypeOK /\ Session

-----------------------------------------------------------------------------
\* What the buttons of each screen send, and where they lead.
Leads(s, m, t) ==
    /\ s \in {"start", "over"} => m = "" /\ t = "welcome"
    /\ s = "welcome" => \/ m = "UCS" /\ t = "cal0"
                        \/ m = "" /\ t = "difficulty"
                        \/ m = "UF" /\ t = "off"
    /\ s = "cal0" => m = "UC1" /\ t = "cal1"
    /\ s = "cal1" => m = "UC2" /\ t = "cal2"
    /\ s = "cal2" => m = "UC3" /\ t = "cal3"
    /\ s = "cal3" => m = "UC4" /\ t = "cal4"
    /\ s = "cal4" => m = "UCD" /\ t = "welcome"
    /\ s = "difficulty" => (m = "" /\ t = "welcome") \/ (m \in Levels /\ t = "ready")
    /\ s = "ready" => (m = "" /\ t = "difficulty") \/ (m = "US" /\ t = "score")
    /\ s \notin {"score", "off"} /\ t # "over"
    /\ m = "UF" <=> t = "off"
    /\ t = "start" => FALSE

\* Every button leads where Leads says.
LEMMA ButtonLeads ==
    ASSUME NEW b \in Buttons
    PROVE  Leads(b[1], b[2], b[3])
  <1> DEFINE T == {c \in Screens \X (Messages \cup {""}) \X Screens : Leads(c[1], c[2], c[3])}
  <1>1. \A d \in Levels : <<"difficulty", d, "ready">> \in T
    BY GameAssumption DEF Leads, Screens, Messages
  <1>2. /\ <<"start", "", "welcome">> \in T /\ <<"over", "", "welcome">> \in T
        /\ <<"welcome", "UCS", "cal0">> \in T /\ <<"cal0", "UC1", "cal1">> \in T
        /\ <<"cal1", "UC2", "cal2">> \in T /\ <<"cal2", "UC3", "cal3">> \in T
        /\ <<"cal3", "UC4", "cal4">> \in T /\ <<"cal4", "UCD", "welcome">> \in T
        /\ <<"welcome", "", "difficulty">> \in T /\ <<"difficulty", "", "welcome">> \in T
        /\ <<"ready", "", "difficulty">> \in T /\ <<"ready", "US", "score">> \in T
        /\ <<"welcome", "UF", "off">> \in T
    BY DEF Leads, Screens, Messages
  <1> HIDE DEF T
  <1>3. b \in T
    BY <1>1, <1>2, Zenon DEF Buttons
  <1> QED BY <1>3 DEF T

\* Whoever sends something to a host that is settled sends it on an empty link;
\* what is sent to another one is excused.
LEMMA NoteFacts ==
    ASSUME LinkOK, NEW ms \in Seq(Messages), ms # << >>, NEW ns \in Seq(Messages), ns # << >>,
           link' = Sent(ns), NEW also, Note(ms, also)
    PROVE  /\ excuse \cup also \subseteq excuse'
           /\ ui # "accepted" => "unheard" \in excuse'
           /\ \/ Settled /\ link' = ns
              \/ /\ link' = link /\ "unheard" \in excuse'
                 /\ ~(ui = "accepted" /\ sock = "up" /\ hears # "ended")
              \/ "hasty" \in excuse'
  <1>1. excuse' = excuse \cup also \cup
            IF Settled THEN {} ELSE IF Sent(ms) = link THEN {"unheard"} ELSE {"hasty"}
    BY DEF Note
  <1>2. CASE Settled
    <2>1. Sent(ns) = link \o ns /\ link = << >>
      BY <1>2 DEF Settled, Sent
    <2>2. << >> \o ns = ns
      OBVIOUS
    <2>3. ui = "accepted"
      BY <1>2 DEF Settled
    <2> QED BY <1>1, <1>2, <2>1, <2>2, <2>3
  <1>3. CASE ~Settled /\ Sent(ms) = link
    <2>1. link \o ms # link
      <3>1. Len(link \o ms) # Len(link)
        BY DEF LinkOK
      <3> QED BY <3>1
    <2>2. ~(ui = "accepted" /\ sock = "up" /\ hears # "ended")
      BY <1>3, <2>1 DEF Sent
    <2>3. link' = link
      BY <2>2 DEF Sent
    <2> QED BY <1>1, <1>3, <2>2, <2>3
  <1>4. CASE ~Settled /\ Sent(ms) # link
    <2>1. ui = "accepted"
      BY <1>4 DEF Sent
    <2> QED BY <1>1, <1>4, <2>1
  <1> QED BY <1>2, <1>3, <1>4

\* Who sends nothing needs no excuse.
LEMMA NoteNothing ==
    ASSUME LinkOK, NEW also, Note(<< >>, also)
    PROVE  excuse' = excuse \cup also /\ Sent(<< >>) = link
  <1>1. excuse' = excuse \cup also \cup {}
    BY Zenon DEF Note
  <1>2. link \o << >> = link
    BY DEF LinkOK
  <1> QED BY <1>1, <1>2 DEF Sent

\* A host that is settled is connected, has its port open and does not have the
\* message that it waits for.
LEMMA SettledFacts ==
    ASSUME Connected, TurnedOff, Settled
    PROVE  /\ ui = "accepted" /\ sock = "up" /\ hears = "listening" /\ link = << >>
           /\ state \in Waiting /\ dataFromUI \notin Heeds /\ ser_open
           /\ ~(state = "idle" /\ dataFromUI = "UF")
  <1>1. /\ ui = "accepted" /\ sock = "up" /\ hears = "listening" /\ link = << >>
        /\ state \in Waiting
    BY DEF Settled, Waiting
  <1>2. ser_open
    BY <1>1 DEF TurnedOff, Unread, Waiting
  <1>3. ~(state = "idle" /\ dataFromUI = "UF")
    BY <1>1, <1>2 DEF TurnedOff, Unread
  <1> QED BY <1>1, <1>2, <1>3 DEF Settled

\* What is under way is a message, or two that a game is over.
LEMMA InFlightFacts ==
    ASSUME LinkOK, InFlight, link # << >>
    PROVE  \/ /\ Len(link) = 1 /\ link[1] \in Messages /\ link = <<link[1]>>
              /\ state \in Waiting /\ dataFromUI \notin Heeds
           \/ /\ link = <<"UP", "UP">> /\ link # <<"UF">>
              /\ state \in Waiting /\ dataFromUI \notin Heeds
           \/ link = <<"UP">> /\ dataFromUI = "UP" /\ state \in {"playing", "stopping"}
  <1>1. CASE Len(link) = 1
    <2>1. link[1] \in Messages /\ link = <<link[1]>>
      BY <1>1 DEF LinkOK
    <2> QED BY <1>1, <2>1 DEF InFlight
  <1>2. CASE Len(link) # 1
    BY <1>2 DEF InFlight
  <1> QED BY <1>1, <1>2

\* While the host is busy nothing is under way, but for the second report of the
\* end of the game that it stops.
LEMMA BusyFacts ==
    ASSUME InFlight, state \in Busy \ {"stopping"}
    PROVE  link = << >>
  BY DEF InFlight, Busy, Waiting

\* A step that leaves the screens, the messages and the main loop alone.
LEMMA Agreed ==
    ASSUME UNCHANGED <<screen, chosen, link, dataFromUI, state, step, difficulty, params, excuse>>,
           Down' => Down
    PROVE  /\ Cause => Cause'
           /\ Followed => Followed'
           /\ Lockstep => Lockstep'
           /\ Choice => Choice'
           /\ Heeds' = Heeds
  <1>1. Latest' = Latest
    BY DEF Latest
  <1> QED BY <1>1 DEF Cause, Followed, Shown, Lockstep, Choice, Heeds

\* An interrupt leaves of the session what holds of a host that is dead.
LEMMA InterruptSession ==
    ASSUME SInv, Interrupt \/ StopAborted
    PROVE  Session'
  <1>1. Connected /\ Typed
    BY DEF SInv, Session, IInv
  <1>2. CASE Interrupt
    <2>1. died' # "none"
      BY <1>1, <1>2 DEF Interrupt, Typed, States
    <2>2. Connected'
      BY <1>1, <1>2 DEF Connected, Down, Interrupt, Dies, screens
    <2> QED BY <2>1, <2>2 DEF Session
  <1>3. CASE StopAborted
    <2>1. died' # "none"
      BY <1>1, <1>3 DEF StopAborted, Typed
    <2>2. Connected'
      BY <1>1, <1>3 DEF Connected, Down, StopAborted, Dies, screens
    <2> QED BY <2>1, <2>2 DEF Session
  <1> QED BY <1>2, <1>3

\* The start of the host: connected, with nothing sent and nothing received.
LEMMA StartupSession ==
    ASSUME SInv, Startup
    PROVE  Session'
  <1> USE DEF SInv
  <1>1. /\ state = "startup" /\ state' = "idle" /\ link = << >> /\ dataFromUI = ""
        /\ link' = << >> /\ dataFromUI' = "" /\ excuse' = excuse
        /\ \/ sock' = "up" /\ ui' = "accepted" /\ ui = "listening"
           \/ sock' = "up" /\ ui' = "closing" /\ ui = "leaving" /\ "unheard" \in excuse
           \/ sock' = "backlog" /\ ui' = "closing" /\ ui \in {"leaving", "closing"}
        /\ Down' <=> Down
        /\ ser_open' = TRUE /\ ~listen_should_exit' /\ UNCHANGED died
    BY DEF Session, Connected, Down, Startup, connect
  <1>2. Connected'
    BY <1>1 DEF Session, Connected, Startup
  <1>7. dataFromUI' \notin Heeds'
    BY <1>1, GameAssumption DEF Heeds, Messages
  <1>3. Closing' /\ Cause' /\ InFlight' /\ TurnedOff'
    <2>1. Quiet'
      BY <1>1, <1>7 DEF Quiet, Waiting
    <2> QED BY <1>1, <1>7, <2>1 DEF Closing, Cause, InFlight, TurnedOff, Waiting
  <1>4. Latest' = Latest /\ Latest = ""
    BY <1>1 DEF Latest
  <1>5. ASSUME Followed PROVE Followed'
    BY <1>1, <1>4, <1>5 DEF Followed, Shown, Startup
  <1>6. Lockstep' /\ Choice'
    BY <1>1, <1>4, GameAssumption DEF Lockstep, Choice
  <1> QED BY <1>1, <1>2, <1>3, <1>5, <1>6 DEF Session

\* The machine of the screens goes off, and is turned on again.
LEMMA PowerSession ==
    ASSUME SInv, PowerOff \/ PowerOn
    PROVE  Session'
  <1> USE DEF SInv
  <1>1. CASE PowerOff
    <2>1. /\ UNCHANGED <<screen, chosen, link, dataFromUI, state, step, difficulty, params, excuse>>
          /\ UNCHANGED <<hears, ser_open, listen_should_exit, died>>
          /\ ui \in {"leaving", "closing"} /\ ui' = "off"
          /\ Down' <=> Down
          /\ sock' = CASE sock = "up" -> "eof" [] sock = "backlog" -> "reset" [] OTHER -> sock
      BY <1>1 DEF PowerOff, main, Down
    <2>2. Connected'
      BY <2>1 DEF Session, Connected
    <2>3. ASSUME Closing PROVE Closing'
      <3>1. sock = "up" => ui = "closing"
        BY <2>1 DEF Session, Connected
      <3>2. Quiet => Quiet'
        BY <2>1, Agreed DEF Quiet
      <3> QED BY <2>1, <2>3, <3>1, <3>2 DEF Closing
    <2>4. ASSUME InFlight PROVE InFlight'
      BY <2>1, <2>4, Agreed DEF InFlight
    <2>5. ASSUME TurnedOff PROVE TurnedOff'
      BY <2>1, <2>5, Agreed DEF TurnedOff, Unread
    <2> QED BY <2>1, <2>2, <2>3, <2>4, <2>5, Agreed DEF Session
  <1>2. CASE PowerOn
    <2>1. /\ UNCHANGED <<chosen, link, dataFromUI, state, step, difficulty, params, excuse>>
          /\ UNCHANGED <<sock, hears, ser_open, listen_should_exit, died>>
          /\ ui = "off" /\ ui' = "listening" /\ screen' = "start" /\ Down /\ ~Down'
          /\ link = << >> /\ state # "shutdown"
          /\ state = "idle" /\ dataFromUI = "UF" => ~ser_open
      BY <1>2 DEF PowerOn, main, thread, Down
    <2>2. Connected'
      BY <2>1 DEF Session, Connected, Down
    <2>10. Quiet => Quiet'
      BY <2>1 DEF Quiet, Heeds
    <2>3. ASSUME Closing PROVE Closing' /\ (InFlight => InFlight')
      BY <2>1, <2>3, <2>10 DEF Closing, InFlight
    <2>5. ASSUME TurnedOff PROVE TurnedOff'
      BY <2>1, <2>5 DEF TurnedOff, Unread, Heeds
    <2>6. Latest' = Latest
      BY <2>1 DEF Latest
    <2>7. Cause => Cause'
      BY <2>1 DEF Cause
    <2>8. ASSUME Followed PROVE Followed'
      BY <2>1, <2>6, <2>8, GameAssumption DEF Followed, Shown
    <2>9. (Lockstep => Lockstep') /\ (Choice => Choice')
      BY <2>1, <2>6 DEF Lockstep, Choice
    <2> QED BY <2>1, <2>2, <2>3, <2>5, <2>7, <2>8, <2>9 DEF Session
  <1> QED BY <1>1, <1>2

\* The connection is closed, given up or made.
LEMMA ReconnectSession ==
    ASSUME SInv, ListenEof \/ ListenReset \/ ListenNothing \/ ListenConnect
    PROVE  Session'
  <1> USE DEF SInv
  <1>0. /\ UNCHANGED <<screen, chosen, link, state, step, difficulty, params, excuse>>
        /\ UNCHANGED <<ser_open, listen_should_exit, died>>
        /\ state \notin {"startup", "dead"} /\ hears \in {"listening", "connecting"}
    BY DEF ListenEof, ListenReset, ListenNothing, ListenConnect, screens, main, Session, Connected
  <1>1. CASE ListenEof
    <2>1. /\ hears = "listening" /\ sock = "eof" /\ link = << >>
          /\ UNCHANGED <<ui, sock>> /\ dataFromUI' = "" /\ NextRound
      BY <1>1 DEF ListenEof, screens
    <2>2. Connected'
      BY <1>0, <2>1 DEF Session, Connected, Down
    <2>3. ASSUME Closing PROVE "unheard" \in excuse /\ Quiet
      BY <2>1, <2>3 DEF Closing
    <2>4. dataFromUI' \notin Heeds'
      <3>1. Heeds' \subseteq Messages
        BY DEF Heeds
      <3>2. "" \notin Messages
        BY GameAssumption, Zenon DEF Messages
      <3> QED BY <2>1, <3>1, <3>2
    <2>5. ASSUME Closing PROVE Closing' /\ Cause' /\ InFlight' /\ TurnedOff'
      BY <1>0, <2>1, <2>3, <2>4, <2>5 DEF Closing, Cause, InFlight, TurnedOff, Quiet, Waiting, Unread
    <2> QED BY <1>0, <2>2, <2>3, <2>5 DEF Session
  <1>2. CASE ListenReset \/ ListenNothing \/ ListenConnect
    <2>1. /\ dataFromUI' = dataFromUI
          /\ \/ /\ sock = "reset" /\ sock' = "none" /\ ui' = ui
             \/ /\ link = << >> /\ hears' = "ended" /\ UNCHANGED <<ui, sock>>
             \/ /\ hears = "connecting" /\ sock' = "up" /\ ui = "listening" /\ ui' = "accepted"
             \/ /\ hears = "connecting" /\ sock' = "up" /\ ui = "leaving" /\ ui' = "closing"
             \/ /\ hears = "connecting" /\ sock' = "backlog" /\ ui \in {"leaving", "closing"}
                /\ ui' = "closing"
      BY <1>2 DEF ListenReset, ListenNothing, ListenConnect, connect, screens
    <2>2. /\ hears' \in {"connecting", "ended", "listening"}
          /\ listen_should_exit => hears' # "listening"
      BY <1>2 DEF ListenReset, ListenNothing, ListenConnect, NextRound
    <2>3. Down' <=> Down
      BY <2>1 DEF Down
    <2>4. Connected'
      BY <1>0, <2>1, <2>2, <2>3 DEF Session, Connected
    <2>5. ASSUME InFlight PROVE link = << >>
      BY <1>0, <2>1, <2>5 DEF InFlight
    <2>6. ASSUME Closing, InFlight, TurnedOff PROVE Closing' /\ InFlight'
      <3>1. InFlight'
        BY <1>0, <2>1, <2>5, <2>6 DEF InFlight
      <3>2. CASE hears = "connecting" /\ ui = "leaving" /\ sock' = "up"
        <4>1. "unheard" \in excuse
          BY <3>2 DEF Session, Connected
        <4>2. CASE ~ser_open
          <5>1. listen_should_exit
            BY <1>0, <4>2 DEF Session, Connected
          <5>2. hears' = "ended"
            BY <1>2, <2>1, <3>2, <5>1 DEF ListenConnect, ListenReset, ListenNothing, NextRound
          <5> QED BY <3>1, <5>2 DEF Closing
        <4>3. CASE ser_open
          <5>1. Unread
            BY <3>2 DEF Unread
          <5>2. Quiet
            BY <2>6, <3>2, <4>3, <5>1 DEF TurnedOff, Quiet, Waiting
          <5>3. Quiet'
            BY <1>0, <2>1, <2>3, <5>2, Agreed DEF Quiet
          <5> QED BY <1>0, <3>1, <4>1, <5>3 DEF Closing
        <4> QED BY <4>2, <4>3
      <3>3. CASE ~(hears = "connecting" /\ ui = "leaving" /\ sock' = "up")
        <4>1. Quiet => Quiet'
          BY <1>0, <2>1, <2>3, Agreed DEF Quiet
        <4> QED BY <1>0, <2>1, <2>2, <2>5, <2>6, <3>1, <3>3, <4>1 DEF Closing
      <3> QED BY <3>1, <3>2, <3>3
    <2>7. ASSUME TurnedOff PROVE TurnedOff'
      <3>1. ser_open <=> ~listen_should_exit
        BY <1>0 DEF Session, Connected
      <3>2. ASSUME Unread, ui \in {"closing", "off"} \/ ~ser_open PROVE Unread'
        BY <1>0, <2>1, <2>2, <3>1, <3>2 DEF Unread
      <3>3. ASSUME ser_open, Unread' PROVE Unread
        BY <1>2, <2>1, <3>1, <3>3 DEF Unread, ListenReset, ListenNothing, ListenConnect
      <3>4. ui \in {"closing", "off"} => ui' \in {"closing", "off"}
        BY <2>1
      <3>5. Heeds' = Heeds
        BY <1>0 DEF Heeds
      <3> QED BY <1>0, <2>1, <2>7, <3>2, <3>3, <3>4, <3>5 DEF TurnedOff
    <2>8. /\ Cause => Cause'
          /\ Followed => Followed'
          /\ Lockstep => Lockstep'
          /\ Choice => Choice'
      BY <1>0, <2>1, <2>3, Agreed
    <2> QED BY <1>0, <2>4, <2>6, <2>7, <2>8 DEF Session
  <1> QED BY <1>1, <1>2

\* A button that sends nothing leads to another screen.
LEMMA SilentPress ==
    ASSUME SInv, NEW m, NEW t, Leads(screen, m, t), m = "", screen' = t,
           NEW also, Note(<< >>, also), link' = Sent(<< >>),
           also = IF screen = "ready" /\ t = "difficulty" THEN {"changed"} ELSE {},
           UNCHANGED <<ui, chosen, thread, main, heeded>>
    PROVE  Session'
  <1> USE DEF SInv
  <1>2. excuse' = excuse \cup also /\ Sent(<< >>) = link
    <2>1. LinkOK
      BY DEF TypeOK
    <2> QED BY <2>1, NoteNothing
  <1>1. /\ link' = link
        /\ UNCHANGED <<ui, chosen, sock, hears, dataFromUI, state, step, difficulty, params,
                       ser_open, listen_should_exit, died>>
        /\ Down' = Down
    BY <1>2 DEF thread, main, Down
  <1>3. Connected'
    <2>1. screen' = "off" <=> screen = "off"
      BY DEF Leads
    <2> QED BY <1>1, <1>2, <2>1 DEF Session, Connected
  <1>4. /\ Closing => Closing'
        /\ Cause => Cause'
        /\ TurnedOff => TurnedOff'
    <2>1. Heeds' = Heeds
      BY <1>1 DEF Heeds
    <2> QED BY <1>1, <1>2, <2>1 DEF Closing, Quiet, Cause, TurnedOff, Unread
  <1>5. InFlight => InFlight'
    BY <1>1 DEF InFlight, Heeds
  <1>6. Latest' = Latest
    BY <1>1 DEF Latest
  <1>7. ASSUME Followed, TypeOK PROVE Followed'
    <2>1. Shown'
      BY <1>2, <1>6, <1>7, GameAssumption DEF Followed, Shown, Leads
    <2> QED BY <1>1, <1>6, <1>7, <2>1 DEF Followed
  <1>8. (Lockstep => Lockstep') /\ (Choice => Choice')
    BY <1>1, <1>6 DEF Lockstep, Choice
  <1> QED BY <1>1, <1>2, <1>3, <1>4, <1>5, <1>7, <1>8 DEF Session

\* A message that is not heard changes nothing.
LEMMA UnheardSession ==
    ASSUME SInv, UNCHANGED <<link, thread, main, heeded>>, Connected',
           excuse \subseteq excuse', "unheard" \in excuse',
           ui' = ui \/ (ui' \in {"leaving", "closing"} /\ screen # "off"),
           ~(ui = "accepted" /\ sock = "up" /\ hears # "ended")
    PROVE  Session'
  <1> USE DEF SInv
  <1>1. UNCHANGED <<link, sock, hears, dataFromUI, state, step, ser_open, died>>
        /\ Heeds' = Heeds
    BY DEF thread, main, Heeds
  <1>2. Down <=> screen = "off"
    BY DEF Session, Connected
  <1>3. Closing => Closing'
    BY <1>1, <1>2 DEF Session, Connected, Down, Closing, Quiet
  <1>4. Cause => Cause'
    BY <1>1 DEF Cause
  <1>5. InFlight => InFlight'
    BY <1>1, <1>2 DEF InFlight, Down
  <1>6. TurnedOff => TurnedOff'
    BY <1>1, <1>2 DEF TurnedOff, Unread, Down
  <1> QED BY <1>1, <1>3, <1>4, <1>5, <1>6 DEF Session

\* A button sends a message to a host that is settled: it is the one that the
\* host waits for.
LEMMA SettledPress ==
    ASSUME SInv, NEW m \in Messages, NEW t, Leads(screen, m, t), screen' = t, Settled, link' = << m >>,
           excuse \subseteq excuse', Connected', "hasty" \notin excuse, died = "none",
           chosen' = IF m \in Levels THEN m ELSE chosen,
           ui' = IF m = "UF" THEN "closing" ELSE ui,
           UNCHANGED <<thread, main, heeded>>
    PROVE  Session'
  <1> USE DEF SInv
  <1>1. UNCHANGED <<sock, hears, dataFromUI, state, step, difficulty, params, ser_open, died>>
    BY DEF thread, main
  <1>2. Closing /\ Cause /\ InFlight /\ TurnedOff /\ Connected
    BY DEF Session
  <1>3. /\ ui = "accepted" /\ sock = "up" /\ hears = "listening" /\ link = << >>
        /\ state \in Waiting /\ dataFromUI \notin Heeds /\ ser_open
        /\ ~(state = "idle" /\ dataFromUI = "UF")
    BY <1>2, SettledFacts
  <1>4. Heeds' = Heeds
    BY <1>1 DEF Heeds
  <1>5. Len(link') = 1 /\ link'[1] = m /\ link' # << >> /\ (link' = <<"UF">> <=> m = "UF")
    OBVIOUS
  <1>6. Latest = dataFromUI /\ Latest' = m
    BY <1>3, <1>5 DEF Latest
  <1>7. Closing' /\ Cause'
    BY <1>1, <1>2, <1>3, <1>5 DEF Closing, Cause
  <1>8. InFlight'
    BY <1>1, <1>3, <1>4, <1>5 DEF InFlight
  <1>9. TurnedOff'
    BY <1>1, <1>2, <1>3 DEF TurnedOff, Unread, Waiting
  <1>10. ASSUME Followed PROVE state # "playing"
    <2>1. CASE state = "playing"
      <3>1. dataFromUI = "US"
        <4>1. "UP" \in Heeds
          BY <2>1 DEF Heeds, Messages
        <4> QED BY <1>3, <1>10, <2>1, <4>1 DEF Followed
      <3>2. screen = "score"
        BY <1>6, <1>10, <3>1 DEF Followed, Shown
      <3> QED BY <3>2 DEF Leads
    <2> QED BY <2>1
  <1>11. ASSUME Followed PROVE Followed'
    <2>1. screen \in Screens
      BY Zenon DEF TypeOK, TableOK
    <2>2. Leads(screen, m, screen') /\ m \in Messages
      OBVIOUS
    <2>3. Shown'
      BY <1>6, <2>1, <2>2, GameAssumption DEF Shown, Leads, Screens, Messages
    <2>4. Down' => m = "UF"
      BY <1>3 DEF Down
    <2> QED BY <1>1, <1>3, <1>5, <1>6, <1>10, <1>11, <2>3, <2>4 DEF Followed
  <1>12. ASSUME Followed, Lockstep, state = "idle"
         PROVE  Latest' \in {"", "UCS", "UCD", "UP", "UF"} \cup Levels
    <2>1. {"UCS", "UF"} \cup Levels \subseteq Heeds
      BY <1>12, GameAssumption DEF Heeds, Messages
    <2>2. dataFromUI \in {"", "UCD", "UP"}
      BY <1>3, <1>6, <1>12, <2>1 DEF Lockstep
    <2>3. screen \in {"start", "welcome", "difficulty", "over"}
      BY <1>6, <1>12, <2>2 DEF Followed, Shown
    <2> QED BY <1>6, <2>3 DEF Leads
  <1>13. ASSUME Followed, Lockstep, state = "await"
         PROVE  Latest' = Awaited[step]
    <2>1. step \in {1, 2, 3, 4, 5}
      BY <1>13 DEF IInv, Typed
    <2>2. Awaited[step] \in Heeds
      BY <1>13, <2>1, AwaitedFacts DEF Heeds, Messages
    <2>3. dataFromUI = IF step = 1 THEN "UCS" ELSE Awaited[step - 1]
      BY <1>3, <1>6, <1>13, <2>2 DEF Lockstep
    <2>4. /\ step = 1 => screen = "cal0"
          /\ step = 2 => screen = "cal1"
          /\ step = 3 => screen = "cal2"
          /\ step = 4 => screen = "cal3"
          /\ step = 5 => screen = "cal4"
      <3>1. /\ step = 1 => dataFromUI = "UCS"
            /\ step = 2 => dataFromUI = "UC1"
            /\ step = 3 => dataFromUI = "UC2"
            /\ step = 4 => dataFromUI = "UC3"
            /\ step = 5 => dataFromUI = "UC4"
        BY <2>3, AwaitedFacts
      <3> QED BY <1>6, <1>13, <3>1 DEF Followed, Shown
    <2>5. Leads(screen, m, t)
      OBVIOUS
    <2> QED BY <1>6, <2>1, <2>4, <2>5, AwaitedFacts DEF Leads
  <1>14. ASSUME Followed, Lockstep, state = "wait", excuse = {}
         PROVE  Latest' = "US"
    <2>1. "US" \in Heeds
      BY <1>14 DEF Heeds, Messages
    <2>2. dataFromUI \in Levels
      BY <1>3, <1>6, <1>14, <2>1 DEF Lockstep
    <2>3. screen = "ready"
      BY <1>6, <1>14, <2>2 DEF Followed, Shown
    <2> QED BY <1>6, <2>3, GameAssumption DEF Leads, Messages
  <1>15. ASSUME Followed, Lockstep, Choice, excuse = {} PROVE Lockstep' /\ Choice'
    <2>1. Lockstep'
      BY <1>1, <1>12, <1>13, <1>14, <1>15 DEF Lockstep
    <2>2. state \in {"idle", "await", "wait"}
      BY <1>3, <1>10, <1>15 DEF Waiting
    <2>3. CASE state = "wait"
      BY <1>1, <1>6, <1>14, <1>15, <2>1, <2>3, GameAssumption DEF Choice
    <2>4. CASE state \in {"idle", "await"}
      BY <1>1, <1>6, <2>1, <2>4 DEF Choice
    <2> QED BY <2>1, <2>2, <2>3, <2>4
  <1> QED BY <1>1, <1>7, <1>8, <1>9, <1>11, <1>15 DEF Session

\* A button: what it sends is the latest message and goes with the screen it leads
\* to, and finds the host where it waits for it, or there is an excuse.
LEMMA PressSession ==
    ASSUME SInv, Press
    PROVE  Session'
  <1> USE DEF SInv
  <1>1. PICK b \in Buttons :
            LET ms == IF b[2] = "" THEN << >> ELSE << b[2] >>
            IN  /\ screen = b[1] /\ screen' = b[3]
                /\ link' = Sent(ms) /\ Len(link') <= MaxLink
                /\ chosen' = IF b[2] \in Levels THEN b[2] ELSE chosen
                /\ Note(ms, IF b[1] = "ready" /\ b[3] = "difficulty" THEN {"changed"} ELSE {})
                /\ ui' = IF b[2] # "UF" THEN ui
                         ELSE IF ui = "listening" THEN "leaving" ELSE "closing"
    BY DEF Press
  <1> DEFINE m == b[2]
             also == IF screen = "ready" /\ b[3] = "difficulty" THEN {"changed"} ELSE {}
  <1>2. /\ Leads(screen, m, b[3]) /\ m \in Messages \cup {""}
        /\ UNCHANGED <<thread, main, heeded>>
    BY <1>1, ButtonLeads, ButtonFacts DEF Press
  <1>3. CASE m = ""
    <2>1. "" \notin Levels
      BY GameAssumption
    <2>2. Note(<< >>, also) /\ link' = Sent(<< >>) /\ UNCHANGED <<ui, chosen>>
      BY <1>1, <1>3, <2>1
    <2> HIDE DEF m
    <2> QED BY <1>1, <1>2, <1>3, <2>2, SilentPress
  <1>4. CASE m # ""
    <2>1. m \in Messages /\ << m >> \in Seq(Messages) /\ << m >> # << >>
      <3>1. m \in Messages
        BY <1>2, <1>4
      <3> HIDE DEF m
      <3> QED BY <3>1
    <2>2. Note(<< m >>, also) /\ link' = Sent(<< m >>)
      BY <1>1, <1>4
    <2>3. LinkOK
      BY DEF TypeOK
    <2> HIDE DEF m, also
    <2>4. /\ excuse \cup also \subseteq excuse'
          /\ ui # "accepted" => "unheard" \in excuse'
          /\ \/ Settled /\ link' = << m >>
             \/ /\ link' = link /\ "unheard" \in excuse'
                /\ ~(ui = "accepted" /\ sock = "up" /\ hears # "ended")
             \/ "hasty" \in excuse'
      BY <2>1, <2>2, <2>3, NoteFacts
    <2>5. UNCHANGED <<sock, hears, dataFromUI, state, ser_open, listen_should_exit, died>>
      BY <1>2 DEF thread, main
    <2>6. /\ screen # "off"
          /\ ui' = IF m # "UF" THEN ui ELSE IF ui = "listening" THEN "leaving" ELSE "closing"
          /\ screen' = b[3] /\ (m = "UF" <=> screen' = "off")
          /\ chosen' = IF m \in Levels THEN m ELSE chosen
      BY <1>1, <1>2 DEF Leads, m
    <2>7. Connected'
      <3>1. state = "startup" => link' = << >>
        BY <2>2 DEF Sent, Session, Connected
      <3>2. ui \notin {"leaving", "closing", "off"}
        BY <2>6 DEF Session, Connected, Down
      <3>3. Down' <=> screen' = "off"
        BY <2>6, <3>2 DEF Down
      <3> QED BY <2>4, <2>5, <2>6, <3>1, <3>2, <3>3 DEF Session, Connected
    <2>8. CASE Settled /\ link' = << m >> /\ "hasty" \notin excuse
      <3>1. died = "none"
        BY <2>8 DEF Settled, IInv, Typed
      <3>2. ui' = IF m = "UF" THEN "closing" ELSE ui
        BY <2>6, <2>8 DEF Settled
      <3> QED BY <1>2, <2>1, <2>4, <2>6, <2>7, <2>8, <3>1, <3>2, SettledPress
    <2>9. CASE /\ link' = link /\ "unheard" \in excuse'
               /\ ~(ui = "accepted" /\ sock = "up" /\ hears # "ended")
      BY <1>2, <2>4, <2>6, <2>7, <2>9, UnheardSession
    <2>10. CASE "hasty" \in excuse'
      BY <2>7, <2>10 DEF Session
    <2> QED BY <2>4, <2>8, <2>9, <2>10
  <1> QED BY <1>3, <1>4

\* The end of a game is sent to a host that is settled: it plays that game.
LEMMA SettledGameOver ==
    ASSUME SInv, screen = "score", screen' = "over", Settled,
           link' = <<"UP">> \/ (link' = <<"UP", "UP">> /\ "double" \in excuse'),
           excuse \subseteq excuse', Connected', "hasty" \notin excuse, died = "none",
           UNCHANGED <<ui, chosen, thread, main, heeded>>
    PROVE  Session'
  <1> USE DEF SInv
  <1>1. UNCHANGED <<sock, hears, dataFromUI, state, step, difficulty, params, ser_open, died>>
    BY DEF thread, main
  <1>2. Closing /\ Cause /\ InFlight /\ TurnedOff /\ Connected
    BY DEF Session
  <1>3. /\ ui = "accepted" /\ sock = "up" /\ hears = "listening" /\ link = << >>
        /\ state \in Waiting /\ dataFromUI \notin Heeds /\ ser_open
        /\ ~(state = "idle" /\ dataFromUI = "UF")
    BY <1>2, SettledFacts
  <1>4. Heeds' = Heeds
    BY <1>1 DEF Heeds
  <1>5. /\ link'[1] = "UP" /\ link' # << >> /\ link' # <<"UF">>
        /\ link' = <<"UP">> => Len(link') = 1
    OBVIOUS
  <1>6. Latest = dataFromUI /\ Latest' = "UP"
    BY <1>3, <1>5 DEF Latest
  <1>7. Closing' /\ Cause'
    BY <1>1, <1>2, <1>3 DEF Closing, Cause
  <1>8. InFlight'
    BY <1>1, <1>3, <1>4, <1>5 DEF InFlight
  <1>9. TurnedOff'
    BY <1>1, <1>2, <1>4 DEF TurnedOff, Unread
  <1>10. ASSUME Followed, "double" \notin excuse' PROVE Followed'
    <2>1. Shown'
      BY <1>6, GameAssumption DEF Shown
    <2>2. Len(link') <= 1
      <3>1. link' = <<"UP">>
        BY <1>10, Zenon
      <3> QED BY <1>5, <3>1
    <2>3. ~Down'
      BY <1>3 DEF Down
    <2> QED BY <1>1, <1>3, <1>6, <1>10, <2>1, <2>2, <2>3, Zenon DEF Followed
  <1>11. ASSUME Followed, Lockstep, excuse = {} PROVE state \notin {"await", "wait"}
    <2>1. dataFromUI \notin {"UCS", "UC1", "UC2", "UC3", "UC4", "UCD"} \cup Levels
      BY <1>6, <1>11 DEF Followed, Shown
    <2>2. CASE state = "await"
      <3>1. step \in {1, 2, 3, 4, 5}
        BY <2>2 DEF IInv, Typed
      <3>2. dataFromUI = Awaited[step] \/ dataFromUI = (IF step = 1 THEN "UCS" ELSE Awaited[step - 1])
        BY <1>6, <1>11, <2>2 DEF Lockstep
      <3> QED BY <2>1, <3>1, <3>2, AwaitedFacts
    <2>3. CASE state = "wait"
      <3>1. "US" \in Heeds
        BY <2>3 DEF Heeds, Messages
      <3> QED BY <1>3, <1>6, <1>11, <2>1, <2>3, <3>1 DEF Lockstep
    <2> QED BY <2>2, <2>3
  <1>12. ASSUME Followed, Lockstep, Choice, excuse = {} PROVE Lockstep' /\ Choice'
    BY <1>1, <1>3, <1>6, <1>11, <1>12, GameAssumption DEF Lockstep, Choice, Waiting
  <1> QED BY <1>1, <1>7, <1>8, <1>9, <1>10, <1>12 DEF Session

\* The end of a game is sent to a host that plays, or there is an excuse.
LEMMA GameOverSession ==
    ASSUME SInv, GameOver
    PROVE  Session'
  <1> USE DEF SInv
  <1>1. /\ screen = "score" /\ screen' = "over"
        /\ UNCHANGED <<ui, chosen, thread, main, heeded>>
        /\ \/ link' = Sent(<<"UP">>) /\ Note(<<"UP">>, {})
           \/ link' = Sent(<<"UP", "UP">>) /\ Note(<<"UP">>, {"double"})
    BY DEF GameOver
  <1>2. /\ excuse \subseteq excuse'
        /\ \/ Settled /\ (link' = <<"UP">> \/ (link' = <<"UP", "UP">> /\ "double" \in excuse'))
           \/ /\ link' = link /\ "unheard" \in excuse'
              /\ ~(ui = "accepted" /\ sock = "up" /\ hears # "ended")
           \/ "hasty" \in excuse'
    <2>1. LinkOK
      BY DEF TypeOK
    <2>2. /\ <<"UP">> \in Seq(Messages) /\ <<"UP", "UP">> \in Seq(Messages)
          /\ <<"UP">> # << >> /\ <<"UP", "UP">> # << >>
      BY DEF Messages
    <2>3. CASE link' = Sent(<<"UP">>) /\ Note(<<"UP">>, {})
      BY <2>1, <2>2, <2>3, NoteFacts
    <2>4. CASE link' = Sent(<<"UP", "UP">>) /\ Note(<<"UP">>, {"double"})
      BY <2>1, <2>2, <2>4, NoteFacts
    <2> QED BY <1>1, <2>3, <2>4
  <1>3. UNCHANGED <<sock, hears, dataFromUI, state, ser_open, listen_should_exit, died>>
        /\ Down' = Down
    BY <1>1 DEF thread, main, Down
  <1>4. Connected'
    <2>1. state = "startup" => link' = << >>
      BY <1>1 DEF Sent, Session, Connected
    <2> QED BY <1>1, <1>2, <1>3, <2>1 DEF Session, Connected
  <1>5. CASE "hasty" \in excuse'
    BY <1>4, <1>5 DEF Session
  <1>6. CASE /\ Settled /\ "hasty" \notin excuse'
             /\ link' = <<"UP">> \/ (link' = <<"UP", "UP">> /\ "double" \in excuse')
    <2>1. died = "none" /\ "hasty" \notin excuse
      BY <1>2, <1>6 DEF Settled, IInv, Typed
    <2> QED BY <1>1, <1>2, <1>4, <1>6, <2>1, SettledGameOver
  <1>7. CASE /\ link' = link /\ "unheard" \in excuse'
             /\ ~(ui = "accepted" /\ sock = "up" /\ hears # "ended")
    BY <1>1, <1>2, <1>4, <1>7, UnheardSession
  <1> QED BY <1>2, <1>5, <1>6, <1>7

\* A turn-off is received, or the latest message becomes the one received.
LEMMA ListenSession ==
    ASSUME SInv, Listen
    PROVE  Session'
  <1> USE DEF SInv
  <1>1. PICK k \in 1..Len(link) :
        /\ dataFromUI' = Received(k)
        /\ \/ /\ dataFromUI' = "UF"
              /\ sock' = "none" /\ link' = << >> /\ hears' = "connecting"
           \/ /\ dataFromUI' # "UF"
              /\ link' = SubSeq(link, k + 1, Len(link))
              /\ NextRound
              /\ UNCHANGED sock
    BY DEF Listen
  <1>2. /\ UNCHANGED <<screen, ui, chosen, state, step, difficulty, params, excuse>>
        /\ UNCHANGED <<ser_open, listen_should_exit, died>>
        /\ hears = "listening" /\ sock \in {"up", "eof"}
        /\ sock' \in {sock, "none"} /\ Down' = Down /\ Heeds' = Heeds
    BY <1>1 DEF Listen, screens, main, Down, Heeds
  <1>3. state \notin {"startup", "dead"}
    BY <1>2 DEF Session, Connected
  <1>4. Connected'
    BY <1>2, <1>3 DEF Session, Connected
  <1>5. link \in Seq(Messages) /\ Len(link) \in Nat /\ Len(link) >= 1 /\ link # << >>
    <2>1. link \in Seq(Messages)
      BY Zenon DEF TypeOK, LinkOK
    <2>2. Len(link) \in Nat /\ k \in Int /\ 1 <= k /\ k <= Len(link)
      BY <2>1
    <2> QED BY <2>1, <2>2
  <1>6. ASSUME Closing, Cause, InFlight, TurnedOff
        PROVE  /\ Closing' /\ Cause' /\ InFlight' /\ TurnedOff'
               /\ Len(link) = 1 => Latest' = Latest /\ dataFromUI' = Latest /\ link' = << >>
    <2>1. /\ ser_open
          /\ IF link = <<"UF">> THEN ui \in {"closing", "off"} ELSE ui = "accepted" /\ sock = "up"
      BY <1>5, <1>6 DEF InFlight
    <2>2. \/ /\ Len(link) = 1 /\ link[1] \in Messages /\ link = <<link[1]>>
             /\ state \in Waiting /\ dataFromUI \notin Heeds
          \/ /\ link = <<"UP", "UP">> /\ link # <<"UF">>
             /\ state \in Waiting /\ dataFromUI \notin Heeds
          \/ link = <<"UP">> /\ dataFromUI = "UP" /\ state \in {"playing", "stopping"}
      <3>1. LinkOK
        BY DEF TypeOK
      <3> QED BY <1>5, <1>6, <3>1, InFlightFacts
    <2>3. ~listen_should_exit
      BY <1>3, <2>1 DEF Session, Connected
    <2>4. Heeds' = {n \in Messages : \/ state = "idle"    /\ n \in {"UCS", "UF"} \cup Levels
                                     \/ state = "await"   /\ n = Awaited[step]
                                     \/ state = "wait"    /\ n = "US"
                                     \/ state = "playing" /\ n = "UP"}
      BY <1>2 DEF Heeds
    <2>5. CASE Len(link) = 1
      <3>1. k = 1 /\ dataFromUI' = link[1] /\ link = <<link[1]>>
        <4>1. k = 1
          BY <2>5
        <4>2. link = <<link[1]>>
          BY <1>5, <2>5
        <4> QED BY <1>1, <1>5, <4>1, <4>2 DEF Received
      <3>2. link' = << >>
        <4>1. SubSeq(link, k + 1, Len(link)) = << >>
          BY <1>5, <2>5, <3>1
        <4> QED BY <1>1, <4>1
      <3>3. Latest' = link[1] /\ Latest = link[1]
        BY <1>5, <3>1, <3>2 DEF Latest
      <3>4. CASE link[1] = "UF"
        <4>1. link = <<"UF">> /\ state \in Waiting
          BY <2>2, <3>1, <3>4
        <4>2. sock' = "none" /\ hears' = "connecting" /\ ui \in {"closing", "off"}
          BY <1>1, <2>1, <3>1, <3>4, <4>1
        <4>3. Closing' /\ Cause' /\ InFlight'
          BY <1>2, <3>2, <4>1, <4>2 DEF Closing, Cause, InFlight, Waiting
        <4>4. TurnedOff'
          <5>1. "UF" \in Heeds => state = "idle"
            BY TurnOffIsForIdle DEF IInv
          <5>2. dataFromUI' = "UF"
            BY <3>1, <3>4
          <5> QED BY <1>2, <2>1, <4>1, <4>2, <5>1, <5>2 DEF TurnedOff, Unread
        <4> QED BY <3>1, <3>2, <3>3, <4>3, <4>4
      <3>5. CASE link[1] # "UF"
        <4>1. link # <<"UF">>
          BY <3>5
        <4>2. sock' = "up" /\ ui = "accepted" /\ dataFromUI' # "UF"
          BY <1>1, <2>1, <3>1, <3>5, <4>1
        <4>3. Closing' /\ InFlight'
          BY <1>2, <3>2, <4>2 DEF Closing, InFlight
        <4>4. Cause'
          <5>1. state \in Waiting \/ (state = "stopping" /\ link[1] = "UP")
            BY <2>2 DEF Waiting
          <5> QED BY <1>2, <3>1, <5>1 DEF Cause, Waiting
        <4>5. TurnedOff'
          <5>1. hears' = "listening"
            BY <1>1, <2>3, <4>2 DEF NextRound
          <5> QED BY <1>2, <1>6, <2>1, <4>2, <5>1 DEF TurnedOff, Unread
        <4> QED BY <3>1, <3>2, <3>3, <4>3, <4>4, <4>5
      <3> QED BY <3>4, <3>5
    <2>6. CASE Len(link) # 1
      <3>1. /\ link = <<"UP", "UP">> /\ link # <<"UF">>
            /\ state \in Waiting /\ dataFromUI \notin Heeds
        BY <2>2, <2>6
      <3>2. k \in {1, 2}
        BY <3>1
      <3>3. dataFromUI' \in {"UP", "several"}
        BY <1>1, <3>1, <3>2 DEF Received
      <3>4. sock' = "up" /\ hears' = "listening" /\ ui = "accepted"
        BY <1>1, <2>1, <2>3, <3>1, <3>3 DEF NextRound
      <3>5. link' = << >> \/ (dataFromUI' = "UP" /\ link' = <<"UP">>)
        <4>1. CASE k = 2
          BY <1>1, <3>1, <3>3, <4>1
        <4>2. CASE k = 1
          <5>1. SubSeq(<<"UP", "UP">>, 2, 2) = <<"UP">>
            <6> DEFINE s == <<"UP", "UP">>
                       r == SubSeq(s, 2, 2)
            <6>1. s \in Seq(Messages) /\ Len(s) = 2 /\ s[2] = "UP"
              BY DEF Messages
            <6> HIDE DEF s
            <6>2. r \in Seq(Messages) /\ Len(r) = 1 /\ r[1] = s[2]
              BY <6>1
            <6> HIDE DEF r
            <6>3. r = <<"UP">>
              BY <6>1, <6>2
            <6> QED BY <6>3 DEF r, s
          <5> QED BY <1>1, <3>1, <3>3, <4>2, <5>1 DEF Received
        <4> QED BY <3>2, <4>1, <4>2
      <3>6. Closing' /\ Cause' /\ TurnedOff'
        BY <1>2, <2>1, <3>1, <3>3, <3>4 DEF Closing, Cause, TurnedOff, Unread, Waiting
      <3>7. InFlight'
        <4>1. "UP" \in Heeds' => state = "playing"
          <5>1. state = "await" => Awaited[step] # "UP"
            <6>1. state = "await" => step \in {1, 2, 3, 4, 5}
              BY DEF IInv, Typed
            <6> QED BY <6>1, AwaitedFacts
          <5> QED BY <2>4, <5>1, GameAssumption
        <4>2. Len(<<"UP">>) = 1 /\ <<"UP">> # <<"UF">>
          OBVIOUS
        <4> QED BY <1>2, <2>1, <3>1, <3>4, <3>5, <4>1, <4>2 DEF InFlight
      <3> QED BY <2>6, <3>6, <3>7
    <2> QED BY <2>5, <2>6
  <1>7. ASSUME Followed PROVE Len(link) = 1
    <2>1. Len(link) <= 1
      BY <1>7 DEF Followed
    <2>2. Len(link) \in Nat /\ Len(link) >= 1
      BY <1>5
    <2> QED BY <2>1, <2>2
  <1>8. ASSUME Followed, Latest' = Latest, dataFromUI' = Latest, link' = << >> PROVE Followed'
    <2>1. Len(link') <= 1
      BY <1>8
    <2>2. Down' => Latest' = "UF"
      BY <1>2, <1>8 DEF Followed
    <2>3. state' = "playing" => dataFromUI' \in {"US", "UP"} /\ Latest' \in {"US", "UP"}
      BY <1>2, <1>8 DEF Followed
    <2>4. Shown'
      BY <1>2, <1>8 DEF Followed, Shown
    <2> QED BY <2>1, <2>2, <2>3, <2>4 DEF Followed
  <1>9. ASSUME Latest' = Latest PROVE (Lockstep => Lockstep') /\ (Choice => Choice')
    BY <1>2, <1>9 DEF Lockstep, Choice
  <1> QED BY <1>2, <1>3, <1>4, <1>6, <1>7, <1>8, <1>9 DEF Session

\* The main loop acts on the latest message.
LEMMA HeedSession ==
    ASSUME SInv, Heed
    PROVE  Session'
  <1> USE DEF SInv
  <1>1. /\ dataFromUI \in Heeds
        /\ UNCHANGED <<screen, ui, chosen, link, sock, hears, dataFromUI, params, ser_open,
                       listen_should_exit, died, excuse>>
        /\ Down' = Down
        /\ step' = IF state = "await" /\ step = 1 THEN 2 ELSE step
        /\ difficulty' = IF state = "idle" /\ dataFromUI \in Levels THEN dataFromUI ELSE difficulty
    BY DEF Heed, screens, thread, Down
  <1>2. \/ state = "idle" /\ dataFromUI = "UCS" /\ state' = "calibrate"
        \/ state = "idle" /\ dataFromUI = "UF"  /\ state' = "shutdown"
        \/ state = "idle" /\ dataFromUI \in Levels /\ state' = "params"
        \/ state = "await" /\ state' = IF step = 1 THEN "await" ELSE "image"
        \/ state = "wait" /\ state' = "starting"
        \/ state = "playing" /\ state' = "stopping"
    BY DEF Heed
  <1>3. /\ state = "await" => dataFromUI = Awaited[step]
        /\ state = "wait" => dataFromUI = "US"
        /\ state = "playing" => dataFromUI = "UP"
    BY <1>1 DEF Heeds
  <1>4. Connected'
    BY <1>1, <1>2 DEF Session, Connected
  <1>5. state \in Waiting
    BY <1>2 DEF Waiting
  <1>6. ASSUME InFlight, link # << >>
        PROVE  state = "playing" /\ link = <<"UP">> /\ dataFromUI = "UP"
    BY <1>1, <1>3, <1>5, <1>6 DEF InFlight, Waiting
  <1>7. Closing => Closing'
    BY <1>1 DEF Closing, Quiet
  <1>8. Cause'
    BY <1>1, <1>2, <1>3, GameAssumption DEF Cause
  <1>9. ASSUME InFlight PROVE InFlight'
    <2>1. CASE link = << >>
      BY <1>1, <2>1 DEF InFlight
    <2>2. CASE link # << >>
      <3>1. state' = "stopping"
        BY <1>2, <1>6, <1>9, <2>2
      <3>2. /\ hears' = "listening" /\ ser_open'
            /\ IF link' = <<"UF">> THEN ui' \in {"closing", "off"} /\ sock' \in {"up", "eof"}
               ELSE ui' = "accepted" /\ sock' = "up"
        BY <1>1, <1>9, <2>2 DEF InFlight
      <3> QED BY <1>1, <1>6, <1>9, <2>2, <3>1, <3>2 DEF InFlight
    <2> QED BY <2>1, <2>2
  <1>10. ASSUME TurnedOff PROVE TurnedOff'
    <2>1. UNCHANGED <<ui, dataFromUI, ser_open>> /\ Unread' = Unread /\ state # "startup"
      BY <1>1, <1>2 DEF Unread
    <2>2. state' = "shutdown" \/ state' \notin {"shutdown", "idle", "startup"}
      BY <1>2
    <2>3. CASE state' = "shutdown"
      <3>1. state = "idle" /\ dataFromUI = "UF"
        BY <1>2, <2>3
      <3> QED BY <1>10, <2>1, <2>3, <3>1 DEF TurnedOff
    <2>4. CASE state' \notin {"shutdown", "idle", "startup"}
      <3>1. ser_open
        <4>1. state # "shutdown" /\ ~(state = "idle" /\ dataFromUI = "UF")
          BY <1>2, <2>4, GameAssumption
        <4> QED BY <1>10, <2>1, <4>1 DEF TurnedOff
      <3>2. ~Unread
        BY <1>1, GameAssumption, <1>2, <1>5, <1>10, <2>4, <3>1 DEF TurnedOff, Waiting
      <3> QED BY <2>1, <2>4, <3>1, <3>2 DEF TurnedOff
    <2> QED BY <2>2, <2>3, <2>4
  <1>11. Latest' = Latest
    BY <1>1 DEF Latest
  <1>12. ASSUME Followed PROVE Followed'
    <2>1. state' # "playing"
      BY <1>2
    <2> QED BY <1>1, <1>11, <1>12, <2>1 DEF Followed, Shown
  <1>13. ASSUME InFlight, state # "playing" PROVE Latest = dataFromUI
    BY <1>6, <1>13 DEF Latest
  <1>14. ASSUME InFlight PROVE Lockstep'
    <2>1. state' \notin {"idle", "wait"}
      BY <1>2
    <2>2. CASE state' = "await"
      <3>1. state = "await" /\ step = 1 /\ step' = 2
        BY <1>1, <1>2, <2>2
      <3>2. Latest' = "UC1"
        BY <1>3, <1>11, <1>13, <1>14, <3>1, AwaitedFacts
      <3> QED BY <2>2, <3>1, <3>2, AwaitedFacts DEF Lockstep
    <2>3. CASE state' # "await"
      BY <2>1, <2>3 DEF Lockstep
    <2> QED BY <2>2, <2>3
  <1>15. ASSUME InFlight, Choice PROVE Choice'
    <2>1. Latest' \in Levels => chosen' = Latest'
      BY <1>1, <1>11, <1>15 DEF Choice
    <2>2. CASE state' = "params"
      <3>1. state = "idle" /\ dataFromUI \in Levels
        BY <1>2, <2>2
      <3>2. Latest = dataFromUI
        BY <1>13, <1>15, <3>1
      <3> QED BY <1>1, <1>15, <2>1, <2>2, <3>1, <3>2 DEF Choice
    <2>3. CASE state' = "starting"
      <3>1. state = "wait"
        BY <1>2, <2>3
      <3> QED BY <1>1, <1>15, <2>1, <2>3, <3>1 DEF Choice
    <2>4. CASE state' \notin {"params", "starting"}
      <3>1. state' \notin {"wait", "camera", "playing"}
        BY <1>2
      <3> QED BY <2>1, <2>4, <3>1 DEF Choice
    <2> QED BY <2>2, <2>3, <2>4
  <1> QED BY <1>1, <1>4, <1>5, <1>7, <1>8, <1>9, <1>10, <1>12, <1>14, <1>15 DEF Session

\* The rest of the main loop: the message that it is busy with stays the latest.
LEMMA WorkSession ==
    ASSUME SInv, Work
    PROVE  Session'
  <1> USE DEF SInv
  <1>1. /\ UNCHANGED <<screen, ui, chosen, link, sock, hears, dataFromUI, difficulty, died, excuse>>
        /\ Down' = Down
        /\ Calibrate \/ Image \/ Key \/ setMDSParams \/ Start \/ Camera \/ Stop \/ Shutdown
    BY DEF Work, screens, thread, Down
  <1>2. /\ state \in Busy
        /\ \/ state = "calibrate" /\ state' = "await" /\ step' = 1
           \/ /\ state = "image" /\ step \in 2..4 /\ state' = "await" /\ step' = step + 1
           \/ /\ state = "image" /\ step = 5 /\ state' = "key" /\ step' = step
           \/ state = "key" /\ state' = "idle"
           \/ state = "params" /\ state' = "wait" /\ params' = difficulty
           \/ state = "starting" /\ state' = "camera"
           \/ state = "camera" /\ state' = "playing"
           \/ state = "stopping" /\ state' = "idle"
           \/ state = "shutdown" /\ state' = "idle"
    <2>1. state = "image" => step \in 2..5
      BY DEF IInv, Pictured
    <2> QED BY <1>1, <2>1 DEF Busy, Calibrate, Image, Key, setMDSParams, Start, Camera, Stop, Shutdown
  <1>3. IF state = "shutdown" THEN ser_open' = FALSE /\ listen_should_exit' = TRUE
        ELSE UNCHANGED <<ser_open, listen_should_exit>>
    BY <1>1 DEF Calibrate, Image, Key, setMDSParams, Start, Camera, Stop, Shutdown
  <1>4. state # "params" => params' = params
    BY <1>1 DEF Calibrate, Image, Key, setMDSParams, Start, Camera, Stop, Shutdown
  <1>5. Connected'
    BY <1>1, <1>2, <1>3 DEF Session, Connected
  <1>6. state \notin Waiting
    BY <1>2 DEF Busy, Waiting
  <1>7. ASSUME InFlight, state # "stopping" PROVE link = << >> /\ Latest = dataFromUI
    BY <1>2, <1>7, BusyFacts DEF Latest
  <1>8. Closing => Closing'
    BY <1>1, <1>6 DEF Closing, Quiet
  <1>9. ASSUME Cause PROVE Cause'
    <2>1. CASE state' = "key"
      <3>1. dataFromUI = "UCD"
        BY <1>2, <1>9, <2>1, AwaitedFacts DEF Cause
      <3> QED BY <1>1, <2>1, <3>1 DEF Cause
    <2>2. CASE state' = "camera"
      <3>1. dataFromUI = "US"
        BY <1>2, <1>9, <2>2 DEF Cause
      <3> QED BY <1>1, <2>2, <3>1 DEF Cause
    <2>3. CASE state' \notin {"key", "camera"}
      <3>1. state' \in {"await", "idle", "wait", "playing"}
        BY <1>2, <2>3
      <3> QED BY <3>1 DEF Cause
    <2> QED BY <2>1, <2>2, <2>3
  <1>10. ASSUME InFlight, Cause PROVE InFlight'
    <2>1. CASE state # "stopping"
      BY <1>1, <1>7, <1>10, <2>1 DEF InFlight
    <2>2. CASE state = "stopping" /\ link # << >>
      <3>1. state' = "idle" /\ UNCHANGED ser_open
        BY <1>2, <1>3, <2>2
      <3>2. link = <<"UP">> /\ dataFromUI = "UP"
        BY <1>6, <1>10, <2>2 DEF InFlight
      <3>3. dataFromUI' \notin Heeds' /\ state' \in Waiting
        BY <1>1, <3>1, <3>2, GameAssumption DEF Heeds, Waiting
      <3>4. Len(link') = 1
        BY <1>1, <3>2
      <3>5. /\ hears' = "listening" /\ ser_open'
            /\ IF link' = <<"UF">> THEN ui' \in {"closing", "off"} /\ sock' \in {"up", "eof"}
               ELSE ui' = "accepted" /\ sock' = "up"
        BY <1>1, <1>10, <2>2, <3>1 DEF InFlight
      <3> QED BY <3>3, <3>4, <3>5 DEF InFlight
    <2>3. CASE state = "stopping" /\ link = << >>
      BY <1>1, <2>3 DEF InFlight
    <2> QED BY <2>1, <2>2, <2>3
  <1>11. ASSUME TurnedOff, Cause PROVE TurnedOff'
    <2>1. CASE state = "shutdown"
      <3>1. Unread /\ dataFromUI = "UF"
        BY <1>11, <2>1 DEF TurnedOff, Cause
      <3> QED BY <1>1, <1>2, <1>3, <2>1, <3>1 DEF TurnedOff, Unread
    <2>2. CASE state # "shutdown"
      <3>1. ser_open
        BY <1>2, <1>11, <2>2 DEF TurnedOff, Busy
      <3>2. ser_open' /\ state' # "shutdown"
        BY <1>2, <1>3, <2>2, <3>1
      <3>3. state' = "idle" => dataFromUI' # "UF"
        BY <1>1, <1>2, <1>11, <2>2 DEF Cause
      <3>4. ~Unread /\ Unread' = Unread
        BY <1>1, <1>6, <1>11, <2>2, <3>1 DEF TurnedOff, Unread
      <3> QED BY <3>2, <3>3, <3>4 DEF TurnedOff
    <2> QED BY <2>1, <2>2
  <1>12. Latest' = Latest
    BY <1>1 DEF Latest
  <1>13. ASSUME InFlight, Cause, Followed PROVE Followed'
    <2>1. state' = "playing" => dataFromUI' = "US" /\ Latest' = "US"
      BY <1>1, <1>2, <1>7, <1>12, <1>13 DEF Cause
    <2>2. Len(link') <= 1 /\ (Down' => Latest' = "UF")
      BY <1>1, <1>12, <1>13, Zenon DEF Followed
    <2>3. Shown'
      BY <1>1, <1>12, <1>13 DEF Followed, Shown
    <2> QED BY <2>1, <2>2, <2>3 DEF Followed
  <1>14. ASSUME InFlight, Cause PROVE Lockstep'
    <2>1. CASE state = "calibrate"
      <3>1. Latest' = "UCS" /\ state' = "await" /\ step' = 1
        BY <1>2, <1>7, <1>12, <1>14, <2>1 DEF Cause
      <3> QED BY <3>1, AwaitedFacts DEF Lockstep
    <2>2. CASE state = "image"
      <3>1. Latest' = Awaited[step]
        BY <1>7, <1>12, <1>14, <2>2 DEF Cause
      <3>2. CASE state' = "await"
        <4>1. step \in {2, 3, 4} /\ step' = step + 1
          BY <1>2, <2>2, <3>2
        <4>2. step' # 1 /\ step' - 1 = step
          BY <4>1
        <4>3. Latest' = Awaited[step' - 1]
          BY <3>1, <4>2
        <4> QED BY <3>2, <4>2, <4>3 DEF Lockstep
      <3>3. CASE state' # "await"
        <4>1. state' = "key"
          BY <1>2, <2>2, <3>3
        <4> QED BY <4>1 DEF Lockstep
      <3> QED BY <3>2, <3>3
    <2>3. CASE state \in {"key", "params", "shutdown"}
      BY <1>2, <1>7, <1>12, <1>14, <2>3 DEF Cause, Lockstep
    <2>4. CASE state \in {"starting", "camera"}
      <3>1. state' \in {"camera", "playing"}
        BY <1>2, <2>4
      <3> QED BY <3>1 DEF Lockstep
    <2>5. CASE state = "stopping"
      <3>1. state' = "idle" /\ dataFromUI = "UP"
        BY <1>2, <1>14, <2>5 DEF Cause
      <3>2. link # << >> => link = <<"UP">>
        BY <1>6, <1>14 DEF InFlight
      <3>3. Latest' = "UP"
        BY <1>12, <3>1, <3>2 DEF Latest
      <3> QED BY <3>1, <3>3 DEF Lockstep
    <2> QED BY <1>2, <2>1, <2>2, <2>3, <2>4, <2>5 DEF Busy
  <1>15. ASSUME Choice PROVE Choice'
    <2>1. Latest' \in Levels => chosen' = Latest'
      BY <1>1, <1>12, <1>15 DEF Choice
    <2>2. CASE state' \in {"wait", "camera", "playing"}
      <3>1. state \in {"params", "starting", "camera"}
        BY <1>2, <2>2
      <3>2. chosen' = difficulty' /\ params' = difficulty'
        BY <1>1, <1>2, <1>4, <1>15, <3>1 DEF Choice
      <3> QED BY <2>1, <3>2 DEF Choice
    <2>3. CASE state' \notin {"wait", "camera", "playing"}
      <3>1. state' \notin {"params", "starting"}
        BY <1>2
      <3> QED BY <2>1, <2>3, <3>1 DEF Choice
    <2> QED BY <2>2, <2>3
  <1> QED BY <1>1, <1>5, <1>6, <1>8, <1>9, <1>10, <1>11, <1>13, <1>14, <1>15 DEF Session

-----------------------------------------------------------------------------
\* The host and the screens agree, as far as nothing excuses them, in every state
\* of a session.
THEOREM Agreement ==
    Spec => []Session
  <1>1. Init => Session
    <2> SUFFICES ASSUME Init PROVE Session
      OBVIOUS
    <2>1. Connected /\ Closing /\ Cause /\ InFlight /\ TurnedOff
      BY DEF Init, Connected, Down, Closing, Cause, InFlight, TurnedOff
    <2>2. Latest = "" /\ link = << >> /\ screen = "start" /\ state = "startup" /\ ui = "listening"
      BY DEF Init, Latest
    <2>3. Shown
      BY <2>2, GameAssumption DEF Shown
    <2>4. Len(link) <= 1
      <3>1. link = << >>
        BY <2>2
      <3> QED BY <3>1
    <2>5. Followed
      BY <2>2, <2>3, <2>4 DEF Followed, Down
    <2>6. Lockstep /\ Choice
      BY <2>2, GameAssumption DEF Lockstep, Choice
    <2> QED BY <2>1, <2>5, <2>6 DEF Session
  <1>2. IInv /\ TypeOK /\ Session /\ [Next]_vars => Session'
    <2> SUFFICES ASSUME SInv, [Next]_vars PROVE Session'
      BY DEF SInv
    <2>1. CASE UNCHANGED vars
      <3>1. UNCHANGED <<screen, ui, chosen, link, sock, hears, dataFromUI, state, step, difficulty,
                        params, ser_open, listen_should_exit, died, excuse>>
        BY <2>1 DEF vars, screens, thread, main
      <3>2. /\ Heeds' = Heeds
            /\ Cause => Cause'
            /\ Followed => Followed'
            /\ Lockstep => Lockstep'
            /\ Choice => Choice'
        <4>1. Down' = Down
          BY <3>1 DEF Down
        <4> QED BY <3>1, <4>1, Agreed
      <3>3. Connected => Connected'
        BY <3>1 DEF Connected, Down
      <3>4. Closing => Closing'
        BY <3>1, <3>2 DEF Closing, Quiet
      <3>5. InFlight => InFlight'
        BY <3>1, <3>2 DEF InFlight
      <3>6. TurnedOff => TurnedOff'
        BY <3>1, <3>2 DEF TurnedOff, Unread
      <3> QED BY <3>1, <3>2, <3>3, <3>4, <3>5, <3>6 DEF SInv, Session
    <2>2. CASE Next
      BY <2>2, PressSession, GameOverSession, PowerSession, ListenSession, ReconnectSession,
         StartupSession, HeedSession, WorkSession, InterruptSession
         DEF Next, ListenStep, MainStep
    <2> QED BY <2>1, <2>2
  <1> QED BY <1>1, <1>2, Invariance, TypeCorrectness, PTL DEF Spec

\* The mallet is only driven while the screens show a game or what follows one:
\* a host that was ready for each message, and got each, has stopped it before
\* the next game is set up or a calibration begins.
THEOREM MalletFollowsTheScreens ==
    Spec => []DrivenInGameOnly
  <1>1. ASSUME IInv, Session PROVE DrivenInGameOnly
    <2> SUFFICES ASSUME mallet = "on" PROVE
                   IF died # "none" THEN died \in {"camera", "playing", "stopping"}
                   ELSE excuse \subseteq {"changed"} =>
                           screen \in {"score", "over", "welcome", "difficulty"}
      BY DEF DrivenInGameOnly
    <2>1. state \in Driving \/ (state = "dead" /\ died \in {"camera", "playing", "stopping"})
      BY <1>1 DEF IInv, Driven
    <2>2. ASSUME died = "none", excuse \subseteq {"changed"}
          PROVE  screen \in {"score", "over", "welcome", "difficulty"}
      <3>1. Cause /\ InFlight /\ Followed
        BY <1>1, <2>2 DEF Session
      <3>2. Latest \in {"US", "UP"}
        <4>1. CASE state = "camera"
          <5>1. link = << >>
            BY <3>1, <4>1, BusyFacts DEF Busy
          <5> QED BY <3>1, <4>1, <5>1 DEF Cause, Latest
        <4>2. CASE state = "playing"
          BY <3>1, <4>2 DEF Followed
        <4>3. CASE state = "stopping"
          <5>1. link # << >> => link = <<"UP">>
            BY <3>1, <4>3 DEF InFlight, Waiting
          <5> QED BY <3>1, <4>3, <5>1 DEF Cause, Latest
        <4> QED BY <2>1, <2>2, <4>1, <4>2, <4>3 DEF Driving
      <3> QED BY <3>1, <3>2 DEF Followed, Shown
    <2> QED BY <1>1, <2>1, <2>2 DEF Driving, IInv, Typed
  <1> QED BY <1>1, Invariance, Agreement, PTL

\* The host plays the game that is shown, with the difficulty that was chosen.
THEOREM ChoiceIsPlayed ==
    Spec => []ChosenIsPlayed
  <1>1. ASSUME IInv, Session PROVE ChosenIsPlayed
    <2> SUFFICES ASSUME excuse = {}, state = "playing", screen = "score" PROVE params = chosen
      BY DEF ChosenIsPlayed
    <2>1. Followed /\ Choice
      BY <1>1 DEF Session, IInv, Typed
    <2>2. Latest = "US"
      BY <2>1 DEF Followed, Shown
    <2> QED BY <2>1, <2>2 DEF Choice
  <1> QED BY <1>1, Invariance, Agreement, PTL

\* Where the buttons on the instructions lead.
LEMMA AfterFacts ==
    /\ "cal2" \in After(Instruction[2]) /\ "cal3" \in After(Instruction[3])
    /\ "cal4" \in After(Instruction[4])
    /\ "welcome" \in After(Instruction[5]) /\ "difficulty" \in After(Instruction[5])
  <1>1. /\ <<"cal1", "UC2", "cal2">> \in Buttons /\ <<"cal2", "UC3", "cal3">> \in Buttons
        /\ <<"cal3", "UC4", "cal4">> \in Buttons /\ <<"cal4", "UCD", "welcome">> \in Buttons
        /\ <<"welcome", "", "difficulty">> \in Buttons
    BY DEF Buttons
  <1>2. ASSUME NEW s, NEW m, NEW t, <<s, m, t>> \in Buttons
        PROVE  t \in After(s)
    <2>1. <<s, m, t>>[1] = s /\ <<s, m, t>>[3] = t
      OBVIOUS
    <2>2. <<s, m, t>> \in {c \in Buttons : c[1] = s}
      BY <1>2, <2>1
    <2>3. t \in {b[3] : b \in {c \in Buttons : c[1] = s}}
      BY <2>1, <2>2
    <2> QED BY <2>3, Zenon DEF After
  <1>3. ASSUME NEW s, NEW m, NEW t, NEW u, <<s, m, t>> \in Buttons, <<t, "", u>> \in Buttons
        PROVE  u \in After(s)
    <2> DEFINE next == {b[3] : b \in {c \in Buttons : c[1] = s}}
    <2>1. /\ <<s, m, t>>[1] = s /\ <<s, m, t>>[3] = t
          /\ <<t, "", u>>[1] = t /\ <<t, "", u>>[2] = "" /\ <<t, "", u>>[3] = u
      BY Zenon
    <2>2. <<s, m, t>> \in {c \in Buttons : c[1] = s}
      BY <1>3, <2>1
    <2>3. t \in next
      BY <2>1, <2>2
    <2> HIDE DEF next
    <2>4. <<t, "", u>> \in {c \in Buttons : c[1] \in next /\ c[2] = ""}
      BY <1>3, <2>1, <2>3, Zenon
    <2>5. u \in {b[3] : b \in {c \in Buttons : c[1] \in next /\ c[2] = ""}}
      BY <2>1, <2>4, Zenon
    <2> QED BY <2>5, Zenon DEF After, next
  <1>4. /\ Instruction[2] = "cal1" /\ Instruction[3] = "cal2" /\ Instruction[4] = "cal3"
        /\ Instruction[5] = "cal4"
    BY DEF Instruction
  <1> QED BY <1>1, <1>2, <1>3, <1>4

\* The host takes the picture of a step when its button, and no later one, has
\* been pressed.
THEOREM PicturesAreInStep ==
    Spec => []PicturesFollowButtons
  <1>1. ASSUME IInv, Session PROVE PicturesFollowButtons
    <2> SUFFICES ASSUME excuse = {}, state = "image"
                 PROVE screen \in After(Instruction[step])
      BY DEF PicturesFollowButtons
    <2>1. Cause /\ InFlight /\ Followed
      BY <1>1 DEF Session, IInv, Typed
    <2>2. Latest = Awaited[step]
      BY <2>1, BusyFacts DEF Busy, Cause, Latest
    <2>3. step \in {2, 3, 4, 5}
      BY <1>1 DEF IInv, Pictured
    <2>4. Shown
      BY <2>1 DEF Followed
    <2> QED BY <2>2, <2>3, <2>4, AfterFacts, AwaitedFacts DEF Shown
  <1> QED BY <1>1, Invariance, Agreement, PTL

\* The only command that the host may send on a port that it has closed is the
\* stop after an interrupt in the game.
THEOREM ClosedPortIsMetOnce ==
    Spec => []ClosedPortMeetsOneStop
  <1>1. ASSUME IInv, Session PROVE ClosedPortMeetsOneStop
    BY <1>1 DEF Session, TurnedOff, ClosedPortMeetsOneStop, IInv, Typed
  <1> QED BY <1>1, Invariance, Agreement, PTL
-----------------------------------------------------------------------------
(* Liveness *)

\* Where the guards of the fair actions hold, they are enabled: the prover knows
\* nothing of ENABLED.
StepsExist ==
    /\ state \in Busy \/ dataFromUI \in Heeds => ENABLED <<MainStep>>_vars
    /\ hears = "listening" =>
        /\ sock \in {"up", "eof"} /\ link # << >> => ENABLED <<ListenStep>>_vars
        /\ sock = "backlog" /\ link = << >> /\ listen_should_exit => ENABLED <<ListenStep>>_vars
        /\ sock = "reset" => ENABLED <<ListenStep>>_vars

\* The host can be expected to follow, or cannot any more.
Good == excuse = {} /\ died = "none"

\* A message is under way to the place of the main loop that waits for it, or has
\* come, or has been acted on.
Underway(m, s) == Good /\ state = s /\ link = <<m>>
Come(m, s)     == Good /\ state = s /\ link = << >> /\ dataFromUI = m /\ ser_open
Reached(s)     == Good /\ state = s
Released       == mallet = "off"

\* What awaits what.
Awaits == { <<"US", "wait", "starting">>, <<"UP", "playing", "stopping">>, <<"UF", "idle", "shutdown">> }

\* What is known of a host that can be expected to follow.
LEMMA GoodFacts ==
    ASSUME SInv, Good
    PROVE  /\ Connected /\ Closing /\ Cause /\ InFlight /\ TurnedOff /\ Followed /\ Lockstep
           /\ LinkOK /\ state \in States \ {"aborting", "dead"} /\ hears \in {"none", "listening", "connecting", "ended"}
           /\ sock \in {"none", "up", "eof", "backlog", "reset"}
           /\ step \in 0..5 /\ (state \in {"await", "image"} => step \in 1..5)
  BY DEF SInv, IInv, Typed, TypeOK, HostOK, Session, Good

\* Who does anything to a host that is not settled leaves it alone, or has an
\* excuse for it.
LEMMA OthersLeave ==
    ASSUME SInv, Good, ~Settled, [Next]_vars, ~MainStep, ~ListenStep
    PROVE  \/ ~Good'
           \/ UNCHANGED <<link, dataFromUI, hears, main, excuse>> /\ (sock = "backlog" => sock' \in {"backlog", "reset"})
              /\ (sock = "reset" => sock' = "reset")
  <1>0. LinkOK
    BY GoodFacts
  <1>1. ASSUME NEW ms \in Seq(Messages), ms # << >>, NEW also, Note(ms, also)
        PROVE  ~Good'
    <2>1. excuse' # {}
      BY <1>1 DEF Note
    <2> QED BY <2>1 DEF Good
  <1>2. CASE Press
    <2>1. PICK b \in Buttons :
              LET ms == IF b[2] = "" THEN << >> ELSE << b[2] >>
              IN  /\ link' = Sent(ms)
                  /\ Note(ms, IF b[1] = "ready" /\ b[3] = "difficulty" THEN {"changed"} ELSE {})
                  /\ UNCHANGED <<thread, main>>
      BY <1>2, Zenon DEF Press
    <2>2. CASE b[2] = ""
      <3>1. PICK also : link' = Sent(<< >>) /\ Note(<< >>, also) /\ UNCHANGED <<thread, main>>
        BY <2>1, <2>2, Zenon
      <3>2. excuse' = excuse \cup also /\ link' = link
        BY <1>0, <3>1, NoteNothing
      <3> QED BY <3>1, <3>2 DEF Good, thread
    <2>3. CASE b[2] # ""
      <3>1. b[2] \in Messages
        BY <2>3, ButtonFacts
      <3>2. <<b[2]>> \in Seq(Messages) /\ <<b[2]>> # << >>
        BY <3>1
      <3>3. PICK also : Note(<<b[2]>>, also)
        BY <2>1, <2>3, Zenon
      <3> QED BY <1>1, <3>2, <3>3
    <2> QED BY <2>2, <2>3
  <1>3. CASE GameOver
    <2>1. Note(<<"UP">>, {}) \/ Note(<<"UP">>, {"double"})
      BY <1>3, Zenon DEF GameOver
    <2>2. <<"UP">> \in Seq(Messages) /\ <<"UP">> # << >>
      BY DEF Messages
    <2> QED BY <1>1, <2>1, <2>2
  <1>4. CASE PowerOff \/ PowerOn
    BY <1>4 DEF PowerOff, PowerOn, thread
  <1>5. CASE Interrupt
    <2>1. died' # "none"
      BY <1>5, GoodFacts DEF Interrupt, States
    <2> QED BY <2>1 DEF Good
  <1>6. CASE UNCHANGED vars
    BY <1>6 DEF vars, thread
  <1> QED BY <1>2, <1>3, <1>4, <1>5, <1>6 DEF Next

\* The listening thread takes what is under way, and nothing else.
LEMMA ListenTakes ==
    ASSUME SInv, Good, ListenStep
    PROVE  /\ Good' /\ UNCHANGED main
           /\ link = << >> => UNCHANGED <<link, dataFromUI>>
           /\ \A m : link = <<m>> => link' = << >> /\ dataFromUI' = m
  <1>0. Closing /\ InFlight /\ LinkOK
    BY GoodFacts
  <1>1. UNCHANGED <<main, excuse>>
    BY DEF ListenStep, Listen, ListenEof, ListenReset, ListenNothing, ListenConnect
  <1>2. Good'
    BY <1>1 DEF Good, main
  <1>3. ASSUME link = << >>
        PROVE  UNCHANGED <<link, dataFromUI>>
    <2>1. ~Listen
      BY <1>3 DEF Listen
    <2>2. ~ListenEof
      <3>1. \A m : <<m>> # << >>
        OBVIOUS
      <3> QED BY <1>0, <1>3, <3>1 DEF ListenEof, Closing, Good
    <2> QED BY <2>1, <2>2 DEF ListenStep, ListenReset, ListenNothing, ListenConnect
  <1>4. ASSUME NEW m, link = <<m>>
        PROVE  link' = << >> /\ dataFromUI' = m
    <2>1. link # << >> /\ Len(link) = 1 /\ Head(link) = m
      BY <1>4
    <2>2. hears = "listening" /\ sock \in {"up", "eof"}
      BY <1>0, <2>1 DEF InFlight
    <2>3. Listen
      BY <2>1, <2>2 DEF ListenStep, ListenEof, ListenReset, ListenNothing, ListenConnect
    <2>4. dataFromUI' = m /\ (link' = << >> \/ link' = SubSeq(link, 2, 1))
      BY <2>1, <2>3 DEF Listen, Received
    <2> QED BY <1>4, <2>4
  <1> QED BY <1>1, <1>2, <1>3, <1>4

\* A message that is under way comes, and one that has come is acted on.
LEMMA MessageSteps ==
    ASSUME SInv, [Next]_vars, NEW m \in Messages, NEW s \in Waiting, NEW t \in States,
           <<m, s, t>> \in Awaits
    PROVE  /\ Underway(m, s) => Underway(m, s)' \/ Come(m, s)' \/ Reached(t)' \/ ~Good'
           /\ Underway(m, s) /\ ListenStep => Come(m, s)'
           /\ Come(m, s) => Come(m, s)' \/ Reached(t)' \/ ~Good'
           /\ Come(m, s) /\ MainStep => Reached(t)'
  <1>0. \/ m = "US" /\ s = "wait" /\ t = "starting"
        \/ m = "UP" /\ s = "playing" /\ t = "stopping"
        \/ m = "UF" /\ s = "idle" /\ t = "shutdown"
    BY Zenon DEF Awaits
  <1>1. state = s => (m \in Heeds /\ state \in Waiting)
    BY <1>0 DEF Heeds
  <1>2. ASSUME MainStep, state = s, Good
        PROVE  Heed /\ dataFromUI \in Heeds /\ Good' /\ (dataFromUI = m => state' = t)
    <2>1. Heed
      BY <1>0, <1>2 DEF MainStep, Startup, Work, Calibrate, Image, Key, setMDSParams, Start,
                        Camera, Stop, Shutdown, StopAborted
    <2>2. dataFromUI \in Heeds /\ excuse' = excuse /\ died' = died
      BY <2>1 DEF Heed
    <2>3. dataFromUI = m => state' = t
      BY <1>0, <1>2, <2>1, GameAssumption DEF Heed
    <2> QED BY <1>2, <2>1, <2>2, <2>3 DEF Good
  <1>3. ASSUME Underway(m, s) \/ Come(m, s)
        PROVE  Good /\ state = s /\ ~Settled
    <2>1. Good /\ state = s
      BY <1>3 DEF Underway, Come
    <2>2. CASE Underway(m, s)
      <3>1. link # << >>
        BY <2>2 DEF Underway
      <3> QED BY <2>1, <3>1 DEF Settled
    <2>3. CASE Come(m, s)
      BY <1>1, <2>1, <2>3 DEF Come, Settled
    <2> QED BY <1>3, <2>1, <2>2, <2>3
  <1>4. ASSUME Underway(m, s)
        PROVE  /\ link = <<m>> /\ link # << >> /\ ser_open
               /\ dataFromUI \in Heeds => dataFromUI = m
    <2>1. link = <<m>> /\ link # << >> /\ Good
      BY <1>4 DEF Underway
    <2>2. InFlight
      BY <2>1, GoodFacts
    <2>3. dataFromUI \in Heeds => link = <<"UP">> /\ dataFromUI = "UP"
      BY <2>1, <2>2 DEF InFlight
    <2>4. link = <<"UP">> => m = "UP"
      BY <2>1
    <2> QED BY <2>1, <2>2, <2>3, <2>4 DEF InFlight
  <1>5. Underway(m, s) /\ ListenStep => Come(m, s)'
    BY <1>3, <1>4, ListenTakes DEF Come, main
  <1>6. Come(m, s) /\ ListenStep => Come(m, s)'
    BY <1>3, ListenTakes DEF Come, main
  <1>7. Come(m, s) /\ MainStep => Reached(t)'
    BY <1>2, <1>3 DEF Come, Reached
  <1>8. Underway(m, s) /\ MainStep => Reached(t)'
    BY <1>2, <1>3, <1>4 DEF Reached
  <1>9. ASSUME ~MainStep, ~ListenStep, Underway(m, s) \/ Come(m, s), Good'
        PROVE  (Underway(m, s) => Underway(m, s)') /\ (Come(m, s) => Come(m, s)')
    <2>1. UNCHANGED <<link, dataFromUI, main>>
      BY <1>3, <1>9, OthersLeave
    <2> QED BY <1>9, <2>1 DEF Underway, Come, main
  <1> QED BY <1>5, <1>6, <1>7, <1>8, <1>9

\* The invariant of the proofs of safety.
LEMMA SafetyInvariance ==
    Spec => []SInv
  <1>1. IInv /\ TypeOK /\ Session => SInv
    BY DEF SInv
  <1> QED BY <1>1, Invariance, TypeCorrectness, Agreement, PTL

\* A message that is under way leads the host from where it waits to where it
\* goes on.
LeadsOn(m, s, t) ==
    FairSpec /\ []StepsExist => (Underway(m, s) \/ Come(m, s) ~> Reached(t) \/ ~Good)

\* Each of the three messages does.
LEMMA MessageIsHeeded ==
    ASSUME NEW m \in Messages, NEW s \in Waiting, NEW t \in States, <<m, s, t>> \in Awaits
    PROVE  LeadsOn(m, s, t)
  <1>1. SInv /\ [Next]_vars =>
           /\ Underway(m, s) => Underway(m, s)' \/ Come(m, s)' \/ Reached(t)' \/ ~Good'
           /\ Come(m, s) => Come(m, s)' \/ Reached(t)' \/ ~Good'
    BY MessageSteps
  <1>2. SInv /\ [Next]_vars /\ <<ListenStep>>_vars => (Underway(m, s) => Come(m, s)')
    BY MessageSteps
  <1>3. SInv /\ [Next]_vars /\ <<MainStep>>_vars => (Come(m, s) => Reached(t)')
    BY MessageSteps
  <1>4. SInv /\ StepsExist =>
           /\ Underway(m, s) => ENABLED <<ListenStep>>_vars
           /\ Come(m, s) => ENABLED <<MainStep>>_vars
    <2>1. ASSUME SInv, StepsExist, Underway(m, s)
          PROVE  ENABLED <<ListenStep>>_vars
      <3>1. link # << >> /\ Good
        BY <2>1 DEF Underway
      <3>2. hears = "listening" /\ sock \in {"up", "eof"}
        BY <2>1, <3>1, GoodFacts DEF InFlight
      <3> QED BY <2>1, <3>1, <3>2 DEF StepsExist
    <2>2. ASSUME StepsExist, Come(m, s)
          PROVE  ENABLED <<MainStep>>_vars
      <3>1. \/ m = "US" /\ s = "wait"
            \/ m = "UP" /\ s = "playing"
            \/ m = "UF" /\ s = "idle"
        BY Zenon DEF Awaits
      <3>2. dataFromUI \in Heeds
        BY <2>2, <3>1 DEF Come, Heeds
      <3> QED BY <2>2, <3>2 DEF StepsExist
    <2> QED BY <2>1, <2>2
  <1> QED
    BY <1>1, <1>2, <1>3, <1>4, SafetyInvariance, PTL DEF FairSpec, Spec, LeadsOn

\* The host has heard of the turn-off, and its listening thread may not have.
Closed == Good /\ ~ser_open /\ state # "startup"
Deaf   == hears # "listening"

\* What the host is busy with it goes on with.
LEMMA WorkSteps ==
    ASSUME SInv, [Next]_vars
    PROVE  /\ Reached("starting") => Reached("starting")' \/ Reached("camera")' \/ ~Good'
           /\ Reached("camera")   => Reached("camera")' \/ Reached("playing")' \/ ~Good'
           /\ Reached("stopping") => Reached("stopping")' \/ mallet' = "off" \/ ~Good'
           /\ Reached("shutdown") => Reached("shutdown")' \/ Closed' \/ ~Good'
           /\ MainStep =>
                 /\ Reached("starting") => Reached("camera")'
                 /\ Reached("camera") => Reached("playing")'
                 /\ Reached("stopping") => mallet' = "off"
                 /\ Reached("shutdown") => Closed'
  <1>1. ASSUME MainStep, Good, state \in {"starting", "camera", "stopping", "shutdown"}
        PROVE  /\ excuse' = excuse /\ died' = died
               /\ state = "starting" => state' = "camera"
               /\ state = "camera"   => state' = "playing"
               /\ state = "stopping" => mallet' = "off"
               /\ state = "shutdown" => ~ser_open' /\ state' = "idle"
    BY <1>1 DEF MainStep, Startup, Heed, Heeds, Work, Calibrate, Image, Key, setMDSParams, Start,
                Camera, Stop, Shutdown, StopAborted
  <1>2. ASSUME ~MainStep, Good, state \in {"starting", "camera", "stopping", "shutdown"}, Good'
        PROVE  state' = state
    <2>1. CASE ListenStep
      BY <1>2, <2>1, ListenTakes DEF main
    <2>2. CASE ~ListenStep
      <3>1. ~Settled
        BY <1>2 DEF Settled
      <3> QED BY <1>2, <2>2, <3>1, OthersLeave DEF main
    <2> QED BY <2>1, <2>2
  <1> QED BY <1>1, <1>2 DEF Reached, Good, Closed

\* The mallet is calibrating only while it is carried from corner to corner, and a
\* thread that listens has a socket.
Carried  == mallet = "calibrating" => state \in {"await", "image", "dead"}
Socketed == hears = "listening" => sock # "none"

\* Both are kept by every step.
LEMMA StaysCarried ==
    ASSUME IInv, Carried, Socketed, [Next]_vars
    PROVE  Carried' /\ Socketed'
  <1>1. CASE Heed
    BY <1>1 DEF Heed, Heeds, Carried, Socketed, thread
  <1>2. CASE Work
    BY <1>2 DEF Work, Calibrate, Image, Key, setMDSParams, Start, Camera, Stop, Shutdown,
                Carried, Socketed, thread
  <1>3. CASE Startup \/ Interrupt \/ StopAborted
    BY <1>3 DEF Startup, Interrupt, StopAborted, Dies, connect, Carried, Socketed
  <1>4. CASE ListenStep
    BY <1>4 DEF ListenStep, Listen, ListenEof, ListenReset, ListenNothing, ListenConnect, connect,
                NextRound, Carried, Socketed, main
  <1>5. CASE Press \/ GameOver \/ PowerOff \/ PowerOn \/ UNCHANGED vars
    BY <1>5 DEF Press, GameOver, PowerOff, PowerOn, Carried, Socketed, main, thread, vars
  <1> QED BY <1>1, <1>2, <1>3, <1>4, <1>5 DEF Next, MainStep

\* A message that is the latest is under way or has come.
LEMMA LatestIsSomewhere ==
    ASSUME SInv, Good, NEW m \in Messages, Latest = m
    PROVE  link = <<m>> \/ (link = << >> /\ dataFromUI = m)
  <1>1. LinkOK /\ InFlight /\ Len(link) <= 1
    BY GoodFacts DEF Followed
  <1>2. CASE link = << >>
    BY <1>2 DEF Latest
  <1>3. CASE link # << >>
    <2>1. link[1] = m
      BY <1>3 DEF Latest
    <2>2. Len(<<"UP", "UP">>) = 2
      OBVIOUS
    <2> QED BY <1>1, <1>3, <2>1, <2>2, InFlightFacts
  <1> QED BY <1>2, <1>3

\* Where the host can be while it is one of those that it acts on at once.
LEMMA HostFollows ==
    ASSUME SInv, Good
    PROVE  /\ Latest \in Messages \cup {""}
           /\ Latest = "US" => state \in {"wait", "starting", "camera", "playing"}
           /\ Latest = "UP" => state \in {"idle", "playing", "stopping"}
           /\ Latest = "UF" => state \in {"idle", "shutdown"}
  <1>0. /\ Connected /\ Cause /\ InFlight /\ Followed /\ Lockstep
        /\ state \in States \ {"aborting", "dead"} /\ (state \in {"await", "image"} => step \in 1..5)
    BY GoodFacts
  <1> USE AwaitedFacts, GameAssumption DEF Messages
  <1>1. CASE state = "startup"
    BY <1>0, <1>1 DEF Connected, Latest
  <1>2. CASE state \in {"idle", "wait"}
    BY <1>0, <1>2 DEF Lockstep
  <1>3. CASE state = "await"
    <2>1. step = 1 \/ step = 2 \/ step = 3 \/ step = 4 \/ step = 5
      BY <1>0, <1>3
    <2>2. Latest \in {"UCS", Awaited[1], Awaited[2], Awaited[3], Awaited[4], Awaited[5]}
      <3>1. Latest = Awaited[step] \/ Latest = (IF step = 1 THEN "UCS" ELSE Awaited[step - 1])
        BY <1>0, <1>3 DEF Lockstep
      <3>2. step # 1 => step - 1 \in {1, 2, 3, 4}
        BY <2>1
      <3> QED BY <2>1, <3>1, <3>2
    <2> QED BY <1>3, <2>2
  <1>4. CASE state = "playing"
    BY <1>0, <1>4 DEF Followed
  <1>5. CASE state \in Busy \ {"stopping"}
    <2>1. Latest = dataFromUI
      BY <1>0, <1>5, BusyFacts DEF Latest
    <2>2. CASE state = "image"
      <3>1. step = 1 \/ step = 2 \/ step = 3 \/ step = 4 \/ step = 5
        BY <1>0, <2>2
      <3> QED BY <1>0, <2>1, <2>2, <3>1 DEF Cause
    <2>3. CASE state # "image"
      BY <1>0, <1>5, <2>1, <2>3 DEF Cause, Busy
    <2> QED BY <2>2, <2>3
  <1>6. CASE state = "stopping"
    <2>1. link = << >> \/ link = <<"UP">>
      BY <1>0, <1>6 DEF InFlight, Waiting
    <2>2. Latest = "UP"
      BY <1>0, <1>6, <2>1 DEF Cause, Latest
    <2> QED BY <1>6, <2>2
  <1> QED BY <1>0, <1>1, <1>2, <1>3, <1>4, <1>5, <1>6 DEF States, Busy, Good

\* Where a game that is shown is, and one that is over, and a turn-off.
LEMMA Stages ==
    ASSUME SInv, Carried, Good
    PROVE  /\ screen = "score" =>
                 \/ Underway("US", "wait") \/ Come("US", "wait")
                 \/ Reached("starting") \/ Reached("camera") \/ Reached("playing")
           /\ screen = "over" /\ mallet # "off" =>
                 \/ Underway("UP", "playing") \/ Come("UP", "playing") \/ Reached("stopping")
           /\ screen = "off" =>
                 \/ Underway("UF", "idle") \/ Come("UF", "idle") \/ Reached("shutdown")
                 \/ ~ser_open /\ state # "startup"
  <1>0. Connected /\ TurnedOff /\ Followed /\ IInv
    BY GoodFacts DEF SInv
  <1>1. Latest \in Messages \cup {""}
    BY HostFollows
  <1>2. ASSUME screen = "score"
        PROVE  \/ Underway("US", "wait") \/ Come("US", "wait")
               \/ Reached("starting") \/ Reached("camera") \/ Reached("playing")
    <2>1. Latest = "US"
      BY <1>0, <1>1, <1>2, GameAssumption DEF Followed, Shown, Messages
    <2>2. state \in {"wait", "starting", "camera", "playing"}
      BY <2>1, HostFollows
    <2>3. state = "wait" => ser_open
      BY <1>0 DEF TurnedOff
    <2> QED BY <2>1, <2>2, <2>3, LatestIsSomewhere DEF Underway, Come, Reached, Messages
  <1>3. ASSUME screen = "over", mallet # "off"
        PROVE  Underway("UP", "playing") \/ Come("UP", "playing") \/ Reached("stopping")
    <2>1. Latest = "UP"
      BY <1>0, <1>1, <1>3, GameAssumption DEF Followed, Shown, Messages
    <2>2. state \in {"idle", "playing", "stopping"}
      BY <2>1, HostFollows
    <2>3. state # "idle"
      BY <1>0, <1>3 DEF IInv, Typed, Driven, Driving, Carried
    <2>4. state = "playing" => ser_open
      BY <1>0 DEF TurnedOff
    <2> QED BY <2>1, <2>2, <2>3, <2>4, LatestIsSomewhere DEF Underway, Come, Reached, Messages
  <1>4. ASSUME screen = "off"
        PROVE  \/ Underway("UF", "idle") \/ Come("UF", "idle") \/ Reached("shutdown")
               \/ ~ser_open /\ state # "startup"
    <2>1. Latest = "UF"
      BY <1>0, <1>4 DEF Connected, Followed
    <2>2. state \in {"idle", "shutdown"}
      BY <2>1, HostFollows
    <2> QED BY <2>1, <2>2, LatestIsSomewhere DEF Underway, Come, Reached, Messages
  <1> QED BY <1>2, <1>3, <1>4

\* The port stays closed, and the next thing that the thread does is to end, or to
\* find its connection broken.
LEMMA ClosedSteps ==
    ASSUME SInv, Socketed, [Next]_vars, Closed
    PROVE  /\ Closed' \/ ~Good'
           /\ ~Deaf /\ ListenStep => Deaf'
  <1>0. /\ Connected /\ InFlight /\ TurnedOff /\ Good /\ ~ser_open
        /\ sock \in {"none", "up", "eof", "backlog", "reset"}
    BY GoodFacts DEF Closed
  <1>1. /\ state \in {"idle", "shutdown"} /\ dataFromUI = "UF" /\ Unread
        /\ listen_should_exit /\ link = << >>
    BY <1>0 DEF Closed, TurnedOff, Connected, InFlight, Good
  <1>2. ~Deaf /\ ListenStep => Deaf'
    BY <1>0, <1>1 DEF ListenStep, Listen, ListenEof, ListenReset, ListenNothing, ListenConnect,
                      Socketed, Unread, Deaf
  <1>3. ASSUME Good' PROVE ~ser_open' /\ state' # "startup"
    <2>1. CASE Heed
      BY <1>0, <1>1, <2>1 DEF Heed
    <2>2. CASE Work
      BY <1>0, <2>2 DEF Work, Calibrate, Image, Key, setMDSParams, Start, Camera, Stop, Shutdown
    <2>3. CASE ListenStep
      BY <1>0, <1>1, <2>3, ListenTakes DEF main
    <2>4. CASE ~MainStep /\ ~ListenStep
      <3>1. ~Settled
        BY <1>1 DEF Settled, Unread
      <3>2. UNCHANGED main
        BY <1>0, <1>3, <2>4, <3>1, OthersLeave
      <3> QED BY <1>0, <1>1, <3>2 DEF main
    <2> QED BY <1>1, <2>1, <2>2, <2>3, <2>4 DEF MainStep, Startup, StopAborted
  <1> QED BY <1>2, <1>3 DEF Closed

\* The port is closed after a turn-off, and the thread ends or waits.
LEMMA ThreadGivesUp ==
    FairSpec /\ []StepsExist => (Closed ~> (Closed /\ Deaf) \/ ~Good)
  <1>1. SInv /\ Socketed /\ [Next]_vars /\ Closed => Closed' \/ ~Good'
    BY ClosedSteps
  <1>2. SInv /\ Socketed /\ [Next]_vars /\ Closed /\ ~Deaf /\ <<ListenStep>>_vars => Deaf'
    BY ClosedSteps
  <1>3. SInv /\ Socketed /\ StepsExist /\ Closed /\ ~Deaf => ENABLED <<ListenStep>>_vars
    <2> SUFFICES ASSUME SInv, Socketed, StepsExist, Closed, ~Deaf
                 PROVE  ENABLED <<ListenStep>>_vars
      OBVIOUS
    <2>1. /\ Connected /\ InFlight /\ TurnedOff /\ Good /\ ~ser_open
          /\ sock \in {"none", "up", "eof", "backlog", "reset"}
      BY GoodFacts DEF Closed
    <2>2. /\ hears = "listening" /\ sock \in {"backlog", "reset"}
          /\ listen_should_exit /\ link = << >>
      BY <2>1 DEF Closed, TurnedOff, Connected, InFlight, Good, Unread, Deaf, Socketed
    <2> QED BY <2>2 DEF StepsExist
  <1>4. IInv /\ Carried /\ Socketed /\ [Next]_vars => Carried' /\ Socketed'
    BY StaysCarried
  <1>5. Init => Carried /\ Socketed
    BY DEF Init, Carried, Socketed
  <1> QED
    BY <1>1, <1>2, <1>3, <1>4, <1>5, SafetyInvariance, Invariance, PTL DEF FairSpec, Spec

\* A game that is shown is played, and the mallet is released when it is over.
THEOREM GamesFollowTheScreens ==
    FairSpec /\ []StepsExist => GamesAreFollowed
  <1>1. SInv /\ [Next]_vars =>
           /\ Reached("starting") => Reached("starting")' \/ Reached("camera")' \/ ~Good'
           /\ Reached("camera")   => Reached("camera")' \/ Reached("playing")' \/ ~Good'
           /\ Reached("stopping") => Reached("stopping")' \/ Released' \/ ~Good'
    BY WorkSteps DEF Released
  <1>2. SInv /\ [Next]_vars /\ <<MainStep>>_vars =>
           /\ Reached("starting") => Reached("camera")'
           /\ Reached("camera") => Reached("playing")'
           /\ Reached("stopping") => Released'
    BY WorkSteps DEF Released
  <1>3. StepsExist /\ (Reached("starting") \/ Reached("camera") \/ Reached("stopping"))
           => ENABLED <<MainStep>>_vars
    BY DEF StepsExist, Reached, Busy
  <1>4. SInv /\ Carried =>
           /\ screen = "score" =>
                 \/ Underway("US", "wait") \/ Come("US", "wait")
                 \/ Reached("starting") \/ Reached("camera") \/ Reached("playing") \/ ~Good
           /\ screen = "over" =>
                 \/ Underway("UP", "playing") \/ Come("UP", "playing") \/ Reached("stopping")
                 \/ Released \/ ~Good
    BY Stages DEF Released
  <1>5. /\ Reached("playing") => state = "playing"
        /\ Released <=> mallet = "off"
        /\ ~Good => excuse # {} \/ died # "none"
    BY DEF Reached, Released, Good
  <1>6. LeadsOn("US", "wait", "starting") /\ LeadsOn("UP", "playing", "stopping")
    <2>1. /\ "US" \in Messages /\ "wait" \in Waiting /\ "starting" \in States
          /\ "UP" \in Messages /\ "playing" \in Waiting /\ "stopping" \in States
          /\ <<"US", "wait", "starting">> \in Awaits /\ <<"UP", "playing", "stopping">> \in Awaits
      BY DEF Messages, Waiting, States, Awaits
    <2> QED BY <2>1, MessageIsHeeded, Zenon
  <1>7. Init => Carried /\ Socketed
    BY DEF Init, Carried, Socketed
  <1>8. IInv /\ Carried /\ Socketed /\ [Next]_vars => Carried' /\ Socketed'
    BY StaysCarried
  <1> QED
    BY <1>1, <1>2, <1>3, <1>4, <1>5, <1>6, <1>7, <1>8, SafetyInvariance, Invariance, PTL
       DEF FairSpec, Spec, GamesAreFollowed, LeadsOn

\* After a turn-off the port is closed, and the listening thread ends or has nobody
\* to listen to.
THEOREM TurnOffIsFollowed ==
    FairSpec /\ []StepsExist => TurnOffIsHeeded
  <1>1. SInv /\ [Next]_vars =>
           (Reached("shutdown") => Reached("shutdown")' \/ Closed' \/ ~Good')
    BY WorkSteps
  <1>2. SInv /\ [Next]_vars /\ <<MainStep>>_vars => (Reached("shutdown") => Closed')
    BY WorkSteps
  <1>3. StepsExist /\ Reached("shutdown") => ENABLED <<MainStep>>_vars
    BY DEF StepsExist, Reached, Busy
  <1>4. SInv /\ Carried =>
           (screen = "off" => \/ Underway("UF", "idle") \/ Come("UF", "idle")
                              \/ Reached("shutdown") \/ Closed \/ ~Good)
    BY Stages DEF Closed
  <1>5. /\ Closed /\ Deaf => ~ser_open /\ hears # "listening"
        /\ ~Good => excuse # {} \/ died # "none"
    BY DEF Closed, Deaf, Good
  <1>6. LeadsOn("UF", "idle", "shutdown")
    <2>1. /\ "UF" \in Messages /\ "idle" \in Waiting /\ "shutdown" \in States
          /\ <<"UF", "idle", "shutdown">> \in Awaits
      BY DEF Messages, Waiting, States, Awaits
    <2> QED BY <2>1, MessageIsHeeded, Zenon
  <1>7. Init => Carried /\ Socketed
    BY DEF Init, Carried, Socketed
  <1>8. IInv /\ Carried /\ Socketed /\ [Next]_vars => Carried' /\ Socketed'
    BY StaysCarried
  <1> QED
    BY <1>1, <1>2, <1>3, <1>4, <1>5, <1>6, <1>7, <1>8, ThreadGivesUp, SafetyInvariance,
       Invariance, PTL
       DEF FairSpec, Spec, TurnOffIsHeeded, LeadsOn
=============================================================================
