---------------------------- MODULE Sim900Proofs ----------------------------
(* Within its nested waits the modem driver has one reader at a time, its  *)
(* waits nest no deeper than resets began within them, and while nothing   *)
(* goes wrong it does not cut off a server that works, for every number of *)
(* resets and every room for commands in a minute.                         *)
EXTENDS Sim900, SequenceTheorems, TLAPS

Resetting == ResetWaits \cup Pulses

Modems == [on : BOOLEAN, echo : BOOLEAN, unlocked : BOOLEAN, bearer : BOOLEAN,
           server : BOOLEAN]

USE DEF flags, nest, wait, device, bounds

-----------------------------------------------------------------------------
(* The modem and the automaton have their types.                           *)

LEMMA TextsAre ==
    Texts = {"none", "OK", "ERROR", "ATOK", "SHUTOK", "ATE0OK", "IP", "noise", "SRV",
             "DEACT", "NOSRV", "CGATT1", "CGATT0", "SERVEROK", "CREG1", "CREG0", "CSQ",
             "READY", "SIMPIN", "long", "RECEIVE"}
  BY DEF Texts, Length

LEMMA ReplyType ==
    ASSUME modem \in Modems, NEW c \in Commands
    PROVE  Reply(c) \in Texts
<1>1. modem.on \in BOOLEAN /\ modem.echo \in BOOLEAN
  BY DEF Modems
<1> QED BY <1>1, TextsAre DEF Reply, Commands, Starting

LEMMA AfterType ==
    ASSUME modem \in Modems, NEW c \in Commands
    PROVE  After(c) \in Modems
  BY DEF After, Modems

LEMMA AnsweredType ==
    ASSUME NEW s \in States, NEW t \in Texts
    PROVE  Answered(s, t) \in States
  BY DEF Answered, States, Starting

LEMMA PoweredUpType == PoweredUp \in Modems /\ [PoweredUp EXCEPT !.on = FALSE] \in Modems
  BY DEF PoweredUp, Modems

-----------------------------------------------------------------------------
(* Types, by what the actions change together.                             *)

FlagsOK ==
    /\ state \in States /\ recived \in Texts
    /\ fl_read \in BOOLEAN /\ fl_test_connect \in BOOLEAN /\ fl_reject_resetSIM \in BOOLEAN
    /\ t_min_no_connect \in 0 .. MAX_TIME_NO_CONNECT
WaitOK ==
    /\ stack \in Seq(Waits) /\ nested \in Nat
    /\ no_SimLoop \in BOOLEAN /\ time_sleep_SIM \in BOOLEAN
DeviceOK == modem \in Modems /\ line \in Seq(Texts)
BoundsOK ==
    age \in 0 .. RoundsPerMinute /\ faults \in 0 .. MaxFaults /\ resets \in 0 .. MaxResets
KeysOK == keys \subseteq {"a", "b", "c"} /\ rst \in BOOLEAN

LEMMA Types == TypeOK <=> FlagsOK /\ WaitOK /\ DeviceOK /\ BoundsOK /\ KeysOK
<1>1. \A x : x \in BOOLEAN <=> {x} \subseteq BOOLEAN
  OBVIOUS
<1> QED BY <1>1 DEF TypeOK, FlagsOK, WaitOK, DeviceOK, BoundsOK, KeysOK, Modems

LEMMA TypesNext == TypeOK' <=> FlagsOK' /\ WaitOK' /\ DeviceOK' /\ BoundsOK' /\ KeysOK'
  BY Types, PTL

LEMMA Constants ==
    /\ MAX_TIME_NO_CONNECT \in Nat \ {0} /\ RoundsPerMinute \in Nat \ {0, 1}
    /\ MaxFaults \in Nat /\ MaxResets \in Nat
  BY Sim900Assumption DEF Sim900Assumption

LEMMA Atoms ==
    /\ "AT_test" \in States /\ "Opened" \in States /\ Starting \subseteq States
    /\ Starting \subseteq Waits /\ Starting \subseteq Commands
    /\ {"none", "long", "DEACT", "RECEIVE"} \subseteq Texts
    /\ 0 \in 0 .. MAX_TIME_NO_CONNECT /\ 0 \in 0 .. RoundsPerMinute
    /\ 0 \in 0 .. MaxFaults /\ 0 \in 0 .. MaxResets
<1>1. "AT_test" \in States /\ "Opened" \in States /\ Starting \subseteq States
  BY DEF States, Starting
<1>2. Starting \subseteq Waits /\ Starting \subseteq Commands
  BY DEF Waits, Commands
<1>3. {"none", "long", "DEACT", "RECEIVE"} \subseteq Texts
  BY TextsAre
<1> QED BY <1>1, <1>2, <1>3, Constants

LEMMA InitType == Init => TypeOK
<1> SUFFICES ASSUME Init PROVE FlagsOK /\ WaitOK /\ DeviceOK /\ BoundsOK /\ KeysOK
  BY Types
<1>1. FlagsOK
  BY Atoms DEF Init, FlagsOK
<1>2. DeviceOK
  <2>1. modem \in Modems
    BY PoweredUpType DEF Init
  <2>2. line \in Seq(Texts)
    BY DEF Init
  <2> QED BY <2>1, <2>2 DEF DeviceOK
<1>3. WaitOK
  <2>1. stack \in Seq(Waits) /\ nested \in Nat
    BY DEF Init
  <2> QED BY <2>1 DEF Init, WaitOK
<1>4. BoundsOK
  BY Atoms DEF Init, BoundsOK
<1>5. KeysOK
  BY DEF Init, KeysOK
<1> QED BY <1>1, <1>2, <1>3, <1>4, <1>5

LEMMA SimWriteType ==
    ASSUME DeviceOK, NEW c \in Commands, SimWrite(c)
    PROVE  DeviceOK'
<1>1. modem' \in Modems
  BY AfterType DEF SimWrite, DeviceOK
<1>2. line' \in Seq(Texts)
  <2>1. Reply(c) \in Texts
    BY ReplyType DEF DeviceOK
  <2> QED BY <2>1 DEF SimWrite, Say, DeviceOK
<1> QED BY <1>1, <1>2 DEF DeviceOK

LEMMA SleepType ==
    ASSUME WaitOK, NEW w \in Waits, NEW below \in Seq(Waits), SleepSIM(w, below)
    PROVE  /\ WaitOK' /\ no_SimLoop'
           /\ Len(stack') = Len(below) + 1 /\ stack'[1] = w
           /\ \A i \in DOMAIN stack' : i > 1 => stack'[i] = below[i - 1]
           /\ \A i \in DOMAIN stack' : i > 1 => i - 1 \in DOMAIN below
           /\ nested' = Nesting(w, below)
<1>1. <<w>> \in Seq(Waits) /\ Len(<<w>>) = 1 /\ <<w>>[1] = w
  OBVIOUS
<1>2. stack' = <<w>> \o below
  BY DEF SleepSIM
<1>3. /\ stack' \in Seq(Waits) /\ Len(stack') = Len(below) + 1
      /\ DOMAIN stack' = 1 .. Len(below) + 1 /\ DOMAIN below = 1 .. Len(below)
      /\ \A i \in 1 .. Len(below) + 1 : stack'[i] = IF i <= 1 THEN <<w>>[i] ELSE below[i - 1]
  BY <1>1, <1>2, ConcatProperties
<1> QED BY <1>1, <1>3 DEF SleepSIM, WaitOK, Nesting

LEMMA WaitedType ==
    ASSUME WaitOK, stack # <<>>, Waited
    PROVE  /\ stack' \in Seq(Waits) /\ Len(stack') = Len(stack) - 1
           /\ nested' \in Nat /\ no_SimLoop' = FALSE
           /\ \A i \in DOMAIN stack' : i + 1 \in DOMAIN stack /\ stack'[i] = stack[i + 1]
           /\ nested' = IF stack' = <<>> THEN 0 ELSE nested
  BY DEF Waited, WaitOK

LEMMA OnOffType ==
    ASSUME FlagsOK, WaitOK, On_off_SIM
    PROVE  /\ WaitOK' /\ rst' \in BOOLEAN /\ state' \in States
           /\ fl_read' \in BOOLEAN /\ fl_test_connect' \in BOOLEAN
           /\ fl_reject_resetSIM' \in BOOLEAN
           /\ t_min_no_connect' \in 0 .. MAX_TIME_NO_CONNECT
<1>1. SleepSIM("pulse", stack) /\ "pulse" \in Waits
  BY DEF On_off_SIM, Waits
<1>2. WaitOK'
  BY <1>1, SleepType DEF WaitOK
<1> QED BY <1>2, Atoms DEF On_off_SIM, FlagsOK

-----------------------------------------------------------------------------
(* SimLoop.                                                                *)

LEMMA AnswerCompleteType ==
    ASSUME FlagsOK, WaitOK, DeviceOK, rst \in BOOLEAN, NEW said \in Seq(Texts),
           NEW tested \in BOOLEAN, AnswerComplete(said, tested)
    PROVE  FlagsOK' /\ WaitOK' /\ DeviceOK' /\ rst' \in BOOLEAN
<1>1. CASE /\ state = "Opened"
           /\ time_sleep_SIM' = TRUE /\ fl_read' = TRUE /\ line' = said
           /\ fl_test_connect' = tested
           /\ UNCHANGED <<state, recived, t_min_no_connect, fl_reject_resetSIM, nest,
                          no_SimLoop, modem, rst>>
  BY <1>1 DEF FlagsOK, WaitOK, DeviceOK
<1>2. CASE On_off_SIM /\ line' = said /\ UNCHANGED <<recived, modem>>
  <2>1. /\ WaitOK' /\ rst' \in BOOLEAN /\ state' \in States
        /\ fl_read' \in BOOLEAN /\ fl_test_connect' \in BOOLEAN
        /\ fl_reject_resetSIM' \in BOOLEAN
        /\ t_min_no_connect' \in 0 .. MAX_TIME_NO_CONNECT
    BY <1>2, OnOffType
  <2> QED BY <1>2, <2>1 DEF FlagsOK, DeviceOK
<1>3. CASE /\ state' = Answered(state, recived)
           /\ t_min_no_connect' = IF state' = "Opened" THEN 0 ELSE t_min_no_connect
           /\ IF state' = "Opened" /\ recived = "ERROR"
              THEN SimRead /\ line' = Say(said, Reply("CIPSTATUS"))
              ELSE fl_read' = FALSE /\ line' = said /\ UNCHANGED <<recived, time_sleep_SIM>>
           /\ UNCHANGED <<fl_test_connect, fl_reject_resetSIM, nest, no_SimLoop, modem, rst>>
  <2>1. state' \in States
    BY <1>3, AnsweredType DEF FlagsOK
  <2>2. t_min_no_connect' \in 0 .. MAX_TIME_NO_CONNECT
    BY <1>3, Atoms DEF FlagsOK
  <2>3. Reply("CIPSTATUS") \in Texts
    BY ReplyType DEF Commands, DeviceOK
  <2>4. line' \in Seq(Texts)
    BY <1>3, <2>3 DEF Say
  <2>5. recived' \in Texts /\ fl_read' \in BOOLEAN /\ time_sleep_SIM' \in BOOLEAN
    BY <1>3, Atoms DEF SimRead, FlagsOK, WaitOK
  <2> QED BY <1>3, <2>1, <2>2, <2>4, <2>5 DEF FlagsOK, WaitOK, DeviceOK
<1> QED BY <1>1, <1>2, <1>3 DEF AnswerComplete

LEMMA TextReadType ==
    ASSUME FlagsOK, WaitOK, DeviceOK, rst \in BOOLEAN, NEW said \in Seq(Texts), said # <<>>,
           NEW old \in Texts, NEW tested \in BOOLEAN, TextRead(said, old, tested)
    PROVE  FlagsOK' /\ WaitOK' /\ DeviceOK' /\ rst' \in BOOLEAN
<1>1. Head(said) \in Texts /\ DeviceOK'
  BY DEF TextRead, DeviceOK
<1>2. CASE On_off_SIM /\ UNCHANGED recived
  <2>1. /\ WaitOK' /\ rst' \in BOOLEAN /\ state' \in States
        /\ fl_read' \in BOOLEAN /\ fl_test_connect' \in BOOLEAN
        /\ fl_reject_resetSIM' \in BOOLEAN
        /\ t_min_no_connect' \in 0 .. MAX_TIME_NO_CONNECT
    BY <1>2, OnOffType
  <2> QED BY <1>1, <1>2, <2>1 DEF FlagsOK
<1>3. CASE /\ time_sleep_SIM' = TRUE /\ fl_read' = TRUE
           /\ recived' = IF state = "Opened" THEN "none"
                         ELSE IF old = "none" THEN Head(said) ELSE "long"
           /\ \E sign \in BOOLEAN :
                 /\ t_min_no_connect' = IF sign THEN 0 ELSE t_min_no_connect
                 /\ fl_test_connect' = (tested /\ ~sign)
           /\ fl_reject_resetSIM' =
                 (fl_reject_resetSIM \/ (state = "Opened" /\ Head(said) = "RECEIVE"))
           /\ UNCHANGED <<state, nest, no_SimLoop, rst>>
  <2>1. recived' \in Texts /\ t_min_no_connect' \in 0 .. MAX_TIME_NO_CONNECT
    BY <1>1, <1>3, Atoms DEF FlagsOK
  <2>2. fl_test_connect' \in BOOLEAN /\ fl_reject_resetSIM' \in BOOLEAN
    BY <1>3
  <2> QED BY <1>1, <1>3, <2>1, <2>2 DEF FlagsOK, WaitOK
<1> QED BY <1>2, <1>3 DEF TextRead

LEMMA LoopReadType ==
    ASSUME FlagsOK, WaitOK, DeviceOK, rst \in BOOLEAN, NEW said \in Seq(Texts),
           NEW renewed \in BOOLEAN, NEW tested \in BOOLEAN, LoopRead(said, renewed, tested)
    PROVE  FlagsOK' /\ WaitOK' /\ DeviceOK' /\ rst' \in BOOLEAN
<1> DEFINE old == IF renewed THEN "none" ELSE recived
<1>1. old \in Texts
  BY Atoms DEF FlagsOK
<1>2. CASE On_off_SIM /\ recived' = old /\ line' = said /\ UNCHANGED modem
  <2>1. /\ WaitOK' /\ rst' \in BOOLEAN /\ state' \in States
        /\ fl_read' \in BOOLEAN /\ fl_test_connect' \in BOOLEAN
        /\ fl_reject_resetSIM' \in BOOLEAN
        /\ t_min_no_connect' \in 0 .. MAX_TIME_NO_CONNECT
    BY <1>2, OnOffType
  <2> QED BY <1>1, <1>2, <2>1 DEF FlagsOK, DeviceOK
<1>3. CASE AnswerComplete(said, tested)
  BY <1>3, AnswerCompleteType
<1>4. CASE said # <<>> /\ TextRead(said, old, tested)
  BY <1>1, <1>4, TextReadType
<1>5. CASE /\ time_sleep_SIM' = TRUE /\ fl_read' = TRUE /\ recived' = old
           /\ fl_test_connect' = tested /\ line' = said
           /\ UNCHANGED <<state, t_min_no_connect, fl_reject_resetSIM, nest,
                          no_SimLoop, modem, rst>>
  <2> HIDE DEF old
  <2> QED BY <1>1, <1>5 DEF FlagsOK, WaitOK, DeviceOK
<1> QED BY <1>2, <1>3, <1>4, <1>5 DEF LoopRead

LEMMA SaidType ==
    ASSUME DeviceOK, NEW all \in Seq(Commands)
    PROVE  (IF modem.on THEN line \o [i \in DOMAIN all |-> Reply(all[i])] ELSE line)
               \in Seq(Texts)
<1>1. DOMAIN all = 1 .. Len(all) /\ Len(all) \in Nat
  OBVIOUS
<1>2. \A i \in DOMAIN all : Reply(all[i]) \in Texts
  BY ReplyType DEF DeviceOK
<1>3. [i \in DOMAIN all |-> Reply(all[i])] \in Seq(Texts)
  BY <1>1, <1>2
<1> QED BY <1>3 DEF DeviceOK

LEMMA SimLoopType == TypeOK /\ SimLoop => TypeOK'
<1> SUFFICES ASSUME TypeOK, SimLoop
             PROVE  FlagsOK' /\ WaitOK' /\ DeviceOK' /\ BoundsOK' /\ KeysOK'
  BY TypesNext
<1>t. FlagsOK /\ WaitOK /\ DeviceOK /\ BoundsOK /\ KeysOK
  BY Types
<1> DEFINE read == fl_read \/ "a" \in keys
           asked == Asked(read)
           all == asked \o (IF Tests(read) THEN <<"CIPSERVER?">> ELSE <<>>)
           said == IF modem.on THEN line \o [i \in DOMAIN all |-> Reply(all[i])] ELSE line
<1>1. all \in Seq(Commands)
  <2>1. "AT_test" \in Commands /\ "CIPSERVER?" \in Commands /\ "CIPSTATUS" \in Commands
    BY DEF Commands, Starting
  <2>2. asked \in Seq(Commands)
    BY <2>1 DEF Asked
  <2> QED BY <2>1, <2>2
<1>2. said \in Seq(Texts)
  BY <1>t, <1>1, SaidType
<1>3. KeysOK' \/ (keys' \subseteq {"a", "b", "c"})
  BY <1>t DEF SimLoop, KeysOK
<1>4. BoundsOK'
  BY <1>t DEF SimLoop, BoundsOK
<1>5. CASE LoopRead(said, asked # <<>>, fl_test_connect \/ Tests(read))
  <2>1. (asked # <<>>) \in BOOLEAN /\ (fl_test_connect \/ Tests(read)) \in BOOLEAN
    OBVIOUS
  <2> HIDE DEF said, asked
  <2>2. FlagsOK' /\ WaitOK' /\ DeviceOK' /\ rst' \in BOOLEAN
    BY <1>t, <1>2, <1>5, <2>1, LoopReadType DEF KeysOK
  <2> QED BY <1>3, <1>4, <2>2 DEF KeysOK
<1>6. CASE Start
  <2>1. CASE /\ SimRead
             /\ UNCHANGED <<state, fl_test_connect, fl_reject_resetSIM, t_min_no_connect,
                            nest, no_SimLoop, device, rst>>
    BY <1>t, <1>3, <1>4, <2>1, Atoms DEF SimRead, FlagsOK, WaitOK, DeviceOK, KeysOK
  <2>2. CASE /\ state \in Starting /\ SleepSIM(state, stack) /\ UNCHANGED <<flags, device, rst>>
    <3>1. WaitOK'
      BY <1>t, <2>2, Atoms, SleepType DEF WaitOK
    <3> QED BY <1>t, <1>3, <1>4, <2>2, <3>1 DEF FlagsOK, DeviceOK, KeysOK
  <2> QED BY <1>6, <2>1, <2>2 DEF Start
<1> QED BY <1>5, <1>6 DEF SimLoop

-----------------------------------------------------------------------------
(* The other steps.                                                        *)

LEMMA ReleaseType ==
    ASSUME DeviceOK, Release
    PROVE  rst' \in BOOLEAN /\ modem' \in Modems
<1>1. [PoweredUp EXCEPT !.on = ~modem.on] \in Modems
  BY DEF PoweredUp, Modems
<1> QED BY <1>1 DEF Release, DeviceOK

LEMMA ResetSIMType ==
    ASSUME FlagsOK, WaitOK, DeviceOK, ResetSIM
    PROVE  /\ recived' \in Texts /\ fl_reject_resetSIM' \in BOOLEAN /\ WaitOK' /\ DeviceOK'
<1>1. CASE fl_reject_resetSIM' = FALSE /\ UNCHANGED <<recived, wait, device>>
  BY <1>1 DEF FlagsOK, WaitOK, DeviceOK
<1>2. CASE /\ SimWrite("CIPSHUT") /\ SleepSIM("shut", stack)
           /\ recived' = "none" /\ UNCHANGED fl_reject_resetSIM
  <2>1. "CIPSHUT" \in Commands /\ "shut" \in Waits /\ stack \in Seq(Waits)
    BY DEF Commands, Waits, ResetWaits, WaitOK
  <2>2. WaitOK' /\ DeviceOK'
    BY <1>2, <2>1, SleepType, SimWriteType
  <2> QED BY <1>2, <2>2, Atoms DEF FlagsOK
<1> QED BY <1>1, <1>2 DEF ResetSIM

LEMMA ProgramType == TypeOK /\ Program => TypeOK'
<1> SUFFICES ASSUME TypeOK, Program
             PROVE  FlagsOK' /\ WaitOK' /\ DeviceOK' /\ BoundsOK' /\ KeysOK'
  BY TypesNext
<1>t. FlagsOK /\ WaitOK /\ DeviceOK /\ BoundsOK /\ KeysOK
  BY Types
<1>1. CASE SimLoop
  BY <1>1, SimLoopType, TypesNext
<1>2. CASE CommandSent
  <2>1. Head(stack) \in Commands
    BY <1>2, Atoms DEF CommandSent
  <2>2. DeviceOK'
    BY <1>2, <1>t, <2>1, SimWriteType DEF CommandSent
  <2>3. WaitOK'
    BY <1>2, <1>t, WaitedType DEF CommandSent, SimRead, WaitOK
  <2>4. FlagsOK'
    BY <1>2, <1>t, Atoms DEF CommandSent, SimRead, FlagsOK
  <2>5. BoundsOK'
    BY <1>2, <1>t, Constants DEF CommandSent, BoundsOK
  <2> QED BY <1>2, <1>t, <2>2, <2>3, <2>4, <2>5 DEF CommandSent, KeysOK
<1>3. CASE PulseEnds
  <2>1. rst' \in BOOLEAN /\ modem' \in Modems
    BY <1>3, <1>t, ReleaseType DEF PulseEnds
  <2>2. WaitOK'
    BY <1>3, <1>t, WaitedType DEF PulseEnds, WaitOK
  <2> QED BY <1>3, <1>t, <2>1, <2>2 DEF PulseEnds, FlagsOK, DeviceOK, BoundsOK, KeysOK
<1>4. CASE Drain
  <2>1. line' \in Seq(Texts)
    BY <1>4, <1>t DEF Drain, DeviceOK
  <2> QED BY <1>4, <1>t, <2>1 DEF Drain, FlagsOK, WaitOK, DeviceOK, BoundsOK, KeysOK
<1>5. CASE ResetGoesOn
  <2>1. Following[Head(stack)] \in Waits /\ Tail(stack) \in Seq(Waits)
    BY <1>5, <1>t DEF ResetGoesOn, Following, Waits, ResetWaits, Pulses, WaitOK
  <2>2. WaitOK'
    BY <1>5, <1>t, <2>1, SleepType DEF ResetGoesOn
  <2>3. rst' \in BOOLEAN /\ modem' \in Modems
    BY <1>5, <1>t, ReleaseType DEF ResetGoesOn, DeviceOK
  <2>4. FlagsOK'
    BY <1>5, <1>t, Atoms DEF ResetGoesOn, FlagsOK
  <2> QED BY <1>5, <1>t, <2>2, <2>3, <2>4 DEF ResetGoesOn, DeviceOK, BoundsOK, KeysOK
<1>6. CASE ResetEnds
  <2>1. WaitOK'
    BY <1>6, <1>t, WaitedType DEF ResetEnds, WaitOK
  <2>2. FlagsOK'
    BY <1>6, <1>t, Atoms DEF ResetEnds, FlagsOK
  <2> QED BY <1>6, <1>t, <2>1, <2>2 DEF ResetEnds, DeviceOK, BoundsOK, KeysOK
<1> QED BY <1>1, <1>2, <1>3, <1>4, <1>5, <1>6 DEF Program

LEMMA OthersType == TypeOK /\ (TimerExpires \/ MinuteChanges \/ Console \/ World) => TypeOK'
<1> SUFFICES ASSUME TypeOK, TimerExpires \/ MinuteChanges \/ Console \/ World
             PROVE  FlagsOK' /\ WaitOK' /\ DeviceOK' /\ BoundsOK' /\ KeysOK'
  BY TypesNext
<1>t. FlagsOK /\ WaitOK /\ DeviceOK /\ BoundsOK /\ KeysOK
  BY Types
<1>f. Fault => faults' \in 0 .. MaxFaults
  BY <1>t, Constants DEF Fault, BoundsOK
<1>1. CASE TimerExpires
  <2>1. faults' \in 0 .. MaxFaults
    BY <1>1, <1>t, Constants DEF TimerExpires, BoundsOK
  <2> QED BY <1>1, <1>t, <2>1 DEF TimerExpires, FlagsOK, WaitOK, DeviceOK, BoundsOK, KeysOK
<1>2. CASE MinuteChanges
  <2>1. /\ recived' \in Texts /\ fl_reject_resetSIM' \in BOOLEAN /\ WaitOK' /\ DeviceOK'
        /\ resets' \in 0 .. MaxResets
    <3>1. CASE resets' = resets /\ UNCHANGED <<fl_reject_resetSIM, recived, wait, device>>
      BY <1>t, <3>1 DEF FlagsOK, WaitOK, DeviceOK, BoundsOK
    <3>2. CASE resets < MaxResets /\ resets' = resets + 1 /\ ResetSIM
      <4>1. resets' \in 0 .. MaxResets
        BY <1>t, <3>2, Constants DEF BoundsOK
      <4> QED BY <1>t, <3>2, <4>1, ResetSIMType
    <3> QED BY <1>2, <3>1, <3>2 DEF MinuteChanges
  <2>2. t_min_no_connect' \in 0 .. MAX_TIME_NO_CONNECT
    BY <1>2, <1>t, Constants DEF MinuteChanges, FlagsOK
  <2>3. age' = 0
    BY <1>2 DEF MinuteChanges
  <2> QED BY <1>2, <1>t, <2>1, <2>2, <2>3, Atoms DEF MinuteChanges, FlagsOK, BoundsOK, KeysOK
<1>3. ASSUME NEW s \in States, SetSimState(s)
      PROVE  FlagsOK' /\ WaitOK' /\ DeviceOK' /\ BoundsOK' /\ KeysOK'
  <2>1. DeviceOK'
    <3>1. CASE s \in Starting
      BY <1>3, <1>t, <3>1, Atoms, SimWriteType DEF SetSimState
    <3>2. CASE s \notin Starting
      BY <1>3, <1>t, <3>2 DEF SetSimState, DeviceOK
    <3> QED BY <3>1, <3>2
  <2>2. recived' \in Texts /\ fl_read' \in BOOLEAN /\ time_sleep_SIM' \in BOOLEAN
    BY <1>3, <1>t, Atoms DEF SetSimState, SimRead, FlagsOK, WaitOK
  <2> QED BY <1>3, <1>t, <1>f, <2>1, <2>2 DEF SetSimState, FlagsOK, WaitOK, BoundsOK, KeysOK
<1>4. ASSUME NEW c \in Commands, SendOnlyCommand(c)
      PROVE  FlagsOK' /\ WaitOK' /\ DeviceOK' /\ BoundsOK' /\ KeysOK'
  <2>1. DeviceOK'
    BY <1>4, <1>t, SimWriteType DEF SendOnlyCommand
  <2>2. recived' \in Texts /\ fl_read' \in BOOLEAN /\ time_sleep_SIM' \in BOOLEAN
    BY <1>4, Atoms DEF SendOnlyCommand, SimRead
  <2> QED BY <1>4, <1>t, <1>f, <2>1, <2>2 DEF SendOnlyCommand, FlagsOK, WaitOK, BoundsOK, KeysOK
<1>5. ASSUME NEW k \in {"a", "b", "c"}, PressKey(k)
      PROVE  FlagsOK' /\ WaitOK' /\ DeviceOK' /\ BoundsOK' /\ KeysOK'
  BY <1>5, <1>t, <1>f DEF PressKey, FlagsOK, WaitOK, DeviceOK, BoundsOK, KeysOK
<1>6. CASE ToggleReset
  <2>1. rst' \in BOOLEAN /\ modem' \in Modems
    BY <1>6, <1>t, ReleaseType DEF ToggleReset, DeviceOK
  <2> QED BY <1>6, <1>t, <1>f, <2>1 DEF ToggleReset, FlagsOK, WaitOK, DeviceOK, BoundsOK, KeysOK
<1>7. CASE World
  <2>1. DeviceOK'
    <3>1. CASE ClientSends
      BY <1>t, <3>1, Atoms DEF ClientSends, DeviceOK
    <3>2. CASE TextLost
      BY <1>t, <3>2 DEF TextLost, DeviceOK
    <3>3. CASE BearerLost
      <4>1. modem' \in Modems
        BY <1>t, <3>3 DEF BearerLost, DeviceOK, Modems
      <4> QED BY <1>t, <3>3, <4>1, Atoms DEF BearerLost, DeviceOK
    <3>4. CASE ModemDies
      BY <1>t, <3>4, PoweredUpType DEF ModemDies, DeviceOK
    <3>5. ASSUME NEW u \in {"ERROR", "noise", "CREG0"}, OtherText(u)
          PROVE  DeviceOK'
      <4>1. u \in Texts
        BY TextsAre
      <4>2. line # <<>> => [line EXCEPT ![Len(line)] = u] \in Seq(Texts)
        <5>1. line # <<>> => Len(line) \in 1 .. Len(line)
          BY <1>t DEF DeviceOK
        <5> QED BY <1>t, <4>1, <5>1, ExceptSeq DEF DeviceOK
      <4> QED BY <1>t, <3>5, <4>1, <4>2 DEF OtherText, DeviceOK
    <3> QED BY <1>7, <3>1, <3>2, <3>3, <3>4, <3>5 DEF World
  <2>2. faults' \in 0 .. MaxFaults
    BY <1>7, <1>t, <1>f DEF World, ClientSends, TextLost, BearerLost, ModemDies, OtherText, BoundsOK
  <2>3. UNCHANGED <<flags, wait, age, resets, keys, rst>>
    BY <1>7 DEF World, ClientSends, TextLost, BearerLost, ModemDies, OtherText
  <2> QED BY <1>t, <2>1, <2>2, <2>3 DEF FlagsOK, WaitOK, BoundsOK, KeysOK
<1> QED BY <1>1, <1>2, <1>3, <1>4, <1>5, <1>6, <1>7 DEF Console

LEMMA StepType == TypeOK /\ [Next]_vars => TypeOK'
<1>1. TypeOK /\ UNCHANGED vars => TypeOK'
  BY DEF vars, TypeOK
<1> QED BY <1>1, ProgramType, OthersType DEF Next

\* The flags, the waits, the modem's texts and the counters keep their types.
THEOREM ModemTypeCorrect == Spec => []TypeOK
  BY InitType, StepType, PTL DEF Spec

-----------------------------------------------------------------------------
(* The stack of waits.                                                     *)

\* A wait of ResetSIM is the innermost one, keeps SimLoop out and, as no
\* command is sent meanwhile, is over before the minute changes again.
ResetAlone ==
    \A i \in DOMAIN stack : stack[i] \in Resetting => i = 1 /\ no_SimLoop /\ age = 0

\* SimLoop nests a wait only when no other wait keeps it out.
Depth == Len(stack) <= nested + (IF no_SimLoop THEN 1 ELSE 0)

StackInv == ResetAlone /\ Depth

LEMMA InitStack == Init => StackInv
  BY DEF Init, StackInv, ResetAlone, Depth

LEMMA SleepStack ==
    ASSUME TypeOK, StackInv, ~no_SimLoop, NEW w \in Waits \ Resetting, SleepSIM(w, stack)
    PROVE  StackInv'
<1>t. WaitOK /\ stack \in Seq(Waits)
  BY Types DEF WaitOK
<1>1. /\ WaitOK' /\ no_SimLoop'
      /\ Len(stack') = Len(stack) + 1 /\ stack'[1] = w
      /\ \A i \in DOMAIN stack' : i > 1 => stack'[i] = stack[i - 1]
      /\ \A i \in DOMAIN stack' : i > 1 => i - 1 \in DOMAIN stack
      /\ nested' = Nesting(w, stack)
  BY <1>t, SleepType
<1>2. \A i \in DOMAIN stack : stack[i] \notin Resetting
  BY DEF StackInv, ResetAlone
<1>3. DOMAIN stack' = 1 .. Len(stack')
  BY <1>1 DEF WaitOK
<1>4. \A i \in DOMAIN stack' : stack'[i] \notin Resetting
  BY <1>1, <1>2, <1>3 DEF WaitOK
<1>5. nested' = nested
  BY <1>1 DEF Nesting, Resetting, ResetWaits
<1> QED BY <1>t, <1>1, <1>4, <1>5 DEF StackInv, ResetAlone, Depth, WaitOK

LEMMA WaitedStack ==
    ASSUME TypeOK, StackInv, stack # <<>>, Waited
    PROVE  StackInv'
<1>t. WaitOK
  BY Types
<1>1. /\ stack' \in Seq(Waits) /\ Len(stack') = Len(stack) - 1
      /\ no_SimLoop' = FALSE
      /\ \A i \in DOMAIN stack' : i + 1 \in DOMAIN stack /\ stack'[i] = stack[i + 1]
      /\ nested' = IF stack' = <<>> THEN 0 ELSE nested
  BY <1>t, WaitedType
<1>2. \A i \in DOMAIN stack' : stack'[i] \notin Resetting
  <2> SUFFICES ASSUME NEW i \in DOMAIN stack' PROVE stack'[i] \notin Resetting
    OBVIOUS
  <2>1. i \in Nat \ {0}
    BY <1>1
  <2> QED BY <1>1, <2>1 DEF StackInv, ResetAlone
<1>3. Depth'
  <2>1. CASE stack' = <<>>
    <3>1. Len(stack') = 0 /\ nested' = 0 /\ ~no_SimLoop'
      BY <1>1, <2>1
    <3> QED BY <3>1 DEF Depth
  <2>2. CASE stack' # <<>>
    BY <1>t, <1>1, <2>2 DEF StackInv, Depth, WaitOK
  <2> QED BY <2>1, <2>2
<1> QED BY <1>2, <1>3 DEF StackInv, ResetAlone

LEMMA KeptStack ==
    ASSUME StackInv, UNCHANGED <<nest, no_SimLoop>>, age' = age \/ age' = 0
    PROVE  StackInv'
  BY DEF StackInv, ResetAlone, Depth

LEMMA SimLoopStack == TypeOK /\ StackInv /\ SimLoop => StackInv'
<1> SUFFICES ASSUME TypeOK, StackInv, SimLoop PROVE StackInv'
  OBVIOUS
<1>1. ~no_SimLoop /\ age' = age
  BY DEF SimLoop
<1>2. CASE \E w \in Waits \ Resetting : SleepSIM(w, stack)
  BY <1>1, <1>2, SleepStack
<1>3. CASE UNCHANGED <<nest, no_SimLoop>>
  BY <1>1, <1>3, KeptStack
<1>4. "pulse" \in Waits \ Resetting /\ Starting \subseteq Waits \ Resetting
  BY DEF Waits, Starting, Resetting, ResetWaits, Pulses
<1>5. On_off_SIM => SleepSIM("pulse", stack)
  BY DEF On_off_SIM
<1>6. \A said, tested : AnswerComplete(said, tested) =>
          On_off_SIM \/ UNCHANGED <<nest, no_SimLoop>>
  BY DEF AnswerComplete
<1>7. \A said, old, tested : TextRead(said, old, tested) =>
          On_off_SIM \/ UNCHANGED <<nest, no_SimLoop>>
  BY DEF TextRead
<1>8. \A said, renewed, tested : LoopRead(said, renewed, tested) =>
          On_off_SIM \/ UNCHANGED <<nest, no_SimLoop>>
  BY <1>6, <1>7 DEF LoopRead
<1>9. Start => \/ \E w \in Starting : SleepSIM(w, stack)
               \/ UNCHANGED <<nest, no_SimLoop>>
  BY DEF Start
<1>10. \/ \E said, renewed, tested : LoopRead(said, renewed, tested)
       \/ Start
  BY DEF SimLoop
<1> QED BY <1>2, <1>3, <1>4, <1>5, <1>8, <1>9, <1>10

LEMMA StepStack == TypeOK /\ StackInv /\ [Next]_vars => StackInv'
<1> SUFFICES ASSUME TypeOK, StackInv, [Next]_vars PROVE StackInv'
  OBVIOUS
<1>t. WaitOK /\ BoundsOK
  BY Types
<1>1. CASE SimLoop
  BY <1>1, SimLoopStack
<1>2. CASE CommandSent
  <2>1. Head(stack) \notin Resetting /\ Head(stack) = stack[1] /\ 1 \in DOMAIN stack
    BY <1>2, <1>t DEF CommandSent, Starting, Resetting, ResetWaits, Pulses, WaitOK
  <2>2. stack # <<>> /\ Waited
    BY <1>2 DEF CommandSent
  <2>3. StackInv'
    BY <2>2, WaitedStack
  <2> QED BY <2>3
<1>3. CASE PulseEnds \/ ResetEnds
  BY <1>3, WaitedStack DEF PulseEnds, ResetEnds
<1>4. CASE ResetGoesOn
  <2> DEFINE w == Following[Head(stack)]
             below == Tail(stack)
  <2>1. /\ stack # <<>> /\ Head(stack) = stack[1] /\ 1 \in DOMAIN stack
        /\ Head(stack) \in {"shut", "offpulse", "off", "onpulse"}
    BY <1>4, <1>t DEF ResetGoesOn, Following, WaitOK
  <2>2. w \in Waits \ {"shut"} /\ Head(stack) \in Resetting
    BY <2>1 DEF Following, Waits, Resetting, ResetWaits, Pulses
  <2>3. no_SimLoop /\ age = 0 /\ age' = age
    BY <1>4, <2>1, <2>2 DEF StackInv, ResetAlone, ResetGoesOn
  <2>4. SleepSIM(w, below) /\ below \in Seq(Waits)
    BY <1>4, <1>t, <2>1 DEF ResetGoesOn, WaitOK
  <2>5. /\ Len(below) = Len(stack) - 1 /\ DOMAIN stack = 1 .. Len(stack)
        /\ \A i \in DOMAIN below : i \in Nat \ {0} /\ i + 1 \in DOMAIN stack
                                   /\ below[i] = stack[i + 1]
    BY <1>t, <2>1 DEF WaitOK
  <2> HIDE DEF w, below
  <2>6. /\ WaitOK' /\ no_SimLoop'
        /\ Len(stack') = Len(below) + 1 /\ stack'[1] = w
        /\ \A i \in DOMAIN stack' : i > 1 => stack'[i] = below[i - 1]
        /\ \A i \in DOMAIN stack' : i > 1 => i - 1 \in DOMAIN below
        /\ nested' = Nesting(w, below)
    BY <1>t, <2>2, <2>4, SleepType
  <2>7. nested' = nested
    BY <2>2, <2>6 DEF Nesting
  <2>8. \A i \in DOMAIN below : below[i] \notin Resetting
    BY <2>5 DEF StackInv, ResetAlone
  <2>9. \A i \in DOMAIN stack' : i > 1 => stack'[i] \notin Resetting
    BY <2>6, <2>8
  <2>10. \A i \in DOMAIN stack' : i \in Nat \ {0}
    BY <2>6 DEF WaitOK
  <2>11. ResetAlone'
    BY <2>3, <2>6, <2>9, <2>10 DEF ResetAlone
  <2>12. Depth'
    <3>1. Len(stack') = Len(stack)
      BY <1>t, <2>5, <2>6 DEF WaitOK
    <3>2. Len(stack) <= nested + 1
      BY <2>3 DEF StackInv, Depth
    <3> QED BY <2>6, <2>7, <3>1, <3>2 DEF Depth
  <2> QED BY <2>11, <2>12 DEF StackInv
<1>5. CASE MinuteChanges
  <2>1. \A i \in DOMAIN stack : stack[i] \notin Resetting
    <3>1. age = RoundsPerMinute \/ ~no_SimLoop
      BY <1>5 DEF MinuteChanges, Quiet
    <3> QED BY <3>1, Constants DEF StackInv, ResetAlone
  <2>2. age' = 0
    BY <1>5 DEF MinuteChanges
  <2>3. CASE UNCHANGED <<nest, no_SimLoop>>
    BY <2>2, <2>3, KeptStack
  <2>4. CASE SleepSIM("shut", stack)
    <3>1. "shut" \in Waits /\ stack \in Seq(Waits)
      BY <1>t DEF Waits, ResetWaits, WaitOK
    <3>2. /\ WaitOK' /\ no_SimLoop'
          /\ Len(stack') = Len(stack) + 1 /\ stack'[1] = "shut"
          /\ \A i \in DOMAIN stack' : i > 1 => stack'[i] = stack[i - 1]
          /\ \A i \in DOMAIN stack' : i > 1 => i - 1 \in DOMAIN stack
          /\ nested' = Nesting("shut", stack)
      BY <1>t, <2>4, <3>1, SleepType
    <3>3. \A i \in DOMAIN stack' : i \in Nat \ {0}
      BY <3>2 DEF WaitOK
    <3>4. ResetAlone'
      BY <2>1, <2>2, <3>2, <3>3 DEF ResetAlone
    <3>5. Depth'
      <4>1. CASE stack = <<>>
        BY <1>t, <3>2, <4>1 DEF Depth, Nesting, WaitOK
      <4>2. CASE stack # <<>>
        BY <1>t, <3>2, <4>2 DEF StackInv, Depth, Nesting, WaitOK
      <4> QED BY <4>1, <4>2
    <3> QED BY <3>4, <3>5 DEF StackInv
  <2> QED BY <1>5, <2>3, <2>4 DEF MinuteChanges, ResetSIM
<1>6. CASE TimerExpires \/ Drain \/ Console \/ World \/ UNCHANGED vars
  <2>1. UNCHANGED <<nest, no_SimLoop>> /\ age' = age
    <3>1. CASE Console
      BY <3>1 DEF Console, SetSimState, SendOnlyCommand, PressKey, ToggleReset
    <3>2. CASE World
      BY <3>2 DEF World, ClientSends, TextLost, BearerLost, ModemDies, OtherText
    <3>3. CASE TimerExpires \/ Drain \/ UNCHANGED vars
      BY <3>3 DEF TimerExpires, Drain, vars
    <3> QED BY <1>6, <3>1, <3>2, <3>3
  <2> QED BY <2>1, KeptStack
<1> QED BY <1>1, <1>2, <1>3, <1>4, <1>5, <1>6 DEF Next, Program

LEMMA StackInvariance == Spec => [](TypeOK /\ StackInv)
  BY InitType, InitStack, StepType, StepStack, PTL DEF Spec

\* While ResetSIM reads what the modem sends, SimLoop does not, whatever waits
\* the reset fell into and however many commands were under way.
THEOREM ResetReadsAlone == Spec => []OneReader
<1>1. StackInv => OneReader
  BY DEF StackInv, ResetAlone, OneReader, Resetting
<1> QED BY <1>1, StackInvariance, PTL

\* The call stack of main_loop grows by resets that begin within waits, and by
\* nothing else.
THEOREM NestingIsBounded == Spec => []NestingBounded
<1>1. TypeOK /\ StackInv => NestingBounded
  BY DEF TypeOK, StackInv, Depth, NestingBounded
<1> QED BY <1>1, StackInvariance, PTL

-----------------------------------------------------------------------------
(* A server that works is not cut off, as long as nothing goes wrong.      *)

\* What the invariant speaks of: the innermost wait and what the modem does.
Top == IF stack = <<>> THEN "none" ELSE Head(stack)
On == modem.on
Echoes == modem.on /\ modem.echo
Serves == modem.on /\ modem.server

Tells(s, t) == \E i \in 1 .. Len(s) : s[i] = t
LastOf(s) == s[Len(s)]

\* What a modem that echoes answers with.
Garbled == {"ATOK", "long"}
Spoilt(r, s) == r \in Garbled \/ (s # <<>> /\ LastOf(s) \in Garbled)

\* A reset has shut the server before it waits; GPRS_RST is set only while some
\* wait keeps SimLoop out, and whoever waits for a command is not open.
Driven ==
    /\ rst => no_SimLoop /\ Top \in {"pulse", "shut", "offpulse", "onpulse"}
    /\ no_SimLoop /\ Top = "pulse" => state = "AT_test" /\ ~fl_read
    /\ Top \in Resetting => no_SimLoop /\ ~Serves
    /\ no_SimLoop => Top # "none" /\ (Top \in Starting => state # "Opened")

\* A modem that echoes is never taken further than ATE0: its answers are neither
\* OK nor the answer to ATE0, whatever was left unread before them.
Silenced ==
    /\ Echoes /\ Top \notin Resetting => state \in {"AT_test", "ATE0"}
    /\ Echoes /\ ~no_SimLoop /\ fl_read => Spoilt(recived, line)

\* The timer runs while there is something to read; the test belongs to Opened.
Listening ==
    /\ keys = {} /\ ~Tells(line, "DEACT")
    /\ state # "Opened" => ~fl_test_connect
    /\ ~no_SimLoop /\ fl_read /\ state # "Opened" /\ line # <<>> => time_sleep_SIM

Open == state = "Opened" /\ ~no_SimLoop /\ On
Asking == fl_read /\ time_sleep_SIM /\ line # <<>>

\* The question of the fifth minute is answered before a sixth can begin: only
\* one command of an outer wait fits between the change of the minute and it.
Probed ==
    /\ Open /\ fl_test_connect => Asking /\ (Tells(line, "SRV") \/ Tells(line, "NOSRV"))
    /\ Open /\ Tells(line, "NOSRV") => ~Serves /\ Asking
    /\ Open /\ t_min_no_connect >= TIME_TEST_CONNECT =>
            /\ t_min_no_connect = TIME_TEST_CONNECT
            /\ age <= 1 /\ (age = 1 => Asking)

Calm == Driven /\ Silenced /\ Listening /\ Probed

CalmInv == faults = 0 => Calm

(* Texts that are told.                                                    *)

LEMMA TellsNone ==
    ASSUME NEW t
    PROVE  ~Tells(<<>>, t)
  BY DEF Tells

LEMMA TellsAppend ==
    ASSUME NEW s \in Seq(Texts), NEW u \in Texts, NEW t
    PROVE  /\ Tells(Append(s, u), t) <=> (Tells(s, t) \/ u = t)
           /\ Append(s, u) # <<>> /\ LastOf(Append(s, u)) = u
<1>1. Len(Append(s, u)) = Len(s) + 1 /\ Append(s, u) # <<>> /\ Append(s, u)[Len(s) + 1] = u
  OBVIOUS
<1>2. \A i \in 1 .. Len(s) : Append(s, u)[i] = s[i]
  OBVIOUS
<1>3. \A i \in 1 .. Len(s) + 1 : i \in 1 .. Len(s) \/ i = Len(s) + 1
  OBVIOUS
<1>4. \A i \in 1 .. Len(s) : i \in 1 .. Len(s) + 1
  OBVIOUS
<1>5. Len(s) + 1 \in 1 .. Len(s) + 1
  OBVIOUS
<1>6. Tells(Append(s, u), t) <=> (Tells(s, t) \/ u = t)
  BY <1>1, <1>2, <1>3, <1>4, <1>5, Zenon DEF Tells
<1> QED BY <1>1, <1>6 DEF LastOf

LEMMA TellsTail ==
    ASSUME NEW s \in Seq(Texts), s # <<>>, NEW t
    PROVE  /\ Tail(s) \in Seq(Texts)
           /\ Tells(Tail(s), t) => Tells(s, t)
           /\ Tells(s, t) /\ Head(s) # t => Tells(Tail(s), t)
           /\ Tells(s, Head(s))
           /\ IF Tail(s) = <<>> THEN Head(s) = LastOf(s) ELSE LastOf(Tail(s)) = LastOf(s)
<1>1. /\ Tail(s) \in Seq(Texts) /\ Len(Tail(s)) = Len(s) - 1 /\ Len(s) \in Nat \ {0}
      /\ Head(s) = s[1]
  OBVIOUS
<1>2. \A i \in 1 .. Len(s) - 1 : Tail(s)[i] = s[i + 1] /\ i + 1 \in 1 .. Len(s)
  OBVIOUS
<1>3. \A i \in 1 .. Len(s) : i = 1 \/ (i - 1 \in 1 .. Len(s) - 1 /\ (i - 1) + 1 = i)
  BY <1>1
<1>4. Tells(Tail(s), t) => Tells(s, t)
  BY <1>1, <1>2, Zenon DEF Tells
<1>5. Tells(s, t) /\ Head(s) # t => Tells(Tail(s), t)
  <2> SUFFICES ASSUME NEW i \in 1 .. Len(s), s[i] = t, Head(s) # t
               PROVE  Tells(Tail(s), t)
    BY DEF Tells
  <2>1. i - 1 \in 1 .. Len(s) - 1 /\ (i - 1) + 1 = i
    BY <1>1, <1>3
  <2>2. Tail(s)[i - 1] = t
    BY <1>2, <2>1
  <2> QED BY <1>1, <2>1, <2>2 DEF Tells
<1>6. Tells(s, Head(s))
  BY <1>1 DEF Tells
<1>7. CASE Len(s) = 1
  <2>1. Len(Tail(s)) = 0
    BY <1>1, <1>7
  <2>2. Tail(s) = <<>>
    <3>1. \A x \in Seq(Texts) : x # <<>> => Len(x) \in Nat \ {0}
      BY EmptySeq, Zenon
    <3>2. 0 \notin Nat \ {0}
      OBVIOUS
    <3> QED BY <1>1, <2>1, <3>1, <3>2, Zenon
  <2>3. Head(s) = LastOf(s)
    BY <1>1, <1>7 DEF LastOf
  <2> QED BY <1>1, <1>4, <1>5, <1>6, <2>2, <2>3, Zenon
<1>8. CASE Len(s) # 1
  <2>1. Len(s) - 1 \in 1 .. Len(s) - 1 /\ (Len(s) - 1) + 1 = Len(s) /\ Len(Tail(s)) # 0
    BY <1>1, <1>8
  <2>2. LastOf(Tail(s)) = LastOf(s)
    BY <1>1, <1>2, <2>1 DEF LastOf
  <2>3. Len(<<>>) = 0
    BY EmptySeq
  <2>4. Tail(s) # <<>>
    BY <2>1, <2>3, Zenon
  <2> QED BY <1>1, <1>4, <1>5, <1>6, <2>2, <2>4, Zenon
<1> QED BY <1>7, <1>8

LEMMA SpoiltTail ==
    ASSUME NEW s \in Seq(Texts), s # <<>>, NEW r, Spoilt(r, s)
    PROVE  Spoilt(IF r = "none" THEN Head(s) ELSE "long", Tail(s))
<1>1. IF Tail(s) = <<>> THEN Head(s) = LastOf(s) ELSE LastOf(Tail(s)) = LastOf(s)
  BY TellsTail
<1>2. CASE r # "none"
  BY <1>2 DEF Spoilt, Garbled
<1>3. CASE r = "none"
  <2>1. LastOf(s) \in Garbled
    BY <1>3 DEF Spoilt, Garbled
  <2> QED BY <1>1, <1>3, <2>1 DEF Spoilt
<1> QED BY <1>2, <1>3

(* What the modem does.                                                    *)

LEMMA ReplyToCommand ==
    ASSUME DeviceOK, NEW c \in Starting
    PROVE  /\ On => Reply(c) \in Texts \ {"none", "DEACT", "NOSRV"}
           /\ ~On => Reply(c) = "none"
           /\ Echoes /\ c # "ATE0" => Reply(c) \in Garbled
<1>1. modem.on \in BOOLEAN /\ modem.echo \in BOOLEAN
  BY DEF DeviceOK, Modems
<1>2. ~On => Reply(c) = "none"
  BY <1>1 DEF On, Reply
<1>3. Echoes /\ c # "ATE0" => Reply(c) \in Garbled
  BY <1>1 DEF Echoes, Reply, Garbled
<1>4. On => Reply(c) \in Texts \ {"none", "DEACT", "NOSRV"}
  BY <1>1, TextsAre DEF On, Reply, Starting
<1> QED BY <1>2, <1>3, <1>4

LEMMA ReplyToOthers ==
    ASSUME DeviceOK
    PROVE  /\ Reply("CIPSHUT") \in Texts \ {"DEACT"}
           /\ Reply("CIPSTATUS") \in Texts \ {"DEACT", "NOSRV"}
           /\ Reply("CIPSERVER?") \in Texts \ {"DEACT"}
           /\ On /\ ~Echoes /\ Serves => Reply("CIPSERVER?") = "SRV"
           /\ On /\ ~Echoes /\ ~Serves => Reply("CIPSERVER?") = "NOSRV"
<1>1. modem.on \in BOOLEAN /\ modem.echo \in BOOLEAN /\ modem.server \in BOOLEAN
  BY DEF DeviceOK, Modems
<1>2. Reply("CIPSHUT") \in Texts \ {"DEACT"}
  BY <1>1, TextsAre DEF Reply
<1>3. Reply("CIPSTATUS") \in Texts \ {"DEACT", "NOSRV"}
  BY <1>1, TextsAre DEF Reply
<1>4. Reply("CIPSERVER?") \in Texts \ {"DEACT"}
  BY <1>1, TextsAre DEF Reply
<1>5. On /\ ~Echoes /\ Serves => Reply("CIPSERVER?") = "SRV"
  BY <1>1 DEF On, Echoes, Serves, Reply
<1>6. On /\ ~Echoes /\ ~Serves => Reply("CIPSERVER?") = "NOSRV"
  BY <1>1 DEF On, Echoes, Serves, Reply
<1> QED BY <1>2, <1>3, <1>4, <1>5, <1>6

LEMMA SameModem ==
    ASSUME modem' = modem
    PROVE  On' = On /\ Echoes' = Echoes /\ Serves' = Serves
  BY DEF On, Echoes, Serves

LEMMA CommandedModem ==
    ASSUME DeviceOK, NEW c \in Starting, modem' = After(c)
    PROVE  (On' <=> On) /\ (Echoes' => Echoes /\ c # "ATE0") /\ (Serves => Serves')
<1>1. modem.on \in BOOLEAN /\ modem.echo \in BOOLEAN /\ modem.server \in BOOLEAN
  BY DEF DeviceOK, Modems
<1>2. c # "CIPSHUT" /\ c # "CIPSERVER=0"
  BY DEF Starting
<1> QED BY <1>1, <1>2 DEF DeviceOK, Modems, After, On, Echoes, Serves

LEMMA ShutModem ==
    ASSUME DeviceOK, modem' = After("CIPSHUT")
    PROVE  ~Serves'
  BY DEF DeviceOK, Modems, After, Serves

LEMMA ReleasedModem ==
    ASSUME DeviceOK, rst \in BOOLEAN, Release
    PROVE  /\ rst' = FALSE
           /\ ~rst => modem' = modem
           /\ ~Serves => ~Serves'
<1>1. rst => ~Serves'
  BY DEF Release, PoweredUp, Serves
<1>2. ~rst => modem' = modem
  BY DEF Release
<1>3. ~rst => Serves' = Serves
  BY <1>2, SameModem
<1> QED BY <1>1, <1>2, <1>3 DEF Release

(* What a wait leaves behind.                                              *)

LEMMA TopAsleep ==
    ASSUME WaitOK, NEW w \in Waits, NEW below \in Seq(Waits), SleepSIM(w, below)
    PROVE  Top' = w /\ no_SimLoop' = TRUE
<1>1. WaitOK' /\ Len(stack') = Len(below) + 1 /\ stack'[1] = w
  BY SleepType
<1>2. stack' # <<>> /\ Head(stack') = w
  BY <1>1 DEF WaitOK
<1> QED BY <1>2 DEF Top, SleepSIM

LEMMA TopWaited ==
    ASSUME WaitOK, ResetAlone, stack # <<>>, Waited
    PROVE  Top' \notin Resetting /\ no_SimLoop' = FALSE
<1>1. /\ stack' \in Seq(Waits) /\ no_SimLoop' = FALSE
      /\ \A i \in DOMAIN stack' : i + 1 \in DOMAIN stack /\ stack'[i] = stack[i + 1]
  BY WaitedType
<1>2. CASE stack' = <<>>
  BY <1>1, <1>2 DEF Top, Resetting, ResetWaits, Pulses
<1>3. CASE stack' # <<>>
  <2>1. 1 \in DOMAIN stack' /\ Head(stack') = stack'[1]
    BY <1>1, <1>3
  <2>2. stack'[1] \notin Resetting
    BY <1>1, <2>1 DEF ResetAlone
  <2> QED BY <1>1, <1>3, <2>1, <2>2 DEF Top
<1> QED BY <1>2, <1>3

LEMMA TopIs ==
    ASSUME WaitOK
    PROVE  /\ stack # <<>> => Top = Head(stack)
           /\ ResetAlone /\ ~no_SimLoop => Top \notin Resetting
<1>1. stack # <<>> => 1 \in DOMAIN stack /\ Head(stack) = stack[1]
  BY DEF WaitOK
<1>2. "none" \notin Resetting
  BY DEF Resetting, ResetWaits, Pulses
<1> QED BY <1>1, <1>2 DEF Top, ResetAlone

LEMMA TopKept ==
    ASSUME UNCHANGED stack
    PROVE  Top' = Top
  BY DEF Top

(* What each step leaves true.                                             *)

LEMMA Numbers ==
    /\ TIME_TEST_CONNECT \in Nat \ {0} /\ TIME_TEST_CONNECT + 1 = MAX_TIME_NO_CONNECT
    /\ RoundsPerMinute \in Nat \ {0, 1}
  BY Sim900Assumption DEF Sim900Assumption, TIME_TEST_CONNECT

LEMMA Apart ==
    /\ Starting \cap Resetting = {} /\ "pulse" \notin Resetting \cup Starting
    /\ "none" \notin Resetting \cup Starting /\ "Opened" \notin Starting
    /\ Resetting = {"shut", "off", "on", "offpulse", "onpulse"}
  BY DEF Starting, Resetting, ResetWaits, Pulses

LEMMA TellsSome ==
    ASSUME NEW s \in Seq(Texts), NEW t, Tells(s, t)
    PROVE  s # <<>>
  BY TellsNone, Zenon

LEMMA SaidOne ==
    ASSUME NEW s \in Seq(Texts), NEW u \in Texts, NEW t
    PROVE  /\ Say(s, u) \in Seq(Texts)
           /\ Tells(Say(s, u), t) => Tells(s, t) \/ (u = t /\ u # "none")
           /\ u # "none" => Say(s, u) # <<>> /\ LastOf(Say(s, u)) = u /\ Tells(Say(s, u), u)
<1>1. CASE u = "none"
  BY <1>1 DEF Say
<1>2. CASE u # "none"
  <2>1. Say(s, u) = Append(s, u) /\ Append(s, u) \in Seq(Texts)
    BY <1>2 DEF Say
  <2>2. \A x : Tells(Append(s, u), x) <=> (Tells(s, x) \/ u = x)
    BY TellsAppend, Zenon
  <2>3. Append(s, u) # <<>> /\ LastOf(Append(s, u)) = u
    BY TellsAppend, Zenon
  <2> QED BY <1>2, <2>1, <2>2, <2>3, Zenon
<1> QED BY <1>1, <1>2

LEMMA InitCalm == Init => Calm
<1> SUFFICES ASSUME Init PROVE Calm
  OBVIOUS
<1>1. Top = "none" /\ no_SimLoop = FALSE /\ rst = FALSE /\ state = "AT_test"
      /\ fl_read = FALSE /\ fl_test_connect = FALSE /\ keys = {}
  BY DEF Init, Top
<1>2. ~Tells(line, "DEACT")
  <2>1. line = <<>>
    BY DEF Init
  <2> QED BY <2>1, TellsNone, Zenon
<1> QED BY <1>1, <1>2, Apart, Zenon DEF Calm, Driven, Silenced, Listening, Probed, Open

\* Whatever keeps SimLoop out.
LEMMA AsleepCalm ==
    ASSUME no_SimLoop' = TRUE, Driven', keys' = {}, ~Tells(line', "DEACT"),
           state' # "Opened" => ~fl_test_connect',
           Echoes' /\ Top' \notin Resetting => state' \in {"AT_test", "ATE0"}
    PROVE  Calm'
  BY Zenon DEF Calm, Silenced, Listening, Probed, Open

LEMMA OnOffCalm ==
    ASSUME WaitOK, On_off_SIM, keys' = {}, ~Tells(line', "DEACT")
    PROVE  Calm'
<1>1. "pulse" \in Waits /\ stack \in Seq(Waits) /\ SleepSIM("pulse", stack)
  BY DEF Waits, WaitOK, On_off_SIM
<1>2. Top' = "pulse" /\ no_SimLoop' = TRUE
  BY <1>1, TopAsleep
<1>3. state' = "AT_test" /\ fl_read' = FALSE /\ fl_test_connect' = FALSE
  BY DEF On_off_SIM
<1>4. Driven'
  BY <1>2, <1>3, Apart, Zenon DEF Driven
<1> QED BY <1>2, <1>3, <1>4, AsleepCalm, Zenon

LEMMA StartCalm ==
    ASSUME TypeOK, StackInv, Calm, ~no_SimLoop, ~fl_read, Start, keys' = keys, age' = age
    PROVE  Calm'
<1>t. WaitOK /\ DeviceOK
  BY Types
<1>a. Top \notin Resetting
  BY <1>t, TopIs DEF StackInv
<1>b. keys' = {} /\ ~Tells(line, "DEACT") /\ ~rst
      /\ (state # "Opened" => ~fl_test_connect)
  BY Zenon DEF Calm, Listening, Driven
<1>1. CASE /\ state = "Opened" /\ SimRead
           /\ UNCHANGED <<state, fl_test_connect, fl_reject_resetSIM, t_min_no_connect,
                          nest, no_SimLoop, device, rst>>
  <2>1. /\ Top' = Top /\ On' = On /\ Echoes' = Echoes /\ Serves' = Serves
        /\ line' = line /\ state' = state /\ no_SimLoop' = no_SimLoop /\ rst' = rst
        /\ fl_test_connect' = fl_test_connect /\ t_min_no_connect' = t_min_no_connect
    BY <1>1, TopKept, SameModem
  <2>2. ~Echoes
    BY <1>1, <1>a DEF Calm, Silenced
  <2>3. Driven'
    <3>1. ~rst' /\ ~no_SimLoop' /\ Top' \notin Resetting
      BY <1>a, <1>b, <2>1
    <3> QED BY <3>1, Zenon DEF Driven
  <2>4. Silenced' /\ Listening'
    BY <1>1, <1>b, <2>1, <2>2, Zenon DEF Silenced, Listening
  <2>5. ~Asking
    BY DEF Asking
  <2>6. Probed'
    <3>1. Open' = Open
      BY <2>1, Zenon DEF Open
    <3>2. Open => ~fl_test_connect /\ ~Tells(line, "NOSRV")
      BY <2>5, Zenon DEF Calm, Probed
    <3>3. Open /\ t_min_no_connect >= TIME_TEST_CONNECT =>
            t_min_no_connect = TIME_TEST_CONNECT /\ age <= 1 /\ age # 1
      BY <2>5, Zenon DEF Calm, Probed
    <3> QED BY <2>1, <3>1, <3>2, <3>3, Zenon DEF Probed
  <2> QED BY <2>3, <2>4, <2>6 DEF Calm
<1>2. CASE state \in Starting /\ SleepSIM(state, stack) /\ UNCHANGED <<flags, device, rst>>
  <2>1. Top' = state /\ no_SimLoop' = TRUE
    BY <1>t, <1>2, Atoms, TopAsleep DEF WaitOK
  <2>2. /\ state' = state /\ rst' = rst /\ line' = line /\ Echoes' = Echoes
        /\ fl_test_connect' = fl_test_connect
    BY <1>2, SameModem
  <2>3. Driven'
    <3>1. ~rst' /\ Top' \in Starting /\ state' # "Opened"
      BY <1>2, <1>b, <2>1, <2>2, Apart
    <3>2. Top' # "pulse" /\ Top' # "none" /\ Top' \notin Resetting
      BY <3>1, Apart
    <3> QED BY <3>1, <3>2, Zenon DEF Driven
  <2>4. Echoes => state \in {"AT_test", "ATE0"}
    BY <1>a, Zenon DEF Calm, Silenced
  <2> QED BY <1>b, <2>1, <2>2, <2>3, <2>4, AsleepCalm, Zenon
<1> QED BY <1>1, <1>2 DEF Start

\* What has been said once the test is asked for.
AllSaid == IF modem.on /\ Tests(TRUE) THEN Append(line, Reply("CIPSERVER?")) ELSE line
Asked5 == fl_test_connect \/ Tests(TRUE)

LEMMA AllSaidIs ==
    ASSUME TypeOK, StackInv, Calm, ~no_SimLoop, fl_read
    PROVE  /\ AllSaid \in Seq(Texts) /\ ~Tells(AllSaid, "DEACT")
           /\ state # "Opened" => AllSaid = line /\ ~Asked5
           /\ Open /\ Asked5 => Tells(AllSaid, "SRV") \/ Tells(AllSaid, "NOSRV")
           /\ Open /\ Tells(AllSaid, "NOSRV") => ~Serves
           /\ Open /\ t_min_no_connect >= TIME_TEST_CONNECT => Asked5
<1>t. WaitOK /\ DeviceOK
  BY Types
<1>a. Top \notin Resetting
  BY <1>t, TopIs DEF StackInv
<1>b. line \in Seq(Texts) /\ ~Tells(line, "DEACT") /\ (state # "Opened" => ~fl_test_connect)
  BY <1>t DEF Calm, Listening, DeviceOK
<1>c. Open => ~Echoes /\ On
  BY <1>a, Zenon DEF Calm, Silenced, Open
<1>d. /\ Open /\ fl_test_connect => Tells(line, "SRV") \/ Tells(line, "NOSRV")
      /\ Open /\ Tells(line, "NOSRV") => ~Serves
  BY Zenon DEF Calm, Probed
<1>e. state # "Opened" => ~Tests(TRUE)
  BY DEF Tests
<1>f. Open /\ t_min_no_connect >= TIME_TEST_CONNECT => Asked5
  BY DEF Open, Tests, Asked5
<1>1. CASE On /\ Tests(TRUE)
  <2>1. AllSaid = Append(line, Reply("CIPSERVER?"))
    BY <1>1 DEF AllSaid, On
  <2>2. /\ Reply("CIPSERVER?") \in Texts \ {"DEACT"}
        /\ On /\ ~Echoes /\ Serves => Reply("CIPSERVER?") = "SRV"
        /\ On /\ ~Echoes /\ ~Serves => Reply("CIPSERVER?") = "NOSRV"
    BY <1>t, ReplyToOthers
  <2>3. PICK u \in Texts : u = Reply("CIPSERVER?")
    BY <2>2
  <2>4. AllSaid \in Seq(Texts)
    BY <1>b, <2>1, <2>3
  <2>5. \A t : Tells(AllSaid, t) <=> (Tells(line, t) \/ u = t)
    BY <1>b, <2>1, <2>3, TellsAppend, Zenon
  <2>6. "SRV" # "NOSRV"
    OBVIOUS
  <2>7. state = "Opened"
    BY <1>1, <1>e
  <2> QED BY <1>b, <1>c, <1>d, <1>f, <2>2, <2>3, <2>4, <2>5, <2>6, <2>7, Zenon
<1>2. CASE ~(On /\ Tests(TRUE))
  <2>1. AllSaid = line
    BY <1>2 DEF AllSaid, On
  <2>2. Open => (Asked5 => fl_test_connect)
    BY <1>2, <1>c, Zenon DEF Asked5
  <2>3. state # "Opened" => ~Asked5
    BY <1>b, <1>e, Zenon DEF Asked5
  <2> QED BY <1>b, <1>d, <1>f, <2>1, <2>2, <2>3, Zenon
<1> QED BY <1>1, <1>2

LEMMA ReadCalm ==
    ASSUME TypeOK, StackInv, Calm, ~no_SimLoop, fl_read, age' = age, keys' = {},
           LoopRead(AllSaid, FALSE, Asked5)
    PROVE  Calm'
<1>t. WaitOK /\ DeviceOK /\ FlagsOK
  BY Types
<1>a. Top \notin Resetting
  BY <1>t, TopIs DEF StackInv
<1>b. ~rst /\ (state = "Opened" => ~Echoes)
      /\ (Echoes => state \in {"AT_test", "ATE0"} /\ Spoilt(recived, line))
      /\ (line # <<>> /\ state # "Opened" => time_sleep_SIM)
  BY <1>a DEF Calm, Driven, Silenced, Listening
<1>c. Open /\ t_min_no_connect >= TIME_TEST_CONNECT =>
          t_min_no_connect = TIME_TEST_CONNECT /\ age <= 1
  BY Zenon DEF Calm, Probed
<1>s. PICK said \in Seq(Texts) : said = AllSaid
  BY AllSaidIs
<1>q. PICK tested \in BOOLEAN : tested = Asked5
  BY DEF Asked5
<1>d. /\ ~Tells(said, "DEACT")
      /\ state # "Opened" => said = line /\ ~tested
      /\ Open /\ tested => Tells(said, "SRV") \/ Tells(said, "NOSRV")
      /\ Open /\ Tells(said, "NOSRV") => ~Serves
      /\ Open /\ t_min_no_connect >= TIME_TEST_CONNECT => tested
  BY <1>s, <1>q, AllSaidIs, Zenon
<1>e. LoopRead(said, FALSE, tested)
  BY <1>s, <1>q, Zenon
<1>k. ASSUME UNCHANGED <<nest, no_SimLoop, modem, rst>>
      PROVE  /\ Top' = Top /\ On' = On /\ Echoes' = Echoes /\ Serves' = Serves
             /\ ~no_SimLoop' /\ Driven'
  <2>1. Top' = Top /\ On' = On /\ Echoes' = Echoes /\ Serves' = Serves
    BY <1>k, TopKept, SameModem
  <2>2. ~rst' /\ ~no_SimLoop' /\ Top' \notin Resetting
    BY <1>a, <1>b, <1>k, <2>1
  <2> QED BY <2>1, <2>2, Zenon DEF Driven
<1>1. CASE On_off_SIM /\ (line' = said \/ (said # <<>> /\ line' = Tail(said)))
  <2>1. ~Tells(line', "DEACT")
    BY <1>1, <1>d, TellsTail, Zenon
  <2> QED BY <1>1, <1>t, <2>1, OnOffCalm
\* The server is open: nothing new, or a line that is no end.
<1>2. CASE /\ state = "Opened" /\ line' = said /\ fl_test_connect' = tested
           /\ time_sleep_SIM' = TRUE /\ fl_read' = TRUE
           /\ UNCHANGED <<state, t_min_no_connect, nest, no_SimLoop, modem, rst>>
  <2>1. Top' = Top /\ On' = On /\ Echoes' = Echoes /\ Serves' = Serves /\ ~no_SimLoop' /\ Driven'
    BY <1>2, <1>k
  <2>2. Silenced' /\ Listening'
    BY <1>2, <1>b, <1>d, <2>1, Zenon DEF Silenced, Listening
  <2>3. /\ Open' = Open /\ line' = said /\ fl_test_connect' = tested
        /\ t_min_no_connect' = t_min_no_connect
    BY <1>2, <2>1 DEF Open
  <2>4. (Tells(said, "SRV") \/ Tells(said, "NOSRV")) => Asking'
    <3>1. (Tells(said, "SRV") \/ Tells(said, "NOSRV")) => said # <<>>
      BY TellsSome, Zenon
    <3> QED BY <1>2, <3>1, Zenon DEF Asking
  <2>5. Probed'
    BY <1>c, <1>d, <2>1, <2>3, <2>4, Zenon DEF Probed
  <2> QED BY <2>1, <2>2, <2>5 DEF Calm
<1>3. ASSUME NEW sign \in BOOLEAN,
             state = "Opened", said # <<>>, line' = Tail(said), Head(said) \notin Ends,
             sign = (Head(said) \in Signs),
             t_min_no_connect' = IF sign THEN 0 ELSE t_min_no_connect,
             fl_test_connect' = (tested /\ ~sign),
             time_sleep_SIM' = TRUE, fl_read' = TRUE,
             UNCHANGED <<state, nest, no_SimLoop, modem, rst>>
      PROVE  Calm'
  <2>1. Top' = Top /\ On' = On /\ Echoes' = Echoes /\ Serves' = Serves /\ ~no_SimLoop' /\ Driven'
    BY <1>3, <1>k
  <2>2. \A t : Tells(Tail(said), t) => Tells(said, t)
    BY <1>3, TellsTail, Zenon
  <2>3. \A t : Tells(said, t) /\ Head(said) # t => Tells(Tail(said), t)
    BY <1>3, TellsTail, Zenon
  <2>4. Head(said) # "NOSRV" /\ (~sign => Head(said) # "SRV")
    BY <1>3 DEF Ends, Signs
  <2>5. Silenced' /\ Listening'
    <3>1. ~Tells(line', "DEACT") /\ state' = "Opened" /\ ~Echoes'
      BY <1>3, <1>b, <1>d, <2>1, <2>2
    <3> QED BY <3>1, Zenon DEF Silenced, Listening
  <2>6. Open' = Open
    BY <1>3, <2>1 DEF Open
  <2>7. (Tells(line', "SRV") \/ Tells(line', "NOSRV")) => Asking'
    <3>1. Tail(said) \in Seq(Texts)
      BY <1>3, TellsTail
    <3>2. (Tells(line', "SRV") \/ Tells(line', "NOSRV")) => line' # <<>>
      BY <1>3, <3>1, TellsSome, Zenon
    <3> QED BY <1>3, <3>2, Zenon DEF Asking
  <2>8. CASE sign
    <3>1. t_min_no_connect' = 0 /\ fl_test_connect' = FALSE
      BY <1>3, <2>8
    <3>2. ~(t_min_no_connect' >= TIME_TEST_CONNECT)
      BY <3>1, Numbers
    <3>3. Open' /\ Tells(line', "NOSRV") => ~Serves' /\ Asking'
      BY <1>3, <1>d, <2>1, <2>2, <2>6, <2>7, Zenon
    <3>4. Probed'
      BY <3>1, <3>2, <3>3, Zenon DEF Probed
    <3> QED BY <2>1, <2>5, <3>4 DEF Calm
  <2>9. CASE ~sign
    <3>1. t_min_no_connect' = t_min_no_connect /\ fl_test_connect' = tested
      BY <1>3, <2>9
    <3>2. Open /\ tested => Tells(line', "SRV") \/ Tells(line', "NOSRV")
      BY <1>3, <1>d, <2>3, <2>4, <2>9, Zenon
    <3>3. Open /\ Tells(line', "NOSRV") => ~Serves
      BY <1>3, <1>d, <2>2, Zenon
    <3>4. Probed'
      BY <1>c, <1>d, <2>1, <2>6, <2>7, <3>1, <3>2, <3>3, Zenon DEF Probed
    <3> QED BY <2>1, <2>5, <3>4 DEF Calm
  <2> QED BY <2>8, <2>9
\* The server is not open: the answer grows, or is complete.
<1>4. CASE /\ state # "Opened" /\ time_sleep_SIM' = TRUE /\ fl_read' = TRUE
           /\ ~fl_test_connect'
           /\ \/ line' = said /\ recived' = recived
              \/ /\ said # <<>> /\ line' = Tail(said)
                 /\ recived' = IF recived = "none" THEN Head(said) ELSE "long"
           /\ UNCHANGED <<state, nest, no_SimLoop, modem, rst>>
  <2>1. Top' = Top /\ On' = On /\ Echoes' = Echoes /\ Serves' = Serves /\ ~no_SimLoop' /\ Driven'
    BY <1>4, <1>k
  <2>2. said = line /\ state' = state
    BY <1>4, <1>d
  <2>3. ~Tells(line', "DEACT")
    BY <1>4, <1>d, TellsTail, Zenon
  <2>4. Echoes => Spoilt(recived', line')
    BY <1>4, <1>b, <2>2, SpoiltTail, Zenon
  <2>5. Silenced'
    BY <1>b, <2>1, <2>2, <2>4, Zenon DEF Silenced
  <2>6. Listening'
    BY <1>4, <2>3, Zenon DEF Listening
  <2>7. Probed'
    BY <1>4, <2>2, Zenon DEF Probed, Open
  <2> QED BY <2>1, <2>5, <2>6, <2>7 DEF Calm
<1>5. CASE /\ state # "Opened" /\ ~time_sleep_SIM
           /\ state' = Answered(state, recived)
           /\ t_min_no_connect' = IF state' = "Opened" THEN 0 ELSE t_min_no_connect
           /\ IF state' = "Opened" /\ recived = "ERROR"
              THEN SimRead /\ line' = Say(said, Reply("CIPSTATUS"))
              ELSE fl_read' = FALSE /\ line' = said /\ UNCHANGED <<recived, time_sleep_SIM>>
           /\ UNCHANGED <<fl_test_connect, fl_reject_resetSIM, nest, no_SimLoop, modem, rst>>
  <2>1. Top' = Top /\ On' = On /\ Echoes' = Echoes /\ Serves' = Serves /\ ~no_SimLoop' /\ Driven'
    BY <1>5, <1>k
  <2>2. line = <<>> /\ said = line
    BY <1>5, <1>b, <1>d, Zenon
  <2>3. Echoes => state' \in {"AT_test", "ATE0"}
    <3>1. Echoes => recived \in Garbled
      BY <1>b, <2>2, Zenon DEF Spoilt
    <3> QED BY <1>5, <1>b, <3>1 DEF Answered, Garbled
  <2>4. ~fl_test_connect'
    BY <1>5 DEF Calm, Listening
  <2>5. PICK u \in Texts : u = Reply("CIPSTATUS") /\ u \notin {"DEACT", "NOSRV"}
    BY <1>t, ReplyToOthers
  <2>6. /\ ~Tells(line', "DEACT") /\ ~Tells(line', "NOSRV")
        /\ state' # "Opened" => line' = <<>> /\ fl_read' = FALSE
    <3>1. ~Tells(said, "DEACT") /\ ~Tells(said, "NOSRV")
      BY <2>2, TellsNone, Zenon
    <3>2. ~Tells(Say(said, u), "DEACT") /\ ~Tells(Say(said, u), "NOSRV")
      BY <2>5, <3>1, SaidOne, Zenon
    <3> QED BY <1>5, <2>2, <2>5, <3>1, <3>2, Zenon
  <2>7. Silenced'
    <3>1. "Opened" \notin {"AT_test", "ATE0"}
      OBVIOUS
    <3> QED BY <2>1, <2>3, <2>6, <3>1, Zenon DEF Silenced
  <2>8. Listening'
    BY <2>4, <2>6, Zenon DEF Listening
  <2>9. Probed'
    <3>1. state' = "Opened" => ~(t_min_no_connect' >= TIME_TEST_CONNECT)
      BY <1>5, Numbers
    <3> QED BY <2>4, <2>6, <3>1, Zenon DEF Probed, Open
  <2> QED BY <2>1, <2>7, <2>8, <2>9 DEF Calm
<1>6. CASE t_min_no_connect >= MAX_TIME_NO_CONNECT
  <2>1. On_off_SIM /\ line' = said
    BY <1>6, <1>e DEF LoopRead
  <2> QED BY <1>1, <2>1
<1>7. CASE AnswerComplete(said, tested) /\ ~time_sleep_SIM
  BY <1>1, <1>2, <1>5, <1>7 DEF AnswerComplete
<1>8. CASE said # <<>> /\ TextRead(said, recived, tested)
  <2>1. CASE On_off_SIM
    <3>1. line' = Tail(said)
      BY <1>8 DEF TextRead
    <3> QED BY <1>1, <1>8, <2>1, <3>1
  <2>2. CASE ~On_off_SIM
    <3>1. PICK sign \in BOOLEAN : sign = (state = "Opened" /\ Head(said) \in Signs)
      OBVIOUS
    <3>2. /\ line' = Tail(said) /\ ~(state = "Opened" /\ Head(said) \in Ends)
          /\ time_sleep_SIM' = TRUE /\ fl_read' = TRUE
          /\ recived' = IF state = "Opened" THEN "none"
                        ELSE IF recived = "none" THEN Head(said) ELSE "long"
          /\ UNCHANGED <<state, nest, no_SimLoop, modem, rst>>
      BY <1>8, <2>2 DEF TextRead
    <3>3. /\ t_min_no_connect' = IF sign THEN 0 ELSE t_min_no_connect
          /\ fl_test_connect' = (tested /\ ~sign)
      BY <1>8, <2>2, <3>1, Zenon DEF TextRead
    <3>4. CASE state = "Opened"
      <4>1. sign = (Head(said) \in Signs) /\ Head(said) \notin Ends
        BY <3>1, <3>2, <3>4
      <4> QED BY <1>3, <1>8, <3>2, <3>3, <3>4, <4>1
    <3>5. CASE state # "Opened"
      <4>1. ~fl_test_connect'
        BY <1>d, <3>3, <3>5
      <4> QED BY <1>4, <1>8, <3>2, <3>5, <4>1
    <3> QED BY <3>4, <3>5
  <2> QED BY <2>1, <2>2
<1>9. CASE /\ time_sleep_SIM' = TRUE /\ fl_read' = TRUE /\ recived' = recived
           /\ fl_test_connect' = tested /\ line' = said
           /\ UNCHANGED <<state, t_min_no_connect, fl_reject_resetSIM, nest,
                          no_SimLoop, modem, rst>>
  <2>1. CASE state = "Opened"
    BY <1>2, <1>9, <2>1
  <2>2. CASE state # "Opened"
    <3>1. ~fl_test_connect'
      BY <1>9, <1>d, <2>2
    <3> QED BY <1>4, <1>9, <2>2, <3>1
  <2> QED BY <2>1, <2>2
<1> QED BY <1>6, <1>7, <1>8, <1>9, <1>e, Zenon DEF LoopRead

LEMMA LoopReadIs ==
    ASSUME TypeOK, SimLoop, keys = {}, fl_read
    PROVE  LoopRead(AllSaid, FALSE, Asked5)
<1>1. "a" \notin keys /\ "b" \notin keys /\ "c" \notin keys
  OBVIOUS
<1> DEFINE all(read) == Asked(read) \o (IF Tests(read) THEN <<"CIPSERVER?">> ELSE <<>>)
           said(read) == IF modem.on
                         THEN line \o [i \in DOMAIN all(read) |-> Reply(all(read)[i])]
                         ELSE line
<1>2. fl_read \/ "a" \in keys
  OBVIOUS
<1>3. (fl_read \/ "a" \in keys) = TRUE
  BY <1>2
<1>4. Asked(TRUE) = <<>>
  BY <1>1 DEF Asked
<1>5. LoopRead(said(TRUE), Asked(TRUE) # <<>>, fl_test_connect \/ Tests(TRUE))
  BY <1>3 DEF SimLoop
<1>6. (Asked(TRUE) # <<>>) = FALSE
  BY <1>4
<1>7. said(TRUE) = AllSaid
  <2>t. line \in Seq(Texts)
    BY Types DEF DeviceOK
  <2>1. CASE Tests(TRUE)
    <3>1. PICK u : u = Reply("CIPSERVER?")
      OBVIOUS
    <3>2. all(TRUE) = <<"CIPSERVER?">>
      <4>1. (IF Tests(TRUE) THEN <<"CIPSERVER?">> ELSE <<>>) = <<"CIPSERVER?">>
        BY <2>1, Zenon
      <4>2. <<>> \o <<"CIPSERVER?">> = <<"CIPSERVER?">>
        OBVIOUS
      <4> QED BY <1>4, <4>1, <4>2, Zenon
    <3>3. [i \in DOMAIN all(TRUE) |-> Reply(all(TRUE)[i])] = <<u>>
      <4>1. [i \in DOMAIN <<"CIPSERVER?">> |-> Reply(<<"CIPSERVER?">>[i])] = <<Reply("CIPSERVER?")>>
        OBVIOUS
      <4> HIDE DEF all
      <4> QED BY <3>1, <3>2, <4>1, Zenon
    <3>4. u \in Texts
      BY <3>1, Types, ReplyToOthers
    <3>5. line \o <<u>> = Append(line, u)
      BY <2>t, <3>4
    <3> HIDE DEF all
    <3> QED BY <2>1, <3>1, <3>3, <3>5, Zenon DEF AllSaid
  <2>2. CASE ~Tests(TRUE)
    <3>1. all(TRUE) = <<>>
      <4>1. (IF Tests(TRUE) THEN <<"CIPSERVER?">> ELSE <<>>) = <<>>
        BY <2>2, Zenon
      <4>2. <<>> \o <<>> = <<>>
        OBVIOUS
      <4> QED BY <1>4, <4>1, <4>2, Zenon
    <3>2. [i \in DOMAIN all(TRUE) |-> Reply(all(TRUE)[i])] = <<>>
      <4>1. [i \in DOMAIN <<>> |-> Reply(<<>>[i])] = <<>>
        OBVIOUS
      <4> HIDE DEF all
      <4> QED BY <3>1, <4>1, Zenon
    <3>3. line \o <<>> = line
      BY <2>t
    <3> HIDE DEF all
    <3> QED BY <2>2, <3>2, <3>3, Zenon DEF AllSaid
  <2> QED BY <2>1, <2>2
<1> HIDE DEF said, all
<1>8. LoopRead(AllSaid, FALSE, Asked5)
  BY <1>5, <1>6, <1>7, Zenon DEF Asked5
<1> QED BY <1>8

LEMMA SimLoopCalm ==
    ASSUME TypeOK, StackInv, Calm, SimLoop
    PROVE  Calm'
<1>k. keys = {} /\ ~no_SimLoop /\ age' = age
  BY DEF SimLoop, Calm, Listening
<1>1. "a" \notin keys /\ "b" \notin keys /\ "c" \notin keys
  BY <1>k
<1>2. keys' = {} /\ keys' = keys
  BY <1>k DEF SimLoop
<1>3. CASE ~fl_read
  <2>1. Start
    BY <1>1, <1>3 DEF SimLoop
  <2> QED BY <1>k, <1>2, <1>3, <2>1, StartCalm
<1>4. CASE fl_read
  <2>7. LoopRead(AllSaid, FALSE, Asked5)
    BY <1>k, <1>4, LoopReadIs
  <2> QED BY <1>k, <1>2, <1>4, <2>7, ReadCalm
<1> QED BY <1>3, <1>4

LEMMA CommandCalm ==
    ASSUME TypeOK, StackInv, Calm, CommandSent
    PROVE  Calm'
<1>t. WaitOK /\ DeviceOK /\ age \in Nat
  BY Types DEF BoundsOK
<1>c. PICK c \in Starting : c = Head(stack)
  BY DEF CommandSent
<1>w. stack # <<>> /\ Waited /\ modem' = After(c) /\ ~time_sleep_SIM
  BY <1>c DEF CommandSent, SimWrite
<1>1. Top = c /\ Top \notin Resetting /\ Top \notin {"pulse", "none"}
  BY <1>t, <1>c, <1>w, TopIs, Apart
<1>2. Top' \notin Resetting /\ no_SimLoop' = FALSE
  BY <1>t, <1>w, TopWaited DEF StackInv
<1>3. (On' <=> On) /\ (Echoes' => Echoes /\ c # "ATE0")
  BY <1>t, <1>w, CommandedModem
<1>u. PICK u : u = Reply(c)
  OBVIOUS
<1>4. /\ On => u \in Texts \ {"none", "DEACT", "NOSRV"}
      /\ ~On => u = "none"
      /\ Echoes /\ c # "ATE0" => u \in Garbled
  BY <1>t, <1>u, ReplyToCommand
<1>5. u \in Texts \ {"DEACT", "NOSRV"} /\ "none" \notin {"DEACT", "NOSRV"}
  BY <1>4, TextsAre
<1>6. line' = Say(line, u) /\ line \in Seq(Texts)
  BY <1>t, <1>c, <1>u DEF CommandSent, SimWrite, DeviceOK
<1>7. /\ Tells(line', "DEACT") => Tells(line, "DEACT")
      /\ Tells(line', "NOSRV") => Tells(line, "NOSRV")
      /\ u # "none" => line' # <<>> /\ LastOf(line') = u
  <2>1. u \in Texts /\ u # "DEACT" /\ u # "NOSRV"
    BY <1>5
  <2> QED BY <1>6, <2>1, SaidOne, Zenon
<1>8. /\ rst' = rst /\ keys' = keys /\ state' = state /\ fl_test_connect' = fl_test_connect
      /\ t_min_no_connect' = t_min_no_connect
      /\ time_sleep_SIM' = TRUE /\ fl_read' = TRUE /\ recived' = "none"
      /\ age' = IF age < RoundsPerMinute THEN age + 1 ELSE age
  BY DEF CommandSent, SimRead
<1>9. Driven'
  <2>1. ~rst
    <3>1. Top \notin {"pulse", "shut", "offpulse", "onpulse"}
      BY <1>1, Apart
    <3> QED BY <3>1, Zenon DEF Calm, Driven
  <2>2. ~rst' /\ ~no_SimLoop'
    BY <1>2, <1>8, <2>1
  <2> QED BY <1>2, <2>2, Zenon DEF Driven
<1>10. Silenced'
  <2>1. Echoes' => state' \in {"AT_test", "ATE0"}
    BY <1>1, <1>3, <1>8, Zenon DEF Calm, Silenced
  <2>2. Echoes' => u \in Garbled /\ u # "none"
    BY <1>3, <1>4 DEF Garbled
  <2>3. Echoes' => Spoilt(recived', line')
    BY <1>7, <2>2, Zenon DEF Spoilt
  <2> QED BY <2>1, <2>3, Zenon DEF Silenced
<1>11. Listening'
  BY <1>7, <1>8, Zenon DEF Calm, Listening
<1>12. Probed'
  <2>1. Open' => Open
    BY <1>1, <1>3, <1>8, <1>c, Zenon DEF Calm, Driven, Open
  <2>2. ~Asking
    BY <1>w DEF Asking
  <2>3. Open => ~fl_test_connect /\ ~Tells(line, "NOSRV")
    BY <2>2, Zenon DEF Calm, Probed
  <2>4. Open /\ t_min_no_connect >= TIME_TEST_CONNECT =>
            t_min_no_connect = TIME_TEST_CONNECT /\ age <= 1 /\ age # 1
    BY <2>2, Zenon DEF Calm, Probed
  <2>5. age <= 1 /\ age # 1 => age' = 1
    BY <1>t, <1>8, Numbers
  <2>6. Open' => Asking'
    <3>1. Open => On
      BY DEF Open
    <3>2. Open => u # "none"
      BY <1>4, <3>1
    <3> QED BY <1>7, <1>8, <2>1, <3>2, Zenon DEF Asking
  <2>7. Open' /\ t_min_no_connect' >= TIME_TEST_CONNECT =>
            /\ t_min_no_connect' = TIME_TEST_CONNECT
            /\ age' <= 1 /\ Asking'
    <3>1. age <= 1 /\ age # 1 => age' <= 1
      BY <2>5
    <3> QED BY <1>8, <2>1, <2>4, <2>6, <3>1, Zenon
  <2>8. Open' => ~fl_test_connect' /\ ~Tells(line', "NOSRV")
    BY <1>7, <1>8, <2>1, <2>3
  <2> QED BY <2>7, <2>8, Zenon DEF Probed
<1> QED BY <1>9, <1>10, <1>11, <1>12 DEF Calm

LEMMA PulseCalm ==
    ASSUME TypeOK, StackInv, Calm, PulseEnds
    PROVE  Calm'
<1>t. WaitOK /\ DeviceOK /\ rst \in BOOLEAN
  BY Types DEF KeysOK
<1>1. stack # <<>> /\ Waited /\ Release /\ Head(stack) = "pulse"
  BY DEF PulseEnds
<1>2. Top = "pulse" /\ Top \notin Resetting
  BY <1>t, <1>1, TopIs, Apart
<1>3. Top' \notin Resetting /\ no_SimLoop' = FALSE
  BY <1>t, <1>1, TopWaited DEF StackInv
<1>4. rst' = FALSE /\ (~rst => modem' = modem)
  BY <1>t, <1>1, ReleasedModem
<1>5. /\ keys' = keys /\ state' = state /\ fl_test_connect' = fl_test_connect
      /\ t_min_no_connect' = t_min_no_connect /\ time_sleep_SIM' = TRUE
      /\ fl_read' = fl_read /\ recived' = recived /\ line' = line /\ age' = age
  BY DEF PulseEnds
<1>6. Driven'
  BY <1>3, <1>4, Zenon DEF Driven
<1>7. Listening'
  BY <1>5, Zenon DEF Calm, Listening
<1>8. CASE no_SimLoop
  <2>1. state' = "AT_test" /\ ~fl_read'
    BY <1>2, <1>5, <1>8 DEF Calm, Driven
  <2>2. Silenced'
    BY <2>1, Zenon DEF Silenced
  <2>3. Probed'
    BY <2>1 DEF Probed, Open
  <2> QED BY <1>6, <1>7, <2>2, <2>3 DEF Calm
<1>9. CASE ~no_SimLoop
  <2>1. ~rst
    BY <1>9 DEF Calm, Driven
  <2>2. On' = On /\ Echoes' = Echoes /\ Serves' = Serves
    BY <1>4, <2>1, SameModem
  <2>3. Silenced'
    BY <1>2, <1>5, <1>9, <2>2, Zenon DEF Calm, Silenced
  <2>4. Open' = Open /\ (Asking => Asking')
    BY <1>3, <1>5, <1>9, <2>2, Zenon DEF Open, Asking
  <2>5. Probed'
    BY <1>5, <2>2, <2>4, Zenon DEF Calm, Probed
  <2> QED BY <1>6, <1>7, <2>3, <2>5 DEF Calm
<1> QED BY <1>8, <1>9

LEMMA ResetCalm ==
    ASSUME TypeOK, StackInv, Calm, Drain \/ ResetGoesOn \/ ResetEnds
    PROVE  Calm'
<1>t. WaitOK /\ DeviceOK /\ rst \in BOOLEAN /\ line \in Seq(Texts)
  BY Types DEF KeysOK, DeviceOK
<1>l. keys = {} /\ ~Tells(line, "DEACT") /\ (state # "Opened" => ~fl_test_connect)
  BY Zenon DEF Calm, Listening
<1>1. CASE Drain
  <2>1. stack # <<>> /\ Top = Head(stack) /\ Head(stack) \in Resetting
    BY <1>t, <1>1, TopIs DEF Drain, Resetting
  <2>2. no_SimLoop /\ ~Serves
    BY <2>1 DEF Calm, Driven
  <2>3. /\ no_SimLoop' = TRUE /\ Top' = Top /\ Serves' = Serves /\ rst' = rst
        /\ keys' = keys /\ state' = state /\ fl_test_connect' = fl_test_connect
        /\ line # <<>> /\ line' = Tail(line)
    BY <1>1, <1>t, <2>2, TopKept, SameModem DEF Drain, WaitOK
  <2>4. Driven'
    <3>1. Top' \in Resetting /\ Top' # "pulse" /\ Top' # "none" /\ Top' \notin Starting
      BY <2>1, <2>3, Apart
    <3>2. rst => Top \in {"pulse", "shut", "offpulse", "onpulse"}
      BY DEF Calm, Driven
    <3> QED BY <2>2, <2>3, <3>1, <3>2, Zenon DEF Driven
  <2>5. ~Tells(line', "DEACT")
    BY <1>t, <1>l, <2>3, TellsTail, Zenon
  <2> QED BY <1>l, <2>1, <2>3, <2>4, <2>5, AsleepCalm, Zenon
<1>2. CASE ResetGoesOn
  <2>1. stack # <<>> /\ Top = Head(stack) /\ Head(stack) \in {"shut", "offpulse", "off", "onpulse"}
    BY <1>t, <1>2, TopIs DEF ResetGoesOn, Following
  <2>2. PICK w \in Resetting : w = Following[Head(stack)] /\ w # "shut"
    BY <2>1, Apart DEF Following
  <2>3. w \in Waits /\ Tail(stack) \in Seq(Waits)
    BY <1>t, <2>1, <2>2 DEF Waits, Resetting, WaitOK
  <2>4. SleepSIM(w, Tail(stack))
    BY <1>2, <2>2 DEF ResetGoesOn
  <2>5. Top' = w /\ no_SimLoop' = TRUE
    BY <1>t, <2>3, <2>4, TopAsleep
  <2>6. ~Serves
    BY <2>1, Apart DEF Calm, Driven
  <2>7. ~Serves' /\ (rst' => w \in {"offpulse", "onpulse"})
    <3>1. CASE Head(stack) \in Pulses
      <4>1. Release
        BY <1>2, <3>1 DEF ResetGoesOn
      <4> QED BY <1>t, <2>6, <4>1, ReleasedModem
    <3>2. CASE Head(stack) \notin Pulses
      <4>1. modem' = modem
        BY <1>2, <3>2 DEF ResetGoesOn
      <4>2. Head(stack) \in {"shut", "off"}
        BY <2>1, <3>2 DEF Pulses
      <4>3. w \in {"offpulse", "onpulse"}
        BY <2>2, <4>2 DEF Following
      <4> QED BY <2>6, <4>1, <4>3, SameModem
    <3> QED BY <3>1, <3>2
  <2>8. /\ keys' = keys /\ state' = state /\ fl_test_connect' = fl_test_connect /\ line' = line
    BY <1>2 DEF ResetGoesOn
  <2>9. Driven'
    <3>1. w # "pulse" /\ w # "none" /\ w \notin Starting
      BY <2>2, Apart
    <3>2. rst' => w \in {"pulse", "shut", "offpulse", "onpulse"}
      BY <2>7
    <3> QED BY <2>2, <2>5, <2>7, <3>1, <3>2, Zenon DEF Driven
  <2> QED BY <1>l, <2>2, <2>5, <2>8, <2>9, AsleepCalm, Zenon
<1>3. CASE ResetEnds
  <2>1. stack # <<>> /\ Waited /\ Top = "on"
    BY <1>t, <1>3, TopIs DEF ResetEnds
  <2>2. Top' \notin Resetting /\ no_SimLoop' = FALSE
    BY <1>t, <2>1, TopWaited DEF StackInv
  <2>3. /\ keys' = keys /\ state' = "AT_test" /\ fl_test_connect' = FALSE
        /\ fl_read' = FALSE /\ rst' = rst /\ line' = line
    BY <1>3 DEF ResetEnds
  <2>4. ~rst'
    BY <2>1, <2>3 DEF Calm, Driven
  <2>5. Driven'
    BY <2>2, <2>4, Zenon DEF Driven
  <2>6. Silenced' /\ Listening'
    BY <1>l, <2>3, Zenon DEF Silenced, Listening
  <2>7. Probed'
    BY <2>3 DEF Probed, Open
  <2> QED BY <2>5, <2>6, <2>7 DEF Calm
<1> QED BY <1>1, <1>2, <1>3

LEMMA TimerCalm ==
    ASSUME TypeOK, StackInv, Calm, TimerExpires, faults' = faults
    PROVE  Calm'
<1>1. ~(line # <<>> /\ fl_read /\ ~no_SimLoop)
  <2>1. faults \in Nat
    BY Types, Constants DEF BoundsOK
  <2> QED BY <2>1 DEF TimerExpires
<1>2. /\ Top' = Top /\ On' = On /\ Echoes' = Echoes /\ Serves' = Serves
      /\ no_SimLoop' = no_SimLoop /\ state' = state /\ fl_read' = fl_read /\ line' = line
      /\ recived' = recived /\ keys' = keys /\ rst' = rst /\ age' = age
      /\ fl_test_connect' = fl_test_connect /\ t_min_no_connect' = t_min_no_connect
  BY TopKept, SameModem DEF TimerExpires
<1>3. Driven'
  BY <1>2, Zenon DEF Calm, Driven
<1>4. Silenced'
  BY <1>2, Zenon DEF Calm, Silenced
<1>5. Listening'
  BY <1>1, <1>2, Zenon DEF Calm, Listening
<1>6. Probed'
  <2>1. Open => ~Asking
    BY <1>1 DEF Open, Asking
  <2>2. Open' = Open
    BY <1>2, Zenon DEF Open
  <2>3. Open => ~fl_test_connect /\ ~Tells(line, "NOSRV")
    BY <2>1, Zenon DEF Calm, Probed
  <2>4. Open /\ t_min_no_connect >= TIME_TEST_CONNECT =>
            t_min_no_connect = TIME_TEST_CONNECT /\ age <= 1 /\ age # 1
    BY <2>1, Zenon DEF Calm, Probed
  <2> QED BY <1>2, <2>2, <2>3, <2>4, Zenon DEF Probed
<1> QED BY <1>3, <1>4, <1>5, <1>6 DEF Calm

LEMMA MinuteCalm ==
    ASSUME TypeOK, StackInv, Calm, MinuteChanges
    PROVE  Calm'
<1>t. WaitOK /\ DeviceOK /\ age \in Nat /\ t_min_no_connect \in Nat
  BY Types DEF BoundsOK, FlagsOK
<1>a. Top \notin Resetting
  <2>1. age = RoundsPerMinute \/ ~no_SimLoop
    BY DEF MinuteChanges, Quiet
  <2>2. stack # <<>> => 1 \in DOMAIN stack /\ Head(stack) = stack[1]
    BY <1>t DEF WaitOK
  <2> QED BY <2>1, <2>2, Numbers, Apart DEF StackInv, ResetAlone, Top
<1>l. keys = {} /\ ~Tells(line, "DEACT") /\ (state # "Opened" => ~fl_test_connect)
  BY Zenon DEF Calm, Listening
<1>1. /\ age' = 0 /\ state' = state /\ fl_read' = fl_read /\ rst' = rst
      /\ fl_test_connect' = fl_test_connect /\ keys' = keys
      /\ t_min_no_connect' = IF t_min_no_connect < MAX_TIME_NO_CONNECT
                             THEN t_min_no_connect + 1 ELSE t_min_no_connect
  BY DEF MinuteChanges
\* While the test is on its way the minute cannot change.
<1>2. Open /\ t_min_no_connect' >= TIME_TEST_CONNECT => t_min_no_connect' = TIME_TEST_CONNECT
  <2>1. ASSUME Open, t_min_no_connect >= TIME_TEST_CONNECT PROVE FALSE
    <3>1. age <= 1 /\ state = "Opened"
      BY <2>1 DEF Calm, Probed, Open
    <3>2. Quiet
      BY <1>t, <3>1, Numbers DEF MinuteChanges
    <3>3. line = <<>> /\ ~Tests(TRUE)
      BY <3>1, <3>2 DEF Quiet
    <3>4. fl_test_connect
      BY <2>1, <3>1, <3>3 DEF Tests
    <3>5. Asking
      BY <2>1, <3>4, Zenon DEF Calm, Probed
    <3> QED BY <3>3, <3>5 DEF Asking
  <2>2. ~(t_min_no_connect >= TIME_TEST_CONNECT) /\ t_min_no_connect' >= TIME_TEST_CONNECT
            => t_min_no_connect' = TIME_TEST_CONNECT
    BY <1>t, <1>1, Numbers
  <2> QED BY <2>1, <2>2
<1>3. CASE UNCHANGED <<recived, wait, device>>
  <2>1. /\ Top' = Top /\ On' = On /\ Echoes' = Echoes /\ Serves' = Serves
        /\ no_SimLoop' = no_SimLoop /\ line' = line /\ recived' = recived
        /\ time_sleep_SIM' = time_sleep_SIM
    BY <1>3, TopKept, SameModem
  <2>2. Driven'
    BY <1>1, <2>1, Zenon DEF Calm, Driven
  <2>3. Silenced'
    BY <1>1, <2>1, Zenon DEF Calm, Silenced
  <2>4. Listening'
    BY <1>1, <2>1, Zenon DEF Calm, Listening
  <2>5. Open' = Open /\ Asking' = Asking
    BY <1>1, <2>1 DEF Open, Asking
  <2>6. age' <= 1 /\ age' # 1
    BY <1>1
  <2>7. Probed'
    BY <1>1, <1>2, <2>1, <2>5, <2>6, Zenon DEF Calm, Probed
  <2> QED BY <2>2, <2>3, <2>4, <2>7 DEF Calm
<1>4. CASE SimWrite("CIPSHUT") /\ SleepSIM("shut", stack)
  <2>1. "shut" \in Waits /\ stack \in Seq(Waits) /\ line \in Seq(Texts)
    BY <1>t DEF Waits, ResetWaits, WaitOK, DeviceOK
  <2>2. Top' = "shut" /\ no_SimLoop' = TRUE
    BY <1>t, <1>4, <2>1, TopAsleep
  <2>3. ~Serves'
    BY <1>t, <1>4, ShutModem DEF SimWrite
  <2>4. PICK u \in Texts : u = Reply("CIPSHUT") /\ u # "DEACT"
    BY <1>t, ReplyToOthers
  <2>5. line' = Say(line, u)
    BY <1>4, <2>4 DEF SimWrite
  <2>6. ~Tells(line', "DEACT")
    BY <1>l, <2>1, <2>4, <2>5, SaidOne, Zenon
  <2>7. Driven'
    <3>1. "shut" \in Resetting /\ "shut" \notin Starting
      BY Apart
    <3> QED BY <2>2, <2>3, <3>1, Zenon DEF Driven
  <2>8. Top' \in Resetting
    BY <2>2, Apart
  <2> QED BY <1>l, <1>1, <2>2, <2>6, <2>7, <2>8, AsleepCalm, Zenon
<1> QED BY <1>3, <1>4 DEF MinuteChanges, ResetSIM

LEMMA ClientCalm ==
    ASSUME TypeOK, StackInv, Calm, ClientSends, state = "Opened"
    PROVE  Calm'
<1>t. WaitOK
  BY Types
<1>1. /\ line = <<>> /\ line' = <<"RECEIVE">>
      /\ Top' = Top /\ On' = On /\ Echoes' = Echoes /\ Serves' = Serves
      /\ no_SimLoop' = no_SimLoop /\ state' = state /\ fl_read' = fl_read
      /\ recived' = recived /\ keys' = keys /\ rst' = rst /\ age' = age
      /\ time_sleep_SIM' = time_sleep_SIM
      /\ fl_test_connect' = fl_test_connect /\ t_min_no_connect' = t_min_no_connect
  BY TopKept, SameModem DEF ClientSends
<1>2. ~Tells(line', "DEACT") /\ ~Tells(line', "NOSRV")
  BY <1>1 DEF Tells
<1>3. Driven'
  BY <1>1, Zenon DEF Calm, Driven
<1>4. ~no_SimLoop => ~Echoes
  <2>1. ~no_SimLoop => Top \notin Resetting
    BY <1>t, TopIs DEF StackInv
  <2> QED BY <2>1 DEF Calm, Silenced
<1>5. Silenced'
  <2>1. Echoes' /\ Top' \notin Resetting => state' \in {"AT_test", "ATE0"}
    BY <1>1, Zenon DEF Calm, Silenced
  <2> QED BY <1>1, <1>4, <2>1, Zenon DEF Silenced
<1>6. Listening'
  BY <1>1, <1>2, Zenon DEF Calm, Listening
<1>7. Probed'
  <2>1. ~Asking /\ Open' = Open
    BY <1>1 DEF Asking, Open
  <2>2. Open => ~fl_test_connect
    BY <2>1, Zenon DEF Calm, Probed
  <2>3. Open /\ t_min_no_connect >= TIME_TEST_CONNECT =>
            t_min_no_connect = TIME_TEST_CONNECT /\ age <= 1 /\ age # 1
    BY <2>1, Zenon DEF Calm, Probed
  <2> QED BY <1>1, <1>2, <2>1, <2>2, <2>3, Zenon DEF Probed
<1> QED BY <1>3, <1>5, <1>6, <1>7 DEF Calm

LEMMA StepCalm ==
    ASSUME TypeOK, StackInv, CalmInv, [Next]_vars
    PROVE  CalmInv'
<1> SUFFICES ASSUME faults' = 0 PROVE Calm'
  BY DEF CalmInv
<1>f. faults \in Nat
  BY Types, Constants DEF BoundsOK
<1>p. ~Fault
  BY <1>f DEF Fault
<1>c. ASSUME faults = 0 PROVE Calm
  BY <1>c DEF CalmInv
<1>1. CASE SimLoop
  BY <1>1, <1>c, SimLoopCalm DEF SimLoop
<1>2. CASE CommandSent
  BY <1>2, <1>c, CommandCalm DEF CommandSent
<1>3. CASE PulseEnds
  BY <1>3, <1>c, PulseCalm DEF PulseEnds
<1>4. CASE Drain \/ ResetGoesOn \/ ResetEnds
  BY <1>4, <1>c, ResetCalm DEF Drain, ResetGoesOn, ResetEnds
<1>5. CASE TimerExpires
  <2>1. faults' = faults
    BY <1>5, <1>f DEF TimerExpires
  <2> QED BY <1>5, <1>c, <2>1, TimerCalm
<1>6. CASE MinuteChanges
  BY <1>6, <1>c, MinuteCalm DEF MinuteChanges
<1>7. CASE Console
  BY <1>7, <1>p DEF Console, SetSimState, SendOnlyCommand, PressKey, ToggleReset
<1>8. CASE World
  <2>1. ClientSends /\ state = "Opened" /\ faults' = faults
    BY <1>8, <1>p DEF World, ClientSends, TextLost, OtherText, BearerLost, ModemDies
  <2> QED BY <1>c, <2>1, ClientCalm
<1>9. CASE UNCHANGED vars
  <2>1. Calm
    BY <1>9, <1>c DEF vars
  <2> QED BY <1>9, <2>1 DEF vars, Calm, Driven, Silenced, Listening, Probed, Open, Asking,
                           Top, On, Echoes, Serves, Spoilt, Tells, LastOf
<1> QED BY <1>1, <1>2, <1>3, <1>4, <1>5, <1>6, <1>7, <1>8, <1>9 DEF Next, Program

\* A server that works is left only for a reset or for something that went wrong.
LEMMA StepServes ==
    ASSUME TypeOK, StackInv, CalmInv, [Next]_vars, faults' = 0, Serving
    PROVE  state' = "Opened" \/ UNCHANGED vars
<1>t. WaitOK /\ faults \in Nat
  BY Types, Constants DEF BoundsOK
<1>p. ~Fault
  BY <1>t DEF Fault
<1>s. state = "Opened" /\ On /\ Serves
  BY DEF Serving, On, Serves
<1>c. ASSUME faults = 0 PROVE Calm
  BY <1>c DEF CalmInv
<1>1. CASE SimLoop
  <2>1. Calm /\ keys = {} /\ ~no_SimLoop
    BY <1>1, <1>c DEF SimLoop, Calm, Listening
  <2>2. CASE ~fl_read
    <3>1. Start
      BY <1>1, <2>1, <2>2 DEF SimLoop
    <3> QED BY <1>s, <3>1, Apart DEF Start
  <2>3. CASE fl_read
    <3>1. LoopRead(AllSaid, FALSE, Asked5)
      BY <1>1, <2>1, <2>3, LoopReadIs
    <3>2. Open
      BY <1>s, <2>1 DEF Open
    <3>3. ~(t_min_no_connect >= MAX_TIME_NO_CONNECT)
      <4>1. t_min_no_connect \in Nat
        BY Types DEF FlagsOK
      <4>2. t_min_no_connect >= TIME_TEST_CONNECT => t_min_no_connect = TIME_TEST_CONNECT
        BY <2>1, <3>2, Zenon DEF Calm, Probed
      <4> QED BY <4>1, <4>2, Numbers
    <3>4. AllSaid # <<>> => Head(AllSaid) \notin Ends
      <4>1. AllSaid \in Seq(Texts) /\ ~Tells(AllSaid, "DEACT") /\ ~Tells(AllSaid, "NOSRV")
        BY <1>s, <2>1, <2>3, <3>2, AllSaidIs
      <4>2. AllSaid # <<>> => Tells(AllSaid, Head(AllSaid))
        BY <4>1, TellsTail, Zenon
      <4> QED BY <4>1, <4>2, Zenon DEF Ends
    <3> HIDE DEF AllSaid
    <3> QED BY <1>s, <3>1, <3>3, <3>4 DEF LoopRead, AnswerComplete, TextRead
  <2> QED BY <2>2, <2>3
<1>2. CASE ResetEnds
  <2>1. Calm /\ Top = "on"
    BY <1>2, <1>c, <1>t, TopIs DEF ResetEnds
  <2> QED BY <1>s, <2>1, Apart DEF Calm, Driven
<1>3. CASE CommandSent \/ PulseEnds \/ Drain \/ ResetGoesOn \/ TimerExpires \/ MinuteChanges
  BY <1>3, <1>s DEF CommandSent, PulseEnds, Drain, ResetGoesOn, TimerExpires, MinuteChanges
<1>4. CASE Console
  BY <1>4, <1>p DEF Console, SetSimState, SendOnlyCommand, PressKey, ToggleReset
<1>5. CASE World
  BY <1>5, <1>s DEF World, ClientSends, TextLost, OtherText, BearerLost, ModemDies
<1> QED BY <1>1, <1>2, <1>3, <1>4, <1>5 DEF Next, Program

LEMMA CalmInvariance == Spec => [](TypeOK /\ StackInv /\ CalmInv)
<1>1. Init => CalmInv
  BY InitCalm DEF CalmInv
<1>2. TypeOK /\ StackInv /\ CalmInv /\ [Next]_vars => CalmInv'
  BY StepCalm
<1> QED BY <1>1, <1>2, StackInvariance, PTL DEF Spec

\* The question of the last minute but one is asked, and answered, before the
\* modem would be switched off: with no fault, a server that works is closed by
\* a reset that is due and by nothing else, whatever waits are nested meanwhile.
THEOREM ServerIsKept == Spec => NeverCutWhileServing
<1>1. TypeOK /\ StackInv /\ CalmInv /\ [Next]_vars
        => [faults' = 0 /\ Serving => state' = "Opened"]_vars
  BY StepServes
<1> QED BY <1>1, CalmInvariance, PTL DEF Spec, NeverCutWhileServing

\* No answer is read in a form the driver does not know: with no fault, SimLoop
\* goes past ATE0 only once the modem's echo is off, whatever a reset left unread
\* on the line and whatever command an outer wait sends in between.
NoEchoPastATE0 ==
    faults = 0 /\ ~no_SimLoop /\ state \notin {"AT_test", "ATE0"} /\ modem.on => ~modem.echo

THEOREM EchoIsOff == Spec => []NoEchoPastATE0
<1>1. TypeOK /\ StackInv /\ CalmInv => NoEchoPastATE0
  <2> SUFFICES ASSUME TypeOK, StackInv, CalmInv, faults = 0, ~no_SimLoop,
                      state \notin {"AT_test", "ATE0"}
               PROVE  ~Echoes
    BY DEF NoEchoPastATE0, Echoes
  <2>1. Top \notin Resetting
    BY Types, TopIs DEF StackInv
  <2> QED BY <2>1, Zenon DEF CalmInv, Calm, Silenced
<1> QED BY <1>1, CalmInvariance, PTL
=============================================================================
