------------------------------- MODULE Sim900 -------------------------------
(***************************************************************************)
(* The GPRS modem driver (SIM900.c): the automaton that brings the modem   *)
(* from AT_test to an open server, the reader of its answers, its resets,  *)
(* and the way all of them wait.  SleepSIM and ResetSIM wait by calling    *)
(* main_loop, which calls SimLoop and, once a minute, ResetSIM: the waits  *)
(* under way form a stack, share one timer and one flag no_SimLoop.        *)
(*                                                                         *)
(* An answer is a text, known by its length and by what it says.  A wait   *)
(* for a command is named by the command, which is named by the state that *)
(* sends it.  What clients and the server exchange once the modem is open  *)
(* is the subject of module GprsClients.                                   *)
(***************************************************************************)
EXTENDS Integers, Sequences

CONSTANTS
    MAX_TIME_NO_CONNECT,    \* minutes without a sign of the modem (6)
    RoundsPerMinute,        \* commands a minute has room for, at least: each waits
                            \* no more than 4 s before it is sent and 4 s after
    MaxFaults,              \* bound: what goes wrong, and the operator's keys
    MaxResets               \* bound: calls of ResetSIM from main_loop

ASSUME Sim900Assumption ==
    /\ MAX_TIME_NO_CONNECT \in Nat /\ MAX_TIME_NO_CONNECT > 1
    /\ RoundsPerMinute \in Nat /\ RoundsPerMinute > 1
    /\ {MaxFaults, MaxResets} \subseteq Nat

TIME_TEST_CONNECT == MAX_TIME_NO_CONNECT - 1

\* The states that send a command of their own, and the two that do not.
Starting == {"AT_test", "ATE0", "CIFSR_test", "PIN_test", "PIN_set", "CIPMUX",
             "CREG", "CGATT", "CSQ", "CSTT", "CIICR", "TO_Open"}
States == Starting \cup {"BAD_PIN", "Opened"}

\* What the console may send besides.
Commands == Starting \cup {"CIPSHUT", "CIPSERVER=0", "CIPSERVER?", "CIPSTATUS"}

ResetWaits == {"shut", "off", "on"}     \* the loops of ResetSIM that read
Pulses == {"offpulse", "onpulse"}       \* its SleepSIM(1000)s
Waits == Starting \cup ResetWaits \cup Pulses \cup {"pulse"}

\* The answers by their length; "long" is anything longer than all of these.
Length == [none |-> 0, OK |-> 6, ERROR |-> 9, ATOK |-> 10, SHUTOK |-> 11,
           ATE0OK |-> 12, IP |-> 13, noise |-> 14, SRV |-> 16, DEACT |-> 13,
           NOSRV |-> 16, CGATT1 |-> 19, CGATT0 |-> 19, SERVEROK |-> 19, CREG1 |-> 20,
           CREG0 |-> 20, CSQ |-> 20, READY |-> 22, SIMPIN |-> 24, long |-> 40,
           RECEIVE |-> 14]
Texts == DOMAIN Length

VARIABLES
    state, fl_read, no_SimLoop,
    time_sleep_SIM,         \* is the timer still running?
    recived,                \* what buffer_SIM900 holds, in the states before Opened
    t_min_no_connect, fl_test_connect, fl_reject_resetSIM,
    keys,                   \* the flags key_a, key_b, key_c that are set
    stack,                  \* the waits under way, the innermost first
    nested,                 \* ghost: resets begun within the waits under way
    rst,                    \* GPRS_RST
    modem,                  \* the modem itself
    line,                   \* texts it has sent and nobody has read
    age,                    \* commands sent since the minute changed
    faults, resets          \* counted against MaxFaults and MaxResets

flags == <<state, fl_read, fl_test_connect, fl_reject_resetSIM, t_min_no_connect, recived>>
nest == <<stack, nested>>
wait == <<nest, no_SimLoop, time_sleep_SIM>>
device == <<modem, line>>
bounds == <<age, faults, resets>>
vars == <<flags, wait, device, bounds, keys, rst>>

PoweredUp == [on |-> TRUE, echo |-> TRUE, unlocked |-> FALSE, bearer |-> FALSE, server |-> FALSE]

Init ==
    /\ state = "AT_test" /\ fl_read = FALSE /\ no_SimLoop = FALSE
    /\ time_sleep_SIM = TRUE /\ recived = "none"
    /\ t_min_no_connect = 0 /\ fl_test_connect = FALSE /\ fl_reject_resetSIM = FALSE
    /\ keys = {} /\ stack = <<>> /\ nested = 0 /\ rst = FALSE
    /\ modem \in {PoweredUp, [PoweredUp EXCEPT !.on = FALSE]}
    /\ line = <<>> /\ age = 0 /\ faults = 0 /\ resets = 0

-----------------------------------------------------------------------------
(* The modem, as the driver expects it to behave.                          *)

Reply(c) ==
    IF ~modem.on THEN "none" ELSE
    CASE modem.echo /\ c = "AT_test" -> "ATOK"
      [] modem.echo /\ c = "ATE0" -> "ATE0OK"
      [] modem.echo /\ c \notin {"AT_test", "ATE0"} -> "long"
      [] ~modem.echo /\ c \in {"AT_test", "ATE0", "PIN_set", "CIPMUX", "CSTT", "CIICR"} -> "OK"
      [] ~modem.echo /\ c = "CIFSR_test" -> IF modem.bearer THEN "IP" ELSE "ERROR"
      [] ~modem.echo /\ c = "PIN_test" -> IF modem.unlocked THEN "READY" ELSE "SIMPIN"
      [] ~modem.echo /\ c = "CREG" -> IF modem.unlocked THEN "CREG1" ELSE "CREG0"
      [] ~modem.echo /\ c = "CGATT" -> IF modem.unlocked THEN "CGATT1" ELSE "CGATT0"
      [] ~modem.echo /\ c = "CSQ" -> "CSQ"
      [] ~modem.echo /\ c = "TO_Open" ->
            IF modem.bearer /\ ~modem.server THEN "SERVEROK" ELSE "ERROR"
      [] ~modem.echo /\ c = "CIPSERVER?" -> IF modem.server THEN "SRV" ELSE "NOSRV"
      [] ~modem.echo /\ c = "CIPSHUT" -> "SHUTOK"
      [] ~modem.echo /\ c \in {"CIPSERVER=0", "CIPSTATUS"} -> "OK"

After(c) ==
    IF ~modem.on THEN modem
    ELSE [modem EXCEPT
            !.echo = @ /\ c # "ATE0",
            !.unlocked = @ \/ c = "PIN_set",
            !.bearer = (@ \/ (c = "CIICR" /\ modem.unlocked)) /\ c # "CIPSHUT",
            !.server = (@ \/ (c = "TO_Open" /\ modem.bearer))
                            /\ c \notin {"CIPSHUT", "CIPSERVER=0"}]

Say(said, t) == IF t = "none" THEN said ELSE Append(said, t)

\* SimWrite: the command reaches the modem, which answers in its own time.
SimWrite(c) ==
    /\ modem' = After(c)
    /\ line' = Say(line, Reply(c))

\* GPRS_RST is released: after a pulse the modem has gone on or off.
Release ==
    /\ rst' = FALSE
    /\ modem' = IF rst THEN [PoweredUp EXCEPT !.on = ~modem.on] ELSE modem

-----------------------------------------------------------------------------
(* Waiting.                                                                *)

\* A reset that begins within another wait.
Nesting(w, below) == IF w = "shut" /\ below # <<>> THEN nested + 1 ELSE nested

\* Faulty: main_loop may enter SimLoop while it waits.
SleepReentered(w, below) ==
    /\ stack' = <<w>> \o below /\ nested' = Nesting(w, below)
    /\ time_sleep_SIM' = TRUE
    /\ no_SimLoop' = FALSE

\* SleepSIM, and the loops of ResetSIM, begin to wait.
SleepSIM(w, below) ==
    /\ stack' = <<w>> \o below /\ nested' = Nesting(w, below)
    /\ time_sleep_SIM' = TRUE
    /\ no_SimLoop' = TRUE

\* The innermost wait is over; what called it waits on, and SimLoop may run.
Waited ==
    /\ stack' = Tail(stack) /\ no_SimLoop' = FALSE
    /\ nested' = IF Tail(stack) = <<>> THEN 0 ELSE nested

SimRead == time_sleep_SIM' = TRUE /\ fl_read' = TRUE /\ recived' = "none"

On_off_SIM ==
    /\ state' = "AT_test" /\ fl_read' = FALSE
    /\ fl_test_connect' = FALSE /\ t_min_no_connect' = 0
    /\ rst' = TRUE
    /\ SleepSIM("pulse", stack)
    /\ UNCHANGED fl_reject_resetSIM

\* The timer interrupt counts time_sleep_SIM down to nothing.  It gives an
\* answer the time it needs: an answer that comes later is one of the faults.
TimerExpires ==
    /\ time_sleep_SIM
    /\ time_sleep_SIM' = FALSE
    /\ \/ ~(line # <<>> /\ fl_read /\ ~no_SimLoop) /\ UNCHANGED faults
       \/ line # <<>> /\ fl_read /\ ~no_SimLoop /\ faults < MaxFaults /\ faults' = faults + 1
    /\ UNCHANGED <<flags, nest, no_SimLoop, device, age, resets, keys, rst>>

\* SleepSIM in front of a command: then SimWrite and SimRead.
CommandSent ==
    /\ stack # <<>> /\ ~time_sleep_SIM
    /\ Head(stack) \in Starting
    /\ SimWrite(Head(stack))
    /\ SimRead
    /\ Waited
    /\ age' = IF age < RoundsPerMinute THEN age + 1 ELSE age
    /\ UNCHANGED <<state, fl_test_connect, fl_reject_resetSIM, t_min_no_connect,
                   keys, rst, faults, resets>>

\* The end of On_off_SIM.
PulseEnds ==
    /\ stack # <<>> /\ ~time_sleep_SIM
    /\ Head(stack) = "pulse"
    /\ Release
    /\ Waited
    /\ time_sleep_SIM' = TRUE
    /\ UNCHANGED <<flags, line, bounds, keys>>

-----------------------------------------------------------------------------
(* ResetSIM.                                                               *)

\* Called by main_loop when a reset is due: a packet from a client since the
\* last call puts it off once.
ResetSIM ==
    \/ /\ fl_reject_resetSIM
       /\ fl_reject_resetSIM' = FALSE
       /\ UNCHANGED <<recived, wait, device>>
    \/ /\ ~fl_reject_resetSIM
       /\ SimWrite("CIPSHUT")
       /\ SleepSIM("shut", stack)
       /\ recived' = "none"
       /\ UNCHANGED fl_reject_resetSIM

\* Its loops read and drop what comes, and wait on.
Drain ==
    /\ stack # <<>> /\ Head(stack) \in ResetWaits
    /\ line # <<>>
    /\ line' = Tail(line)
    /\ time_sleep_SIM' = TRUE
    /\ UNCHANGED <<flags, nest, no_SimLoop, modem, bounds, keys, rst>>

\* From one wait to the next: GPRS_RST is set before a pulse, released after.
Following == [shut |-> "offpulse", offpulse |-> "off", off |-> "onpulse", onpulse |-> "on"]

ResetGoesOn ==
    /\ stack # <<>> /\ ~time_sleep_SIM
    /\ Head(stack) \in DOMAIN Following
    /\ SleepSIM(Following[Head(stack)], Tail(stack))
    /\ recived' = "none"
    /\ IF Head(stack) \in Pulses THEN Release ELSE rst' = TRUE /\ UNCHANGED modem
    /\ UNCHANGED <<state, fl_read, fl_test_connect, fl_reject_resetSIM, t_min_no_connect,
                   line, bounds, keys>>

ResetEnds ==
    /\ stack # <<>> /\ ~time_sleep_SIM
    /\ Head(stack) = "on"
    /\ Waited
    /\ time_sleep_SIM' = TRUE
    /\ fl_test_connect' = FALSE /\ t_min_no_connect' = 0
    /\ fl_read' = FALSE /\ state' = "AT_test" /\ recived' = "none"
    /\ UNCHANGED <<fl_reject_resetSIM, device, bounds, keys, rst>>

-----------------------------------------------------------------------------
(* The automaton, and the reader of answers.                               *)

\* Faulty: any answer to AT+CPIN? but READY asks for the PIN.
AnsweredNoBadPin(s, t) ==
    IF s = "PIN_test" THEN (IF t = "READY" THEN "CIPMUX" ELSE "PIN_set")
    ELSE IF s = "PIN_set" THEN "PIN_test" ELSE s

\* The state that follows s when t is what was read.
Answered(s, t) ==
    CASE s = "AT_test" /\ t = "ATOK" -> "ATE0"
      [] s \in {"AT_test", "ATE0"} /\ t = "OK" -> "CIFSR_test"
      [] s = "ATE0" /\ t = "ATE0OK" -> "CIFSR_test"
      [] s = "CIFSR_test" -> IF Length[t] > 10 THEN "TO_Open" ELSE "PIN_test"
      [] s = "PIN_test" /\ t = "SIMPIN" -> "PIN_set"
      [] s = "PIN_test" /\ t = "READY" -> "CIPMUX"
      [] s = "PIN_test" /\ Length[t] \notin {Length.SIMPIN, Length.READY} -> "BAD_PIN"
      [] s = "PIN_set" /\ t = "OK" -> "PIN_test"
      [] s = "PIN_set" /\ Length[t] # Length.OK -> "BAD_PIN"
      [] s = "CIPMUX" /\ Length[t] > 5 -> "CREG"
      [] s = "CREG" /\ t = "CREG1" -> "CGATT"
      [] s = "CGATT" /\ t = "CGATT1" -> "CSQ"
      [] s = "CSQ" /\ Length[t] > 10 -> "CSTT"
      [] s = "CSTT" /\ Length[t] > 5 -> "CIICR"
      [] s = "CIICR" /\ Length[t] > 5 -> "CIFSR_test"
      [] s = "TO_Open" /\ t \in {"SERVEROK", "ERROR"} -> "Opened"
      [] OTHER -> s

\* The timer has run out: an answer is complete, or there is none.
AnswerComplete(said, tested) ==
    \/ /\ state = "Opened"
       /\ time_sleep_SIM' = TRUE /\ fl_read' = TRUE /\ line' = said
       /\ fl_test_connect' = tested
       /\ UNCHANGED <<state, recived, t_min_no_connect, fl_reject_resetSIM, nest,
                      no_SimLoop, modem, rst>>
    \/ /\ state # "Opened" /\ recived = "none"
       /\ On_off_SIM
       /\ line' = said
       /\ UNCHANGED <<recived, modem>>
    \/ /\ state # "Opened" /\ recived # "none"
       /\ state' = Answered(state, recived)
       /\ t_min_no_connect' = IF state' = "Opened" THEN 0 ELSE t_min_no_connect
       /\ IF state' = "Opened" /\ recived = "ERROR"
          THEN SimRead /\ line' = Say(said, Reply("CIPSTATUS"))
          ELSE fl_read' = FALSE /\ line' = said /\ UNCHANGED <<recived, time_sleep_SIM>>
       /\ UNCHANGED <<fl_test_connect, fl_reject_resetSIM, nest, no_SimLoop, modem, rst>>

\* Faulty: the answer to the test is not taken for a sign of life.
SignsPacketOnly == {"RECEIVE"}

\* Lines that show the connection to be alive, and lines that end it.
Signs == {"RECEIVE", "SRV"}
Ends == {"DEACT", "NOSRV"}

\* A text has come in: a line when Opened, else a part of the answer.
TextRead(said, old, tested) ==
    LET t == Head(said) IN
    /\ line' = Tail(said)
    /\ \/ /\ state = "Opened" /\ t \in Ends
          /\ On_off_SIM
          /\ UNCHANGED recived
       \/ /\ ~(state = "Opened" /\ t \in Ends)
          /\ time_sleep_SIM' = TRUE /\ fl_read' = TRUE
          /\ recived' = IF state = "Opened" THEN "none"
                        ELSE IF old = "none" THEN t ELSE "long"
          /\ LET sign == state = "Opened" /\ t \in Signs IN
             /\ t_min_no_connect' = IF sign THEN 0 ELSE t_min_no_connect
             /\ fl_test_connect' = (tested /\ ~sign)
          /\ fl_reject_resetSIM' =
                (fl_reject_resetSIM \/ (state = "Opened" /\ t = "RECEIVE"))
          /\ UNCHANGED <<state, nest, no_SimLoop, rst>>
    /\ UNCHANGED modem

\* said: what the modem has sent once the questions of this pass are asked.
LoopRead(said, renewed, tested) ==
    LET old == IF renewed THEN "none" ELSE recived IN
    IF t_min_no_connect >= MAX_TIME_NO_CONNECT
    THEN On_off_SIM /\ recived' = old /\ line' = said /\ UNCHANGED modem
    ELSE IF ~time_sleep_SIM /\ ~renewed
    THEN AnswerComplete(said, tested)
    ELSE \/ said # <<>> /\ TextRead(said, old, tested)
         \/ /\ time_sleep_SIM' = TRUE /\ fl_read' = TRUE /\ recived' = old
            /\ fl_test_connect' = tested /\ line' = said
            /\ UNCHANGED <<state, t_min_no_connect, fl_reject_resetSIM, nest,
                           no_SimLoop, modem, rst>>

\* No answer is expected: the state's command, after a wait.
Start ==
    \/ /\ state = "Opened"
       /\ SimRead
       /\ UNCHANGED <<state, fl_test_connect, fl_reject_resetSIM, t_min_no_connect,
                      nest, no_SimLoop, device, rst>>
    \/ /\ state \in Starting
       /\ SleepSIM(state, stack)
       /\ UNCHANGED <<flags, device, rst>>

\* A minute before the modem would be switched off it is asked for its server.
Tests(read) ==
    /\ read /\ state = "Opened" /\ ~fl_test_connect
    /\ t_min_no_connect >= TIME_TEST_CONNECT

\* The keys' questions, then the test; none of them changes the modem.
Asked(read) ==
    (IF "a" \in keys THEN <<"AT_test">> ELSE <<>>)
    \o (IF read /\ "b" \in keys THEN <<"CIPSERVER?">> ELSE <<>>)
    \o (IF read /\ "c" \in keys THEN <<"CIPSTATUS">> ELSE <<>>)

SimLoop ==
    LET read == fl_read \/ "a" \in keys
        asked == Asked(read)
        all == asked \o (IF Tests(read) THEN <<"CIPSERVER?">> ELSE <<>>)
        said == IF modem.on THEN line \o [i \in DOMAIN all |-> Reply(all[i])] ELSE line
    IN /\ ~no_SimLoop
       /\ IF read THEN LoopRead(said, asked # <<>>, fl_test_connect \/ Tests(read)) ELSE Start
       /\ keys' = IF read THEN {} ELSE keys
       /\ UNCHANGED bounds

-----------------------------------------------------------------------------
(* The rest of main_loop, the console and the world.                       *)

\* SimLoop has nothing to do before the modem or a minute changes.
Quiet ==
    /\ ~no_SimLoop
    /\ \/ /\ state = "Opened" /\ fl_read /\ line = <<>> /\ keys = {}
          /\ ~Tests(TRUE) /\ t_min_no_connect < MAX_TIME_NO_CONNECT
       \/ state = "BAD_PIN" /\ ~fl_read /\ "a" \notin keys

\* The minute part of main_loop, in whatever wait it runs: a minute has room
\* for RoundsPerMinute commands or for all waits of one stack.
MinuteChanges ==
    /\ age = RoundsPerMinute \/ Quiet
    /\ age' = 0
    /\ t_min_no_connect' = IF t_min_no_connect < MAX_TIME_NO_CONNECT
                           THEN t_min_no_connect + 1 ELSE t_min_no_connect
    /\ \/ resets' = resets /\ UNCHANGED <<fl_reject_resetSIM, recived, wait, device>>
       \/ resets < MaxResets /\ resets' = resets + 1 /\ ResetSIM
    /\ UNCHANGED <<state, fl_read, fl_test_connect, keys, rst, faults>>

Fault == faults < MaxFaults /\ faults' = faults + 1

\* A client's packet arrives; one that comes while the server is being opened
\* spoils the answer that is waited for.
ClientSends ==
    /\ modem.on /\ modem.server /\ line = <<>>
    /\ line' = <<"RECEIVE">>
    /\ IF state = "Opened" THEN UNCHANGED faults ELSE Fault
    /\ UNCHANGED <<flags, wait, modem, age, resets, keys, rst>>

\* SetSimState, SendOnlyCommand, SendTextCommand: the operator goes on from a
\* state of his choice, or sends a command whatever the state is.
SetSimState(s) ==
    /\ Fault /\ stack = <<>>
    /\ state' = s
    /\ IF s \in Starting THEN SimWrite(s) ELSE UNCHANGED device
    /\ IF s = "BAD_PIN" THEN UNCHANGED <<time_sleep_SIM, fl_read, recived>> ELSE SimRead
    /\ UNCHANGED <<fl_test_connect, fl_reject_resetSIM, t_min_no_connect, nest,
                   no_SimLoop, age, resets, keys, rst>>

SendOnlyCommand(c) ==
    /\ Fault /\ stack = <<>>
    /\ SimWrite(c) /\ SimRead
    /\ UNCHANGED <<state, fl_test_connect, fl_reject_resetSIM, t_min_no_connect, nest,
                   no_SimLoop, age, resets, keys, rst>>

PressKey(k) ==
    /\ Fault /\ stack = <<>>
    /\ keys' = keys \cup {k}
    /\ UNCHANGED <<flags, wait, device, age, resets, rst>>

\* The console's '5': GPRS_RST by hand.
ToggleReset ==
    /\ Fault /\ stack = <<>>
    /\ IF rst THEN Release ELSE rst' = TRUE /\ UNCHANGED modem
    /\ UNCHANGED <<flags, wait, line, age, resets, keys>>

TextLost ==
    /\ Fault /\ line # <<>>
    /\ line' = Tail(line)
    /\ UNCHANGED <<flags, wait, modem, age, resets, keys, rst>>

\* An answer other than the one hoped for, or a text nobody asked for.
OtherText(t) ==
    /\ Fault /\ modem.on
    /\ line' = IF line = <<>> THEN <<t>> ELSE [line EXCEPT ![Len(line)] = t]
    /\ UNCHANGED <<flags, wait, modem, age, resets, keys, rst>>

\* The network closes the connection and the modem says so.
BearerLost ==
    /\ Fault /\ modem.on /\ modem.bearer
    /\ modem' = [modem EXCEPT !.bearer = FALSE, !.server = FALSE]
    /\ line' = Append(line, "DEACT")
    /\ UNCHANGED <<flags, wait, age, resets, keys, rst>>

ModemDies ==
    /\ Fault /\ modem.on
    /\ modem' = [PoweredUp EXCEPT !.on = FALSE]
    /\ UNCHANGED <<flags, wait, line, age, resets, keys, rst>>

Program == SimLoop \/ CommandSent \/ PulseEnds \/ Drain \/ ResetGoesOn \/ ResetEnds
Console ==
    \/ \E s \in States : SetSimState(s)
    \/ \E c \in Commands : SendOnlyCommand(c)
    \/ \E k \in {"a", "b", "c"} : PressKey(k)
    \/ ToggleReset
World ==
    \/ ClientSends \/ TextLost \/ BearerLost \/ ModemDies
    \/ \E t \in {"ERROR", "noise", "CREG0"} : OtherText(t)

Next == Program \/ TimerExpires \/ MinuteChanges \/ Console \/ World

Spec == Init /\ [][Next]_vars

\* main_loop runs, time passes; clients need not send and faults need not happen.
Fairness ==
    /\ WF_vars(SimLoop) /\ WF_vars(TimerExpires /\ UNCHANGED faults)
    /\ WF_vars(CommandSent) /\ WF_vars(PulseEnds)
    /\ WF_vars(Drain) /\ WF_vars(ResetGoesOn) /\ WF_vars(ResetEnds)
    /\ WF_vars(MinuteChanges /\ UNCHANGED resets)
FairSpec == Spec /\ Fairness

-----------------------------------------------------------------------------
\* Type invariant.
TypeOK ==
    /\ state \in States /\ recived \in Texts
    /\ {fl_read, no_SimLoop, time_sleep_SIM, fl_test_connect, fl_reject_resetSIM, rst}
            \subseteq BOOLEAN
    /\ t_min_no_connect \in 0 .. MAX_TIME_NO_CONNECT
    /\ keys \subseteq {"a", "b", "c"}
    /\ stack \in Seq(Waits) /\ nested \in Nat /\ line \in Seq(Texts)
    /\ modem \in [on : BOOLEAN, echo : BOOLEAN, unlocked : BOOLEAN, bearer : BOOLEAN,
                  server : BOOLEAN]
    /\ age \in 0 .. RoundsPerMinute
    /\ faults \in 0 .. MaxFaults /\ resets \in 0 .. MaxResets

\* While a loop of ResetSIM reads what the modem sends, however deep it was
\* called and whatever else waits, SimLoop does not read from the modem too.
OneReader == (\E i \in DOMAIN stack : stack[i] \in ResetWaits) => no_SimLoop

\* main_loop waits within a wait only for resets: each reset begun since it last
\* waited for nothing makes the call stack one wait deeper at most.
NestingBounded == Len(stack) <= 1 + nested

Serving == state = "Opened" /\ modem.on /\ modem.server

\* A server that works is never cut off for want of a connection: the question
\* asked in the fifth minute is answered in time.
NeverCutWhileServing ==
    [][faults' = 0 /\ Serving => state' = "Opened"]_vars

\* Whatever was lost, late or pressed on the console, the server is open in the
\* end; only a modem that refused the PIN is left alone.
ComesUp == <>[]Serving \/ <>[](state = "BAD_PIN")
=============================================================================
