---------------------------- MODULE GprsClients ----------------------------
(***************************************************************************)
(* What clients, the PC server and the lamps exchange through the open     *)
(* GPRS modem: the lines the modem writes (SIM900.c), the requests taken   *)
(* from them and their answers (TunDevice.c), and the connection number 7  *)
(* that the host opens by itself to tell a server its address.             *)
(*                                                                         *)
(* One buffer, ipv6_buf, holds a request while it comes in, its answer     *)
(* until the modem asks for it with '>', and packets of the lamps; one     *)
(* global, client_number, says whom the answer goes to.  The buffer is     *)
(* modelled by its two halves, a length by the message that has it.        *)
(* A pass of main_loop is SimLoop (server, read), then the message from    *)
(* the radio module, then eTunDeviceReadPacket.  A line of the modem may   *)
(* take several passes: buffer_SIM900 holds its beginning, and a command   *)
(* the host writes meanwhile from the same buffer spoils it.               *)
(***************************************************************************)
EXTENDS Integers, Sequences, FiniteSets

CONSTANTS
    Clients,        \* connections of the modem but number 7
    PCs,            \* addresses
    none,           \* no address, no message
    MaxOverlaps     \* bound: what comes while something else is under way

Server == "7"
Zero == "0"     \* what atoi makes of no number

Slots == Clients \cup {Server}

Kinds == {"get", "register", "ipv6", "answer", "ack", "lamp", "hello"}
Messages == [kind : Kinds, of : Slots]

ASSUME GprsClientsAssumption ==
    /\ MaxOverlaps \in Nat /\ IsFiniteSet(Clients) /\ Server \notin Clients /\ Zero \in Clients
    /\ none \notin PCs \cup Slots \cup Kinds \cup Messages

VARIABLES
    pc,                     \* where main_loop is
    Clients_sIP4addres, client_number,
    ipv6_buf,               \* <<first half, rest>>
    recived,                \* halves of a packet that have come
    buffer_SIM900,          \* the first text of line: not begun, read half, spoilt
    to_reciv, butes_reciv, to_send,
    data_to_server, to_open, to_close, to_close_client7,
    psServerIP, text_to_CIPSTART,
    modem,                  \* connections, number being dialled, prompt
    line,                   \* texts of the modem that have not been read
    radio,                  \* a lamp's packet for a client
    redialled,              \* ghost: number 7 was dialled while an earlier call was
                            \* under way; text_to_CIPSTART may name the wrong one
    asked,                  \* the client that waits for an answer
    delivered,              \* the last message the modem sent, and to whom,
                            \* while nothing has overlapped
    cut,                    \* a packet was cut short: lines may be misread
    lost,                   \* ghost: connections whose last line was spoilt
    overlaps                \* counted against MaxOverlaps

receiving == <<client_number, recived, to_reciv, butes_reciv, buffer_SIM900>>
call == <<text_to_CIPSTART, redialled>>
server == <<data_to_server, to_open, to_close, to_close_client7, psServerIP, call>>
ghosts == <<asked, delivered, cut, lost, overlaps>>
vars == <<pc, Clients_sIP4addres, receiving, ipv6_buf, to_send, server, modem, line, radio,
          ghosts>>

Nobody == [s \in Slots |-> none]

Init ==
    /\ pc = "server"
    /\ Clients_sIP4addres = Nobody /\ client_number \in Clients
    /\ ipv6_buf = <<none, none>> /\ recived = 0 /\ buffer_SIM900 = "empty"
    /\ to_reciv = none /\ butes_reciv = none /\ to_send = none
    /\ data_to_server = FALSE /\ to_open = FALSE /\ to_close = FALSE
    /\ to_close_client7 = FALSE
    /\ psServerIP \in PCs \cup {none} /\ text_to_CIPSTART = none /\ redialled = FALSE
    /\ modem = [conn |-> Nobody, dialing |-> none, prompt |-> none, junk |-> FALSE]
    /\ line = <<>> /\ radio = none
    /\ asked = none /\ delivered = none /\ cut = FALSE /\ lost = {} /\ overlaps = 0

-----------------------------------------------------------------------------
(* The modem: what a command does to it and what it writes back.           *)

Text(what, s, x) == [what |-> what, slot |-> s, arg |-> x]

\* While it waits for data it takes a command for data.
Takes(mo, c) ==
    IF mo.prompt # none THEN [mo EXCEPT !.junk = TRUE]
    ELSE CASE c.what = "CIPSEND" /\ mo.conn[c.slot] # none -> [mo EXCEPT !.prompt = c.slot]
           [] c.what = "CIPCLOSE" -> [mo EXCEPT !.conn[Server] = none]
           [] c.what = "CIPSTART" /\ mo.conn[Server] = none /\ mo.dialing = none ->
                [mo EXCEPT !.dialing = c.arg]
           [] OTHER -> mo

Writes(mo, c) ==
    IF mo.prompt # none THEN <<>>
    ELSE CASE c.what = "CIPSEND" /\ mo.conn[c.slot] # none -> <<Text("prompt", c.slot, none)>>
           [] c.what = "CIPCLOSE" /\ mo.conn[Server] # none -> <<Text("close ok", Server, none)>>
           [] OTHER -> <<>>

\* SimWrite of up to two commands in a row.
SimWrite(cs) ==
    CASE cs = <<>> -> UNCHANGED <<modem, line>>
      [] Len(cs) = 1 ->
            modem' = Takes(modem, cs[1]) /\ line' = line \o Writes(modem, cs[1])
      [] Len(cs) = 2 ->
            /\ modem' = Takes(Takes(modem, cs[1]), cs[2])
            /\ line' = line \o Writes(modem, cs[1]) \o Writes(Takes(modem, cs[1]), cs[2])

\* The beginning of a line that has come is overwritten, or forgotten.
Spoilt == IF buffer_SIM900 = "half" THEN "spoilt" ELSE buffer_SIM900

\* SendPacage: the message waits in the buffer for the modem's prompt; the
\* command for it is put together in buffer_SIM900.
SendPacage(m, s) ==
    /\ ipv6_buf' = <<m, m>>
    /\ to_send' = m.kind
    /\ buffer_SIM900' = Spoilt
    /\ SimWrite(<<Text("CIPSEND", s, none)>>)

-----------------------------------------------------------------------------
(* SimLoop: the connection to the server.                                  *)

\* Faulty: a message that waits for its prompt does not hold the server back.
ServerFreeAlways == psServerIP # none

ServerFree == psServerIP # none /\ to_send = none

\* A call to number 7 that has no answer yet, or one the host has not read.
CallPending ==
    modem.dialing # none \/ \E i \in 1 .. Len(line) : line[i].what = "connect ok"

\* The connection the host wants is not there yet: close what is, or dial.
Connect ==
    LET busy == Clients_sIP4addres[Server] # none IN
    /\ to_open' = ~busy
    /\ to_close' = busy
    /\ IF ~busy /\ ~to_open
       THEN text_to_CIPSTART' = psServerIP /\ redialled' = CallPending
       ELSE UNCHANGED call

\* Faulty: that number 7 was dialled once is remembered for ever.
ConnectedForgets == to_close' = FALSE /\ UNCHANGED to_open

Connected == to_open' = FALSE /\ to_close' = FALSE

ConnectCommands ==
    IF Clients_sIP4addres[Server] # none
    THEN IF to_close THEN <<>> ELSE <<Text("CIPCLOSE", Server, none)>>
    ELSE IF to_open THEN <<>> ELSE <<Text("CIPSTART", Server, psServerIP)>>

CloseCommands == IF to_close_client7 THEN <<Text("CIPCLOSE", Server, none)>> ELSE <<>>

\* SimRead after a command: what has come of a text or a packet is forgotten.
SimRead(commands) ==
    /\ recived' = IF commands = <<>> THEN recived ELSE 0
    /\ buffer_SIM900' = IF commands = <<>> THEN buffer_SIM900 ELSE Spoilt

ServerStep ==
    /\ pc = "server" /\ pc' = "read"
    /\ \/ /\ ~ServerFree
          /\ UNCHANGED <<server, recived, buffer_SIM900, client_number, ipv6_buf, to_send,
                         modem, line>>
       \/ /\ ServerFree /\ ~data_to_server
          /\ SimWrite(CloseCommands) /\ SimRead(CloseCommands)
          /\ to_close_client7' = FALSE
          /\ UNCHANGED <<data_to_server, to_open, to_close, psServerIP, call,
                         client_number, ipv6_buf, to_send>>
       \/ /\ ServerFree /\ data_to_server /\ psServerIP # Clients_sIP4addres[Server]
          /\ Connect
          /\ SimWrite(ConnectCommands \o CloseCommands)
          /\ SimRead(ConnectCommands \o CloseCommands)
          /\ to_close_client7' = FALSE
          /\ UNCHANGED <<data_to_server, psServerIP, client_number, ipv6_buf, to_send>>
       \/ /\ ServerFree /\ data_to_server /\ psServerIP = Clients_sIP4addres[Server]
          /\ Connected /\ data_to_server' = FALSE
          /\ client_number' = Server
          /\ LET hello == [kind |-> "hello", of |-> Server] IN
             /\ ipv6_buf' = <<hello, hello>> /\ to_send' = "hello"
             /\ SimWrite(<<Text("CIPSEND", Server, none)>> \o CloseCommands)
          /\ recived' = IF CloseCommands = <<>> THEN recived ELSE 0
          /\ buffer_SIM900' = Spoilt
          /\ to_close_client7' = FALSE
          /\ UNCHANGED <<psServerIP, call>>
    /\ UNCHANGED <<Clients_sIP4addres, to_reciv, butes_reciv, radio, ghosts>>

-----------------------------------------------------------------------------
(* LoopRead: one text.                                                     *)

\* A part of a client's packet goes to the buffer; the whole packet is left to
\* eTunDeviceReadPacket.
PacketPart(t) ==
    /\ t.what \in {"first", "rest"}
    /\ IF to_reciv = none
       THEN recived' = 0 /\ UNCHANGED <<ipv6_buf, to_reciv, butes_reciv>>
       ELSE /\ ipv6_buf' = [ipv6_buf EXCEPT ![recived + 1] = t.arg]
            /\ recived' = (recived + 1) % 2
            /\ to_reciv' = IF recived = 1 THEN none ELSE to_reciv
            /\ butes_reciv' = IF recived = 1 THEN to_reciv ELSE butes_reciv
    /\ UNCHANGED <<Clients_sIP4addres, client_number, to_send, to_close_client7, modem,
                   delivered, asked, cut, lost>>

\* Left over from a packet that was cut short: the text is taken for its rest.
TextSwallowed(t) ==
    /\ to_reciv # none /\ t.what \notin {"first", "rest"}
    /\ to_reciv' = none /\ butes_reciv' = to_reciv /\ recived' = 0
    /\ ipv6_buf' = <<none, none>>
    /\ cut' = TRUE
    /\ UNCHANGED <<Clients_sIP4addres, client_number, to_send, to_close_client7, modem,
                   delivered, asked, lost>>

\* '>': the message goes out as hexadecimal text and is ended by 0x1A.
Prompt(t) ==
    /\ t.what = "prompt"
    /\ IF to_send # none /\ modem.prompt # none
       THEN /\ delivered' =
                  IF overlaps > 0 THEN none
                  ELSE [to |-> modem.prompt, ip |-> modem.conn[modem.prompt],
                        size |-> to_send, buf |-> ipv6_buf, junk |-> modem.junk]
            /\ modem' = [modem EXCEPT !.prompt = none, !.junk = FALSE]
            /\ asked' = IF asked = modem.prompt THEN none ELSE asked
       ELSE UNCHANGED <<delivered, modem, asked>>
    /\ to_send' = none
    /\ UNCHANGED <<Clients_sIP4addres, client_number, ipv6_buf, recived, to_reciv, butes_reciv,
                   to_close_client7, cut, lost>>

\* Faulty: the answer to AT+CIPCLOSE is not looked for.
TableAfterNoClose(t) ==
    IF t.what \in {"remote", "status", "closed"}
    THEN [Clients_sIP4addres EXCEPT ![t.slot] = t.arg]
    ELSE IF t.what = "connect ok" THEN [Clients_sIP4addres EXCEPT ![Server] = text_to_CIPSTART]
    ELSE Clients_sIP4addres

\* The table of clients after a line of the modem.
TableAfter(t) ==
    CASE t.what \in {"remote", "status", "closed"} -> [Clients_sIP4addres EXCEPT ![t.slot] = t.arg]
      [] t.what = "connect ok" -> [Clients_sIP4addres EXCEPT ![Server] = text_to_CIPSTART]
      [] t.what = "close ok" -> [Clients_sIP4addres EXCEPT ![Server] = none]
      [] OTHER -> Clients_sIP4addres

\* The lines the table is made from.
Telling == {"remote", "status", "closed", "connect ok", "close ok"}

Line(t) ==
    /\ t.what \notin {"first", "rest", "prompt"} /\ buffer_SIM900 # "spoilt"
    /\ recived' = 0
    /\ Clients_sIP4addres' = TableAfter(t)
    /\ client_number' = IF t.what \in {"receive", "remote", "closed", "status"}
                        THEN t.slot ELSE client_number
    /\ to_reciv' = IF t.what = "receive" THEN t.arg ELSE to_reciv
    /\ to_close_client7' = (to_close_client7 \/ (t.what = "send ok" /\ t.slot = Server))
    /\ lost' = IF t.what \in Telling THEN lost \ {t.slot} ELSE lost
    /\ UNCHANGED <<ipv6_buf, butes_reciv, to_send, modem, delivered, asked, cut>>

\* The connection a line without its beginning may be taken to be about, and
\* what it may be taken to say: the numbers in a line of AT+CIPSTATUS are where
\* others were.
MistakenSlots(t) ==
    CASE t.what = "status" -> Slots
      [] t.what \in {"remote", "closed"} -> {Zero}
      [] OTHER -> {Server}
MistakenAddresses(t) ==
    IF t.what = "status" THEN PCs \cup {none} ELSE {TableAfter(t)[t.slot]}

\* A line that lost its beginning is no line the host knows, or a wrong one.
SpoiltLine(t) ==
    /\ t.what \notin {"first", "rest", "prompt"} /\ buffer_SIM900 = "spoilt"
    /\ recived' = 0
    /\ \/ /\ UNCHANGED <<Clients_sIP4addres, client_number>>
          /\ lost' = IF t.what \in Telling THEN lost \cup {t.slot} ELSE lost
       \/ /\ t.what \in Telling
          /\ \E s \in MistakenSlots(t), x \in MistakenAddresses(t) :
                /\ Clients_sIP4addres' = [Clients_sIP4addres EXCEPT ![s] = x]
                /\ client_number' = IF t.what \in {"connect ok", "close ok"}
                                    THEN client_number ELSE s
                /\ lost' = lost \cup {t.slot, s}
    /\ UNCHANGED <<ipv6_buf, butes_reciv, to_reciv, to_send, to_close_client7, modem, delivered,
                   asked, cut>>

\* What the modem writes once a message has been given to it.
Replies(t) ==
    IF t.what = "prompt" /\ to_send # none /\ modem.prompt # none
    THEN <<Text("send ok", modem.prompt, none)>> ELSE <<>>

ReadText ==
    /\ pc = "read" /\ line # <<>>
    /\ LET t == Head(line) IN
       /\ PacketPart(t) \/ TextSwallowed(t) \/ Prompt(t) \/ Line(t) \/ SpoiltLine(t)
       /\ line' = Tail(line) \o Replies(t)
    /\ buffer_SIM900' = "empty"
    /\ UNCHANGED <<pc, data_to_server, to_open, to_close, psServerIP, call, radio, overlaps>>

\* Nothing more has come for now; a line may have come in part.
ReadEnough ==
    /\ pc = "read" /\ pc' = "jennic"
    /\ \/ UNCHANGED buffer_SIM900
       \/ /\ line # <<>> /\ Head(line).what \notin {"first", "rest", "prompt"}
          /\ to_reciv = none
          /\ buffer_SIM900 = "empty" /\ buffer_SIM900' = "half"
    /\ UNCHANGED <<Clients_sIP4addres, client_number, recived, to_reciv, butes_reciv, ipv6_buf,
                   to_send, server, modem, line, radio, ghosts>>

-----------------------------------------------------------------------------
(* The rest of main_loop.                                                  *)

\* eTunDeviceWritePacket: a lamp's packet goes to whoever was last heard.
JennicPacket ==
    /\ pc = "jennic" /\ pc' = "tun"
    /\ \/ /\ radio # none /\ SendPacage(radio, client_number)
          /\ radio' = none
       \/ UNCHANGED <<ipv6_buf, buffer_SIM900, to_send, modem, line, radio>>
    /\ UNCHANGED <<Clients_sIP4addres, client_number, recived, to_reciv, butes_reciv, server,
                   ghosts>>

Request == ipv6_buf[1]

Answer(kind) == [kind |-> kind, of |-> Request.of]

\* The length in the request is not that of what has come: it is dropped.
BadLength ==
    \/ ipv6_buf[1] # ipv6_buf[2]
    \/ butes_reciv # IF ipv6_buf[1] = none THEN none ELSE ipv6_buf[1].kind

eTunDeviceReadPacket ==
    /\ pc = "tun" /\ pc' = "server"
    /\ butes_reciv' = none
    /\ \/ /\ butes_reciv = none \/ BadLength
          /\ UNCHANGED <<ipv6_buf, buffer_SIM900, to_send, modem, line, radio, psServerIP,
                         data_to_server>>
       \/ /\ butes_reciv = "get" /\ ~BadLength
          /\ SendPacage(Answer("answer"), client_number)
          /\ UNCHANGED <<radio, psServerIP, data_to_server>>
       \/ /\ butes_reciv = "register" /\ ~BadLength
          /\ psServerIP' = Clients_sIP4addres[client_number]
          /\ data_to_server' = TRUE
          /\ SendPacage(Answer("ack"), client_number)
          /\ UNCHANGED radio
       \/ /\ butes_reciv = "ipv6" /\ ~BadLength
          /\ radio' = Answer("lamp")
          /\ UNCHANGED <<ipv6_buf, buffer_SIM900, to_send, modem, line, psServerIP,
                         data_to_server>>
    /\ UNCHANGED <<Clients_sIP4addres, client_number, recived, to_reciv, to_open, to_close,
                   to_close_client7, call, ghosts>>

-----------------------------------------------------------------------------
(* The world.                                                              *)

Busy ==
    \/ asked # none \/ radio # none \/ line # <<>>
    \/ to_send # none \/ butes_reciv # none \/ to_reciv # none
    \/ data_to_server \/ (to_close_client7 /\ psServerIP # none)
    \/ modem.dialing # none \/ modem.prompt # none

\* What comes while something is under way is counted; what was delivered is
\* kept until then.
Comes(disturbs) ==
    IF disturbs THEN overlaps < MaxOverlaps /\ overlaps' = overlaps + 1 /\ delivered' = none
    ELSE UNCHANGED <<overlaps, delivered>>

Arrives(texts) == line' = line \o texts

\* AT+CIPSTATUS: a line for every connection, number 7 is the last.
StatusArrives ==
    \E order \in [1 .. Cardinality(Slots) -> Slots] :
        /\ \A s \in Slots : \E i \in DOMAIN order : order[i] = s
        /\ order[Cardinality(Slots)] = Server
        /\ Arrives([i \in DOMAIN order |-> Text("status", order[i], modem.conn[order[i]])])

ClientOpens(s, p) ==
    /\ modem.conn[s] = none /\ ~(s = Server /\ modem.dialing # none)
    /\ Comes(Busy)
    /\ modem' = [modem EXCEPT !.conn[s] = p]
    /\ Arrives(<<Text("remote", s, p)>>)
    /\ UNCHANGED <<pc, Clients_sIP4addres, receiving, ipv6_buf, to_send, server, radio, asked,
                   cut, lost>>

ClientCloses(s) ==
    /\ modem.conn[s] # none /\ modem.prompt # s
    /\ Comes(Busy)
    /\ modem' = [modem EXCEPT !.conn[s] = none]
    /\ Arrives(<<Text("closed", s, none)>>)
    /\ UNCHANGED <<pc, Clients_sIP4addres, receiving, ipv6_buf, to_send, server, radio, asked,
                   cut, lost>>

\* A client that holds number 7 is closed once it has been answered.
ClientSends(s, k) ==
    /\ modem.conn[s] # none
    /\ Comes(Busy \/ s = Server)
    /\ LET m == [kind |-> k, of |-> s] IN
       Arrives(<<Text("receive", s, k), Text("first", s, m), Text("rest", s, m)>>)
    /\ asked' = s
    /\ UNCHANGED <<pc, Clients_sIP4addres, receiving, ipv6_buf, to_send, server, modem, radio,
                   cut, lost>>

\* AT+CIPSTART has an answer.
Dialled ==
    /\ modem.dialing # none
    /\ \/ /\ modem' = [modem EXCEPT !.dialing = none, !.conn[Server] = modem.dialing]
          /\ Arrives(<<Text("connect ok", Server, none)>>)
          /\ UNCHANGED <<overlaps, delivered>>
       \/ /\ modem' = [modem EXCEPT !.dialing = none]
          /\ Arrives(<<Text("connect fail", Server, none)>>)
          /\ Comes(TRUE)
    /\ UNCHANGED <<pc, Clients_sIP4addres, receiving, ipv6_buf, to_send, server, radio, asked,
                   cut, lost>>

\* A lamp sends of its own accord.
LampSends(s) ==
    /\ radio = none /\ Comes(TRUE)
    /\ radio' = [kind |-> "lamp", of |-> s]
    /\ UNCHANGED <<pc, Clients_sIP4addres, receiving, ipv6_buf, to_send, server, modem, line,
                   asked, cut, lost>>

\* The modem was switched off and on and its server is open again (Sim900).
Restarted ==
    /\ pc = "server" /\ Comes(Busy)
    /\ Clients_sIP4addres' = Nobody /\ lost' = {}
    /\ recived' = 0 /\ buffer_SIM900' = "empty"
    /\ modem' = [conn |-> Nobody, dialing |-> none, prompt |-> none, junk |-> FALSE]
    /\ line' = <<>>
    /\ UNCHANGED <<pc, client_number, to_reciv, butes_reciv, ipv6_buf, to_send, server, radio,
                   asked, cut>>

\* The server turned out to be open: the driver forgets its clients and asks.
StatusAsked ==
    /\ pc = "server" /\ line = <<>> /\ Comes(Busy)
    /\ Clients_sIP4addres' = Nobody /\ lost' = {} /\ recived' = 0
    /\ StatusArrives
    /\ UNCHANGED <<pc, client_number, to_reciv, butes_reciv, buffer_SIM900, ipv6_buf, to_send,
                   server, modem, radio, asked, cut>>

\* A command that leaves the connections alone: of the keys a and b of the
\* console, after which the host reads anew, or the test of a silent modem.
OtherCommand ==
    LET command == Text("AT", Server, none) IN
    /\ pc = "read"
    /\ modem' = Takes(modem, command)
    /\ \/ Comes(modem.prompt # none \/ recived # 0 \/ buffer_SIM900 # "empty")
          /\ SimRead(<<command>>)
       \/ Comes(modem.prompt # none) /\ UNCHANGED <<recived, buffer_SIM900>>
    /\ UNCHANGED <<pc, Clients_sIP4addres, client_number, to_reciv, butes_reciv, ipv6_buf,
                   to_send, server, line, radio, asked, cut, lost>>

\* Key c: the host asks for the state of the connections and keeps its table.
StatusKey ==
    LET command == Text("AT", Server, none) IN
    /\ pc = "read" /\ Comes(Busy)
    /\ modem' = Takes(modem, command)
    /\ IF modem.prompt = none THEN StatusArrives ELSE UNCHANGED line
    /\ SimRead(<<command>>)
    /\ UNCHANGED <<pc, Clients_sIP4addres, client_number, to_reciv, butes_reciv, ipv6_buf,
                   to_send, server, radio, asked, cut, lost>>

Program == ServerStep \/ ReadText \/ ReadEnough \/ JennicPacket \/ eTunDeviceReadPacket
World ==
    \/ \E s \in Slots, p \in PCs : ClientOpens(s, p)
    \/ \E s \in Slots : ClientCloses(s) \/ LampSends(s)
    \/ \E s \in Slots, k \in {"get", "register", "ipv6"} : ClientSends(s, k)
    \/ Dialled \/ Restarted \/ StatusAsked \/ OtherCommand \/ StatusKey

Next == Program \/ World

Spec == Init /\ [][Next]_vars

\* main_loop goes round, what the modem writes is read, a number is answered.
Fairness ==
    /\ WF_vars(ServerStep) /\ WF_vars(ReadEnough) /\ SF_vars(ReadText)
    /\ WF_vars(JennicPacket) /\ WF_vars(eTunDeviceReadPacket) /\ WF_vars(Dialled)
FairSpec == Spec /\ Fairness

-----------------------------------------------------------------------------
\* Type invariant.
TypeOK ==
    /\ pc \in {"server", "read", "jennic", "tun"}
    /\ Clients_sIP4addres \in [Slots -> PCs \cup {none}]
    /\ client_number \in Slots
    /\ ipv6_buf \in Seq(Messages \cup {none}) /\ Len(ipv6_buf) = 2
    /\ recived \in 0 .. 1 /\ buffer_SIM900 \in {"empty", "half", "spoilt"}
    /\ {to_reciv, butes_reciv, to_send} \subseteq Kinds \cup {none}
    /\ {data_to_server, to_open, to_close, to_close_client7, redialled, cut} \subseteq BOOLEAN
    /\ {psServerIP, text_to_CIPSTART} \subseteq PCs \cup {none}
    /\ radio \in Messages \cup {none} /\ asked \in Slots \cup {none} /\ lost \subseteq Slots
    /\ overlaps \in 0 .. MaxOverlaps

\* Whatever order connections open, close, are dialled, and the modem is asked
\* and restarted in, the host's table names the clients that are connected, as
\* soon as it has read what the modem wrote (and no packet was cut short).
\* A connection's entry may be wrong only from a line that was spoilt, about it
\* or taken to be, to the next whole line about it; and the address of a call
\* that was dialled into another.
TableIsTrue ==
    line = <<>> /\ ~cut => \A s \in Slots \ lost :
        \/ Clients_sIP4addres[s] = modem.conn[s]
        \/ s = Server /\ redialled /\ none \notin {Clients_sIP4addres[s], modem.conn[s]}

\* As long as nothing overlaps, what goes out is one whole message of its own
\* length, with no command in it, to the connection it is meant for.
WholeToAsker ==
    overlaps = 0 /\ delivered # none =>
        /\ ~delivered.junk
        /\ delivered.buf[1] = delivered.buf[2]
        /\ delivered.buf[1].kind = delivered.size
        /\ delivered.buf[1].of = delivered.to

\* A client that names itself the server is called back: number 7 is freed,
\* dialled, told, and that at the address of that client.
ServerTold ==
    data_to_server ~>
        \/ overlaps > 0
        \/ /\ ~data_to_server /\ delivered # none
           /\ delivered.size = "hello" /\ delivered.ip = psServerIP
=============================================================================
