------------------------------ MODULE LampTable ------------------------------
(***************************************************************************)
(* The table of lamps the host keeps: clients send it in several packets,  *)
(* each of them at any time, a scan of the radio router's network table    *)
(* finds out which lamps are connected, working hours are added while the  *)
(* relay feeds the lamps, and lamps outside the table are refused and      *)
(* remembered (sub.c, TunDevice.c, JennicModule.c).                        *)
(*                                                                         *)
(* Rows are counted from 1, entries of the router's table from 0 as in the *)
(* requests.  The table lies in battery-backed memory; the relay, the scan *)
(* and the clock time_1m start anew when power returns.  The number of     *)
(* rows may be left above RouteTableEntries by a power failure: what the   *)
(* loops over it then do to the memory behind the table is left out.       *)
(***************************************************************************)
EXTENDS Integers, Sequences, FiniteSets, SequencesExt

CONSTANTS
    Lamps, NoLamp,      \* MAC addresses; NoLamp is the empty address
    RouteTableEntries,  \* ROUTE_TABLE_ENTRIES
    Lists,              \* the tables clients may send
    PacketRows,         \* addresses in one SEND_LAMPS_MAC_TABLE packet
    Networks,           \* contents the router's network table may have
    Batch,              \* entries the router puts into one answer
    MaxReject,          \* MAX_ACCESS_REJECT_TABLE (16)
    MinutesPerHour,     \* 60
    BadTimeWork,        \* BAD_TIME_WORK (50)
    ByteValues,         \* 2^8: a number of rows is stored in two bytes
    MinuteValues,       \* 2^32, the values of time_1m
    StartTime, ScanTime,\* START_TIME_NETWROR_ROUTER, TIME_NETWROR_ROUTER
    MaxMinutes,         \* bound: minutes that pass
    MaxInFlight,        \* bound: requests and answers on their way
    MaxEvents           \* bound: disturbances, see the variable events

Rows == 1 .. RouteTableEntries

ASSUME LampTableAssumption ==
    /\ {RouteTableEntries, PacketRows, Batch, MaxReject, MinutesPerHour,
        BadTimeWork, ByteValues, StartTime, ScanTime, MaxInFlight} \subseteq Nat \ {0}
    /\ NoLamp \notin Lamps
    /\ Lists \subseteq Seq(Lamps) \ {<<>>} /\ Networks \subseteq Seq(Lamps)
    /\ MaxMinutes \in Nat /\ MaxEvents \in Nat
    /\ MinuteValues \in Nat /\ MinuteValues > 2 * (MaxMinutes + BadTimeWork)

VARIABLES
    table,              \* psLampTable: address, minutes and hours of each row
    u16_LampsInTable, u16_LampsConnected,
    on_relay, time_1m,
    u16Lamps,           \* lamps seen in this scan
    u16FirstTableEntry,
    u16TimeNetworkRouter,
    sRejectTable,
    running,            \* eModuleState is RUNNING: requests go out
    network,            \* the router's network table
    requests, answers,  \* messages between the host and the router
    events,             \* switchings, faults and client actions so far
    filled,             \* ghost: the list the first rows were filled from, its
                        \* packets in order and no other between, and how many rows
    cut,                \* ghost: power failed in the last packet
    rejected,           \* ghost: lamps refused since the table was cleared
    fedMinutes,         \* ghost: minutes each row may claim
    foreign             \* ghost: rows that may hold times of another lamp

tableVars == <<table, u16_LampsInTable, u16_LampsConnected>>
scanVars == <<u16Lamps, u16FirstTableEntry, u16TimeNetworkRouter>>
airVars == <<running, network, requests, answers>>
clientVars == <<filled, cut>>
rejectVars == <<sRejectTable, rejected>>
hourVars == <<on_relay, time_1m, fedMinutes, foreign>>
vars == <<tableVars, scanVars, airVars, clientVars, rejectVars, hourVars, events>>

EmptyRow == [mac |-> NoLamp, see |-> 0, old |-> 0, minutes |-> 0, hours |-> 0]
NoList == [list |-> <<>>, sent |-> 0]

\* The first entries of a client's list that fit into the table.
Fitting(list) == SubSeq(list, 1, IF Len(list) < RouteTableEntries
                                 THEN Len(list) ELSE RouteTableEntries)

Init ==
    /\ \E list \in Lists \cup {<<>>} :
          /\ filled = [list |-> list, sent |-> Len(list)]
          /\ table = [r \in Rows |-> IF r <= Len(list)
                                     THEN [EmptyRow EXCEPT !.mac = list[r]] ELSE EmptyRow]
          /\ u16_LampsInTable = Len(Fitting(list))
    /\ u16_LampsConnected = 0 /\ cut = FALSE
    /\ on_relay = FALSE /\ time_1m = 0
    /\ u16Lamps = 0 /\ u16FirstTableEntry = 0 /\ u16TimeNetworkRouter = StartTime
    /\ sRejectTable = <<>> /\ rejected = {}
    /\ running = TRUE /\ network \in Networks
    /\ requests = <<>> /\ answers = <<>>
    /\ events = 0
    /\ fedMinutes = [r \in Rows |-> 0] /\ foreign = Rows

InTable(r) == r <= u16_LampsInTable

Event == events < MaxEvents /\ events' = events + 1

-----------------------------------------------------------------------------
\* The relay and the working hours.

AddWorkTime(row) ==
    LET u32t == (time_1m - row.old) % MinuteValues
        minutes == row.minutes + u32t
    IN  IF u32t >= BadTimeWork THEN row
        ELSE IF minutes <= MinutesPerHour THEN [row EXCEPT !.minutes = minutes]
        ELSE [row EXCEPT !.minutes = minutes % MinutesPerHour,
                         !.hours = @ + minutes \div MinutesPerHour]

Claimed(row) == row.hours * MinutesPerHour + row.minutes

OnRelay ==
    /\ Event
    /\ on_relay' = TRUE
    /\ IF on_relay
       THEN UNCHANGED <<table, u16Lamps, u16TimeNetworkRouter, fedMinutes, foreign>>
       ELSE /\ table' = [r \in Rows |-> IF InTable(r)
                              THEN [table[r] EXCEPT !.old = time_1m, !.see = 0]
                              ELSE table[r]]
            /\ u16Lamps' = 0 /\ u16TimeNetworkRouter' = StartTime
            /\ fedMinutes' = [r \in Rows |-> IF InTable(r) /\ r \in foreign
                                    THEN Claimed(table[r]) ELSE fedMinutes[r]]
            /\ foreign' = {r \in foreign : ~InTable(r)}
    /\ sRejectTable' = <<>> /\ rejected' = {}
    /\ UNCHANGED <<u16_LampsInTable, u16_LampsConnected, u16FirstTableEntry,
                   time_1m, airVars, clientVars>>

OffRelay ==
    /\ Event
    /\ on_relay' = FALSE
    /\ table' = [r \in Rows |-> IF on_relay /\ InTable(r)
                                THEN AddWorkTime(table[r]) ELSE table[r]]
    /\ UNCHANGED <<u16_LampsInTable, u16_LampsConnected, scanVars, airVars,
                   clientVars, rejectVars, time_1m, fedMinutes, foreign>>

\* main_loop sees the minute change.
Minute ==
    /\ time_1m < MaxMinutes
    /\ time_1m' = time_1m + 1
    /\ fedMinutes' = [r \in Rows |-> fedMinutes[r] + IF on_relay THEN 1 ELSE 0]
    /\ UNCHANGED <<tableVars, scanVars, airVars, clientVars, rejectVars,
                   on_relay, foreign, events>>

-----------------------------------------------------------------------------
\* The scan of the router's network table.

InFlight == Len(requests) + Len(answers)

\* GetJenNetNetworkRouter: the requests on their way after one for an entry.
Requesting(entry) == IF running THEN Append(requests, entry) ELSE requests

\* main_loop sees the second change.  Once all is quiet, an answer takes less
\* than the minutes between two scans.
Second ==
    /\ IF u16TimeNetworkRouter > 1
       THEN /\ u16TimeNetworkRouter' = u16TimeNetworkRouter - 1
            /\ UNCHANGED <<u16FirstTableEntry, requests>>
       ELSE /\ InFlight < IF events = MaxEvents THEN 1 ELSE MaxInFlight
            /\ u16TimeNetworkRouter' = ScanTime
            /\ IF on_relay
               THEN u16FirstTableEntry' = 0 /\ requests' = Requesting(0)
               ELSE UNCHANGED <<u16FirstTableEntry, requests>>
    /\ UNCHANGED <<tableVars, u16Lamps, running, network, answers, clientVars,
                   rejectVars, hourVars, events>>

\* A key of the console starts a scan at once (TestNetworkRouterTable).
ScanByHand ==
    /\ Event /\ InFlight < MaxInFlight
    /\ u16FirstTableEntry' = 0 /\ requests' = Requesting(0)
    /\ UNCHANGED <<tableVars, u16Lamps, u16TimeNetworkRouter, running, network,
                   answers, clientVars, rejectVars, hourVars>>

\* The first row with an address stands for the lamp.
First(r) == InTable(r) /\ \A q \in 1 .. r - 1 : table[q].mac # table[r].mac

\* The rows the entries of an answer show to be connected.
SeenRows(entries) == {r \in Rows : First(r) /\ table[r].mac \in Range(entries)}

\* An entry seen twice adds its minutes once: the row's clock is set anew.
SeeRow(row) == [AddWorkTime(row) EXCEPT !.old = time_1m, !.see = 1]

\* Faulty: the flags of the scan that ends are kept.
ScanEndsKeeping ==
    /\ u16FirstTableEntry' = 0
    /\ u16_LampsConnected' = u16Lamps /\ u16Lamps' = 0
    /\ UNCHANGED <<table, requests>>

\* An answer without entries ends the scan.
ScanEnds ==
    /\ table' = [r \in Rows |-> IF InTable(r) THEN [table[r] EXCEPT !.see = 0]
                                ELSE table[r]]
    /\ u16FirstTableEntry' = 0
    /\ u16_LampsConnected' = u16Lamps /\ u16Lamps' = 0
    /\ UNCHANGED requests

ScanGoesOn(entries) ==
    /\ table' = [r \in Rows |-> IF r \in SeenRows(entries) THEN SeeRow(table[r])
                                ELSE table[r]]
    /\ u16Lamps' = u16Lamps + Cardinality({r \in SeenRows(entries) : table[r].see = 0})
    /\ u16FirstTableEntry' = u16FirstTableEntry + Len(entries)
    /\ requests' = Requesting(u16FirstTableEntry')
    /\ UNCHANGED u16_LampsConnected

\* Faulty: an answer that comes after the relay went off is processed.
ProcessAlways(entries) ==
    IF entries = <<>> THEN ScanEnds ELSE ScanGoesOn(entries)

ProcesNetworkRouterTable(entries) ==
    IF ~on_relay
    THEN UNCHANGED <<table, u16_LampsConnected, u16Lamps, u16FirstTableEntry, requests>>
    ELSE IF entries = <<>> THEN ScanEnds ELSE ScanGoesOn(entries)

HandleAnswer ==
    /\ answers # <<>>
    /\ answers' = Tail(answers)
    /\ ProcesNetworkRouterTable(Head(answers))
    /\ UNCHANGED <<u16_LampsInTable, u16TimeNetworkRouter, running, network,
                   clientVars, rejectVars, hourVars, events>>

-----------------------------------------------------------------------------
\* The radio router and the disturbances.

RouterAnswers ==
    /\ requests # <<>>
    /\ requests' = Tail(requests)
    /\ answers' = Append(answers, SubSeq(network, Head(requests) + 1,
                      IF Head(requests) + Batch < Len(network)
                      THEN Head(requests) + Batch ELSE Len(network)))
    /\ UNCHANGED <<tableVars, scanVars, running, network, clientVars, rejectVars,
                   hourVars, events>>

LoseMessage ==
    /\ Event
    /\ \/ requests # <<>> /\ requests' = Tail(requests) /\ UNCHANGED answers
       \/ answers # <<>> /\ answers' = Tail(answers) /\ UNCHANGED requests
    /\ UNCHANGED <<tableVars, scanVars, running, network, clientVars, rejectVars,
                   hourVars>>

ChangeNetwork ==
    /\ Event
    /\ network' \in Networks \ {network}
    /\ UNCHANGED <<tableVars, scanVars, running, requests, answers, clientVars,
                   rejectVars, hourVars>>

\* The supervisor leaves RUNNING or comes back to it.
ChangeRunning ==
    /\ Event
    /\ running' = ~running
    /\ UNCHANGED <<tableVars, scanVars, network, requests, answers, clientVars,
                   rejectVars, hourVars>>

\* What power-on resets: everything outside the battery-backed memory.
Restart ==
    /\ on_relay' = FALSE /\ time_1m' = 0
    /\ u16Lamps' = 0 /\ u16FirstTableEntry' = 0 /\ u16TimeNetworkRouter' = StartTime
    /\ sRejectTable' = <<>> /\ rejected' = {}
    /\ requests' = <<>> /\ answers' = <<>>

PowerFails ==
    /\ Event /\ Restart
    /\ UNCHANGED <<tableVars, running, network, clientVars, fedMinutes, foreign>>

-----------------------------------------------------------------------------
\* Clients: the table in several packets, and working hours by hand.

\* Rows first+1 .. last of the list stored over the table.
Stored(list, first, last) ==
    [r \in Rows |-> IF r \in first + 1 .. last
                    THEN [table[r] EXCEPT !.mac = list[r], !.hours = 0] ELSE table[r]]

\* The last row of the list in a packet that begins with entry first.
LastOf(list, first) ==
    IF first + PacketRows >= Len(list) THEN Len(list) ELSE first + PacketRows

\* What the first rows hold once rows first+1 .. last came from the list: a
\* packet goes on with the list they hold or begins a list; any other mixes two.
Filled(list, first, last) ==
    IF list = filled.list /\ first <= filled.sent
    THEN [list |-> list, sent |-> IF last > filled.sent THEN last ELSE filled.sent]
    ELSE IF first = 0 THEN [list |-> list, sent |-> last]
    ELSE NoList

\* Faulty: the number of rows stays what it was until the last packet.
AfterPacketKept(list, last) ==
    u16_LampsInTable' = IF last = Len(list) THEN Len(Fitting(list)) ELSE u16_LampsInTable

AfterPacket(list, last) ==
    u16_LampsInTable' = IF last < Len(list) THEN 0
                        ELSE IF last > RouteTableEntries THEN RouteTableEntries ELSE last

\* A client's next packet is no event of its own; a client that begins, repeats
\* a packet whose answer it missed, or sends another list meanwhile is one.
Sends(list, first) ==
    IF list = filled.list /\ first = filled.sent THEN UNCHANGED events ELSE Event

\* SEND_LAMPS_MAC_TABLE, of any client and any part of its list.
TablePacket ==
    /\ \E list \in Lists : \E first \in 0 .. Len(list) - 1 :
          /\ Sends(list, first)
          /\ AfterPacket(list, LastOf(list, first))
          /\ table' = Stored(list, first, LastOf(list, first))
          /\ filled' = Filled(list, first, LastOf(list, first))
    /\ u16_LampsConnected' = 0 /\ cut' = FALSE
    /\ foreign' = Rows
    /\ UNCHANGED <<scanVars, airVars, rejectVars, on_relay, time_1m, fedMinutes>>

\* What is found of a number when power fails while it is stored over another.
HalfStored(old, new) ==
    {old, new, ByteValues * (old \div ByteValues) + (new % ByteValues),
               ByteValues * (new \div ByteValues) + (old % ByteValues)}

\* Power fails while the two numbers of rows are being set to 0.
CutAtStart ==
    /\ u16_LampsInTable' \in HalfStored(u16_LampsInTable, 0)
    /\ u16_LampsConnected' \in HalfStored(u16_LampsConnected, 0)
    /\ UNCHANGED <<table, filled>>

\* Power fails while the rows are stored, after row last or inside the one that
\* follows: its address is then no lamp's.
CutInRows(list, first) ==
    /\ u16_LampsInTable' = 0 /\ u16_LampsConnected' = 0
    /\ \E last \in first .. LastOf(list, first) :
          /\ filled' = [Filled(list, first, last) EXCEPT
                           !.sent = IF @ > last THEN last ELSE @]
          /\ \/ table' = Stored(list, first, last)
             \/ /\ last + 1 \in Rows /\ last < LastOf(list, first)
                /\ table' = [Stored(list, first, last) EXCEPT ![last + 1].mac = NoLamp]

\* Power fails while the number of rows is stored, or before it is cut down to
\* the rows there are, or while it is.
CutAtEnd(list, first) ==
    /\ LastOf(list, first) = Len(list)
    /\ \/ u16_LampsInTable' \in HalfStored(0, Len(list))
       \/ /\ Len(list) > RouteTableEntries
          /\ u16_LampsInTable' \in HalfStored(Len(list), RouteTableEntries)
    /\ u16_LampsConnected' = 0
    /\ table' = Stored(list, first, Len(list))
    /\ filled' = Filled(list, first, Len(list))

PowerFailsInPacket ==
    /\ Event /\ Restart
    /\ \E list \in Lists : \E first \in 0 .. Len(list) - 1 :
          CutAtStart \/ CutInRows(list, first) \/ CutAtEnd(list, first)
    /\ cut' = TRUE
    /\ foreign' = Rows
    /\ UNCHANGED <<running, network, fedMinutes>>

\* SET_WORK_HOURS
SetWorkHours ==
    /\ Event
    /\ \E r \in Rows :
          /\ First(r)
          /\ table' = [table EXCEPT ![r].hours = 1]
          /\ fedMinutes' = [fedMinutes EXCEPT ![r] =
                               @ + (1 - table[r].hours) * MinutesPerHour]
    /\ UNCHANGED <<u16_LampsInTable, u16_LampsConnected, scanVars, airVars,
                   clientVars, rejectVars, on_relay, time_1m, foreign>>

-----------------------------------------------------------------------------
\* Faulty: a lamp that is listed already takes another place.
ListedAgain(mac) ==
    IF Len(sRejectTable) < MaxReject THEN Append(sRejectTable, mac) ELSE sRejectTable

\* The table of refused lamps fills from its start and has no holes.
Listed(mac) ==
    IF Len(sRejectTable) = MaxReject \/ mac \in Range(sRejectTable)
    THEN sRejectTable ELSE Append(sRejectTable, mac)

\* A lamp asks to join: a RADIUS request, refused for lamps outside the table.
AccessRequest ==
    /\ Event
    /\ \E mac \in Lamps :
          /\ \A r \in Rows : InTable(r) => table[r].mac # mac
          /\ sRejectTable' = Listed(mac) /\ rejected' = rejected \cup {mac}
    /\ UNCHANGED <<tableVars, scanVars, airVars, clientVars, hourVars>>

Next ==
    \/ OnRelay \/ OffRelay \/ Minute \/ Second \/ ScanByHand \/ HandleAnswer
    \/ RouterAnswers \/ LoseMessage \/ ChangeNetwork \/ ChangeRunning
    \/ PowerFails \/ TablePacket \/ PowerFailsInPacket
    \/ SetWorkHours \/ AccessRequest

Spec == Init /\ [][Next]_vars
\* main_loop runs forever, the clock moves, and the router answers.
FairSpec == Spec /\ WF_vars(Second) /\ WF_vars(HandleAnswer) /\ WF_vars(RouterAnswers)

-----------------------------------------------------------------------------
Row == [mac : Lamps \cup {NoLamp}, see : 0 .. 1, old : 0 .. MaxMinutes,
        minutes : 0 .. MinutesPerHour, hours : Nat]

\* Type invariant.
TypeOK ==
    /\ table \in [Rows -> Row]
    /\ u16_LampsInTable \in Nat /\ u16_LampsConnected \in Nat /\ u16Lamps \in Nat
    /\ on_relay \in BOOLEAN /\ running \in BOOLEAN /\ time_1m \in 0 .. MaxMinutes
    /\ u16FirstTableEntry \in Nat
    /\ u16TimeNetworkRouter \in 1 .. StartTime \cup 1 .. ScanTime
    /\ sRejectTable \in Seq(Lamps) /\ Len(sRejectTable) <= MaxReject
    /\ network \in Networks /\ requests \in Seq(Nat) /\ answers \in Seq(Seq(Lamps))
    /\ filled \in [list : Lists \cup {<<>>}, sent : Nat] /\ cut \in BOOLEAN
    /\ events \in 0 .. MaxEvents /\ rejected \subseteq Lamps
    /\ fedMinutes \in [Rows -> Int] /\ foreign \subseteq Rows

\* As long as the rows came from one client's list, its packets in order and no
\* other between them, the rows the host works with are that list from its
\* start, and all of it that fits unless power failed in the last packet:
\* whatever packets were repeated, given up or cut off before.
TableWhole ==
    u16_LampsInTable > 0 /\ filled.list \in Lists =>
        /\ \A r \in Rows : InTable(r) => /\ r <= Len(filled.list)
                                         /\ table[r].mac = filled.list[r]
        /\ ~cut => u16_LampsInTable = Len(Fitting(filled.list))

\* A row is never credited more minutes than the relay fed its lamp: not for
\* answers that come after the relay went off, nor for the time power was off,
\* nor twice for the same minutes.  It claims a lamp's row from the first time
\* the relay goes on with the lamp in the table.
HoursEarned ==
    \A r \in Rows \ foreign : Claimed(table[r]) <= fedMinutes[r]

\* Every refused lamp is in the list clients ask for, as long as there is room.
RejectsListed ==
    Cardinality(rejected) <= MaxReject => Range(sRejectTable) = rejected

Present == {table[r].mac : r \in {q \in Rows : InTable(q)}} \cap Range(network)

\* Once the network, the table and the relay stay as they are, the number of
\* connected lamps the host reports becomes right and stays right, whatever was
\* lost, repeated or changed in the scans before.
ConnectedSettles ==
    <>[](events = MaxEvents /\ on_relay /\ running)
        => <>[](u16_LampsConnected = Cardinality(Present))
=============================================================================
