------------------------------- MODULE NvRam -------------------------------
(***************************************************************************)
(* The battery-backed memory: the network configuration (psModuleSetConfig) *)
(* and the timers (psTimers), each followed by the sum of its bytes, which *)
(* main checks when the program starts and clears everything if one is     *)
(* wrong.  A command writes byte by byte, then the sum; the power may go   *)
(* at any moment.  Clients' data are copied at the length they come with.  *)
(*                                                                         *)
(* A block is a sequence of bytes; the first two bytes of the timers stand *)
(* for the first window, which COMMAND_TIME_ON_OFF and the console change  *)
(* on their own.                                                           *)
(***************************************************************************)
EXTENDS Integers, Sequences

CONSTANTS
    W,                      \* values of a byte (256)
    ConfigSize, TimersSize, \* bytes of the two blocks
    MaxData                 \* the most bytes a client's packet carries

ASSUME NvRamAssumption ==
    /\ {W, ConfigSize} \subseteq Nat \ {0}
    /\ TimersSize \in Nat /\ TimersSize >= 2 /\ MaxData \in Nat

Byte == 0 .. W - 1
Blocks == {"config", "timers"}
Size(b) == IF b = "config" THEN ConfigSize ELSE TimersSize

VARIABLES
    ram,            \* the bytes of each block
    crc,            \* the byte after it
    todo,           \* the writes under way, <<block, place, value>>; place 0 is crc
    power,          \* "on", "off": the program runs, or waits for power
    unsummed        \* the timers were written past their sum: COMMAND_TIME_ON_OFF,
                    \* or a configuration longer than its block

vars == <<ram, crc, todo, power, unsummed>>

\* make_crc and check_crc add up the bytes.
Sum(data) ==
    LET s[n \in 0 .. Len(data)] == IF n = 0 THEN 0 ELSE (s[n - 1] + data[n]) % W
    IN  s[Len(data)]
Sound(b) == crc[b] = Sum(ram[b])

Zero(b) == [i \in 1 .. Size(b) |-> 0]

\* Writing data into block b, from its first byte on.
Writes(b, data) == [i \in DOMAIN data |-> <<b, i, data[i]>>]

\* make_crc(b) after the block has become data.
SumUp(b, data) == << <<b, 0, Sum(data)>> >>

Init ==
    /\ ram = [b \in Blocks |-> Zero(b)]
    /\ crc = [b \in Blocks |-> 0]
    /\ todo = <<>>
    /\ power = "on"
    /\ unsummed = FALSE

-----------------------------------------------------------------------------
Idle == power = "on" /\ todo = <<>>

\* What a client sends may be shorter or longer than the block it is for.
Data == UNION {[1 .. n -> Byte] : n \in 0 .. MaxData}

\* The block once such data are in it; behind the configuration and its sum
\* lie the timers and theirs, behind those what has no sum.
Filled(b, data) == [i \in 1 .. Size(b) |-> IF i <= Len(data) THEN data[i] ELSE 0]
Room(b) == IF b = "config" THEN ConfigSize + TimersSize + 2 ELSE TimersSize + 1
Place(b, a) ==
    IF a <= Size(b) + 1 THEN <<b, a % (Size(b) + 1)>>
    ELSE <<"timers", (a - Size(b) - 1) % (TimersSize + 1)>>

Copied(b, data) ==
    [a \in {a \in DOMAIN data : a <= Room(b)} |->
        <<Place(b, a)[1], Place(b, a)[2], data[a]>>]

\* COMMAND_SET_HOST_DATA and COMMAND_SET_TIMERS: memset of the block, memcpy of
\* as much as came, make_crc of the block.
Set(b, data) ==
    /\ Idle
    /\ todo' = Writes(b, Zero(b)) \o Copied(b, data) \o SumUp(b, Filled(b, data))
    /\ unsummed' = (b = "config" /\ (unsummed \/ Len(data) > ConfigSize + 1))
    /\ UNCHANGED <<ram, crc, power>>

\* COMMAND_TIME_ON_OFF: two memcpys.
SetOnOff(on, off) ==
    /\ Idle
    /\ todo' = Writes("timers", <<on, off>>)
    /\ unsummed' = TRUE
    /\ UNCHANGED <<ram, crc, power>>

\* COMMAND_GET_TIMERS stamps the time into the block it sends and sums it up.
GetTimers(stamp) ==
    /\ Idle
    /\ LET data == [ram["timers"] EXCEPT ![TimersSize] = stamp]
       IN todo' = << <<"timers", TimersSize, stamp>> >> \o SumUp("timers", data)
    /\ unsummed' = FALSE
    /\ UNCHANGED <<ram, crc, power>>

\* Faulty: no make_crc after the change.
ConsoleUnsummed(i, byte) ==
    /\ Idle
    /\ todo' = << <<"timers", i, byte>> >>
    /\ unsummed' = FALSE
    /\ UNCHANGED <<ram, crc, power>>

\* The console's 't' changes one byte and sums up.
Console(i, byte) ==
    /\ Idle
    /\ todo' = << <<"timers", i, byte>> >>
               \o SumUp("timers", [ram["timers"] EXCEPT ![i] = byte])
    /\ unsummed' = FALSE
    /\ UNCHANGED <<ram, crc, power>>

\* ClearRam writes the memory from its start to its end.
ClearWrites ==
    Writes("config", Zero("config")) \o << <<"config", 0, 0>> >>
    \o Writes("timers", Zero("timers")) \o << <<"timers", 0, 0>> >>

\* COMMAND_CLEAR_RAM.
ClearRam ==
    /\ Idle
    /\ todo' = ClearWrites
    /\ unsummed' = FALSE
    /\ UNCHANGED <<ram, crc, power>>

\* The console's test fills the memory with a pattern of its addresses, then
\* clears it.
TestWrites ==
    [a \in 1 .. ConfigSize + TimersSize + 2 |->
        LET v == IF a % 2 = 1 THEN (a - 1) % W ELSE ((a - 1) \div W) % W
        IN IF a <= ConfigSize + 1
           THEN <<"config", a % (ConfigSize + 1), v>>
           ELSE <<"timers", (a - ConfigSize - 1) % (TimersSize + 1), v>>]

TestExtRAM ==
    /\ Idle
    /\ todo' = TestWrites \o ClearWrites
    /\ unsummed' = FALSE
    /\ UNCHANGED <<ram, crc, power>>

\* One byte of what is being written.
Store ==
    /\ power = "on" /\ todo # <<>>
    /\ LET b == Head(todo)[1]
           i == Head(todo)[2]
           v == Head(todo)[3]
       IN /\ ram' = IF i = 0 THEN ram ELSE [ram EXCEPT ![b][i] = v]
          /\ crc' = IF i = 0 THEN [crc EXCEPT ![b] = v] ELSE crc
    /\ todo' = Tail(todo)
    /\ UNCHANGED <<power, unsummed>>

PowerFails ==
    /\ power = "on"
    /\ power' = "off"
    /\ todo' = <<>>
    /\ UNCHANGED <<ram, crc, unsummed>>

\* Faulty: the configuration is not checked.
BootTimersOnly ==
    /\ power = "off"
    /\ power' = "on"
    /\ todo' = IF Sound("timers") THEN <<>> ELSE ClearWrites
    /\ unsummed' = FALSE
    /\ UNCHANGED <<ram, crc>>

\* main: both blocks are checked, one bad sum clears everything.
Boot ==
    /\ power = "off"
    /\ power' = "on"
    /\ todo' = IF \A b \in Blocks : Sound(b) THEN <<>> ELSE ClearWrites
    /\ unsummed' = FALSE
    /\ UNCHANGED <<ram, crc>>

\* What the program does once it runs.
Works ==
    \/ \E b \in Blocks, data \in Data : Set(b, data)
    \/ \E on, off \in Byte : SetOnOff(on, off)
    \/ \E stamp \in Byte : GetTimers(stamp)
    \/ \E i \in 1 .. 2, byte \in Byte : Console(i, byte)
    \/ ClearRam
    \/ TestExtRAM
    \/ Store

Next == Works \/ PowerFails \/ Boot

Spec == Init /\ [][Next]_vars

-----------------------------------------------------------------------------
\* Type invariant.
TypeOK ==
    /\ ram \in [Blocks -> Seq(Byte)]
    /\ \A b \in Blocks : ram[b] \in [1 .. Size(b) -> Byte]
    /\ crc \in [Blocks -> Byte]
    /\ todo \in Seq({w \in Blocks \X Nat \X Byte : w[2] <= Size(w[1])})
    /\ power \in {"on", "off"} /\ unsummed \in BOOLEAN

\* Whatever commands and power failures came before, a configuration the
\* program works with agrees with its sum: a half-written one does not
\* outlive the next start.
ConfigSound == Idle => Sound("config")

\* The timers agree with their sum too, whatever lengths clients send, but for
\* COMMAND_TIME_ON_OFF and a configuration longer than its block and sum, whose
\* trace the next full write, read-out or start removes.
TimersSound == Idle /\ ~unsummed => Sound("timers")
=============================================================================
