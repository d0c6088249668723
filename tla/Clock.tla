------------------------------- MODULE Clock -------------------------------
(***************************************************************************)
(* The clock chip, read by every pass of main_loop and set by a client or  *)
(* by the console: get_time and SetDateTime (hardware.c), and the two-wire *)
(* driver whose interrupts run their transactions (twi_master_driver.c).   *)
(* The callers ignore what WriteRead returns and how a transaction ended;  *)
(* they only wait for the driver to be READY again.                        *)
(*                                                                         *)
(* The chip is outside the repository.  It keeps a pointer that a written  *)
(* first byte sets and every further byte advances, starts to count when   *)
(* bit 0x80 of register 0 is set, and copies its time when a read begins;  *)
(* the values of a register are numbered here, in the chip they are BCD.   *)
(* Register 7 stands for all those behind its time.                        *)
(***************************************************************************)
EXTENDS Integers, Sequences, FiniteSets

CONSTANTS
    Last,           \* the last value of each register of the time
    Times,          \* the times a client or the console sets
    BufferSize,     \* TWIM_WRITE_BUFFER_SIZE, TWIM_READ_BUFFER_SIZE (8)
    Default,        \* 2015-08-01 08:33, set when the chip lost its time
    MaxFaults       \* bound: transactions that fail, and restarts

TimeRegs == {0, 1, 2, 4, 5, 6}  \* seconds, minutes, hours, date, month, year

\* get_time keeps the values below, the bits above are the chip's flags.
Mask(r) == CASE r \in {2, 4} -> 64 [] r = 5 -> 32 [] r = 6 -> 256 [] OTHER -> 128

ASSUME ClockAssumption ==
    /\ Last \in [TimeRegs -> Nat]
    /\ \A r \in TimeRegs : Last[r] < Mask(r)
    /\ Last[2] > 0
    /\ \A t \in Times \cup {Default} :
          t \in [TimeRegs -> Nat] /\ \A r \in TimeRegs : t[r] <= Last[r]
    /\ BufferSize \in Nat /\ BufferSize >= 7 /\ MaxFaults \in Nat

VARIABLES
    call,           \* "idle", "get", or who sets: "client", "console", "default"
    todo,           \* the transactions the call has still to start
    twi,            \* twiMaster
    bus,            \* what the driver last ordered, "idle" after a STOP
    chip,           \* its registers, its pointer, the copy it is read from
    date_time, error_clock, clock_set,
    wanted,         \* the time being set
    faults,         \* counted against MaxFaults
    clean,          \* no transaction of this call failed
    seen,           \* the times the chip had during this call of get_time
    carried         \* the hour changed by itself during this call

program == <<call, todo, date_time, error_clock, clock_set, wanted>>
history == <<clean, seen, carried>>
clockVars == <<program, twi, bus, chip, faults, history>>

-----------------------------------------------------------------------------
(* The chip.                                                               *)

Running(c) == c.regs[0] >= 128

\* A register without the flag.
Value(regs, r) == IF r = 0 THEN regs[r] % 128 ELSE regs[r]

TimeOf(regs) == [r \in TimeRegs |-> Value(regs, r)]

\* A second, or what the lowest register counts, later.
Later(regs) ==
    [r \in DOMAIN regs |->
        LET value == Value(regs, r) IN
        CASE r \notin TimeRegs \/ \E q \in TimeRegs : q < r /\ Value(regs, q) < Last[q]
                                             -> regs[r]
          [] OTHER -> IF value < Last[r] THEN regs[r] + 1 ELSE regs[r] - value]

Advance(p) == IF p < 7 THEN p + 1 ELSE 7

\* The chip takes the i-th byte of a write.
Stored(c, i, byte) ==
    IF i = 1 THEN [c EXCEPT !.pointer = byte]
    ELSE [c EXCEPT !.regs[c.pointer] = byte, !.pointer = Advance(@)]

-----------------------------------------------------------------------------
(* The driver.                                                             *)

Transaction(write, read) == [write |-> write, read |-> read]

\* Faulty: the count of bytes read is not reset.
WriteReadKeepsCount(t, x) ==
    IF Len(x.write) > BufferSize \/ x.read > BufferSize \/ t.status # "READY"
    THEN t
    ELSE [t EXCEPT !.status = "BUSY", !.result = "UNKNOWN", !.write = x.write,
                   !.bytesToRead = x.read, !.bytesWritten = 0]

\* TWI_MasterWriteRead: refused, with nothing changed, when it returns false.
WriteRead(t, x) ==
    IF Len(x.write) > BufferSize \/ x.read > BufferSize \/ t.status # "READY"
    THEN t
    ELSE [t EXCEPT !.status = "BUSY", !.result = "UNKNOWN", !.write = x.write,
                   !.bytesToRead = x.read, !.bytesWritten = 0, !.bytesRead = 0]

Ordered(x) == IF x.write # <<>> THEN "address" ELSE "read address"

Finished(t, result) == [t EXCEPT !.status = "READY", !.result = result]

\* TWI_MasterWriteHandler, acknowledged: the order it gives, and the driver.
WriteHandler(t) ==
    CASE t.bytesWritten < Len(t.write) ->
            [t |-> [t EXCEPT !.bytesWritten = @ + 1], order |-> "data"]
      [] t.bytesWritten = Len(t.write) /\ t.bytesRead < t.bytesToRead ->
            [t |-> t, order |-> "read address"]
      [] OTHER -> [t |-> Finished(t, "OK"), order |-> "idle"]

\* TWI_MasterReadHandler; an overflow does not end it.
ReadHandler(t, byte) ==
    LET r == IF t.bytesRead < BufferSize
             THEN [t EXCEPT !.readData[t.bytesRead] = byte, !.bytesRead = @ + 1]
             ELSE Finished(t, "BUFFER_OVERFLOW")
    IN IF r.bytesRead < r.bytesToRead
       THEN [t |-> r, order |-> "receive"]
       ELSE [t |-> Finished(r, "OK"), order |-> "idle"]

\* Faulty: the driver stays BUSY.
NackedBusy(t) == [t EXCEPT !.result = "NACK_RECEIVED"]

Nacked(t) == [t EXCEPT !.result = "NACK_RECEIVED", !.status = "READY"]

\* An interrupt of a transaction that goes well.
Proceeds ==
    /\ bus # "idle"
    /\ LET reading == bus \in {"read address", "receive"}
           c == CASE bus = "data" ->
                        Stored(chip, twi.bytesWritten, twi.write[twi.bytesWritten])
                  [] bus = "read address" ->
                        [chip EXCEPT !.copy = chip.regs, !.pointer = Advance(@)]
                  [] bus = "receive" -> [chip EXCEPT !.pointer = Advance(@)]
                  [] bus = "address" -> chip
           h == IF reading THEN ReadHandler(twi, c.copy[chip.pointer])
                           ELSE WriteHandler(twi)
       IN /\ chip' = c
          /\ twi' = h.t
          /\ bus' = h.order
    /\ UNCHANGED <<program, faults, history>>

Fault == faults < MaxFaults /\ faults' = faults + 1

\* One that does not: no acknowledge, a bus error, a lost arbitration, or an
\* interrupt without a cause.
Fails ==
    /\ bus # "idle" /\ Fault
    /\ \/ bus # "receive" /\ twi' = Nacked(twi)
       \/ \E result \in {"BUS_ERROR", "ARBITRATION_LOST", "FAIL"} :
             twi' = Finished(twi, result)
    /\ bus' = "idle"
    /\ clean' = FALSE
    /\ UNCHANGED <<program, chip, seen, carried>>

-----------------------------------------------------------------------------
(* The calls.                                                              *)

GetTime == << Transaction(<<0>>, 0), Transaction(<<>>, 7) >>

\* SetDateTime writes from the year down; the weekday's register enables the
\* battery, register 0 starts the chip.
Setting(t, weekday) ==
    << Transaction(<<6, t[6]>>, 0), Transaction(<<5, t[5]>>, 0),
       Transaction(<<4, t[4]>>, 0), Transaction(<<2, t[2], weekday>>, 0),
       Transaction(<<0, 128, t[1]>>, 0) >>

\* A call starts, with a fresh history, when the chip is c.
Calls(who, transactions, c) ==
    /\ call' = who
    /\ todo' = transactions
    /\ clean' = TRUE /\ carried' = FALSE
    /\ seen' = IF who = "get" THEN {TimeOf(c.regs)} ELSE {}

\* get_time, once in every pass of main_loop.
Get ==
    /\ call = "idle"
    /\ Calls("get", GetTime, chip)
    /\ UNCHANGED <<date_time, error_clock, clock_set, wanted, twi, bus, chip, faults>>

\* COMMAND_SET_TIMERS.
SetDateTime(t) ==
    /\ call = "idle"
    /\ Calls("client", Setting(t, 9), chip)
    /\ clock_set' = TRUE
    /\ wanted' = t
    /\ UNCHANGED <<date_time, error_clock, twi, bus, chip, faults>>

\* The console's '9'.
ConsoleSets(t) ==
    /\ call = "idle"
    /\ Calls("console", Setting(t, 8), chip)
    /\ wanted' = t
    /\ UNCHANGED <<date_time, error_clock, clock_set, twi, bus, chip, faults>>

\* Faulty: the wait for the transaction before is missing.
WaitedNot == TRUE

\* while (twiMaster.status != TWIM_STATUS_READY)
Waited == twi.status = "READY"

\* The next transaction of the call.
StartNext ==
    /\ call # "idle" /\ todo # <<>> /\ Waited
    /\ twi' = WriteRead(twi, Head(todo))
    /\ bus' = IF twi' # twi THEN Ordered(Head(todo)) ELSE bus
    /\ todo' = Tail(todo)
    /\ UNCHANGED <<call, date_time, error_clock, clock_set, wanted, chip, faults,
                   history>>

Over == call # "idle" /\ todo = <<>> /\ Waited

\* Reading register 0 with the bit clear means the chip lost its time.
Stopped == twi.readData[0] < 128

\* The end of get_time: the masks drop the chip's flags.
GetEnds ==
    /\ Over /\ call = "get"
    /\ date_time' = [r \in TimeRegs |-> twi.readData[r] % Mask(r)]
    /\ error_clock' = (error_clock \/ Stopped)
    /\ IF error_clock' /\ ~clock_set
       THEN /\ Calls("default", Setting(Default, 9), chip)
            /\ clock_set' = TRUE
            /\ wanted' = Default
       ELSE /\ Calls("idle", <<>>, chip)
            /\ UNCHANGED <<clock_set, wanted>>
    /\ UNCHANGED <<twi, bus, chip, faults>>

\* The end of a setting: a client's reads the time back.
SetEnds ==
    /\ Over /\ call \in {"client", "console", "default"}
    /\ IF call = "client" THEN Calls("get", GetTime, chip) ELSE Calls("idle", <<>>, chip)
    /\ error_clock' = (error_clock /\ call = "default")
    /\ UNCHANGED <<date_time, clock_set, wanted, twi, bus, chip, faults>>

-----------------------------------------------------------------------------
Tick ==
    /\ Running(chip)
    /\ chip' = [chip EXCEPT !.regs = Later(@)]
    /\ seen' = IF call = "get" THEN seen \cup {TimeOf(chip'.regs)} ELSE seen
    /\ carried' = (carried \/ (call # "idle" /\ chip'.regs[2] # chip.regs[2]))
    /\ UNCHANGED <<program, twi, bus, faults, clean>>

Idle == [status |-> "READY", result |-> "UNKNOWN", write |-> <<>>,
         bytesToRead |-> 0, bytesWritten |-> 0, bytesRead |-> 0,
         readData |-> [i \in 0 .. BufferSize - 1 |-> 0]]

Lost == [r \in 0 .. 7 |-> 0]    \* the chip after its battery was empty

\* The power comes back, in the middle of whatever was going on: main calls
\* get_time first.  The chip lost its time if its battery is empty.
Restart ==
    /\ Fault
    /\ \E c \in {chip, [regs |-> Lost, pointer |-> 0, copy |-> Lost]} :
          chip' = c /\ Calls("get", GetTime, c)
    /\ twi' = Idle /\ bus' = "idle"
    /\ date_time' = [r \in TimeRegs |-> 0]
    /\ error_clock' = FALSE /\ clock_set' = FALSE
    /\ wanted' = Default

ClockInit ==
    /\ call = "get" /\ todo = GetTime
    /\ twi = Idle /\ bus = "idle"
    /\ chip = [regs |-> Lost, pointer |-> 0, copy |-> Lost]
    /\ date_time = [r \in TimeRegs |-> 0]
    /\ error_clock = FALSE /\ clock_set = FALSE
    /\ wanted = Default
    /\ faults = 0
    /\ clean = TRUE /\ seen = {TimeOf(Lost)} /\ carried = FALSE

ClockNext ==
    \/ Get
    \/ \E t \in Times : SetDateTime(t) \/ ConsoleSets(t)
    \/ StartNext \/ GetEnds \/ SetEnds
    \/ Proceeds \/ Fails
    \/ Tick
    \/ Restart

ClockSpec == ClockInit /\ [][ClockNext]_clockVars

\* The program runs on, and the bus interrupts after every order.
ClockFairness ==
    /\ WF_clockVars(StartNext) /\ WF_clockVars(GetEnds) /\ WF_clockVars(SetEnds)
    /\ WF_clockVars(Proceeds)

ClockFairSpec == ClockSpec /\ ClockFairness

-----------------------------------------------------------------------------
\* When no transaction of a get_time failed, the program works with a time the
\* chip had during the call, and takes the clock for stopped only if it was:
\* although the second transaction does not say where it reads from, nothing
\* says how a transaction ended, and the bytes of the last read stay in place.
TimeIsTrue ==
    [][GetEnds /\ clean =>
          /\ date_time' \in seen
          /\ error_clock' # error_clock => ~Running(chip)]_clockVars

\* When no transaction of a setting failed and the hour did not change by
\* itself meanwhile, the chip runs and holds the hour, date, month and year
\* that were wanted: no transaction was refused or overtaken by the next.
SetsWhole ==
    [][SetEnds /\ clean /\ ~carried =>
          Running(chip) /\ \A r \in {2, 4, 5, 6} : chip.regs[r] = wanted[r]]_clockVars

\* main_loop comes back from the clock, however its transactions end.
Returns == call # "idle" ~> call = "idle"
=============================================================================
