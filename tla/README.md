# Verification of the JennicLED host

The program in `src/` is the firmware of a street-lighting concentrator on an
AVR XMEGA: it switches the relay that feeds a group of lamps, dims them by
radio through a Jennic 6LoWPAN border router module, answers clients over GPRS
(a SIM900 modem) and reads an energy meter over RS485. One main loop
(`main_loop`, sub.c:318) polls everything; interrupts only move bytes between
the serial ports and their rings. This directory holds TLA+ modules translated
from that source, TLC runs that check them on small instances, and proofs that
TLAPS checks for every value of the constants.

## 1. The system

| Component | State | Operations | Hard behaviour | What makes it correct |
|---|---|---|---|---|
| Serial rings (GPRS_Uart.c, CRD2_Uart.c, FTDI_Uart.c) | head, tail, buffer, interrupt enable | put/get of main; receive and data-register-empty interrupts | 16-bit indices moved in two 8-bit accesses with interrupts on; spin on a full ring | a bounded queue; no lost wake-up; every byte leaves |
| Serial link (SerialLink.c) | `eRxState`, `u8CRC`, `u16Bytes`, `bInEsc`, message buffer | `bSL_ReadMessage`, `vSL_WriteMessage` | lost and changed bytes, END in any state | an intact frame is delivered whatever came before; stores stay in the buffer |
| Jennic supervisor (JennicModule.c) | `eModuleState`, `sFlags`, version, retries, two clocks | state machine per tick and per message, start, message handlers | late answers, reboots of the module, reconfiguration at any moment, a dead module | RUNNING only when identified; run only when configured; a dead module is noticed; a living one comes up |
| Lamp schedule (sub.c) | `on_lamps`, `on_relay`, `current_light`, `next_light`, repetition | minute and second part of `main_loop`, relay by client | midnight, overlapping windows, clock jumps, broadcasts while the module is down, lamps lit past the schedule | relay follows windows; believed light was really sent |
| GPRS reset (sub.c) | two latches, first minutes | minute part of `main_loop` | missed minutes, changed periods | resets go on, skipped only for a reason |
| Battery-backed memory (def.h, sub.c, Main.c, TunDevice.c) | configuration and timers, each with a sum | client commands, console, `ClearRam`, RAM test, check at start | power fails between two bytes; data of any length | a half-written block is not used after a restart |
| PIN (hardware.c, eeprom_driver.c) | `pin`, a page of the EEPROM | `get_pin`, `set_pin` | power fails between erase and write | a PIN in use is the one kept |
| Clock (hardware.c, twi_master_driver.c) | `date_time`, `error_clock`, `clock_set`, `twiMaster`, the chip's registers | `get_time`, `SetDateTime`, the driver's interrupts | several transactions per call, results ignored, the clock runs meanwhile | the time used was the chip's; a setting is whole |
| Client commands (TunDevice.c) | `ipv6_buf`, `butes_reciv`, dump cursor | one handler per command | one shared buffer, several clients, transfers in several packets | an answer belongs to its request |
| Modem driver (SIM900.c) | `state`, `fl_read`, `no_SimLoop`, `t_min_no_connect`, `to_send`, `to_reciv`, `client_number`, table of clients | `SimLoop`, `LoopRead`, `ResetSIM`, `On_off_SIM`, `SleepSIM` | `main_loop` called from inside `main_loop`; timeouts against answers; one buffer for all clients, one for lines read and commands written | one reader; the modem always comes back; the table of clients is true |
| Lamp table and scan (sub.c, JennicModule.c, TunDevice.c) | table, count, scan cursor, reject table | table transfer, RADIUS decision, scan, working hours | partial and mixed transfers, lost answers of a scan, restarts | a table from one client's packets is its list; refused lamps are listed; hours are earned |
| Modbus and energy meter (MODBUS_Master.c, EnergyMeter.c) | ring, frame buffer, request cursor, timers | request, answer, silence, timeout | late answers and leftovers of them | stored values are fresh and keep coming |
| Energy history (sub.c, TunDevice.c) | ring of samples, dump cursor | add, dump, print | dump interleaved with adds and other clients, power failures between the bytes of the index | the newest samples are kept while the index keeps its place; a dump is complete and holds nothing twice |
| Console (Main.c), other drivers, Windows build, hardware test | | | device I/O | |

Interactions: `main_loop` calls, in this order, the modem, the serial link and
supervisor, the client command handler, the supervisor's tick, the energy
meter, and the schedule; all share the global state directly. `ResetSIM` and
`SleepSIM` call `main_loop` again. A client command may restart the supervisor
(`eJennicModuleStart`), switch the relay and rewrite the battery-backed memory,
in which the rings' buffers and the lamp table live too. Broadcasts of the schedule go out only
while the supervisor is RUNNING.

## 2. What is modelled

`PROJECT.json` lists every component with its status, and for every definition
the source lines it stands for.

**Ring, UartTx, UartRx, ByteFifo.** One transmit ring and one receive ring.
The main program's side is one action per access: the two loads of an index
(`LoadTail`, `FreeSpace`), the buffer access, and the two stores of the new
index (`TxStoreHalf`, `TxStoreRest`, `RxStoreHalf`, `RxStoreRest`). Between the halves an interrupt may run, once
(the AVR executes an instruction of the main program between two interrupts),
so main may compare with, and the interrupt may see, a *torn* value; `Torn`
holds both orders, as the compiler may move either half first. The interrupts
(`IsrSend`, `IsrEmpty`, `IsrStore`, `IsrDrop`) are atomic. `ByteFifo` is the
abstract specification: a queue of `Size - 1` bytes with an observable last
output. The three UART files hold the same code; the lines mapped are those of
GPRS_Uart.c (transmit) and CRD2_Uart.c (receive).

**SerialLink.** `Frame` is `vSL_WriteMessage`; `RxStart`, `RxEsc`, `RxEnd` and
`RxField` are the cases of the switch in `bSL_ReadMessage`, statics kept. `Body` is
what is escaped, `Rest` what is left to send of it; both, and the checksum, are
recursive functions, as the code's loops are. The peer uses the same framing; the line loses bytes (`Lose`) and changes them
(`Damage`, `Change`).

**JennicModule.** `StateMachine` is `eJennicModuleStateMachine`, one operator per
case, fall-through as a call; a call returns the changed host record and
collects what it writes in `tx`. `Tick` is the timed part of `main_loop` with the
restart on `E_MODULE_COMMS_FAILED`, `Receive` is `eJennicModuleProcessMessage`
with the run of the state machine that ends it, `Reconfigure` the client
commands and the console key that start the module again. The radio module is
not in the repository: `ModuleHandles`, `NetworkUp`, `ModuleReboots`,
`ModuleTalks`, `ModuleDies` and the two loss actions are modelled from what this
code expects of it and marked external. `sinceReset` is a history
variable: what was written to the module since it was last reset.

**LampSchedule.** `Minute` is the whole minute part with a good clock: windows,
`OnTimer`/`OffTimer`, group timers in order, broadcast. `Repeat` is the repetition
in the seconds part; it may happen at any moment between two minutes, which
covers every alignment of the 15 seconds. `Command` is `OnLamp`/`OffLamp` from a
client or the console. `ConsoleKey` and `ClientPacket` light lamps past the schedule:
the keys '1' to '3', and a client's own packet to the lamps (`IPv6_PACKET`), which
the host hands to the module unread; neither touches `current_light`. `lamps` is a
history variable: for each group what the host told it since it is fed, what its
lamps show, and who lit them last. Radio losses are not modelled; the repetition exists for them,
but the host gets no answer it could react to.

**GprsReset.** The minute part up to `ResetSIM`; `Stall` is a minute part that
comes late because `main_loop` was held up, `BadClock` one with `error_clock`.

**NvRam, Pin.** Each command lists the byte writes it makes (`todo`), `Store`
performs one, `PowerFails` may come between any two, `Boot` is the check in
`main`. Only the two blocks with a sum are in NvRam. The data a client sends have
any length up to `MaxData`, and are copied as long as they are: short ones leave
zeros, a configuration that is too long runs over its sum into the timers
(`Copied`, `Place`). `unsummed` is a history variable: the timers were written
without their sum. `Pin` extends it by the page
of the EEPROM: `GetPin` runs before `Boot`, `SetPin`, `ErasePage` and
`SplitWritePage` are the steps of `set_pin`, and a power failure in a step leaves
any mixture of the bytes before and after it.

**Clock.** A call (`Get`, `SetDateTime`, `ConsoleSets`, or the default date at the
end of a `get_time` that found the chip stopped) is a list of transactions;
`StartNext` is one `TWI_MasterWriteRead` after the wait for the one before,
`Proceeds` one interrupt with the write or read handler of the driver, `Fails` one
that ends the transaction with an error, which no caller looks at. The chip is
external: a pointer, registers that count (`Tick`) at any moment, and a copy of
them taken when a read begins, as clock chips of this kind do; register 7
stands for all those behind the time, and the values of a register are numbered
where the chip counts in BCD. `seen` and `carried` are history variables.

**Sim900.** The automaton of the modem: `SimLoop` with `LoopRead` (`TextRead`,
`AnswerComplete`, `Answered`), `ResetSIM` with its three reading loops and two
pulses, `On_off_SIM`, the minute counter without a connection. Every wait of the
driver calls `main_loop`, so the waits under way are a stack; they share one
timer (`time_sleep_SIM`) and one flag (`no_SimLoop`), as in the code. Answers are
known by their length, which is what the code compares. `nested` is a history
variable: the resets begun within a wait. The modem is external.
What clients send is only a sign of life here; **GprsClients** models it:
`ServerStep` (the callback of the server on connection 7), `ReadText` (the end of
one text of the modem), `ReadEnough` (a line may have come in part),
`JennicPacket`, `eTunDeviceReadPacket`, in the order of `main_loop`. The
buffer `ipv6_buf` is two halves, each a message, so that half-overwritten packets
occur; a length is represented by the kind of the message that has it. `buffer_SIM900`
tells whether the line that comes is not begun, half read, or spoilt by a command
that was put together in the same buffer (`SendPacage`, `SimRead`, `OtherCommand`);
`SpoiltLine` is what the host makes of the rest: nothing, or a line about another
connection. `asked`, `cut`, `lost` and `redialled` are history variables: whose request
is under way, that a packet was cut short, the connections whose last line was
spoilt or misread, that the host dialled again before a call was answered.

**LampTable.** `OnRelay` and `OffRelay` are the relay's effect on the rows and on the
reject table, `Minute` and `Second` the parts of `main_loop` that count minutes and
start scans; `HandleAnswer` is `ProcesNetworkRouterTable` (`ScanEnds`,
`ScanGoesOn`); `TablePacket` is `SEND_LAMPS_MAC_TABLE`, of any client and any part of
its list at any time, since the code keeps no client's state; `SetWorkHours` is its
companion, `AccessRequest` the RADIUS decision. The table survives power
failures, which may also cut a packet's memory writes: in the numbers of rows at
its start, in the rows, in the number at its end, or between that and its clamp
(`CutAtStart`, `CutInRows`, `CutAtEnd`). The relay, the scan and the minute clock do
not survive. `filled` and `cut` are history variables: the list the first rows were
filled from by its packets in order, and that power failed in the last packet.

**Modbus, EnergyArray, Measure.** `Modbus` is one run of `ENERGY_METER_Loop` with
`MODBUS_Master_Loop`: requests by turns every two seconds, a frame that ends by
silence and is known by its length. A frame is a sequence of pieces, each as
much as arrives between two runs; `age`, `overrun` and `held` are history: how long a
piece has waited in ring and `bufer`, that they may hold the rest of a frame that
outgrew `bufer`, and that a second passed over a frame in `bufer`. `EnergyArray` is
the ring of samples (`AddCurrentEnergyInArray` with both its branches), the dump
(`DumpPacket` with its static cursor, `Endless` where its loop does not end) and
the print on the console. Power may fail at any store of a sample (`SampleCut`), of
the index, which is stored incremented and then as 0 at the end, each in two
bytes (`IndexCut`, `OnTheWay`, `HalfStored`), or of the clearing (`ClearingCut`).
`taken`, `samples` and `broken` are history variables: how many samples were taken,
those since the index last lost its place, and that a clearing was cut off. `Measure` composes both: a stored answer feeds the history.

## 3. What the runs show

| Run | Instance | Shows |
|---|---|---|
| `uart_tx` | 4 slots, low half of 2 values, 2 bytes | no byte in the ring with the interrupt off for good (`NoLostWakeup`); refinement of `ByteFifo`; every byte is sent; `put_char` returns |
| `uart_rx` | the same | nothing is taken from an empty ring; refinement; a stored byte is read |
| `serial_link` | 3-bit bytes, frames of 0 to 2 data bytes and one too long, 3 errors | stores in bounds; an intact frame after any damage is delivered as sent |
| `jennic` | version 1.4 with security and diversity, queues of 3, 3 events | `RunningIsIdentified`, `RunsConfigured`, `DeadModuleNoticed`, `ComesUp` |
| `gprs_reset` | day of 6 hours of 3 minutes, all periods due twice a day, 3 faults | `SkipsBounded`, `KeepsResetting` |
| `lamp_schedule` | day of 5 minutes, 6 settings (windows over midnight, overlapping, empty, unreachable), 2 groups, lamps lit past the schedule | `FollowsTimers`, `RelayFollowsTimers`, `CurrentIsTold`, `SettlesOnTimer` |
| `nv_ram` | blocks of 2 and 3 bytes of 3 values, data of up to 4 bytes, a PIN of 2 digits of 2 values | `ConfigSound`, `TimersSound`, `PinKept` |
| `clock` | 2 minutes to the hour, 2 hours to the day, 1 failure or restart | `TimeIsTrue`, `SetsWhole`, `Returns` |
| `sim900` | all states of the automaton, 1 fault or key, 1 reset | `OneReader`, `NestingBounded`, `NeverCutWhileServing`, `ComesUp` |
| `clients` | an ordinary connection and number 7, 2 addresses, 1 overlap | `TableIsTrue`, `WholeToAsker`, `ServerTold` |
| `lamp_table` | 3 lamps, 2 rows, lists of 2 and 3, 3 events | `TableWhole`, `HoursEarned`, `RejectsListed`, `ConnectedSettles` |
| `measure` | history of 3, frames of 2 pieces, 2 disturbances, 8 minutes | `HistoryKeepsNewest`, `DumpComplete`, `StoredFresh`, `Refreshed` |

Bounds and why they suffice.

- *Rings.* With 4 slots and a low half of 2 values every kind of torn index
  occurs (old high with new low, new high with old low, a value that is no
  index in between), and the ring wraps in both halves. The safety results are
  proved for all sizes, so the bound only limits the two liveness properties.
- *SerialLink.* All bytes of the code's classes occur: the three control
  characters, an escaped data byte, a plain one. Three errors make every pair
  of a broken frame and a broken follow-up before the intact frame.
- *JennicModule.* `MaxAddressRetries` is 3 for 10, `CommsLimit` 5 for 60 seconds,
  `PingInterval` 2 for 10: the order between them is kept, and exhaustion of each
  counter happens. `MaxEvents` bounds losses, reboots, reconfigurations and
  traffic; two events are enough for a reset during a bring-up that followed a
  reset. `Prompt` makes the module answer within a tick, because a module that
  is always slower than the retries can be restarted for ever and the code
  promises nothing then. The two safety properties are proved for every value
  of the constants, slow modules included (section 4).
- *Schedules.* Days are short, but hold windows around midnight, overlapping,
  adjacent, empty and with a time the clock never shows (`Never`); `Minute` takes
  any next time, so every clock jump is in it. Lights are values that occur in
  the settings, equal and different ones; `ConsoleLights` and `ClientLights` are one
  of them, so lamps lit past the schedule may show what it asked for or not. In `GprsReset` a day has two or more
  due minutes for each period of `MCPeriods`.
- *NvRam.* With bytes of 3 values, sums of different blocks coincide, so blocks
  that pass the check by chance occur. Data of 4 bytes are a configuration of 2, the
  place of its sum and one byte of the timers; shorter ones occur too.
- *Clock.* Seconds and dates do not count, so the carry that matters (minute into
  hour into day) happens within a few ticks of any call; a tick may fall between
  any two interrupts. One fault is a failed transaction in any place, or a
  restart in the middle of a call, with the chip's battery full or empty; the
  calls after it run undisturbed over what it left behind.
- *Sim900.* `MAX_TIME_NO_CONNECT` has its value of 6. A fault is a lost, late or
  wrong answer, a lost bearer, a modem that dies, or a key of the console; one
  reset may fall into any wait. `age` makes a minute last for at least
  `RoundsPerMinute` commands: each waits at most 4 s before it is sent and 4 s for
  its answer.
- *GprsClients.* Two connections and two addresses are what the callback needs
  (the asker, the server's own connection, another address in its place). An
  overlap is anything that comes while something else is under way, a command
  that spoils a half-read line among them; the two properties that need quiet say
  so in their own text, and `delivered`, which only they read, is dropped with the
  first overlap.
- *LampTable.* A list of three does not fit a table of two rows; one row in a
  packet and one entry in an answer make every transfer a chain. The second
  lists and networks differ in order and content, so packets of two lists mix.
  With `ByteValues` 2 the two bytes of a number of rows differ from 2 on, and a number
  above the table's rows occurs.
- *Measure.* With a ring of 3 samples and 8 minutes the index wraps; `Earlier`
  starts the history empty-ended and wrapped. With `Split` 2 the index has a high byte
  in the middle of the ring and at its end, so all torn values occur: slots, among
  them 0, and the one word that is none. Two disturbances make a late answer meet
  the next request, a power failure a dump, or a second one the clearing that
  follows the first.

Every property has a mutant in `PROJECT.json`: a change of a mapped operator
(those marked "Faulty" in the modules) with which the property's run fails.
The type invariants are not properties of the runs: for every component they are
theorems, the clock's as parts of `ClockInv`.

Deadlock is checked in every run: none of the modelled parts may stop.

### Fairness

`UartTx`: weak fairness of the main program once it is in `put_char` (the CPU
executes instructions) and of the interrupts (hardware serves an enabled
pending interrupt); not of callers. `UartRx`: weak fairness of the main program,
which polls `serial_read` in `main_loop`; none of arriving bytes.
`JennicModule`: time passes and `main_loop` runs (`Tick`, `Receive`), and a living
module handles its input and forms its network (`ModuleHandles`, `NetworkUp`);
none of reboots, losses, deaths or reconfigurations. `GprsReset`: the clock
advances (`MinuteChanges`). `Clock`: the program runs and the bus interrupts after
every order; nobody has to call. `Sim900`: `main_loop` runs, waits expire and
minutes pass; no fault, late answer or reset has to happen. `GprsClients`:
`main_loop` goes round, and a text that comes again and again while it reads is
read (strong fairness of `ReadText`, since each pass of the loop closes the place
where it is possible and opens it again); a dialled number gets some answer.
`LampTable`: seconds pass, answers are handled and the router answers; a bounded
number of messages is lost all the same. Once the disturbances are over an
answer takes less time than lies between two scans (minutes, in the program). `Measure`: `main_loop` runs, the meter's bytes
arrive, silence and seconds follow, and what holds `main_loop` up ends.
LampSchedule, NvRam and SerialLink claim safety only.

### Where the code does less than one might expect

These are behaviours of the code the models contain, and which the properties
therefore exclude by name.

- END is accepted in every state (SerialLink.c:145): a stray one may deliver the
  last message a second time. Only frames that arrive intact are claimed.
- A receive tail stored half can look like a full ring to the interrupt, which
  then drops a byte although there is room (CRD2_Uart.c:60 and :134).
- `uConfigKnown` survives a reset that does not go through `eJennicModuleStart`
  (JennicModule.c:1022, :1189): the host writes the configuration again but does
  not wait for the module to confirm it, against the comment at line 988.
- The latches of the GPRS reset are never cleared: with a period that only one
  hour of the day, or one minute of the hour, meets, the modem is reset once
  and not again (sub.c:400 and :409). README.md:38 of the program gives the
  condition without the latch. `SkipsBounded` is claimed for periods due at
  least twice.
- The keys '1' to '3' of the console and clients' own radio packets light lamps
  without the schedule learning of it (Main.c:169, TunDevice.c:215, :400):
  `current_light` then is what the host sent last, not what the lamps show.
  `CurrentIsTold` excepts lamps lit so since the broadcast.
- `COMMAND_SET_HOST_DATA` copies as many bytes as the client sends (TunDevice.c:204),
  as does `COMMAND_SET_TIMERS` (TunDevice.c:161): a configuration that is too long
  overwrites timers whose sum is not renewed, so the next start clears the memory;
  timers that are too long run on into the number of lamps and the lamp table.
  `TimersSound` excepts the first, and the memory behind the timers is left out.
- The host keeps no state of a table transfer (TunDevice.c:91): packets of two
  clients may mix, and the last packet of either puts the mixed table to use.
  `TableWhole` is about tables whose rows came from one list in order.
- The number of rows is stored and then cut down to the table's size
  (TunDevice.c:106): power that fails between leaves a number above it, with which
  every loop over the table runs into the memory behind; so may one that fails
  between its two bytes. What the loops do there is left out.
- The commands the host writes are put together in `buffer_SIM900`, where a line of
  the modem may be half read (SIM900.c:577, :994): the rest of it is no line, or a
  wrong one. A connection closed or made in it is missed or taken for another
  (`lost` in `TableIsTrue`) until the next whole line about it; if that was the
  answer to a dialled call, `to_open` stays set. A misread line of `AT+CIPSTATUS`
  may give a number no connection has; the memory it then names is left out. The
  module Sim900 reads whole answers only: that a packet sent at that moment may
  spoil the answer to the test of a silent modem is not in it.
- Power that fails between the two stores or the two bytes of the history's index
  (sub.c:620, :621) leaves it elsewhere in the ring, where newer samples are then
  written over old ones out of order, or at a value that is no slot, after which
  the next sample clears the whole history (sub.c:625). `HistoryKeepsNewest` is about
  the samples since then. A clearing that is cut off leaves part of the history, and
  a dump of it may miss samples.
- A dump begun while the index is no slot goes round the array until the packet is
  full, and when nothing is in its range it does not end (TunDevice.c:309); nor
  does the print on the console (sub.c:589). The watchdog is fed in `main_loop`
  (sub.c:321) but switched on nowhere. What lies in memory behind the array counts
  as no sample in the model.
- A frame of the meter that is complete in `bufer` but for the silence after it when
  the metering is switched off (EnergyMeter.c:76), or `main_loop` is held up, is
  stored with the time of then when they go on (MODBUS_Master.c:318), however
  long that took. `StoredFresh` excepts it (`held`).
- `COMMAND_TIME_ON_OFF` does not renew the sum of the timers (TunDevice.c:235); a
  power failure before the next writer of them clears the memory at the start.
- A failed pointer write in `get_time` lets the read start at another register;
  if what it finds there lacks the running bit, the clock is set to its default
  date (hardware.c:238), and after another restart that date counts as true.
- Setting the clock while its hour changes may leave the old or a wrong hour.
- A packet of another client or of a lamp that comes between a request and its
  answer overwrites `ipv6_buf` (TunDevice.c:217); after a refused callback
  (`CONNECT FAIL`) the host does not dial again (SIM900.c:388).
- A lost answer or a second client spoils a running energy dump (TunDevice.c:282).
- Nothing limits how deep `main_loop` is nested but the number of resets that
  fall into a wait (SIM900.c:1035); `NestingBounded` counts them.
- What is left in the ring after a frame that outgrew `bufer` is taken for the
  beginning of a new frame, however old it is (MODBUS_Master.c:292); `StoredFresh`
  excepts it.
- A host that dials while an earlier call has no answer yet writes the new
  address under the old call when that one is answered (SIM900.c:313, :389);
  `TableIsTrue` then only claims that number 7 is connected.

## 4. What is proved

All theorems hold for every value of the constants under the named assumptions
of the modules, which TLC evaluates in the runs. Invariance theorems are proved
by an inductive invariant: `Init` implies it, every action keeps it (one lemma or
step per action), and it implies the property. Each inductive invariant was an
invariant of the component's run before it was proved.

`tlapm` cannot instantiate the library's induction theorems, so what holds of
every length is proved by a least counterexample: the set of the numbers for
which the claim fails is a set of naturals, has a smallest member if it is not
empty (`LeastOf`, from `WFMin` and `NatLessThanWellFounded`), and that member is
refuted from its predecessor. For a recursive function the first claim is that
a function with the defining equations exists, the second what its values are.

**SerialProofs** (rings, link and two-wire bus).

- *Rings.* `TxTypeCorrect`, `TxNoLostWakeup`, `TxImplementsFifo`, `RxTypeCorrect`,
  `RxTakesOnlyQueued`, `RxImplementsFifo`, on lemmas about `Succ`, `Count` and `Slice`
  when a byte is appended or removed. The types alone are not inductive:
  `PutInv` and `ReadInv` say for each place in `put_char` and `serial_read` what is
  known of the space or the bytes, `WakeInv` that a non-empty ring has the
  interrupt enabled or `put_char` on its way to enable it. The refinement rests
  on a torn tail that is neither the old nor the new one being seen only when
  the ring is not full. A byte the interrupt drops early is a stuttering step.
- *Link.* `LinkTypeCorrect`, `LinkStoresInBounds`, `LinkDelivers`. `Counted` adds to the
  bounds that nothing has been counted between START and the length. `Sync` says
  where an intact frame is: not begun, read up to some byte of its body with the
  fields up to there in the statics (`Fields`) and the rest of the frame on the
  line, before a byte or between its escape and itself (`At`), or delivered.
  `RestFacts` and `CrcType` are the two inductions over the length of a message;
  `FlipFacts` that escaping undoes itself and never yields a control character.
- *Clock.* `ClockInvariant`, `ClockReadIsTrue`, `ClockSetIsWhole`. `BusOK` says where the
  driver is in a transaction and that the chip's pointer follows its bytes;
  `SetInv` which transactions of a setting are over, and that, while nothing failed
  and the hour stayed, the registers they name hold what is wanted (`Holds`);
  `GetInv` that the bytes read so far are the chip's copy, taken during the call
  (`Copied`). `LaterSane` is the lemma about time that passes: date, month and year
  move only when the hour does, and the running bit never. The assumptions are
  registers that fit the masks of `get_time` (`Mask`), a day of more than one hour
  and a buffer that holds the seven bytes asked for.

**JennicModuleProofs.** `ModuleTypeCorrect`, `ModuleRunningIsIdentified`,
`ModuleRunsConfigured`. `IInv` adds `Known(host)`, which says for each state from the
address on which flags must be set; each operator of the state machine has a
lemma of what it preserves. For the order of the messages `CInv` adds
`Orderly(sinceReset, state)`: between CONFIG and RUN_COORDINATOR the host has
written CONFIG, and past the security state SECURITY too; `Prepared` carries
this through a call over the messages collected so far. So slow modules, long
queues and any number of reboots, which the run bounds, are covered.

**ScheduleProofs** (lamps and reset of the modem).

- *Lamps.* `RelayFollows`, `CurrentWasTold` (over any lights of the console and of
  clients' packets), and the action properties
  `LampsFollowTimers` and `SettlesOnLastTimer`. `Inv` adds that lamps that are not
  fed wait with full light. The group timers are a fold over the groups; that
  the last one that is on decides is an induction over their number (`Taken`).
- *Reset.* `ResetsAreSkippedForFaults`. That skips stay below faults is not
  inductive: `LatchHolds` adds that, while they are equal, the latch in use holds
  the hour or minute that was due last, so the next due one differs from it.
  The theorem assumes `Often`: every period is due twice, in a day or in an hour.
  Without it the claim is false (section 3, the latches are never cleared).

**PinProofs** (memory and PIN). `MemoryIsKeptBesidePin`: `Pin` implements `NvRam`, so
the theorems about the blocks hold with the PIN's page beside them.
`MemoryTypeCorrect`, `ConfigIsSound`, `TimersAreSound`, for data of every length: `SumInv` says that the writes under
way end in a block that agrees with its sum (`Coming`, over the last write to each
place, `Pending`). `SumZero` and `SumType` are inductions over the size of a block.
`PinIsKept`: `PinInv` says where, in the steps of `set_pin`, the EEPROM holds what
memory does.

**Sim900Proofs.** `ModemTypeCorrect`, `ResetReadsAlone`, `NestingIsBounded`,
`ServerIsKept`, `EchoIsOff`. `OneReader` is not inductive: `ResetAlone` adds that a wait of `ResetSIM` is always the innermost
one and is over before the minute changes again, `Depth` that `SimLoop` nests a
wait only when no other keeps it out.
`ServerIsKept` is the action property `NeverCutWhileServing`, `EchoIsOff` a second
use of its invariant `Calm`, which holds as long as nothing went wrong: a reset
has shut the server before it waits, and who waits for a command is not open
(`Driven`); a modem that echoes is not taken further than ATE0, because its answer
is the last text on the line or spoils what was read (`Silenced`); the timer runs
while there is something to read (`Listening`). `Probed` is the heart of it: once
the test is asked, its answer is on the line; an answer that denies the server
is there only without one; and in the minute of the test at most one command of
an outer wait is sent before the question, so the minute does not change until
the answer is read. This needs a minute with room for two commands
(`RoundsPerMinute > 1`, part of `Sim900Assumption`; the waits of one command take
8 s). With room for one, TLC finds the sixth minute beginning first.

**LampTableProofs.** `TypeCorrect`, `ListIsWhole`, `RejectsAreListed`, `HoursAreEarned`.
`RowsHeld`: the first rows hold what `filled` says of them; `UsedWhole`: a list that is
in use came to its last packet, and is as long as the number of rows says but for
a power failure in that packet. Neither needs to know which client sends what.
`RejectInv`: the list holds no lamp twice, none that was not refused, and all of
them while it has room (an argument about cardinalities). `HoursInv`: what a row was
credited and what it may still claim is at most what its lamp was fed; while
the relay is on, the row's clock is not ahead of the minute clock.

**MeasureProofs** (meter and history). `MeasureTypeCorrect`, `NewestAreKept`,
`StoredAreFresh`, `DumpsAreComplete`. `HistoryKeepsNewest` is inductive with the types
and with an index that is no slot having no samples behind it, once the slot `k`
places back (`Back`) is known to move by one with the index. The types hold
because what is on the way between two words is a word (`WordsAre`), and the
cursor of the dump stays a slot whoever moves it. `ModbusInv` adds to
freshness that what waits in the ring was never there longer than until the
next request, which takes or drops it.
`DumpComplete` needs two more parts. `SlotsInv`: the slots fill from
the left (`LeftToRight`) and those before the index are filled (`Filled`), also after
a power failure moved it, so the first packet's test of one slot tells which
samples there are; a clearing that was cut off ends that (`broken`). `DumpInv`: while an undisturbed dump is under way, what
the client got and what the cursor has yet to pass (`Carried`, `Coming`) make up
what it asked for, the two have nothing in common, and the one sample that may
be added meanwhile falls into a slot the cursor has passed (`Behind`). That one
packet carries exactly the samples of the steps it makes, and the cursor moves
by that many, is `PacketWhole`; that the steps of one dump meet different slots,
`SlotsApart`. A range begins after the zeros of an empty slot
(`EnergyArrayAssumption`): one that does not would ask for empty slots too.

**GprsClientsProofs.** `ClientsTypeCorrect`, `ClientsTableIsTrue`, `ClientsWholeToAsker`.
`TableInv`: there is a table, the same as the host's but for the connections in `lost`,
of which this holds (`Stands`): for each connection, the last text on the line that
tells of it says what it is now, or there is none and the table says it
(`Agrees`). That table is what the host's would be had no line been spoilt; a
spoilt line moves both apart at the connections it adds to `lost`, and the next
whole line brings them together. `WholeInv`: as
long as nothing overlapped, either nobody is asking (`Idle`) or exactly one client
is, in one of four phases: its request comes in (`Coming`), is in the buffer
(`Come`), has gone to the lamps (`AtLamps`), or its answer waits for the prompt
(`Answering`); each phase fixes buffer, counters, line and modem.

Only model-checked is all liveness (`EveryByteSent`, `PutCharReturns`,
`EveryByteRead`, `DeadModuleNoticed`, `ComesUp`, `KeepsResetting`, `Returns`, `ServerTold`,
`ConnectedSettles`, `Refreshed`), which rests on fairness and is out of the prover's
reach. Every safety property the runs check is a theorem.

## 5. What is not modelled

- The decoding of IPv6 packets on their way between radio and clients, and the
  contents of the answers to requests that only read state.
- Port, clock source and external-memory set-up in hardware.c, and the vendor
  drivers behind it: registers written once at start.
- The Windows build (windows_sub.c, SerialWin.c), a desktop stand-in for the
  hardware, and the HardwareTest program, which exercises a board by hand.
- Formatting of console output and logs, everywhere.
- `ClearRam` also clears the buffers of the rings while they are in use and the
  counters in `sRouterStatus`; the ring modules do not include that.
- The radio between the module and the lamps: the host gets no answer to a
  broadcast that it could react to.

## 6. Plan

Done: the models of rings, serial link, supervisor with its start-up order,
schedules, battery-backed memory and PIN, modem driver, clients, lamp table,
metering and clock; the type invariants and the safety properties listed in
section 4.

Left: a composition of LampSchedule and JennicModule, so that broadcasts reach
lamps only through a module that is RUNNING.
