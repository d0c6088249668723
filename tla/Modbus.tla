-------------------------------- MODULE Modbus --------------------------------
(***************************************************************************)
(* The host asks the energy meter over RS485, every two seconds and by     *)
(* turns, for its current values and its totals (MODBUS_Master.c,          *)
(* EnergyMeter.c).  An answer is a frame that ends with silence on the     *)
(* line; which answer it is shows only in its length.                      *)
(*                                                                         *)
(* A frame is a sequence of pieces, the bytes that arrive between two runs *)
(* of main_loop.  Its checksum is good when the pieces are all the pieces  *)
(* of one answer in their order.                                           *)
(***************************************************************************)
EXTENDS Integers, Sequences, SequencesExt

CONSTANTS
    Pieces,         \* pieces of an answer
    RingPieces,     \* pieces the receive ring holds
    BufferPieces,   \* pieces bufer holds (MAX_BUFFER_SIZE)
    WaitSeconds     \* seconds between two requests (2)

ASSUME ModbusAssumption ==
    /\ {Pieces, RingPieces, BufferPieces, WaitSeconds} \subseteq Nat \ {0}
    /\ Pieces < BufferPieces

VARIABLES
    enabled,        \* psModuleSetConfig->u8EnableEnergyMeter
    wait_s,         \* ENERGY_METER_time_wait_s
    fl_odd,
    meter,          \* pieces of answers that have not arrived yet
    ring,           \* the receive ring, RX_Tail .. RX_Head
    silent,         \* MODBUS_Master_timer_start_RTU > RTU_TIMEOUT
    ena_protokol, bufer,
    stored,         \* the values that were stored last
    overrun,        \* ghost: ring and bufer may hold the rest of a frame that
                    \* outgrew bufer
    held            \* ghost: a second passed over what is in bufer

modbusVars == <<enabled, wait_s, fl_odd, meter, ring, silent, ena_protokol, bufer,
                stored, overrun, held>>

Kinds == {"current", "total"}

\* age: seconds the piece waited in the ring and in bufer, as far as it matters.
Piece(kind, part) == [kind |-> kind, part |-> part, age |-> 0]
Noise == Piece("noise", 1)
PieceType == [kind : Kinds \cup {"noise"}, part : 1 .. Pieces, age : 0 .. WaitSeconds]
Answer(kind) == [i \in 1 .. Pieces |-> Piece(kind, i)]

ModbusInit ==
    /\ enabled \in BOOLEAN
    /\ wait_s = WaitSeconds /\ fl_odd = 0
    /\ meter = <<>> /\ ring = <<>> /\ silent = TRUE
    /\ ena_protokol = FALSE /\ bufer = <<>>
    /\ stored = "nothing" /\ overrun = FALSE /\ held = FALSE

-----------------------------------------------------------------------------
\* The frame in bufer is an intact answer of this kind; its length tells.
Received(kind) ==
    /\ Len(bufer) = Pieces
    /\ \A i \in 1 .. Pieces : bufer[i].kind = kind /\ bufer[i].part = i

\* What MODBUS_Master_Loop hands to MODBUS_Maser_Ok_reciv now: a frame ends
\* when no byte waits and the line has been silent.
Got ==
    IF ring = <<>> /\ ena_protokol /\ silent /\ \E kind \in Kinds : Received(kind)
    THEN CHOOSE kind \in Kinds : Received(kind)
    ELSE "nothing"

\* bufer has no room for what waits in the ring.
Outgrown == (ena_protokol \/ silent) /\ Len(ring) > BufferPieces - Len(bufer)

\* MODBUS_Master_Loop: what it leaves in the ring, in bufer and in the flags.
\* Bytes after too short a silence are not the start of a frame: one is
\* dropped.  A frame that outgrows bufer is given up.
Taken ==
    LET room == BufferPieces - Len(bufer)
        same == [ring |-> ring, bufer |-> bufer, ena |-> ena_protokol, silent |-> silent]
    IN  IF ring = <<>>
        THEN IF ena_protokol /\ silent THEN [same EXCEPT !.ena = FALSE, !.bufer = <<>>]
             ELSE same
        ELSE IF ~ena_protokol /\ ~silent
        THEN [same EXCEPT !.ring = Tail(ring)]
        ELSE IF Len(ring) <= room
        THEN [ring |-> <<>>, bufer |-> bufer \o ring, ena |-> TRUE, silent |-> FALSE]
        ELSE [ring |-> SubSeq(ring, room + 2, Len(ring)), bufer |-> <<>>,
              ena |-> FALSE, silent |-> FALSE]

\* Faulty: the same values are asked for every time.
NextOddStuck == fl_odd

NextOdd == 1 - fl_odd

\* Faulty: a request leaves the frame that is being received alone.
AfterSendKept(ena, taken) == ena_protokol' = ena /\ bufer' = taken

\* Send: the request overwrites bufer and gives up what was being received.
AfterSend(ena, taken) == ena_protokol' = FALSE /\ bufer' = <<>>

\* One run of ENERGY_METER_Loop.  A meter that is still busy with an answer
\* does not hear the request; its answer may come after any number of them.
ENERGY_METER_Loop ==
    /\ enabled
    /\ ring' = Taken.ring /\ silent' = Taken.silent
    /\ stored' = IF Got = "nothing" THEN stored ELSE Got
    /\ IF wait_s = 0
       THEN /\ wait_s' = WaitSeconds /\ fl_odd' = NextOdd
            /\ AfterSend(Taken.ena, Taken.bufer)
            /\ meter' = IF meter # <<>> THEN meter
                        ELSE Answer(IF fl_odd' = 1 THEN "current" ELSE "total")
       ELSE /\ ena_protokol' = Taken.ena /\ bufer' = Taken.bufer
            /\ UNCHANGED <<wait_s, fl_odd, meter>>
    /\ overrun' = ((overrun \/ Outgrown) /\ (ring' # <<>> \/ bufer' # <<>>))
    /\ held' = (held /\ bufer' # <<>>)
    /\ UNCHANGED enabled

-----------------------------------------------------------------------------
\* The line, the timers and the disturbances.

\* The receive interrupt; a full ring drops what comes.
Arrives ==
    /\ meter # <<>>
    /\ meter' = Tail(meter)
    /\ ring' = IF Len(ring) < RingPieces THEN Append(ring, Head(meter)) ELSE ring
    /\ UNCHANGED <<enabled, wait_s, fl_odd, silent, ena_protokol, bufer, stored, overrun, held>>

\* The 50 us timer passes RTU_TIMEOUT.  It runs since main_loop last took a
\* byte; a meter leaves no such pause within an answer, so that by then the
\* next byte waits in the ring.
Silence ==
    /\ ~silent /\ silent' = TRUE
    /\ Len(meter) \in 1 .. Pieces - 1 => ring # <<>>
    /\ UNCHANGED <<enabled, wait_s, fl_odd, meter, ring, ena_protokol, bufer, stored, overrun, held>>

\* An answer is taken off the line within the second it comes in.
Settled == meter = <<>> /\ ring = <<>> /\ ~ena_protokol

Older(piece) == [piece EXCEPT !.age = IF @ < WaitSeconds THEN @ + 1 ELSE @]

\* A second passes.
Second ==
    /\ wait_s' = IF wait_s > 0 THEN wait_s - 1 ELSE 0
    /\ silent' = TRUE
    /\ ring' = [i \in 1 .. Len(ring) |-> Older(ring[i])]
    /\ bufer' = [i \in 1 .. Len(bufer) |-> Older(bufer[i])]
    /\ held' = (held \/ bufer # <<>>)
    /\ UNCHANGED <<enabled, fl_odd, meter, ena_protokol, stored, overrun>>

NoiseArrives ==
    /\ Len(ring) < RingPieces
    /\ ring' = Append(ring, Noise)
    /\ UNCHANGED <<enabled, wait_s, fl_odd, meter, silent, ena_protokol, bufer, stored, overrun, held>>

\* A piece is lost or the meter does not answer at all.
LoseBytes ==
    /\ meter # <<>> /\ meter' \in {Tail(meter), <<>>}
    /\ UNCHANGED <<enabled, wait_s, fl_odd, ring, silent, ena_protokol, bufer, stored, overrun, held>>

\* A client switches the metering on or off (SET_CONFIG).
SetEnabled ==
    /\ enabled' = ~enabled
    /\ UNCHANGED <<wait_s, fl_odd, meter, ring, silent, ena_protokol, bufer, stored, overrun, held>>

\* Power comes back: all of this is outside the battery-backed memory, but
\* for enabled.
ModbusRestart ==
    /\ wait_s' = WaitSeconds /\ fl_odd' = 0
    /\ meter' = <<>> /\ ring' = <<>> /\ silent' = FALSE
    /\ ena_protokol' = FALSE /\ bufer' = <<>> /\ stored' = "nothing"
    /\ overrun' = FALSE /\ held' = FALSE
    /\ UNCHANGED enabled

-----------------------------------------------------------------------------
ModbusTypeOK ==
    /\ {enabled, silent, ena_protokol, overrun, held} \subseteq BOOLEAN
    /\ wait_s \in 0 .. WaitSeconds /\ fl_odd \in 0 .. 1
    /\ stored \in Kinds \cup {"nothing"}
    /\ {meter, ring, bufer} \subseteq Seq(PieceType)
    /\ Len(ring) <= RingPieces /\ Len(bufer) <= BufferPieces

\* The values about to be stored, with the time of now, came later than the
\* time between two requests ago: also after the metering was off with an answer
\* in the ring, or after a long run of something else in main_loop.  There are
\* two exceptions.  What a frame that outgrew bufer leaves in the ring counts as
\* a new frame, however old it is.  And a frame that was in bufer, but for the
\* silence after it, when the metering was switched off or main_loop was held up
\* is stored when they go on.
StoredFresh ==
    Got # "nothing" /\ ~overrun /\ ~held => \A p \in Range(bufer) : p.age < WaitSeconds
=============================================================================
