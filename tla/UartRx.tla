------------------------------- MODULE UartRx -------------------------------
(***************************************************************************)
(* The receive half of a serial port (CRD2_Uart.c; GPRS_Uart.c and         *)
(* FTDI_Uart.c hold the same code).  The receive interrupt puts bytes in,  *)
(* and drops them when it finds the ring full; the main program takes them *)
(* out with serial_read, one access at a time.                             *)
(*                                                                         *)
(* As in UartTx, at most one interrupt is served between the two halves of *)
(* a 16-bit access.                                                        *)
(***************************************************************************)
EXTENDS Ring

VARIABLES
    RX_Head, RX_Tail,
    rx_buf,         \* u8CRD2_RX_Buf
    got,            \* the byte serial_read delivered last
    read_pc,        \* where serial_read is
    seen_head,      \* RX_Head when its first half was loaded
    tail,           \* the tail being stored
    rx_served       \* an interrupt was served since the last main instruction

readVars == <<got, read_pc, seen_head, tail>>
rxVars == <<RX_Head, RX_Tail, rx_buf, readVars, rx_served>>

RxInit ==
    /\ RX_Head = 0 /\ RX_Tail = 0
    /\ rx_buf \in [Index -> Data]
    /\ got \in Data
    /\ read_pc = "idle"
    /\ seen_head = 0 /\ tail = 0
    /\ rx_served = FALSE

-----------------------------------------------------------------------------
(* serial_read(data), instruction by instruction.                          *)

LoadHead ==
    /\ read_pc = "idle"
    /\ seen_head' = RX_Head
    /\ read_pc' = "compare"
    /\ rx_served' = FALSE
    /\ UNCHANGED <<RX_Head, RX_Tail, rx_buf, got, tail>>

\* Faulty: an empty ring is not noticed.
TestNothing ==
    /\ read_pc = "compare"
    /\ read_pc' = "take"
    /\ rx_served' = FALSE
    /\ UNCHANGED <<RX_Head, RX_Tail, rx_buf, got, seen_head, tail>>

\* The second half arrives; serial_read returns 0 when the ring looks empty.
TestEmpty ==
    /\ read_pc = "compare"
    /\ \E head \in Torn(seen_head, RX_Head) :
          read_pc' = IF head = RX_Tail THEN "idle" ELSE "take"
    /\ rx_served' = FALSE
    /\ UNCHANGED <<RX_Head, RX_Tail, rx_buf, got, seen_head, tail>>

\* Faulty: the tail is not advanced.
TakeAgain ==
    /\ read_pc = "take"
    /\ got' = rx_buf[RX_Tail]
    /\ tail' = RX_Tail
    /\ read_pc' = "storeTail"
    /\ rx_served' = FALSE
    /\ UNCHANGED <<RX_Head, RX_Tail, rx_buf, seen_head>>

TakeByte ==
    /\ read_pc = "take"
    /\ got' = rx_buf[RX_Tail]
    /\ tail' = Succ(RX_Tail)
    /\ read_pc' = "storeTail"
    /\ rx_served' = FALSE
    /\ UNCHANGED <<RX_Head, RX_Tail, rx_buf, seen_head>>

RxStoreHalf ==
    /\ read_pc = "storeTail"
    /\ RX_Tail' \in Torn(RX_Tail, tail)
    /\ read_pc' = "storeRest"
    /\ rx_served' = FALSE
    /\ UNCHANGED <<RX_Head, rx_buf, got, seen_head, tail>>

RxStoreRest ==
    /\ read_pc = "storeRest"
    /\ RX_Tail' = tail
    /\ read_pc' = "idle"
    /\ rx_served' = FALSE
    /\ UNCHANGED <<RX_Head, rx_buf, got, seen_head, tail>>

-----------------------------------------------------------------------------
(* ISR(CRD2_RX_vect), which the main program cannot interrupt.             *)

RxHalfDone == read_pc \in {"compare", "storeRest"}
RxCanInterrupt == RxHalfDone => ~rx_served

\* Faulty: no check for overflow.
IsrOverwrite(d) ==
    /\ RxCanInterrupt
    /\ rx_buf' = [rx_buf EXCEPT ![RX_Head] = d]
    /\ RX_Head' = Succ(RX_Head)
    /\ rx_served' = TRUE
    /\ UNCHANGED <<RX_Tail, readVars>>

IsrStore(d) ==
    /\ RxCanInterrupt
    /\ Succ(RX_Head) # RX_Tail
    /\ rx_buf' = [rx_buf EXCEPT ![RX_Head] = d]
    /\ RX_Head' = Succ(RX_Head)
    /\ rx_served' = TRUE
    /\ UNCHANGED <<RX_Tail, readVars>>

IsrDrop ==
    /\ RxCanInterrupt
    /\ Succ(RX_Head) = RX_Tail
    /\ rx_served' = TRUE
    /\ UNCHANGED <<RX_Head, RX_Tail, rx_buf, readVars>>

-----------------------------------------------------------------------------
RxMain == LoadHead \/ TestEmpty \/ TakeByte \/ RxStoreHalf \/ RxStoreRest
RxIsr == IsrDrop \/ \E d \in Data : IsrStore(d)
RxNext == RxMain \/ RxIsr

RxSpec == RxInit /\ [][RxNext]_rxVars

\* The main loop polls the port for ever; nothing makes bytes arrive.
RxFairSpec == RxSpec /\ WF_rxVars(RxMain)

-----------------------------------------------------------------------------
\* The tail the ring will have: once read, a byte no longer counts.
TakeTail == IF read_pc \in {"storeTail", "storeRest"} THEN tail ELSE RX_Tail
RxContents == Slice(rx_buf, RX_Head, TakeTail)

\* Type invariant: between two main instructions RX_Tail may be a torn
\* value, which is not an index of the ring.
RxTypeOK ==
    /\ RX_Head \in Index /\ seen_head \in Index /\ tail \in Index
    /\ read_pc # "storeRest" => RX_Tail \in Index
    /\ rx_buf \in [Index -> Data]
    /\ got \in Data
    /\ rx_served \in BOOLEAN
    /\ read_pc \in {"idle", "compare", "take", "storeTail", "storeRest"}

\* serial_read never takes from an empty ring, although the head it compared
\* with may be a value the head never had.
TakesOnlyQueued == read_pc = "take" => RxContents # <<>>

\* The ring is a queue of Size - 1 bytes between the interrupt and
\* serial_read: a byte the interrupt stored is delivered once, in order, and
\* is never overwritten before it is read, although the interrupt may compare
\* with a half-stored tail.
RxFifo == INSTANCE ByteFifo WITH Capacity <- Size - 1, q <- RxContents, out <- got
RxFifoSpec == RxFifo!Spec

\* A stored byte is delivered: false "empty" answers caused by half-loaded
\* heads cannot go on for ever.
EveryByteRead == \A t \in Index : (RX_Tail = t /\ RxContents # <<>>) ~> RX_Tail # t
=============================================================================
