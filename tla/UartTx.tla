------------------------------- MODULE UartTx -------------------------------
(***************************************************************************)
(* The transmit half of a serial port (GPRS_Uart.c; CRD2_Uart.c and        *)
(* FTDI_Uart.c hold the same code).  The main program runs GPRS_put_char   *)
(* one access at a time; the data-register-empty interrupt takes bytes     *)
(* out whenever it is enabled.                                             *)
(*                                                                         *)
(* Interrupts are served between two instructions of the main program and  *)
(* the AVR executes at least one instruction between two of them, so at    *)
(* most one is served between the two halves of a 16-bit access: that is   *)
(* the use of "tx_served".                                                 *)
(***************************************************************************)
EXTENDS Ring

VARIABLES
    TX_Head, TX_Tail,
    tx_buf,         \* u8GPRS_TX_Buf
    dre,            \* DRE interrupt enabled in CTRLA
    wire,           \* the byte written last to the data register
    put_pc,         \* where GPRS_put_char is
    data,           \* its argument
    seen_tail,      \* TX_Tail when its first half was loaded
    head,           \* the head being stored
    tx_served       \* an interrupt was served since the last main instruction

putVars == <<put_pc, data, seen_tail, head>>
txVars == <<TX_Head, TX_Tail, tx_buf, dre, wire, putVars, tx_served>>

TxInit ==
    /\ TX_Head = 0 /\ TX_Tail = 0
    /\ tx_buf \in [Index -> Data]
    /\ dre = FALSE
    /\ wire \in Data
    /\ put_pc = "idle"
    /\ data \in Data
    /\ seen_tail = 0 /\ head = 0
    /\ tx_served = FALSE

-----------------------------------------------------------------------------
(* GPRS_put_char(data), instruction by instruction.                        *)

PutChar(d) ==
    /\ put_pc = "idle"
    /\ put_pc' = "loadTail"
    /\ data' = d
    /\ tx_served' = FALSE
    /\ UNCHANGED <<TX_Head, TX_Tail, tx_buf, dre, wire, seen_tail, head>>

\* Faulty: the free space is not looked at.
LoadTailUnchecked ==
    /\ put_pc = "loadTail"
    /\ seen_tail' = TX_Tail
    /\ put_pc' = "write"
    /\ tx_served' = FALSE
    /\ UNCHANGED <<TX_Head, TX_Tail, tx_buf, dre, wire, data, head>>

LoadTail ==
    /\ put_pc = "loadTail"
    /\ seen_tail' = TX_Tail
    /\ put_pc' = "compare"
    /\ tx_served' = FALSE
    /\ UNCHANGED <<TX_Head, TX_Tail, tx_buf, dre, wire, data, head>>

\* Faulty: TX_Tail is read once, as if it were not volatile.
FreeSpaceCached ==
    /\ put_pc = "compare"
    /\ put_pc' = IF Succ(TX_Head) # seen_tail THEN "write" ELSE "compare"
    /\ tx_served' = FALSE
    /\ UNCHANGED <<TX_Head, TX_Tail, tx_buf, dre, wire, data, seen_tail, head>>

\* The second half arrives; spin while the ring looks full.
FreeSpace ==
    /\ put_pc = "compare"
    /\ \E tempTail \in Torn(seen_tail, TX_Tail) :
          put_pc' = IF Succ(TX_Head) # tempTail THEN "write" ELSE "loadTail"
    /\ tx_served' = FALSE
    /\ UNCHANGED <<TX_Head, TX_Tail, tx_buf, dre, wire, data, seen_tail, head>>

WriteByte ==
    /\ put_pc = "write"
    /\ tx_buf' = [tx_buf EXCEPT ![TX_Head] = data]
    /\ head' = Succ(TX_Head)
    /\ put_pc' = "storeHead"
    /\ tx_served' = FALSE
    /\ UNCHANGED <<TX_Head, TX_Tail, dre, wire, data, seen_tail>>

\* The first half of the new head.
TxStoreHalf ==
    /\ put_pc = "storeHead"
    /\ TX_Head' \in Torn(TX_Head, head)
    /\ put_pc' = "storeRest"
    /\ tx_served' = FALSE
    /\ UNCHANGED <<TX_Tail, tx_buf, dre, wire, data, seen_tail, head>>

\* Faulty: the interrupt is not enabled again.
TxStoreRestOnly ==
    /\ put_pc = "storeRest"
    /\ TX_Head' = head
    /\ put_pc' = "idle"
    /\ tx_served' = FALSE
    /\ UNCHANGED <<TX_Tail, tx_buf, dre, wire, data, seen_tail, head>>

TxStoreRest ==
    /\ put_pc = "storeRest"
    /\ TX_Head' = head
    /\ put_pc' = "enable"
    /\ tx_served' = FALSE
    /\ UNCHANGED <<TX_Tail, tx_buf, dre, wire, data, seen_tail, head>>

\* The level written does not depend on the one read, so an interrupt
\* between the load and the store of CTRLA changes nothing.
EnableDRE ==
    /\ put_pc = "enable"
    /\ dre' = TRUE
    /\ put_pc' = "idle"
    /\ tx_served' = FALSE
    /\ UNCHANGED <<TX_Head, TX_Tail, tx_buf, wire, data, seen_tail, head>>

-----------------------------------------------------------------------------
(* ISR(GPRS_DRE_vect), which the main program cannot interrupt.            *)

TxHalfDone == put_pc \in {"compare", "storeRest"}
TxCanInterrupt == dre /\ (TxHalfDone => ~tx_served)

\* Faulty: the interrupt is switched off with bytes still in the ring.
IsrDisable ==
    /\ TxCanInterrupt
    /\ dre' = FALSE
    /\ tx_served' = TRUE
    /\ UNCHANGED <<TX_Head, TX_Tail, tx_buf, wire, putVars>>

IsrEmpty ==
    /\ TxCanInterrupt
    /\ TX_Head = TX_Tail
    /\ dre' = FALSE
    /\ tx_served' = TRUE
    /\ UNCHANGED <<TX_Head, TX_Tail, tx_buf, wire, putVars>>

IsrSend ==
    /\ TxCanInterrupt
    /\ TX_Head # TX_Tail
    /\ wire' = tx_buf[TX_Tail]
    /\ TX_Tail' = Succ(TX_Tail)
    /\ tx_served' = TRUE
    /\ UNCHANGED <<TX_Head, tx_buf, dre, putVars>>

-----------------------------------------------------------------------------
TxMain == LoadTail \/ FreeSpace \/ WriteByte \/ TxStoreHalf \/ TxStoreRest \/ EnableDRE
TxIsr == IsrEmpty \/ IsrSend
TxNext == TxMain \/ TxIsr \/ \E d \in Data : PutChar(d)

TxSpec == TxInit /\ [][TxNext]_txVars

\* The CPU keeps executing put_char once it is called, and an enabled
\* interrupt is served as soon as the data register is empty.
TxFairSpec == TxSpec /\ WF_txVars(TxMain) /\ WF_txVars(TxIsr)

-----------------------------------------------------------------------------
\* The head the ring will have: from the first half stored, the byte counts.
PutHead == IF put_pc = "storeRest" THEN head ELSE TX_Head
TxContents == Slice(tx_buf, PutHead, TX_Tail)

\* Type invariant: between two main instructions TX_Head may be a torn
\* value, which is not an index of the ring.
TxTypeOK ==
    /\ TX_Tail \in Index /\ seen_tail \in Index /\ head \in Index
    /\ put_pc # "storeRest" => TX_Head \in Index
    /\ tx_buf \in [Index -> Data]
    /\ dre \in BOOLEAN /\ tx_served \in BOOLEAN
    /\ wire \in Data /\ data \in Data
    /\ put_pc \in {"idle", "loadTail", "compare", "write", "storeHead",
               "storeRest", "enable"}

\* A byte in the ring is never left there with the interrupt that would send
\* it switched off and nothing under way to switch it on: the test-and-disable
\* of ISR(GPRS_DRE_vect) against the store-and-enable of GPRS_put_char.
NoLostWakeup ==
    TxContents # <<>> => dre \/ put_pc \in {"storeRest", "enable"}

\* The ring is a queue of Size - 1 bytes: whatever half-stored index the
\* interrupt or the main program reads, no byte is lost, repeated, sent out of
\* order or sent before it was put.
TxFifo == INSTANCE ByteFifo WITH Capacity <- Size - 1, q <- TxContents, out <- wire
TxFifoSpec == TxFifo!Spec

\* Every byte of a stalled ring leaves: the tail moves on while it is not empty.
EveryByteSent == \A t \in Index : (TX_Tail = t /\ TxContents # <<>>) ~> TX_Tail # t

\* GPRS_put_char always returns, even when called with the ring full.
PutCharReturns == put_pc = "loadTail" ~> put_pc = "idle"
=============================================================================
