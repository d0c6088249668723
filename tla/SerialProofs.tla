---------------------------- MODULE SerialProofs ----------------------------
(* The transmit ring and the receive ring are queues of bytes, and the     *)
(* transmit ring never loses its wake-up: for every ring size, every split *)
(* of an index into halves and all bytes.  On the serial link an intact    *)
(* frame is delivered as it was sent, whatever came before it.  On the     *)
(* two-wire bus the clock is read as it was and set as a whole, for every  *)
(* range of its registers, every set of times and every buffer size.       *)
EXTENDS UartTx, UartRx, SerialLink, Clock, SequenceTheorems, WellFoundedInduction, TLAPS

-----------------------------------------------------------------------------
(* How the content of a ring changes when its head or its tail moves.      *)

\* Indices of the ring: what Succ and Slot return, and how they meet.
LEMMA IndexFacts ==
    ASSUME NEW t \in Index
    PROVE  /\ Succ(t) \in Index /\ Succ(t) # t
           /\ Slot(t, 0) = t
           /\ \A k \in 0 .. Size - 1 : Slot(t, k) \in Index
           /\ \A k \in 0 .. Size - 2 : Slot(Succ(t), k) = Slot(t, k + 1)
  BY RingAssumption DEF Index, Succ, Slot

\* Distinct indices have distinct successors.
LEMMA SuccInjective ==
    ASSUME NEW s \in Index, NEW t \in Index, Succ(s) = Succ(t)
    PROVE  s = t
  BY RingAssumption DEF Index, Succ

\* An access during which the index did not change is not torn.
LEMMA TornSame ==
    ASSUME NEW t \in Index
    PROVE  Torn(t, t) = {t}
<1>1. Mix(t, t) = t
  BY RingAssumption DEF Index, Mix
<1> QED BY <1>1 DEF Torn

\* The number of bytes between two indices, and how it moves with either.
LEMMA CountFacts ==
    ASSUME NEW h \in Index, NEW t \in Index
    PROVE  /\ Count(h, t) \in 0 .. Size - 1
           /\ Count(h, t) = 0 <=> h = t
           /\ Slot(t, Count(h, t)) = h
           /\ Succ(h) # t => Count(Succ(h), t) = Count(h, t) + 1
           /\ Succ(h) = t => Count(h, t) = Size - 1
           /\ h # t => Count(h, Succ(t)) = Count(h, t) - 1
  BY RingAssumption DEF Index, Succ, Slot, Count

\* The bytes before the head are not in the slot at the head.
LEMMA SlotApart ==
    ASSUME NEW h \in Index, NEW t \in Index, NEW k \in 0 .. Count(h, t) - 1
    PROVE  Slot(t, k) # h
  BY RingAssumption DEF Index, Slot, Count

\* The content of a ring is a sequence of its bytes.
LEMMA SliceType ==
    ASSUME NEW D, NEW b \in [Index -> D], NEW h \in Index, NEW t \in Index
    PROVE  Slice(b, h, t) \in Seq(D)
<1>1. Count(h, t) \in Nat /\ Count(h, t) <= Size - 1
  BY CountFacts, RingAssumption
<1>2. ASSUME NEW k \in 1 .. Count(h, t)
      PROVE  b[Slot(t, k - 1)] \in D
  <2>1. Slot(t, k - 1) \in Index
    BY <1>1, <1>2, IndexFacts, RingAssumption
  <2> QED BY <2>1
<1>3. Slice(b, h, t) \in [1 .. Count(h, t) -> D]
  BY <1>2 DEF Slice
<1> QED BY <1>1, <1>3

\* It has as many bytes as Count says.
LEMMA SliceLen ==
    ASSUME NEW b, NEW h \in Index, NEW t \in Index
    PROVE  /\ Len(Slice(b, h, t)) = Count(h, t)
           /\ Slice(b, h, t) = <<>> <=> h = t
<1>1. Count(h, t) \in Nat /\ (Count(h, t) = 0 <=> h = t)
  BY CountFacts
<1>2. Slice(b, h, t) \in Seq({b[Slot(t, k - 1)] : k \in 1 .. Count(h, t)})
  BY <1>1 DEF Slice
<1>3. Len(Slice(b, h, t)) = Count(h, t)
  BY <1>1 DEF Slice
<1> QED BY <1>1, <1>2, <1>3

\* Writing the slot at the head and moving the head appends one byte.
LEMMA SliceAppend ==
    ASSUME NEW b, b = [i \in Index |-> b[i]], NEW h \in Index, NEW t \in Index,
           NEW d, Succ(h) # t
    PROVE  Slice([b EXCEPT ![h] = d], Succ(h), t) = Append(Slice(b, h, t), d)
<1> DEFINE D == {b[i] : i \in Index} \cup {d}
           c == [b EXCEPT ![h] = d]
           n == Count(h, t)
           S == Slice(c, Succ(h), t)
           A == Append(Slice(b, h, t), d)
<1>1. n \in Nat /\ n <= Size - 1 /\ Count(Succ(h), t) = n + 1 /\ Slot(t, n) = h
  BY CountFacts, RingAssumption
<1>d. d \in D /\ b \in [Index -> D]
  OBVIOUS
<1> HIDE DEF D
<1>2. c \in [Index -> D] /\ c[h] = d /\ \A i \in Index \ {h} : c[i] = b[i]
  BY <1>d
<1>3. Slice(b, h, t) \in Seq(D) /\ Len(Slice(b, h, t)) = n
  <2>1. Slice(b, h, t) \in Seq(D)
    BY <1>d, SliceType
  <2> QED BY <2>1, SliceLen
<1>4. A \in Seq(D) /\ Len(A) = n + 1
  BY <1>d, <1>3
<1>5. S \in Seq(D) /\ Len(S) = n + 1
  <2>1. Succ(h) \in Index
    BY IndexFacts
  <2>2. Slice(c, Succ(h), t) \in Seq(D)
    BY <1>2, <2>1, SliceType
  <2>3. Len(Slice(c, Succ(h), t)) = Count(Succ(h), t)
    BY <2>1, SliceLen
  <2> QED BY <1>1, <2>2, <2>3
<1>6. ASSUME NEW k \in 1 .. n + 1
      PROVE  S[k] = A[k]
  <2>1. S[k] = c[Slot(t, k - 1)]
    BY <1>1, <1>6 DEF Slice
  <2>2. CASE k = n + 1
    BY <1>1, <1>2, <1>3, <2>1, <2>2
  <2>3. CASE k # n + 1
    <3>1. k \in 1 .. n /\ k - 1 \in 0 .. n - 1
      BY <1>1, <1>6, <2>3
    <3>2. Slot(t, k - 1) # h
      BY <3>1, SlotApart
    <3>3. Slot(t, k - 1) \in Index
      BY <1>1, <3>1, IndexFacts, RingAssumption
    <3>4. A[k] = Slice(b, h, t)[k]
      BY <1>3, <3>1
    <3>5. Slice(b, h, t)[k] = b[Slot(t, k - 1)]
      BY <3>1 DEF Slice
    <3> QED BY <1>2, <2>1, <3>2, <3>3, <3>4, <3>5
  <2> QED BY <2>2, <2>3
<1> HIDE DEF c, n, S, A
<1>7. S = A
  BY <1>1, <1>4, <1>5, <1>6
<1> QED BY <1>7 DEF S, A, c

\* Writing the slot at the head leaves the content alone.
LEMMA SliceFrame ==
    ASSUME NEW b, b = [i \in Index |-> b[i]], NEW h \in Index, NEW t \in Index,
           NEW d
    PROVE  Slice([b EXCEPT ![h] = d], h, t) = Slice(b, h, t)
<1>1. Count(h, t) \in Nat /\ Count(h, t) <= Size - 1
  BY CountFacts, RingAssumption
<1>2. ASSUME NEW k \in 1 .. Count(h, t)
      PROVE  [b EXCEPT ![h] = d][Slot(t, k - 1)] = b[Slot(t, k - 1)]
  <2>1. k - 1 \in 0 .. Count(h, t) - 1
    BY <1>1, <1>2
  <2>2. \A j \in 0 .. Count(h, t) - 1 : Slot(t, j) # h
    BY SlotApart
  <2>3. Slot(t, k - 1) \in Index
    <3>1. k - 1 \in 0 .. Size - 1
      BY <1>1, <2>1, RingAssumption
    <3> QED BY <3>1, IndexFacts
  <2> QED BY <2>1, <2>2, <2>3
<1> QED BY <1>2 DEF Slice

\* Moving the tail takes the oldest byte.
LEMMA SliceTail ==
    ASSUME NEW b, b = [i \in Index |-> b[i]], NEW h \in Index, NEW t \in Index, h # t
    PROVE  /\ Slice(b, h, t) # <<>>
           /\ Head(Slice(b, h, t)) = b[t]
           /\ Slice(b, h, Succ(t)) = Tail(Slice(b, h, t))
<1> DEFINE D == {b[i] : i \in Index}
           n == Count(h, t)
           S == Slice(b, h, t)
           T == Slice(b, h, Succ(t))
<1>1. n \in Nat /\ n >= 1 /\ n <= Size - 1 /\ Count(h, Succ(t)) = n - 1
  BY CountFacts, RingAssumption
<1>d. b \in [Index -> D]
  OBVIOUS
<1> HIDE DEF D
<1>2. S \in Seq(D) /\ Len(S) = n
  <2>1. Slice(b, h, t) \in Seq(D)
    BY <1>d, SliceType
  <2> QED BY <2>1, SliceLen
<1>3. T \in Seq(D) /\ Len(T) = n - 1
  <2>1. Succ(t) \in Index
    BY IndexFacts
  <2> QED BY <1>1, <1>d, <2>1, SliceType, SliceLen
<1>4. S[1] = b[t]
  <2>1. S[1] = b[Slot(t, 0)]
    BY <1>1 DEF Slice
  <2> QED BY <2>1, IndexFacts
<1>5. ASSUME NEW k \in 1 .. n - 1
      PROVE  T[k] = S[k + 1]
  <2>1. T[k] = b[Slot(Succ(t), k - 1)]
    BY <1>1, <1>5 DEF Slice
  <2>2. S[k + 1] = b[Slot(t, k)]
    BY <1>1, <1>5 DEF Slice
  <2>3. Slot(Succ(t), k - 1) = Slot(t, k)
    <3>1. k - 1 \in 0 .. Size - 2 /\ (k - 1) + 1 = k
      BY <1>1, <1>5, RingAssumption
    <3> QED BY <3>1, IndexFacts
  <2> QED BY <2>1, <2>2, <2>3
<1> HIDE DEF n, S, T
<1>6. S # <<>> /\ Head(S) = b[t]
  BY <1>1, <1>2, <1>4
<1>7. Tail(S) \in Seq(D) /\ Len(Tail(S)) = n - 1
  BY <1>1, <1>2
<1>8. \A k \in 1 .. n - 1 : Tail(S)[k] = S[k + 1]
  BY <1>1, <1>2
<1>9. T = Tail(S)
  BY <1>1, <1>3, <1>5, <1>7, <1>8
<1> QED BY <1>6, <1>9 DEF S, T

-----------------------------------------------------------------------------
(* The transmit ring.                                                      *)

\* What GPRS_put_char knows about the free slot at each of its steps, however
\* often it is interrupted.
PutInv ==
    /\ put_pc = "compare" =>
          \/ seen_tail = TX_Tail
          \/ tx_served /\ Succ(TX_Head) # TX_Tail
    /\ put_pc \in {"write", "storeHead"} => Succ(TX_Head) # TX_Tail
    /\ put_pc = "storeHead" => head = Succ(TX_Head) /\ tx_buf[TX_Head] = data
    /\ put_pc = "storeRest" => tx_served \/ head # TX_Tail

\* The interrupt is on whenever there is something to send and put_char is not
\* about to switch it on.
WakeInv == put_pc \notin {"storeRest", "enable"} /\ ~dre => TX_Head = TX_Tail

TxIInv == TxTypeOK /\ PutInv /\ WakeInv

USE DEF putVars

-----------------------------------------------------------------------------
LEMMA TxInitIInv == TxInit => TxIInv
<1> SUFFICES ASSUME TxInit PROVE TxIInv
  OBVIOUS
<1>1. 0 \in Index
  BY RingAssumption DEF Index
<1> QED
  BY <1>1 DEF TxInit, TxIInv, TxTypeOK, PutInv, WakeInv

LEMMA TxStepIInv == TxIInv /\ [TxNext]_txVars => TxIInv'
<1> SUFFICES ASSUME TxIInv, [TxNext]_txVars PROVE TxIInv'
  OBVIOUS
<1> USE DEF TxIInv, TxTypeOK, PutInv, WakeInv
<1>1. ASSUME NEW d \in Data, PutChar(d) PROVE TxIInv'
  BY <1>1 DEF PutChar
<1>2. CASE LoadTail
  BY <1>2 DEF LoadTail
<1>3. CASE FreeSpace
  <2>1. TX_Head \in Index
    BY <1>3 DEF FreeSpace
  <2>2. PICK tempTail \in Torn(seen_tail, TX_Tail) :
            put_pc' = IF Succ(TX_Head) # tempTail THEN "write" ELSE "loadTail"
    BY <1>3 DEF FreeSpace
  <2>3. put_pc' = "write" => Succ(TX_Head) # TX_Tail
    <3>1. CASE seen_tail = TX_Tail
      BY <2>2, <3>1, TornSame
    <3>2. CASE seen_tail # TX_Tail
      BY <1>3, <3>2 DEF FreeSpace
    <3> QED BY <3>1, <3>2
  <2>4. put_pc' \in {"write", "loadTail"}
    BY <2>2
  <2> QED BY <1>3, <2>3, <2>4 DEF FreeSpace
<1>4. CASE WriteByte
  <2>1. TX_Head \in Index /\ Succ(TX_Head) \in Index
    BY <1>4, IndexFacts DEF WriteByte
  <2> QED BY <1>4, <2>1 DEF WriteByte
<1>5. CASE TxStoreHalf
  BY <1>5 DEF TxStoreHalf
<1>6. CASE TxStoreRest
  BY <1>6 DEF TxStoreRest
<1>7. CASE EnableDRE
  BY <1>7 DEF EnableDRE
<1>8. CASE IsrEmpty
  BY <1>8 DEF IsrEmpty, TxCanInterrupt, TxHalfDone
<1>9. CASE IsrSend
  <2>1. TX_Tail' = Succ(TX_Tail) /\ TX_Tail' \in Index /\ tx_buf[TX_Tail] \in Data
    BY <1>9, IndexFacts DEF IsrSend
  <2>2. put_pc # "storeRest" => Succ(TX_Head) # Succ(TX_Tail)
    BY <1>9, SuccInjective DEF IsrSend
  <2>3. TxTypeOK'
    BY <1>9, <2>1 DEF IsrSend
  <2>4. PutInv'
    BY <1>9, <2>1, <2>2 DEF IsrSend, TxCanInterrupt, TxHalfDone
  <2>5. WakeInv'
    BY <1>9 DEF IsrSend, TxCanInterrupt
  <2> QED BY <2>3, <2>4, <2>5
<1>10. CASE UNCHANGED txVars
  BY <1>10 DEF txVars
<1> QED
  BY <1>1, <1>2, <1>3, <1>4, <1>5, <1>6, <1>7, <1>8, <1>9, <1>10
     DEF TxNext, TxMain, TxIsr

LEMMA TxInvariance == TxSpec => []TxIInv
  BY TxInitIInv, TxStepIInv, PTL DEF TxSpec

\* The variables of the transmit half keep their types: in particular a
\* half-stored TX_Head is only ever compared, never used as an index.
THEOREM TxTypeCorrect == TxSpec => []TxTypeOK
<1>1. TxIInv => TxTypeOK
  BY DEF TxIInv
<1> QED BY <1>1, TxInvariance, PTL

\* A byte in the ring is never left there with the interrupt switched off
\* (ISR(GPRS_DRE_vect) against GPRS_put_char).
THEOREM TxNoLostWakeup == TxSpec => []NoLostWakeup
<1>1. TxIInv => NoLostWakeup
  <2> SUFFICES ASSUME TxIInv, ~dre, put_pc \notin {"storeRest", "enable"}
               PROVE  TxContents = <<>>
    BY DEF NoLostWakeup
  <2>1. TX_Head \in Index /\ TX_Tail \in Index /\ TX_Head = TX_Tail
    BY DEF TxIInv, TxTypeOK, WakeInv
  <2>2. PutHead = TX_Head
    BY DEF PutHead
  <2>3. Slice(tx_buf, TX_Head, TX_Tail) = <<>>
    BY <2>1, SliceLen
  <2> QED BY <2>2, <2>3 DEF TxContents
<1> QED BY <1>1, TxInvariance, PTL

-----------------------------------------------------------------------------
\* Every step of the transmit half is a step of the queue or leaves it alone.
LEMMA TxStepFifo == TxIInv /\ [TxNext]_txVars => [TxFifo!Next]_(TxFifo!vars)
<1> SUFFICES ASSUME TxIInv, [TxNext]_txVars PROVE [TxFifo!Next]_(TxFifo!vars)
  OBVIOUS
<1> USE DEF TxFifo!vars
<1>t. /\ TX_Tail \in Index /\ PutHead \in Index
      /\ tx_buf \in [Index -> Data]
  BY DEF TxIInv, TxTypeOK, PutHead
<1>1. ASSUME NEW d \in Data, PutChar(d) PROVE UNCHANGED TxFifo!vars
  BY <1>1 DEF PutChar, TxContents, PutHead
<1>2. CASE LoadTail
  BY <1>2 DEF LoadTail, TxContents, PutHead
<1>3. CASE FreeSpace
  BY <1>3 DEF FreeSpace, TxContents, PutHead
<1>4. CASE WriteByte
  <2>1. Slice(tx_buf', TX_Head, TX_Tail) = Slice(tx_buf, TX_Head, TX_Tail)
    BY <1>t, <1>4, SliceFrame DEF WriteByte, PutHead
  <2>2. PutHead = TX_Head /\ PutHead' = TX_Head /\ TX_Tail' = TX_Tail /\ wire' = wire
    BY <1>4 DEF WriteByte, PutHead
  <2> QED BY <2>1, <2>2 DEF TxContents
<1>5. CASE TxStoreHalf
  <2>1. /\ PutHead = TX_Head /\ PutHead' = Succ(TX_Head)
        /\ TX_Tail' = TX_Tail /\ tx_buf' = tx_buf /\ wire' = wire
        /\ Succ(TX_Head) # TX_Tail /\ tx_buf[TX_Head] = data /\ data \in Data
    BY <1>5 DEF TxStoreHalf, PutHead, TxIInv, TxTypeOK, PutInv
  <2>2. [tx_buf EXCEPT ![TX_Head] = data] = tx_buf
    BY <1>t, <2>1
  <2>3. TxContents' = Append(TxContents, data)
    <3>1. /\ TX_Head \in Index /\ TX_Tail \in Index /\ tx_buf \in [Index -> Data]
          /\ data \in Data /\ Succ(TX_Head) # TX_Tail
      BY <1>t, <2>1
    <3>2. Slice([tx_buf EXCEPT ![TX_Head] = data], Succ(TX_Head), TX_Tail)
             = Append(Slice(tx_buf, TX_Head, TX_Tail), data)
      BY <3>1, SliceAppend
    <3> QED BY <2>1, <2>2, <3>2 DEF TxContents
  <2>4. Len(TxContents) < Size - 1
    <3>1. Len(TxContents) = Count(TX_Head, TX_Tail)
      BY <1>t, <2>1, SliceLen DEF TxContents
    <3>2. Succ(TX_Head) \in Index
      BY <1>t, <2>1, IndexFacts
    <3>3. Count(Succ(TX_Head), TX_Tail) \in 0 .. Size - 1
      BY <1>t, <3>2, CountFacts
    <3>4. /\ Count(TX_Head, TX_Tail) \in 0 .. Size - 1
          /\ Count(Succ(TX_Head), TX_Tail) = Count(TX_Head, TX_Tail) + 1
      BY <1>t, <2>1, CountFacts
    <3> QED BY <3>1, <3>3, <3>4, RingAssumption
  <2>5. TxFifo!Put(data)
    BY <2>1, <2>3, <2>4 DEF TxFifo!Put
  <2> QED BY <2>1, <2>5 DEF TxFifo!Next
<1>6. CASE TxStoreRest
  BY <1>6 DEF TxStoreRest, TxContents, PutHead
<1>7. CASE EnableDRE
  BY <1>7 DEF EnableDRE, TxContents, PutHead
<1>8. CASE IsrEmpty
  BY <1>8 DEF IsrEmpty, TxContents, PutHead
<1>9. CASE IsrSend
  <2>1. /\ PutHead' = PutHead /\ tx_buf' = tx_buf
        /\ TX_Tail' = Succ(TX_Tail) /\ wire' = tx_buf[TX_Tail]
    BY <1>9 DEF IsrSend, PutHead
  <2>2. PutHead # TX_Tail
    BY <1>9 DEF IsrSend, PutHead, TxIInv, PutInv, TxCanInterrupt, TxHalfDone
  <2>3. /\ TxContents # <<>> /\ Head(TxContents) = tx_buf[TX_Tail]
        /\ Slice(tx_buf, PutHead, Succ(TX_Tail)) = Tail(TxContents)
    BY <1>t, <2>2, SliceTail DEF TxContents
  <2>4. TxContents' = Tail(TxContents)
    BY <2>1, <2>3 DEF TxContents
  <2>5. TxFifo!Get
    BY <2>1, <2>3, <2>4 DEF TxFifo!Get
  <2> QED BY <2>5 DEF TxFifo!Next
<1>10. CASE UNCHANGED txVars
  BY <1>10 DEF txVars, TxContents, PutHead
<1> QED
  BY <1>1, <1>2, <1>3, <1>4, <1>5, <1>6, <1>7, <1>8, <1>9, <1>10
     DEF TxNext, TxMain, TxIsr

\* The transmit ring is a queue of Size - 1 bytes: GPRS_put_char puts at its
\* end, ISR(GPRS_DRE_vect) sends from its front, whatever halves they read.
THEOREM TxImplementsFifo == TxSpec => TxFifoSpec
<1>1. TxInit => TxFifo!Init
  <2> SUFFICES ASSUME TxInit PROVE TxFifo!Init
    OBVIOUS
  <2>1. TX_Head = TX_Tail /\ TX_Tail \in Index /\ PutHead = TX_Head /\ wire \in Data
    BY TxInitIInv DEF TxInit, TxIInv, TxTypeOK, PutHead
  <2>2. Slice(tx_buf, TX_Head, TX_Tail) = <<>>
    BY <2>1, SliceLen
  <2> QED BY <2>1, <2>2 DEF TxFifo!Init, TxContents
<1> QED
  BY <1>1, TxStepFifo, TxInvariance, PTL DEF TxSpec, TxFifoSpec, TxFifo!Spec

-----------------------------------------------------------------------------
(* The receive ring.                                                       *)

\* What serial_read and the interrupt know of each other's index at each step.
ReadInv ==
    /\ read_pc = "compare" =>
          \/ seen_head = RX_Head
          \/ rx_served /\ RX_Head # RX_Tail
    /\ read_pc \in {"take", "storeTail"} => RX_Head # RX_Tail
    /\ read_pc = "storeTail" => tail = Succ(RX_Tail)
    /\ read_pc = "storeRest" => rx_served \/ Succ(RX_Head) # tail

RxIInv == RxTypeOK /\ ReadInv

USE DEF readVars

-----------------------------------------------------------------------------
LEMMA RxInitIInv == RxInit => RxIInv
<1>1. 0 \in Index
  BY RingAssumption DEF Index
<1> QED
  BY <1>1 DEF RxInit, RxIInv, RxTypeOK, ReadInv

LEMMA RxStepIInv == RxIInv /\ [RxNext]_rxVars => RxIInv'
<1> SUFFICES ASSUME RxIInv, [RxNext]_rxVars PROVE RxIInv'
  OBVIOUS
<1> USE DEF RxIInv, RxTypeOK, ReadInv
<1>1. CASE LoadHead
  BY <1>1 DEF LoadHead
<1>2. CASE TestEmpty
  <2>1. PICK h \in Torn(seen_head, RX_Head) :
            read_pc' = IF h = RX_Tail THEN "idle" ELSE "take"
    BY <1>2 DEF TestEmpty
  <2>2. read_pc' = "take" => RX_Head # RX_Tail
    <3>1. CASE seen_head = RX_Head
      BY <2>1, <3>1, TornSame
    <3>2. CASE seen_head # RX_Head
      BY <1>2, <3>2 DEF TestEmpty
    <3> QED BY <3>1, <3>2
  <2>3. read_pc' \in {"idle", "take"}
    BY <2>1
  <2> QED BY <1>2, <2>2, <2>3 DEF TestEmpty
<1>3. CASE TakeByte
  <2>1. RX_Tail \in Index /\ Succ(RX_Tail) \in Index
    BY <1>3, IndexFacts DEF TakeByte
  <2> QED BY <1>3, <2>1 DEF TakeByte
<1>4. CASE RxStoreHalf
  <2>1. RX_Tail \in Index /\ Succ(RX_Head) # Succ(RX_Tail)
    BY <1>4, SuccInjective DEF RxStoreHalf
  <2> QED BY <1>4, <2>1 DEF RxStoreHalf
<1>5. CASE RxStoreRest
  BY <1>5 DEF RxStoreRest
<1>6. CASE IsrDrop
  BY <1>6 DEF IsrDrop, RxCanInterrupt, RxHalfDone
<1>7. ASSUME NEW d \in Data, IsrStore(d) PROVE RxIInv'
  <2>1. Succ(RX_Head) \in Index
    BY IndexFacts
  <2>2. RxTypeOK'
    BY <1>7, <2>1 DEF IsrStore
  <2>3. ReadInv'
    BY <1>7 DEF IsrStore, RxCanInterrupt, RxHalfDone
  <2> QED BY <2>2, <2>3
<1>8. CASE UNCHANGED rxVars
  BY <1>8 DEF rxVars
<1> QED
  BY <1>1, <1>2, <1>3, <1>4, <1>5, <1>6, <1>7, <1>8 DEF RxNext, RxMain, RxIsr

LEMMA RxInvariance == RxSpec => []RxIInv
  BY RxInitIInv, RxStepIInv, PTL DEF RxSpec

\* The variables of the receive half keep their types: in particular a
\* half-stored RX_Tail is only ever compared, never used as an index.
THEOREM RxTypeCorrect == RxSpec => []RxTypeOK
<1>1. RxIInv => RxTypeOK
  BY DEF RxIInv
<1> QED BY <1>1, RxInvariance, PTL

\* serial_read takes a byte only when there is one, whatever torn RX_Head it
\* compared with.
THEOREM RxTakesOnlyQueued == RxSpec => []TakesOnlyQueued
<1>1. RxIInv => TakesOnlyQueued
  <2> SUFFICES ASSUME RxIInv, read_pc = "take"
               PROVE  RxContents # <<>>
    BY DEF TakesOnlyQueued
  <2>1. RX_Head \in Index /\ RX_Tail \in Index /\ RX_Head # RX_Tail
    BY DEF RxIInv, RxTypeOK, ReadInv
  <2>2. Slice(rx_buf, RX_Head, RX_Tail) # <<>>
    BY <2>1, SliceLen
  <2>3. TakeTail = RX_Tail
    BY DEF TakeTail
  <2> QED BY <2>2, <2>3 DEF RxContents
<1> QED BY <1>1, RxInvariance, PTL

-----------------------------------------------------------------------------
\* Every step of the receive half is a step of the queue or leaves it alone.
LEMMA RxStepFifo == RxIInv /\ [RxNext]_rxVars => [RxFifo!Next]_(RxFifo!vars)
<1> SUFFICES ASSUME RxIInv, [RxNext]_rxVars PROVE [RxFifo!Next]_(RxFifo!vars)
  OBVIOUS
<1> USE DEF RxFifo!vars
<1>t. /\ RX_Head \in Index /\ TakeTail \in Index
      /\ rx_buf \in [Index -> Data]
  BY DEF RxIInv, RxTypeOK, TakeTail
<1>1. CASE LoadHead
  BY <1>1 DEF LoadHead, RxContents, TakeTail
<1>2. CASE TestEmpty
  <2>1. read_pc' \in {"idle", "take"}
    BY <1>2 DEF TestEmpty
  <2> QED BY <1>2, <2>1 DEF TestEmpty, RxContents, TakeTail
<1>3. CASE TakeByte
  <2>1. /\ TakeTail = RX_Tail /\ TakeTail' = Succ(RX_Tail)
        /\ RX_Head' = RX_Head /\ rx_buf' = rx_buf /\ got' = rx_buf[RX_Tail]
        /\ RX_Head # RX_Tail
    BY <1>3 DEF TakeByte, TakeTail, RxIInv, ReadInv
  <2>2. /\ RxContents # <<>> /\ Head(RxContents) = rx_buf[RX_Tail]
        /\ Slice(rx_buf, RX_Head, Succ(RX_Tail)) = Tail(RxContents)
    BY <1>t, <2>1, SliceTail DEF RxContents
  <2>3. RxContents' = Tail(RxContents)
    BY <2>1, <2>2 DEF RxContents
  <2>4. RxFifo!Get
    BY <2>1, <2>2, <2>3 DEF RxFifo!Get
  <2> QED BY <2>4 DEF RxFifo!Next
<1>4. CASE RxStoreHalf
  BY <1>4 DEF RxStoreHalf, RxContents, TakeTail
<1>5. CASE RxStoreRest
  BY <1>5 DEF RxStoreRest, RxContents, TakeTail
<1>6. CASE IsrDrop
  BY <1>6 DEF IsrDrop, RxContents, TakeTail
<1>7. ASSUME NEW d \in Data, IsrStore(d) PROVE RxFifo!Next
  <2>1. /\ TakeTail' = TakeTail /\ RX_Head' = Succ(RX_Head)
        /\ rx_buf' = [rx_buf EXCEPT ![RX_Head] = d] /\ got' = got
    BY <1>7 DEF IsrStore, TakeTail
  <2>2. Succ(RX_Head) # TakeTail
    <3>1. CASE read_pc = "storeTail"
      BY <1>7, <3>1, SuccInjective DEF IsrStore, TakeTail, RxIInv, RxTypeOK, ReadInv
    <3>2. CASE read_pc # "storeTail"
      BY <1>7, <3>2 DEF IsrStore, RxCanInterrupt, RxHalfDone, TakeTail, RxIInv, ReadInv
    <3> QED BY <3>1, <3>2
  <2>3. RxContents' = Append(RxContents, d)
    <3>1. Slice([rx_buf EXCEPT ![RX_Head] = d], Succ(RX_Head), TakeTail)
             = Append(Slice(rx_buf, RX_Head, TakeTail), d)
      BY <1>t, <2>2, SliceAppend
    <3> QED BY <2>1, <3>1 DEF RxContents
  <2>4. Len(RxContents) < Size - 1
    <3>1. Len(RxContents) = Count(RX_Head, TakeTail)
      BY <1>t, SliceLen DEF RxContents
    <3>2. Succ(RX_Head) \in Index
      BY <1>t, IndexFacts
    <3>3. Count(Succ(RX_Head), TakeTail) \in 0 .. Size - 1
      BY <1>t, <3>2, CountFacts
    <3>4. /\ Count(RX_Head, TakeTail) \in 0 .. Size - 1
          /\ Count(Succ(RX_Head), TakeTail) = Count(RX_Head, TakeTail) + 1
      BY <1>t, <2>2, CountFacts
    <3> QED BY <3>1, <3>3, <3>4, RingAssumption
  <2>5. RxFifo!Put(d)
    BY <2>1, <2>3, <2>4 DEF RxFifo!Put
  <2> QED BY <2>5 DEF RxFifo!Next
<1>8. CASE UNCHANGED rxVars
  BY <1>8 DEF rxVars, RxContents, TakeTail
<1> QED
  BY <1>1, <1>2, <1>3, <1>4, <1>5, <1>6, <1>7, <1>8 DEF RxNext, RxMain, RxIsr

\* The receive ring is a queue of Size - 1 bytes between ISR(CRD2_RX_vect) and
\* serial_read: what the interrupt stored is read once and in order.
THEOREM RxImplementsFifo == RxSpec => RxFifoSpec
<1>1. RxInit => RxFifo!Init
  <2> SUFFICES ASSUME RxInit PROVE RxFifo!Init
    OBVIOUS
  <2>1. RX_Head = RX_Tail /\ RX_Tail \in Index /\ TakeTail = RX_Tail /\ got \in Data
    BY RxInitIInv DEF RxInit, RxIInv, RxTypeOK, TakeTail
  <2>2. Slice(rx_buf, RX_Head, RX_Tail) = <<>>
    BY <2>1, SliceLen
  <2> QED BY <2>1, <2>2 DEF RxFifo!Init, RxContents
<1> QED
  BY <1>1, RxStepFifo, RxInvariance, PTL DEF RxSpec, RxFifoSpec, RxFifo!Spec

-----------------------------------------------------------------------------
(* The serial link: bytes, sums and frames.  What holds of every length is *)
(* shown by a least counterexample.                                        *)

LEMMA LeastOf ==
    ASSUME NEW T \in SUBSET Nat, T # {}
    PROVE  \E m \in T : \A k \in T : ~(k < m)
<1>1. PICK m \in T : \A k \in T : <<k, m>> \notin OpToRel(<, Nat)
  BY WFMin, NatLessThanWellFounded, Zenon
<1> QED BY <1>1, Zenon DEF OpToRel

LEMMA ByteFacts ==
    /\ W \in Nat /\ Ctl \in Nat /\ 4 <= Ctl /\ 2 * Ctl <= W
    /\ \A b \in Byte : b \in Nat
    /\ {0, START, ESC, END} \subseteq Byte
  BY LinkAssumption DEF Byte, START, ESC, END

\* Escaping a byte gives a byte, and undoes itself; a control character
\* becomes one that is none.
LEMMA FlipFacts ==
    ASSUME NEW b \in Byte
    PROVE  /\ Flip(b) \in Byte
           /\ b < Ctl => Flip(b) >= Ctl /\ Flip(Flip(b)) = b
<1>1. CASE Ctl = 4
  BY <1>1, LinkAssumption DEF Byte, Flip
<1>2. CASE Ctl = 8
  BY <1>2, LinkAssumption DEF Byte, Flip
<1>3. CASE Ctl = 16
  BY <1>3, LinkAssumption DEF Byte, Flip
<1>4. CASE Ctl = 32
  BY <1>4, LinkAssumption DEF Byte, Flip
<1>5. CASE Ctl = 64
  BY <1>5, LinkAssumption DEF Byte, Flip
<1>6. CASE Ctl = 128
  BY <1>6, LinkAssumption DEF Byte, Flip
<1> QED BY <1>1, <1>2, <1>3, <1>4, <1>5, <1>6, LinkAssumption

\* The two bytes of a length, and the length they make.
LEMMA LengthFacts ==
    ASSUME NEW n \in Nat, n < W * W
    PROVE  n \div W \in Byte /\ n % W \in Byte /\ (n \div W) * W + (n % W) = n
<1>1. CASE W = 8
  BY <1>1 DEF Byte
<1>2. CASE W = 16
  BY <1>2 DEF Byte
<1>3. CASE W = 32
  BY <1>3 DEF Byte
<1>4. CASE W = 64
  BY <1>4 DEF Byte
<1>5. CASE W = 128
  BY <1>5 DEF Byte
<1>6. CASE W = 256
  BY <1>6 DEF Byte
<1> QED BY <1>1, <1>2, <1>3, <1>4, <1>5, <1>6, LinkAssumption

LEMMA XorType ==
    ASSUME NEW a \in Byte, NEW b \in Byte
    PROVE  Xor(a, b) \in Byte
<1>1. \A p \in {1, 2, 4, 8, 16, 32, 64, 128} :
          Differ(a, b, p) \in {0, p} /\ (p >= W => Differ(a, b, p) = 0)
  BY ByteFacts DEF Differ
<1>2. /\ Differ(a, b, 1) \in {0, 1} /\ Differ(a, b, 2) \in {0, 2}
      /\ Differ(a, b, 4) \in {0, 4} /\ Differ(a, b, 8) \in {0, 8}
      /\ Differ(a, b, 16) \in {0, 16} /\ Differ(a, b, 32) \in {0, 32}
      /\ Differ(a, b, 64) \in {0, 64} /\ Differ(a, b, 128) \in {0, 128}
  BY <1>1
<1>3. /\ W <= 8 => Differ(a, b, 8) = 0
      /\ W <= 16 => Differ(a, b, 16) = 0
      /\ W <= 32 => Differ(a, b, 32) = 0
      /\ W <= 64 => Differ(a, b, 64) = 0
      /\ W <= 128 => Differ(a, b, 128) = 0
  BY <1>1
<1> DEFINE d1 == Differ(a, b, 1)
           d2 == Differ(a, b, 2)
           d4 == Differ(a, b, 4)
           d8 == Differ(a, b, 8)
           d16 == Differ(a, b, 16)
           d32 == Differ(a, b, 32)
           d64 == Differ(a, b, 64)
           d128 == Differ(a, b, 128)
<1>4. /\ d1 \in 0 .. 1 /\ d2 \in 0 .. 2 /\ d4 \in 0 .. 4 /\ d8 \in 0 .. 8
      /\ d16 \in 0 .. 16 /\ d32 \in 0 .. 32 /\ d64 \in 0 .. 64 /\ d128 \in 0 .. 128
  BY <1>2
<1>5. Xor(a, b) = d1 + d2 + d4 + d8 + d16 + d32 + d64 + d128
  BY DEF Xor
<1>6. d1 + d2 + d4 + d8 + d16 + d32 + d64 + d128 \in 0 .. W - 1
  <2> HIDE DEF d1, d2, d4, d8, d16, d32, d64, d128
  <2>1. W \in {8, 16, 32, 64, 128, 256}
    BY LinkAssumption
  <2>2. /\ W <= 8 => d8 = 0
        /\ W <= 16 => d16 = 0
        /\ W <= 32 => d32 = 0
        /\ W <= 64 => d64 = 0
        /\ W <= 128 => d128 = 0
    BY <1>3 DEF d8, d16, d32, d64, d128
  <2> QED BY <1>4, <2>1, <2>2
<1> QED BY <1>5, <1>6 DEF Byte

\* The sum of bytes is a byte.
LEMMA CrcType ==
    ASSUME NEW type \in Byte, NEW length \in Nat, length < W * W, NEW d \in Seq(Byte)
    PROVE  CalculateCRC(type, length, d) \in Byte
<1> DEFINE bytes == <<type, length \div W, length % W>> \o d
           n == Len(bytes)
           Adds(f, k) == f[0] = 0 /\ \A i \in 1 .. k : f[i] = Xor(f[i - 1], bytes[i])
           Step(c) == [i \in 0 .. n |-> IF i = 0 THEN 0 ELSE Xor(c[i - 1], bytes[i])]
           crc == CHOOSE c : c = Step(c)
           T == {k \in 0 .. n : ~ \E f \in [0 .. k -> Byte] : Adds(f, k)}
<1>0. n \in Nat /\ \A i \in 1 .. n : bytes[i] \in Byte
  <2>1. <<type, length \div W, length % W>> \in Seq(Byte)
    BY LengthFacts
  <2>2. bytes \in Seq(Byte)
    BY <2>1
  <2> QED BY <2>2
<1>1. CalculateCRC(type, length, d) = crc[n]
  BY DEF CalculateCRC
<1> HIDE DEF bytes, n
<1>2. T = {}
  <2> SUFFICES ASSUME T # {} PROVE FALSE
    OBVIOUS
  <2>1. PICK m \in T : \A k \in T : ~(k < m)
    <3>1. T \in SUBSET Nat
      BY <1>0
    <3> HIDE DEF T
    <3> QED BY <3>1, LeastOf
  <2>2. m # 0
    <3> SUFFICES ASSUME m = 0 PROVE FALSE
      OBVIOUS
    <3>1. [i \in 0 .. 0 |-> 0] \in [0 .. 0 -> Byte] /\ Adds([i \in 0 .. 0 |-> 0], 0)
      BY ByteFacts
    <3> QED BY <2>1, <3>1
  <2>3. m \in 1 .. n /\ m - 1 \in 0 .. n /\ m - 1 \notin T
    <3>1. m \in 1 .. n /\ m - 1 \in 0 .. n /\ m - 1 < m
      BY <1>0, <2>2
    <3> HIDE DEF T
    <3> QED BY <2>1, <3>1
  <2>4. PICK f \in [0 .. m - 1 -> Byte] : Adds(f, m - 1)
    BY <2>3
  <2> DEFINE g == [i \in 0 .. m |-> IF i = m THEN Xor(f[m - 1], bytes[m]) ELSE f[i]]
  <2>5. Xor(f[m - 1], bytes[m]) \in Byte
    <3>1. f[m - 1] \in Byte /\ bytes[m] \in Byte
      BY <1>0, <2>3, <2>4
    <3> QED BY <3>1, XorType
  <2>6. g \in [0 .. m -> Byte]
    BY <1>0, <2>3, <2>4, <2>5
  <2>7. Adds(g, m)
    <3>1. g[0] = 0
      BY <1>0, <2>3, <2>4
    <3>2. ASSUME NEW i \in 1 .. m PROVE g[i] = Xor(g[i - 1], bytes[i])
      <4>1. CASE i = m
        BY <1>0, <2>3, <4>1
      <4>2. CASE i # m
        <5>1. i \in 1 .. m - 1 /\ i \in 0 .. m /\ i - 1 \in 0 .. m /\ i - 1 # m
          BY <1>0, <2>3, <4>2
        <5> QED BY <2>4, <4>2, <5>1
      <4> QED BY <4>1, <4>2
    <3> HIDE DEF g
    <3> QED BY <3>1, <3>2
  <2> HIDE DEF g
  <2> QED BY <2>1, <2>6, <2>7
<1>3. PICK g \in [0 .. n -> Byte] : Adds(g, n)
  BY <1>0, <1>2
<1>4. g = Step(g)
  <2>1. \A i \in 0 .. n : g[i] = IF i = 0 THEN 0 ELSE Xor(g[i - 1], bytes[i])
    BY <1>0, <1>3
  <2> QED BY <2>1
<1>5. crc = Step(crc)
  <2> HIDE DEF Step
  <2> QED BY <1>4
<1> HIDE DEF crc
<1>6. \A i \in 0 .. n : crc[i] \in Byte
  <2> DEFINE R == {i \in 0 .. n : crc[i] \notin Byte}
  <2> SUFFICES ASSUME R # {} PROVE FALSE
    OBVIOUS
  <2>1. PICK m \in R : \A k \in R : ~(k < m)
    <3>1. R \in SUBSET Nat
      BY <1>0
    <3> HIDE DEF R
    <3> QED BY <3>1, LeastOf
  <2>2. CASE m = 0
    BY <1>0, <1>5, <2>2, ByteFacts
  <2>3. CASE m # 0
    <3>1. m \in 1 .. n /\ m - 1 \in 0 .. n /\ m - 1 < m
      BY <1>0, <2>3
    <3>2. crc[m - 1] \in Byte /\ bytes[m] \in Byte
      BY <1>0, <2>1, <3>1
    <3>3. crc[m] = Xor(crc[m - 1], bytes[m])
      BY <1>5, <2>3, <3>1
    <3> QED BY <3>2, <3>3, XorType
  <2> QED BY <2>2, <2>3
<1> QED BY <1>0, <1>1, <1>6

\* A prefix of a sequence.
LEMMA TxByteType ==
    ASSUME NEW b \in Byte
    PROVE  TxByte(b) \in Seq(Byte) /\ TxByte(b) # <<>>
  BY FlipFacts, ByteFacts DEF TxByte

\* The rest of a frame, byte by byte.
LEMMA RestFacts ==
    ASSUME NEW body \in Seq(Byte)
    PROVE  /\ Rest(body)[0] = <<END>>
           /\ \A k \in 1 .. Len(body) :
                  Rest(body)[k] = TxByte(body[Len(body) + 1 - k]) \o Rest(body)[k - 1]
           /\ \A k \in 0 .. Len(body) : Rest(body)[k] \in Seq(Byte)
<1> DEFINE n == Len(body)
           Back(k) == TxByte(body[n + 1 - k])
           Sends(f, k) == f[0] = <<END>> /\ \A i \in 1 .. k : f[i] = Back(i) \o f[i - 1]
           Step(r) == [i \in 0 .. n |-> IF i = 0 THEN <<END>> ELSE Back(i) \o r[i - 1]]
           rest == CHOOSE r : r = Step(r)
           T == {k \in 0 .. n : ~ \E f \in [0 .. k -> Seq(Byte)] : Sends(f, k)}
<1>0. n \in Nat /\ \A k \in 1 .. n : Back(k) \in Seq(Byte)
  <2>1. ASSUME NEW k \in 1 .. n PROVE body[n + 1 - k] \in Byte
    BY <2>1
  <2> QED BY <2>1, TxByteType
<1>1. Rest(body) = rest
  BY DEF Rest
<1>a. <<END>> \in Seq(Byte)
  BY ByteFacts
<1>b. \A k \in 1 .. n : Back(k) = TxByte(body[Len(body) + 1 - k])
  OBVIOUS
<1>c. n = Len(body)
  OBVIOUS
<1> HIDE DEF n, Back
<1>2. T = {}
  <2> SUFFICES ASSUME T # {} PROVE FALSE
    OBVIOUS
  <2>1. PICK m \in T : \A k \in T : ~(k < m)
    <3>1. T \in SUBSET Nat
      BY <1>0
    <3> HIDE DEF T
    <3> QED BY <3>1, LeastOf
  <2>2. m # 0
    <3> SUFFICES ASSUME m = 0 PROVE FALSE
      OBVIOUS
    <3> DEFINE one == [i \in 0 .. 0 |-> <<END>>]
    <3>1. one \in [0 .. 0 -> Seq(Byte)] /\ Sends(one, 0)
      BY <1>a
    <3> HIDE DEF one, Sends
    <3> QED BY <2>1, <3>1
  <2>3. m \in 1 .. n /\ m - 1 \in 0 .. n /\ m - 1 \notin T
    <3>1. m \in 1 .. n /\ m - 1 \in 0 .. n /\ m - 1 < m
      BY <1>0, <2>2
    <3> HIDE DEF T
    <3> QED BY <2>1, <3>1
  <2>4. PICK f \in [0 .. m - 1 -> Seq(Byte)] : Sends(f, m - 1)
    BY <2>3
  <2> DEFINE new == Back(m) \o f[m - 1]
             g == [i \in 0 .. m |-> IF i = m THEN new ELSE f[i]]
  <2>5. new \in Seq(Byte)
    <3>1. f[m - 1] \in Seq(Byte) /\ Back(m) \in Seq(Byte)
      BY <1>0, <2>3, <2>4
    <3> QED BY <3>1, ConcatProperties
  <2>8. new = Back(m) \o f[m - 1]
    OBVIOUS
  <2> HIDE DEF new
  <2>6. g \in [0 .. m -> Seq(Byte)]
    BY <1>0, <2>3, <2>4, <2>5
  <2>7. Sends(g, m)
    <3>1. g[0] = <<END>>
      <4>1. 0 \in 0 .. m /\ m # 0 /\ f[0] = <<END>>
        BY <1>0, <2>3, <2>4
      <4> QED BY <4>1
    <3>2. ASSUME NEW i \in 1 .. m PROVE g[i] = Back(i) \o g[i - 1]
      <4>1. CASE i = m
        <5>1. g[m] = new /\ g[m - 1] = f[m - 1]
          BY <1>0, <2>3
        <5> HIDE DEF g
        <5> QED BY <2>8, <4>1, <5>1
      <4>2. CASE i # m
        <5>1. i \in 1 .. m - 1 /\ i \in 0 .. m /\ i - 1 \in 0 .. m /\ i - 1 # m
          BY <1>0, <2>3, <4>2
        <5>2. g[i] = f[i] /\ g[i - 1] = f[i - 1]
          BY <4>2, <5>1
        <5> HIDE DEF g
        <5> QED BY <2>4, <5>1, <5>2
      <4> QED BY <4>1, <4>2
    <3> HIDE DEF g
    <3> QED BY <3>1, <3>2
  <2> HIDE DEF g
  <2> QED BY <2>1, <2>6, <2>7
<1>3. PICK g \in [0 .. n -> Seq(Byte)] : Sends(g, n)
  <2>1. n \in 0 .. n
    BY <1>0
  <2>2. n \notin T
    <3> HIDE DEF T
    <3> QED BY <1>2
  <2> HIDE DEF Sends
  <2> QED BY <2>1, <2>2
<1>4. g = Step(g)
  <2>1. \A i \in 1 .. n : g[i] = Back(i) \o g[i - 1]
    BY <1>3
  <2>2. g[0] = <<END>>
    BY <1>3
  <2>3. \A i \in 0 .. n : i = 0 \/ (i # 0 /\ i \in 1 .. n)
    BY <1>0
  <2>4. \A i \in 0 .. n : g[i] = IF i = 0 THEN <<END>> ELSE Back(i) \o g[i - 1]
    BY <2>1, <2>2, <2>3, Zenon
  <2> QED BY <2>4
<1>5. rest = Step(rest)
  <2> HIDE DEF Step
  <2> QED BY <1>4
<1> HIDE DEF rest
<1>6. rest[0] = <<END>> /\ \A k \in 1 .. n : rest[k] = Back(k) \o rest[k - 1]
  <2>1. \A i \in 0 .. n : rest[i] = IF i = 0 THEN <<END>> ELSE Back(i) \o rest[i - 1]
    BY <1>5, Zenon
  <2>2. 0 \in 0 .. n /\ \A k \in 1 .. n : k \in 0 .. n /\ k # 0
    BY <1>0
  <2> QED BY <2>1, <2>2, Zenon
<1>7. \A i \in 0 .. n : rest[i] \in Seq(Byte)
  <2> DEFINE R == {i \in 0 .. n : rest[i] \notin Seq(Byte)}
  <2> SUFFICES ASSUME R # {} PROVE FALSE
    OBVIOUS
  <2>1. PICK m \in R : \A k \in R : ~(k < m)
    <3>1. R \in SUBSET Nat
      BY <1>0
    <3> HIDE DEF R
    <3> QED BY <3>1, LeastOf
  <2>2. CASE m = 0
    BY <1>6, <1>a, <2>1, <2>2
  <2>3. CASE m # 0
    <3>1. m \in 1 .. n /\ m - 1 \in 0 .. n /\ m - 1 < m
      BY <1>0, <2>3
    <3>2. rest[m - 1] \in Seq(Byte) /\ Back(m) \in Seq(Byte)
      BY <1>0, <2>1, <3>1
    <3>3. rest[m] = Back(m) \o rest[m - 1]
      BY <1>6, <3>1
    <3>4. rest[m] \in Seq(Byte)
      BY <3>2, <3>3, ConcatProperties
    <3> QED BY <2>1, <3>4
  <2> QED BY <2>2, <2>3
<1> QED BY <1>1, <1>6, <1>7, <1>b, <1>c, Zenon

\* A sequence after four bytes.
LEMMA AfterFour ==
    ASSUME NEW f \in Seq(Byte), Len(f) = 4, NEW d \in Seq(Byte)
    PROVE  /\ f \o d \in Seq(Byte) /\ Len(f \o d) = 4 + Len(d) /\ Len(d) \in Nat
           /\ \A i \in 1 .. 4 : (f \o d)[i] = f[i]
           /\ \A j \in 1 .. Len(d) : (f \o d)[4 + j] = d[j]
<1>1. f \o d \in Seq(Byte) /\ Len(f \o d) = 4 + Len(d) /\ Len(d) \in Nat
  <2>1. f \o d \in Seq(Byte)
    OBVIOUS
  <2>2. Len(d) \in Nat
    OBVIOUS
  <2>3. Len(f \o d) = Len(f) + Len(d)
    BY ConcatProperties, Zenon
  <2> QED BY <2>1, <2>2, <2>3
<1>2. \A i \in 1 .. 4 : (f \o d)[i] = f[i]
  BY <1>1, ConcatProperties
<1>3. ASSUME NEW j \in 1 .. Len(d) PROVE (f \o d)[4 + j] = d[j]
  <2>1. 4 + j \in 1 .. Len(f) + Len(d) /\ ~(4 + j <= Len(f)) /\ (4 + j) - Len(f) = j
    BY <1>1
  <2> QED BY <1>1, <2>1
<1> QED BY <1>1, <1>2, <1>3

\* The body of a message's frame.
LEMMA BodyFacts ==
    ASSUME NEW m \in Messages
    PROVE  /\ m.type \in Byte /\ m.data \in Seq(Byte) /\ Len(m.data) \in Nat
           /\ Body(m) \in Seq(Byte) /\ Len(Body(m)) = 4 + Len(m.data)
           /\ Body(m)[1] = m.type
           /\ Body(m)[2] = Len(m.data) \div W /\ Body(m)[3] = Len(m.data) % W
           /\ Body(m)[4] = CalculateCRC(m.type, Len(m.data), m.data)
           /\ \A j \in 1 .. Len(m.data) : Body(m)[4 + j] = m.data[j]
<1> DEFINE n == Len(m.data)
           crc == CalculateCRC(m.type, n, m.data)
           front == <<m.type, n \div W, n % W, crc>>
<1>1. m.type \in Byte /\ m.data \in Seq(Byte) /\ n \in Nat /\ n < W * W
  BY LinkAssumption
<1>2. n \div W \in Byte /\ n % W \in Byte
  BY <1>1, LengthFacts
<1>3. crc \in Byte
  BY <1>1, CrcType
<1>4. Body(m) = front \o m.data
  BY DEF Body
<1> HIDE DEF n, crc
<1>5. /\ front \in Seq(Byte) /\ Len(front) = 4
      /\ front[1] = m.type /\ front[2] = n \div W /\ front[3] = n % W /\ front[4] = crc
  BY <1>1, <1>2, <1>3
<1>6. n = Len(m.data) /\ crc = CalculateCRC(m.type, Len(m.data), m.data)
  BY DEF n, crc
<1> HIDE DEF front
<1>7. /\ front \o m.data \in Seq(Byte) /\ Len(front \o m.data) = 4 + Len(m.data)
      /\ \A i \in 1 .. 4 : (front \o m.data)[i] = front[i]
      /\ \A j \in 1 .. Len(m.data) : (front \o m.data)[4 + j] = m.data[j]
  BY <1>1, <1>5, AfterFour, Zenon
<1>8. \A i \in 1 .. 4 : Body(m)[i] = front[i]
  BY <1>4, <1>7, Zenon
<1>9. Body(m)[1] = front[1] /\ Body(m)[2] = front[2] /\ Body(m)[3] = front[3] /\ Body(m)[4] = front[4]
  BY <1>8
<1>10. /\ Body(m) \in Seq(Byte) /\ Len(Body(m)) = 4 + Len(m.data)
       /\ \A j \in 1 .. Len(m.data) : Body(m)[4 + j] = m.data[j]
  BY <1>4, <1>7, Zenon
<1>11. /\ Body(m)[1] = m.type /\ Body(m)[2] = n \div W
       /\ Body(m)[3] = n % W /\ Body(m)[4] = crc
  BY <1>5, <1>9, Zenon
<1> QED BY <1>1, <1>6, <1>10, <1>11, Zenon

\* A frame is bytes.
LEMMA FrameType ==
    ASSUME NEW m \in Messages
    PROVE  /\ Frame(m) \in Seq(Byte) /\ Frame(m) # <<>>
           /\ Head(Frame(m)) = START
           /\ Tail(Frame(m)) = Rest(Body(m))[Len(Body(m))]
<1>1. Rest(Body(m))[Len(Body(m))] \in Seq(Byte)
  <2>1. Body(m) \in Seq(Byte)
    BY BodyFacts
  <2>2. Len(Body(m)) \in 0 .. Len(Body(m))
    BY <2>1
  <2> QED BY <2>1, <2>2, RestFacts, Zenon
<1>2. START \in Byte
  BY ByteFacts
<1> QED BY <1>1, <1>2 DEF Frame

-----------------------------------------------------------------------------
(* The receiver: types and bounds.                                         *)

StaticsOK ==
    /\ eRxState \in RxStates /\ u8CRC \in Byte /\ bInEsc \in BOOLEAN
    /\ u16Bytes \in Nat /\ u16Length \in Nat
    /\ u8Type \in Byte
    /\ u8Message \in [1 .. MaxLength -> Byte]

\* Only START leads to a new frame, and it forgets what was counted.
Counted ==
    /\ eRxState \in {"TYPE", "LENMSB", "LENLSB"} => u16Bytes = 0
    /\ StoresInBounds

\* The cases of bSL_ReadMessage.
LEMMA RxCases ==
    ASSUME NEW b \in Byte, RxByte(b)
    PROVE  \/ b = START /\ RxStart
           \/ b = ESC /\ RxEsc
           \/ b = END /\ RxEnd
           \/ b \notin {START, ESC, END} /\ RxField(IF bInEsc THEN Flip(b) ELSE b)
<1>1. START # ESC /\ START # END /\ ESC # END
  BY DEF START, ESC, END
<1>2. b = START => (RxByte(b) <=> RxStart)
  BY <1>1, Zenon DEF RxByte
<1>3. b = ESC => (RxByte(b) <=> RxEsc)
  BY <1>1, Zenon DEF RxByte
<1>4. b = END => (RxByte(b) <=> RxEnd)
  BY <1>1, Zenon DEF RxByte
<1>5. b # START /\ b # ESC /\ b # END
          => (RxByte(b) <=> RxField(IF bInEsc THEN Flip(b) ELSE b))
  BY <1>1, Zenon DEF RxByte
<1> QED BY <1>2, <1>3, <1>4, <1>5, Zenon

LEMMA FieldBounds ==
    ASSUME StaticsOK, Counted, NEW b \in Byte, RxField(b)
    PROVE  StaticsOK' /\ Counted'
<1>0. b \in Nat /\ W \in Nat /\ MaxLength \in Nat /\ b * W \in Nat
  BY ByteFacts, LinkAssumption
<1>1. CASE eRxState = "START"
  BY <1>1 DEF RxField, StaticsOK, Counted, StoresInBounds, RxStates
<1>2. CASE eRxState = "TYPE"
  BY <1>2 DEF RxField, StaticsOK, Counted, StoresInBounds, RxStates
<1>3. CASE eRxState = "LENMSB"
  BY <1>0, <1>3 DEF RxField, StaticsOK, Counted, StoresInBounds, RxStates
<1>4. CASE eRxState = "LENLSB"
  <2>1. /\ u16Length' = u16Length + b /\ u16Bytes' = 0
        /\ eRxState' = IF u16Length' > MaxLength THEN "START" ELSE "CRC"
        /\ bInEsc' = FALSE /\ u8CRC' = u8CRC /\ u8Type' = u8Type /\ u8Message' = u8Message
    BY <1>4 DEF RxField, Counted
  <2>2. u16Length' \in Nat
    BY <1>0, <2>1 DEF StaticsOK
  <2>3. StaticsOK'
    BY <2>1, <2>2 DEF StaticsOK, RxStates
  <2> QED BY <1>0, <2>1, <2>2, <2>3 DEF Counted, StoresInBounds
<1>5. CASE eRxState = "CRC"
  BY <1>5 DEF RxField, StaticsOK, Counted, StoresInBounds, RxStates
<1>6. CASE eRxState = "DATA"
  <2>1. /\ IF u16Bytes < u16Length
           THEN /\ u8Message' = [u8Message EXCEPT ![u16Bytes + 1] = b]
                /\ u16Bytes' = u16Bytes + 1
           ELSE UNCHANGED <<u8Message, u16Bytes>>
        /\ bInEsc' = FALSE /\ eRxState' = "DATA" /\ u8CRC' = u8CRC
        /\ u8Type' = u8Type /\ u16Length' = u16Length
    BY <1>6 DEF RxField
  <2>2. u16Bytes' \in Nat /\ u8Message' \in [1 .. MaxLength -> Byte]
    BY <1>0, <2>1 DEF StaticsOK
  <2>3. StaticsOK'
    BY <2>1, <2>2 DEF StaticsOK, RxStates
  <2>4. u16Length <= MaxLength /\ u16Bytes <= u16Length
    BY <1>6 DEF Counted, StoresInBounds
  <2>5. u16Length' <= MaxLength /\ u16Bytes' <= u16Length'
    BY <1>0, <2>1, <2>4 DEF StaticsOK
  <2> QED BY <2>1, <2>3, <2>5 DEF Counted, StoresInBounds
<1> QED BY <1>1, <1>2, <1>3, <1>4, <1>5, <1>6 DEF StaticsOK, RxStates

LEMMA ByteBounds ==
    ASSUME StaticsOK, Counted, NEW b \in Byte, RxByte(b)
    PROVE  StaticsOK' /\ Counted'
<1>1. CASE RxStart
  BY <1>1 DEF RxStart, StaticsOK, Counted, StoresInBounds, RxStates
<1>2. CASE RxEsc
  BY <1>2 DEF RxEsc, StaticsOK, Counted, StoresInBounds, RxStates
<1>3. CASE RxEnd
  <2>1. /\ eRxState' = eRxState \/ eRxState' = "START"
        /\ UNCHANGED <<u8CRC, u16Bytes, bInEsc, u8Type, u16Length, u8Message>>
    BY <1>3 DEF RxEnd
  <2> QED BY <2>1 DEF StaticsOK, Counted, StoresInBounds, RxStates
<1>4. CASE RxField(IF bInEsc THEN Flip(b) ELSE b)
  <2>1. (IF bInEsc THEN Flip(b) ELSE b) \in Byte
    BY FlipFacts
  <2> QED BY <1>4, <2>1, FieldBounds
<1> QED BY <1>1, <1>2, <1>3, <1>4, RxCases

LEMMA LinkStepBounds ==
    ASSUME TypeOK, Counted, [Next]_vars
    PROVE  TypeOK' /\ Counted'
<1>0. StaticsOK /\ Noise \subseteq Byte /\ MaxErrors \in Nat
  BY LinkAssumption DEF TypeOK, StaticsOK
<1>1. ASSUME NEW m \in Messages, Send(m) PROVE TypeOK' /\ Counted'
  <2>1. line' \in Seq(Byte) /\ msg' \in Messages /\ hit' = FALSE /\ UNCHANGED <<errors, statics>>
    BY <1>1, FrameType DEF Send
  <2> QED BY <2>1 DEF TypeOK, Counted, StoresInBounds, statics
<1>2. CASE Receive
  <2>1. Head(line) \in Byte /\ line' \in Seq(Byte) /\ RxByte(Head(line))
    BY <1>2 DEF Receive, TypeOK
  <2>2. StaticsOK' /\ Counted'
    BY <1>0, <2>1, ByteBounds
  <2> QED BY <1>2, <2>1, <2>2 DEF Receive, TypeOK, StaticsOK
<1>3. CASE Lose
  BY <1>0, <1>3 DEF Lose, Damage, TypeOK, Counted, StoresInBounds, statics
<1>4. ASSUME NEW b \in Noise, Change(b) PROVE TypeOK' /\ Counted'
  <2>1. line' \in Seq(Byte) /\ RxByte(b) /\ b \in Byte
    BY <1>0, <1>4 DEF Change, TypeOK
  <2>2. StaticsOK' /\ Counted'
    BY <1>0, <2>1, ByteBounds
  <2> QED BY <1>0, <1>4, <2>1, <2>2 DEF Change, Damage, TypeOK, StaticsOK
<1>5. CASE UNCHANGED vars
  BY <1>5 DEF vars, statics, TypeOK, Counted, StoresInBounds
<1> QED BY <1>1, <1>2, <1>3, <1>4, <1>5 DEF Next

LEMMA LinkInitBounds == Init => TypeOK /\ Counted
<1> SUFFICES ASSUME Init PROVE TypeOK /\ Counted
  OBVIOUS
<1>1. 0 \in Byte /\ MaxLength \in Nat /\ MaxErrors \in Nat
  BY ByteFacts, LinkAssumption
<1>2. eRxState = "START" /\ u8Message \in [1 .. MaxLength -> Byte] /\ line \in Seq(Byte)
  BY <1>1 DEF Init
<1>3. line \in Seq(Byte) /\ msg \in Messages /\ errors \in 0 .. MaxErrors
  BY <1>1 DEF Init
<1>4. hit \in BOOLEAN /\ bInEsc \in BOOLEAN
  BY Zenon DEF Init
<1>5. eRxState \in RxStates /\ u8CRC \in Byte /\ u16Bytes \in Nat /\ u16Length \in Nat /\ u8Type \in Byte
  BY <1>1 DEF Init, RxStates
<1>6. TypeOK
  BY <1>2, <1>3, <1>4, <1>5, Zenon DEF TypeOK
<1> QED BY <1>2, <1>6 DEF Counted, StoresInBounds

LEMMA LinkBounds == Spec => [](TypeOK /\ Counted)
<1>1. TypeOK /\ Counted /\ [Next]_vars => TypeOK' /\ Counted'
  BY LinkStepBounds
<1> QED BY <1>1, LinkInitBounds, PTL DEF Spec

\* The receiver's statics and the line keep their types, whatever bytes
\* come in whatever state.
THEOREM LinkTypeCorrect == Spec => []TypeOK
  BY LinkBounds, PTL

\* bSL_ReadMessage stores inside the buffer of its caller, whatever comes.
THEOREM LinkStoresInBounds == Spec => []StoresInBounds
<1>1. TypeOK /\ Counted => StoresInBounds
  BY DEF Counted
<1> QED BY <1>1, LinkBounds, PTL

-----------------------------------------------------------------------------
(* The way of an intact frame through the receiver.                        *)

Length == Len(msg.data)

\* What the receiver holds after i bytes of the body.
Place(i) ==
    IF i = 0 THEN "TYPE" ELSE IF i = 1 THEN "LENMSB" ELSE IF i = 2 THEN "LENLSB"
    ELSE IF i = 3 THEN "CRC" ELSE "DATA"

Fields(i) ==
    /\ eRxState = Place(i)
    /\ u16Bytes = IF i < 4 THEN 0 ELSE i - 4
    /\ i >= 1 => u8Type = msg.type
    /\ i = 2 => u16Length = (Length \div W) * W
    /\ i >= 3 => u16Length = Length
    /\ i >= 4 => u8CRC = CalculateCRC(msg.type, Length, msg.data)
    /\ \A j \in 1 .. i - 4 : u8Message[j] = msg.data[j]

\* The byte k places before the end of the body, and the line before it or
\* between its escape and itself.
BodyByte(k) == Body(msg)[5 + Length - k]
At(k) ==
    \/ /\ ~bInEsc
       /\ line = Rest(Body(msg))[k]
    \/ /\ bInEsc
       /\ k > 0 /\ BodyByte(k) < Ctl
       /\ line = <<Flip(BodyByte(k))>> \o Rest(Body(msg))[k - 1]

FrameDue == line = Frame(msg) /\ received = <<>>
Reading(k) == received = <<>> /\ Fields(4 + Length - k) /\ At(k)
Delivered == line = <<>> /\ received = <<msg>>

Sync ==
    ~hit /\ Length <= MaxLength =>
        \/ FrameDue
        \/ \E k \in 0 .. 4 + Length : Reading(k)
        \/ Delivered

LEMMA FieldRead ==
    ASSUME TypeOK, Length <= MaxLength, NEW i \in 0 .. 3 + Length, Fields(i),
           RxField(Body(msg)[i + 1]), UNCHANGED msg
    PROVE  Fields(i + 1)' /\ bInEsc' = FALSE /\ UNCHANGED received
<1> DEFINE b == Body(msg)[i + 1]
<1>0. bInEsc' = FALSE /\ UNCHANGED <<received, msg>>
  BY DEF RxField
<1>1. /\ Length \in Nat /\ msg.data \in Seq(Byte) /\ Length < W * W
      /\ Body(msg) \in Seq(Byte)
  BY BodyFacts, LinkAssumption DEF TypeOK, Length
<1>2. Length' = Length
  BY <1>0 DEF Length
<1>3. CASE i = 0
  <2>1. eRxState = "TYPE" /\ u16Bytes = 0 /\ b = msg.type
    BY <1>3, BodyFacts DEF Fields, Place, TypeOK
  <2>2. eRxState' = "LENMSB" /\ u8Type' = msg.type /\ u16Bytes' = 0
    BY <2>1 DEF RxField
  <2> QED BY <1>0, <1>2, <1>3, <2>2 DEF Fields, Place
<1>4. CASE i = 1
  <2>1. eRxState = "LENMSB" /\ u16Bytes = 0 /\ b = Length \div W /\ u8Type = msg.type
    BY <1>4, BodyFacts DEF Fields, Place, TypeOK, Length
  <2>2. /\ eRxState' = "LENLSB" /\ u8Type' = msg.type /\ u16Bytes' = 0
        /\ u16Length' = (Length \div W) * W
    BY <2>1 DEF RxField
  <2> QED BY <1>0, <1>2, <1>4, <2>2 DEF Fields, Place
<1>5. CASE i = 2
  <2>1. /\ eRxState = "LENLSB" /\ u16Bytes = 0 /\ b = Length % W /\ u8Type = msg.type
        /\ u16Length = (Length \div W) * W
    BY <1>5, BodyFacts DEF Fields, Place, TypeOK, Length
  <2>2. u16Length + b = Length
    BY <1>1, <2>1, LengthFacts
  <2>3. /\ eRxState' = IF u16Length' > MaxLength THEN "START" ELSE "CRC"
        /\ u8Type' = msg.type /\ u16Bytes' = 0 /\ u16Length' = Length
    BY <2>1, <2>2 DEF RxField
  <2>4. eRxState' = "CRC"
    BY <1>1, <2>3, LinkAssumption
  <2> QED BY <1>0, <1>2, <1>5, <2>3, <2>4 DEF Fields, Place
<1>6. CASE i = 3
  <2>1. /\ eRxState = "CRC" /\ u16Bytes = 0 /\ u8Type = msg.type /\ u16Length = Length
        /\ b = CalculateCRC(msg.type, Length, msg.data)
    BY <1>6, BodyFacts DEF Fields, Place, TypeOK, Length
  <2>2. /\ eRxState' = "DATA" /\ u8Type' = msg.type /\ u16Bytes' = 0
        /\ u16Length' = Length /\ u8CRC' = b
    BY <2>1 DEF RxField
  <2> QED BY <1>0, <1>2, <1>6, <2>1, <2>2 DEF Fields, Place
<1>7. CASE i > 3
  <2>1. /\ eRxState = "DATA" /\ u16Bytes = i - 4 /\ u8Type = msg.type /\ u16Length = Length
        /\ u8CRC = CalculateCRC(msg.type, Length, msg.data)
        /\ \A j \in 1 .. i - 4 : u8Message[j] = msg.data[j]
    BY <1>7, <1>1 DEF Fields, Place
  <2>2. i - 3 \in 1 .. Length /\ i + 1 = 4 + (i - 3)
    BY <1>1, <1>7
  <2>3. b = msg.data[i - 3]
    BY <2>2, BodyFacts DEF TypeOK, Length
  <2>4. u16Bytes < u16Length /\ u16Bytes + 1 = i - 3
    BY <1>1, <2>1, <2>2
  <2>5. /\ u8Message' = [u8Message EXCEPT ![i - 3] = b] /\ u16Bytes' = i - 3
        /\ UNCHANGED <<eRxState, u8CRC, u8Type, u16Length>>
    BY <2>1, <2>4 DEF RxField
  <2>6. i - 3 \in 1 .. MaxLength /\ u8Message \in [1 .. MaxLength -> Byte]
    BY <1>1, <2>2, LinkAssumption DEF TypeOK
  <2>7. u8Message'[i - 3] = msg.data[i - 3]
    BY <2>3, <2>5, <2>6
  <2>8. ASSUME NEW j \in 1 .. i - 3 PROVE u8Message'[j] = msg.data[j]
    <3>1. CASE j = i - 3
      BY <2>7, <3>1
    <3>2. CASE j # i - 3
      <4>1. j \in 1 .. i - 4 /\ j \in 1 .. MaxLength
        BY <1>1, <2>6, <3>2, <1>7, LinkAssumption
      <4> QED BY <2>1, <2>5, <2>6, <3>2, <4>1
    <3> QED BY <3>1, <3>2
  <2>9. (i + 1) - 4 = i - 3 /\ i + 1 > 4
    BY <1>7
  <2> HIDE DEF b
  <2>10. eRxState' = Place(i + 1)
    BY <2>1, <2>5, <2>9 DEF Place
  <2>11. /\ u16Bytes' = i - 3 /\ u8Type' = msg'.type /\ u16Length' = Length'
         /\ u8CRC' = CalculateCRC(msg'.type, Length', msg'.data)
    BY <1>0, <1>2, <2>1, <2>5
  <2>12. \A j \in 1 .. (i + 1) - 4 : u8Message'[j] = msg'.data[j]
    BY <1>0, <2>8, <2>9
  <2>13. Fields(i + 1)'
    BY <2>9, <2>10, <2>11, <2>12 DEF Fields
  <2> QED BY <1>0, <2>13
<1>8. i = 0 \/ i = 1 \/ i = 2 \/ i = 3 \/ i > 3
  BY <1>1
<1> QED BY <1>0, <1>3, <1>4, <1>5, <1>6, <1>7, <1>8

\* The byte before which the receiver is.
LEMMA NextByte ==
    ASSUME TypeOK, NEW k \in 1 .. 4 + Length
    PROVE  /\ BodyByte(k) \in Byte /\ 4 + Length - k \in 0 .. 3 + Length
           /\ BodyByte(k) = Body(msg)[(4 + Length - k) + 1]
           /\ Rest(Body(msg))[k] = TxByte(BodyByte(k)) \o Rest(Body(msg))[k - 1]
           /\ Rest(Body(msg))[k - 1] \in Seq(Byte)
<1>1. /\ Length \in Nat /\ Body(msg) \in Seq(Byte) /\ Len(Body(msg)) = 4 + Length
  BY BodyFacts DEF TypeOK, Length
<1>2. /\ 5 + Length - k \in 1 .. Len(Body(msg)) /\ Len(Body(msg)) + 1 - k = 5 + Length - k
      /\ 5 + Length - k = (4 + Length - k) + 1 /\ k - 1 \in 0 .. Len(Body(msg))
      /\ k \in 1 .. Len(Body(msg)) /\ 4 + Length - k \in 0 .. 3 + Length
  BY <1>1
<1>3. BodyByte(k) \in Byte
  BY <1>1, <1>2 DEF BodyByte
<1>4. Rest(Body(msg))[k] = TxByte(BodyByte(k)) \o Rest(Body(msg))[k - 1]
  BY <1>1, <1>2, RestFacts DEF BodyByte
<1>5. Rest(Body(msg))[k - 1] \in Seq(Byte)
  BY <1>1, <1>2, RestFacts
<1> QED BY <1>2, <1>3, <1>4, <1>5 DEF BodyByte

LEMMA ReadingStep ==
    ASSUME TypeOK, Length <= MaxLength, NEW k \in 1 .. 4 + Length, Reading(k), Receive
    PROVE  Reading(k)' \/ Reading(k - 1)'
<1> DEFINE c == BodyByte(k)
           rest == Rest(Body(msg))[k - 1]
<1>i. PICK i \in 0 .. 3 + Length : i = 4 + Length - k
  BY NextByte
<1>1. /\ c \in Byte /\ c = Body(msg)[i + 1]
      /\ Rest(Body(msg))[k] = TxByte(c) \o rest /\ rest \in Seq(Byte)
  BY <1>i, NextByte
<1>2. /\ UNCHANGED <<msg, hit, errors>> /\ line' = Tail(line) /\ RxByte(Head(line))
      /\ received = <<>> /\ Fields(i)
  BY <1>i DEF Receive, Reading
<1>3. Length' = Length /\ BodyByte(k)' = c /\ Body(msg)' = Body(msg) /\ BodyByte(k - 1)' = BodyByte(k - 1)
  BY <1>2 DEF Length, BodyByte
<1>4. Length \in Nat /\ 4 + Length - (k - 1) = i + 1
  BY <1>i, BodyFacts DEF TypeOK, Length
<1>5. ASSUME RxField(c), line' = rest PROVE Reading(k - 1)'
  <2> HIDE DEF c, rest
  <2>1. Fields(i + 1)' /\ bInEsc' = FALSE /\ UNCHANGED received
    <3>1. RxField(Body(msg)[i + 1])
      BY <1>1, <1>5, Zenon
    <3>2. UNCHANGED msg /\ Fields(i)
      BY <1>2
    <3> QED BY <3>1, <3>2, FieldRead, Zenon
  <2> USE DEF c, rest
  <2>2. At(k - 1)'
    BY <1>3, <1>5, <2>1 DEF At
  <2>3. Fields(4 + Length - (k - 1))'
    BY <1>3, <1>4, <2>1
  <2> QED BY <1>2, <2>1, <2>2, <2>3 DEF Reading
<1>6. CASE ~bInEsc /\ c < Ctl
  <2>1. line = <<ESC, Flip(c)>> \o rest
    BY <1>1, <1>6 DEF At, Reading, TxByte
  <2>2. Head(line) = ESC /\ Tail(line) = <<Flip(c)>> \o rest
    <3>1. ESC \in Byte /\ Flip(c) \in Byte
      BY <1>1, FlipFacts, ByteFacts
    <3> QED BY <1>1, <2>1, <3>1
  <2>3. RxEsc
    <3>1. ESC \in Byte /\ ESC # START /\ ESC # END
      BY ByteFacts DEF START, ESC, END
    <3>2. RxByte(ESC)
      BY <1>2, <2>2, Zenon
    <3> QED BY <3>1, <3>2, RxCases, Zenon
  <2>4. Fields(i)'
    BY <1>2, <1>3, <2>3 DEF RxEsc, Fields, Place
  <2>5. At(k)'
    <3>1. bInEsc' /\ k > 0 /\ BodyByte(k)' < Ctl
      BY <1>3, <1>6, <2>3 DEF RxEsc
    <3>2. line' = <<Flip(BodyByte(k)')>> \o Rest(Body(msg)')[k - 1]
      BY <1>2, <1>3, <2>2, Zenon
    <3> QED BY <3>1, <3>2, Zenon DEF At
  <2>6. Fields(4 + Length - k)'
    BY <1>i, <1>3, <2>4
  <2> QED BY <1>2, <2>3, <2>5, <2>6 DEF Reading, RxEsc
<1>7. CASE ~bInEsc /\ c >= Ctl
  <2>1. line = <<c>> \o rest
    <3>1. ~(c < Ctl)
      BY <1>1, <1>7, ByteFacts
    <3>2. line = Rest(Body(msg))[k]
      BY <1>7, Zenon DEF At, Reading
    <3>3. TxByte(c) = <<c>>
      BY <3>1 DEF TxByte
    <3> HIDE DEF c, rest
    <3> QED BY <1>1, <3>2, <3>3
  <2>2. Head(line) = c /\ Tail(line) = rest
    BY <1>1, <2>1
  <2>3. RxField(c)
    <3>1. c \notin {START, ESC, END}
      BY <1>1, <1>7, ByteFacts DEF START, ESC, END
    <3>2. RxByte(c)
      BY <1>2, <2>2, Zenon
    <3>3. RxField(IF bInEsc THEN Flip(c) ELSE c)
      BY <1>1, <3>1, <3>2, RxCases, Zenon
    <3> QED BY <1>7, <3>3, Zenon
  <2> QED BY <1>2, <1>5, <2>2, <2>3
<1>8. CASE bInEsc
  <2>1. c < Ctl /\ line = <<Flip(c)>> \o rest
    BY <1>8 DEF At, Reading
  <2>2. Flip(c) \in Byte /\ Flip(c) >= Ctl /\ Flip(Flip(c)) = c
    BY <1>1, <2>1, FlipFacts
  <2>3. Head(line) = Flip(c) /\ Tail(line) = rest
    BY <1>1, <2>1, <2>2
  <2>4. RxField(c)
    <3>1. Flip(c) \notin {START, ESC, END}
      BY <2>2, ByteFacts DEF START, ESC, END
    <3>2. RxByte(Flip(c))
      BY <1>2, <2>3, Zenon
    <3>3. RxField(IF bInEsc THEN Flip(Flip(c)) ELSE Flip(c))
      BY <2>2, <3>1, <3>2, RxCases, Zenon
    <3>4. RxField(Flip(Flip(c)))
      BY <1>8, <3>3, Zenon
    <3> QED BY <2>2, <3>4, Zenon
  <2> QED BY <1>2, <1>5, <2>3, <2>4
<1>9. c < Ctl \/ c >= Ctl
  BY <1>1, ByteFacts
<1> QED BY <1>6, <1>7, <1>8, <1>9

\* The END of an intact frame delivers it.
LEMMA FrameEnds ==
    ASSUME TypeOK, Length <= MaxLength, Reading(0), Receive
    PROVE  Delivered'
<1>1. /\ Length \in Nat /\ msg.data \in Seq(Byte) /\ Len(msg.data) = Length /\ msg \in Messages
      /\ Body(msg) \in Seq(Byte)
  BY BodyFacts DEF TypeOK, Length
<1>2. line = <<END>>
  <2>1. ~(0 > 0) /\ Rest(Body(msg))[0] = <<END>>
    <3>1. Rest(Body(msg))[0] = <<END>>
      BY <1>1, RestFacts, Zenon
    <3> QED BY <3>1
  <2>2. At(0)
    BY DEF Reading
  <2> QED BY <2>1, <2>2, Zenon DEF At
<1>3. RxEnd /\ line' = <<>> /\ UNCHANGED msg
  <2>1. Head(line) = END /\ Tail(line) = <<>>
    BY <1>2
  <2>2. END \in Byte /\ END # START /\ END # ESC
    BY ByteFacts DEF START, ESC, END
  <2>3. RxByte(END)
    BY <2>1, Zenon DEF Receive
  <2>4. RxEnd
    BY <2>2, <2>3, RxCases, Zenon
  <2> QED BY <2>1, <2>4 DEF Receive
<1>4. /\ u16Length = Length /\ u8Type = msg.type
      /\ u8CRC = CalculateCRC(msg.type, Length, msg.data)
      /\ \A j \in 1 .. Length : u8Message[j] = msg.data[j]
  <2>1. 4 + Length - 0 >= 4 /\ (4 + Length - 0) - 4 = Length
    BY <1>1
  <2>2. Fields(4 + Length)
    <3>1. 4 + Length - 0 = 4 + Length
      BY <1>1
    <3> QED BY <3>1 DEF Reading
  <2>3. 4 + Length >= 4 /\ 4 + Length >= 1 /\ 4 + Length >= 3 /\ (4 + Length) - 4 = Length
    BY <1>1
  <2> QED BY <2>2, <2>3 DEF Fields
<1>5. Payload = msg.data
  <2>1. u8Message \in Seq(Byte) /\ Len(u8Message) = MaxLength
    BY LinkAssumption DEF TypeOK
  <2>2. Payload = [j \in 1 .. Length |-> u8Message[j]]
    BY <1>1, <1>4, <2>1 DEF Payload
  <2>3. msg.data = [j \in 1 .. Length |-> msg.data[j]]
    BY <1>1
  <2> QED BY <1>4, <2>2, <2>3
<1>6. received' = Append(received, [type |-> u8Type, data |-> Payload])
  BY <1>1, <1>3, <1>4, <1>5, LinkAssumption DEF RxEnd
<1>7. msg = [type |-> msg.type, data |-> msg.data]
  BY <1>1, LinkAssumption
<1>8. received' = <<msg>>
  BY <1>4, <1>5, <1>6, <1>7 DEF Reading
<1> QED BY <1>3, <1>8 DEF Delivered

LEMMA SyncStep ==
    ASSUME TypeOK, Sync, [Next]_vars
    PROVE  Sync'
<1>1. ASSUME NEW m \in Messages, Send(m) PROVE Sync'
  BY <1>1 DEF Send, Sync, FrameDue
<1>2. CASE Receive
  <2> SUFFICES ASSUME ~hit', Length' <= MaxLength
               PROVE  FrameDue' \/ (\E k \in 0 .. 4 + Length' : Reading(k)') \/ Delivered'
    BY DEF Sync
  <2>1. UNCHANGED <<msg, hit>> /\ Length' = Length /\ line # <<>>
    BY <1>2 DEF Receive, Length
  <2>2. Length <= MaxLength /\ Length \in Nat /\ ~hit /\ msg \in Messages
    BY <2>1, BodyFacts DEF TypeOK, Length
  <2>3. CASE FrameDue
    <3>1. Head(line) = START /\ Tail(line) = Rest(Body(msg))[4 + Length]
      BY <2>2, <2>3, FrameType, BodyFacts DEF FrameDue, Length
    <3>2. RxStart /\ line' = Rest(Body(msg))[4 + Length]
      <4>1. START \in Byte /\ START # ESC /\ START # END
        BY ByteFacts DEF START, ESC, END
      <4>2. RxByte(START)
        BY <1>2, <3>1, Zenon DEF Receive
      <4>3. RxStart
        BY <4>1, <4>2, RxCases, Zenon
      <4> QED BY <1>2, <3>1, <4>3 DEF Receive
    <3>3. Fields(0)'
      BY <3>2 DEF RxStart, Fields, Place
    <3>4. At(4 + Length)'
      BY <2>1, <3>2 DEF RxStart, At
    <3>5. 4 + Length - (4 + Length) = 0 /\ 4 + Length \in 0 .. 4 + Length
      BY <2>2
    <3>6. Reading(4 + Length)'
      BY <2>1, <2>3, <3>2, <3>3, <3>4, <3>5 DEF Reading, FrameDue, RxStart
    <3> QED BY <2>1, <3>5, <3>6
  <2>4. ASSUME NEW k \in 0 .. 4 + Length, Reading(k)
        PROVE  (\E j \in 0 .. 4 + Length : Reading(j)') \/ Delivered'
    <3>1. CASE k = 0
      BY <1>2, <2>2, <2>4, <3>1, FrameEnds
    <3>2. CASE k # 0
      <4>1. k \in 1 .. 4 + Length /\ k - 1 \in 0 .. 4 + Length
        BY <2>2, <3>2
      <4> QED BY <1>2, <2>2, <2>4, <4>1, ReadingStep
    <3> QED BY <3>1, <3>2
  <2>5. CASE Delivered
    BY <2>1, <2>5 DEF Delivered
  <2> QED BY <2>1, <2>2, <2>3, <2>4, <2>5 DEF Sync
<1>3. CASE Lose
  BY <1>3 DEF Lose, Damage, Sync
<1>4. ASSUME NEW b \in Noise, Change(b) PROVE Sync'
  BY <1>4 DEF Change, Damage, Sync
<1>5. CASE UNCHANGED vars
  BY <1>5 DEF vars, statics, Sync, FrameDue, Reading, Delivered, Fields, At, BodyByte, Length
<1> QED BY <1>1, <1>2, <1>3, <1>4, <1>5 DEF Next

LEMMA SyncDelivers ==
    ASSUME TypeOK, Sync
    PROVE  IntactFrameDelivered
<1> SUFFICES ASSUME line = <<>>, ~hit, Length <= MaxLength PROVE received = <<msg>>
  BY DEF IntactFrameDelivered, Length
<1>1. Length \in Nat /\ msg \in Messages /\ Body(msg) \in Seq(Byte)
  BY BodyFacts DEF TypeOK, Length
<1>2. ~FrameDue
  BY <1>1, FrameType DEF FrameDue
<1>3. ASSUME NEW k \in 0 .. 4 + Length, At(k) PROVE FALSE
  <2>1. CASE k = 0
    <3>1. ~(0 > 0) /\ Rest(Body(msg))[0] = <<END>>
      <4>1. Rest(Body(msg))[0] = <<END>>
        BY <1>1, RestFacts, Zenon
      <4> QED BY <4>1
    <3>2. line = <<END>>
      BY <1>3, <2>1, <3>1, Zenon DEF At
    <3> QED BY <3>2
  <2>2. CASE k # 0
    <3>1. k \in 1 .. 4 + Length
      BY <1>1, <2>2
    <3>2. /\ BodyByte(k) \in Byte /\ Rest(Body(msg))[k - 1] \in Seq(Byte)
          /\ Rest(Body(msg))[k] = TxByte(BodyByte(k)) \o Rest(Body(msg))[k - 1]
      BY <3>1, NextByte
    <3>3. TxByte(BodyByte(k)) \in Seq(Byte) /\ TxByte(BodyByte(k)) # <<>> /\ Flip(BodyByte(k)) \in Byte
      BY <3>2, TxByteType, FlipFacts
    <3>4. Rest(Body(msg))[k] # <<>> /\ <<Flip(BodyByte(k))>> \o Rest(Body(msg))[k - 1] # <<>>
      BY <3>2, <3>3
    <3> QED BY <1>3, <3>4 DEF At
  <2> QED BY <2>1, <2>2
<1> QED BY <1>2, <1>3 DEF Sync, Reading, Delivered

\* bSL_ReadMessage delivers an intact frame exactly once and as it was sent,
\* whatever was left of the frames before it: for bytes of any width,
\* messages of any content and length that fits, and any number of errors.
THEOREM LinkDelivers == Spec => []IntactFrameDelivered
<1>1. Init => Sync
  BY DEF Init, Sync
<1>2. TypeOK /\ Counted /\ Sync /\ [Next]_vars => Sync'
  BY SyncStep
<1>3. TypeOK /\ Counted /\ Sync => IntactFrameDelivered
  BY SyncDelivers
<1> QED BY <1>1, <1>2, <1>3, LinkBounds, PTL DEF Spec

-----------------------------------------------------------------------------
(* The clock.  The inductive invariant ties the program's place in a call, *)
(* the driver's place in a transaction and the chip's pointer together.    *)

\* Registers the chip can hold: only register 0 has a flag.
Sane(regs) ==
    /\ regs \in [0 .. 7 -> Nat]
    /\ regs[0] < 256 /\ regs[0] % 128 <= Last[0]
    /\ \A r \in {1, 2, 4, 5, 6} : regs[r] <= Last[r]

ChipOK ==
    /\ chip \in [regs : [0 .. 7 -> Nat], pointer : 0 .. 7, copy : [0 .. 7 -> Nat]]
    /\ Sane(chip.regs) /\ Sane(chip.copy)

\* What a transaction writes: a register, then values it and the next can hold.
Legal(w) ==
    \/ w = <<>>
    \/ w = <<0>>
    \/ \E r \in {4, 5, 6} : \E v \in 0 .. Last[r] : w = <<r, v>>
    \/ \E v \in 0 .. Last[2], d \in {8, 9} : w = <<2, v, d>>
    \/ \E v \in 0 .. Last[1] : w = <<0, 128, v>>

Results == {"UNKNOWN", "OK", "NACK_RECEIVED", "BUS_ERROR", "ARBITRATION_LOST", "FAIL",
            "BUFFER_OVERFLOW"}
TwiType == [status : {"READY", "BUSY"}, result : Results, write : Seq(Nat),
            bytesToRead : Nat, bytesWritten : Nat, bytesRead : Nat,
            readData : [0 .. BufferSize - 1 -> Nat]]
TwiOK ==
    /\ twi \in TwiType
    /\ Legal(twi.write)

\* Where a transaction is: the driver is READY when and only when the bus is
\* idle, and the chip's pointer follows the bytes written.
BusOK ==
    /\ bus \in {"idle", "address", "data", "read address", "receive"}
    /\ twi.status = "READY" <=> bus = "idle"
    /\ bus \in {"address", "data"} =>
           twi.write # <<>> /\ twi.bytesToRead = 0 /\ twi.bytesRead = 0
    /\ bus = "address" => twi.bytesWritten = 0
    /\ bus = "data" =>
           /\ twi.bytesWritten \in 1 .. Len(twi.write)
           /\ twi.bytesWritten = 2 => chip.pointer = twi.write[1]
           /\ twi.bytesWritten = 3 => chip.pointer = Advance(twi.write[1])
    /\ bus \in {"read address", "receive"} =>
           twi.write = <<>> /\ twi.bytesToRead = 7 /\ twi.bytesWritten = 0
    /\ bus = "read address" => twi.bytesRead = 0
    /\ bus = "receive" => twi.bytesRead \in 1 .. 6

\* The n-th transaction of a setting, and those after it.
Nth(t, w, n) ==
    CASE n = 1 -> <<6, t[6]>>
      [] n = 2 -> <<5, t[5]>>
      [] n = 3 -> <<4, t[4]>>
      [] n = 4 -> <<2, t[2], w>>
      [] n = 5 -> <<0, 128, t[1]>>
After(t, w, n) ==
    CASE n = 0 -> Setting(t, w)
      [] n = 1 -> << Transaction(<<5, t[5]>>, 0), Transaction(<<4, t[4]>>, 0),
                     Transaction(<<2, t[2], w>>, 0), Transaction(<<0, 128, t[1]>>, 0) >>
      [] n = 2 -> << Transaction(<<4, t[4]>>, 0), Transaction(<<2, t[2], w>>, 0),
                     Transaction(<<0, 128, t[1]>>, 0) >>
      [] n = 3 -> << Transaction(<<2, t[2], w>>, 0), Transaction(<<0, 128, t[1]>>, 0) >>
      [] n = 4 -> << Transaction(<<0, 128, t[1]>>, 0) >>
      [] n = 5 -> <<>>

Setters == {"client", "console", "default"}

\* n transactions of the setting have begun; the value of the i-th is stored.
SetAt(w, n) ==
    /\ todo = After(wanted, w, n)
    /\ n = 0 => bus = "idle"
    /\ n # 0 => twi.write = Nth(wanted, w, n) /\ twi.bytesToRead = 0
Through(n, i) == n > i \/ (n = i /\ (bus = "idle" \/ (bus = "data" /\ twi.bytesWritten = 3)))
Holds(n) ==
    /\ Through(n, 1) => chip.regs[6] = wanted[6]
    /\ Through(n, 2) => chip.regs[5] = wanted[5]
    /\ Through(n, 3) => chip.regs[4] = wanted[4]
    /\ Through(n, 4) => chip.regs[2] = wanted[2]
    /\ Through(n, 5) => Running(chip)
SetInv ==
    call \in Setters =>
        \E w \in {8, 9}, n \in 0 .. 5 : SetAt(w, n) /\ (clean /\ ~carried => Holds(n))

\* The first bytes read are the chip's copy, which is of this call.
Copied(n) ==
    /\ \A i \in 0 .. n - 1 : twi.readData[i] = chip.copy[i]
    /\ TimeOf(chip.copy) \in seen
    /\ chip.copy[0] >= 128 <=> Running(chip)

GetPoints ==
    /\ todo = <<Transaction(<<>>, 7)>>
    /\ twi.write = <<0>> /\ twi.bytesToRead = 0
    /\ clean /\ bus = "idle" => chip.pointer = 0
GetReads ==
    /\ todo = <<>>
    /\ twi.write = <<>> /\ twi.bytesToRead = 7
    /\ clean =>
         /\ bus = "read address" => chip.pointer = 0
         /\ bus = "receive" => chip.pointer = twi.bytesRead /\ Copied(twi.bytesRead)
         /\ bus = "idle" => Copied(7)
GetInv ==
    call = "get" =>
        /\ TimeOf(chip.regs) \in seen
        /\ (todo = GetTime /\ bus = "idle") \/ GetPoints \/ GetReads

ProgramOK ==
    /\ call \in {"idle", "get"} \cup Setters
    /\ call = "idle" => todo = <<>> /\ bus = "idle"
    /\ error_clock \in BOOLEAN /\ clean \in BOOLEAN /\ carried \in BOOLEAN
    /\ wanted \in Times \cup {Default}

ClockInv == ChipOK /\ TwiOK /\ BusOK /\ ProgramOK /\ SetInv /\ GetInv

-----------------------------------------------------------------------------
(* Constants, registers and transactions.                                  *)

ClockTimes == Times \cup {Default}

\* What the assumption says of a register and of a time.
LEMMA ClockConstants ==
    /\ \A r \in {0, 1, 2, 4, 5, 6} : Last[r] \in Nat
    /\ Last[0] < 128 /\ Last[1] < 128 /\ Last[2] < 64
    /\ Last[4] < 64 /\ Last[5] < 32 /\ Last[6] < 256
    /\ Last[2] > 0
    /\ \A t \in ClockTimes : \A r \in {0, 1, 2, 4, 5, 6} : t[r] \in 0 .. Last[r]
    /\ BufferSize \in Nat /\ BufferSize >= 7
<1>1. \A t \in ClockTimes : t \in [TimeRegs -> Nat] /\ \A r \in TimeRegs : t[r] <= Last[r]
  BY ClockAssumption DEF ClockTimes
<1>2. \A r \in TimeRegs : Last[r] \in Nat /\ Last[r] < Mask(r)
  BY ClockAssumption
<1>3. /\ Mask(0) = 128 /\ Mask(1) = 128 /\ Mask(2) = 64
      /\ Mask(4) = 64 /\ Mask(5) = 32 /\ Mask(6) = 256
  BY DEF Mask
<1>4. \A r \in {0, 1, 2, 4, 5, 6} : r \in TimeRegs
  BY DEF TimeRegs
<1>5. \A t \in ClockTimes : \A r \in {0, 1, 2, 4, 5, 6} : t[r] \in 0 .. Last[r]
  BY <1>1, <1>2, <1>4
<1>6. /\ Last[0] < 128 /\ Last[1] < 128 /\ Last[2] < 64
      /\ Last[4] < 64 /\ Last[5] < 32 /\ Last[6] < 256
  BY <1>2, <1>3, <1>4
<1> QED BY <1>2, <1>4, <1>5, <1>6, ClockAssumption

\* A register that is due moves on, and no other does.
AllAtLast(regs, r) == \A q \in TimeRegs : q < r => ~(Value(regs, q) < Last[q])

LEMMA LaterRegister ==
    ASSUME NEW regs, DOMAIN regs = 0 .. 7, NEW r \in 0 .. 7
    PROVE  Later(regs)[r] = IF r \in TimeRegs /\ AllAtLast(regs, r)
                            THEN IF Value(regs, r) < Last[r] THEN regs[r] + 1
                                 ELSE regs[r] - Value(regs, r)
                            ELSE regs[r]
<1> DEFINE value == Value(regs, r)
           moved == IF value < Last[r] THEN regs[r] + 1 ELSE regs[r] - value
           kept == r \notin TimeRegs \/ \E q \in TimeRegs : q < r /\ Value(regs, q) < Last[q]
<1>1. Later(regs)[r] = CASE kept -> regs[r] [] OTHER -> moved
  BY DEF Later
<1>2. kept <=> ~(r \in TimeRegs /\ AllAtLast(regs, r))
  BY Zenon DEF AllAtLast
<1> HIDE DEF kept, moved
<1>3. CASE kept
  <2>1. Later(regs)[r] = regs[r]
    BY <1>1, <1>3
  <2> QED BY <1>2, <1>3, <2>1, Zenon
<1>4. CASE ~kept
  <2>1. Later(regs)[r] = moved
    BY <1>1, <1>4
  <2> QED BY <1>2, <1>4, <2>1, Zenon DEF moved
<1> QED BY <1>3, <1>4

\* Time that passes keeps the registers sane and the chip running, and leaves
\* date, month and year alone as long as the hour stays.
LEMMA LaterSane ==
    ASSUME NEW regs, Sane(regs)
    PROVE  /\ Sane(Later(regs))
           /\ Later(regs)[0] >= 128 <=> regs[0] >= 128
           /\ Later(regs)[2] = regs[2] => \A r \in {4, 5, 6} : Later(regs)[r] = regs[r]
<1>0. regs \in [0 .. 7 -> Nat] /\ DOMAIN regs = 0 .. 7
  BY DEF Sane
<1>1. \A r \in 0 .. 7 : Later(regs)[r] = IF r \in TimeRegs /\ AllAtLast(regs, r)
                            THEN IF Value(regs, r) < Last[r] THEN regs[r] + 1
                                 ELSE regs[r] - Value(regs, r)
                            ELSE regs[r]
  BY <1>0, LaterRegister
<1>2. \A r \in {1, 2, 4, 5, 6} : Value(regs, r) = regs[r] /\ regs[r] \in 0 .. Last[r]
  BY <1>0, ClockConstants DEF Sane, Value
<1>3. \A r \in {1, 2, 4, 5, 6} : Later(regs)[r] \in 0 .. Last[r]
  BY <1>0, <1>1, <1>2, ClockConstants
<1>4. /\ Later(regs)[0] \in Nat /\ Later(regs)[0] < 256 /\ Later(regs)[0] % 128 <= Last[0]
      /\ Later(regs)[0] >= 128 <=> regs[0] >= 128
  <2>1. /\ regs[0] \in Nat /\ regs[0] < 256 /\ regs[0] % 128 <= Last[0]
        /\ Last[0] \in Nat /\ Last[0] < 128
    BY <1>0, ClockConstants DEF Sane
  <2>2. \/ Later(regs)[0] = regs[0]
        \/ regs[0] % 128 < Last[0] /\ Later(regs)[0] = regs[0] + 1
        \/ Later(regs)[0] = regs[0] - (regs[0] % 128)
    <3>1. Value(regs, 0) = regs[0] % 128
      BY DEF Value
    <3> QED BY <1>1, <3>1
  <2> QED BY <2>1, <2>2
<1>5. Later(regs)[3] = regs[3] /\ Later(regs)[7] = regs[7]
  BY <1>1 DEF TimeRegs
<1>6. Later(regs) \in [0 .. 7 -> Nat]
  <2>1. \A r \in 0 .. 7 : r \in {0, 1, 2, 4, 5, 6} \/ r = 3 \/ r = 7
    OBVIOUS
  <2>2. \A r \in 0 .. 7 : Later(regs)[r] \in Nat
    BY <1>0, <1>3, <1>4, <1>5, <2>1, ClockConstants
  <2>3. \E e : Later(regs) = [r \in 0 .. 7 |-> e[r]]
    <3> DEFINE f == [r \in DOMAIN regs |-> Later(regs)[r]]
    <3>1. Later(regs) = f
      BY DEF Later
    <3> QED BY <1>0, <3>1
  <2> QED BY <2>2, <2>3
<1>7. ASSUME NEW r \in {4, 5, 6}, Later(regs)[2] = regs[2] PROVE Later(regs)[r] = regs[r]
  <2> SUFFICES ASSUME AllAtLast(regs, r) PROVE FALSE
    BY <1>1
  <2>0. 2 \in TimeRegs /\ 2 < r /\ r \in Int
    BY DEF TimeRegs
  <2>1. Value(regs, 2) >= Last[2]
    <3>1. ~(Value(regs, 2) < Last[2])
      BY <2>0, Zenon DEF AllAtLast
    <3> QED BY <3>1, <1>2, ClockConstants
  <2>2. AllAtLast(regs, 2)
    <3>1. \A q \in TimeRegs : q < 2 => q < r
      BY <2>0 DEF TimeRegs
    <3> QED BY <3>1, Zenon DEF AllAtLast
  <2>3. Later(regs)[2] = regs[2] - Value(regs, 2)
    BY <1>1, <1>2, <2>0, <2>1, <2>2, ClockConstants
  <2>4. Later(regs)[2] = 0 /\ regs[2] >= Last[2]
    BY <1>2, <2>1, <2>3, ClockConstants
  <2> QED BY <1>7, <2>4, ClockConstants
<1> QED BY <1>3, <1>4, <1>6, <1>7, ClockConstants DEF Sane

\* What is written is one to three bytes.
LEMMA LegalFacts ==
    ASSUME NEW w, Legal(w)
    PROVE  /\ w \in Seq(Nat) /\ Len(w) \in 0 .. 3
           /\ w = <<>> <=> Len(w) = 0
           /\ Len(w) > 0 => w[1] \in 0 .. 6
<1>0. CASE w = <<>>
  <2>1. <<>> \in Seq(Nat) /\ Len(<<>>) = 0
    OBVIOUS
  <2>2. w \in Seq(Nat) /\ Len(w) = 0
    BY <1>0, <2>1, Zenon
  <2> QED BY <1>0, <2>2
<1>1. CASE w = <<0>>
  BY <1>1
<1>2. ASSUME NEW r \in {4, 5, 6}, NEW v \in 0 .. Last[r], w = <<r, v>>
      PROVE  w \in Seq(Nat) /\ Len(w) = 2 /\ w[1] \in 0 .. 6 /\ w # <<>>
  BY <1>2, ClockConstants
<1>3. ASSUME NEW v \in 0 .. Last[2], NEW d \in {8, 9}, w = <<2, v, d>>
      PROVE  w \in Seq(Nat) /\ Len(w) = 3 /\ w[1] \in 0 .. 6 /\ w # <<>>
  BY <1>3, ClockConstants
<1>4. ASSUME NEW v \in 0 .. Last[1], w = <<0, 128, v>>
      PROVE  w \in Seq(Nat) /\ Len(w) = 3 /\ w[1] \in 0 .. 6 /\ w # <<>>
  BY <1>4, ClockConstants
<1> QED BY <1>0, <1>1, <1>2, <1>3, <1>4 DEF Legal

ChipType == [regs : [0 .. 7 -> Nat], pointer : 0 .. 7, copy : [0 .. 7 -> Nat]]

\* The first byte of a write moves the pointer only.
LEMMA StoredFirst ==
    ASSUME NEW c \in ChipType, NEW b \in 0 .. 7
    PROVE  /\ Stored(c, 1, b) \in ChipType /\ Stored(c, 1, b).regs = c.regs
           /\ Stored(c, 1, b).pointer = b /\ Stored(c, 1, b).copy = c.copy
  BY DEF Stored, ChipType

\* The others are stored, and advance it.
LEMMA StoredNext ==
    ASSUME NEW c \in ChipType, NEW i \in Nat, i # 1, NEW b \in Nat
    PROVE  /\ Stored(c, i, b) \in ChipType
           /\ Stored(c, i, b).regs = [c.regs EXCEPT ![c.pointer] = b]
           /\ Stored(c, i, b).pointer = Advance(c.pointer)
           /\ Stored(c, i, b).copy = c.copy
<1>1. Advance(c.pointer) \in 0 .. 7
  BY DEF Advance, ChipType
<1>2. Stored(c, i, b) = [c EXCEPT !.regs[c.pointer] = b, !.pointer = Advance(@)]
  BY DEF Stored
<1> QED BY <1>1, <1>2 DEF ChipType

\* A register written with a value it can hold.
LEMMA SaneWith ==
    ASSUME NEW regs, Sane(regs), NEW v \in Nat
    PROVE  /\ \A r \in {1, 2, 4, 5, 6} : v <= Last[r] => Sane([regs EXCEPT ![r] = v])
           /\ Sane([regs EXCEPT ![3] = v])
           /\ v = 128 => Sane([regs EXCEPT ![0] = v])
<1>0. regs \in [0 .. 7 -> Nat]
  BY DEF Sane
<1>1. \A r \in {1, 2, 4, 5, 6} : v <= Last[r] => Sane([regs EXCEPT ![r] = v])
  BY <1>0 DEF Sane
<1>2. Sane([regs EXCEPT ![3] = v])
  BY <1>0 DEF Sane
<1>3. v = 128 => Sane([regs EXCEPT ![0] = v])
  BY <1>0, ClockConstants DEF Sane
<1> QED BY <1>1, <1>2, <1>3

\* What a legal write stores keeps the registers sane.
LEMMA StoredSane ==
    ASSUME NEW regs, Sane(regs), NEW w, Legal(w), NEW i \in 2 .. Len(w), NEW p,
           p = IF i = 2 THEN w[1] ELSE Advance(w[1])
    PROVE  Sane([regs EXCEPT ![p] = w[i]])
<1>0. CASE w = <<>>
  BY <1>0, LegalFacts
<1>1. CASE w = <<0>>
  BY <1>1
<1>2. ASSUME NEW r \in {4, 5, 6}, NEW v \in 0 .. Last[r], w = <<r, v>>
      PROVE  Sane([regs EXCEPT ![p] = w[i]])
  <2>1. i = 2 /\ p = r /\ w[i] = v /\ v \in Nat /\ v <= Last[r]
    BY <1>2, ClockConstants
  <2>2. Sane([regs EXCEPT ![r] = v])
    BY <2>1, SaneWith
  <2> QED BY <2>1, <2>2, Zenon
<1>3. ASSUME NEW v \in 0 .. Last[2], NEW d \in {8, 9}, w = <<2, v, d>>
      PROVE  Sane([regs EXCEPT ![p] = w[i]])
  <2>1. i = 2 \/ i = 3
    BY <1>3
  <2>2. CASE i = 2
    <3>1. p = 2 /\ w[i] = v /\ v \in Nat /\ v <= Last[2]
      BY <1>3, <2>2, ClockConstants
    <3>2. Sane([regs EXCEPT ![2] = v])
      BY <3>1, SaneWith
    <3> QED BY <3>1, <3>2, Zenon
  <2>3. CASE i = 3
    <3>1. p = 3 /\ w[i] = d /\ d \in Nat
      BY <1>3, <2>3 DEF Advance
    <3>2. Sane([regs EXCEPT ![3] = d])
      BY <3>1, SaneWith
    <3> QED BY <3>1, <3>2, Zenon
  <2> QED BY <2>1, <2>2, <2>3
<1>4. ASSUME NEW v \in 0 .. Last[1], w = <<0, 128, v>>
      PROVE  Sane([regs EXCEPT ![p] = w[i]])
  <2>1. i = 2 \/ i = 3
    BY <1>4
  <2>2. CASE i = 2
    <3>1. p = 0 /\ w[i] = 128 /\ 128 \in Nat
      BY <1>4, <2>2
    <3>2. Sane([regs EXCEPT ![0] = 128])
      BY <3>1, SaneWith
    <3> QED BY <3>1, <3>2, Zenon
  <2>3. CASE i = 3
    <3>1. p = 1 /\ w[i] = v /\ v \in Nat /\ v <= Last[1]
      BY <1>4, <2>3, ClockConstants DEF Advance
    <3>2. Sane([regs EXCEPT ![1] = v])
      BY <3>1, SaneWith
    <3> QED BY <3>1, <3>2, Zenon
  <2> QED BY <2>1, <2>2, <2>3
<1> QED BY <1>0, <1>1, <1>2, <1>3, <1>4 DEF Legal

-----------------------------------------------------------------------------
(* The transactions of a call, one after the other.                        *)

\* The two transactions of get_time.
LEMMA GetTimeParts ==
    /\ GetTime # <<>>
    /\ Head(GetTime) = Transaction(<<0>>, 0)
    /\ Tail(GetTime) = <<Transaction(<<>>, 7)>>
    /\ <<Transaction(<<>>, 7)>> # <<>>
    /\ Head(<<Transaction(<<>>, 7)>>) = Transaction(<<>>, 7)
    /\ Tail(<<Transaction(<<>>, 7)>>) = <<>>
    /\ GetTime # <<Transaction(<<>>, 7)>>
<1>1. ASSUME NEW a, NEW b
      PROVE  /\ <<a, b>> # <<>> /\ Head(<<a, b>>) = a /\ Tail(<<a, b>>) = <<b>>
             /\ <<b>> # <<>> /\ Head(<<b>>) = b /\ Tail(<<b>>) = <<>>
             /\ <<a, b>> # <<b>>
  OBVIOUS
<1> QED BY <1>1, Zenon DEF GetTime

\* Taking five elements of a sequence one by one.
LEMMA FiveParts ==
    ASSUME NEW a, NEW b, NEW c, NEW d, NEW e
    PROVE  /\ Head(<<a, b, c, d, e>>) = a /\ Tail(<<a, b, c, d, e>>) = <<b, c, d, e>>
           /\ Head(<<b, c, d, e>>) = b /\ Tail(<<b, c, d, e>>) = <<c, d, e>>
           /\ Head(<<c, d, e>>) = c /\ Tail(<<c, d, e>>) = <<d, e>>
           /\ Head(<<d, e>>) = d /\ Tail(<<d, e>>) = <<e>>
           /\ Head(<<e>>) = e /\ Tail(<<e>>) = <<>>
           /\ <<a, b, c, d, e>> # <<>> /\ <<b, c, d, e>> # <<>> /\ <<c, d, e>> # <<>>
           /\ <<d, e>> # <<>> /\ <<e>> # <<>>
  OBVIOUS

\* After n transactions of a setting, the next is its (n + 1)-th.
LEMMA AfterParts ==
    ASSUME NEW t, NEW w, NEW n \in 0 .. 4
    PROVE  /\ After(t, w, n) # <<>>
           /\ Head(After(t, w, n)) = Transaction(Nth(t, w, n + 1), 0)
           /\ Tail(After(t, w, n)) = After(t, w, n + 1)
<1> DEFINE a == Transaction(<<6, t[6]>>, 0)
           b == Transaction(<<5, t[5]>>, 0)
           c == Transaction(<<4, t[4]>>, 0)
           d == Transaction(<<2, t[2], w>>, 0)
           e == Transaction(<<0, 128, t[1]>>, 0)
<1>1. /\ After(t, w, 0) = <<a, b, c, d, e>> /\ After(t, w, 1) = <<b, c, d, e>>
      /\ After(t, w, 2) = <<c, d, e>> /\ After(t, w, 3) = <<d, e>>
      /\ After(t, w, 4) = <<e>> /\ After(t, w, 5) = <<>>
  BY DEF After, Setting
<1>2. /\ Transaction(Nth(t, w, 1), 0) = a /\ Transaction(Nth(t, w, 2), 0) = b
      /\ Transaction(Nth(t, w, 3), 0) = c /\ Transaction(Nth(t, w, 4), 0) = d
      /\ Transaction(Nth(t, w, 5), 0) = e
  BY DEF Nth
<1> HIDE DEF a, b, c, d, e
<1>5. /\ Head(<<a, b, c, d, e>>) = a /\ Tail(<<a, b, c, d, e>>) = <<b, c, d, e>>
      /\ Head(<<b, c, d, e>>) = b /\ Tail(<<b, c, d, e>>) = <<c, d, e>>
      /\ Head(<<c, d, e>>) = c /\ Tail(<<c, d, e>>) = <<d, e>>
      /\ Head(<<d, e>>) = d /\ Tail(<<d, e>>) = <<e>>
      /\ Head(<<e>>) = e /\ Tail(<<e>>) = <<>>
      /\ <<a, b, c, d, e>> # <<>> /\ <<b, c, d, e>> # <<>> /\ <<c, d, e>> # <<>>
      /\ <<d, e>> # <<>> /\ <<e>> # <<>>
  BY FiveParts
<1>3. n = 0 \/ n = 1 \/ n = 2 \/ n = 3 \/ n = 4
  OBVIOUS
<1>4. 0 + 1 = 1 /\ 1 + 1 = 2 /\ 2 + 1 = 3 /\ 3 + 1 = 4 /\ 4 + 1 = 5
  OBVIOUS
<1>a. CASE n = 0
  <2>1. n + 1 = 1
    BY <1>a
  <2>2. After(t, w, n) = <<a, b, c, d, e>> /\ After(t, w, n + 1) = <<b, c, d, e>>
    BY <1>a, <2>1, <1>1, Zenon
  <2>3. Transaction(Nth(t, w, n + 1), 0) = a
    BY <2>1, <1>2, Zenon
  <2> QED BY <2>2, <2>3, <1>5, Zenon
<1>b. CASE n = 1
  <2>1. n + 1 = 2
    BY <1>b
  <2>2. After(t, w, n) = <<b, c, d, e>> /\ After(t, w, n + 1) = <<c, d, e>>
    BY <1>b, <2>1, <1>1, Zenon
  <2>3. Transaction(Nth(t, w, n + 1), 0) = b
    BY <2>1, <1>2, Zenon
  <2> QED BY <2>2, <2>3, <1>5, Zenon
<1>c. CASE n = 2
  <2>1. n + 1 = 3
    BY <1>c
  <2>2. After(t, w, n) = <<c, d, e>> /\ After(t, w, n + 1) = <<d, e>>
    BY <1>c, <2>1, <1>1, Zenon
  <2>3. Transaction(Nth(t, w, n + 1), 0) = c
    BY <2>1, <1>2, Zenon
  <2> QED BY <2>2, <2>3, <1>5, Zenon
<1>d. CASE n = 3
  <2>1. n + 1 = 4
    BY <1>d
  <2>2. After(t, w, n) = <<d, e>> /\ After(t, w, n + 1) = <<e>>
    BY <1>d, <2>1, <1>1, Zenon
  <2>3. Transaction(Nth(t, w, n + 1), 0) = d
    BY <2>1, <1>2, Zenon
  <2> QED BY <2>2, <2>3, <1>5, Zenon
<1>e. CASE n = 4 BY <1>e, <1>1, <1>2, <1>4, FiveParts, Zenon
<1> QED BY <1>3, <1>a, <1>b, <1>c, <1>d, <1>e

\* Nothing is left only after the fifth transaction.
LEMMA AfterEnds ==
    ASSUME NEW t, NEW w, NEW n \in 0 .. 5, After(t, w, n) = <<>>
    PROVE  n = 5
  BY AfterParts

\* Each of them writes a register and values it can hold.
LEMMA NthLegal ==
    ASSUME NEW t \in ClockTimes, NEW w \in {8, 9}, NEW n \in 1 .. 5
    PROVE  Legal(Nth(t, w, n)) /\ Nth(t, w, n) # <<>>
<1>0. \A r \in {0, 1, 2, 4, 5, 6} : t[r] \in 0 .. Last[r]
  BY ClockConstants
<1>1. n = 1 \/ n = 2 \/ n = 3 \/ n = 4 \/ n = 5
  OBVIOUS
<1>2. ASSUME NEW x, NEW y, NEW z PROVE <<x, y>> # <<>> /\ <<x, y, z>> # <<>>
  OBVIOUS
<1>3. ASSUME NEW r \in {4, 5, 6} PROVE Legal(<<r, t[r]>>)
  BY <1>0, Zenon DEF Legal
<1>4. Legal(<<2, t[2], w>>)
  BY <1>0, Zenon DEF Legal
<1>5. Legal(<<0, 128, t[1]>>)
  BY <1>0, Zenon DEF Legal
<1>a. CASE n = 1
  <2>1. Nth(t, w, n) = <<6, t[6]>> BY <1>a DEF Nth
  <2> QED BY <2>1, <1>2, <1>3, Zenon
<1>b. CASE n = 2
  <2>1. Nth(t, w, n) = <<5, t[5]>> BY <1>b DEF Nth
  <2> QED BY <2>1, <1>2, <1>3, Zenon
<1>c. CASE n = 3
  <2>1. Nth(t, w, n) = <<4, t[4]>> BY <1>c DEF Nth
  <2> QED BY <2>1, <1>2, <1>3, Zenon
<1>d. CASE n = 4
  <2>1. Nth(t, w, n) = <<2, t[2], w>> BY <1>d DEF Nth
  <2> QED BY <2>1, <1>2, <1>4, Zenon
<1>e. CASE n = 5
  <2>1. Nth(t, w, n) = <<0, 128, t[1]>> BY <1>e DEF Nth
  <2> QED BY <2>1, <1>2, <1>5, Zenon
<1> QED BY <1>1, <1>a, <1>b, <1>c, <1>d, <1>e

-----------------------------------------------------------------------------
(* The driver's operators.                                                 *)

\* A READY driver accepts a transaction and begins it.
LEMMA WriteReadFacts ==
    ASSUME NEW t \in TwiType, t.status = "READY", NEW w, Legal(w), NEW n \in 0 .. 7,
           NEW u, u = WriteRead(t, Transaction(w, n))
    PROVE  /\ u \in TwiType /\ u # t
           /\ u.status = "BUSY" /\ u.write = w /\ u.bytesToRead = n
           /\ u.bytesWritten = 0 /\ u.bytesRead = 0 /\ u.readData = t.readData
<1>1. w \in Seq(Nat) /\ Len(w) \in 0 .. 3
  BY LegalFacts
<1> DEFINE x == Transaction(w, n)
<1>2. x.write = w /\ x.read = n
  BY DEF Transaction
<1>3. u = WriteRead(t, x)
  OBVIOUS
<1> HIDE DEF x
<1>4. ~(Len(x.write) > BufferSize) /\ ~(x.read > BufferSize) /\ ~(t.status # "READY")
  <2>0. BufferSize \in Nat /\ BufferSize >= 7
    BY ClockConstants
  <2>1. Len(w) \in Int /\ Len(w) <= BufferSize /\ n <= BufferSize
    <3>1. PICK l \in 0 .. 3 : l = Len(w)
      BY <1>1, Zenon
    <3>2. l \in Int /\ l <= BufferSize /\ n <= BufferSize
      BY <2>0
    <3> QED BY <3>1, <3>2, Zenon
  <2>2. ~(Len(w) > BufferSize) /\ ~(n > BufferSize)
    BY <2>0, <2>1
  <2> QED BY <1>2, <2>2, Zenon
<1>5. u = [t EXCEPT !.status = "BUSY", !.result = "UNKNOWN", !.write = x.write,
                   !.bytesToRead = x.read, !.bytesWritten = 0, !.bytesRead = 0]
  BY <1>3, <1>4, Zenon DEF WriteRead
<1>6. x.write \in Seq(Nat) /\ x.read \in Nat
  BY <1>1, <1>2
<1>7. /\ u.status = "BUSY" /\ u.write = x.write /\ u.bytesToRead = x.read
      /\ u.bytesWritten = 0 /\ u.bytesRead = 0 /\ u.readData = t.readData
  BY <1>5 DEF TwiType
<1>8. u \in TwiType
  <2>1. "UNKNOWN" \in Results
    BY DEF Results
  <2>2. t.readData \in [0 .. BufferSize - 1 -> Nat]
    BY DEF TwiType
  <2>3. u = [status |-> "BUSY", result |-> "UNKNOWN", write |-> x.write,
             bytesToRead |-> x.read, bytesWritten |-> 0, bytesRead |-> 0,
             readData |-> t.readData]
    BY <1>5 DEF TwiType
  <2> QED BY <1>6, <2>1, <2>2, <2>3 DEF TwiType
<1> QED BY <1>2, <1>7, <1>8

\* A transaction that ends leaves its bytes in place.
LEMMA FinishedFacts ==
    ASSUME NEW t \in TwiType, NEW result \in Results, NEW u, u = Finished(t, result)
    PROVE  /\ u \in TwiType /\ u.status = "READY" /\ u.write = t.write
           /\ u.bytesToRead = t.bytesToRead /\ u.bytesWritten = t.bytesWritten
           /\ u.bytesRead = t.bytesRead /\ u.readData = t.readData
<1>1. u = [t EXCEPT !.status = "READY", !.result = result]
  BY DEF Finished
<1> QED BY <1>1 DEF TwiType

\* An interrupt of a write goes on to the next byte, or ends it.
LEMMA WriteHandlerFacts ==
    ASSUME NEW t \in TwiType, t.bytesToRead = 0, NEW i \in 0 .. Len(t.write),
           i = t.bytesWritten, NEW h, h = WriteHandler(t)
    PROVE  /\ h.t \in TwiType /\ h.t.write = t.write
           /\ h.t.bytesToRead = 0 /\ h.t.bytesRead = t.bytesRead
           /\ i < Len(t.write) => /\ h.order = "data" /\ h.t.status = t.status
                                 /\ h.t.bytesWritten = i + 1
           /\ i = Len(t.write) => h.order = "idle" /\ h.t.status = "READY"
<1>1. Len(t.write) \in Nat /\ t.bytesRead \in Nat
  BY DEF TwiType
<1>2. CASE i < Len(t.write)
  <2>1. ~(i = Len(t.write)) /\ i + 1 \in Nat
    BY <1>1, <1>2
  <2>2. h = [t |-> [t EXCEPT !.bytesWritten = @ + 1], order |-> "data"]
    BY <1>2, <2>1, Zenon DEF WriteHandler
  <2>3. h.t = [t EXCEPT !.bytesWritten = i + 1] /\ h.order = "data"
    BY <2>2
  <2> QED BY <1>2, <2>1, <2>3 DEF TwiType
<1>3. CASE i = Len(t.write)
  <2>1. ~(i < Len(t.write)) /\ ~(t.bytesRead < t.bytesToRead)
    BY <1>1, <1>3
  <2>2. h = [t |-> Finished(t, "OK"), order |-> "idle"]
    BY <2>1, Zenon DEF WriteHandler
  <2>3. h.t = Finished(t, "OK") /\ h.order = "idle"
    BY <2>2
  <2>4. "OK" \in Results
    BY DEF Results
  <2>5. PICK u : u = Finished(t, "OK")
    OBVIOUS
  <2>6. /\ u \in TwiType /\ u.status = "READY" /\ u.write = t.write
        /\ u.bytesToRead = t.bytesToRead /\ u.bytesRead = t.bytesRead
    BY <2>4, <2>5, FinishedFacts
  <2> QED BY <1>3, <2>1, <2>3, <2>5, <2>6
<1> QED BY <1>1, <1>2, <1>3

HasRead(t, k, byte, h) ==
    /\ h.t \in TwiType /\ h.t.write = t.write /\ h.t.bytesToRead = 7
    /\ h.t.bytesWritten = t.bytesWritten
    /\ h.t.bytesRead = k + 1
    /\ h.t.readData[k] = byte
    /\ \A i \in 0 .. k - 1 : h.t.readData[i] = t.readData[i]
    /\ k < 6 => h.order = "receive" /\ h.t.status = t.status
    /\ k = 6 => h.order = "idle" /\ h.t.status = "READY"

\* An interrupt of a read stores its byte behind those read, and ends the read
\* with the seventh.
LEMMA ReadHandlerFacts ==
    ASSUME NEW t \in TwiType, NEW k \in 0 .. 6, NEW byte \in Nat, NEW h,
           t.bytesToRead = 7 /\ t.bytesRead = k /\ h = ReadHandler(t, byte)
    PROVE  HasRead(t, k, byte, h)
<1> DEFINE r == [t EXCEPT !.readData[t.bytesRead] = byte, !.bytesRead = @ + 1]
<1>0. k \in 0 .. BufferSize - 1 /\ k < BufferSize /\ k + 1 \in Nat
  BY ClockConstants
<1>1. /\ r.write = t.write /\ r.bytesToRead = 7 /\ r.status = t.status
      /\ r.bytesWritten = t.bytesWritten /\ r.bytesRead = k + 1
  BY DEF TwiType
<1>2. r.readData = [t.readData EXCEPT ![k] = byte]
  BY DEF TwiType
<1>3. r.readData[k] = byte /\ \A i \in 0 .. k - 1 : r.readData[i] = t.readData[i]
  <2>1. t.readData \in [0 .. BufferSize - 1 -> Nat]
    BY DEF TwiType
  <2>2. \A i \in 0 .. k - 1 : i \in 0 .. BufferSize - 1 /\ i # k
    BY ClockConstants
  <2> QED BY <1>0, <1>2, <2>1, <2>2
<1>7. r \in TwiType
  BY <1>0 DEF TwiType
<1>4. h = IF r.bytesRead < r.bytesToRead THEN [t |-> r, order |-> "receive"]
          ELSE [t |-> Finished(r, "OK"), order |-> "idle"]
  BY <1>0, Zenon DEF ReadHandler
<1> HIDE DEF r
<1>5. CASE k < 6
  <2>1. h = [t |-> r, order |-> "receive"]
    BY <1>1, <1>4, <1>5
  <2>2. h.t = r /\ h.order = "receive"
    BY <2>1
  <2> QED BY <1>1, <1>3, <1>5, <1>7, <2>2 DEF HasRead
<1>6. CASE k = 6
  <2>1. h = [t |-> Finished(r, "OK"), order |-> "idle"]
    BY <1>1, <1>4, <1>6
  <2>2. h.t = [r EXCEPT !.status = "READY", !.result = "OK"] /\ h.order = "idle"
    BY <2>1 DEF Finished
  <2>3. /\ h.t \in TwiType /\ h.t.write = r.write /\ h.t.bytesToRead = r.bytesToRead
        /\ h.t.bytesWritten = r.bytesWritten /\ h.t.bytesRead = r.bytesRead
        /\ h.t.readData = r.readData /\ h.t.status = "READY"
    BY <1>7, <2>2 DEF TwiType, Results
  <2> QED BY <1>1, <1>3, <1>6, <2>2, <2>3 DEF HasRead
<1> QED BY <1>5, <1>6

-----------------------------------------------------------------------------
(* The interrupts of a transaction that goes well.                         *)

\* The interrupt after the address: the first byte is ordered.
LEMMA AddressSent ==
    ASSUME ClockInv, Proceeds, bus = "address"
    PROVE  /\ chip' = chip /\ twi' \in TwiType /\ bus' = "data"
           /\ twi'.write = twi.write /\ twi'.bytesToRead = 0 /\ twi'.bytesRead = 0
           /\ twi'.status = "BUSY" /\ twi'.bytesWritten = 1
<1>1. /\ twi \in TwiType /\ twi.bytesToRead = 0 /\ twi.bytesRead = 0 /\ twi.bytesWritten = 0
      /\ twi.write # <<>> /\ Legal(twi.write)
  BY DEF ClockInv, BusOK, TwiOK
<1>2. twi.status = "BUSY"
  BY <1>1 DEF ClockInv, BusOK, TwiType
<1>3. Len(twi.write) \in Nat /\ Len(twi.write) # 0
  BY <1>1, LegalFacts
<1>4. PICK h : h = WriteHandler(twi)
  OBVIOUS
<1>5. chip' = chip /\ twi' = h.t /\ bus' = h.order
  BY <1>4 DEF Proceeds
<1>6. /\ h.t \in TwiType /\ h.t.write = twi.write
      /\ h.t.bytesToRead = 0 /\ h.t.bytesRead = twi.bytesRead
      /\ h.order = "data" /\ h.t.status = twi.status
      /\ h.t.bytesWritten = 0 + 1
  <2>1. 0 \in 0 .. Len(twi.write) /\ 0 < Len(twi.write)
    BY <1>3
  <2> QED BY <1>1, <1>4, <2>1, WriteHandlerFacts
<1> QED BY <1>1, <1>2, <1>5, <1>6

\* The interrupt after a byte written: the next one, or the end.
LEMMA ByteSent ==
    ASSUME ClockInv, Proceeds, bus = "data", NEW i, i = twi.bytesWritten
    PROVE  /\ i \in 1 .. Len(twi.write) /\ twi.write[i] \in Nat
           /\ chip' = Stored(chip, i, twi.write[i])
           /\ twi' \in TwiType /\ twi'.write = twi.write
           /\ twi'.bytesToRead = 0 /\ twi'.bytesRead = 0
           /\ i < Len(twi.write) =>
                 bus' = "data" /\ twi'.status = "BUSY" /\ twi'.bytesWritten = i + 1
           /\ i = Len(twi.write) =>
                 bus' = "idle" /\ twi'.status = "READY"
<1>1. /\ twi \in TwiType /\ twi.bytesToRead = 0 /\ twi.bytesRead = 0
      /\ twi.bytesWritten \in 1 .. Len(twi.write) /\ Legal(twi.write)
  BY DEF ClockInv, BusOK, TwiOK
<1>2. twi.status = "BUSY"
  BY <1>1 DEF ClockInv, BusOK, TwiType
<1>3. Len(twi.write) \in Nat /\ twi.write \in Seq(Nat)
  BY <1>1, LegalFacts
<1>4. PICK h : h = WriteHandler(twi)
  OBVIOUS
<1>5. chip' = Stored(chip, i, twi.write[i]) /\ twi' = h.t /\ bus' = h.order
  BY <1>4 DEF Proceeds
<1>6. /\ h.t \in TwiType /\ h.t.write = twi.write
      /\ h.t.bytesToRead = 0 /\ h.t.bytesRead = twi.bytesRead
      /\ i < Len(twi.write) => /\ h.order = "data" /\ h.t.status = twi.status
                              /\ h.t.bytesWritten = i + 1
      /\ i = Len(twi.write) => h.order = "idle" /\ h.t.status = "READY"
  <2>1. i \in 0 .. Len(twi.write)
    BY <1>1, <1>3
  <2> QED BY <1>1, <1>4, <2>1, WriteHandlerFacts
<1>7. twi.write[i] \in Nat
  BY <1>1, <1>3
<1> QED BY <1>1, <1>2, <1>5, <1>6, <1>7

\* The interrupt after a byte read: one more is in place.
LEMMA ByteRead ==
    ASSUME ClockInv, Proceeds, bus = "read address" \/ bus = "receive",
           NEW k \in 0 .. 6, k = twi.bytesRead
    PROVE  /\ bus = "read address" =>
                 k = 0 /\ chip' = [chip EXCEPT !.copy = chip.regs, !.pointer = Advance(@)]
           /\ bus = "receive" =>
                 k > 0 /\ chip' = [chip EXCEPT !.pointer = Advance(@)]
           /\ twi' \in TwiType /\ twi'.write = <<>> /\ twi'.bytesToRead = 7
           /\ twi'.bytesWritten = 0 /\ twi'.bytesRead = k + 1
           /\ twi'.readData[k] = chip'.copy[chip.pointer]
           /\ \A i \in 0 .. k - 1 : twi'.readData[i] = twi.readData[i]
           /\ k < 6 => bus' = "receive" /\ twi'.status = "BUSY"
           /\ k = 6 => bus' = "idle" /\ twi'.status = "READY"
<1>1. /\ twi \in TwiType /\ twi.bytesToRead = 7 /\ twi.bytesWritten = 0 /\ twi.write = <<>>
      /\ bus = "read address" => k = 0
      /\ bus = "receive" => k \in 1 .. 6
  BY DEF ClockInv, BusOK, TwiOK
<1>2. twi.status = "BUSY"
  BY <1>1 DEF ClockInv, BusOK, TwiType
<1>3. /\ bus = "read address" =>
                 chip' = [chip EXCEPT !.copy = chip.regs, !.pointer = Advance(@)]
      /\ bus = "receive" => chip' = [chip EXCEPT !.pointer = Advance(@)]
      /\ twi' = ReadHandler(twi, chip'.copy[chip.pointer]).t
      /\ bus' = ReadHandler(twi, chip'.copy[chip.pointer]).order
  <2>1. CASE bus = "read address"
    BY <2>1 DEF Proceeds
  <2>2. CASE bus = "receive"
    BY <2>2 DEF Proceeds
  <2> QED BY <2>1, <2>2
<1>4. chip'.copy[chip.pointer] \in Nat
  <2>1. chip.pointer \in 0 .. 7 /\ chip'.copy \in [0 .. 7 -> Nat]
    BY <1>3 DEF ClockInv, ChipOK
  <2> QED BY <2>1
<1>5. PICK byte \in Nat : byte = chip'.copy[chip.pointer]
  BY <1>4
<1>6. PICK h : h = ReadHandler(twi, byte)
  OBVIOUS
<1>7. /\ h.t \in TwiType /\ h.t.write = twi.write /\ h.t.bytesToRead = 7
      /\ h.t.bytesWritten = twi.bytesWritten
      /\ h.t.bytesRead = k + 1
      /\ h.t.readData[k] = byte
      /\ \A i \in 0 .. k - 1 : h.t.readData[i] = twi.readData[i]
      /\ k < 6 => h.order = "receive" /\ h.t.status = twi.status
      /\ k = 6 => h.order = "idle" /\ h.t.status = "READY"
  <2>1. PICK t \in TwiType : t = twi
    BY <1>1
  <2>2. t.bytesToRead = 7 /\ t.bytesRead = k /\ h = ReadHandler(t, byte)
    BY <1>1, <1>6, <2>1, Zenon
  <2>3. HasRead(t, k, byte, h)
    BY <2>2, ReadHandlerFacts
  <2> QED BY <2>1, <2>3, Zenon DEF HasRead
<1>8. twi' = h.t /\ bus' = h.order
  BY <1>3, <1>5, <1>6, Zenon
<1>9. twi'.write = <<>>
  BY <1>1, <1>7, <1>8, Zenon
<1>11. bus = "receive" => k > 0
  BY <1>1
<1>12. /\ twi' \in TwiType /\ twi'.bytesToRead = 7
       /\ twi'.bytesWritten = 0 /\ twi'.bytesRead = k + 1
       /\ twi'.readData[k] = chip'.copy[chip.pointer]
       /\ \A i \in 0 .. k - 1 : twi'.readData[i] = twi.readData[i]
       /\ k < 6 => bus' = "receive" /\ twi'.status = "BUSY"
       /\ k = 6 => bus' = "idle" /\ twi'.status = "READY"
  BY <1>1, <1>2, <1>5, <1>7, <1>8, Zenon
<1> QED BY <1>1, <1>3, <1>9, <1>11, <1>12, Zenon

-----------------------------------------------------------------------------
(* The steps that begin and end a call.                                    *)

\* A step of the program alone leaves chip, driver and bus sound.
LEMMA BusRests ==
    ASSUME ClockInv, UNCHANGED <<twi, bus, chip>>
    PROVE  ChipOK' /\ TwiOK' /\ BusOK'
<1>1. ChipOK /\ TwiOK /\ BusOK
  BY DEF ClockInv
<1>2. ChipOK'
  BY <1>1 DEF ChipOK
<1>3. TwiOK'
  BY <1>1 DEF TwiOK
<1>4. BusOK'
  BY <1>1 DEF BusOK
<1> QED BY <1>2, <1>3, <1>4

\* A get_time that begins is sound.
LEMMA CallsGet ==
    ASSUME ClockInv, bus = "idle", Calls("get", GetTime, chip), UNCHANGED <<twi, bus, chip>>,
           error_clock' \in BOOLEAN, wanted' \in ClockTimes
    PROVE  ClockInv'
<1>1. /\ call' = "get" /\ todo' = GetTime /\ clean' = TRUE /\ carried' = FALSE
      /\ seen' = {TimeOf(chip.regs)} /\ chip' = chip /\ bus' = "idle"
  BY DEF Calls
<1>2. ProgramOK'
  BY <1>1 DEF ProgramOK, ClockTimes
<1>3. SetInv'
  BY <1>1 DEF SetInv, Setters
<1>4. GetInv'
  <2>1. TimeOf(chip'.regs) \in seen'
    BY <1>1
  <2>2. todo' = GetTime /\ bus' = "idle"
    BY <1>1
  <2> QED BY <2>1, <2>2, Zenon DEF GetInv
<1> QED BY <1>2, <1>3, <1>4, BusRests DEF ClockInv

\* A setting that begins is sound: nothing of it is stored yet.
LEMMA CallsSet ==
    ASSUME ClockInv, bus = "idle", NEW who \in Setters, NEW t \in ClockTimes, NEW w \in {8, 9},
           Calls(who, Setting(t, w), chip), wanted' = t, UNCHANGED <<twi, bus, chip>>,
           error_clock' \in BOOLEAN
    PROVE  ClockInv'
<1>1. /\ call' = who /\ todo' = Setting(t, w) /\ clean' = TRUE /\ carried' = FALSE
      /\ bus' = "idle"
  BY DEF Calls
<1>2. ProgramOK'
  BY <1>1 DEF ProgramOK, ClockTimes, Setters
<1>3. SetInv'
  <2>1. After(t, w, 0) = Setting(t, w)
    BY DEF After
  <2>2. SetAt(w, 0)'
    BY <1>1, <2>1, Zenon DEF SetAt
  <2>3. Holds(0)'
    BY DEF Holds, Through
  <2>4. 0 \in 0 .. 5
    OBVIOUS
  <2> QED BY <2>2, <2>3, <2>4, Zenon DEF SetInv
<1>4. GetInv'
  BY <1>1 DEF GetInv, Setters
<1> QED BY <1>2, <1>3, <1>4, BusRests DEF ClockInv

\* A call that ends is sound.
LEMMA CallsIdle ==
    ASSUME ClockInv, bus = "idle", Calls("idle", <<>>, chip), UNCHANGED <<twi, bus, chip>>,
           error_clock' \in BOOLEAN, wanted' \in ClockTimes
    PROVE  ClockInv'
<1>1. /\ call' = "idle" /\ todo' = <<>> /\ clean' = TRUE /\ carried' = FALSE
      /\ bus' = "idle"
  BY DEF Calls
<1>2. ProgramOK'
  <2>1. call' = "idle" => todo' = <<>> /\ bus' = "idle"
    BY <1>1, Zenon
  <2>2. call' \in {"idle", "get"} \cup Setters
    BY <1>1
  <2>3. clean' \in BOOLEAN /\ carried' \in BOOLEAN /\ wanted' \in Times \cup {Default}
    BY <1>1 DEF ClockTimes
  <2> QED BY <2>1, <2>2, <2>3, Zenon DEF ProgramOK
<1>3. SetInv'
  BY <1>1 DEF SetInv, Setters
<1>4. GetInv'
  BY <1>1 DEF GetInv
<1> QED BY <1>2, <1>3, <1>4, BusRests DEF ClockInv

\* The steps of the program keep the invariant.
LEMMA GetKeeps ==
    ASSUME ClockInv, Get
    PROVE  ClockInv'
<1>1. bus = "idle" /\ error_clock \in BOOLEAN /\ wanted \in ClockTimes
  BY DEF ClockInv, ProgramOK, Get, ClockTimes
<1>2. /\ Calls("get", GetTime, chip) /\ UNCHANGED <<twi, bus, chip>>
      /\ error_clock' \in BOOLEAN /\ wanted' \in ClockTimes
  BY <1>1 DEF Get
<1> QED BY <1>1, <1>2, CallsGet

LEMMA SetDateTimeKeeps ==
    ASSUME ClockInv, NEW t \in Times, SetDateTime(t)
    PROVE  ClockInv'
<1>1. bus = "idle" /\ error_clock \in BOOLEAN /\ t \in ClockTimes /\ "client" \in Setters
  BY DEF ClockInv, ProgramOK, SetDateTime, ClockTimes, Setters
<1>2. /\ Calls("client", Setting(t, 9), chip) /\ UNCHANGED <<twi, bus, chip>>
      /\ error_clock' \in BOOLEAN /\ wanted' = t /\ 9 \in {8, 9}
  BY <1>1 DEF SetDateTime
<1> QED BY <1>1, <1>2, CallsSet

LEMMA ConsoleSetsKeeps ==
    ASSUME ClockInv, NEW t \in Times, ConsoleSets(t)
    PROVE  ClockInv'
<1>1. bus = "idle" /\ error_clock \in BOOLEAN /\ t \in ClockTimes /\ "console" \in Setters
  BY DEF ClockInv, ProgramOK, ConsoleSets, ClockTimes, Setters
<1>2. /\ Calls("console", Setting(t, 8), chip) /\ UNCHANGED <<twi, bus, chip>>
      /\ error_clock' \in BOOLEAN /\ wanted' = t /\ 8 \in {8, 9}
  BY <1>1 DEF ConsoleSets
<1> QED BY <1>1, <1>2, CallsSet

LEMMA GetEndsKeeps ==
    ASSUME ClockInv, GetEnds
    PROVE  ClockInv'
<1>1. bus = "idle" /\ error_clock \in BOOLEAN /\ wanted \in ClockTimes
  BY DEF ClockInv, ProgramOK, BusOK, GetEnds, Over, Waited, ClockTimes
<1>2. error_clock' \in BOOLEAN /\ UNCHANGED <<twi, bus, chip>>
  BY DEF GetEnds
<1>3. CASE error_clock' /\ ~clock_set
  <2>1. Calls("default", Setting(Default, 9), chip) /\ wanted' = Default
    BY <1>3, Zenon DEF GetEnds
  <2>2. "default" \in Setters /\ Default \in ClockTimes /\ 9 \in {8, 9}
    BY DEF Setters, ClockTimes
  <2> QED BY <1>1, <1>2, <2>1, <2>2, CallsSet
<1>4. CASE ~(error_clock' /\ ~clock_set)
  <2>1. Calls("idle", <<>>, chip) /\ wanted' = wanted
    BY <1>4, Zenon DEF GetEnds
  <2> QED BY <1>1, <1>2, <2>1, CallsIdle
<1> QED BY <1>3, <1>4

LEMMA SetEndsKeeps ==
    ASSUME ClockInv, SetEnds
    PROVE  ClockInv'
<1>1. bus = "idle" /\ wanted \in ClockTimes
  BY DEF ClockInv, ProgramOK, BusOK, SetEnds, Over, Waited, ClockTimes
<1>2. error_clock' \in BOOLEAN /\ wanted' \in ClockTimes /\ UNCHANGED <<twi, bus, chip>>
  BY <1>1 DEF SetEnds
<1>3. CASE call = "client"
  <2>1. Calls("get", GetTime, chip)
    BY <1>3, Zenon DEF SetEnds
  <2> QED BY <1>1, <1>2, <2>1, CallsGet
<1>4. CASE call # "client"
  <2>1. Calls("idle", <<>>, chip)
    BY <1>4, Zenon DEF SetEnds
  <2> QED BY <1>1, <1>2, <2>1, CallsIdle
<1> QED BY <1>3, <1>4

-----------------------------------------------------------------------------
(* The step that starts a transaction.                                     *)

\* The transaction that starts is the next of the call.
LEMMA Started ==
    ASSUME ClockInv, StartNext, NEW w, Legal(w), NEW n \in 0 .. 7,
           w = <<>> => n = 7, w # <<>> => n = 0,
           Head(todo) = Transaction(w, n)
    PROVE  /\ twi'.write = w /\ twi'.bytesToRead = n
           /\ w = <<>> => bus' = "read address"
           /\ w # <<>> => bus' = "address"
           /\ ChipOK' /\ TwiOK' /\ BusOK'
<1>0. twi \in TwiType /\ twi.status = "READY"
  BY DEF ClockInv, TwiOK, StartNext, Waited
<1>1. PICK t \in TwiType : t = twi
  BY <1>0
<1>2. PICK u : u = WriteRead(t, Transaction(w, n))
  OBVIOUS
<1>3. /\ u \in TwiType /\ u # t
      /\ u.status = "BUSY" /\ u.write = w /\ u.bytesToRead = n
      /\ u.bytesWritten = 0 /\ u.bytesRead = 0 /\ u.readData = t.readData
  BY <1>0, <1>1, <1>2, WriteReadFacts
<1>4. twi' = u
  BY <1>1, <1>2, Zenon DEF StartNext
<1>5. bus' = Ordered(Transaction(w, n))
  <2>1. twi' # twi
    BY <1>1, <1>3, <1>4, Zenon
  <2> QED BY <2>1, Zenon DEF StartNext
<1>6. /\ w = <<>> => bus' = "read address"
      /\ w # <<>> => bus' = "address"
  <2>1. Transaction(w, n).write = w
    BY DEF Transaction
  <2> QED BY <1>5, <2>1, Zenon DEF Ordered
<1>7. ChipOK'
  BY DEF ClockInv, ChipOK, StartNext
<1>8. TwiOK'
  BY <1>3, <1>4, Zenon DEF TwiOK
<1>9. BusOK'
  <2>1. CASE w = <<>>
    <3>1. bus' = "read address" /\ twi'.status = "BUSY" /\ twi'.bytesToRead = 7
          /\ twi'.bytesWritten = 0 /\ twi'.bytesRead = 0
      BY <1>3, <1>4, <1>6, <2>1
    <3>2. twi'.write = <<>>
      BY <1>3, <1>4, <2>1, Zenon
    <3> QED BY <3>1, <3>2 DEF BusOK
  <2>2. CASE w # <<>>
    <3>1. bus' = "address" /\ twi'.status = "BUSY" /\ twi'.bytesToRead = 0
          /\ twi'.bytesWritten = 0 /\ twi'.bytesRead = 0
      BY <1>3, <1>4, <1>6, <2>2
    <3>2. twi'.write # <<>>
      BY <1>3, <1>4, <2>2, Zenon
    <3> QED BY <3>1, <3>2 DEF BusOK
  <2> QED BY <2>1, <2>2
<1>10. twi'.write = w /\ twi'.bytesToRead = n
  BY <1>3, <1>4, Zenon
<1> QED BY <1>6, <1>7, <1>8, <1>9, <1>10, Zenon

\* A transaction that starts keeps the invariant.
LEMMA StartNextKeeps ==
    ASSUME ClockInv, StartNext
    PROVE  ClockInv'
<1>0. /\ call \in {"get"} \cup Setters /\ bus = "idle" /\ todo # <<>>
      /\ todo' = Tail(todo) /\ chip' = chip
      /\ UNCHANGED <<call, wanted, clean, carried, seen, error_clock>>
  BY DEF ClockInv, ProgramOK, BusOK, StartNext, Waited, history
<1>1. ProgramOK'
  BY <1>0 DEF ClockInv, ProgramOK, Setters
<1>2. CASE call = "get"
  <2>0. SetInv'
    BY <1>0, <1>2 DEF SetInv, Setters
  <2>1. TimeOf(chip'.regs) \in seen'
    BY <1>0, <1>2 DEF ClockInv, GetInv
  <2>2. CASE todo = GetTime
    <3>1. Head(todo) = Transaction(<<0>>, 0) /\ todo' = <<Transaction(<<>>, 7)>>
      BY <1>0, <2>2, GetTimeParts, Zenon
    <3>2. Legal(<<0>>) /\ <<0>> # <<>> /\ 0 \in 0 .. 7
      BY DEF Legal
    <3>3. twi'.write = <<0>> /\ twi'.bytesToRead = 0 /\ bus' = "address"
          /\ ChipOK' /\ TwiOK' /\ BusOK'
      BY <3>1, <3>2, Started, Zenon
    <3>4. GetPoints'
      BY <3>1, <3>3 DEF GetPoints
    <3> QED BY <1>1, <2>0, <2>1, <3>3, <3>4, Zenon DEF ClockInv, GetInv
  <2>3. CASE todo = <<Transaction(<<>>, 7)>>
    <3>1. Head(todo) = Transaction(<<>>, 7) /\ todo' = <<>>
      BY <1>0, <2>3, GetTimeParts, Zenon
    <3>2. Legal(<<>>) /\ 7 \in 0 .. 7
      BY DEF Legal
    <3>3. twi'.write = <<>> /\ twi'.bytesToRead = 7 /\ bus' = "read address"
          /\ ChipOK' /\ TwiOK' /\ BusOK'
      BY <3>1, <3>2, Started, Zenon
    <3>4. GetReads'
      <4>1. clean' => chip'.pointer = 0
        <5>1. GetPoints
          BY <1>0, <1>2, <2>3, GetTimeParts, Zenon DEF ClockInv, GetInv, GetReads
        <5> QED BY <1>0, <5>1 DEF GetPoints
      <4> QED BY <3>1, <3>3, <4>1 DEF GetReads
    <3> QED BY <1>1, <2>0, <2>1, <3>3, <3>4, Zenon DEF ClockInv, GetInv
  <2> QED BY <1>0, <1>2, <2>2, <2>3, Zenon DEF ClockInv, GetInv, GetPoints, GetReads
<1>3. CASE call \in Setters
  <2>0. GetInv'
    BY <1>0, <1>3 DEF GetInv, Setters
  <2>1. PICK w \in {8, 9}, n \in 0 .. 5 : SetAt(w, n) /\ (clean /\ ~carried => Holds(n))
    BY <1>3 DEF ClockInv, SetInv
  <2>2. n \in 0 .. 4
    <3>1. n # 5
      <4>1. After(wanted, w, 5) = <<>>
        BY DEF After
      <4> QED BY <1>0, <2>1, <4>1, Zenon DEF SetAt
    <3> QED BY <3>1
  <2>3. PICK t \in ClockTimes : t = wanted
    BY DEF ClockInv, ProgramOK, ClockTimes
  <2>4. /\ Head(todo) = Transaction(Nth(t, w, n + 1), 0)
        /\ todo' = After(t, w, n + 1)
    BY <1>0, <2>1, <2>2, <2>3, AfterParts, Zenon DEF SetAt
  <2>5. PICK m \in 1 .. 5 : m = n + 1
    BY <2>2
  <2>6. Legal(Nth(t, w, m)) /\ Nth(t, w, m) # <<>> /\ 0 \in 0 .. 7
    BY NthLegal
  <2>7. twi'.write = Nth(t, w, m) /\ twi'.bytesToRead = 0 /\ bus' = "address"
        /\ ChipOK' /\ TwiOK' /\ BusOK'
    BY <2>4, <2>5, <2>6, Started, Zenon
  <2>8. SetAt(w, m)'
    <3>1. m # 0 /\ wanted' = t
      BY <1>0, <2>3
    <3> QED BY <2>4, <2>5, <2>7, <3>1, Zenon DEF SetAt
  <2>9. clean' /\ ~carried' => Holds(m)'
    <3>1. \A i \in 1 .. 5 : Through(m, i)' => Through(n, i)
      BY <1>0, <2>2, <2>5, <2>7 DEF Through
    <3>2. chip' = chip /\ wanted' = wanted /\ clean' = clean /\ carried' = carried
      BY <1>0
    <3>3. 1 \in 1 .. 5 /\ 2 \in 1 .. 5 /\ 3 \in 1 .. 5 /\ 4 \in 1 .. 5 /\ 5 \in 1 .. 5
      OBVIOUS
    <3> QED BY <2>1, <3>1, <3>2, <3>3, Zenon DEF Holds
  <2>10. SetInv'
    <3>1. m \in 0 .. 5
      OBVIOUS
    <3> QED BY <2>8, <2>9, <3>1, Zenon DEF SetInv
  <2> QED BY <1>1, <2>0, <2>7, <2>10 DEF ClockInv
<1> QED BY <1>0, <1>2, <1>3

-----------------------------------------------------------------------------
(* A transaction that fails, the time that passes, a restart.              *)

\* One that fails keeps it: the call goes on, not clean any more.
LEMMA FailsKeeps ==
    ASSUME ClockInv, Fails
    PROVE  ClockInv'
<1>0. /\ bus # "idle" /\ bus' = "idle" /\ clean' = FALSE
      /\ UNCHANGED <<call, todo, wanted, error_clock, chip, seen, carried>>
  BY DEF Fails, program
<1>1. twi' \in TwiType /\ twi'.status = "READY" /\ twi'.write = twi.write
      /\ twi'.bytesToRead = twi.bytesToRead
  <2>0. PICK t \in TwiType : t = twi
    BY DEF ClockInv, TwiOK
  <2>1. \A r \in {"NACK_RECEIVED", "BUS_ERROR", "ARBITRATION_LOST", "FAIL"} : r \in Results
    BY DEF Results
  <2>2. Nacked(twi) = Finished(twi, "NACK_RECEIVED")
    BY <2>0 DEF Nacked, Finished, TwiType
  <2>3. PICK r \in Results : twi' = Finished(twi, r)
    BY <2>1, <2>2 DEF Fails
  <2>4. PICK u : u = Finished(t, r)
    OBVIOUS
  <2>5. /\ u \in TwiType /\ u.status = "READY" /\ u.write = t.write
        /\ u.bytesToRead = t.bytesToRead
    BY <2>4, FinishedFacts
  <2> QED BY <2>0, <2>3, <2>4, <2>5, Zenon
<1>2. ChipOK'
  BY <1>0 DEF ClockInv, ChipOK
<1>3. TwiOK'
  BY <1>1, Zenon DEF ClockInv, TwiOK
<1>4. BusOK'
  BY <1>0, <1>1 DEF BusOK
<1>5. ProgramOK'
  <2>1. call # "idle"
    BY <1>0 DEF ClockInv, ProgramOK
  <2> QED BY <1>0, <2>1 DEF ClockInv, ProgramOK, Setters
<1>6. SetInv'
  <2>1. SUFFICES ASSUME call \in Setters PROVE SetInv'
    BY <1>0 DEF SetInv
  <2>2. PICK w \in {8, 9}, n \in 0 .. 5 : SetAt(w, n)
    BY <2>1 DEF ClockInv, SetInv
  <2>3. SetAt(w, n)'
    BY <1>0, <1>1, <2>2, Zenon DEF SetAt
  <2> QED BY <1>0, <2>3, Zenon DEF SetInv
<1>7. GetInv'
  <2>1. SUFFICES ASSUME call = "get" PROVE GetInv'
    BY <1>0 DEF GetInv
  <2>2. TimeOf(chip.regs) \in seen /\ (GetPoints \/ GetReads)
    BY <1>0, <2>1 DEF ClockInv, GetInv
  <2>3. GetPoints => GetPoints'
    BY <1>0, <1>1, Zenon DEF GetPoints
  <2>4. GetReads => GetReads'
    BY <1>0, <1>1, Zenon DEF GetReads
  <2>5. TimeOf(chip'.regs) \in seen'
    BY <1>0, <2>2
  <2> QED BY <2>2, <2>3, <2>4, <2>5, Zenon DEF GetInv
<1> QED BY <1>2, <1>3, <1>4, <1>5, <1>6, <1>7 DEF ClockInv

\* The time that passes keeps it, as long as the hour stays.
LEMMA TickKeeps ==
    ASSUME ClockInv, Tick
    PROVE  ClockInv'
<1> DEFINE regs == chip.regs
           later == Later(regs)
<1>0. /\ chip' = [chip EXCEPT !.regs = later]
      /\ UNCHANGED <<call, todo, wanted, error_clock, twi, bus, clean>>
      /\ call = "get" => seen' = seen \cup {TimeOf(chip'.regs)}
      /\ carried' = (carried \/ (call # "idle" /\ chip'.regs[2] # regs[2]))
  BY DEF Tick, program
<1>1. chip \in ChipType /\ Sane(regs) /\ Sane(chip.copy)
  BY DEF ClockInv, ChipOK, ChipType
<1>2. /\ Sane(later) /\ later \in [0 .. 7 -> Nat]
      /\ later[0] >= 128 <=> regs[0] >= 128
      /\ later[2] = regs[2] => \A r \in {4, 5, 6} : later[r] = regs[r]
  <2>1. PICK e : e = regs
    OBVIOUS
  <2>2. Sane(e)
    BY <1>1, <2>1
  <2>3. /\ Sane(Later(e))
        /\ Later(e)[0] >= 128 <=> e[0] >= 128
        /\ Later(e)[2] = e[2] => \A r \in {4, 5, 6} : Later(e)[r] = e[r]
    BY <2>2, LaterSane
  <2>4. Later(e) \in [0 .. 7 -> Nat]
    BY <2>3 DEF Sane
  <2> QED BY <2>1, <2>3, <2>4, Zenon
<1> HIDE DEF later
<1>3. /\ chip' \in ChipType /\ chip'.regs = later
      /\ chip'.pointer = chip.pointer /\ chip'.copy = chip.copy
  BY <1>0, <1>1, <1>2 DEF ChipType
<1>4. Running(chip') <=> Running(chip)
  BY <1>2, <1>3 DEF Running
<1>5. ChipOK'
  BY <1>1, <1>2, <1>3 DEF ChipOK, ChipType
<1>6. TwiOK'
  BY <1>0 DEF ClockInv, TwiOK
<1>7. BusOK'
  BY <1>0, <1>3 DEF ClockInv, BusOK
<1>8. ProgramOK'
  <2>1. carried' \in BOOLEAN
    BY <1>0
  <2> QED BY <1>0, <2>1 DEF ClockInv, ProgramOK
<1>9. SetInv'
  <2>1. SUFFICES ASSUME call \in Setters PROVE SetInv'
    BY <1>0 DEF SetInv
  <2>2. PICK w \in {8, 9}, n \in 0 .. 5 : SetAt(w, n) /\ (clean /\ ~carried => Holds(n))
    BY <2>1 DEF ClockInv, SetInv
  <2>3. SetAt(w, n)'
    BY <1>0, <2>2, Zenon DEF SetAt
  <2>4. ASSUME clean', ~carried' PROVE Holds(n)'
    <3>1. call # "idle"
      BY <2>1 DEF Setters
    <3>2. ~carried /\ chip'.regs[2] = regs[2]
      BY <1>0, <2>4, <3>1, Zenon
    <3>3. Holds(n)
      BY <1>0, <2>2, <2>4, <3>2, Zenon
    <3>4. \A r \in {2, 4, 5, 6} : chip'.regs[r] = chip.regs[r]
      BY <1>2, <1>3, <3>2
    <3>5. \A i \in 1 .. 5 : Through(n, i)' <=> Through(n, i)
      BY <1>0 DEF Through
    <3> QED BY <1>0, <1>4, <3>3, <3>4, <3>5 DEF Holds
  <2> QED BY <2>3, <2>4, Zenon DEF SetInv
<1>10. GetInv'
  <2>1. SUFFICES ASSUME call = "get" PROVE GetInv'
    BY <1>0 DEF GetInv
  <2>2. seen' = seen \cup {TimeOf(chip'.regs)}
    BY <1>0, <2>1
  <2>3. TimeOf(chip'.regs) \in seen' /\ \A s \in seen : s \in seen'
    BY <2>2
  <2>4. GetPoints => GetPoints'
    BY <1>0, <1>3, Zenon DEF GetPoints
  <2>5. ASSUME NEW n, Copied(n) PROVE Copied(n)'
    BY <1>0, <1>3, <1>4, <2>3, <2>5, Zenon DEF Copied
  <2>6. GetReads => GetReads'
    <3>1. Copied(7) => Copied(7)'
      BY <2>5
    <3>2. Copied(twi.bytesRead) => Copied(twi.bytesRead)'
      <4>1. PICK n : n = twi.bytesRead
        OBVIOUS
      <4>2. Copied(n) => Copied(n)'
        BY <2>5
      <4>3. n = twi'.bytesRead
        BY <1>0, <4>1
      <4> QED BY <4>1, <4>2, <4>3, Zenon DEF Copied
    <3> QED BY <1>0, <1>3, <3>1, <3>2, Zenon DEF GetReads
  <2>7. todo = GetTime /\ bus = "idle" => todo' = GetTime /\ bus' = "idle"
    BY <1>0, Zenon
  <2>8. (todo = GetTime /\ bus = "idle") \/ GetPoints \/ GetReads
    BY <2>1 DEF ClockInv, GetInv
  <2> QED BY <2>3, <2>4, <2>6, <2>7, <2>8, Zenon DEF GetInv
<1> QED BY <1>5, <1>6, <1>7, <1>8, <1>9, <1>10 DEF ClockInv

\* A chip that lost its time holds zeros.
LEMMA LostSane ==
    Lost \in [0 .. 7 -> Nat] /\ Sane(Lost)
<1>1. Lost \in [0 .. 7 -> Nat] /\ \A r \in 0 .. 7 : Lost[r] = 0
  BY DEF Lost
<1> QED BY <1>1, ClockConstants DEF Sane

\* After a start, with the chip as it is, the program begins by reading it.
LEMMA BeginsSound ==
    ASSUME ChipOK', call' = "get", todo' = GetTime, twi' = Idle, bus' = "idle",
           error_clock' = FALSE, wanted' = Default, clean' = TRUE, carried' = FALSE,
           TimeOf(chip'.regs) \in seen'
    PROVE  ClockInv'
<1>1. /\ Idle.status = "READY" /\ Idle.write = <<>> /\ Idle \in TwiType
  <2>1. "UNKNOWN" \in Results
    BY DEF Results
  <2>2. [i \in 0 .. BufferSize - 1 |-> 0] \in [0 .. BufferSize - 1 -> Nat]
    OBVIOUS
  <2>3. <<>> \in Seq(Nat)
    OBVIOUS
  <2> QED BY <2>1, <2>2, <2>3 DEF Idle, TwiType
<1>2. TwiOK'
  BY <1>1, Zenon DEF TwiOK, Legal
<1>3. BusOK'
  BY <1>1 DEF BusOK
<1>4. ProgramOK'
  BY DEF ProgramOK
<1>5. SetInv'
  BY DEF SetInv, Setters
<1>6. GetInv'
  BY Zenon DEF GetInv
<1> QED BY <1>2, <1>3, <1>4, <1>5, <1>6 DEF ClockInv

\* A restart keeps the invariant.
LEMMA RestartKeeps ==
    ASSUME ClockInv, Restart
    PROVE  ClockInv'
<1>1. PICK c \in {chip, [regs |-> Lost, pointer |-> 0, copy |-> Lost]} :
        chip' = c /\ Calls("get", GetTime, c)
  BY DEF Restart
<1>2. /\ call' = "get" /\ todo' = GetTime /\ twi' = Idle /\ bus' = "idle"
      /\ error_clock' = FALSE /\ wanted' = Default /\ clean' = TRUE /\ carried' = FALSE
      /\ seen' = {TimeOf(c.regs)}
  BY <1>1 DEF Calls, Restart
<1>3. ChipOK'
  <2>1. CASE c = chip
    BY <1>1, <2>1 DEF ClockInv, ChipOK
  <2>2. CASE c = [regs |-> Lost, pointer |-> 0, copy |-> Lost]
    BY <1>1, <2>2, LostSane DEF ChipOK
  <2> QED BY <2>1, <2>2
<1>4. TimeOf(chip'.regs) \in seen'
  BY <1>1, <1>2
<1> QED BY <1>2, <1>3, <1>4, BeginsSound

-----------------------------------------------------------------------------
(* The interrupts keep the invariant.                                      *)

\* An interrupt leaves the program where it is.
LEMMA ProceedsProgram ==
    ASSUME ClockInv, Proceeds
    PROVE  /\ call # "idle" /\ ProgramOK'
           /\ UNCHANGED <<call, todo, wanted, error_clock, clean, carried, seen>>
<1>1. UNCHANGED <<call, todo, wanted, error_clock, clean, carried, seen>> /\ bus # "idle"
  BY DEF Proceeds, program, history
<1>2. call # "idle"
  BY <1>1 DEF ClockInv, ProgramOK
<1> QED BY <1>1, <1>2 DEF ClockInv, ProgramOK

\* The address keeps the invariant.
LEMMA AddressKeeps ==
    ASSUME ClockInv, Proceeds, bus = "address"
    PROVE  ClockInv'
<1>0. /\ call # "idle" /\ ProgramOK'
      /\ UNCHANGED <<call, todo, wanted, error_clock, clean, carried, seen>>
  BY ProceedsProgram
<1>1. /\ chip' = chip /\ twi' \in TwiType /\ bus' = "data"
      /\ twi'.write = twi.write /\ twi'.bytesToRead = 0 /\ twi'.bytesRead = 0
      /\ twi'.status = "BUSY" /\ twi'.bytesWritten = 1
  BY AddressSent
<1>2. twi.write # <<>> /\ Legal(twi.write) /\ twi.bytesToRead = 0
  BY DEF ClockInv, BusOK, TwiOK
<1>3. ChipOK'
  BY <1>1 DEF ClockInv, ChipOK
<1>4. TwiOK'
  BY <1>1, <1>2, Zenon DEF TwiOK
<1>5. BusOK'
  <2>1. twi'.write # <<>>
    BY <1>1, <1>2, Zenon
  <2>2. 1 \in 1 .. Len(twi'.write)
    <3>1. Len(twi.write) \in Nat /\ Len(twi.write) # 0
      BY <1>2, LegalFacts
    <3> QED BY <1>1, <3>1
  <2> QED BY <1>1, <2>1, <2>2 DEF BusOK
<1>6. SetInv'
  <2>1. SUFFICES ASSUME call \in Setters PROVE SetInv'
    BY <1>0 DEF SetInv
  <2>2. PICK w \in {8, 9}, n \in 0 .. 5 : SetAt(w, n) /\ (clean /\ ~carried => Holds(n))
    BY <2>1 DEF ClockInv, SetInv
  <2>3. SetAt(w, n)'
    BY <1>0, <1>1, <1>2, <2>2 DEF SetAt
  <2>4. \A i \in 1 .. 5 : Through(n, i)' => Through(n, i)
    BY <1>1 DEF Through
  <2>5. 1 \in 1 .. 5 /\ 2 \in 1 .. 5 /\ 3 \in 1 .. 5 /\ 4 \in 1 .. 5 /\ 5 \in 1 .. 5
    OBVIOUS
  <2>6. Holds(n) => Holds(n)'
    BY <1>0, <1>1, <2>4, <2>5, Zenon DEF Holds
  <2> QED BY <1>0, <2>2, <2>3, <2>6, Zenon DEF SetInv
<1>7. GetInv'
  <2>1. SUFFICES ASSUME call = "get" PROVE GetInv'
    BY <1>0 DEF GetInv
  <2>2. TimeOf(chip'.regs) \in seen' /\ GetPoints
    BY <1>0, <1>1, <1>2, <2>1, Zenon DEF ClockInv, GetInv, GetReads
  <2>3. GetPoints'
    BY <1>0, <1>1, <2>2 DEF GetPoints
  <2> QED BY <2>2, <2>3, Zenon DEF GetInv
<1> QED BY <1>0, <1>3, <1>4, <1>5, <1>6, <1>7 DEF ClockInv

\* What the n-th transaction of a setting writes, and where.
RegisterOf(n) == CASE n = 1 -> 6 [] n = 2 -> 5 [] n = 3 -> 4 [] n = 4 -> 2 [] n = 5 -> 0

\* The register and the value the n-th transaction of a setting writes.
LEMMA NthBytes ==
    ASSUME NEW t, NEW w, NEW n \in 1 .. 5
    PROVE  /\ Nth(t, w, n)[1] = RegisterOf(n)
           /\ Nth(t, w, n)[2] = IF n = 5 THEN 128 ELSE t[RegisterOf(n)]
           /\ Len(Nth(t, w, n)) = IF n \in {1, 2, 3} THEN 2 ELSE 3
           /\ Nth(t, w, n) # <<>> /\ Nth(t, w, n) # <<0>>
<1>1. n = 1 \/ n = 2 \/ n = 3 \/ n = 4 \/ n = 5
  OBVIOUS
<1>a. CASE n = 1
  <2>1. Nth(t, w, n) = <<6, t[6]>> /\ RegisterOf(n) = 6 /\ n # 5 /\ n \in {1, 2, 3}
    BY <1>a DEF Nth, RegisterOf
  <2>2. /\ RegisterOf(n) = 6
        /\ (IF n = 5 THEN 128 ELSE t[RegisterOf(n)]) = t[6]
        /\ (IF n \in {1, 2, 3} THEN 2 ELSE 3) = 2
    BY <2>1
  <2>3. /\ <<6, t[6]>>[1] = 6 /\ <<6, t[6]>>[2] = t[6] /\ Len(<<6, t[6]>>) = 2
        /\ <<6, t[6]>> # <<>> /\ <<6, t[6]>> # <<0>>
    OBVIOUS
  <2>4. /\ Nth(t, w, n)[1] = 6 /\ Nth(t, w, n)[2] = t[6] /\ Len(Nth(t, w, n)) = 2
        /\ Nth(t, w, n) # <<>> /\ Nth(t, w, n) # <<0>>
    BY <2>1, <2>3, Zenon
  <2> QED BY <2>2, <2>4, Zenon
<1>b. CASE n = 2
  <2>1. Nth(t, w, n) = <<5, t[5]>> /\ RegisterOf(n) = 5 /\ n # 5 /\ n \in {1, 2, 3}
    BY <1>b DEF Nth, RegisterOf
  <2>2. /\ RegisterOf(n) = 5
        /\ (IF n = 5 THEN 128 ELSE t[RegisterOf(n)]) = t[5]
        /\ (IF n \in {1, 2, 3} THEN 2 ELSE 3) = 2
    BY <2>1
  <2>3. /\ <<5, t[5]>>[1] = 5 /\ <<5, t[5]>>[2] = t[5] /\ Len(<<5, t[5]>>) = 2
        /\ <<5, t[5]>> # <<>> /\ <<5, t[5]>> # <<0>>
    OBVIOUS
  <2>4. /\ Nth(t, w, n)[1] = 5 /\ Nth(t, w, n)[2] = t[5] /\ Len(Nth(t, w, n)) = 2
        /\ Nth(t, w, n) # <<>> /\ Nth(t, w, n) # <<0>>
    BY <2>1, <2>3, Zenon
  <2> QED BY <2>2, <2>4, Zenon
<1>c. CASE n = 3
  <2>1. Nth(t, w, n) = <<4, t[4]>> /\ RegisterOf(n) = 4 /\ n # 5 /\ n \in {1, 2, 3}
    BY <1>c DEF Nth, RegisterOf
  <2>2. /\ RegisterOf(n) = 4
        /\ (IF n = 5 THEN 128 ELSE t[RegisterOf(n)]) = t[4]
        /\ (IF n \in {1, 2, 3} THEN 2 ELSE 3) = 2
    BY <2>1
  <2>3. /\ <<4, t[4]>>[1] = 4 /\ <<4, t[4]>>[2] = t[4] /\ Len(<<4, t[4]>>) = 2
        /\ <<4, t[4]>> # <<>> /\ <<4, t[4]>> # <<0>>
    OBVIOUS
  <2>4. /\ Nth(t, w, n)[1] = 4 /\ Nth(t, w, n)[2] = t[4] /\ Len(Nth(t, w, n)) = 2
        /\ Nth(t, w, n) # <<>> /\ Nth(t, w, n) # <<0>>
    BY <2>1, <2>3, Zenon
  <2> QED BY <2>2, <2>4, Zenon
<1>d. CASE n = 4
  <2>1. Nth(t, w, n) = <<2, t[2], w>> /\ RegisterOf(n) = 2 /\ n # 5 /\ n \notin {1, 2, 3}
    BY <1>d DEF Nth, RegisterOf
  <2>2. /\ RegisterOf(n) = 2
        /\ (IF n = 5 THEN 128 ELSE t[RegisterOf(n)]) = t[2]
        /\ (IF n \in {1, 2, 3} THEN 2 ELSE 3) = 3
    BY <2>1
  <2>3. /\ <<2, t[2], w>>[1] = 2 /\ <<2, t[2], w>>[2] = t[2] /\ Len(<<2, t[2], w>>) = 3
        /\ <<2, t[2], w>> # <<>> /\ <<2, t[2], w>> # <<0>>
    OBVIOUS
  <2>4. /\ Nth(t, w, n)[1] = 2 /\ Nth(t, w, n)[2] = t[2] /\ Len(Nth(t, w, n)) = 3
        /\ Nth(t, w, n) # <<>> /\ Nth(t, w, n) # <<0>>
    BY <2>1, <2>3, Zenon
  <2> QED BY <2>2, <2>4, Zenon
<1>e. CASE n = 5
  <2>1. Nth(t, w, n) = <<0, 128, t[1]>> /\ RegisterOf(n) = 0 /\ n = 5 /\ n \notin {1, 2, 3}
    BY <1>e DEF Nth, RegisterOf
  <2>2. /\ RegisterOf(n) = 0
        /\ (IF n = 5 THEN 128 ELSE t[RegisterOf(n)]) = 128
        /\ (IF n \in {1, 2, 3} THEN 2 ELSE 3) = 3
    BY <2>1
  <2>3. /\ <<0, 128, t[1]>>[1] = 0 /\ <<0, 128, t[1]>>[2] = 128 /\ Len(<<0, 128, t[1]>>) = 3
        /\ <<0, 128, t[1]>> # <<>> /\ <<0, 128, t[1]>> # <<0>>
    OBVIOUS
  <2>4. /\ Nth(t, w, n)[1] = 0 /\ Nth(t, w, n)[2] = 128 /\ Len(Nth(t, w, n)) = 3
        /\ Nth(t, w, n) # <<>> /\ Nth(t, w, n) # <<0>>
    BY <2>1, <2>3, Zenon
  <2> QED BY <2>2, <2>4, Zenon
<1> QED BY <1>1, <1>a, <1>b, <1>c, <1>d, <1>e

\* The first byte goes to the chip's pointer, the others to its registers.
LEMMA DataStored ==
    ASSUME ClockInv, Proceeds, bus = "data", NEW i, i = twi.bytesWritten
    PROVE  /\ ChipOK' /\ chip'.copy = chip.copy
           /\ i = 1 => chip'.regs = chip.regs /\ chip'.pointer = twi.write[1]
           /\ i = 2 => /\ chip'.regs = [chip.regs EXCEPT ![twi.write[1]] = twi.write[2]]
                       /\ chip'.pointer = Advance(twi.write[1])
           /\ i = 3 => chip'.regs = [chip.regs EXCEPT ![Advance(twi.write[1])] = twi.write[3]]
<1>0. /\ i \in 1 .. Len(twi.write) /\ twi.write[i] \in Nat
      /\ chip' = Stored(chip, i, twi.write[i])
  BY ByteSent
<1>1. Legal(twi.write) /\ Len(twi.write) \in 0 .. 3 /\ (Len(twi.write) > 0 => twi.write[1] \in 0 .. 6)
  BY LegalFacts DEF ClockInv, TwiOK
<1>2. i \in 1 .. 3
  BY <1>0, <1>1
<1>3. PICK c \in ChipType : c = chip
  BY DEF ClockInv, ChipOK, ChipType
<1>4. PICK b \in Nat : b = twi.write[i]
  BY <1>0
<1>5. chip' = Stored(c, i, b)
  BY <1>0, <1>3, <1>4, Zenon
<1>6. Sane(c.regs) /\ Sane(c.copy)
  BY <1>3 DEF ClockInv, ChipOK
<1>7. CASE i = 1
  <2>1. b \in 0 .. 7
    BY <1>0, <1>1, <1>4, <1>7
  <2>2. /\ Stored(c, 1, b) \in ChipType /\ Stored(c, 1, b).regs = c.regs
        /\ Stored(c, 1, b).pointer = b /\ Stored(c, 1, b).copy = c.copy
    BY <2>1, StoredFirst
  <2>3. chip' \in ChipType /\ chip'.regs = c.regs /\ chip'.pointer = b /\ chip'.copy = c.copy
    BY <1>5, <1>7, <2>2
  <2>4. ChipOK'
    BY <1>6, <2>3 DEF ChipOK, ChipType
  <2>5. chip'.copy = chip.copy /\ chip'.regs = chip.regs
    BY <1>3, <2>3, Zenon
  <2>6. chip'.pointer = twi.write[1]
    BY <1>4, <1>7, <2>3, Zenon
  <2>7. i # 2 /\ i # 3
    BY <1>7
  <2> QED BY <2>4, <2>5, <2>6, <2>7, Zenon
<1>8. CASE i \in {2, 3}
  <2>1. i \in Nat /\ i # 1
    BY <1>8
  <2>2. /\ chip' \in ChipType
        /\ chip'.regs = [c.regs EXCEPT ![c.pointer] = b]
        /\ chip'.pointer = Advance(c.pointer)
        /\ chip'.copy = c.copy
    BY <1>5, <2>1, StoredNext
  <2>3. /\ i = 2 => c.pointer = twi.write[1]
        /\ i = 3 => c.pointer = Advance(twi.write[1])
    BY <1>3 DEF ClockInv, BusOK
  <2>4. PICK x, e : x = twi.write /\ e = c.regs
    OBVIOUS
  <2>5. Sane([e EXCEPT ![c.pointer] = x[i]])
    <3>1. PICK p : p = c.pointer
      OBVIOUS
    <3>2. i \in 2 .. Len(x)
      BY <1>0, <1>1, <1>8, <2>4
    <3>3. Sane(e) /\ Legal(x)
      BY <1>1, <1>6, <2>4, Zenon
    <3>4. p = IF i = 2 THEN x[1] ELSE Advance(x[1])
      BY <1>8, <2>3, <2>4, <3>1
    <3>5. Sane([e EXCEPT ![p] = x[i]])
      BY <3>2, <3>3, <3>4, StoredSane
    <3> QED BY <3>1, <3>5
  <2>6. Sane(chip'.regs)
    BY <1>4, <2>2, <2>4, <2>5
  <2>7. ChipOK'
    BY <1>6, <2>2, <2>6 DEF ChipOK, ChipType
  <2> QED BY <1>3, <1>4, <1>8, <2>2, <2>3, <2>7
<1> QED BY <1>2, <1>7, <1>8

\* A byte written puts the value of its transaction in place.
LEMMA DataSets ==
    ASSUME ClockInv, Proceeds, bus = "data", call \in Setters
    PROVE  SetInv'
<1>0. UNCHANGED <<call, todo, wanted, clean, carried>>
  BY ProceedsProgram
<1>1. PICK i : i = twi.bytesWritten
  OBVIOUS
<1>2. PICK w \in {8, 9}, n \in 0 .. 5 : SetAt(w, n) /\ (clean /\ ~carried => Holds(n))
  BY DEF ClockInv, SetInv
<1>3. n \in 1 .. 5 /\ twi.write = Nth(wanted, w, n)
  BY <1>2 DEF SetAt
<1>4. /\ twi.write[1] = RegisterOf(n)
      /\ twi.write[2] = IF n = 5 THEN 128 ELSE wanted[RegisterOf(n)]
      /\ Len(twi.write) = IF n \in {1, 2, 3} THEN 2 ELSE 3
  <2>1. PICK t : t = wanted
    OBVIOUS
  <2>2. /\ Nth(t, w, n)[1] = RegisterOf(n)
        /\ Nth(t, w, n)[2] = IF n = 5 THEN 128 ELSE t[RegisterOf(n)]
        /\ Len(Nth(t, w, n)) = IF n \in {1, 2, 3} THEN 2 ELSE 3
    BY <1>3, NthBytes
  <2> QED BY <1>3, <2>1, <2>2, Zenon
<1>5. /\ i \in 1 .. Len(twi.write)
      /\ twi'.write = twi.write /\ twi'.bytesToRead = 0
      /\ i < Len(twi.write) =>
            bus' = "data" /\ twi'.status = "BUSY" /\ twi'.bytesWritten = i + 1
      /\ i = Len(twi.write) => bus' = "idle" /\ twi'.status = "READY"
  BY <1>1, ByteSent
<1>6. SetAt(w, n)'
  <2>1. n # 0
    BY <1>3
  <2> QED BY <1>0, <1>2, <1>5, <2>1, Zenon DEF SetAt
<1>7. ASSUME Holds(n) PROVE Holds(n)'
  <2>0. /\ i = 1 => chip'.regs = chip.regs
        /\ i = 2 => chip'.regs = [chip.regs EXCEPT ![twi.write[1]] = twi.write[2]]
        /\ i = 3 => chip'.regs = [chip.regs EXCEPT ![Advance(twi.write[1])] = twi.write[3]]
    BY <1>1, DataStored
  <2>1. chip.regs \in [0 .. 7 -> Nat]
    BY DEF ClockInv, ChipOK
  <2>2. CASE i = 1
    <3>1. \A j \in 1 .. 5 : Through(n, j)' => Through(n, j)
      BY <1>4, <1>5, <2>2 DEF Through
    <3>2. 1 \in 1 .. 5 /\ 2 \in 1 .. 5 /\ 3 \in 1 .. 5 /\ 4 \in 1 .. 5 /\ 5 \in 1 .. 5
      OBVIOUS
    <3>3. chip'.regs = chip.regs /\ wanted' = wanted
      BY <1>0, <2>0, <2>2
    <3> QED BY <1>7, <3>1, <3>2, <3>3 DEF Holds, Running
  <2>3. CASE i = 2
    <3>1. \A j \in 1 .. 5 : Through(n, j) => n > j
      BY <1>1, <2>3 DEF Through
    <3>2. \A j \in 1 .. 5 : Through(n, j)' => n > j \/ n = j
      BY DEF Through
    <3>3. \A j \in 1 .. 5 : n > j => Through(n, j)
      BY DEF Through
    <3>4. chip'.regs = [chip.regs EXCEPT ![RegisterOf(n)] =
                           IF n = 5 THEN 128 ELSE wanted[RegisterOf(n)]]
      BY <1>4, <2>0, <2>3
    <3>5. /\ n > 1 => chip.regs[6] = wanted[6]
          /\ n > 2 => chip.regs[5] = wanted[5]
          /\ n > 3 => chip.regs[4] = wanted[4]
          /\ n > 4 => chip.regs[2] = wanted[2]
      BY <1>7, <3>3 DEF Holds
    <3>6. /\ n >= 1 => chip'.regs[6] = wanted[6]
          /\ n >= 2 => chip'.regs[5] = wanted[5]
          /\ n >= 3 => chip'.regs[4] = wanted[4]
          /\ n >= 4 => chip'.regs[2] = wanted[2]
          /\ n = 5 => chip'.regs[0] = 128
      BY <1>3, <2>1, <3>4, <3>5 DEF RegisterOf
    <3> QED BY <1>0, <1>3, <3>2, <3>6 DEF Holds, Running
  <2>4. CASE i = 3
    <3>1. n = 4 \/ n = 5
      BY <1>3, <1>4, <1>5, <2>4
    <3>2. Advance(RegisterOf(n)) \in {1, 3}
      BY <3>1 DEF RegisterOf, Advance
    <3>3. \A r \in {0, 2, 4, 5, 6} : chip'.regs[r] = chip.regs[r]
      <4>1. PICK a \in {1, 3} : a = Advance(RegisterOf(n))
        BY <3>2
      <4>2. PICK v : v = twi.write[3]
        OBVIOUS
      <4>3. chip'.regs = [chip.regs EXCEPT ![a] = v]
        BY <1>4, <2>0, <2>4, <4>1, <4>2
      <4> QED BY <2>1, <4>3
    <3>4. \A j \in 1 .. 5 : Through(n, j)' => Through(n, j)
      BY <1>1, <2>4 DEF Through
    <3> QED BY <1>0, <1>7, <3>3, <3>4 DEF Holds, Running
  <2> QED BY <1>4, <1>5, <2>2, <2>3, <2>4
<1>8. clean' /\ ~carried' => Holds(n)'
  BY <1>0, <1>2, <1>7, Zenon
<1> QED BY <1>6, <1>8, Zenon DEF SetInv

\* A byte written keeps the invariant.
LEMMA DataKeeps ==
    ASSUME ClockInv, Proceeds, bus = "data"
    PROVE  ClockInv'
<1>0. /\ call # "idle" /\ ProgramOK'
      /\ UNCHANGED <<call, todo, wanted, error_clock, clean, carried, seen>>
  BY ProceedsProgram
<1>1. PICK i : i = twi.bytesWritten
  OBVIOUS
<1>2. /\ i \in 1 .. Len(twi.write)
      /\ twi' \in TwiType /\ twi'.write = twi.write
      /\ twi'.bytesToRead = 0 /\ twi'.bytesRead = 0
      /\ i < Len(twi.write) =>
            bus' = "data" /\ twi'.status = "BUSY" /\ twi'.bytesWritten = i + 1
      /\ i = Len(twi.write) => bus' = "idle" /\ twi'.status = "READY"
  BY <1>1, ByteSent
<1>3. /\ ChipOK'
      /\ i = 1 => chip'.regs = chip.regs /\ chip'.pointer = twi.write[1]
      /\ i = 2 => chip'.pointer = Advance(twi.write[1])
  BY <1>1, DataStored
<1>4. twi.write # <<>> /\ Legal(twi.write) /\ twi.bytesToRead = 0 /\ Len(twi.write) \in 0 .. 3
  BY LegalFacts DEF ClockInv, BusOK, TwiOK
<1>5. TwiOK'
  BY <1>2, <1>4, Zenon DEF TwiOK
<1>6. BusOK'
  <2>1. twi'.write # <<>>
    BY <1>2, <1>4, Zenon
  <2>2. CASE i < Len(twi.write)
    <3>1. i + 1 \in 1 .. Len(twi'.write) /\ (i + 1 = 2 => i = 1) /\ (i + 1 = 3 => i = 2)
      BY <1>2, <1>4, <2>2
    <3> QED BY <1>2, <1>3, <2>1, <2>2, <3>1 DEF BusOK
  <2>3. CASE i = Len(twi.write)
    BY <1>2, <2>3 DEF BusOK
  <2> QED BY <1>2, <1>4, <2>2, <2>3
<1>7. SetInv'
  <2>1. CASE call \in Setters
    BY <2>1, DataSets
  <2>2. CASE call \notin Setters
    BY <1>0, <2>2 DEF SetInv
  <2> QED BY <2>1, <2>2
<1>8. GetInv'
  <2>1. SUFFICES ASSUME call = "get" PROVE GetInv'
    BY <1>0 DEF GetInv
  <2>2. TimeOf(chip.regs) \in seen /\ GetPoints
    BY <1>4, <2>1, Zenon DEF ClockInv, GetInv, GetReads
  <2>3. twi.write = <<0>> /\ todo = <<Transaction(<<>>, 7)>>
    BY <2>2, Zenon DEF GetPoints
  <2>4. Len(<<0>>) = 1 /\ <<0>>[1] = 0
    OBVIOUS
  <2>5. Len(twi.write) = 1 /\ twi.write[1] = 0
    BY <2>3, <2>4, Zenon
  <2>6. i = 1 /\ chip'.regs = chip.regs /\ chip'.pointer = 0
    BY <1>2, <1>3, <2>5
  <2>7. TimeOf(chip'.regs) \in seen'
    BY <1>0, <2>2, <2>6
  <2>8. GetPoints'
    BY <1>0, <1>2, <2>3, <2>6, Zenon DEF GetPoints
  <2> QED BY <2>7, <2>8, Zenon DEF GetInv
<1> QED BY <1>0, <1>3, <1>5, <1>6, <1>7, <1>8 DEF ClockInv

\* A byte is being read.
BusReads == bus \in {"read address", "receive"}

\* A byte read keeps it: the bytes read are those of one copy.
LEMMA ReadKeeps ==
    ASSUME ClockInv, Proceeds, BusReads
    PROVE  ClockInv'
<1>0. /\ call # "idle" /\ ProgramOK'
      /\ UNCHANGED <<call, todo, wanted, error_clock, clean, carried, seen>>
  BY ProceedsProgram
<1>1. twi.write = <<>> /\ twi.bytesRead \in 0 .. 6 /\ bus # "idle"
  <2>1. twi.write = <<>>
    BY Zenon DEF ClockInv, BusOK, BusReads
  <2>2. bus = "read address" => twi.bytesRead = 0
    BY Zenon DEF ClockInv, BusOK
  <2>3. bus = "receive" => twi.bytesRead \in 1 .. 6
    BY Zenon DEF ClockInv, BusOK
  <2>4. twi.bytesRead \in 0 .. 6
    <3>1. \A v : v = 0 \/ v \in 1 .. 6 => v \in 0 .. 6
      OBVIOUS
    <3> QED BY <2>2, <2>3, <3>1, Zenon DEF BusReads
  <2>5. bus # "idle"
    BY DEF BusReads
  <2> QED BY <2>1, <2>4, <2>5
<1>2. PICK k \in 0 .. 6 : k = twi.bytesRead
  BY <1>1
<1>3. /\ bus = "read address" =>
            k = 0 /\ chip' = [chip EXCEPT !.copy = chip.regs, !.pointer = Advance(@)]
      /\ bus = "receive" =>
            k > 0 /\ chip' = [chip EXCEPT !.pointer = Advance(@)]
      /\ twi' \in TwiType /\ twi'.write = <<>> /\ twi'.bytesToRead = 7
      /\ twi'.bytesWritten = 0 /\ twi'.bytesRead = k + 1
      /\ twi'.readData[k] = chip'.copy[chip.pointer]
      /\ \A i \in 0 .. k - 1 : twi'.readData[i] = twi.readData[i]
      /\ k < 6 => bus' = "receive" /\ twi'.status = "BUSY"
      /\ k = 6 => bus' = "idle" /\ twi'.status = "READY"
  <2>1. bus = "read address" \/ bus = "receive"
    BY Zenon DEF BusReads
  <2> QED BY <1>2, <2>1, ByteRead
<1>4. /\ chip' \in ChipType /\ chip'.regs = chip.regs /\ chip'.pointer = Advance(chip.pointer)
      /\ bus = "read address" => chip'.copy = chip.regs
      /\ bus = "receive" => chip'.copy = chip.copy
  <2>1. chip \in ChipType /\ Advance(chip.pointer) \in 0 .. 7
    BY DEF ClockInv, ChipOK, ChipType, Advance
  <2>2. CASE bus = "read address"
    BY <1>3, <2>1, <2>2 DEF ChipType
  <2>3. CASE bus = "receive"
    BY <1>3, <2>1, <2>3 DEF ChipType
  <2> QED BY <2>2, <2>3 DEF BusReads
<1>5. ChipOK'
  <2>1. Sane(chip.regs) /\ Sane(chip.copy)
    BY DEF ClockInv, ChipOK
  <2>2. Sane(chip'.regs) /\ Sane(chip'.copy)
    BY <1>4, <2>1, Zenon DEF BusReads
  <2> QED BY <1>4, <2>2 DEF ChipOK, ChipType
<1>6. TwiOK'
  <2>1. Legal(<<>>)
    BY Zenon DEF Legal
  <2> QED BY <1>3, <2>1, Zenon DEF TwiOK
<1>7. BusOK'
  <2>1. CASE k < 6
    <3>1. k + 1 \in 1 .. 6
      BY <2>1
    <3> QED BY <1>3, <2>1, <3>1 DEF BusOK
  <2>2. CASE k = 6
    BY <1>3, <2>2 DEF BusOK
  <2> QED BY <2>1, <2>2
<1>8. SetInv'
  <2>1. SUFFICES ASSUME call \in Setters PROVE FALSE
    BY <1>0 DEF SetInv
  <2>2. PICK w \in {8, 9}, n \in 0 .. 5 : SetAt(w, n)
    BY <2>1 DEF ClockInv, SetInv
  <2>3. n \in 1 .. 5 /\ twi.write = Nth(wanted, w, n)
    <3>1. n # 0 /\ twi.write = Nth(wanted, w, n)
      BY <1>1, <2>2, Zenon DEF SetAt
    <3> QED BY <3>1
  <2>4. PICK t : t = wanted
    OBVIOUS
  <2>5. Nth(t, w, n) # <<>>
    BY <2>3, NthBytes
  <2> QED BY <1>1, <2>3, <2>4, <2>5, Zenon
<1>9. GetInv'
  <2>1. SUFFICES ASSUME call = "get" PROVE GetInv'
    BY <1>0 DEF GetInv
  <2>2. TimeOf(chip.regs) \in seen /\ GetReads
    <3>1. <<0>> # <<>>
      OBVIOUS
    <3> QED BY <1>1, <2>1, <3>1, Zenon DEF ClockInv, GetInv, GetPoints
  <2>3. TimeOf(chip'.regs) \in seen'
    BY <1>0, <1>4, <2>2
  <2>4. ASSUME clean' PROVE chip'.pointer = k + 1 /\ Copied(k + 1)'
    <3>1. clean
      BY <1>0, <2>4
    <3>2. Running(chip') <=> chip.regs[0] >= 128
      BY <1>4 DEF Running
    <3>3. CASE bus = "read address"
      <4>1. k = 0 /\ chip.pointer = 0 /\ chip'.copy = chip.regs
        BY <1>3, <1>4, <2>2, <3>1, <3>3 DEF GetReads
      <4>2. chip'.pointer = 1 /\ k + 1 = 1
        BY <1>4, <4>1 DEF Advance
      <4>3. twi'.readData[0] = chip'.copy[0]
        BY <1>3, <4>1
      <4>4. \A i \in 0 .. 1 - 1 : twi'.readData[i] = chip'.copy[i]
        BY <4>3
      <4>5. TimeOf(chip'.copy) \in seen'
        BY <1>0, <2>2, <4>1
      <4>6. Copied(1)'
        BY <3>2, <4>1, <4>4, <4>5, Zenon DEF Copied
      <4> QED BY <4>2, <4>6
    <3>4. CASE bus = "receive"
      <4>1. chip.pointer = k /\ Copied(k) /\ chip'.copy = chip.copy
        BY <1>2, <1>4, <2>2, <3>1, <3>4, Zenon DEF GetReads
      <4>2. chip'.pointer = k + 1
        <5>1. Advance(k) = k + 1
          BY DEF Advance
        <5> QED BY <1>4, <4>1, <5>1, Zenon
      <4>3. \A i \in 0 .. (k + 1) - 1 : i = k \/ i \in 0 .. k - 1
        OBVIOUS
      <4>4. \A i \in 0 .. (k + 1) - 1 : twi'.readData[i] = chip'.copy[i]
        BY <1>3, <4>1, <4>3, Zenon DEF Copied
      <4>5. TimeOf(chip'.copy) \in seen'
        BY <1>0, <4>1 DEF Copied
      <4>6. chip'.copy[0] >= 128 <=> Running(chip')
        BY <3>2, <4>1 DEF Copied, Running
      <4> QED BY <4>2, <4>4, <4>5, <4>6, Zenon DEF Copied
    <3> QED BY <3>3, <3>4 DEF BusReads
  <2>5. todo' = <<>> /\ twi'.write = <<>> /\ twi'.bytesToRead = 7
    BY <1>0, <1>3, <2>2, Zenon DEF GetReads
  <2>6. GetReads'
    <3>1. CASE k < 6
      <4>1. bus' = "receive" /\ twi'.bytesRead = k + 1
        BY <1>3, <3>1
      <4>2. clean' => chip'.pointer = twi'.bytesRead /\ Copied(twi.bytesRead)'
        BY <2>4, <4>1, Zenon DEF Copied
      <4> QED BY <2>5, <4>1, <4>2, Zenon DEF GetReads
    <3>2. CASE k = 6
      <4>0. bus' = "idle"
        BY <1>3, <3>2, Zenon
      <4>1. bus' = "idle" /\ k + 1 = 7
        BY <3>2, <4>0
      <4>2. clean' => Copied(7)'
        BY <2>4, <4>1, Zenon
      <4> QED BY <2>5, <4>1, <4>2, Zenon DEF GetReads
    <3> QED BY <3>1, <3>2
  <2> QED BY <2>3, <2>6, Zenon DEF GetInv
<1> QED BY <1>0, <1>5, <1>6, <1>7, <1>8, <1>9 DEF ClockInv

\* Every interrupt keeps it.
LEMMA ProceedsKeeps ==
    ASSUME ClockInv, Proceeds
    PROVE  ClockInv'
<1>1. bus \in {"address", "data", "read address", "receive"}
  BY DEF ClockInv, BusOK, Proceeds
<1> QED BY <1>1, AddressKeeps, DataKeeps, ReadKeeps DEF BusReads

-----------------------------------------------------------------------------
\* Along every run a transaction in progress is one of the call in progress,
\* the chip's pointer follows it byte by byte, and what it moved is in place:
\* the registers set so far hold what is wanted, the bytes read so far are
\* those of one moment of the call (hardware.c, twi_master_driver.c).
THEOREM ClockInvariant == ClockSpec => []ClockInv
<1>1. ClockInit => ClockInv
  <2> SUFFICES ASSUME ClockInit PROVE ClockInv
    OBVIOUS
  <2>1. ChipOK
    BY LostSane DEF ClockInit, ChipOK
  <2>2. /\ Idle.status = "READY" /\ Idle.write = <<>> /\ Idle \in TwiType
    <3>1. "UNKNOWN" \in Results
      BY DEF Results
    <3>2. [i \in 0 .. BufferSize - 1 |-> 0] \in [0 .. BufferSize - 1 -> Nat]
      OBVIOUS
    <3>3. <<>> \in Seq(Nat)
      OBVIOUS
    <3> QED BY <3>1, <3>2, <3>3 DEF Idle, TwiType
  <2>3. TwiOK
    BY <2>2, Zenon DEF ClockInit, TwiOK, Legal
  <2>4. BusOK
    BY <2>2 DEF ClockInit, BusOK
  <2>5. ProgramOK
    BY DEF ClockInit, ProgramOK
  <2>6. SetInv
    BY DEF ClockInit, SetInv, Setters
  <2>7. GetInv
    <3>1. TimeOf(chip.regs) \in seen
      BY DEF ClockInit
    <3> QED BY <3>1, Zenon DEF ClockInit, GetInv
  <2> QED BY <2>1, <2>3, <2>4, <2>5, <2>6, <2>7 DEF ClockInv
<1>2. ClockInv /\ [ClockNext]_clockVars => ClockInv'
  <2> SUFFICES ASSUME ClockInv, [ClockNext]_clockVars PROVE ClockInv'
    OBVIOUS
  <2>1. CASE UNCHANGED clockVars
    <3>1. UNCHANGED <<call, todo, twi, bus, chip, error_clock, wanted, clean, seen, carried>>
      BY <2>1 DEF clockVars, program, history
    <3>2. ChipOK' /\ TwiOK' /\ BusOK'
      BY <3>1, BusRests
    <3>3. ProgramOK'
      BY <3>1 DEF ClockInv, ProgramOK
    <3>4. SetInv'
      BY <3>1 DEF ClockInv, SetInv, SetAt, Holds, Through
    <3>5. GetInv'
      BY <3>1, Zenon DEF ClockInv, GetInv, GetPoints, GetReads, Copied
    <3> QED BY <3>2, <3>3, <3>4, <3>5 DEF ClockInv
  <2>2. CASE Get
    BY <2>2, GetKeeps
  <2>3. ASSUME NEW t \in Times, SetDateTime(t) \/ ConsoleSets(t) PROVE ClockInv'
    BY <2>3, SetDateTimeKeeps, ConsoleSetsKeeps
  <2>4. CASE StartNext
    BY <2>4, StartNextKeeps
  <2>5. CASE GetEnds
    BY <2>5, GetEndsKeeps
  <2>6. CASE SetEnds
    BY <2>6, SetEndsKeeps
  <2>7. CASE Proceeds
    BY <2>7, ProceedsKeeps
  <2>8. CASE Fails
    BY <2>8, FailsKeeps
  <2>9. CASE Tick
    BY <2>9, TickKeeps
  <2>10. CASE Restart
    BY <2>10, RestartKeeps
  <2> QED BY <2>1, <2>2, <2>3, <2>4, <2>5, <2>6, <2>7, <2>8, <2>9, <2>10 DEF ClockNext
<1> QED BY <1>1, <1>2, PTL DEF ClockSpec

\* When no transaction of a get_time failed, the time it hands to the program
\* is one the chip had during the call, and the clock is taken for stopped
\* only if it is, although get_time asks neither how its transactions ended
\* nor where the second one reads from (hardware.c).
THEOREM ClockReadIsTrue == ClockSpec => TimeIsTrue
<1> DEFINE Claim == date_time' \in seen /\ (error_clock' # error_clock => ~Running(chip))
<1>1. ASSUME ClockInv, GetEnds, clean PROVE Claim
  <2>1. call = "get" /\ todo = <<>> /\ bus = "idle"
    BY <1>1 DEF ClockInv, BusOK, GetEnds, Over, Waited
  <2>2. Copied(7)
    <3>1. GetReads
      BY <1>1, <2>1, GetTimeParts, Zenon DEF ClockInv, GetInv, GetPoints
    <3> QED BY <1>1, <2>1, <3>1 DEF GetReads
  <2>3. PICK d, c : d = twi.readData /\ c = chip.copy
    OBVIOUS
  <2>4. \A r \in {0, 1, 2, 4, 5, 6} : d[r] = c[r]
    <3>1. \A r \in {0, 1, 2, 4, 5, 6} : r \in 0 .. 7 - 1
      OBVIOUS
    <3> QED BY <2>2, <2>3, <3>1, Zenon DEF Copied
  <2>5. Sane(c)
    BY <1>1, <2>3 DEF ClockInv, ChipOK
  <2>6. date_time' = TimeOf(c)
    <3>1. date_time' = [r \in TimeRegs |-> d[r] % Mask(r)]
      BY <1>1, <2>3 DEF GetEnds
    <3>2. ASSUME NEW r \in TimeRegs PROVE d[r] % Mask(r) = Value(c, r)
      <4>1. r \in {0, 1, 2, 4, 5, 6} /\ d[r] = c[r] /\ c[r] \in Nat
        BY <2>4, <2>5 DEF TimeRegs, Sane
      <4>2. CASE r = 0
        BY <4>1, <4>2 DEF Mask, Value
      <4>3. CASE r = 1
        BY <2>5, <4>1, <4>3, ClockConstants DEF Mask, Value, Sane
      <4>4. CASE r \in {2, 4}
        BY <2>5, <4>1, <4>4, ClockConstants DEF Mask, Value, Sane
      <4>5. CASE r = 5
        BY <2>5, <4>1, <4>5, ClockConstants DEF Mask, Value, Sane
      <4>6. CASE r = 6
        BY <2>5, <4>1, <4>6, ClockConstants DEF Mask, Value, Sane
      <4> QED BY <4>1, <4>2, <4>3, <4>4, <4>5, <4>6
    <3> QED BY <3>1, <3>2 DEF TimeOf
  <2>7. date_time' \in seen
    BY <2>2, <2>3, <2>6 DEF Copied
  <2>8. ASSUME error_clock' # error_clock PROVE ~Running(chip)
    <3>1. Stopped
      <4>1. error_clock' = (error_clock \/ Stopped)
        BY <1>1 DEF GetEnds
      <4>2. error_clock \in BOOLEAN
        BY <1>1 DEF ClockInv, ProgramOK
      <4> QED BY <2>8, <4>1, <4>2
    <3>2. d[0] < 128 /\ d[0] = c[0] /\ c[0] \in Nat
      BY <2>3, <2>4, <2>5, <3>1 DEF Stopped, Sane
    <3>3. ~(c[0] >= 128)
      BY <3>2
    <3> QED BY <2>2, <2>3, <3>3, Zenon DEF Copied
  <2> QED BY <2>7, <2>8
<1>2. ClockInv => (GetEnds /\ clean => Claim)
  BY <1>1
<1>3. ClockInv /\ [ClockNext]_clockVars => [GetEnds /\ clean => Claim]_clockVars
  BY <1>2
<1> QED BY <1>3, ClockInvariant, PTL DEF ClockSpec, TimeIsTrue

\* When no transaction of a setting failed and the hour did not change by
\* itself meanwhile, the chip runs when the setting ends and holds the hour,
\* date, month and year wanted: no transaction of SetDateTime is refused, none
\* overtakes another (hardware.c).
THEOREM ClockSetIsWhole == ClockSpec => SetsWhole
<1> DEFINE Claim == Running(chip) /\ \A r \in {2, 4, 5, 6} : chip.regs[r] = wanted[r]
<1>1. ASSUME ClockInv, SetEnds, clean, ~carried PROVE Claim
  <2>1. call \in Setters /\ todo = <<>> /\ bus = "idle"
    BY <1>1 DEF ClockInv, BusOK, SetEnds, Over, Waited, Setters
  <2>2. PICK w \in {8, 9}, n \in 0 .. 5 : SetAt(w, n) /\ (clean /\ ~carried => Holds(n))
    BY <1>1, <2>1 DEF ClockInv, SetInv
  <2>3. n = 5
    <3>1. PICK t : t = wanted
      OBVIOUS
    <3>2. After(t, w, n) = <<>>
      BY <2>1, <2>2, <3>1, Zenon DEF SetAt
    <3> QED BY <3>2, AfterEnds
  <2>4. Holds(n)
    BY <1>1, <2>2, Zenon
  <2> QED BY <2>1, <2>3, <2>4 DEF Holds, Through
<1>2. ClockInv => (SetEnds /\ clean /\ ~carried => Claim)
  BY <1>1
<1>3. ClockInv /\ [ClockNext]_clockVars => [SetEnds /\ clean /\ ~carried => Claim]_clockVars
  BY <1>2
<1> QED BY <1>3, ClockInvariant, PTL DEF ClockSpec, SetsWhole
=============================================================================
