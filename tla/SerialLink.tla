----------------------------- MODULE SerialLink -----------------------------
(***************************************************************************)
(* The framing of SerialLink.c between the host and the radio module:      *)
(*    START type lenMSB lenLSB crc data ... END                            *)
(* with every byte below Ctl escaped, and the checksum an exclusive or.    *)
(* The same code frames both directions, so the peer is modelled by the    *)
(* encoder of this file, and the line may lose and change bytes.           *)
(***************************************************************************)
EXTENDS Integers, Sequences

CONSTANTS
    W,              \* values of a byte (256 in the program), a power of two
    Ctl,            \* bytes below it are escaped; the bit escaping flips (0x10)
    MaxLength,      \* sizeof(sIncomingMsg.u8Message)
    Messages,       \* the messages the peer sends: [type, data]
    Noise,          \* the bytes a byte on the line may turn into
    MaxErrors       \* bound: bytes lost or changed in a behaviour

Byte == 0 .. W - 1

ASSUME LinkAssumption ==
    /\ W \in {8, 16, 32, 64, 128, 256} /\ Ctl \in {4, 8, 16, 32, 64, 128}
    /\ W >= 2 * Ctl
    /\ MaxLength \in Nat
    /\ Messages \subseteq [type : Byte, data : Seq(Byte)]
    /\ \A m \in Messages : Len(m.data) < W * W
    /\ Noise \subseteq Byte
    /\ MaxErrors \in Nat

START == 1
ESC == 2
END == 3

VARIABLES
    line,           \* bytes on their way to the receiver
    msg,            \* the message the peer sent last
    hit,            \* a byte of its frame was lost or changed
    errors,         \* bytes lost or changed so far
    received,       \* what bSL_ReadMessage returned since it was sent
    eRxState, u8CRC, u16Bytes, bInEsc,      \* the statics of bSL_ReadMessage
    u8Type, u16Length, u8Message            \* sIncomingMsg

statics == <<eRxState, u8CRC, u16Bytes, bInEsc, u8Type, u16Length, u8Message>>
vars == <<line, msg, hit, errors, received, statics>>

-----------------------------------------------------------------------------
(* Arithmetic on bytes.                                                    *)

\* The bit of value p in the exclusive or.
Differ(a, b, p) == IF p < W /\ (a \div p) % 2 # (b \div p) % 2 THEN p ELSE 0
Xor(a, b) ==
    Differ(a, b, 1) + Differ(a, b, 2) + Differ(a, b, 4) + Differ(a, b, 8)
    + Differ(a, b, 16) + Differ(a, b, 32) + Differ(a, b, 64) + Differ(a, b, 128)

\* u8Data ^= 0x10
Flip(b) == IF (b \div Ctl) % 2 = 0 THEN b + Ctl ELSE b - Ctl

\* u8SL_CalculateCRC
CalculateCRC(type, length, data) ==
    LET bytes == <<type, length \div W, length % W>> \o data
        crc[n \in 0 .. Len(bytes)] ==
            IF n = 0 THEN 0 ELSE Xor(crc[n - 1], bytes[n])
    IN  crc[Len(bytes)]

-----------------------------------------------------------------------------
(* vSL_WriteMessage: the frame of a message, escapes included.             *)

TxByte(b) == IF b < Ctl THEN <<ESC, Flip(b)>> ELSE <<b>>

\* What is sent between START and END, before it is escaped.
Body(m) ==
    LET n == Len(m.data)
    IN  <<m.type, n \div W, n % W, CalculateCRC(m.type, n, m.data)>> \o m.data

\* The last k bytes of the body and END, for each k.
Rest(body) ==
    LET rest[k \in 0 .. Len(body)] ==
            IF k = 0 THEN <<END>>
            ELSE TxByte(body[Len(body) + 1 - k]) \o rest[k - 1]
    IN  rest

Frame(m) == <<START>> \o Rest(Body(m))[Len(Body(m))]

-----------------------------------------------------------------------------
(* bSL_ReadMessage on one byte; each operator is a case of its switch.     *)

\* Faulty: an escape before START is remembered.
RxStartInEscape ==
    /\ u16Bytes' = 0
    /\ eRxState' = "TYPE"
    /\ UNCHANGED <<received, u8CRC, bInEsc, u8Type, u16Length, u8Message>>

RxStart ==
    /\ u16Bytes' = 0
    /\ bInEsc' = FALSE
    /\ eRxState' = "TYPE"
    /\ UNCHANGED <<received, u8CRC, u8Type, u16Length, u8Message>>

RxEsc ==
    /\ bInEsc' = TRUE
    /\ UNCHANGED <<received, eRxState, u8CRC, u16Bytes, u8Type, u16Length, u8Message>>

Payload == SubSeq(u8Message, 1, u16Length)

\* END is taken in whatever state the receiver is.
RxEnd ==
    /\ IF u16Length > MaxLength
       THEN /\ eRxState' = "START"
            /\ UNCHANGED received
       ELSE IF u8CRC = CalculateCRC(u8Type, u16Length, Payload)
       THEN /\ eRxState' = "START"
            /\ received' = Append(received, [type |-> u8Type, data |-> Payload])
       ELSE UNCHANGED <<eRxState, received>>
    /\ UNCHANGED <<u8CRC, u16Bytes, bInEsc, u8Type, u16Length, u8Message>>

\* Faulty: each field leads to the next, the length is not checked.
RxFieldUnchecked(b) ==
    /\ bInEsc' = FALSE
    /\ eRxState' = CASE eRxState = "TYPE"   -> "LENMSB"
                     [] eRxState = "LENMSB" -> "LENLSB"
                     [] eRxState = "LENLSB" -> "CRC"
                     [] eRxState = "CRC"    -> "DATA"
                     [] OTHER               -> eRxState
    /\ u16Length' = CASE eRxState = "LENMSB" -> b * W
                      [] eRxState = "LENLSB" -> u16Length + b
                      [] OTHER               -> u16Length
    /\ UNCHANGED <<received, u8CRC, u16Bytes, u8Type, u8Message>>

\* Any other byte, its escape removed, is field eRxState of the frame.
RxField(b) ==
    /\ bInEsc' = FALSE
    /\ UNCHANGED received
    /\ \/ /\ eRxState = "START"
          /\ UNCHANGED <<eRxState, u8CRC, u16Bytes, u8Type, u16Length, u8Message>>
       \/ /\ eRxState = "TYPE"
          /\ u8Type' = b
          /\ eRxState' = "LENMSB"
          /\ UNCHANGED <<u8CRC, u16Bytes, u16Length, u8Message>>
       \/ /\ eRxState = "LENMSB"
          /\ u16Length' = b * W
          /\ eRxState' = "LENLSB"
          /\ UNCHANGED <<u8CRC, u16Bytes, u8Type, u8Message>>
       \/ /\ eRxState = "LENLSB"
          /\ u16Length' = u16Length + b
          /\ eRxState' = IF u16Length' > MaxLength THEN "START" ELSE "CRC"
          /\ UNCHANGED <<u8CRC, u16Bytes, u8Type, u8Message>>
       \/ /\ eRxState = "CRC"
          /\ u8CRC' = b
          /\ eRxState' = "DATA"
          /\ UNCHANGED <<u16Bytes, u8Type, u16Length, u8Message>>
       \/ /\ eRxState = "DATA"
          /\ IF u16Bytes < u16Length
             THEN /\ u8Message' = [u8Message EXCEPT ![u16Bytes + 1] = b]
                  /\ u16Bytes' = u16Bytes + 1
             ELSE UNCHANGED <<u8Message, u16Bytes>>
          /\ UNCHANGED <<eRxState, u8CRC, u8Type, u16Length>>

RxByte(b) ==
    CASE b = START -> RxStart
      [] b = ESC   -> RxEsc
      [] b = END   -> RxEnd
      [] OTHER     -> RxField(IF bInEsc THEN Flip(b) ELSE b)

-----------------------------------------------------------------------------
Init ==
    /\ line = <<>>
    /\ msg \in Messages
    /\ hit = TRUE /\ errors = 0
    /\ received = <<>>
    /\ eRxState = "START" /\ u8CRC = 0 /\ u16Bytes = 0 /\ bInEsc = FALSE
    /\ u8Type = 0 /\ u16Length = 0
    /\ u8Message = [i \in 1 .. MaxLength |-> 0]

\* The peer sends when its last frame is over.
Send(m) ==
    /\ line = <<>>
    /\ line' = Frame(m)
    /\ msg' = m
    /\ hit' = FALSE
    /\ received' = <<>>
    /\ UNCHANGED <<errors, statics>>

Receive ==
    /\ line # <<>>
    /\ line' = Tail(line)
    /\ RxByte(Head(line))
    /\ UNCHANGED <<msg, hit, errors>>

Damage ==
    /\ errors < MaxErrors
    /\ errors' = errors + 1
    /\ hit' = TRUE

Lose ==
    /\ Damage
    /\ line # <<>>
    /\ line' = Tail(line)
    /\ UNCHANGED <<msg, received, statics>>

Change(b) ==
    /\ Damage
    /\ line # <<>> /\ b # Head(line)
    /\ line' = Tail(line)
    /\ RxByte(b)
    /\ UNCHANGED msg

Next ==
    \/ \E m \in Messages : Send(m)
    \/ Receive
    \/ Lose
    \/ \E b \in Noise : Change(b)

Spec == Init /\ [][Next]_vars

-----------------------------------------------------------------------------
RxStates == {"START", "TYPE", "LENMSB", "LENLSB", "CRC", "DATA"}

\* Type invariant.
TypeOK ==
    /\ line \in Seq(Byte) /\ msg \in Messages /\ hit \in BOOLEAN
    /\ errors \in 0 .. MaxErrors
    /\ eRxState \in RxStates /\ u8CRC \in Byte /\ bInEsc \in BOOLEAN
    /\ u16Bytes \in Nat /\ u16Length \in Nat
    /\ u8Type \in Byte
    /\ u8Message \in [1 .. MaxLength -> Byte]

\* Whatever arrives, data are stored inside u8Message: the length that was
\* checked in WAIT_LENLSB is the one that bounds every later write, although
\* the length lives in the caller and END does not reset the state.
StoresInBounds ==
    eRxState \in {"CRC", "DATA"} => u16Length <= MaxLength /\ u16Bytes <= u16Length

\* Resynchronisation and round trip: a frame that arrives whole is delivered
\* exactly once and as it was sent, whatever was left of the frames before it,
\* if it fits the receiver.
IntactFrameDelivered ==
    line = <<>> /\ ~hit /\ Len(msg.data) <= MaxLength => received = <<msg>>
=============================================================================
