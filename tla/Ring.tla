-------------------------------- MODULE Ring --------------------------------
(***************************************************************************)
(* The index arithmetic of the interrupt-driven byte rings of              *)
(* GPRS_Uart.c, CRD2_Uart.c and FTDI_Uart.c.                               *)
(*                                                                         *)
(* An index is a volatile uint16_t, but the CPU moves eight bits at a      *)
(* time, so an access of the main program is two instructions and an       *)
(* interrupt may be served between them.  An index is therefore seen as    *)
(* two halves: the low one counts modulo Lo (256 in the program).          *)
(***************************************************************************)
EXTENDS Integers, Sequences

CONSTANTS
    Size,   \* slots of the ring (1024 in the program), a power of two
    Lo,     \* values of the low half of an index (256 in the program)
    Data    \* the bytes

ASSUME RingAssumption ==
    /\ Size \in Nat /\ Size >= 2
    /\ Lo \in Nat /\ Lo >= 1

Index == 0 .. Size - 1

\* (i + 1) & (Size - 1)
Succ(i) == IF i + 1 = Size THEN 0 ELSE i + 1

\* The value made of the low half of a and the high half of b.
Mix(a, b) == (b \div Lo) * Lo + (a % Lo)

\* What a 16-bit access may see or leave while the value goes from a to b,
\* whichever half the compiler moves first.
Torn(a, b) == {Mix(a, b), Mix(b, a)}

\* Bytes between tail t and head h, and the slot k places after t.
Count(h, t) == IF h >= t THEN h - t ELSE h - t + Size
Slot(t, k) == IF t + k < Size THEN t + k ELSE t + k - Size

\* The bytes of the ring b from tail t up to head h, oldest first.
Slice(b, h, t) == [k \in 1 .. Count(h, t) |-> b[Slot(t, k - 1)]]
=============================================================================
