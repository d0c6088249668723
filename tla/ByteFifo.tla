------------------------------ MODULE ByteFifo ------------------------------
(***************************************************************************)
(* What a serial ring promises its two users: bytes leave in the order     *)
(* they were put in, each once, never more than Capacity of them at a      *)
(* time, and nothing leaves that was not put in.                           *)
(***************************************************************************)
EXTENDS Naturals, Sequences

CONSTANTS Data,      \* the bytes
          Capacity   \* most bytes held at a time

VARIABLES q,         \* bytes waiting, oldest first
          out        \* the byte taken last

vars == <<q, out>>

Init == q = <<>> /\ out \in Data

Put(d) == /\ Len(q) < Capacity
          /\ q' = Append(q, d)
          /\ UNCHANGED out

Get == /\ q # <<>>
       /\ out' = Head(q)
       /\ q' = Tail(q)

Next == Get \/ \E d \in Data : Put(d)

Spec == Init /\ [][Next]_vars
=============================================================================
