---------------------------- MODULE MCSerialLink ----------------------------
(* Bytes of three bits, of which the values below 4 are escaped; frames of *)
(* up to two data bytes, with and without escapes in every field, and one  *)
(* of three, which is longer than the receiver takes.                      *)
EXTENDS SerialLink

MCMessages ==
    {[type |-> 5, data |-> <<>>],
     [type |-> 1, data |-> <<3, 6>>],
     [type |-> 5, data |-> <<6>>],
     [type |-> 6, data |-> <<5, 0, 5>>]}
MCNoise == {START, ESC, END, 5}
=============================================================================
