----------------------------- MODULE MCMeasure -----------------------------
(* A history of three samples, one every second minute; answers of two     *)
(* pieces; a client asks for the samples from some time on.                 *)
EXTENDS Measure

MCRanges == {[from |-> 3, to |-> 99]}
=============================================================================
