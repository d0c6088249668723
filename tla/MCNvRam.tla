------------------------------ MODULE MCNvRam ------------------------------
(* Bytes of three values: sums collide, so that some half-written blocks  *)
(* pass the check at the next start.                                       *)
EXTENDS Pin
=============================================================================
