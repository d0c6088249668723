------------------------------ MODULE MCUartTx ------------------------------
(* A ring of four slots whose index has a low half of two values, so that  *)
(* half-stored heads and tails that are other valid indices occur.         *)
EXTENDS UartTx
=============================================================================
