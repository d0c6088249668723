------------------------------ MODULE MCUartRx ------------------------------
(* Four slots, low half of two values: see MCUartTx.                       *)
EXTENDS UartRx
=============================================================================
