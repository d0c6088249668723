------------------------------ MODULE MCSim900 ------------------------------
(* The modem driver with its six minutes; resets, faults and the room of a *)
(* minute are bounded by the .cfg.                                         *)
EXTENDS Sim900
=============================================================================
