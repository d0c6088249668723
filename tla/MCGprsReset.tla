---------------------------- MODULE MCGprsReset ----------------------------
(* A day of six hours of three minutes: every period in hours and in       *)
(* minutes that is due at least twice a day.                               *)
EXTENDS GprsReset

MCPeriods == ((1 .. Hours - 1) \X {0, 1}) \cup ({0} \X (1 .. Minutes - 1))
=============================================================================
