---------------------------- MODULE MCLampTable ----------------------------
(* Three lamps and a table of two rows, so that a list of three does not   *)
(* fit; lists go in packets of one row, answers carry one entry.           *)
EXTENDS LampTable

CONSTANTS a, b, c
MCLists == {<<a, b>>, <<b, c, a>>}
MCNetworks == {<<a, b>>, <<b>>}
=============================================================================
