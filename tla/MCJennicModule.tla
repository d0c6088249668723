--------------------------- MODULE MCJennicModule ---------------------------
(* One module; the limits keep the order 3 * MAX_ADDRESS_RETRIES seconds   *)
(* below MODULE_TIMEOUT and PING_INTERVAL well below it.                   *)
EXTENDS JennicModule
=============================================================================
