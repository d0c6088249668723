--------------------------- MODULE MCGprsClients ---------------------------
(* One ordinary connection and number 7, two PCs.                          *)
EXTENDS GprsClients
=============================================================================
