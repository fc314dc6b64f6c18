------------------------- MODULE MCDedicatedClient -------------------------
(* Small instances of DedicatedClient: its constants are numbers.           *)
EXTENDS DedicatedClient
=============================================================================
