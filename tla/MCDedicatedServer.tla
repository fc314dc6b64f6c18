------------------------- MODULE MCDedicatedServer -------------------------
EXTENDS DedicatedServer
=============================================================================
