------------------------- MODULE MCCaptureSupervisor -------------------------
EXTENDS CaptureSupervisor
=============================================================================
