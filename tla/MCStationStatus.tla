--------------------------- MODULE MCStationStatus ---------------------------
EXTENDS StationStatus
MCSize == [c \in Clips |-> 1]
=============================================================================
