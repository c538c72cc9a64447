----------------------------- MODULE MCClipQueue -----------------------------
EXTENDS ClipQueueDelivery
MCSize == [c \in Clips |-> IF c = 2 THEN 2 ELSE 1]
=============================================================================
