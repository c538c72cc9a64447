-------------------------- MODULE ClipQueueDelivery --------------------------
(***************************************************************************)
(* The refinement mapping from the queue on disk to ClipDelivery.          *)
(***************************************************************************)
EXTENDS ClipQueue

Waiting == (admitted \cap (Present(pending) \cup Present(inflight) \cup Claiming)) \ recorded

\* Evicted for the submission under way, after the runner had claimed it.
WrittenOff == IF ipc = "idle" THEN {} ELSE evictions \cap Waiting

Delivery == INSTANCE ClipDelivery WITH
    waiting <- Waiting,
    stored <- accepted,
    settled <- recorded,
    dropped <- (admitted \ Waiting) \ recorded,
    writtenOff <- WrittenOff,
    taken <- taken,
    Misread <- MaxFaults > 0

\* The queue implements ClipDelivery: each clip is admitted once, into room that
\* is there but for clips the runner claimed while the census or the evictions
\* ran; only waiting clips reach perchpub; each leaves once and for good. Three
\* unlocked tasks, evictions and crashes stay invisible (PolicyInbox, try_once,
\* reconcile_inflight). That each does leave is QueueDrains.
DeliveryImplemented == Delivery!Safety
=============================================================================
