---------------------------- MODULE ClipDelivery ----------------------------
(***************************************************************************)
(* What the queue promises the camera and perchpub, without directories,   *)
(* sidecars, tasks or restarts: a clip is admitted once and waits; while   *)
(* it waits perchpub may store it; it stops waiting once, with an outcome  *)
(* on record or dropped, and nothing brings it back. To make room for a    *)
(* clip others are dropped; one that is being uploaded cannot be, and is   *)
(* only written off: the admission it was meant for does not count it, the *)
(* next one does. Nor does an admission need to count the clips that were  *)
(* taken up for upload while it looked at the queue.                       *)
(***************************************************************************)
EXTENDS Naturals, FiniteSets, Functions

CONSTANTS
    Clips, Size,
    MaxClips, MaxBytes,   \* the two ceilings of the queue
    Misread               \* TRUE: the size of a new clip may be read as 0

VARIABLES
    waiting,    \* admitted clips the station still owes an outcome
    stored,     \* clips perchpub has
    settled,    \* clips with a Delivered or Undeliverable record
    dropped,    \* clips evicted or lost
    writtenOff, \* clips evicted for the next admission that wait nevertheless
    taken       \* clips an upload took up since the admission under way began

clips == <<waiting, stored, settled, dropped, writtenOff, taken>>

Init ==
    /\ waiting = {} /\ stored = {} /\ settled = {} /\ dropped = {}
    /\ writtenOff = {} /\ taken = {}

\* The new clip fits under both ceilings beside the clips that were seen.
Fits(c, seen) ==
    /\ Cardinality(seen) + 1 <= MaxClips
    /\ \E bytes \in {Size[c]} \cup (IF Misread THEN {0} ELSE {}) :
         SumFunctionOnSet(Size, seen) + bytes <= MaxBytes

Admit(c) ==
    /\ c \notin waiting \cup settled \cup dropped
    /\ \E seen \in SUBSET waiting :
         (waiting \ writtenOff) \ seen \subseteq taken /\ Fits(c, seen)
    /\ waiting' = waiting \cup {c} /\ writtenOff' = {}
    /\ UNCHANGED <<stored, settled, dropped, taken>>

\* An upload of c is begun.
Take(c) ==
    /\ c \in waiting
    /\ taken' = taken \cup {c}
    /\ UNCHANGED <<waiting, stored, settled, dropped, writtenOff>>

\* An upload lands, for the first time or again.
Store(c) ==
    /\ c \in waiting
    /\ stored' = stored \cup {c}
    /\ UNCHANGED <<waiting, settled, dropped, writtenOff, taken>>

Settle(c) ==
    /\ c \in waiting
    /\ waiting' = waiting \ {c} /\ settled' = settled \cup {c}
    /\ writtenOff' = writtenOff \ {c}
    /\ UNCHANGED <<stored, dropped, taken>>

\* Evicted, or lost, alone or with the admission it was evicted for.
Drop(c) ==
    /\ c \in waiting
    /\ waiting' = waiting \ {c} /\ dropped' = dropped \cup {c}
    /\ writtenOff' \in {writtenOff \ {c}, {}}
    /\ UNCHANGED <<stored, settled, taken>>

\* Evicted, but on its way to perchpub.
WriteOff(c) ==
    /\ c \in waiting
    /\ writtenOff' = writtenOff \cup {c}
    /\ UNCHANGED <<waiting, stored, settled, dropped, taken>>

\* An admission begins, or is given up: what an earlier one wrote off counts
\* again, and so does what was taken up before, unless it still is.
Anew ==
    /\ writtenOff' = {} /\ taken' \in SUBSET taken
    /\ UNCHANGED <<waiting, stored, settled, dropped>>

Next ==
    \/ Anew
    \/ \E c \in Clips :
         Admit(c) \/ Take(c) \/ Store(c) \/ Settle(c) \/ Drop(c) \/ WriteOff(c)

Safety == Init /\ [][Next]_clips
=============================================================================
