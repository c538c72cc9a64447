---------------------------- MODULE StationStatus ----------------------------
(***************************************************************************)
(* `perchstation status` beside the running station: a second process that *)
(* reads credentials/ and the queue directories of ClipQueue without a     *)
(* lock, one directory or one file at a time, while the tasks of `serve`   *)
(* move the files, and prints one snapshot of what it found.               *)
(***************************************************************************)
EXTENDS ClipQueue

CONSTANT RecentLimit   \* RECENT_LIMIT

ASSUME StatusConstants == RecentLimit \in Nat

VARIABLES
    spc,      \* the next step of status, "idle" when it is not running
    creds,    \* credentials/identity.json is there (enroll swaps the directory)
    depth,    \* depth.pending, depth.inflight: the sidecars counted there
    todo,     \* listed entries not yet looked at
    seenOk,   \* Delivered and
    seenBad,  \*     Undeliverable records read
    later,    \* <<c, d>>: the delivered_at of c is after that of d
    stay,     \* history: clips queued during the whole count
    back,     \* history: clips put (back) into pending/ between the two counts
    kept      \* history: records in delivered/ during the whole scan

snapshot == <<depth, todo, seenOk, seenBad>>
watch    == <<stay, back, kept>>
all      == <<vars, spc, creds, snapshot, later, watch>>

InQueue == Present(pending) \cup Present(inflight)

NoDepth == [pending |-> {}, inflight |-> {}]

StatusInit ==
    /\ Init
    /\ spc = "idle" /\ creds \in BOOLEAN /\ later = {}
    /\ depth = NoDepth /\ todo = {} /\ seenOk = {} /\ seenBad = {}
    /\ stay = {} /\ back = {} /\ kept = {}

-----------------------------------------------------------------------------
(* The station moves on.                                                    *)

\* The runner stamps delivered_at when it decides on a clip's outcome: after
\* every stamp so far.
Stamps == pc \in {"preflight", "upload", "response"} /\ pc' = "finishWrite"

Stamped(c) == {p \in later : c \notin {p[1], p[2]}} \cup ({c} \X (Clips \ {c}))

StationStep ==
    /\ Next
    /\ later' = IF Stamps THEN Stamped(cur) ELSE later
    /\ stay' = stay \cap InQueue'
    /\ back' = IF spc = "countSecond" THEN back \cup (Present(pending)' \ Present(pending))
                                       ELSE back
    /\ kept' = kept \cap Present(delivered)'
    /\ UNCHANGED <<spc, creds, snapshot>>

\* An enroll command takes credentials/ away or puts a set in place.
CredsSwap ==
    /\ spc \in {"idle", "identity"}
    /\ creds' = ~creds
    /\ UNCHANGED <<vars, spc, snapshot, later, watch>>

-----------------------------------------------------------------------------
(* snapshot().                                                              *)

\* The process ends, with the snapshot printed or with an error.
Exit ==
    /\ spc \in {"done", "failed"}
    /\ spc' = "idle"
    /\ depth' = NoDepth /\ todo' = {} /\ seenOk' = {} /\ seenBad' = {}
    /\ stay' = {} /\ back' = {} /\ kept' = {}
    /\ UNCHANGED <<vars, creds, later>>

Fail == spc' = "failed" /\ UNCHANGED <<vars, creds, snapshot, later, watch>>

\* Mutant of ScanOrder: against the direction in which clips move.
ScanBackwards == <<"inflight", "pending">>

\* queue_snapshot counts pending/ before inflight/.
ScanOrder == <<"pending", "inflight">>

Begin(then) ==
    /\ spc' = then /\ stay' = InQueue
    /\ UNCHANGED <<vars, creds, snapshot, later, back, kept>>

\* enrollment_snapshot: no identity.json is reported as Missing ...
CheckIdentity ==
    /\ spc = "idle"
    /\ IF creds THEN spc' = "identity" /\ UNCHANGED <<vars, creds, snapshot, later, watch>>
                ELSE Begin("countFirst")

\* ... but one that goes between the check and the load is an error. Ok or
\* Expired is then only a word of the report.
LoadIdentity ==
    /\ spc = "identity"
    /\ IF creds THEN Begin("countFirst") ELSE Fail

SidecarsIn(d) == IF d = "pending" THEN Present(pending) ELSE Present(inflight)

\* count_sidecars: one readdir.
CountSidecars(here, n, then) ==
    /\ spc = here
    /\ depth' = [depth EXCEPT ![ScanOrder[n]] = SidecarsIn(ScanOrder[n])]
    /\ spc' = then
    /\ UNCHANGED <<vars, creds, todo, seenOk, seenBad, later, watch>>

CountFirst == CountSidecars("countFirst", 1, "countSecond")
CountSecond == CountSidecars("countSecond", 2, "listPending")

\* sum_mp4_bytes: list the media of a directory ...
ListMedia(here, d, then) ==
    /\ spc = here
    /\ todo' = {c \in Clips : media[c] = d}
    /\ spc' = then
    /\ UNCHANGED <<vars, creds, seenOk, seenBad, later, kept>>

\* The depth is reported: nothing after this reads it.
ListPending ==
    /\ ListMedia("listPending", "pending", "statPending")
    /\ depth' = NoDepth /\ stay' = {} /\ back' = {}

ListInflight ==
    /\ ListMedia("listInflight", "inflight", "statInflight")
    /\ UNCHANGED <<depth, stay, back>>

\* ... and stat each file, which fails if it was moved or deleted since.
StatMedia(here, d, then) ==
    /\ spc = here
    /\ \/ \E c \in todo :
            IF media[c] = d
               THEN /\ todo' = todo \ {c}
                    /\ UNCHANGED <<vars, spc, creds, depth, seenOk, seenBad, later, watch>>
               ELSE Fail
       \/ todo = {} /\ spc' = then /\ UNCHANGED <<vars, creds, snapshot, later, watch>>

StatPending == StatMedia("statPending", "pending", "listInflight")
StatInflight == StatMedia("statInflight", "inflight", "listDelivered")

\* load_delivered: list delivered/ ...
ListDelivered ==
    /\ spc = "listDelivered"
    /\ todo' = Present(delivered) /\ kept' = Present(delivered)
    /\ spc' = "readDelivered"
    /\ UNCHANGED <<vars, creds, depth, seenOk, seenBad, later, stay, back>>

\* ... and read each record; one that is gone or does not parse is an error.
ReadDelivered ==
    /\ spc = "readDelivered"
    /\ \/ \E c \in todo :
            IF delivered[c].st = "ok"
               THEN /\ todo' = todo \ {c}
                    /\ seenOk' = IF delivered[c].outcome = "Delivered"
                                    THEN seenOk \cup {c} ELSE seenOk
                    /\ seenBad' = IF delivered[c].outcome = "Undeliverable"
                                     THEN seenBad \cup {c} ELSE seenBad
                    /\ UNCHANGED <<vars, spc, creds, depth, later, watch>>
               ELSE Fail
       \/ todo = {} /\ spc' = "done" /\ UNCHANGED <<vars, creds, snapshot, later, watch>>

\* delivered_at of c is after that of d.
Later(c, d) == <<c, d>> \in later

\* Mutant of Latest: the largest clip-id, the order of the directory.
LatestById(S) == {c \in S : \A d \in S : c >= d}

\* pick_last_success, pick_last_failure: max_by_key(delivered_at).
Latest(S) == {c \in S : \A d \in S : ~Later(d, c)}

LastSuccess == Latest(seenOk)
LastFailure == Latest(seenBad)

\* build_recent: sorted by delivered_at, newest first, the first RecentLimit.
Recent ==
    LET read == seenOk \cup seenBad
    IN  {c \in read : Cardinality({d \in read : Later(d, c)}) < RecentLimit}

StatusStep ==
    \/ CheckIdentity \/ LoadIdentity \/ CountFirst \/ CountSecond
    \/ ListPending \/ StatPending \/ ListInflight \/ StatInflight
    \/ ListDelivered \/ ReadDelivered \/ Exit

StatusNext == StationStep \/ CredsSwap \/ StatusStep

StatusSpec == StatusInit /\ [][StatusNext]_all

-----------------------------------------------------------------------------
(* Properties.                                                              *)

\* The reported depth misses no clip that was queued during the whole count,
\* unless it was put back into pending/ behind the reader's back, and counts
\* no clip twice but the one the runner is moving and one for each call that
\* failed and left its clip in both directories (queue_snapshot).
DepthCounts ==
    spc = "listPending" =>
        /\ stay \subseteq depth.pending \cup depth.inflight \cup back
        /\ Cardinality(depth.pending \cap depth.inflight) <= 1 + faults

\* Every record that was in delivered/ during the whole scan is accounted for: it
\* is the last success (or failure) shown or older than that, and if it is left
\* out of the recent list it is older than every one in it, in whichever order
\* clips finished and whatever is evicted or pruned meanwhile.
LatestShown ==
    spc = "done" =>
        \A c \in kept :
            /\ \E s \in (IF delivered[c].outcome = "Delivered" THEN LastSuccess ELSE LastFailure) :
                 s = c \/ Later(s, c)
            /\ c \notin Recent => \A r \in Recent : Later(r, c)
=============================================================================
