------------------------------ MODULE ClipQueue ------------------------------
(***************************************************************************)
(* The on-disk clip queue of perchstation-core and the three tasks of      *)
(* `serve` that share it without a lock:                                   *)
(*   - the inbox (PolicyInbox over StoreInbox), run for one captured clip  *)
(*     at a time: census of the three directories, evictions, enqueue;     *)
(*   - the delivery runner (DeliveryRunner::try_once): pick, claim into    *)
(*     inflight/, upload, then finish into delivered/ or requeue;          *)
(*   - the retention sweep of the classify poller over delivered/.         *)
(* A step is one system call that changes the disk, so tasks interleave,   *)
(* calls fail, and the process dies between any two of them. At the next   *)
(* start QueueStore::reconcile_inflight repairs what it finds.             *)
(*                                                                         *)
(* A clip is a number: clip-ids sort by capture time, so `<` is both the   *)
(* filename order of pick_oldest_pending and the eviction order.           *)
(***************************************************************************)
EXTENDS Integers, FiniteSets, Functions

CONSTANTS
    NumClips,      \* how many clips the camera records
    Size,          \* Size[c]: byte_size of clip c
    BadClips,      \* clips that preflight_check refuses (zero length, oversize)
    MaxClips,      \* queue.max_clips
    MaxBytes,      \* queue.max_bytes
    RefuseNew,     \* TRUE: EvictionPolicy::RefuseNew, FALSE: DropOldestUndelivered
    MaxAttempts,   \* delivery.max_attempts_per_clip
    PowerLoss,     \* TRUE: the process may die anywhere; FALSE: it only shuts down
    MaxRestarts,   \* bound: how often the running process stops
    MaxFaults,     \* bound: how many system calls fail
    MaxRot         \* bound: how many sidecars come back truncated after a stop

Clips == 1 .. NumClips

ASSUME QueueConstants ==
    /\ NumClips \in Nat
    /\ Size \in [Clips -> Nat]
    /\ BadClips \subseteq Clips
    /\ MaxClips \in Nat /\ MaxBytes \in Nat /\ MaxAttempts \in Nat
    /\ MaxClips >= 1 /\ MaxBytes >= 1 /\ MaxAttempts >= 1
    /\ RefuseNew \in BOOLEAN /\ PowerLoss \in BOOLEAN
    /\ MaxRestarts \in Nat /\ MaxFaults \in Nat /\ MaxRot \in Nat

VARIABLES
    media,      \* media[c]: the directory that holds <c>.mp4, or "none"
    pending,    \* pending[c], inflight[c], delivered[c]: the sidecar <c>.json
    inflight,   \*     in that directory
    delivered,
    phase,      \* "down", "boot" (reconcile_inflight) or "up"
    pc,         \* the next system call of the runner (or of the boot)
    cur,        \* the clip it is about, 0 for none
    ent,        \* the ClipQueueEntry it holds in memory
    sidecars,   \* what the boot listed in inflight/ and has not yet handled
    ipc,        \* the next system call of the inbox
    iclip,      \* the clip being submitted, 0 for none
    next,       \* the next clip the camera will record
    census,     \* the policy's input: incoming_bytes and the Census
    evictions,  \* PolicyOutcome.evictions of the current submission
    restarts, faults, rots,   \* used parts of the bounds
    admitted,   \* history: clips whose enqueue returned Ok
    accepted,   \* perchpub: clips whose bytes it stored
    recorded,   \* history: clips whose terminal sidecar was written
    evicted,    \* history: clips an eviction deleted or reported
    torn,       \* history: clips whose media and sidecar were apart at a stop
    taken       \* history: clips the runner held or picked since the submission began

disk    == <<media, pending, inflight, delivered>>
runner  == <<pc, cur, ent, sidecars>>
inbox   == <<ipc, iclip, next, census, evictions>>
budget  == <<restarts, faults, rots>>
history == <<admitted, accepted, recorded, evicted, torn, taken>>
vars    == <<disk, phase, runner, inbox, budget, history>>

-----------------------------------------------------------------------------
(* Sidecars. Time is abstracted: `backoff` says that next_attempt_after is  *)
(* still in the future.                                                     *)

MediaPlaces == {"none", "staging", "pending", "inflight", "corrupt"}
Outcomes    == {"none", "Delivered", "Undeliverable"}
Sidecar     == [st: {"absent", "ok", "corrupt"}, attempts: Nat,
                outcome: Outcomes, backoff: BOOLEAN]

Absent == [st |-> "absent", attempts |-> 0, outcome |-> "none", backoff |-> FALSE]

NewEntry == [st |-> "ok", attempts |-> 0, outcome |-> "none", backoff |-> FALSE]

Present(dir) == {c \in Clips : dir[c].st # "absent"}

\* The head of a scan in filename order.
Oldest(c, S) == c \in S /\ \A d \in S : c <= d

\* rename(2) of <c>.mp4: media moves only if it is where the call expects it.
MoveMedia(c, from, to) ==
    media' = IF media[c] = from THEN [media EXCEPT ![c] = to] ELSE media

\* incoming_bytes, the names still to be looked at in the directory being read,
\* the floor (inflight/, delivered/) and the candidates (undel, pending).
Census == [incoming: Nat, todo: SUBSET Clips, inflight: SUBSET Clips,
           delivered: SUBSET Clips, undel: SUBSET Clips, pending: SUBSET Clips]

NoCensus == [incoming |-> 0, todo |-> {}, inflight |-> {}, delivered |-> {},
             undel |-> {}, pending |-> {}]

\* The runner has read the sidecar and may still write it into inflight/, even
\* if an eviction working from an older census removes it from pending/.
Claiming == IF pc \in {"claimMedia", "claimWrite"} THEN {cur} ELSE {}

-----------------------------------------------------------------------------
Init ==
    /\ media = [c \in Clips |-> "none"]
    /\ pending = [c \in Clips |-> Absent]
    /\ inflight = [c \in Clips |-> Absent]
    /\ delivered = [c \in Clips |-> Absent]
    /\ phase = "down" /\ pc = "off" /\ cur = 0 /\ ent = Absent /\ sidecars = {}
    /\ ipc = "idle" /\ iclip = 0 /\ next = 1 /\ census = NoCensus
    /\ evictions = {}
    /\ restarts = 0 /\ faults = 0 /\ rots = 0
    /\ admitted = {} /\ accepted = {} /\ recorded = {} /\ evicted = {}
    /\ torn = {} /\ taken = {}

\* One system call fails, for a reason other than NotFound.
Fault ==
    /\ faults < MaxFaults
    /\ faults' = faults + 1
    /\ UNCHANGED <<restarts, rots>>

\* Clips in the queue whose media lies in a directory without its sidecar.
Apart ==
    {c \in Clips : \/ media[c] = "pending" /\ pending[c].st = "absent"
                   \/ media[c] = "inflight" /\ inflight[c].st = "absent"}

\* The process ends: everything volatile is gone.
StopProcess ==
    /\ phase' = "down" /\ pc' = "off" /\ cur' = 0 /\ ent' = Absent /\ sidecars' = {}
    /\ ipc' = "idle" /\ iclip' = 0 /\ census' = NoCensus /\ evictions' = {}
    /\ torn' = torn \cup Apart
    /\ UNCHANGED <<disk, next, admitted, accepted, recorded, evicted, taken>>

-----------------------------------------------------------------------------
(* Boot: commands::serve calls reconcile_inflight before service.ready.     *)

Start ==
    /\ phase = "down"
    /\ phase' = "boot" /\ pc' = "sweepPending"
    /\ UNCHANGED <<disk, cur, ent, sidecars, inbox, budget, history>>

\* sweep_orphan_media(dir): delete media that has no sidecar beside it.
SweepOrphanMedia(at, place, dir, then) ==
    /\ pc = at
    /\ \/ \E c \in Clips :
             /\ media[c] = place /\ dir[c].st = "absent"
             /\ media' = [media EXCEPT ![c] = "none"]
             /\ UNCHANGED pc
       \/ /\ \A c \in Clips : media[c] = place => dir[c].st # "absent"
          /\ pc' = then
          /\ UNCHANGED media
    /\ UNCHANGED <<pending, inflight, delivered, phase, cur, ent, sidecars, inbox, budget, history>>

SweepPending == SweepOrphanMedia("sweepPending", "pending", pending, "sweepInflight")
\* Mutant of SweepInflight: looks for the sidecar in the wrong directory.
SweepInflightByPending ==
    SweepOrphanMedia("sweepInflight", "inflight", pending, "collect")

SweepInflight == SweepOrphanMedia("sweepInflight", "inflight", inflight, "collect")

\* The sidecars of inflight/ are listed once and then handled in filename order.
CollectSidecars ==
    /\ pc = "collect"
    /\ sidecars' = Present(inflight) /\ pc' = "reconcile"
    /\ UNCHANGED <<disk, phase, cur, ent, inbox, budget, history>>

\* A terminal entry left in inflight/: finish the interrupted transition.
ReconcileTerminal ==
    /\ pc = "reconcile"
    /\ \E c \in Clips :
        /\ Oldest(c, sidecars) /\ sidecars' = sidecars \ {c}
        /\ inflight[c].st = "ok" /\ inflight[c].outcome # "none"
        /\ cur' = c /\ ent' = inflight[c] /\ pc' = "finishWrite"
    /\ UNCHANGED <<disk, phase, inbox, budget, history>>

\* Mutant of ReconcileRequeue: no is_terminal check, every entry is requeued.
ReconcileRequeueAll ==
    /\ pc = "reconcile"
    /\ \E c \in Clips :
        /\ Oldest(c, sidecars) /\ sidecars' = sidecars \ {c}
        /\ inflight[c].st = "ok"
        /\ cur' = c /\ ent' = [inflight[c] EXCEPT !.backoff = FALSE]
        /\ pc' = "requeueMedia"
    /\ UNCHANGED <<disk, phase, inbox, budget, history>>

\* Any other entry goes back to pending/ with its backoff cleared.
ReconcileRequeue ==
    /\ pc = "reconcile"
    /\ \E c \in Clips :
        /\ Oldest(c, sidecars) /\ sidecars' = sidecars \ {c}
        /\ inflight[c].st = "ok" /\ inflight[c].outcome = "none"
        /\ cur' = c /\ ent' = [inflight[c] EXCEPT !.backoff = FALSE]
        /\ pc' = "requeueMedia"
    /\ UNCHANGED <<disk, phase, inbox, budget, history>>

\* read_sidecar(..)? on a corrupt inflight sidecar: serve exits.
ReconcileAbort ==
    /\ pc = "reconcile"
    /\ \E c \in Clips : Oldest(c, sidecars) /\ inflight[c].st = "corrupt"
    /\ StopProcess
    /\ UNCHANGED budget

\* The list is done: purge the capture staging directory and start the tasks.
ReconcileDone ==
    /\ pc = "reconcile" /\ sidecars = {}
    /\ phase' = "up" /\ pc' = "idle" /\ cur' = 0 /\ ent' = Absent
    /\ media' = [c \in Clips |-> IF media[c] = "staging" THEN "none" ELSE media[c]]
    /\ UNCHANGED <<pending, inflight, delivered, sidecars, inbox, budget, history>>

-----------------------------------------------------------------------------
(* The delivery runner: DeliveryRunner::try_once, one system call a step.   *)

\* The operation is over: try_once returns, or the boot takes the next entry.
Return ==
    /\ pc' = IF phase = "boot" THEN "reconcile" ELSE "idle"
    /\ cur' = 0 /\ ent' = Absent
    /\ UNCHANGED sidecars

\* A call of the runner or of the boot: `here` is done, continue at `then`.
Step(here, then) ==
    /\ pc = here /\ pc' = then
    /\ UNCHANGED <<phase, cur, ent, sidecars, inbox, budget>>

\* What pick_oldest_pending stops at: corrupt sidecars and due entries.
Pickable == {c \in Clips : \/ pending[c].st = "corrupt"
                           \/ pending[c].st = "ok" /\ ~pending[c].backoff}

\* Mutant of Claimed: the attempt counter runs the wrong way.
ClaimedCountingDown(e) == [st |-> e.st, attempts |-> e.attempts - 1,
                           outcome |-> e.outcome, backoff |-> FALSE]

\* The in-memory entry that transition_inflight prepares.
Claimed(e) == [st |-> e.st, attempts |-> e.attempts + 1,
               outcome |-> e.outcome, backoff |-> FALSE]

Pick(c) ==
    /\ cur' = c /\ ent' = Claimed(pending[c]) /\ pc' = "claimMedia"
    /\ taken' = taken \cup {c}
    /\ UNCHANGED <<sidecars, admitted, accepted, recorded, evicted, torn>>

PickOldest ==
    /\ phase = "up" /\ pc = "idle"
    /\ \E c \in Clips :
        /\ Oldest(c, Pickable) /\ pending[c].st = "ok"
        /\ Pick(c)
    /\ UNCHANGED <<disk, phase, inbox, budget>>

\* A sidecar that cannot be read, or a corrupt one that cannot be moved, is
\* skipped, and a later entry is taken.
PickPastFailure ==
    /\ phase = "up" /\ pc = "idle" /\ Fault
    /\ \E c \in Pickable :
        /\ ~Oldest(c, Pickable) /\ pending[c].st = "ok"
        /\ Pick(c)
    /\ UNCHANGED <<disk, phase, inbox>>

\* Nothing is due: try_once returns Ok(false) and the loop sleeps IDLE_TICK.
IdleTick == phase = "up" /\ pc = "idle" /\ Pickable = {} /\ UNCHANGED vars

\* quarantine_corrupt: the sidecar moves to corrupt/, then its media.
QuarantineCorruptSide ==
    /\ phase = "up" /\ pc = "idle"
    /\ \E c \in Clips :
        /\ Oldest(c, Pickable) /\ pending[c].st = "corrupt"
        /\ pending' = [pending EXCEPT ![c] = Absent]
        /\ cur' = c /\ pc' = "quarantineMedia"
    /\ UNCHANGED <<media, inflight, delivered, phase, ent, sidecars, inbox, budget, history>>

QuarantineCorruptMedia ==
    /\ pc = "quarantineMedia"
    /\ MoveMedia(cur, "pending", "corrupt")
    /\ Return
    /\ UNCHANGED <<pending, inflight, delivered, phase, inbox, budget, history>>

\* transition_inflight, step 1. The rename is the only media gate.
ClaimMedia ==
    /\ Step("claimMedia", "claimWrite")
    /\ media[cur] = "pending"
    /\ media' = [media EXCEPT ![cur] = "inflight"]
    /\ UNCHANGED <<pending, inflight, delivered, history>>

\* Mutant of ClaimMissingMedia: NotFound is tolerated as in the other renames.
ClaimWithoutMedia ==
    /\ Step("claimMedia", "claimWrite")
    /\ media[cur] # "pending"
    /\ UNCHANGED <<disk, history>>

\* Mutant of ClaimMissingMedia: the error is logged and the entry stays (PS-04).
ClaimMissingMediaLogged ==
    /\ pc = "claimMedia"
    /\ media[cur] # "pending"
    /\ Return
    /\ UNCHANGED <<disk, phase, inbox, budget, history>>

ClaimMissingMedia ==
    /\ Step("claimMedia", "orphanSide")
    /\ media[cur] # "pending"
    /\ UNCHANGED <<disk, history>>

\* Step 2, and its rollback when the write fails.
ClaimWrite ==
    /\ Step("claimWrite", "claimUnlink")
    /\ inflight' = [inflight EXCEPT ![cur] = ent]
    /\ UNCHANGED <<media, pending, delivered, history>>

ClaimWriteFails ==
    /\ pc = "claimWrite" /\ Fault
    /\ pc' = "claimRollback"
    /\ UNCHANGED <<disk, phase, cur, ent, sidecars, inbox, history>>

ClaimRollback ==
    /\ pc = "claimRollback"
    /\ MoveMedia(cur, "inflight", "pending")
    /\ Return
    /\ UNCHANGED <<pending, inflight, delivered, phase, inbox, budget, history>>

\* Step 3.
ClaimUnlink ==
    /\ Step("claimUnlink", "preflight")
    /\ pending' = [pending EXCEPT ![cur] = Absent]
    /\ UNCHANGED <<media, inflight, delivered, history>>

\* quarantine_orphan: the sidecar, then any stray media.
OrphanSide ==
    /\ Step("orphanSide", "orphanMedia")
    /\ pending' = [pending EXCEPT ![cur] = Absent]
    /\ UNCHANGED <<media, inflight, delivered, history>>

OrphanMedia ==
    /\ pc = "orphanMedia"
    /\ MoveMedia(cur, "pending", "none")
    /\ Return
    /\ UNCHANGED <<pending, inflight, delivered, phase, inbox, budget, history>>

\* preflight_check: zero length, oversize, or metadata that cannot be read.
PreflightReject ==
    /\ pc = "preflight"
    /\ \/ (cur \in BadClips \/ media[cur] # "inflight") /\ UNCHANGED budget
       \/ Fault
    /\ ent' = [ent EXCEPT !.outcome = "Undeliverable"] /\ pc' = "finishWrite"
    /\ UNCHANGED <<disk, phase, cur, sidecars, inbox, history>>

PreflightPass ==
    /\ Step("preflight", "upload")
    /\ cur \notin BadClips /\ media[cur] = "inflight"
    /\ UNCHANGED <<disk, history>>

\* perchpub stores the bytes; its answer is still on the way.
UploadLands ==
    /\ Step("upload", "response")
    /\ accepted' = accepted \cup {cur}
    /\ UNCHANGED <<disk, admitted, recorded, evicted, torn, taken>>

\* A 2xx arrives, with a classify task or with a body that does not decode.
UploadOk ==
    /\ pc = "response"
    /\ ent' = [ent EXCEPT !.outcome = "Delivered"] /\ pc' = "finishWrite"
    /\ UNCHANGED <<disk, phase, cur, sidecars, inbox, budget, history>>

\* Mutant of UploadRetry: off by one at the attempt ceiling.
UploadRetryOnceMore ==
    /\ pc \in {"upload", "response"}
    /\ ent.attempts <= MaxAttempts
    /\ ent' = [ent EXCEPT !.backoff = TRUE] /\ pc' = "requeueMedia"
    /\ UNCHANGED <<disk, phase, cur, sidecars, inbox, budget, history>>

\* A transient failure (before or after the bytes landed) with retries left.
UploadRetry ==
    /\ pc \in {"upload", "response"}
    /\ ent.attempts < MaxAttempts
    /\ ent' = [ent EXCEPT !.backoff = TRUE] /\ pc' = "requeueMedia"
    /\ UNCHANGED <<disk, phase, cur, sidecars, inbox, budget, history>>

\* Mutant of UploadExhausted: the given-up clip is recorded as Delivered.
UploadExhaustedDelivered ==
    /\ pc \in {"upload", "response"}
    /\ ent' = [ent EXCEPT !.outcome = "Delivered"] /\ pc' = "finishWrite"
    /\ UNCHANGED <<disk, phase, cur, sidecars, inbox, budget, history>>

\* A transient failure past the attempt ceiling or the wall-clock budget.
UploadExhausted ==
    /\ pc \in {"upload", "response"}
    /\ \E wallclockSpent \in BOOLEAN : ent.attempts >= MaxAttempts \/ wallclockSpent
    /\ ent' = [ent EXCEPT !.outcome = "Undeliverable"] /\ pc' = "finishWrite"
    /\ UNCHANGED <<disk, phase, cur, sidecars, inbox, budget, history>>

\* A terminal answer: perchpub refuses the clip.
UploadTerminal ==
    /\ pc = "upload"
    /\ ent' = [ent EXCEPT !.outcome = "Undeliverable"] /\ pc' = "finishWrite"
    /\ UNCHANGED <<disk, phase, cur, sidecars, inbox, budget, history>>

\* transition_back_to_pending.
RequeueMedia ==
    /\ Step("requeueMedia", "requeueWrite")
    /\ MoveMedia(cur, "inflight", "pending")
    /\ UNCHANGED <<pending, inflight, delivered, history>>

RequeueWrite ==
    /\ Step("requeueWrite", "requeueUnlink")
    /\ pending' = [pending EXCEPT ![cur] = ent]
    /\ UNCHANGED <<media, inflight, delivered, history>>

\* Mutant of RequeueUnlink: the old sidecar is left behind in inflight/.
RequeueKeepsSidecar ==
    /\ pc = "requeueUnlink"
    /\ Return
    /\ UNCHANGED <<disk, phase, inbox, budget, history>>

RequeueUnlink ==
    /\ pc = "requeueUnlink"
    /\ inflight' = [inflight EXCEPT ![cur] = Absent]
    /\ Return
    /\ UNCHANGED <<media, pending, delivered, phase, inbox, budget, history>>

\* transition_delivered: the terminal sidecar is written before the media goes.
FinishWrite ==
    /\ Step("finishWrite", "finishUnlink")
    /\ inflight' = [inflight EXCEPT ![cur] = ent]
    /\ recorded' = recorded \cup {cur}
    /\ UNCHANGED <<media, pending, delivered, admitted, accepted, evicted, torn, taken>>

\* Mutant of FinishUnlink: the media is not removed.
FinishKeepsMedia ==
    /\ Step("finishUnlink", "finishMove")
    /\ UNCHANGED <<disk, history>>

FinishUnlink ==
    /\ Step("finishUnlink", "finishMove")
    /\ MoveMedia(cur, "inflight", "none")
    /\ UNCHANGED <<pending, inflight, delivered, history>>

FinishMove ==
    /\ pc = "finishMove"
    /\ delivered' = [delivered EXCEPT ![cur] = inflight[cur]]
    /\ inflight' = [inflight EXCEPT ![cur] = Absent]
    /\ Return
    /\ UNCHANGED <<media, pending, phase, inbox, budget, history>>

\* Calls whose failure is returned with `?`. A failing rollback or quarantine
\* rename is ignored by the code, which has the same effect.
Fallible == {"claimMedia", "claimUnlink", "claimRollback", "quarantineMedia",
             "orphanSide", "orphanMedia", "requeueMedia", "requeueWrite",
             "requeueUnlink", "finishWrite", "finishUnlink", "finishMove"}

\* run() logs the error and goes on with the next iteration.
RunnerIoError ==
    /\ phase = "up" /\ pc \in Fallible /\ Fault
    /\ Return
    /\ UNCHANGED <<disk, phase, inbox, history>>

\* At boot the error ends `serve`.
BootIoError ==
    /\ phase = "boot" /\ Fault
    /\ StopProcess

-----------------------------------------------------------------------------
(* The inbox: PolicyInbox::submit for one clip at a time, the way the       *)
(* capture supervisor calls it.                                             *)

\* The camera has recorded a clip into staging and its submission begins. A
\* size that cannot be read counts as 0.
CaptureClip ==
    /\ phase = "up" /\ ipc = "idle" /\ next <= NumClips
    /\ iclip' = next /\ next' = next + 1
    /\ media' = [media EXCEPT ![next] = "staging"]
    /\ ipc' = "censusInflight" /\ evictions' = {} /\ taken' = Claiming
    /\ \E bytes \in {0, Size[next]} :
        /\ census' = [NoCensus EXCEPT !.incoming = bytes, !.todo = 1 .. next]
        /\ \/ bytes = Size[next] /\ UNCHANGED budget
           \/ bytes = 0 /\ Fault
    /\ UNCHANGED <<pending, inflight, delivered, phase, runner, admitted, accepted,
                   recorded, evicted, torn>>

\* submit returns Err: the supervisor deletes the staged file.
Refuse ==
    /\ MoveMedia(iclip, "staging", "none")
    /\ ipc' = "idle" /\ iclip' = 0 /\ census' = NoCensus
    /\ UNCHANGED <<pending, inflight, delivered, phase, runner, next, evictions, history>>

InboxStep(here, then) ==
    /\ ipc = here /\ ipc' = then
    /\ UNCHANGED <<phase, runner, iclip, next, budget>>

\* take_census reads inflight/, then delivered/, then pending/, and each of them
\* name by name in the order of the file system, while the runner moves clips.
\* A name counts if its file is there at the moment it is looked at: one that is
\* listed and gone (NotFound) is skipped, one that comes later may be listed.
CensusRead(here, then, dir, c) ==
    /\ ipc = here /\ dir[c].st # "corrupt"
    /\ ipc' = IF census.todo = {c} THEN then ELSE here
    /\ UNCHANGED <<disk, phase, runner, iclip, next, evictions, budget, history>>

\* The names left after c, or those of the next directory: no later clip has one.
Unread(c) == IF census.todo = {c} THEN 1 .. iclip ELSE census.todo \ {c}

CensusInflight ==
    \E c \in census.todo :
        /\ CensusRead("censusInflight", "censusDelivered", inflight, c)
        /\ census' = [census EXCEPT !.todo = Unread(c),
                         !.inflight = @ \cup ({c} \cap Present(inflight))]

Undeliverable == {c \in Clips : delivered[c].outcome = "Undeliverable"}

CensusDelivered ==
    \E c \in census.todo :
        /\ CensusRead("censusDelivered", "censusPending", delivered, c)
        /\ census' = [census EXCEPT !.todo = Unread(c),
                         !.delivered = @ \cup (({c} \cap Present(delivered)) \ Undeliverable),
                         !.undel = @ \cup ({c} \cap Present(delivered) \cap Undeliverable)]

CensusPending ==
    \E c \in census.todo :
        /\ CensusRead("censusPending", "decide", pending, c)
        /\ census' = [census EXCEPT !.todo = Unread(c),
                         !.pending = @ \cup ({c} \cap Present(pending))]

\* A sidecar that does not parse fails the whole census, and the submission.
CensusCorrupt ==
    /\ \E c \in census.todo :
        \/ ipc = "censusInflight"  /\ inflight[c].st = "corrupt"
        \/ ipc = "censusDelivered" /\ delivered[c].st = "corrupt"
        \/ ipc = "censusPending"   /\ pending[c].st = "corrupt"
    /\ Refuse /\ UNCHANGED budget

\* Mutant of Breaches: the clip being submitted is not counted.
BreachesWithoutNew(clips, bytes) == clips > MaxClips \/ bytes > MaxBytes

\* Would the submitted clip breach a ceiling beside these clips and bytes?
Breaches(clips, bytes) ==
    \/ clips + 1 > MaxClips
    \/ bytes + census.incoming > MaxBytes

FloorClips == Cardinality(census.inflight) + Cardinality(census.delivered)

FloorBytes == SumFunctionOnSet(Size, census.inflight)

\* census_totals: the floor plus every candidate that is left. Only pending
\* candidates hold media (on_disk_bytes).
OverCeiling ==
    Breaches(FloorClips + Cardinality(census.undel) + Cardinality(census.pending),
             FloorBytes + SumFunctionOnSet(Size, census.pending))

\* Mutant of FloorOverCeiling: noticed only when no candidate is left (PS-05).
FloorNoticedLate ==
    /\ census.undel \cup census.pending = {}
    /\ Breaches(FloorClips, FloorBytes)

FloorOverCeiling == Breaches(FloorClips, FloorBytes)

PolicyAdmit ==
    /\ InboxStep("decide", "place")
    /\ ~OverCeiling
    /\ census' = NoCensus
    /\ UNCHANGED <<disk, evictions, history>>

\* QueueFull: refuse without evicting when eviction cannot make room.
PolicyRefuse ==
    /\ ipc = "decide" /\ OverCeiling
    /\ RefuseNew \/ FloorOverCeiling
    /\ Refuse /\ UNCHANGED budget

\* The front of the candidates: delivered/ Undeliverable records, oldest
\* first, then pending/ clips.
IsVictim(v) == Oldest(v, IF census.undel # {} THEN census.undel ELSE census.pending)

\* evict: the media, then the sidecar; NotFound is tolerated in both.
EvictMedia ==
    /\ InboxStep("decide", "evictSide")
    /\ OverCeiling /\ ~RefuseNew /\ ~FloorOverCeiling
    /\ \E v \in Clips :
        /\ IsVictim(v)
        /\ IF census.undel = {} /\ media[v] = "pending"
              THEN /\ media' = [media EXCEPT ![v] = "none"]
                   /\ evicted' = evicted \cup {v}
              ELSE UNCHANGED <<media, evicted>>
    /\ UNCHANGED <<pending, inflight, delivered, census, evictions, admitted,
                   accepted, recorded, torn, taken>>

EvictSide ==
    /\ InboxStep("evictSide", "decide")
    /\ \E v \in Clips :
        /\ IsVictim(v)
        /\ evictions' = evictions \cup {v}
        /\ evicted' = evicted \cup {v}
        /\ IF census.undel # {}
              THEN /\ delivered' = [delivered EXCEPT ![v] = Absent]
                   /\ census' = [census EXCEPT !.undel = @ \ {v}]
                   /\ UNCHANGED pending
              ELSE /\ pending' = [pending EXCEPT ![v] = Absent]
                   /\ census' = [census EXCEPT !.pending = @ \ {v}]
                   /\ UNCHANGED delivered
    /\ UNCHANGED <<media, inflight, admitted, accepted, recorded, torn, taken>>

\* enqueue_with_id: the media, then its sidecar.
PlaceMedia ==
    /\ InboxStep("place", "write")
    /\ MoveMedia(iclip, "staging", "pending")
    /\ UNCHANGED <<pending, inflight, delivered, census, evictions, history>>

WriteSidecar ==
    /\ ipc = "write"
    /\ pending' = [pending EXCEPT ![iclip] = NewEntry]
    /\ admitted' = admitted \cup {iclip}
    /\ ipc' = "idle" /\ iclip' = 0
    /\ UNCHANGED <<media, inflight, delivered, phase, runner, next, census,
                   evictions, budget, accepted, recorded, evicted, torn, taken>>

WriteSidecarFails ==
    /\ ipc = "write" /\ Fault
    /\ ipc' = "unplace"
    /\ UNCHANGED <<disk, phase, runner, iclip, next, census, evictions, history>>

\* The best-effort removal of the placed media, which may itself fail.
UnplaceMedia ==
    /\ ipc = "unplace"
    /\ \/ MoveMedia(iclip, "pending", "none") /\ UNCHANGED budget
       \/ Fault /\ UNCHANGED media
    /\ ipc' = "idle" /\ iclip' = 0
    /\ UNCHANGED <<pending, inflight, delivered, phase, runner, next, census,
                   evictions, history>>

\* A failing read, unlink or rename aborts the submission.
InboxIoError ==
    /\ ipc \in {"censusInflight", "censusDelivered", "censusPending",
                "decide", "evictSide", "place"}
    /\ Fault
    /\ Refuse

-----------------------------------------------------------------------------
(* The classify poller's share of the queue.                                *)

\* prune_delivered: a Delivered record whose classification is settled ages
\* out. When that happens depends on the poller and on the retention time,
\* which this module does not follow.
PruneDelivered(c) ==
    /\ phase = "up"
    /\ delivered[c].st = "ok" /\ delivered[c].outcome = "Delivered"
    /\ delivered' = [delivered EXCEPT ![c] = Absent]
    /\ UNCHANGED <<media, pending, inflight, phase, runner, inbox, budget, history>>

\* scan_non_terminal quarantines a record that does not parse.
QuarantineDelivered(c) ==
    /\ phase = "up"
    /\ delivered[c].st = "corrupt"
    /\ delivered' = [delivered EXCEPT ![c] = Absent]
    /\ UNCHANGED <<media, pending, inflight, phase, runner, inbox, budget, history>>

-----------------------------------------------------------------------------
(* The environment.                                                         *)

BackoffElapses(c) ==
    /\ pending[c].backoff
    /\ pending' = [pending EXCEPT ![c].backoff = FALSE]
    /\ UNCHANGED <<media, inflight, delivered, phase, runner, inbox, budget, history>>

\* SIGTERM: blocking calls run to their end, awaits are abandoned.
Shutdown ==
    /\ phase = "up" /\ restarts < MaxRestarts
    /\ pc \in {"idle", "upload", "response"}
    /\ ipc \in {"idle", "censusInflight", "place"}
    /\ restarts' = restarts + 1 /\ UNCHANGED <<faults, rots>>
    /\ StopProcess

\* Power loss or SIGKILL, between any two calls.
Crash ==
    /\ PowerLoss
    /\ phase # "down" /\ restarts < MaxRestarts
    /\ restarts' = restarts + 1 /\ UNCHANGED <<faults, rots>>
    /\ StopProcess

\* Sidecars are written without fsync: after a power loss one may be truncated.
Rot(c) ==
    /\ PowerLoss /\ phase = "down" /\ rots < MaxRot
    /\ rots' = rots + 1 /\ UNCHANGED <<restarts, faults>>
    /\ \/ /\ pending[c].st = "ok"
          /\ pending' = [pending EXCEPT ![c] = [@ EXCEPT !.st = "corrupt"]]
          /\ UNCHANGED <<inflight, delivered>>
       \/ /\ inflight[c].st = "ok"
          /\ inflight' = [inflight EXCEPT ![c] = [@ EXCEPT !.st = "corrupt"]]
          /\ UNCHANGED <<pending, delivered>>
       \/ /\ delivered[c].st = "ok"
          /\ delivered' = [delivered EXCEPT ![c] = [@ EXCEPT !.st = "corrupt"]]
          /\ UNCHANGED <<pending, inflight>>
    /\ UNCHANGED <<media, phase, runner, inbox, history>>

-----------------------------------------------------------------------------
BootNext ==
    \/ Start \/ SweepPending \/ SweepInflight \/ CollectSidecars
    \/ ReconcileTerminal \/ ReconcileRequeue \/ ReconcileAbort \/ ReconcileDone

RunnerNext ==
    \/ PickOldest \/ IdleTick \/ QuarantineCorruptSide \/ QuarantineCorruptMedia
    \/ ClaimMedia \/ ClaimMissingMedia \/ ClaimWrite \/ ClaimRollback \/ ClaimUnlink
    \/ OrphanSide \/ OrphanMedia \/ PreflightReject \/ PreflightPass
    \/ UploadLands \/ UploadOk \/ UploadRetry \/ UploadExhausted \/ UploadTerminal
    \/ RequeueMedia \/ RequeueWrite \/ RequeueUnlink
    \/ FinishWrite \/ FinishUnlink \/ FinishMove

InboxNext ==
    \/ CensusInflight \/ CensusDelivered \/ CensusPending \/ CensusCorrupt
    \/ PolicyAdmit \/ PolicyRefuse \/ EvictMedia \/ EvictSide
    \/ PlaceMedia \/ WriteSidecar \/ UnplaceMedia

FaultNext ==
    \/ PickPastFailure \/ ClaimWriteFails \/ RunnerIoError \/ BootIoError
    \/ WriteSidecarFails \/ InboxIoError

PollerNext == \E c \in Clips : PruneDelivered(c) \/ QuarantineDelivered(c)

EnvNext ==
    \/ CaptureClip \/ Shutdown \/ Crash
    \/ \E c \in Clips : BackoffElapses(c) \/ Rot(c)

Next == BootNext \/ RunnerNext \/ InboxNext \/ FaultNext \/ PollerNext \/ EnvNext

Spec == Init /\ [][Next]_vars

Fairness ==
    /\ WF_vars(BootNext) /\ WF_vars(RunnerNext) /\ WF_vars(InboxNext)
    /\ \A c \in Clips : WF_vars(BackoffElapses(c))

FairSpec == Spec /\ Fairness

-----------------------------------------------------------------------------
(* Properties.                                                              *)

RunnerPCs == {"off", "sweepPending", "sweepInflight", "collect", "reconcile", "idle",
              "claimWrite", "preflight", "upload", "response"} \cup Fallible
InboxPCs == {"idle", "censusInflight", "censusDelivered", "censusPending",
             "decide", "evictSide", "place", "write", "unplace"}

\* Every variable stays in its type; sidecars are well-formed records.
TypeOK ==
    /\ media \in [Clips -> MediaPlaces]
    /\ pending \in [Clips -> Sidecar]
    /\ inflight \in [Clips -> Sidecar]
    /\ delivered \in [Clips -> Sidecar]
    /\ phase \in {"down", "boot", "up"} /\ pc \in RunnerPCs
    /\ cur \in Clips \cup {0} /\ ent \in Sidecar /\ sidecars \subseteq Clips
    /\ ipc \in InboxPCs /\ iclip \in Clips \cup {0}
    /\ next \in 1 .. (NumClips + 1)
    /\ census \in Census
    /\ evictions \subseteq Clips
    /\ restarts \in Nat /\ faults \in Nat /\ rots \in Nat
    /\ admitted \subseteq Clips /\ accepted \subseteq Clips
    /\ recorded \subseteq Clips /\ evicted \subseteq Clips /\ torn \subseteq Clips
    /\ taken \subseteq Clips

Uploading == {"preflight", "upload", "response"}

\* While the runner checks and uploads a clip, its media stays in inflight/
\* beside a readable non-terminal sidecar: no eviction, sweep or quarantine
\* takes the file from under the upload (try_once against evict).
UploadOwnsMedia ==
    pc \in Uploading =>
        /\ media[cur] = "inflight"
        /\ inflight[cur].st = "ok" /\ inflight[cur].outcome = "none"

\* Once a terminal sidecar is written the clip never returns to pending/ and is
\* never sent again, whatever fails or restarts afterwards (PS-01: the
\* is_terminal guard of reconcile_inflight).
RecordedIsFinal ==
    \A c \in recorded :
        /\ pending[c].st = "absent"
        /\ ~(cur = c /\ pc \in Uploading)

\* A sidecar with outcome Delivered exists only for a clip perchpub has stored.
DeliveredMeansAccepted ==
    \A c \in Clips :
        \/ inflight[c].outcome = "Delivered" \/ delivered[c].outcome = "Delivered"
        => c \in accepted

\* A record in delivered/ holds no media, the fact on which the census counts
\* zero bytes for that directory (PS-20, on_disk_bytes).
DeliveredHoldsNoMedia ==
    \A c \in Clips : delivered[c].st # "absent" => media[c] = "none"

\* Retries are capped: every restart grants a clip at most one attempt beyond
\* max_attempts_per_clip (schedule() runs only after a failed upload, so a clip
\* interrupted at the ceiling is claimed once more).
AttemptCeiling ==
    \A c \in Clips :
        /\ pending[c].attempts <= MaxAttempts + restarts
        /\ inflight[c].attempts <= MaxAttempts + restarts
        /\ delivered[c].attempts <= MaxAttempts + restarts

\* What may end the station's duty to keep a clip it admitted.
Discharged(c) == c \in accepted \cup recorded \cup evicted

\* No footage is lost: an admitted clip has its media until perchpub stored it,
\* its failure was recorded, or an eviction took it.
NoLoss == \A c \in admitted : media[c] # "none" \/ Discharged(c)

\* The only way to lose footage: the process stopped while media and sidecar
\* were in different directories, and the orphan sweep of the next boot
\* deleted the media.
LossOnlyIfTorn ==
    \A c \in admitted : media[c] # "none" \/ Discharged(c) \/ c \in torn

\* A submission refused with QueueFull has evicted nothing: pending clips are
\* not destroyed for a clip that is then turned away (PS-05).
EvictionNotInVain ==
    [][ipc = "decide" /\ ipc' = "idle" /\ phase' = "up" /\ faults' = faults
         => evictions = {}]_vars

\* Every admitted clip leaves pending/ and inflight/ for good: it is delivered,
\* given up, evicted, or found without media and dropped. Uploads that keep
\* failing are ended by the attempt ceiling; nothing waits on anything forever.
QueueDrains ==
    \A c \in Clips :
        c \in admitted ~> [](pending[c].st = "absent" /\ inflight[c].st = "absent")

\* The tasks start on a repaired queue: inflight/ is empty, capture-staging/ is
\* purged, and media in pending/ has its sidecar, whatever the last process left
\* behind and however often the repair itself was cut short (reconcile_inflight).
CleanStart ==
    [][phase = "boot" /\ phase' = "up" =>
         /\ Present(inflight)' = {} /\ Apart' = {}
         /\ \A c \in Clips : media'[c] \in {"none", "pending", "corrupt"}]_vars

\* After every stop the station comes back without an operator: the boot-time
\* reconciliation ends and the tasks start.
BootCompletes == phase = "boot" ~> phase = "up"
=============================================================================
