--------------------------- MODULE ClipQueueProofs ---------------------------
(***************************************************************************)
(* The safety invariants of ClipQueue, for every value of its constants.   *)
(* None of them is inductive: each depends on where the media and the      *)
(* sidecars of the clip in hand are at every call of the runner and of the *)
(* inbox. IInv says that, part by part; one lemma shows each part          *)
(* preserved by every step.                                                *)
(***************************************************************************)
EXTENDS ClipQueueTypeProofs

\* A clip that has no sidecar yet: not recorded by the camera, or on its way in.
Unborn(c) == c >= next \/ (ipc # "idle" /\ c = iclip)

UnbornClips ==
    \A c \in Clips : Unborn(c) =>
        /\ pending[c] = Absent /\ inflight[c] = Absent /\ delivered[c] = Absent
        /\ c \notin admitted /\ c \notin recorded
        /\ pc \in OpenPCs \cup FinishPCs \cup {"quarantineMedia"} => c # cur

\* Where the media of the submitted clip is, step by step.
SubmittedMedia ==
    /\ \A c \in Clips : media[c] = "staging" => c \notin admitted
    /\ ipc \in {"write", "unplace"} => media[iclip] = "pending"
    /\ ipc \notin {"idle", "write", "unplace"} => media[iclip] = "staging"

\* The entry in memory.
EntryInMemory ==
    /\ pc \in OpenPCs => ent.st = "ok" /\ ent.outcome = "none" /\ cur \notin recorded
    /\ pc \in FinishPCs =>
         /\ ent.st = "ok" /\ ent.outcome # "none"
         /\ ent.outcome = "Delivered" => cur \in accepted
    /\ pc = "response" => cur \in accepted

\* Where the media and the sidecars of the clip in hand are, call by call.
ClipInHand ==
    /\ pc \in {"claimWrite", "claimRollback", "claimUnlink"} \cup Uploading =>
         media[cur] = "inflight"
    /\ pc = "claimUnlink" => inflight[cur] = ent
    /\ pc \in Uploading => inflight[cur] = ent /\ pending[cur].st = "absent"
    /\ pc \in OrphanPCs => media[cur] # "pending"
    /\ pc \in FinishPCs =>
         /\ pending[cur].st = "absent"
         /\ media[cur] \in {"none", "inflight"}
    /\ pc \in {"finishUnlink", "finishMove"} => inflight[cur] = ent /\ cur \in recorded
    /\ pc = "finishMove" => media[cur] = "none"

\* A terminal sidecar was written: the clip is out of pending/ for good.
RecordedClips ==
    \A c \in Clips :
        /\ pending[c].outcome = "none"
        /\ c \in recorded =>
             /\ pending[c].st = "absent"
             /\ media[c] \in {"none", "inflight"}
             /\ inflight[c].st # "absent" => inflight[c].outcome # "none"
        /\ inflight[c].outcome # "none" => c \in recorded
        /\ delivered[c].st # "absent" => c \in recorded /\ media[c] = "none"

\* Until the sweeps are over, only clips that a stop tore apart lie apart.
SweepsTakeTorn ==
    pc \in {"off", "sweepPending", "sweepInflight"} => Apart \subseteq torn

\* What the boot has repaired so far: media is beside its sidecar again once its
\* directory was swept, and inflight/ holds what is listed or in hand.
Repaired ==
    phase = "boot" =>
        /\ pc # "sweepPending" =>
             \A c \in Clips : media[c] = "pending" =>
                 pending[c].st # "absent" \/ (pc = "requeueWrite" /\ c = cur)
        /\ pc \notin {"sweepPending", "sweepInflight"} =>
             \A c \in Clips : media[c] = "inflight" => inflight[c].st # "absent"
        /\ pc \in {"requeueWrite", "requeueUnlink"} => media[cur] # "inflight"
        /\ pc \notin {"sweepPending", "sweepInflight", "collect"} =>
             \A c \in Clips : inflight[c].st # "absent" =>
                 c \in sidecars \/ (pc # "reconcile" /\ c = cur)

\* Attempt counters, place by place.
AttemptCounts ==
    /\ \A c \in Clips :
         /\ pending[c].attempts <= MaxAttempts + restarts - 1
         /\ inflight[c].attempts <= MaxAttempts + restarts
         /\ phase # "up" => inflight[c].attempts <= MaxAttempts + restarts - 1
         /\ delivered[c].attempts <= MaxAttempts + restarts
    /\ ent.attempts <= MaxAttempts + restarts
    /\ pc \in RequeuePCs \/ phase # "up" => ent.attempts <= MaxAttempts + restarts - 1

IInv ==
    /\ TypeOK /\ Control /\ UnbornClips /\ SubmittedMedia /\ EntryInMemory
    /\ ClipInHand /\ RecordedClips /\ SweepsTakeTorn /\ Repaired /\ AttemptCounts
    /\ DeliveredMeansAccepted /\ LossOnlyIfTorn

-----------------------------------------------------------------------------
USE DEF disk, runner, inbox, budget, history

\* What an update of one field leaves alone in a ClipQueueEntry.
LEMMA SidecarUpdates ==
    ASSUME NEW e \in Sidecar
    PROVE  /\ e.attempts \in Nat
           /\ [e EXCEPT !.st = "corrupt"].st = "corrupt"
           /\ [e EXCEPT !.st = "corrupt"].outcome = e.outcome
           /\ [e EXCEPT !.st = "corrupt"].attempts = e.attempts
           /\ \A b \in BOOLEAN : /\ [e EXCEPT !.backoff = b].st = e.st
                                /\ [e EXCEPT !.backoff = b].outcome = e.outcome
                                /\ [e EXCEPT !.backoff = b].attempts =
                                      e.attempts
           /\ \A o \in Outcomes : /\ [e EXCEPT !.outcome = o].st = e.st
                                 /\ [e EXCEPT !.outcome = o].outcome = o
                                 /\ [e EXCEPT !.outcome = o].attempts =
                                       e.attempts
BY DEF Sidecar

\* A clip has no trace in the queue before its submission succeeds: only
\* WriteSidecar, the last step of enqueue_with_id, gives it a sidecar.
LEMMA UnbornClipsStep == TypeOK /\ Control /\ UnbornClips /\ [Next]_vars =>
      UnbornClips'
<1> SUFFICES ASSUME TypeOK, Control, UnbornClips, [Next]_vars PROVE
      UnbornClips'
  OBVIOUS
<1> USE DEF UnbornClips, Unborn, TypeOK, Control, Clips, ClaimPCs, RequeuePCs,
      FinishPCs, OrphanPCs, BootPCs, OpenPCs, Uploading
<1>1. CASE Start
  BY <1>1 DEF Start
<1>2. CASE SweepPending
  BY <1>2 DEF SweepPending, SweepOrphanMedia
<1>3. CASE SweepInflight
  BY <1>3 DEF SweepInflight, SweepOrphanMedia
<1>0. CASE CollectSidecars
  BY <1>0 DEF CollectSidecars
<1>4. CASE ReconcileTerminal
  BY <1>4 DEF ReconcileTerminal, Oldest, Present, Absent
<1>5. CASE ReconcileRequeue
  BY <1>5 DEF ReconcileRequeue, Oldest, Present, Absent
<1>6. CASE ReconcileAbort
  BY <1>6 DEF ReconcileAbort, StopProcess
<1>7. CASE ReconcileDone
  BY <1>7 DEF ReconcileDone, Present
<1>8. CASE PickOldest
  BY <1>8 DEF PickOldest, Oldest, Pickable, Claimed, Absent, Pick
<1>9. CASE PickPastFailure
  BY <1>9 DEF PickPastFailure, Fault, Oldest, Pickable, Claimed, Absent, Pick
<1>10. CASE QuarantineCorruptSide
  <2>1. PICK c \in Clips :
           /\ pending[c].st = "corrupt" /\ cur' = c
           /\ pending' = [pending EXCEPT ![c] = Absent]
    BY <1>10 DEF QuarantineCorruptSide
  <2>2. ~Unborn(c)
    BY <2>1 DEF Absent
  <2>3. QED
    BY <1>10, <2>1, <2>2 DEF QuarantineCorruptSide
<1>11. CASE QuarantineCorruptMedia
  BY <1>11 DEF QuarantineCorruptMedia, MoveMedia, Return
<1>12. CASE ClaimMedia
  BY <1>12 DEF ClaimMedia, Step
<1>13. CASE ClaimMissingMedia
  BY <1>13 DEF ClaimMissingMedia, Step
<1>14. CASE ClaimWrite
  BY <1>14 DEF ClaimWrite, Step
<1>15. CASE ClaimWriteFails
  BY <1>15 DEF ClaimWriteFails, Fault
<1>16. CASE ClaimRollback
  BY <1>16 DEF ClaimRollback, MoveMedia, Return
<1>17. CASE ClaimUnlink
  BY <1>17 DEF ClaimUnlink, Step
<1>18. CASE OrphanSide
  BY <1>18 DEF OrphanSide, Step
<1>19. CASE OrphanMedia
  BY <1>19 DEF OrphanMedia, MoveMedia, Return
<1>20. CASE PreflightReject
  BY <1>20 DEF PreflightReject, Fault
<1>21. CASE PreflightPass
  BY <1>21 DEF PreflightPass, Step
<1>22. CASE UploadLands
  BY <1>22 DEF UploadLands, Step
<1>23. CASE UploadOk
  BY <1>23 DEF UploadOk
<1>24. CASE UploadRetry
  BY <1>24 DEF UploadRetry
<1>25. CASE UploadExhausted
  BY <1>25 DEF UploadExhausted
<1>26. CASE UploadTerminal
  BY <1>26 DEF UploadTerminal
<1>27. CASE RequeueMedia
  BY <1>27 DEF RequeueMedia, Step, MoveMedia
<1>28. CASE RequeueWrite
  BY <1>28 DEF RequeueWrite, Step
<1>29. CASE RequeueUnlink
  BY <1>29 DEF RequeueUnlink, Return
<1>30. CASE FinishWrite
  BY <1>30 DEF FinishWrite, Step
<1>31. CASE FinishUnlink
  BY <1>31 DEF FinishUnlink, Step, MoveMedia
<1>32. CASE FinishMove
  BY <1>32 DEF FinishMove, Return
<1>33. CASE RunnerIoError
  BY <1>33 DEF RunnerIoError, Fault, Return, Fallible
<1>34. CASE BootIoError
  BY <1>34 DEF BootIoError, Fault, StopProcess
<1>35. CASE CaptureClip
  <2>1. /\ UNCHANGED <<pending, inflight, delivered, admitted, recorded, pc, cur>>
        /\ iclip' = next /\ next' = next + 1 /\ next \in Nat
    BY <1>35 DEF CaptureClip
  <2>2. QED
    BY <2>1, QueueConstants
<1>36. CASE CensusInflight
  BY <1>36 DEF CensusInflight, InboxStep, Present, CensusRead
<1>37. CASE CensusDelivered
  BY <1>37 DEF CensusDelivered, InboxStep, Present, CensusRead
<1>38. CASE CensusPending
  BY <1>38 DEF CensusPending, InboxStep, Present, CensusRead
<1>39. CASE CensusCorrupt
  BY <1>39 DEF CensusCorrupt, Refuse, MoveMedia
<1>40. CASE PolicyAdmit
  BY <1>40 DEF PolicyAdmit, InboxStep, NoCensus
<1>41. CASE PolicyRefuse
  BY <1>41 DEF PolicyRefuse, Refuse, MoveMedia
<1>42. CASE EvictMedia
  BY <1>42 DEF EvictMedia, InboxStep, IsVictim
<1>43. CASE EvictSide
  <2>1. PICK v \in Clips :
           \/ delivered' = [delivered EXCEPT ![v] = Absent] /\ UNCHANGED
                 pending
           \/ pending' = [pending EXCEPT ![v] = Absent] /\ UNCHANGED delivered
    BY <1>43 DEF EvictSide
  <2>2. QED
    BY <1>43, <2>1 DEF EvictSide, InboxStep
<1>44. CASE PlaceMedia
  BY <1>44 DEF PlaceMedia, InboxStep, MoveMedia
<1>45. CASE WriteSidecar
  BY <1>45 DEF WriteSidecar
<1>46. CASE WriteSidecarFails
  BY <1>46 DEF WriteSidecarFails, Fault
<1>47. CASE UnplaceMedia
  BY <1>47 DEF UnplaceMedia, MoveMedia, Fault
<1>48. CASE InboxIoError
  BY <1>48 DEF InboxIoError, Fault, Refuse, MoveMedia
<1>49. ASSUME NEW c \in Clips, PruneDelivered(c) PROVE UnbornClips'
  BY <1>49 DEF PruneDelivered
<1>50. ASSUME NEW c \in Clips, QuarantineDelivered(c) PROVE UnbornClips'
  BY <1>50 DEF QuarantineDelivered
<1>51. ASSUME NEW c \in Clips, BackoffElapses(c) PROVE UnbornClips'
  <2>1. ~Unborn(c)
    BY <1>51 DEF BackoffElapses, Absent
  <2>2. QED
    BY <1>51, <2>1 DEF BackoffElapses
<1>52. CASE Shutdown
  BY <1>52 DEF Shutdown, StopProcess
<1>53. CASE Crash
  BY <1>53 DEF Crash, StopProcess
<1>54. ASSUME NEW c \in Clips, Rot(c) PROVE UnbornClips'
  <2>1. ~Unborn(c)
    BY <1>54 DEF Rot, Absent
  <2>2. QED
    BY <1>54, <2>1 DEF Rot
<1>55. CASE IdleTick \/ UNCHANGED vars
  <2>1. UNCHANGED <<next, ipc, iclip, pending, inflight, delivered, admitted,
        recorded, pc, cur>>
    BY <1>55 DEF IdleTick, vars
  <2>2. QED
    BY <2>1
<1>56. QED
  BY <1>0, <1>1, <1>2, <1>3, <1>4, <1>5, <1>6, <1>7, <1>8, <1>9, <1>10, <1>11, <1>12,
      <1>13, <1>14, <1>15, <1>16, <1>17, <1>18, <1>19, <1>20, <1>21, <1>22,
      <1>23, <1>24, <1>25, <1>26, <1>27, <1>28, <1>29, <1>30, <1>31, <1>32,
      <1>33, <1>34, <1>35, <1>36, <1>37, <1>38, <1>39, <1>40, <1>41, <1>42,
      <1>43, <1>44, <1>45, <1>46, <1>47, <1>48, <1>49, <1>50, <1>51, <1>52,
      <1>53, <1>54, <1>55 DEF Next, BootNext, RunnerNext, InboxNext, FaultNext,
      PollerNext, EnvNext

\* The inbox is the only task that touches the media of the clip it submits.
LEMMA SubmittedMediaStep == TypeOK /\ Control /\ UnbornClips /\ ClipInHand /\
      SubmittedMedia /\ [Next]_vars => SubmittedMedia'
<1> SUFFICES ASSUME TypeOK, Control, UnbornClips, ClipInHand, SubmittedMedia,
      [Next]_vars PROVE SubmittedMedia'
  OBVIOUS
<1> USE DEF SubmittedMedia, TypeOK, Control, UnbornClips, Unborn, ClaimPCs,
      RequeuePCs, FinishPCs, OrphanPCs, BootPCs, OpenPCs, Uploading
<1>1. CASE SweepPending
  BY <1>1 DEF SweepPending, SweepOrphanMedia
<1>2. CASE SweepInflight
  BY <1>2 DEF SweepInflight, SweepOrphanMedia
<1>3. CASE ReconcileAbort
  BY <1>3 DEF ReconcileAbort, StopProcess
<1>4. CASE ReconcileDone
  BY <1>4 DEF ReconcileDone, Present
<1>5. CASE QuarantineCorruptMedia
  BY <1>5 DEF QuarantineCorruptMedia, MoveMedia, Return
<1>6. CASE ClaimMedia
  BY <1>6 DEF ClaimMedia, Step
<1>7. CASE ClaimRollback
  BY <1>7 DEF ClaimRollback, MoveMedia, Return
<1>8. CASE OrphanMedia
  BY <1>8 DEF OrphanMedia, MoveMedia, Return
<1>9. CASE RequeueMedia
  BY <1>9 DEF RequeueMedia, Step, MoveMedia
<1>10. CASE FinishUnlink
  BY <1>10 DEF FinishUnlink, Step, MoveMedia
<1>11. CASE BootIoError
  BY <1>11 DEF BootIoError, Fault, StopProcess
<1>12. CASE CaptureClip
  BY <1>12, QueueConstants DEF CaptureClip, Clips
<1>13. CASE CensusInflight
  BY <1>13 DEF CensusInflight, InboxStep, Present, CensusRead
<1>14. CASE CensusDelivered
  BY <1>14 DEF CensusDelivered, InboxStep, Present, CensusRead
<1>15. CASE CensusPending
  BY <1>15 DEF CensusPending, InboxStep, Present, CensusRead
<1>16. CASE CensusCorrupt
  BY <1>16 DEF CensusCorrupt, Refuse, MoveMedia
<1>17. CASE PolicyAdmit
  BY <1>17 DEF PolicyAdmit, InboxStep, NoCensus
<1>18. CASE PolicyRefuse
  BY <1>18 DEF PolicyRefuse, Refuse, MoveMedia
<1>19. CASE EvictMedia
  BY <1>19 DEF EvictMedia, InboxStep, IsVictim, Oldest
<1>20. CASE EvictSide
  BY <1>20 DEF EvictSide, InboxStep, IsVictim
<1>21. CASE PlaceMedia
  BY <1>21 DEF PlaceMedia, InboxStep, MoveMedia
<1>22. CASE WriteSidecar
  BY <1>22 DEF WriteSidecar
<1>23. CASE WriteSidecarFails
  BY <1>23 DEF WriteSidecarFails, Fault
<1>24. CASE UnplaceMedia
  BY <1>24 DEF UnplaceMedia, MoveMedia, Fault
<1>25. CASE InboxIoError
  BY <1>25 DEF InboxIoError, Fault, Refuse, MoveMedia
<1>26. CASE Shutdown
  BY <1>26 DEF Shutdown, StopProcess
<1>27. CASE Crash
  BY <1>27 DEF Crash, StopProcess
<1>28. CASE \/ Start \/ CollectSidecars \/ ReconcileTerminal \/ ReconcileRequeue \/ PickOldest
            \/ PickPastFailure \/ IdleTick \/ QuarantineCorruptSide
            \/ ClaimMissingMedia \/ ClaimWrite \/ ClaimWriteFails
            \/ ClaimUnlink \/ OrphanSide \/ PreflightReject
            \/ PreflightPass \/ UploadLands \/ UploadOk \/ UploadRetry
            \/ UploadExhausted \/ UploadTerminal \/ RequeueWrite
            \/ RequeueUnlink \/ FinishWrite \/ FinishMove \/ RunnerIoError
            \/ UNCHANGED vars
            \/ (\E c \in Clips :
                   \/ PruneDelivered(c) \/ QuarantineDelivered(c)
                   \/ BackoffElapses(c) \/ Rot(c))
  <2>1. UNCHANGED <<media, admitted, ipc, iclip>>
    BY <1>28
      DEF CollectSidecars, BackoffElapses, ClaimMissingMedia, ClaimUnlink, ClaimWrite,
          ClaimWriteFails, Claimed, Fallible, Fault, FinishMove, FinishWrite,
          IdleTick, Oldest, OrphanSide, Pick, PickOldest, PickPastFailure,
          Pickable, PreflightPass, PreflightReject, Present, PruneDelivered,
          QuarantineCorruptSide, QuarantineDelivered, ReconcileRequeue,
          ReconcileTerminal, RequeueUnlink, RequeueWrite, Return, Rot,
          RunnerIoError, Start, Step, UploadExhausted, UploadLands, UploadOk,
          UploadRetry, UploadTerminal, vars
  <2>2. QED
    BY <2>1
<1>29. QED
  BY <1>1, <1>2, <1>3, <1>4, <1>5, <1>6, <1>7, <1>8, <1>9, <1>10, <1>11, <1>12,
      <1>13, <1>14, <1>15, <1>16, <1>17, <1>18, <1>19, <1>20, <1>21, <1>22,
      <1>23, <1>24, <1>25, <1>26, <1>27, <1>28 DEF Next, BootNext, RunnerNext,
      InboxNext, FaultNext, PollerNext, EnvNext

\* The runner holds an undecided entry until it finishes one, and marks it
\* Delivered only after perchpub stored the bytes.
LEMMA EntryInMemoryStep == TypeOK /\ Control /\ ClipInHand /\ RecordedClips /\
      DeliveredMeansAccepted /\ EntryInMemory /\ [Next]_vars => EntryInMemory'
<1> SUFFICES ASSUME TypeOK, Control, ClipInHand, RecordedClips,
      DeliveredMeansAccepted, EntryInMemory, [Next]_vars PROVE EntryInMemory'
  OBVIOUS
<1> USE DEF EntryInMemory, ClaimPCs, RequeuePCs, FinishPCs, OrphanPCs, BootPCs,
      OpenPCs, Uploading
<1>1. CASE Start
  BY <1>1 DEF Start
<1>2. CASE SweepPending
  BY <1>2 DEF SweepPending, SweepOrphanMedia
<1>3. CASE SweepInflight
  BY <1>3 DEF SweepInflight, SweepOrphanMedia
<1>0. CASE CollectSidecars
  BY <1>0 DEF CollectSidecars
<1>4. CASE ReconcileTerminal
  BY <1>4
    DEF ReconcileTerminal, Oldest, Present, TypeOK, DeliveredMeansAccepted
<1>5. CASE ReconcileRequeue
  BY <1>5, SidecarUpdates
    DEF ReconcileRequeue, Oldest, Present, TypeOK, RecordedClips
<1>6. CASE ReconcileAbort
  BY <1>6 DEF ReconcileAbort, StopProcess
<1>7. CASE ReconcileDone
  BY <1>7 DEF ReconcileDone, Present
<1>8. CASE PickOldest
  BY <1>8 DEF PickOldest, Oldest, Pickable, Claimed, TypeOK, RecordedClips, Pick
<1>9. CASE PickPastFailure
  BY <1>9
    DEF PickPastFailure, Fault, Oldest, Pickable, Claimed, TypeOK,
        RecordedClips, Pick
<1>10. CASE QuarantineCorruptSide
  BY <1>10 DEF QuarantineCorruptSide, Oldest, Pickable
<1>11. CASE QuarantineCorruptMedia
  BY <1>11 DEF QuarantineCorruptMedia, MoveMedia, Return
<1>12. CASE ClaimMedia
  BY <1>12 DEF ClaimMedia, Step
<1>13. CASE ClaimMissingMedia
  BY <1>13 DEF ClaimMissingMedia, Step
<1>14. CASE ClaimWrite
  BY <1>14 DEF ClaimWrite, Step
<1>15. CASE ClaimWriteFails
  BY <1>15 DEF ClaimWriteFails, Fault
<1>16. CASE ClaimRollback
  BY <1>16 DEF ClaimRollback, MoveMedia, Return
<1>17. CASE ClaimUnlink
  BY <1>17 DEF ClaimUnlink, Step
<1>18. CASE OrphanSide
  BY <1>18 DEF OrphanSide, Step
<1>19. CASE OrphanMedia
  BY <1>19 DEF OrphanMedia, MoveMedia, Return
<1>20. CASE PreflightReject
  BY <1>20, SidecarUpdates DEF PreflightReject, Fault, TypeOK, Outcomes
<1>21. CASE PreflightPass
  BY <1>21 DEF PreflightPass, Step
<1>22. CASE UploadLands
  BY <1>22 DEF UploadLands, Step
<1>23. CASE UploadOk
  BY <1>23, SidecarUpdates DEF UploadOk, TypeOK, Outcomes
<1>24. CASE UploadRetry
  BY <1>24, SidecarUpdates DEF UploadRetry, TypeOK
<1>25. CASE UploadExhausted
  BY <1>25, SidecarUpdates DEF UploadExhausted, TypeOK, Outcomes
<1>26. CASE UploadTerminal
  BY <1>26, SidecarUpdates DEF UploadTerminal, TypeOK, Outcomes
<1>27. CASE RequeueMedia
  BY <1>27 DEF RequeueMedia, Step, MoveMedia
<1>28. CASE RequeueWrite
  BY <1>28 DEF RequeueWrite, Step
<1>29. CASE RequeueUnlink
  BY <1>29 DEF RequeueUnlink, Return
<1>30. CASE FinishWrite
  BY <1>30 DEF FinishWrite, Step, TypeOK, Control
<1>31. CASE FinishUnlink
  BY <1>31 DEF FinishUnlink, Step, MoveMedia
<1>32. CASE FinishMove
  BY <1>32 DEF FinishMove, Return
<1>33. CASE RunnerIoError
  BY <1>33 DEF RunnerIoError, Fault, Return, Fallible
<1>34. CASE BootIoError
  BY <1>34 DEF BootIoError, Fault, StopProcess
<1>35. CASE Shutdown
  BY <1>35 DEF Shutdown, StopProcess
<1>36. CASE Crash
  BY <1>36 DEF Crash, StopProcess
<1>37. CASE \/ IdleTick \/ CaptureClip \/ CensusInflight \/ CensusDelivered
            \/ CensusPending \/ CensusCorrupt \/ PolicyAdmit
            \/ PolicyRefuse \/ EvictMedia \/ EvictSide \/ PlaceMedia
            \/ WriteSidecar \/ WriteSidecarFails \/ UnplaceMedia
            \/ InboxIoError \/ UNCHANGED vars
            \/ (\E c \in Clips :
                   \/ PruneDelivered(c) \/ QuarantineDelivered(c)
                   \/ BackoffElapses(c) \/ Rot(c))
  <2>1. UNCHANGED <<pc, cur, ent, recorded, accepted>>
    BY <1>37
      DEF BackoffElapses, CaptureClip, CensusCorrupt, CensusDelivered,
          CensusInflight, CensusPending, CensusRead, EvictMedia, EvictSide,
          Fault, IdleTick, InboxIoError, InboxStep, IsVictim, MoveMedia,
          NoCensus, PlaceMedia, PolicyAdmit, PolicyRefuse, Present,
          PruneDelivered, QuarantineDelivered, Refuse, Rot, UnplaceMedia,
          WriteSidecar, WriteSidecarFails, vars
  <2>2. QED
    BY <2>1
<1>38. QED
  BY <1>0, <1>1, <1>2, <1>3, <1>4, <1>5, <1>6, <1>7, <1>8, <1>9, <1>10, <1>11, <1>12,
      <1>13, <1>14, <1>15, <1>16, <1>17, <1>18, <1>19, <1>20, <1>21, <1>22,
      <1>23, <1>24, <1>25, <1>26, <1>27, <1>28, <1>29, <1>30, <1>31, <1>32,
      <1>33, <1>34, <1>35, <1>36, <1>37 DEF Next, BootNext, RunnerNext,
      InboxNext, FaultNext, PollerNext, EnvNext

\* From the claim to the end of the upload the media stays in inflight/, and
\* transition_delivered removes it before the sidecar moves.
LEMMA ClipInHandStep == TypeOK /\ Control /\ UnbornClips /\ SubmittedMedia /\
      EntryInMemory /\ RecordedClips /\ ClipInHand /\ [Next]_vars =>
      ClipInHand'
<1> SUFFICES ASSUME TypeOK, Control, UnbornClips, SubmittedMedia,
      EntryInMemory, RecordedClips, ClipInHand, [Next]_vars PROVE ClipInHand'
  OBVIOUS
<1> USE DEF ClipInHand, TypeOK, Control, Absent, ClaimPCs, RequeuePCs,
      FinishPCs, OrphanPCs, BootPCs, OpenPCs, Uploading
<1>1. CASE Start
  BY <1>1 DEF Start
<1>2. CASE SweepPending
  BY <1>2 DEF SweepPending, SweepOrphanMedia
<1>3. CASE SweepInflight
  BY <1>3 DEF SweepInflight, SweepOrphanMedia
<1>0. CASE CollectSidecars
  BY <1>0 DEF CollectSidecars
<1>4. CASE ReconcileTerminal
  BY <1>4 DEF ReconcileTerminal, Oldest, Present, RecordedClips
<1>5. CASE ReconcileRequeue
  BY <1>5 DEF ReconcileRequeue, Oldest, Present
<1>6. CASE ReconcileAbort
  BY <1>6 DEF ReconcileAbort, StopProcess
<1>7. CASE ReconcileDone
  BY <1>7 DEF ReconcileDone, Present
<1>8. CASE PickOldest
  BY <1>8 DEF PickOldest, Oldest, Pickable, Claimed, Pick
<1>9. CASE PickPastFailure
  BY <1>9 DEF PickPastFailure, Fault, Oldest, Pickable, Claimed, Pick
<1>10. CASE QuarantineCorruptSide
  BY <1>10 DEF QuarantineCorruptSide, Oldest, Pickable
<1>11. CASE QuarantineCorruptMedia
  BY <1>11 DEF QuarantineCorruptMedia, MoveMedia, Return
<1>12. CASE ClaimMedia
  BY <1>12 DEF ClaimMedia, Step
<1>13. CASE ClaimMissingMedia
  BY <1>13 DEF ClaimMissingMedia, Step
<1>14. CASE ClaimWrite
  BY <1>14 DEF ClaimWrite, Step
<1>15. CASE ClaimWriteFails
  BY <1>15 DEF ClaimWriteFails, Fault
<1>16. CASE ClaimRollback
  BY <1>16 DEF ClaimRollback, MoveMedia, Return
<1>17. CASE ClaimUnlink
  BY <1>17 DEF ClaimUnlink, Step
<1>18. CASE OrphanSide
  BY <1>18 DEF OrphanSide, Step
<1>19. CASE OrphanMedia
  BY <1>19 DEF OrphanMedia, MoveMedia, Return
<1>20. CASE PreflightReject
  BY <1>20 DEF PreflightReject, Fault
<1>21. CASE PreflightPass
  BY <1>21 DEF PreflightPass, Step
<1>22. CASE UploadLands
  BY <1>22 DEF UploadLands, Step
<1>23. CASE UploadOk
  BY <1>23 DEF UploadOk
<1>24. CASE UploadRetry
  BY <1>24 DEF UploadRetry
<1>25. CASE UploadExhausted
  BY <1>25 DEF UploadExhausted
<1>26. CASE UploadTerminal
  BY <1>26 DEF UploadTerminal
<1>27. CASE RequeueMedia
  BY <1>27 DEF RequeueMedia, Step, MoveMedia, EntryInMemory
<1>28. CASE RequeueWrite
  BY <1>28 DEF RequeueWrite, Step
<1>29. CASE RequeueUnlink
  BY <1>29 DEF RequeueUnlink, Return
<1>30. CASE FinishWrite
  BY <1>30 DEF FinishWrite, Step
<1>31. CASE FinishUnlink
  BY <1>31 DEF FinishUnlink, Step, MoveMedia
<1>32. CASE FinishMove
  BY <1>32 DEF FinishMove, Return
<1>33. CASE RunnerIoError
  BY <1>33 DEF RunnerIoError, Fault, Return, Fallible
<1>34. CASE BootIoError
  BY <1>34 DEF BootIoError, Fault, StopProcess
<1>35. CASE CaptureClip
  BY <1>35, QueueConstants DEF CaptureClip, UnbornClips, Unborn, Clips
<1>36. CASE CensusCorrupt
  BY <1>36 DEF CensusCorrupt, Refuse, MoveMedia
<1>37. CASE PolicyRefuse
  BY <1>37 DEF PolicyRefuse, Refuse, MoveMedia
<1>38. CASE EvictMedia
  BY <1>38 DEF EvictMedia, InboxStep, IsVictim
<1>39. CASE EvictSide
  BY <1>39 DEF EvictSide, InboxStep, IsVictim
<1>40. CASE PlaceMedia
  BY <1>40 DEF PlaceMedia, InboxStep, MoveMedia, UnbornClips, Unborn
<1>41. CASE WriteSidecar
  BY <1>41 DEF WriteSidecar, UnbornClips, Unborn
<1>42. CASE UnplaceMedia
  BY <1>42 DEF UnplaceMedia, MoveMedia, Fault
<1>43. CASE InboxIoError
  BY <1>43 DEF InboxIoError, Fault, Refuse, MoveMedia
<1>44. ASSUME NEW c \in Clips, BackoffElapses(c) PROVE ClipInHand'
  BY <1>44 DEF BackoffElapses
<1>45. CASE Shutdown
  BY <1>45 DEF Shutdown, StopProcess
<1>46. CASE Crash
  BY <1>46 DEF Crash, StopProcess
<1>47. ASSUME NEW c \in Clips, Rot(c) PROVE ClipInHand'
  BY <1>47 DEF Rot
<1>48. CASE \/ IdleTick \/ CensusInflight \/ CensusDelivered
            \/ CensusPending \/ PolicyAdmit \/ WriteSidecarFails
            \/ UNCHANGED vars
            \/ (\E c \in Clips :
                   \/ PruneDelivered(c) \/ QuarantineDelivered(c))
  <2>1. UNCHANGED <<pc, cur, ent, media, inflight, pending, recorded>>
    BY <1>48
      DEF CensusDelivered, CensusInflight, CensusPending, CensusRead, Fault,
          IdleTick, InboxStep, NoCensus, PolicyAdmit, Present, PruneDelivered,
          QuarantineDelivered, WriteSidecarFails, vars
  <2>2. QED
    BY <2>1
<1>49. QED
  BY <1>0, <1>1, <1>2, <1>3, <1>4, <1>5, <1>6, <1>7, <1>8, <1>9, <1>10, <1>11, <1>12,
      <1>13, <1>14, <1>15, <1>16, <1>17, <1>18, <1>19, <1>20, <1>21, <1>22,
      <1>23, <1>24, <1>25, <1>26, <1>27, <1>28, <1>29, <1>30, <1>31, <1>32,
      <1>33, <1>34, <1>35, <1>36, <1>37, <1>38, <1>39, <1>40, <1>41, <1>42,
      <1>43, <1>44, <1>45, <1>46, <1>47, <1>48 DEF Next, BootNext, RunnerNext,
      InboxNext, FaultNext, PollerNext, EnvNext

\* After its terminal sidecar is written a clip is never written to pending/.
LEMMA RecordedClipsStep == TypeOK /\ Control /\ UnbornClips /\ SubmittedMedia
      /\ EntryInMemory /\ ClipInHand /\ RecordedClips /\ [Next]_vars =>
      RecordedClips'
<1> SUFFICES ASSUME TypeOK, Control, UnbornClips, SubmittedMedia,
      EntryInMemory, ClipInHand, RecordedClips, [Next]_vars PROVE
      RecordedClips'
  OBVIOUS
<1> USE DEF RecordedClips, TypeOK, Control, Absent, EntryInMemory, ClaimPCs,
      RequeuePCs, FinishPCs, OrphanPCs, BootPCs, OpenPCs, Uploading
<1>1. CASE SweepPending
  BY <1>1 DEF SweepPending, SweepOrphanMedia
<1>2. CASE SweepInflight
  BY <1>2 DEF SweepInflight, SweepOrphanMedia
<1>3. CASE ReconcileDone
  BY <1>3 DEF ReconcileDone, Present
<1>4. CASE QuarantineCorruptSide
  BY <1>4 DEF QuarantineCorruptSide, Oldest, Pickable
<1>5. CASE QuarantineCorruptMedia
  BY <1>5 DEF QuarantineCorruptMedia, MoveMedia, Return
<1>6. CASE ClaimMedia
  BY <1>6 DEF ClaimMedia, Step
<1>7. CASE ClaimWrite
  BY <1>7 DEF ClaimWrite, Step
<1>8. CASE ClaimRollback
  BY <1>8 DEF ClaimRollback, MoveMedia, Return
<1>9. CASE ClaimUnlink
  BY <1>9 DEF ClaimUnlink, Step
<1>10. CASE OrphanSide
  BY <1>10 DEF OrphanSide, Step
<1>11. CASE OrphanMedia
  BY <1>11 DEF OrphanMedia, MoveMedia, Return
<1>12. CASE RequeueMedia
  BY <1>12 DEF RequeueMedia, Step, MoveMedia
<1>13. CASE RequeueWrite
  BY <1>13 DEF RequeueWrite, Step
<1>14. CASE RequeueUnlink
  BY <1>14 DEF RequeueUnlink, Return
<1>15. CASE FinishWrite
  BY <1>15 DEF FinishWrite, Step, ClipInHand
<1>16. CASE FinishUnlink
  BY <1>16 DEF FinishUnlink, Step, MoveMedia
<1>17. CASE FinishMove
  BY <1>17 DEF FinishMove, Return, ClipInHand
<1>18. CASE CaptureClip
  BY <1>18 DEF CaptureClip, UnbornClips, Unborn
<1>19. CASE CensusCorrupt
  BY <1>19 DEF CensusCorrupt, Refuse, MoveMedia
<1>20. CASE PolicyRefuse
  BY <1>20 DEF PolicyRefuse, Refuse, MoveMedia
<1>21. CASE EvictMedia
  BY <1>21 DEF EvictMedia, InboxStep, IsVictim
<1>22. CASE EvictSide
  BY <1>22 DEF EvictSide, InboxStep, IsVictim
<1>23. CASE PlaceMedia
  BY <1>23 DEF PlaceMedia, InboxStep, MoveMedia
<1>24. CASE WriteSidecar
  BY <1>24 DEF WriteSidecar, NewEntry, UnbornClips, Unborn
<1>25. CASE UnplaceMedia
  BY <1>25 DEF UnplaceMedia, MoveMedia, Fault
<1>26. CASE InboxIoError
  BY <1>26 DEF InboxIoError, Fault, Refuse, MoveMedia
<1>27. ASSUME NEW c \in Clips, PruneDelivered(c) PROVE RecordedClips'
  BY <1>27 DEF PruneDelivered
<1>28. ASSUME NEW c \in Clips, QuarantineDelivered(c) PROVE RecordedClips'
  BY <1>28 DEF QuarantineDelivered
<1>29. ASSUME NEW c \in Clips, BackoffElapses(c) PROVE RecordedClips'
  BY <1>29, SidecarUpdates DEF BackoffElapses
<1>30. ASSUME NEW c \in Clips, Rot(c) PROVE RecordedClips'
  <2>1. CASE pending' = [pending EXCEPT ![c] = [@ EXCEPT !.st = "corrupt"]]
             /\ pending[c].st = "ok" /\ UNCHANGED <<inflight, delivered>>
    BY <1>30, <2>1, SidecarUpdates DEF Rot
  <2>2. CASE inflight' = [inflight EXCEPT ![c] = [@ EXCEPT !.st = "corrupt"]]
             /\ inflight[c].st = "ok" /\ UNCHANGED <<pending, delivered>>
    BY <1>30, <2>2, SidecarUpdates DEF Rot
  <2>3. CASE delivered' = [delivered EXCEPT ![c] = [@ EXCEPT !.st = "corrupt"]]
             /\ delivered[c].st = "ok" /\ UNCHANGED <<pending, inflight>>
    BY <1>30, <2>3, SidecarUpdates DEF Rot
  <2>4. QED
    BY <1>30, <2>1, <2>2, <2>3 DEF Rot
<1>31. CASE \/ Start \/ CollectSidecars \/ ReconcileTerminal \/ ReconcileRequeue
            \/ ReconcileAbort \/ PickOldest \/ PickPastFailure \/ IdleTick
            \/ ClaimMissingMedia \/ ClaimWriteFails \/ PreflightReject
            \/ PreflightPass \/ UploadLands \/ UploadOk \/ UploadRetry
            \/ UploadExhausted \/ UploadTerminal \/ RunnerIoError
            \/ BootIoError \/ CensusInflight \/ CensusDelivered
            \/ CensusPending \/ PolicyAdmit \/ WriteSidecarFails
            \/ Shutdown \/ Crash \/ UNCHANGED vars
  <2>1. UNCHANGED <<pending, recorded, media, inflight, delivered>>
    BY <1>31
      DEF CollectSidecars, BootIoError, CensusDelivered, CensusInflight, CensusPending,
          CensusRead, ClaimMissingMedia, ClaimWriteFails, Claimed, Crash,
          Fallible, Fault, IdleTick, InboxStep, NoCensus, Oldest, Pick,
          PickOldest, PickPastFailure, Pickable, PolicyAdmit, PreflightPass,
          PreflightReject, Present, ReconcileAbort, ReconcileRequeue,
          ReconcileTerminal, Return, RunnerIoError, Shutdown, Start, Step,
          StopProcess, UploadExhausted, UploadLands, UploadOk, UploadRetry,
          UploadTerminal, WriteSidecarFails, vars
  <2>2. QED
    BY <2>1
<1>32. QED
  BY <1>1, <1>2, <1>3, <1>4, <1>5, <1>6, <1>7, <1>8, <1>9, <1>10, <1>11, <1>12,
      <1>13, <1>14, <1>15, <1>16, <1>17, <1>18, <1>19, <1>20, <1>21, <1>22,
      <1>23, <1>24, <1>25, <1>26, <1>27, <1>28, <1>29, <1>30, <1>31 DEF Next,
      BootNext, RunnerNext, InboxNext, FaultNext, PollerNext, EnvNext

\* Before the boot sweeps end, media apart from its sidecar was torn by a stop.
LEMMA SweepsTakeTornStep == TypeOK /\ Control /\ UnbornClips /\ SweepsTakeTorn
      /\ [Next]_vars => SweepsTakeTorn'
<1> SUFFICES ASSUME TypeOK, Control, UnbornClips, SweepsTakeTorn, [Next]_vars
      PROVE SweepsTakeTorn'
  OBVIOUS
<1> USE DEF SweepsTakeTorn, TypeOK, Control, Apart, ClaimPCs, RequeuePCs,
      FinishPCs, OrphanPCs, BootPCs, OpenPCs, Uploading
<1>1. CASE Start
  BY <1>1 DEF Start
<1>2. CASE SweepPending
  BY <1>2 DEF SweepPending, SweepOrphanMedia
<1>3. CASE SweepInflight
  BY <1>3 DEF SweepInflight, SweepOrphanMedia
<1>0. CASE CollectSidecars
  BY <1>0 DEF CollectSidecars
<1>4. CASE ReconcileTerminal
  BY <1>4 DEF ReconcileTerminal, Oldest, Present
<1>5. CASE ReconcileRequeue
  BY <1>5 DEF ReconcileRequeue, Oldest, Present
<1>6. CASE ReconcileAbort
  BY <1>6 DEF ReconcileAbort, StopProcess
<1>7. CASE ReconcileDone
  BY <1>7 DEF ReconcileDone, Present
<1>8. CASE PickOldest
  BY <1>8 DEF PickOldest, Oldest, Pickable, Claimed, Pick
<1>9. CASE PickPastFailure
  BY <1>9 DEF PickPastFailure, Fault, Oldest, Pickable, Claimed, Pick
<1>10. CASE QuarantineCorruptSide
  BY <1>10 DEF QuarantineCorruptSide, Oldest, Pickable
<1>11. CASE QuarantineCorruptMedia
  BY <1>11 DEF QuarantineCorruptMedia, MoveMedia, Return
<1>12. CASE ClaimMedia
  BY <1>12 DEF ClaimMedia, Step
<1>13. CASE ClaimMissingMedia
  BY <1>13 DEF ClaimMissingMedia, Step
<1>14. CASE ClaimWrite
  BY <1>14 DEF ClaimWrite, Step
<1>15. CASE ClaimWriteFails
  BY <1>15 DEF ClaimWriteFails, Fault
<1>16. CASE ClaimRollback
  BY <1>16 DEF ClaimRollback, MoveMedia, Return
<1>17. CASE ClaimUnlink
  BY <1>17 DEF ClaimUnlink, Step
<1>18. CASE OrphanSide
  BY <1>18 DEF OrphanSide, Step
<1>19. CASE OrphanMedia
  BY <1>19 DEF OrphanMedia, MoveMedia, Return
<1>20. CASE PreflightReject
  BY <1>20 DEF PreflightReject, Fault
<1>21. CASE PreflightPass
  BY <1>21 DEF PreflightPass, Step
<1>22. CASE UploadLands
  BY <1>22 DEF UploadLands, Step
<1>23. CASE UploadOk
  BY <1>23 DEF UploadOk
<1>24. CASE UploadRetry
  BY <1>24 DEF UploadRetry
<1>25. CASE UploadExhausted
  BY <1>25 DEF UploadExhausted
<1>26. CASE UploadTerminal
  BY <1>26 DEF UploadTerminal
<1>27. CASE RequeueMedia
  BY <1>27 DEF RequeueMedia, Step, MoveMedia
<1>28. CASE RequeueWrite
  BY <1>28 DEF RequeueWrite, Step
<1>29. CASE RequeueUnlink
  BY <1>29 DEF RequeueUnlink, Return
<1>30. CASE FinishWrite
  BY <1>30 DEF FinishWrite, Step
<1>31. CASE FinishUnlink
  BY <1>31 DEF FinishUnlink, Step, MoveMedia
<1>32. CASE FinishMove
  BY <1>32 DEF FinishMove, Return
<1>33. CASE RunnerIoError
  BY <1>33 DEF RunnerIoError, Fault, Return, Fallible
<1>34. CASE BootIoError
  BY <1>34 DEF BootIoError, Fault, StopProcess
<1>35. CASE CaptureClip
  BY <1>35 DEF CaptureClip
<1>36. CASE CensusCorrupt
  BY <1>36 DEF CensusCorrupt, Refuse, MoveMedia
<1>37. CASE PolicyRefuse
  BY <1>37 DEF PolicyRefuse, Refuse, MoveMedia
<1>38. CASE EvictMedia
  BY <1>38 DEF EvictMedia, InboxStep, IsVictim
<1>39. CASE EvictSide
  BY <1>39 DEF EvictSide, InboxStep, IsVictim
<1>40. CASE PlaceMedia
  BY <1>40 DEF PlaceMedia, InboxStep, MoveMedia
<1>41. CASE WriteSidecar
  BY <1>41 DEF WriteSidecar
<1>42. CASE UnplaceMedia
  BY <1>42 DEF UnplaceMedia, MoveMedia, Fault
<1>43. CASE InboxIoError
  BY <1>43 DEF InboxIoError, Fault, Refuse, MoveMedia
<1>44. ASSUME NEW c \in Clips, BackoffElapses(c) PROVE SweepsTakeTorn'
  BY <1>44 DEF BackoffElapses
<1>45. CASE Shutdown
  BY <1>45 DEF Shutdown, StopProcess
<1>46. CASE Crash
  BY <1>46 DEF Crash, StopProcess
<1>47. ASSUME NEW c \in Clips, Rot(c) PROVE SweepsTakeTorn'
  <2>1. \A d \in Clips : pending'[d].st = "absent" <=> pending[d].st = "absent"
    BY <1>47, SidecarUpdates DEF Rot
  <2>2. \A d \in Clips : inflight'[d].st = "absent" <=> inflight[d].st =
        "absent"
    BY <1>47, SidecarUpdates DEF Rot
  <2>3. QED
    BY <1>47, <2>1, <2>2 DEF Rot
<1>48. CASE \/ IdleTick \/ CensusInflight \/ CensusDelivered
            \/ CensusPending \/ PolicyAdmit \/ WriteSidecarFails
            \/ UNCHANGED vars
            \/ (\E c \in Clips :
                   \/ PruneDelivered(c) \/ QuarantineDelivered(c))
  <2>1. UNCHANGED <<pc, media, pending, inflight, torn>>
    BY <1>48
      DEF CensusDelivered, CensusInflight, CensusPending, CensusRead, Fault,
          IdleTick, InboxStep, NoCensus, PolicyAdmit, Present, PruneDelivered,
          QuarantineDelivered, WriteSidecarFails, vars
  <2>2. QED
    BY <2>1
<1>49. QED
  BY <1>0, <1>1, <1>2, <1>3, <1>4, <1>5, <1>6, <1>7, <1>8, <1>9, <1>10, <1>11, <1>12,
      <1>13, <1>14, <1>15, <1>16, <1>17, <1>18, <1>19, <1>20, <1>21, <1>22,
      <1>23, <1>24, <1>25, <1>26, <1>27, <1>28, <1>29, <1>30, <1>31, <1>32,
      <1>33, <1>34, <1>35, <1>36, <1>37, <1>38, <1>39, <1>40, <1>41, <1>42,
      <1>43, <1>44, <1>45, <1>46, <1>47, <1>48 DEF Next, BootNext, RunnerNext,
      InboxNext, FaultNext, PollerNext, EnvNext

\* During the boot only the boot's own steps, and the clock, are taken.
LEMMA BootSteps ==
    ASSUME TypeOK, Control, [Next]_vars, phase' = "boot"
    PROVE  \/ Start
           \/ /\ phase = "boot"
              /\ \/ SweepPending \/ SweepInflight \/ CollectSidecars
                 \/ ReconcileTerminal \/ ReconcileRequeue
                 \/ RequeueMedia \/ RequeueWrite \/ RequeueUnlink
                 \/ FinishWrite \/ FinishUnlink \/ FinishMove
                 \/ (\E c \in Clips : BackoffElapses(c)) \/ UNCHANGED vars
<1> USE DEF Control, BootPCs, RequeuePCs, FinishPCs
<1>1. CASE ReconcileAbort \/ ReconcileDone \/ BootIoError \/ Shutdown \/ Crash
  BY <1>1 DEF ReconcileAbort, ReconcileDone, BootIoError, Shutdown, Crash, StopProcess
<1>2. CASE \/ PickOldest \/ PickPastFailure \/ IdleTick \/ QuarantineCorruptSide
           \/ RunnerIoError \/ CaptureClip
           \/ (\E c \in Clips : PruneDelivered(c) \/ QuarantineDelivered(c) \/ Rot(c))
  BY <1>2
    DEF PickOldest, PickPastFailure, IdleTick, QuarantineCorruptSide, RunnerIoError,
        CaptureClip, PruneDelivered, QuarantineDelivered, Rot, vars
<1>3. CASE \/ QuarantineCorruptMedia \/ ClaimMedia \/ ClaimMissingMedia \/ ClaimWrite
           \/ ClaimWriteFails \/ ClaimRollback \/ ClaimUnlink \/ OrphanSide
           \/ OrphanMedia \/ PreflightReject \/ PreflightPass \/ UploadLands
           \/ UploadOk \/ UploadRetry \/ UploadExhausted \/ UploadTerminal
  <2>1. /\ phase' = phase
        /\ pc \in {"quarantineMedia", "claimMedia", "claimWrite", "claimRollback",
                  "claimUnlink", "orphanSide", "orphanMedia", "preflight", "upload",
                  "response"}
    BY <1>3
      DEF QuarantineCorruptMedia, ClaimMedia, ClaimMissingMedia, ClaimWrite,
          ClaimWriteFails, ClaimRollback, ClaimUnlink, OrphanSide, OrphanMedia,
          PreflightReject, PreflightPass, UploadLands, UploadOk, UploadRetry,
          UploadExhausted, UploadTerminal, Step
  <2>2. QED
    BY <2>1
<1>4. CASE InboxNext \/ WriteSidecarFails \/ InboxIoError
  <2>1. phase' = phase /\ ipc # "idle"
    BY <1>4
      DEF InboxNext, CensusInflight, CensusDelivered, CensusPending, CensusRead,
          CensusCorrupt, PolicyAdmit, PolicyRefuse, EvictMedia, EvictSide,
          PlaceMedia, WriteSidecar, UnplaceMedia, WriteSidecarFails, InboxIoError,
          InboxStep, Refuse
  <2>2. QED
    BY <2>1
<1>5. CASE \/ SweepPending \/ SweepInflight \/ CollectSidecars
           \/ ReconcileTerminal \/ ReconcileRequeue
           \/ RequeueMedia \/ RequeueWrite \/ RequeueUnlink
           \/ FinishWrite \/ FinishUnlink \/ FinishMove
           \/ (\E c \in Clips : BackoffElapses(c)) \/ UNCHANGED vars
  <2>1. phase' = phase
    BY <1>5
      DEF SweepPending, SweepInflight, SweepOrphanMedia, CollectSidecars,
          ReconcileTerminal, ReconcileRequeue, RequeueMedia, RequeueWrite,
          RequeueUnlink, FinishWrite, FinishUnlink, FinishMove, BackoffElapses, Step,
          vars
  <2>2. QED
    BY <1>5, <2>1, Zenon
<1>6. QED
  BY <1>1, <1>2, <1>3, <1>4, <1>5
    DEF Next, BootNext, RunnerNext, InboxNext, FaultNext, PollerNext, EnvNext

\* The boot's repairs stand: the sweeps first, then the listed entries one by one.
LEMMA RepairedStep == TypeOK /\ Control /\ EntryInMemory /\ ClipInHand /\ Repaired
      /\ [Next]_vars => Repaired'
<1> SUFFICES ASSUME TypeOK, Control, EntryInMemory, ClipInHand, Repaired,
                    [Next]_vars, phase' = "boot"
             PROVE  Repaired'
  BY DEF Repaired
<1> USE DEF Repaired
<1>1. CASE Start
  BY <1>1 DEF Start
<1>2. CASE phase = "boot" /\ (SweepPending \/ SweepInflight)
  BY <1>2 DEF SweepPending, SweepInflight, SweepOrphanMedia, TypeOK
<1>3. CASE phase = "boot" /\ CollectSidecars
  BY <1>3 DEF CollectSidecars, Present
<1>4. CASE phase = "boot" /\ (ReconcileTerminal \/ ReconcileRequeue)
  BY <1>4 DEF ReconcileTerminal, ReconcileRequeue
<1>5. CASE phase = "boot" /\ RequeueMedia
  BY <1>5 DEF RequeueMedia, Step, MoveMedia, TypeOK, Control, OpenPCs, RequeuePCs
<1>6. CASE phase = "boot" /\ RequeueWrite
  <2>1. cur \in Clips /\ ent.st = "ok" /\ pending \in [Clips -> Sidecar]
    BY <1>6 DEF RequeueWrite, Step, Control, EntryInMemory, OpenPCs, RequeuePCs, TypeOK
  <2>2. QED
    BY <1>6, <2>1 DEF RequeueWrite, Step
<1>7. CASE phase = "boot" /\ RequeueUnlink
  <2>1. cur \in Clips /\ inflight \in [Clips -> Sidecar] /\ Absent.st = "absent"
    BY <1>7 DEF RequeueUnlink, Control, OpenPCs, RequeuePCs, TypeOK, Absent
  <2>2. QED
    BY <1>7, <2>1 DEF RequeueUnlink, Return
<1>8. CASE phase = "boot" /\ FinishWrite
  <2>1. cur \in Clips /\ ent.st = "ok" /\ inflight \in [Clips -> Sidecar]
    BY <1>8 DEF FinishWrite, Step, Control, EntryInMemory, FinishPCs, TypeOK
  <2>2. QED
    BY <1>8, <2>1 DEF FinishWrite, Step
<1>9. CASE phase = "boot" /\ FinishUnlink
  BY <1>9 DEF FinishUnlink, Step, MoveMedia, TypeOK, Control, FinishPCs
<1>10. CASE phase = "boot" /\ FinishMove
  <2>1. cur \in Clips /\ inflight \in [Clips -> Sidecar] /\ Absent.st = "absent"
    BY <1>10 DEF FinishMove, Control, FinishPCs, TypeOK, Absent
  <2>2. media[cur] = "none"
    BY <1>10 DEF FinishMove, ClipInHand
  <2>3. QED
    BY <1>10, <2>1, <2>2 DEF FinishMove, Return
<1>11. CASE phase = "boot" /\ \E c \in Clips : BackoffElapses(c)
  <2>1. /\ UNCHANGED <<media, inflight, phase, pc, cur, sidecars>>
        /\ \A c \in Clips : pending'[c].st = pending[c].st
    BY <1>11, SidecarUpdates DEF BackoffElapses, TypeOK
  <2>2. QED
    BY <2>1
<1>12. CASE phase = "boot" /\ UNCHANGED vars
  BY <1>12 DEF vars
<1>13. QED
  BY BootSteps, <1>1, <1>2, <1>3, <1>4, <1>5, <1>6, <1>7, <1>8, <1>9, <1>10, <1>11,
     <1>12

\* The attempt counter passes the ceiling only by one for each restart.
LEMMA AttemptCountsStep == TypeOK /\ Control /\ ClipInHand /\ AttemptCounts /\
      [Next]_vars => AttemptCounts'
<1> SUFFICES ASSUME TypeOK, Control, ClipInHand, AttemptCounts, [Next]_vars
      PROVE AttemptCounts'
  OBVIOUS
<1> USE DEF AttemptCounts, TypeOK, Control, ClaimPCs, RequeuePCs, FinishPCs,
      OrphanPCs, BootPCs, OpenPCs, Uploading
<1>1. CASE Start
  BY <1>1, QueueConstants, SidecarUpdates DEF Start, Absent, NewEntry
<1>2. CASE SweepPending
  BY <1>2, QueueConstants, SidecarUpdates
    DEF SweepPending, SweepOrphanMedia, Absent, NewEntry
<1>3. CASE SweepInflight
  BY <1>3, QueueConstants, SidecarUpdates
    DEF SweepInflight, SweepOrphanMedia, Absent, NewEntry
<1>0. CASE CollectSidecars
  BY <1>0 DEF CollectSidecars
<1>4. CASE ReconcileTerminal
  BY <1>4, QueueConstants, SidecarUpdates
    DEF ReconcileTerminal, Oldest, Present, Absent, NewEntry
<1>5. CASE ReconcileRequeue
  BY <1>5, QueueConstants, SidecarUpdates
    DEF ReconcileRequeue, Oldest, Present, Absent, NewEntry
<1>6. CASE ReconcileAbort
  BY <1>6, QueueConstants, SidecarUpdates
    DEF ReconcileAbort, StopProcess, Absent, NewEntry
<1>7. CASE ReconcileDone
  BY <1>7, QueueConstants, SidecarUpdates
    DEF ReconcileDone, Present, Absent, NewEntry
<1>8. CASE PickOldest
  <2>1. PICK c \in Clips : ent' = Claimed(pending[c])
    BY <1>8 DEF PickOldest, Pick
  <2>2. ent'.attempts = pending[c].attempts + 1
    BY <2>1 DEF Claimed
  <2>3. pending[c].attempts \in Nat
    BY SidecarUpdates
  <2>4. ent'.attempts <= MaxAttempts + restarts
    BY <2>2, <2>3, QueueConstants
  <2>5. QED
    BY <1>8, <2>4 DEF PickOldest, Pick
<1>9. CASE PickPastFailure
  <2>1. PICK c \in Clips : ent' = Claimed(pending[c])
    BY <1>9 DEF PickPastFailure, Pickable, Pick
  <2>2. ent'.attempts = pending[c].attempts + 1
    BY <2>1 DEF Claimed
  <2>3. pending[c].attempts \in Nat
    BY SidecarUpdates
  <2>4. ent'.attempts <= MaxAttempts + restarts
    BY <2>2, <2>3, QueueConstants
  <2>5. QED
    BY <1>9, <2>4 DEF PickPastFailure, Fault, Pick
<1>10. CASE QuarantineCorruptSide
  BY <1>10, QueueConstants, SidecarUpdates
    DEF QuarantineCorruptSide, Oldest, Pickable, Absent, NewEntry
<1>11. CASE QuarantineCorruptMedia
  BY <1>11, QueueConstants, SidecarUpdates
    DEF QuarantineCorruptMedia, MoveMedia, Return, Absent, NewEntry
<1>12. CASE ClaimMedia
  BY <1>12, QueueConstants, SidecarUpdates
    DEF ClaimMedia, Step, Absent, NewEntry
<1>13. CASE ClaimMissingMedia
  BY <1>13, QueueConstants, SidecarUpdates
    DEF ClaimMissingMedia, Step, Absent, NewEntry
<1>14. CASE ClaimWrite
  BY <1>14, QueueConstants, SidecarUpdates
    DEF ClaimWrite, Step, Absent, NewEntry
<1>15. CASE ClaimWriteFails
  BY <1>15, QueueConstants, SidecarUpdates
    DEF ClaimWriteFails, Fault, Absent, NewEntry
<1>16. CASE ClaimRollback
  BY <1>16, QueueConstants, SidecarUpdates
    DEF ClaimRollback, MoveMedia, Return, Absent, NewEntry
<1>17. CASE ClaimUnlink
  BY <1>17, QueueConstants, SidecarUpdates
    DEF ClaimUnlink, Step, Absent, NewEntry
<1>18. CASE OrphanSide
  BY <1>18, QueueConstants, SidecarUpdates
    DEF OrphanSide, Step, Absent, NewEntry
<1>19. CASE OrphanMedia
  BY <1>19, QueueConstants, SidecarUpdates
    DEF OrphanMedia, MoveMedia, Return, Absent, NewEntry
<1>20. CASE PreflightReject
  BY <1>20, QueueConstants, SidecarUpdates
    DEF PreflightReject, Fault, Absent, NewEntry
<1>21. CASE PreflightPass
  BY <1>21, QueueConstants, SidecarUpdates
    DEF PreflightPass, Step, Absent, NewEntry
<1>22. CASE UploadLands
  BY <1>22, QueueConstants, SidecarUpdates
    DEF UploadLands, Step, Absent, NewEntry
<1>23. CASE UploadOk
  BY <1>23, QueueConstants, SidecarUpdates DEF UploadOk, Absent, NewEntry
<1>24. CASE UploadRetry
  <2>1. ent'.attempts = ent.attempts /\ ent.attempts \in Nat
    BY <1>24, SidecarUpdates DEF UploadRetry
  <2>2. ent'.attempts <= MaxAttempts + restarts - 1
    BY <1>24, <2>1, QueueConstants DEF UploadRetry
  <2>3. QED
    BY <1>24, <2>1, <2>2 DEF UploadRetry
<1>25. CASE UploadExhausted
  BY <1>25, QueueConstants, SidecarUpdates
    DEF UploadExhausted, Absent, NewEntry
<1>26. CASE UploadTerminal
  BY <1>26, QueueConstants, SidecarUpdates DEF UploadTerminal, Absent, NewEntry
<1>27. CASE RequeueMedia
  BY <1>27, QueueConstants, SidecarUpdates
    DEF RequeueMedia, Step, MoveMedia, Absent, NewEntry
<1>28. CASE RequeueWrite
  BY <1>28, QueueConstants, SidecarUpdates
    DEF RequeueWrite, Step, Absent, NewEntry
<1>29. CASE RequeueUnlink
  BY <1>29, QueueConstants, SidecarUpdates
    DEF RequeueUnlink, Return, Absent, NewEntry
<1>30. CASE FinishWrite
  BY <1>30, QueueConstants, SidecarUpdates
    DEF FinishWrite, Step, Absent, NewEntry
<1>31. CASE FinishUnlink
  BY <1>31, QueueConstants, SidecarUpdates
    DEF FinishUnlink, Step, MoveMedia, Absent, NewEntry
<1>32. CASE FinishMove
  BY <1>32, QueueConstants, SidecarUpdates
    DEF FinishMove, Return, Absent, NewEntry
<1>33. CASE RunnerIoError
  BY <1>33, QueueConstants, SidecarUpdates
    DEF RunnerIoError, Fault, Return, Fallible, Absent, NewEntry
<1>34. CASE BootIoError
  BY <1>34, QueueConstants, SidecarUpdates
    DEF BootIoError, Fault, StopProcess, Absent, NewEntry
<1>35. CASE EvictSide
  BY <1>35, QueueConstants, SidecarUpdates
    DEF EvictSide, InboxStep, IsVictim, Absent, NewEntry
<1>36. CASE WriteSidecar
  BY <1>36, QueueConstants, SidecarUpdates DEF WriteSidecar, Absent, NewEntry
<1>37. ASSUME NEW c \in Clips, PruneDelivered(c) PROVE AttemptCounts'
  BY <1>37, QueueConstants, SidecarUpdates DEF PruneDelivered, Absent, NewEntry
<1>38. ASSUME NEW c \in Clips, QuarantineDelivered(c) PROVE AttemptCounts'
  BY <1>38, QueueConstants, SidecarUpdates
    DEF QuarantineDelivered, Absent, NewEntry
<1>39. ASSUME NEW c \in Clips, BackoffElapses(c) PROVE AttemptCounts'
  BY <1>39, QueueConstants, SidecarUpdates DEF BackoffElapses, Absent, NewEntry
<1>40. CASE Shutdown
  <2>1. \A e \in Sidecar : e.attempts <= MaxAttempts + restarts
                           => e.attempts <= MaxAttempts + restarts' - 1
    BY <1>40, SidecarUpdates, QueueConstants DEF Shutdown
  <2>2. \A e \in Sidecar : e.attempts <= MaxAttempts + restarts - 1
                           => e.attempts <= MaxAttempts + restarts' - 1
    BY <1>40, SidecarUpdates, QueueConstants DEF Shutdown
  <2>3. \A e \in Sidecar : e.attempts <= MaxAttempts + restarts
                           => e.attempts <= MaxAttempts + restarts'
    BY <1>40, SidecarUpdates, QueueConstants DEF Shutdown
  <2>4. Absent \in Sidecar /\ Absent.attempts <= MaxAttempts + restarts - 1
    BY QueueConstants DEF Absent, Sidecar, Outcomes
  <2>5. QED
    BY <1>40, <2>1, <2>2, <2>3, <2>4 DEF Shutdown, StopProcess
<1>41. CASE Crash
  <2>1. \A e \in Sidecar : e.attempts <= MaxAttempts + restarts
                           => e.attempts <= MaxAttempts + restarts' - 1
    BY <1>41, SidecarUpdates, QueueConstants DEF Crash
  <2>2. \A e \in Sidecar : e.attempts <= MaxAttempts + restarts - 1
                           => e.attempts <= MaxAttempts + restarts' - 1
    BY <1>41, SidecarUpdates, QueueConstants DEF Crash
  <2>3. \A e \in Sidecar : e.attempts <= MaxAttempts + restarts
                           => e.attempts <= MaxAttempts + restarts'
    BY <1>41, SidecarUpdates, QueueConstants DEF Crash
  <2>4. Absent \in Sidecar /\ Absent.attempts <= MaxAttempts + restarts - 1
    BY QueueConstants DEF Absent, Sidecar, Outcomes
  <2>5. QED
    BY <1>41, <2>1, <2>2, <2>3, <2>4 DEF Crash, StopProcess
<1>42. ASSUME NEW c \in Clips, Rot(c) PROVE AttemptCounts'
  <2>1. CASE pending' = [pending EXCEPT ![c] = [@ EXCEPT !.st = "corrupt"]]
             /\ pending[c].st = "ok" /\ UNCHANGED <<inflight, delivered>>
    BY <1>42, <2>1, SidecarUpdates DEF Rot
  <2>2. CASE inflight' = [inflight EXCEPT ![c] = [@ EXCEPT !.st = "corrupt"]]
             /\ inflight[c].st = "ok" /\ UNCHANGED <<pending, delivered>>
    BY <1>42, <2>2, SidecarUpdates DEF Rot
  <2>3. CASE delivered' = [delivered EXCEPT ![c] = [@ EXCEPT !.st = "corrupt"]]
             /\ delivered[c].st = "ok" /\ UNCHANGED <<pending, inflight>>
    BY <1>42, <2>3, SidecarUpdates DEF Rot
  <2>4. QED
    BY <1>42, <2>1, <2>2, <2>3 DEF Rot
<1>43. CASE \/ IdleTick \/ CaptureClip \/ CensusInflight \/ CensusDelivered
            \/ CensusPending \/ CensusCorrupt \/ PolicyAdmit
            \/ PolicyRefuse \/ EvictMedia \/ PlaceMedia
            \/ WriteSidecarFails \/ UnplaceMedia \/ InboxIoError
            \/ UNCHANGED vars
  <2>1. UNCHANGED <<phase, pc, ent, restarts, pending, inflight, delivered>>
    BY <1>43
      DEF CaptureClip, CensusCorrupt, CensusDelivered, CensusInflight,
          CensusPending, CensusRead, EvictMedia, Fault, IdleTick, InboxIoError,
          InboxStep, IsVictim, MoveMedia, NoCensus, PlaceMedia, PolicyAdmit,
          PolicyRefuse, Present, Refuse, UnplaceMedia, WriteSidecarFails, vars
  <2>2. QED
    BY <2>1
<1>44. QED
  BY <1>0, <1>1, <1>2, <1>3, <1>4, <1>5, <1>6, <1>7, <1>8, <1>9, <1>10, <1>11, <1>12,
      <1>13, <1>14, <1>15, <1>16, <1>17, <1>18, <1>19, <1>20, <1>21, <1>22,
      <1>23, <1>24, <1>25, <1>26, <1>27, <1>28, <1>29, <1>30, <1>31, <1>32,
      <1>33, <1>34, <1>35, <1>36, <1>37, <1>38, <1>39, <1>40, <1>41, <1>42,
      <1>43 DEF Next, BootNext, RunnerNext, InboxNext, FaultNext, PollerNext,
      EnvNext

\* A Delivered sidecar is written only from an entry perchpub accepted.
LEMMA DeliveredMeansAcceptedStep == TypeOK /\ Control /\ EntryInMemory /\
      DeliveredMeansAccepted /\ [Next]_vars => DeliveredMeansAccepted'
<1> SUFFICES ASSUME TypeOK, Control, EntryInMemory, DeliveredMeansAccepted,
      [Next]_vars PROVE DeliveredMeansAccepted'
  OBVIOUS
<1> USE DEF DeliveredMeansAccepted, TypeOK, Control, Absent, EntryInMemory,
      ClaimPCs, RequeuePCs, FinishPCs, OrphanPCs, BootPCs, OpenPCs, Uploading
<1>1. CASE ClaimWrite
  BY <1>1 DEF ClaimWrite, Step
<1>2. CASE UploadLands
  BY <1>2 DEF UploadLands, Step
<1>3. CASE RequeueUnlink
  BY <1>3 DEF RequeueUnlink, Return
<1>4. CASE FinishWrite
  BY <1>4 DEF FinishWrite, Step
<1>5. CASE FinishMove
  BY <1>5 DEF FinishMove, Return
<1>6. CASE EvictSide
  BY <1>6 DEF EvictSide, InboxStep, IsVictim
<1>7. ASSUME NEW c \in Clips, PruneDelivered(c) PROVE DeliveredMeansAccepted'
  BY <1>7 DEF PruneDelivered
<1>8. ASSUME NEW c \in Clips, QuarantineDelivered(c) PROVE
      DeliveredMeansAccepted'
  BY <1>8 DEF QuarantineDelivered
<1>9. ASSUME NEW c \in Clips, Rot(c) PROVE DeliveredMeansAccepted'
  <2>1. CASE pending' = [pending EXCEPT ![c] = [@ EXCEPT !.st = "corrupt"]]
             /\ pending[c].st = "ok" /\ UNCHANGED <<inflight, delivered>>
    BY <1>9, <2>1, SidecarUpdates DEF Rot
  <2>2. CASE inflight' = [inflight EXCEPT ![c] = [@ EXCEPT !.st = "corrupt"]]
             /\ inflight[c].st = "ok" /\ UNCHANGED <<pending, delivered>>
    BY <1>9, <2>2, SidecarUpdates DEF Rot
  <2>3. CASE delivered' = [delivered EXCEPT ![c] = [@ EXCEPT !.st = "corrupt"]]
             /\ delivered[c].st = "ok" /\ UNCHANGED <<pending, inflight>>
    BY <1>9, <2>3, SidecarUpdates DEF Rot
  <2>4. QED
    BY <1>9, <2>1, <2>2, <2>3 DEF Rot
<1>10. CASE \/ Start \/ CollectSidecars \/ SweepPending \/ SweepInflight \/ ReconcileTerminal
            \/ ReconcileRequeue \/ ReconcileAbort \/ ReconcileDone
            \/ PickOldest \/ PickPastFailure \/ IdleTick
            \/ QuarantineCorruptSide \/ QuarantineCorruptMedia
            \/ ClaimMedia \/ ClaimMissingMedia \/ ClaimWriteFails
            \/ ClaimRollback \/ ClaimUnlink \/ OrphanSide \/ OrphanMedia
            \/ PreflightReject \/ PreflightPass \/ UploadOk \/ UploadRetry
            \/ UploadExhausted \/ UploadTerminal \/ RequeueMedia
            \/ RequeueWrite \/ FinishUnlink \/ RunnerIoError \/ BootIoError
            \/ CaptureClip \/ CensusInflight \/ CensusDelivered
            \/ CensusPending \/ CensusCorrupt \/ PolicyAdmit
            \/ PolicyRefuse \/ EvictMedia \/ PlaceMedia \/ WriteSidecar
            \/ WriteSidecarFails \/ UnplaceMedia \/ InboxIoError
            \/ Shutdown \/ Crash \/ UNCHANGED vars
            \/ (\E c \in Clips :
                   \/ BackoffElapses(c))
  <2>1. UNCHANGED <<inflight, delivered, accepted>>
    BY <1>10
      DEF CollectSidecars, BackoffElapses, BootIoError, CaptureClip, CensusCorrupt,
          CensusDelivered, CensusInflight, CensusPending, CensusRead,
          ClaimMedia, ClaimMissingMedia, ClaimRollback, ClaimUnlink,
          ClaimWriteFails, Claimed, Crash, EvictMedia, Fallible, Fault,
          FinishUnlink, IdleTick, InboxIoError, InboxStep, IsVictim, MoveMedia,
          NoCensus, Oldest, OrphanMedia, OrphanSide, Pick, PickOldest,
          PickPastFailure, Pickable, PlaceMedia, PolicyAdmit, PolicyRefuse,
          PreflightPass, PreflightReject, Present, QuarantineCorruptMedia,
          QuarantineCorruptSide, ReconcileAbort, ReconcileDone,
          ReconcileRequeue, ReconcileTerminal, Refuse, RequeueMedia,
          RequeueWrite, Return, RunnerIoError, Shutdown, Start, Step,
          StopProcess, SweepInflight, SweepOrphanMedia, SweepPending,
          UnplaceMedia, UploadExhausted, UploadOk, UploadRetry, UploadTerminal,
          WriteSidecar, WriteSidecarFails, vars
  <2>2. QED
    BY <2>1
<1>11. QED
  BY <1>1, <1>2, <1>3, <1>4, <1>5, <1>6, <1>7, <1>8, <1>9, <1>10
    DEF Next, BootNext, RunnerNext, InboxNext, FaultNext, PollerNext, EnvNext

\* Every step that deletes media deletes that of a clip already discharged, not
\* yet admitted, or torn.
LEMMA LossOnlyIfTornStep == TypeOK /\ Control /\ UnbornClips /\ SubmittedMedia
      /\ SweepsTakeTorn /\ RecordedClips /\ ClipInHand /\ LossOnlyIfTorn /\
      [Next]_vars => LossOnlyIfTorn'
<1> SUFFICES ASSUME TypeOK, Control, UnbornClips, SubmittedMedia,
      SweepsTakeTorn, RecordedClips, ClipInHand, LossOnlyIfTorn, [Next]_vars
      PROVE LossOnlyIfTorn'
  OBVIOUS
<1> USE DEF LossOnlyIfTorn, Discharged, TypeOK, Control, ClaimPCs, RequeuePCs,
      FinishPCs, OrphanPCs, BootPCs, OpenPCs, Uploading
<1>1. CASE SweepPending
  BY <1>1 DEF SweepPending, SweepOrphanMedia, SweepsTakeTorn, Apart
<1>2. CASE SweepInflight
  BY <1>2 DEF SweepInflight, SweepOrphanMedia, SweepsTakeTorn, Apart
<1>3. CASE ReconcileAbort
  BY <1>3 DEF ReconcileAbort, StopProcess
<1>4. CASE ReconcileDone
  BY <1>4 DEF ReconcileDone, Present, SubmittedMedia
<1>5. CASE QuarantineCorruptMedia
  BY <1>5 DEF QuarantineCorruptMedia, MoveMedia, Return
<1>6. CASE ClaimMedia
  BY <1>6 DEF ClaimMedia, Step
<1>7. CASE ClaimRollback
  BY <1>7 DEF ClaimRollback, MoveMedia, Return
<1>8. CASE OrphanMedia
  BY <1>8 DEF OrphanMedia, MoveMedia, Return, ClipInHand
<1>9. CASE UploadLands
  BY <1>9 DEF UploadLands, Step
<1>10. CASE RequeueMedia
  BY <1>10 DEF RequeueMedia, Step, MoveMedia
<1>11. CASE FinishWrite
  BY <1>11 DEF FinishWrite, Step
<1>12. CASE FinishUnlink
  BY <1>12 DEF FinishUnlink, Step, MoveMedia, ClipInHand
<1>13. CASE BootIoError
  BY <1>13 DEF BootIoError, Fault, StopProcess
<1>14. CASE CaptureClip
  BY <1>14 DEF CaptureClip
<1>15. CASE CensusCorrupt
  BY <1>15 DEF CensusCorrupt, Refuse, MoveMedia, UnbornClips, Unborn
<1>16. CASE PolicyRefuse
  BY <1>16 DEF PolicyRefuse, Refuse, MoveMedia, UnbornClips, Unborn
<1>17. CASE EvictMedia
  BY <1>17 DEF EvictMedia, InboxStep, IsVictim
<1>18. CASE EvictSide
  BY <1>18 DEF EvictSide, InboxStep, IsVictim
<1>19. CASE PlaceMedia
  BY <1>19 DEF PlaceMedia, InboxStep, MoveMedia
<1>20. CASE WriteSidecar
  BY <1>20 DEF WriteSidecar, SubmittedMedia
<1>21. CASE UnplaceMedia
  BY <1>21 DEF UnplaceMedia, MoveMedia, Fault, UnbornClips, Unborn
<1>22. CASE InboxIoError
  BY <1>22 DEF InboxIoError, Fault, Refuse, MoveMedia, UnbornClips, Unborn
<1>23. CASE Shutdown
  BY <1>23 DEF Shutdown, StopProcess
<1>24. CASE Crash
  BY <1>24 DEF Crash, StopProcess
<1>25. CASE \/ Start \/ CollectSidecars \/ ReconcileTerminal \/ ReconcileRequeue \/ PickOldest
            \/ PickPastFailure \/ IdleTick \/ QuarantineCorruptSide
            \/ ClaimMissingMedia \/ ClaimWrite \/ ClaimWriteFails
            \/ ClaimUnlink \/ OrphanSide \/ PreflightReject
            \/ PreflightPass \/ UploadOk \/ UploadRetry \/ UploadExhausted
            \/ UploadTerminal \/ RequeueWrite \/ RequeueUnlink
            \/ FinishMove \/ RunnerIoError \/ CensusInflight
            \/ CensusDelivered \/ CensusPending \/ PolicyAdmit
            \/ WriteSidecarFails \/ UNCHANGED vars
            \/ (\E c \in Clips :
                   \/ PruneDelivered(c) \/ QuarantineDelivered(c)
                   \/ BackoffElapses(c) \/ Rot(c))
  <2>1. UNCHANGED <<media, admitted, accepted, recorded, evicted, torn>>
    BY <1>25
      DEF CollectSidecars, BackoffElapses, CensusDelivered, CensusInflight, CensusPending,
          CensusRead, ClaimMissingMedia, ClaimUnlink, ClaimWrite,
          ClaimWriteFails, Claimed, Fallible, Fault, FinishMove, IdleTick,
          InboxStep, NoCensus, Oldest, OrphanSide, Pick, PickOldest,
          PickPastFailure, Pickable, PolicyAdmit, PreflightPass,
          PreflightReject, Present, PruneDelivered, QuarantineCorruptSide,
          QuarantineDelivered, ReconcileRequeue, ReconcileTerminal,
          RequeueUnlink, RequeueWrite, Return, Rot, RunnerIoError, Start, Step,
          UploadExhausted, UploadOk, UploadRetry, UploadTerminal,
          WriteSidecarFails, vars
  <2>2. QED
    BY <2>1
<1>26. QED
  BY <1>1, <1>2, <1>3, <1>4, <1>5, <1>6, <1>7, <1>8, <1>9, <1>10, <1>11, <1>12,
      <1>13, <1>14, <1>15, <1>16, <1>17, <1>18, <1>19, <1>20, <1>21, <1>22,
      <1>23, <1>24, <1>25 DEF Next, BootNext, RunnerNext, InboxNext, FaultNext,
      PollerNext, EnvNext

-----------------------------------------------------------------------------
\* The inductive invariant holds in the empty queue and through every step.
LEMMA InitInv == Init => IInv
<1> SUFFICES ASSUME Init PROVE IInv
  OBVIOUS
<1>1. TypeOK /\ Control
  BY InitTypes
<1>2. UnbornClips /\ SubmittedMedia /\ SweepsTakeTorn /\ Repaired
  BY DEF Init, UnbornClips, SubmittedMedia, SweepsTakeTorn, Repaired, Apart, ClaimPCs,
         RequeuePCs, FinishPCs, OrphanPCs, OpenPCs, Uploading
<1>3. EntryInMemory /\ ClipInHand /\ RecordedClips
  BY DEF Init, Absent, EntryInMemory, ClipInHand, RecordedClips, ClaimPCs,
         RequeuePCs, FinishPCs, OrphanPCs, OpenPCs, Uploading
<1>4. AttemptCounts
  BY QueueConstants DEF Init, Absent, AttemptCounts, RequeuePCs
<1>5. DeliveredMeansAccepted /\ LossOnlyIfTorn
  BY DEF Init, Absent, DeliveredMeansAccepted, LossOnlyIfTorn
<1>6. QED
  BY <1>1, <1>2, <1>3, <1>4, <1>5 DEF IInv

\* Each step preserves the whole invariant, part by part.
LEMMA NextInv == IInv /\ [Next]_vars => IInv'
BY TypeStep, ControlStep, UnbornClipsStep, SubmittedMediaStep, EntryInMemoryStep,
   ClipInHandStep, RecordedClipsStep, SweepsTakeTornStep, RepairedStep,
   AttemptCountsStep, DeliveredMeansAcceptedStep, LossOnlyIfTornStep DEF IInv

\* The invariant holds of every reachable state of the queue.
THEOREM QueueInvariant == Spec => []IInv
BY InitInv, NextInv, PTL DEF Spec

\* While try_once checks and uploads a clip nothing takes its media away.
THEOREM UploadOwnership == Spec => []UploadOwnsMedia
<1>1. IInv => UploadOwnsMedia
  BY DEF IInv, UploadOwnsMedia, ClipInHand, EntryInMemory, OpenPCs, Uploading
<1>2. QED
  BY <1>1, QueueInvariant, PTL

\* A clip whose terminal sidecar was written is never requeued or sent again.
THEOREM TerminalIsFinal == Spec => []RecordedIsFinal
<1>1. IInv => RecordedIsFinal
  BY DEF IInv, TypeOK, RecordedIsFinal, RecordedClips, EntryInMemory, OpenPCs
<1>2. QED
  BY <1>1, QueueInvariant, PTL

\* A clip is marked Delivered only if perchpub stored its bytes.
THEOREM DeliveredIsTrue == Spec => []DeliveredMeansAccepted
<1>1. IInv => DeliveredMeansAccepted
  BY DEF IInv
<1>2. QED
  BY <1>1, QueueInvariant, PTL

\* delivered/ holds no media, so the census may count its bytes as zero.
THEOREM DeliveredIsEmpty == Spec => []DeliveredHoldsNoMedia
<1>1. IInv => DeliveredHoldsNoMedia
  BY DEF IInv, DeliveredHoldsNoMedia, RecordedClips
<1>2. QED
  BY <1>1, QueueInvariant, PTL

\* schedule()'s ceiling bounds the attempts of a clip by one more per restart.
THEOREM AttemptsBounded == Spec => []AttemptCeiling
<1>1. IInv => AttemptCeiling
  <2> SUFFICES ASSUME IInv, NEW c \in Clips
               PROVE  /\ pending[c].attempts <= MaxAttempts + restarts
                      /\ inflight[c].attempts <= MaxAttempts + restarts
                      /\ delivered[c].attempts <= MaxAttempts + restarts
    BY DEF AttemptCeiling
  <2>1. pending[c].attempts \in Nat /\ restarts \in Nat /\ MaxAttempts \in Nat
    BY SidecarUpdates, QueueConstants DEF IInv, TypeOK
  <2>2. QED
    BY <2>1 DEF IInv, AttemptCounts
<1>2. QED
  BY <1>1, QueueInvariant, PTL

\* Footage is lost only by a stop between the system calls of one transition.
THEOREM LossNeedsTornClip == Spec => []LossOnlyIfTorn
<1>1. IInv => LossOnlyIfTorn
  BY DEF IInv
<1>2. QED
  BY <1>1, QueueInvariant, PTL

\* The tasks are started by ReconcileDone alone.
LEMMA UpStep ==
    ASSUME TypeOK, Control, [Next]_vars, phase = "boot", phase' = "up"
    PROVE  ReconcileDone
<1>1. CASE BootNext
  BY <1>1
    DEF BootNext, Start, SweepPending, SweepInflight, SweepOrphanMedia,
        CollectSidecars, ReconcileTerminal, ReconcileRequeue, ReconcileAbort,
        StopProcess
<1>2. CASE RunnerNext \/ InboxNext \/ PollerNext \/ UNCHANGED vars
  <2>1. phase' = phase
    BY <1>2
      DEF RunnerNext, InboxNext, PollerNext, PickOldest, IdleTick,
          QuarantineCorruptSide, QuarantineCorruptMedia, ClaimMedia,
          ClaimMissingMedia, ClaimWrite, ClaimRollback, ClaimUnlink, OrphanSide,
          OrphanMedia, PreflightReject, PreflightPass, UploadLands, UploadOk,
          UploadRetry, UploadExhausted, UploadTerminal, RequeueMedia, RequeueWrite,
          RequeueUnlink, FinishWrite, FinishUnlink, FinishMove, Step,
          CensusInflight, CensusDelivered, CensusPending, CensusRead, CensusCorrupt,
          PolicyAdmit, PolicyRefuse, EvictMedia, EvictSide, PlaceMedia,
          WriteSidecar, UnplaceMedia, InboxStep, Refuse, PruneDelivered,
          QuarantineDelivered, vars
  <2>2. QED
    BY <2>1
<1>3. CASE FaultNext \/ EnvNext
  BY <1>3
    DEF FaultNext, EnvNext, PickPastFailure, ClaimWriteFails, RunnerIoError,
        BootIoError, WriteSidecarFails, InboxIoError, Refuse, CaptureClip, Shutdown,
        Crash, StopProcess, BackoffElapses, Rot
<1>4. QED
  BY <1>1, <1>2, <1>3 DEF Next

\* The boot hands the tasks a repaired queue: nothing in inflight/, nothing in
\* capture-staging/, and no media in pending/ without its sidecar, although the
\* entries were listed once and the boot may have been cut short before.
THEOREM BootRepairsQueue == Spec => CleanStart
<1> DEFINE Clean == phase = "boot" /\ phase' = "up" =>
                      /\ Present(inflight)' = {} /\ Apart' = {}
                      /\ \A c \in Clips : media'[c] \in {"none", "pending", "corrupt"}
<1>1. IInv /\ [Next]_vars => Clean
  <2> SUFFICES ASSUME IInv, [Next]_vars, phase = "boot", phase' = "up" PROVE Clean
    OBVIOUS
  <2>1. ReconcileDone
    BY UpStep DEF IInv
  <2>2. /\ \A c \in Clips : inflight[c].st = "absent"
        /\ \A c \in Clips : media[c] = "pending" => pending[c].st # "absent"
        /\ \A c \in Clips : media[c] # "inflight"
    BY <2>1 DEF ReconcileDone, IInv, Repaired
  <2>3. /\ inflight' = inflight /\ pending' = pending
        /\ media' = [c \in Clips |-> IF media[c] = "staging" THEN "none" ELSE media[c]]
    BY <2>1 DEF ReconcileDone
  <2>4. \A c \in Clips : media[c] \in MediaPlaces
    BY DEF IInv, TypeOK
  <2>5. \A c \in Clips : media'[c] \in {"none", "pending", "corrupt"}
    BY <2>2, <2>3, <2>4 DEF MediaPlaces
  <2>6. Present(inflight)' = {}
    BY <2>2, <2>3 DEF Present
  <2>7. Apart' = {}
    BY <2>2, <2>3, <2>5 DEF Apart
  <2>8. QED
    BY <2>5, <2>6, <2>7
<1>2. Spec => [][Clean]_vars
  BY <1>1, QueueInvariant, PTL DEF Spec
<1>3. QED
  BY <1>2 DEF CleanStart
=============================================================================
