------------------------ MODULE StationStatusProofs ------------------------
(***************************************************************************)
(* What `perchstation status` reports, for every value of the constants:   *)
(* any number of clips, stops and failing calls of the station it looks    *)
(* at, and any number of status commands.                                  *)
(*                                                                         *)
(* The counts need what the reader knows between its two reads (Reader),   *)
(* and that inflight/ holds one clip beyond those that failed calls left   *)
(* there (FewInflight). The picks need that delivered_at orders the        *)
(* records (TimeOrder), every decided clip included (DecidedAreRanked),    *)
(* and that a record is made once, so that its outcome stays (SettledOnce).*)
(***************************************************************************)
EXTENDS StationStatus, ClipQueueDeliveryProofs

\* While the runner holds a clip, its sidecar is in inflight/.
HeldPCs == {"claimUnlink"} \cup Uploading \cup RequeuePCs \cup FinishPCs
Held == IF pc \in HeldPCs THEN {cur} ELSE {}

\* inflight/ holds the clip in hand and what failed calls left behind.
FewInflight ==
    /\ Cardinality(Present(inflight)) <= 1 + faults
    /\ phase = "up" => Cardinality(Present(inflight) \ Held) <= faults

\* How inflight/ changes in a step.
InflightMoves ==
    \/ Present(inflight)' = {}
    \/ /\ phase = "up" /\ phase' = "up"
       /\ Present(inflight)' \ Held' \subseteq Present(inflight) \ Held
    \/ /\ Present(inflight)' \subseteq Present(inflight)
       /\ phase' # "up" \/ (phase = "up" /\ faults' = faults + 1)

\* A clip whose outcome is decided, on disk or in the runner's hands.
Decided(c) == c \in recorded \/ (pc \in FinishPCs /\ c = cur)

\* Only the stamp decides on an outcome.
OnlyStampsDecide ==
    \A c \in Clips : /\ Decided(c)' => Decided(c) \/ (Stamps /\ c = cur)
                     /\ c \in recorded => c \in recorded'

\* A record in delivered/ has an outcome.
RecordsDecided == \A c \in Clips : delivered[c].st # "absent" => delivered[c].outcome # "none"

\* A clip enters delivered/ once: when it does, it is nowhere else in the queue.
SettledOnce ==
    /\ \A c \in Clips : delivered[c].st # "absent" => inflight[c].st = "absent"
    /\ pc \in FinishPCs => delivered[cur].st = "absent"

\* A record keeps its outcome as long as it is there.
OutcomesStay ==
    \A c \in Clips : delivered[c].st # "absent" /\ delivered'[c].st # "absent" =>
        delivered'[c].outcome = delivered[c].outcome

\* delivered_at orders clips strictly ...
TimeOrder ==
    /\ later \subseteq Clips \X Clips
    /\ \A c \in Clips : ~Later(c, c)
    /\ \A c, d, e \in Clips : Later(c, d) /\ Later(d, e) => Later(c, e)

\* ... and a clip that has one is before or after every other.
Ranked(c) == \A d \in Clips : d # c => Later(c, d) \/ Later(d, c)
DecidedAreRanked == \A c \in Clips : Decided(c) => Ranked(c)

\* The record of c was read for what it is.
Filed(c) == c \in (IF delivered[c].outcome = "Delivered" THEN seenOk ELSE seenBad)

\* What the reader knows between two reads.
Reader ==
    /\ depth \in [pending: SUBSET Clips, inflight: SUBSET Clips]
    /\ stay \subseteq InQueue /\ kept \subseteq Present(delivered)
    /\ seenOk \cup seenBad \subseteq recorded
    /\ spc = "countSecond" => Present(pending) \subseteq depth.pending \cup back
    /\ spc = "readDelivered" => todo \subseteq Clips
    /\ spc = "done" => todo = {}
    /\ spc \in {"readDelivered", "done"} => \A c \in kept \ todo : Filed(c)

StatusInv ==
    /\ FewInflight /\ RecordsDecided /\ SettledOnce /\ TimeOrder /\ DecidedAreRanked
    /\ Reader /\ DepthCounts

-----------------------------------------------------------------------------
USE DEF disk, runner, inbox, budget, history

\* The runner adds a clip to inflight/ when it claims one, and leaves none behind but
\* with a failed call.
LEMMA InflightStep == IInv /\ Queued /\ [Next]_vars => InflightMoves
<1> SUFFICES ASSUME IInv, Queued, [Next]_vars PROVE InflightMoves
  OBVIOUS
<1> USE DEF InflightMoves, Held, HeldPCs, Present, TypeOK, Control, Absent, Queued,
    ClaimPCs, RequeuePCs, FinishPCs, OrphanPCs, OpenPCs, Uploading
<1> USE DEF IInv
<1>1. CASE Start
  BY <1>1
    DEF Start
<1>2. CASE SweepPending
  BY <1>2
    DEF SweepPending, SweepOrphanMedia
<1>3. CASE SweepInflight
  BY <1>3
    DEF SweepInflight, SweepOrphanMedia
<1>3a. CASE CollectSidecars
  BY <1>3a
    DEF CollectSidecars
<1>4. CASE ReconcileTerminal
  BY <1>4
    DEF ReconcileTerminal, Oldest
<1>5. CASE ReconcileRequeue
  BY <1>5
    DEF ReconcileRequeue, Oldest
<1>6. CASE ReconcileAbort
  BY <1>6
    DEF ReconcileAbort, StopProcess
<1>7. CASE ReconcileDone
  BY <1>7
    DEF ReconcileDone, Repaired
<1>8. CASE PickOldest
  BY <1>8
    DEF PickOldest, Oldest, Pickable, Claimed, Pick
<1>9. CASE PickPastFailure
  BY <1>9
    DEF PickPastFailure, Fault, Oldest, Pickable, Claimed, Pick
<1>10. CASE QuarantineCorruptSide
  BY <1>10
    DEF QuarantineCorruptSide, Oldest, Pickable
<1>11. CASE QuarantineCorruptMedia
  BY <1>11
    DEF QuarantineCorruptMedia, MoveMedia, Return
<1>12. CASE ClaimMedia
  BY <1>12
    DEF ClaimMedia, Step
<1>13. CASE ClaimMissingMedia
  BY <1>13
    DEF ClaimMissingMedia, Step
<1>14. CASE ClaimWrite
  BY <1>14
    DEF ClaimWrite, Step, BootPCs
<1>15. CASE ClaimWriteFails
  BY <1>15
    DEF ClaimWriteFails, Fault
<1>16. CASE ClaimRollback
  BY <1>16
    DEF ClaimRollback, MoveMedia, Return
<1>17. CASE ClaimUnlink
  BY <1>17
    DEF ClaimUnlink, Step
<1>18. CASE OrphanSide
  BY <1>18
    DEF OrphanSide, Step
<1>19. CASE OrphanMedia
  BY <1>19
    DEF OrphanMedia, MoveMedia, Return
<1>20. CASE PreflightReject
  BY <1>20
    DEF PreflightReject, Fault
<1>21. CASE PreflightPass
  BY <1>21
    DEF PreflightPass, Step
<1>22. CASE UploadLands
  BY <1>22
    DEF UploadLands, Step
<1>23. CASE UploadOk
  BY <1>23
    DEF UploadOk
<1>24. CASE UploadRetry
  BY <1>24
    DEF UploadRetry
<1>25. CASE UploadExhausted
  BY <1>25
    DEF UploadExhausted
<1>26. CASE UploadTerminal
  BY <1>26
    DEF UploadTerminal
<1>27. CASE RequeueMedia
  BY <1>27
    DEF RequeueMedia, Step, MoveMedia
<1>28. CASE RequeueWrite
  BY <1>28
    DEF RequeueWrite, Step
<1>29. CASE RequeueUnlink
  BY <1>29
    DEF RequeueUnlink, Return
<1>30. CASE FinishWrite
  BY <1>30
    DEF FinishWrite, Step
<1>31. CASE FinishUnlink
  BY <1>31
    DEF FinishUnlink, Step, MoveMedia
<1>32. CASE FinishMove
  BY <1>32
    DEF FinishMove, Return
<1>33. CASE RunnerIoError
  BY <1>33
    DEF RunnerIoError, Fault, Return, Fallible
<1>34. CASE BootIoError
  BY <1>34
    DEF BootIoError, Fault, StopProcess
<1>35. CASE Shutdown
  BY <1>35
    DEF Shutdown, StopProcess
<1>36. CASE Crash
  BY <1>36
    DEF Crash, StopProcess
<1>37. ASSUME NEW c \in Clips, Rot(c) PROVE InflightMoves
  BY <1>37
    DEF Rot
<1>38. CASE IdleTick \/ CaptureClip \/ CensusInflight \/ CensusDelivered \/ CensusPending \/
            CensusCorrupt \/ PolicyAdmit \/ PolicyRefuse \/ EvictMedia \/
            EvictSide \/ PlaceMedia \/ WriteSidecar \/ WriteSidecarFails \/
            UnplaceMedia \/ InboxIoError \/ UNCHANGED vars \/ (\E c \in Clips :
            PruneDelivered(c) \/ QuarantineDelivered(c) \/ BackoffElapses(c))
  <2>1. UNCHANGED <<inflight, pc, cur, phase>>
    BY <1>38
      DEF BackoffElapses, CaptureClip, CensusCorrupt, CensusDelivered,
          CensusInflight, CensusPending, CensusRead, EvictMedia, EvictSide,
          Fault, IdleTick, InboxIoError, InboxStep, IsVictim, MoveMedia,
          NoCensus, PlaceMedia, PolicyAdmit, PolicyRefuse, PruneDelivered,
          QuarantineDelivered, Refuse, UnplaceMedia, WriteSidecar,
          WriteSidecarFails, vars
  <2>2. QED
    BY <2>1
<1>39. QED
  BY <1>1, <1>2, <1>3, <1>3a, <1>4, <1>5, <1>6, <1>7, <1>8, <1>9, <1>10, <1>11, <1>12, <1>13,
      <1>14, <1>15, <1>16, <1>17, <1>18, <1>19, <1>20, <1>21, <1>22, <1>23, <1>24, <1>25,
      <1>26, <1>27, <1>28, <1>29, <1>30, <1>31, <1>32, <1>33, <1>34, <1>35, <1>36, <1>37,
      <1>38
    DEF Next, BootNext, RunnerNext, InboxNext, FaultNext, PollerNext, EnvNext


\* The boot takes up terminal entries; every other outcome is stamped by the runner.
LEMMA DecidedStep == IInv /\ [Next]_vars => OnlyStampsDecide
<1> SUFFICES ASSUME IInv, [Next]_vars PROVE OnlyStampsDecide
  OBVIOUS
<1> USE DEF OnlyStampsDecide, Decided, Stamps, TypeOK, Control, ClaimPCs, RequeuePCs,
    FinishPCs, OrphanPCs, OpenPCs, Uploading
<1> USE DEF IInv
<1>1. CASE Start
  BY <1>1
    DEF Start
<1>2. CASE SweepPending
  BY <1>2
    DEF SweepPending, SweepOrphanMedia
<1>3. CASE SweepInflight
  BY <1>3
    DEF SweepInflight, SweepOrphanMedia
<1>3a. CASE CollectSidecars
  BY <1>3a
    DEF CollectSidecars
<1>4. CASE ReconcileTerminal
  BY <1>4
    DEF ReconcileTerminal, Oldest, Present, RecordedClips
<1>5. CASE ReconcileRequeue
  BY <1>5
    DEF ReconcileRequeue, Oldest, Present
<1>6. CASE ReconcileAbort
  BY <1>6
    DEF ReconcileAbort, StopProcess
<1>7. CASE ReconcileDone
  BY <1>7
    DEF ReconcileDone, Present
<1>8. CASE PickOldest
  BY <1>8
    DEF PickOldest, Oldest, Pickable, Claimed, Pick
<1>9. CASE PickPastFailure
  BY <1>9
    DEF PickPastFailure, Fault, Oldest, Pickable, Claimed, Pick
<1>10. CASE QuarantineCorruptSide
  BY <1>10
    DEF QuarantineCorruptSide, Oldest, Pickable
<1>11. CASE QuarantineCorruptMedia
  BY <1>11
    DEF QuarantineCorruptMedia, MoveMedia, Return
<1>12. CASE ClaimMedia
  BY <1>12
    DEF ClaimMedia, Step
<1>13. CASE ClaimMissingMedia
  BY <1>13
    DEF ClaimMissingMedia, Step
<1>14. CASE ClaimWrite
  BY <1>14
    DEF ClaimWrite, Step
<1>15. CASE ClaimWriteFails
  BY <1>15
    DEF ClaimWriteFails, Fault
<1>16. CASE ClaimRollback
  BY <1>16
    DEF ClaimRollback, MoveMedia, Return
<1>17. CASE ClaimUnlink
  BY <1>17
    DEF ClaimUnlink, Step
<1>18. CASE OrphanSide
  BY <1>18
    DEF OrphanSide, Step
<1>19. CASE OrphanMedia
  BY <1>19
    DEF OrphanMedia, MoveMedia, Return
<1>20. CASE PreflightReject
  BY <1>20
    DEF PreflightReject, Fault
<1>21. CASE PreflightPass
  BY <1>21
    DEF PreflightPass, Step
<1>22. CASE UploadLands
  BY <1>22
    DEF UploadLands, Step
<1>23. CASE UploadOk
  BY <1>23
    DEF UploadOk
<1>24. CASE UploadRetry
  BY <1>24
    DEF UploadRetry
<1>25. CASE UploadExhausted
  BY <1>25
    DEF UploadExhausted
<1>26. CASE UploadTerminal
  BY <1>26
    DEF UploadTerminal
<1>27. CASE RequeueMedia
  BY <1>27
    DEF RequeueMedia, Step, MoveMedia
<1>28. CASE RequeueWrite
  BY <1>28
    DEF RequeueWrite, Step
<1>29. CASE RequeueUnlink
  BY <1>29
    DEF RequeueUnlink, Return
<1>30. CASE FinishWrite
  BY <1>30
    DEF FinishWrite, Step
<1>31. CASE FinishUnlink
  BY <1>31
    DEF FinishUnlink, Step, MoveMedia
<1>32. CASE FinishMove
  BY <1>32
    DEF FinishMove, Return
<1>33. CASE RunnerIoError
  BY <1>33
    DEF RunnerIoError, Fault, Return, Fallible
<1>34. CASE BootIoError
  BY <1>34
    DEF BootIoError, Fault, StopProcess
<1>35. CASE Shutdown
  BY <1>35
    DEF Shutdown, StopProcess
<1>36. CASE Crash
  BY <1>36
    DEF Crash, StopProcess
<1>37. CASE IdleTick \/ CaptureClip \/ CensusInflight \/ CensusDelivered \/ CensusPending \/
            CensusCorrupt \/ PolicyAdmit \/ PolicyRefuse \/ EvictMedia \/
            EvictSide \/ PlaceMedia \/ WriteSidecar \/ WriteSidecarFails \/
            UnplaceMedia \/ InboxIoError \/ UNCHANGED vars \/ (\E c \in Clips :
            PruneDelivered(c) \/ QuarantineDelivered(c) \/ BackoffElapses(c) \/
            Rot(c))
  <2>1. UNCHANGED <<recorded, pc, cur>>
    BY <1>37
      DEF BackoffElapses, CaptureClip, CensusCorrupt, CensusDelivered,
          CensusInflight, CensusPending, CensusRead, EvictMedia, EvictSide,
          Fault, IdleTick, InboxIoError, InboxStep, IsVictim, MoveMedia,
          NoCensus, PlaceMedia, PolicyAdmit, PolicyRefuse, Present,
          PruneDelivered, QuarantineDelivered, Refuse, Rot, UnplaceMedia,
          WriteSidecar, WriteSidecarFails, vars
  <2>2. QED
    BY <2>1
<1>38. QED
  BY <1>1, <1>2, <1>3, <1>3a, <1>4, <1>5, <1>6, <1>7, <1>8, <1>9, <1>10, <1>11, <1>12, <1>13,
      <1>14, <1>15, <1>16, <1>17, <1>18, <1>19, <1>20, <1>21, <1>22, <1>23, <1>24, <1>25,
      <1>26, <1>27, <1>28, <1>29, <1>30, <1>31, <1>32, <1>33, <1>34, <1>35, <1>36, <1>37
    DEF Next, BootNext, RunnerNext, InboxNext, FaultNext, PollerNext, EnvNext


\* transition_delivered removes the inflight sidecar in the rename that makes the record.
LEMMA SettledOnceStep == IInv /\ Queued /\ SettledOnce /\ [Next]_vars => SettledOnce'
<1> SUFFICES ASSUME IInv, Queued, SettledOnce, [Next]_vars PROVE SettledOnce'
  OBVIOUS
<1> USE DEF SettledOnce, RecordedClips, EntryInMemory, Queued, TypeOK, Control, Absent,
    ClaimPCs, RequeuePCs, FinishPCs, OrphanPCs, OpenPCs, Uploading, BootPCs
<1> USE DEF IInv
<1>1. CASE Start
  BY <1>1
    DEF Start
<1>2. CASE SweepPending
  BY <1>2
    DEF SweepPending, SweepOrphanMedia
<1>3. CASE SweepInflight
  BY <1>3
    DEF SweepInflight, SweepOrphanMedia
<1>3a. CASE CollectSidecars
  BY <1>3a
    DEF CollectSidecars
<1>4. CASE ReconcileTerminal
  BY <1>4
    DEF ReconcileTerminal, Oldest, Present, RecordedClips
<1>5. CASE ReconcileRequeue
  BY <1>5
    DEF ReconcileRequeue, Oldest, Present
<1>6. CASE ReconcileAbort
  BY <1>6
    DEF ReconcileAbort, StopProcess
<1>7. CASE ReconcileDone
  BY <1>7
    DEF ReconcileDone, Present
<1>8. CASE PickOldest
  BY <1>8
    DEF PickOldest, Oldest, Pickable, Claimed, Pick
<1>9. CASE PickPastFailure
  BY <1>9
    DEF PickPastFailure, Fault, Oldest, Pickable, Claimed, Pick
<1>10. CASE QuarantineCorruptSide
  BY <1>10
    DEF QuarantineCorruptSide, Oldest, Pickable
<1>11. CASE QuarantineCorruptMedia
  BY <1>11
    DEF QuarantineCorruptMedia, MoveMedia, Return
<1>12. CASE ClaimMedia
  BY <1>12
    DEF ClaimMedia, Step
<1>13. CASE ClaimMissingMedia
  BY <1>13
    DEF ClaimMissingMedia, Step
<1>14. CASE ClaimWrite
  BY <1>14
    DEF ClaimWrite, Step
<1>15. CASE ClaimWriteFails
  BY <1>15
    DEF ClaimWriteFails, Fault
<1>16. CASE ClaimRollback
  BY <1>16
    DEF ClaimRollback, MoveMedia, Return
<1>17. CASE ClaimUnlink
  BY <1>17
    DEF ClaimUnlink, Step
<1>18. CASE OrphanSide
  BY <1>18
    DEF OrphanSide, Step
<1>19. CASE OrphanMedia
  BY <1>19
    DEF OrphanMedia, MoveMedia, Return
<1>20. CASE PreflightReject
  BY <1>20
    DEF PreflightReject, Fault
<1>21. CASE PreflightPass
  BY <1>21
    DEF PreflightPass, Step
<1>22. CASE UploadLands
  BY <1>22
    DEF UploadLands, Step
<1>23. CASE UploadOk
  BY <1>23
    DEF UploadOk
<1>24. CASE UploadRetry
  BY <1>24
    DEF UploadRetry
<1>25. CASE UploadExhausted
  BY <1>25
    DEF UploadExhausted
<1>26. CASE UploadTerminal
  BY <1>26
    DEF UploadTerminal
<1>27. CASE RequeueMedia
  BY <1>27
    DEF RequeueMedia, Step, MoveMedia
<1>28. CASE RequeueWrite
  BY <1>28
    DEF RequeueWrite, Step
<1>29. CASE RequeueUnlink
  BY <1>29
    DEF RequeueUnlink, Return
<1>30. CASE FinishWrite
  BY <1>30
    DEF FinishWrite, Step
<1>31. CASE FinishUnlink
  BY <1>31
    DEF FinishUnlink, Step, MoveMedia
<1>32. CASE FinishMove
  BY <1>32
    DEF FinishMove, Return
<1>33. CASE RunnerIoError
  BY <1>33
    DEF RunnerIoError, Fault, Return, Fallible
<1>34. CASE BootIoError
  BY <1>34
    DEF BootIoError, Fault, StopProcess
<1>35. CASE Shutdown
  BY <1>35
    DEF Shutdown, StopProcess
<1>36. CASE Crash
  BY <1>36
    DEF Crash, StopProcess
<1>37. CASE IdleTick \/ CaptureClip \/ CensusInflight \/ CensusDelivered \/ CensusPending \/
            CensusCorrupt \/ PolicyAdmit \/ PolicyRefuse \/ EvictMedia \/
            PlaceMedia \/ WriteSidecar \/ WriteSidecarFails \/
            UnplaceMedia \/ InboxIoError \/ UNCHANGED vars \/
            (\E c \in Clips : BackoffElapses(c))
  <2>1. UNCHANGED <<inflight, delivered, pc, cur>>
    BY <1>37
      DEF BackoffElapses, CaptureClip, CensusCorrupt, CensusDelivered,
          CensusInflight, CensusPending, CensusRead, EvictMedia, EvictSide,
          Fault, IdleTick, InboxIoError, InboxStep, IsVictim, MoveMedia,
          NoCensus, PlaceMedia, PolicyAdmit, PolicyRefuse, Present,
          Refuse, UnplaceMedia,
          WriteSidecar, WriteSidecarFails, vars
  <2>2. QED
    BY <2>1
<1>38. CASE EvictSide
  BY <1>38
    DEF EvictSide, InboxStep, IsVictim
<1>39. ASSUME NEW c \in Clips, PruneDelivered(c) \/ QuarantineDelivered(c)
       PROVE  SettledOnce'
  BY <1>39
    DEF PruneDelivered, QuarantineDelivered
<1>40. ASSUME NEW c \in Clips, Rot(c) PROVE SettledOnce'
  BY <1>40
    DEF Rot
<1>41. QED
  BY <1>1, <1>2, <1>3, <1>3a, <1>4, <1>5, <1>6, <1>7, <1>8, <1>9, <1>10, <1>11, <1>12, <1>13,
      <1>14, <1>15, <1>16, <1>17, <1>18, <1>19, <1>20, <1>21, <1>22, <1>23, <1>24, <1>25,
      <1>26, <1>27, <1>28, <1>29, <1>30, <1>31, <1>32, <1>33, <1>34, <1>35, <1>36, <1>37, <1>38,
      <1>39, <1>40
    DEF Next, BootNext, RunnerNext, InboxNext, FaultNext, PollerNext, EnvNext


\* transition_delivered moves a terminal sidecar into delivered/.
LEMMA RecordsStep ==
    IInv /\ RecordsDecided /\ SettledOnce /\ [Next]_vars => RecordsDecided' /\ OutcomesStay
<1> SUFFICES ASSUME IInv, RecordsDecided, SettledOnce, [Next]_vars
             PROVE  RecordsDecided' /\ OutcomesStay
  OBVIOUS
<1> USE DEF RecordsDecided, OutcomesStay, TypeOK, Control, Absent, ClaimPCs, RequeuePCs, FinishPCs,
    OrphanPCs, OpenPCs, Uploading
<1> USE DEF IInv
<1>1. CASE FinishMove
  BY <1>1
    DEF FinishMove, Return, ClipInHand, EntryInMemory, SettledOnce
<1>2. CASE EvictSide
  BY <1>2
    DEF EvictSide, InboxStep, IsVictim
<1>3. ASSUME NEW c \in Clips, PruneDelivered(c) PROVE RecordsDecided' /\ OutcomesStay
  BY <1>3
    DEF PruneDelivered
<1>4. ASSUME NEW c \in Clips, QuarantineDelivered(c) PROVE RecordsDecided' /\ OutcomesStay
  BY <1>4
    DEF QuarantineDelivered
<1>5. ASSUME NEW c \in Clips, Rot(c) PROVE RecordsDecided' /\ OutcomesStay
  <2>1. CASE UNCHANGED delivered
    BY <2>1
  <2>2. CASE delivered[c].st = "ok"
             /\ delivered' = [delivered EXCEPT ![c] = [@ EXCEPT !.st = "corrupt"]]
    <3>1. delivered'[c].outcome = delivered[c].outcome
      BY <2>2, SidecarUpdates
    <3>2. \A d \in Clips : d # c => delivered'[d] = delivered[d]
      BY <2>2
    <3>3. QED
      BY <2>2, <3>1, <3>2
  <2>3. QED
    BY <1>5, <2>1, <2>2 DEF Rot
<1>6. CASE Start \/ SweepPending \/ SweepInflight \/ CollectSidecars \/
            ReconcileTerminal \/ ReconcileRequeue \/ ReconcileAbort \/ ReconcileDone
            \/ PickOldest \/ PickPastFailure
            \/ IdleTick \/ QuarantineCorruptSide \/ QuarantineCorruptMedia \/
            ClaimMedia \/ ClaimMissingMedia \/ ClaimWrite \/ ClaimWriteFails \/
            ClaimRollback \/ ClaimUnlink \/ OrphanSide \/ OrphanMedia \/
            PreflightReject \/ PreflightPass \/ UploadLands \/ UploadOk \/
            UploadRetry \/ UploadExhausted \/ UploadTerminal \/ RequeueMedia \/
            RequeueWrite \/ RequeueUnlink \/ FinishWrite \/ FinishUnlink \/
            RunnerIoError \/ BootIoError \/ CaptureClip \/ CensusInflight \/
            CensusDelivered \/ CensusPending \/ CensusCorrupt \/ PolicyAdmit \/
            PolicyRefuse \/ EvictMedia \/ PlaceMedia \/ WriteSidecar \/
            WriteSidecarFails \/ UnplaceMedia \/ InboxIoError \/ Shutdown \/
            Crash \/ UNCHANGED vars \/ (\E c \in Clips : BackoffElapses(c))
  <2>1. UNCHANGED <<delivered>>
    BY <1>6
      DEF CollectSidecars, BackoffElapses, BootIoError, CaptureClip, CensusCorrupt,
          CensusDelivered, CensusInflight, CensusPending, CensusRead,
          ClaimMedia, ClaimMissingMedia, ClaimRollback, ClaimUnlink,
          ClaimWrite, ClaimWriteFails, Claimed, Crash, EvictMedia, Fallible,
          Fault, FinishUnlink, FinishWrite, IdleTick, InboxIoError, InboxStep,
          IsVictim, MoveMedia, NoCensus, Oldest, OrphanMedia, OrphanSide, Pick,
          PickOldest, PickPastFailure, Pickable, PlaceMedia, PolicyAdmit,
          PolicyRefuse, PreflightPass, PreflightReject, Present,
          QuarantineCorruptMedia, QuarantineCorruptSide, ReconcileAbort,
          ReconcileDone, ReconcileRequeue, ReconcileTerminal, Refuse,
          RequeueMedia, RequeueUnlink, RequeueWrite, Return, RunnerIoError,
          Shutdown, Start, Step, StopProcess, SweepInflight, SweepOrphanMedia,
          SweepPending, UnplaceMedia, UploadExhausted, UploadLands, UploadOk,
          UploadRetry, UploadTerminal, WriteSidecar, WriteSidecarFails, vars
  <2>2. QED
    BY <2>1
<1>7. QED
  BY <1>1, <1>2, <1>3, <1>4, <1>5, <1>6
    DEF Next, BootNext, RunnerNext, InboxNext, FaultNext, PollerNext, EnvNext


\* inflight/ stays within its bound: a clip joins the one in hand only when a call
\* has failed.
LEMMA FewInflightStep ==
    ASSUME IInv, IInv', FewInflight, InflightMoves, faults' \in {faults, faults + 1}
    PROVE  FewInflight'
<1> DEFINE P == Present(inflight)
<1>1. /\ faults \in Nat /\ faults' \in Nat /\ faults <= faults'
      /\ P \subseteq Clips /\ P' \subseteq Clips /\ cur \in Clips \cup {0}
  BY DEF IInv, TypeOK, Present
<1>2. /\ Cardinality(P) <= 1 + faults
      /\ phase = "up" => Cardinality(P \ Held) <= faults
  BY DEF FewInflight
<1>3. P \subseteq (P \ Held) \cup {cur} /\ P' \subseteq (P' \ Held') \cup {cur'}
  BY DEF Held
<1>4. ASSUME NEW S \in SUBSET Clips, NEW T \in SUBSET Clips, S \subseteq T
      PROVE  /\ Cardinality(S) \in Nat /\ Cardinality(T) \in Nat
             /\ Cardinality(S) <= Cardinality(T)
  BY <1>4, ClipSetsFinite, FS_Subset
<1>5. ASSUME NEW S \in SUBSET Clips, NEW T \in SUBSET Clips, NEW x, S \subseteq T \cup {x}
      PROVE  Cardinality(S) <= 1 + Cardinality(T)
  <2>1. IsFiniteSet(T) /\ Cardinality(T) \in Nat /\ Cardinality(S) \in Nat
    BY ClipSetsFinite
  <2>2. /\ IsFiniteSet(T \cup {x})
        /\ Cardinality(T \cup {x}) \in {Cardinality(T), Cardinality(T) + 1}
    BY <2>1, FS_AddElement
  <2>3. Cardinality(S) <= Cardinality(T \cup {x})
    BY <1>5, <2>2, FS_Subset
  <2>4. QED
    BY <2>1, <2>2, <2>3
<1>6. /\ P \in SUBSET Clips /\ P' \in SUBSET Clips
      /\ P \ Held \in SUBSET Clips /\ P' \ Held' \in SUBSET Clips
  BY <1>1
<1>7. CASE P' = {}
  <2>1. Cardinality(P') = 0 /\ Cardinality(P' \ Held') = 0
    BY <1>7, FS_EmptySet
  <2>2. 0 <= 1 + faults' /\ 0 <= faults'
    <3>1. \A n \in Nat : 0 <= 1 + n /\ 0 <= n
      OBVIOUS
    <3>2. QED
      BY <1>1, <3>1, Zenon
  <2>3. Cardinality(P') <= 1 + faults' /\ Cardinality(P' \ Held') <= faults'
    BY <2>1, <2>2, Zenon
  <2>4. QED
    BY <2>3 DEF FewInflight
<1>8. CASE phase = "up" /\ phase' = "up" /\ P' \ Held' \subseteq P \ Held
  <2> HIDE DEF P
  <2>1. Cardinality(P' \ Held') <= Cardinality(P \ Held) /\ Cardinality(P' \ Held') \in Nat
    BY <1>4, <1>6, <1>8
  <2>2. Cardinality(P' \ Held') <= faults'
    BY <1>1, <1>2, <1>4, <1>6, <1>8, <2>1
  <2>3. Cardinality(P') <= 1 + Cardinality(P' \ Held')
    BY <1>3, <1>5, <1>6
  <2>4. Cardinality(P') <= 1 + faults'
    BY <1>1, <1>4, <1>6, <2>1, <2>2, <2>3
  <2>5. QED
    BY <2>2, <2>4 DEF FewInflight, P
<1>9. CASE /\ P' \subseteq P
           /\ phase' # "up" \/ (phase = "up" /\ faults' = faults + 1)
  <2> HIDE DEF P
  <2>1. Cardinality(P') <= Cardinality(P) /\ Cardinality(P') \in Nat /\ Cardinality(P) \in Nat
    BY <1>4, <1>6, <1>9
  <2>2. Cardinality(P') <= 1 + faults'
    BY <1>1, <1>2, <2>1
  <2>3. ASSUME phase' = "up" PROVE Cardinality(P' \ Held') <= faults'
    <3>1. phase = "up" /\ faults' = faults + 1
      BY <1>9, <2>3
    <3>2. Cardinality(P' \ Held') <= Cardinality(P) /\ Cardinality(P' \ Held') \in Nat
      BY <1>4, <1>6, <1>9
    <3>3. Cardinality(P) <= 1 + Cardinality(P \ Held) /\ Cardinality(P \ Held) \in Nat
      BY <1>3, <1>4, <1>5, <1>6
    <3>4. QED
      BY <1>1, <1>2, <2>1, <3>1, <3>2, <3>3
  <2>4. QED
    BY <2>2, <2>3 DEF FewInflight, P
<1>10. QED
  BY <1>7, <1>8, <1>9 DEF InflightMoves

\* A new stamp is after all others: the order stays one, no clip loses its place, and
\* the stamped clip gets one.
LEMMA StampStep ==
    ASSUME TimeOrder, cur \in Clips, later' = Stamped(cur)
    PROVE  /\ TimeOrder'
           /\ \A c \in Clips : Ranked(c) \/ c = cur => Ranked(c)'
<1>1. \A c, d \in Clips : Later(c, d)' <=> \/ c = cur /\ d # cur
                                           \/ c # cur /\ d # cur /\ Later(c, d)
  <2> SUFFICES ASSUME NEW c \in Clips, NEW d \in Clips
               PROVE  Later(c, d)' <=> \/ c = cur /\ d # cur
                                       \/ c # cur /\ d # cur /\ Later(c, d)
    OBVIOUS
  <2>1. <<c, d>> \in {p \in later : cur \notin {p[1], p[2]}}
          <=> <<c, d>> \in later /\ c # cur /\ d # cur
    OBVIOUS
  <2>2. <<c, d>> \in {cur} \X (Clips \ {cur}) <=> c = cur /\ d # cur
    OBVIOUS
  <2>3. QED
    BY <2>1, <2>2 DEF Later, Stamped
<1>2. later' \subseteq Clips \X Clips
  BY DEF TimeOrder, Stamped
<1>3. \A c \in Clips : ~Later(c, c)'
  BY <1>1 DEF TimeOrder
<1>4. \A c, d, e \in Clips : Later(c, d)' /\ Later(d, e)' => Later(c, e)'
  <2> SUFFICES ASSUME NEW c \in Clips, NEW d \in Clips, NEW e \in Clips,
                      Later(c, d)', Later(d, e)'
               PROVE  Later(c, e)'
    OBVIOUS
  <2>1. d # cur /\ e # cur /\ Later(d, e)
    BY <1>1
  <2>2. c = cur \/ Later(c, d)
    BY <1>1
  <2>3. c = cur \/ (c # cur /\ Later(c, e))
    BY <2>1, <2>2 DEF TimeOrder
  <2>4. QED
    BY <1>1, <2>1, <2>3
<1>5. \A c \in Clips : Ranked(c) \/ c = cur => Ranked(c)'
  <2> SUFFICES ASSUME NEW c \in Clips, Ranked(c) \/ c = cur, NEW d \in Clips, d # c
               PROVE  Later(c, d)' \/ Later(d, c)'
    BY DEF Ranked
  <2>1. QED
    BY <1>1 DEF Ranked
<1>6. QED
  BY <1>2, <1>3, <1>4, <1>5 DEF TimeOrder

\* A step of the station, seen by the reader.
LEMMA StationStepInv ==
    ASSUME IInv, IInv', Queued, StatusInv, StationStep
    PROVE  StatusInv'
<1>1. Next /\ [Next]_vars /\ UNCHANGED <<spc, creds, depth, todo, seenOk, seenBad>>
  BY DEF StationStep, snapshot
<1>2. InflightMoves /\ OnlyStampsDecide /\ RecordsDecided' /\ OutcomesStay /\ SettledOnce'
  BY <1>1, InflightStep, DecidedStep, RecordsStep, SettledOnceStep DEF StatusInv
<1>3. faults' \in {faults, faults + 1} /\ faults \in Nat /\ faults' \in Nat
  BY <1>1, InboxFrame DEF IInv, TypeOK, Frame
<1>4. FewInflight'
  BY <1>2, <1>3, FewInflightStep DEF StatusInv
<1>5. TimeOrder' /\ DecidedAreRanked'
  <2>1. CASE Stamps
    <3>1. cur \in Clips /\ later' = Stamped(cur)
      BY <2>1 DEF StationStep, Stamps, IInv, Control, OpenPCs, Uploading
    <3>2. TimeOrder' /\ \A c \in Clips : Ranked(c) \/ c = cur => Ranked(c)'
      BY <3>1, StampStep DEF StatusInv
    <3>3. \A c \in Clips : Decided(c)' => Ranked(c) \/ c = cur
      BY <1>2 DEF OnlyStampsDecide, StatusInv, DecidedAreRanked
    <3>4. QED
      BY <3>2, <3>3 DEF DecidedAreRanked
  <2>2. CASE ~Stamps
    <3>1. later' = later
      BY <2>2 DEF StationStep
    <3>2. TimeOrder' /\ \A c \in Clips : Ranked(c) => Ranked(c)'
      BY <3>1 DEF TimeOrder, Ranked, Later, StatusInv
    <3>3. \A c \in Clips : Decided(c)' => Ranked(c)
      BY <1>2, <2>2 DEF OnlyStampsDecide, StatusInv, DecidedAreRanked
    <3>4. QED
      BY <3>2, <3>3 DEF DecidedAreRanked
  <2>3. QED
    BY <2>1, <2>2
<1>6. recorded \subseteq recorded'
  BY <1>2 DEF OnlyStampsDecide, IInv, TypeOK
<1>7. /\ stay' \subseteq InQueue' /\ stay' \subseteq stay
      /\ kept' \subseteq Present(delivered)' /\ kept' \subseteq kept
      /\ back \subseteq back'
      /\ spc = "countSecond" => Present(pending)' \subseteq Present(pending) \cup back'
  BY DEF StationStep
<1>8. Reader'
  <2>1. ASSUME NEW c \in kept', c \notin todo, Filed(c) PROVE Filed(c)'
    <3>1. c \in Present(delivered) /\ c \in Present(delivered)'
      BY <1>7, <2>1 DEF StatusInv, Reader
    <3>2. delivered'[c].outcome = delivered[c].outcome
      BY <1>2, <3>1 DEF OutcomesStay, Present
    <3>3. QED
      BY <1>1, <2>1, <3>2 DEF Filed
  <2>2. spc \in {"readDelivered", "done"} => \A c \in kept' \ todo : Filed(c)'
    BY <1>7, <2>1 DEF StatusInv, Reader
  <2>3. QED
    BY <1>1, <1>6, <1>7, <2>2 DEF Reader, StatusInv
<1>9. DepthCounts'
  <2> SUFFICES ASSUME spc = "listPending"
               PROVE  /\ stay' \subseteq depth.pending \cup depth.inflight \cup back'
                      /\ Cardinality(depth.pending \cap depth.inflight) <= 1 + faults'
    BY <1>1 DEF DepthCounts
  <2>1. depth.pending \cap depth.inflight \in SUBSET Clips
    BY DEF StatusInv, Reader
  <2>2. Cardinality(depth.pending \cap depth.inflight) \in Nat
    BY <2>1, ClipSetsFinite
  <2>3. QED
    BY <1>3, <1>7, <2>2 DEF DepthCounts, StatusInv
<1>10. QED
  BY <1>2, <1>4, <1>5, <1>8, <1>9 DEF StatusInv

\* A step of the reader: it changes nothing of the station.
LEMMA ReaderStepInv ==
    ASSUME IInv, StatusInv, StatusStep \/ CredsSwap \/ UNCHANGED all
    PROVE  StatusInv'
<1>1. UNCHANGED <<vars, later>>
  BY DEF all, CredsSwap, StatusStep, CheckIdentity, LoadIdentity, CountFirst, CountSecond,
      CountSidecars, ListPending, StatPending, ListInflight, StatInflight, ListMedia,
      StatMedia, ListDelivered, ReadDelivered, Exit, Begin, Fail
<1>2. FewInflight' /\ RecordsDecided' /\ SettledOnce' /\ TimeOrder' /\ DecidedAreRanked'
  BY <1>1 DEF StatusInv, FewInflight, RecordsDecided, SettledOnce, TimeOrder, DecidedAreRanked, Decided,
      Ranked, Later, Held, Present, vars
<1>3. /\ Present(pending)' = Present(pending) /\ Present(inflight)' = Present(inflight)
      /\ Present(delivered)' = Present(delivered) /\ InQueue' = InQueue
      /\ recorded' = recorded /\ faults' = faults /\ delivered' = delivered
  BY <1>1 DEF Present, InQueue, vars
<1>4. /\ Present(pending) \subseteq Clips /\ Present(inflight) \subseteq Clips
      /\ Present(delivered) \subseteq Clips /\ InQueue = Present(pending) \cup Present(inflight)
      /\ Present(delivered) \subseteq recorded
  BY DEF Present, InQueue, IInv, RecordedClips
<1>5. Reader /\ DepthCounts
  BY DEF StatusInv
<1>6. Reader' /\ DepthCounts'
  <2>1. CASE UNCHANGED all \/ CredsSwap
    BY <1>3, <1>5, <2>1 DEF CredsSwap, all, snapshot, watch, Reader, Filed, DepthCounts
  <2>2. CASE CheckIdentity \/ LoadIdentity
    BY <1>3, <1>5, <2>2 DEF CheckIdentity, LoadIdentity, Begin, Fail, snapshot, watch, Reader,
        DepthCounts
  <2>3. CASE CountFirst
    <3>1. /\ depth' = [depth EXCEPT !["pending"] = Present(pending)] /\ spc' = "countSecond"
          /\ UNCHANGED <<todo, seenOk, seenBad, stay, back, kept>>
      BY <2>3 DEF CountFirst, CountSidecars, ScanOrder, SidecarsIn, watch
    <3>2. /\ depth' \in [pending: SUBSET Clips, inflight: SUBSET Clips]
          /\ depth'.pending = Present(pending)
      BY <1>4, <1>5, <3>1 DEF Reader
    <3>3. QED
      BY <1>3, <1>5, <3>1, <3>2 DEF Reader, Filed, DepthCounts
  <2>4. CASE CountSecond
    <3>1. /\ depth' = [depth EXCEPT !["inflight"] = Present(inflight)]
          /\ spc = "countSecond" /\ spc' = "listPending"
          /\ UNCHANGED <<todo, seenOk, seenBad, stay, back, kept>>
      BY <2>4 DEF CountSecond, CountSidecars, ScanOrder, SidecarsIn, watch
    <3>2. /\ depth' \in [pending: SUBSET Clips, inflight: SUBSET Clips]
          /\ depth'.pending = depth.pending /\ depth'.inflight = Present(inflight)
      BY <1>4, <1>5, <3>1 DEF Reader
    <3>3. stay' \subseteq depth'.pending \cup depth'.inflight \cup back'
      BY <1>4, <1>5, <3>1, <3>2 DEF Reader
    <3>4. Cardinality(depth'.pending \cap depth'.inflight) <= 1 + faults'
      <4> DEFINE both == depth.pending \cap Present(inflight)
      <4>1. IsFiniteSet(Present(inflight)) /\ Cardinality(Present(inflight)) \in Nat
        BY <1>4, ClipSetsFinite
      <4>2. Cardinality(both) <= Cardinality(Present(inflight)) /\ Cardinality(both) \in Nat
        BY <4>1, FS_Subset, FS_CardinalityType
      <4>3. Cardinality(Present(inflight)) <= 1 + faults /\ faults \in Nat
        BY DEF StatusInv, FewInflight, IInv, TypeOK
      <4> HIDE DEF both
      <4>4. Cardinality(both) <= 1 + faults
        BY <4>1, <4>2, <4>3
      <4>5. QED
        BY <1>3, <3>2, <4>4 DEF both
    <3>5. DepthCounts'
      BY <3>1, <3>3, <3>4 DEF DepthCounts
    <3>6. Reader'
      BY <1>3, <1>5, <3>1, <3>2 DEF Reader
    <3>7. QED
      BY <3>5, <3>6
  <2>5. CASE ListPending \/ ListInflight
    <3>1. /\ spc' \in {"statPending", "statInflight"} /\ depth' \in {depth, NoDepth}
          /\ stay' \subseteq stay /\ UNCHANGED <<seenOk, seenBad, kept>>
      BY <2>5 DEF ListPending, ListInflight, ListMedia
    <3>2. QED
      BY <1>3, <1>5, <3>1 DEF Reader, Filed, DepthCounts, NoDepth
  <2>6. CASE StatPending \/ StatInflight
    <3>1. /\ spc' \in {"statPending", "statInflight", "listInflight", "listDelivered", "failed"}
          /\ UNCHANGED <<depth, seenOk, seenBad, stay, kept>>
      BY <2>6 DEF StatPending, StatInflight, StatMedia, Fail, snapshot, watch
    <3>2. QED
      BY <1>3, <1>5, <3>1 DEF Reader, Filed, DepthCounts
  <2>7. CASE ListDelivered
    BY <1>3, <1>4, <1>5, <2>7 DEF ListDelivered, Reader, DepthCounts
  <2>8. CASE ReadDelivered
    <3>1. UNCHANGED <<depth, stay, kept>> /\ spc = "readDelivered"
          /\ spc' \in {"readDelivered", "done", "failed"}
      BY <2>8 DEF ReadDelivered, Fail, snapshot, watch
    <3>2. /\ seenOk' \cup seenBad' \subseteq recorded
          /\ spc' = "readDelivered" => todo' \subseteq Clips
          /\ spc' = "done" => todo' = {}
          /\ spc' \in {"readDelivered", "done"} => \A d \in kept \ todo' : Filed(d)'
      <4>1. CASE Fail
        BY <1>5, <4>1 DEF Fail, snapshot, Reader
      <4>2. CASE todo = {} /\ spc' = "done" /\ UNCHANGED snapshot
        BY <1>3, <1>5, <3>1, <4>2 DEF snapshot, Reader, Filed
      <4>3. ASSUME NEW c \in todo, delivered[c].st = "ok", spc' = spc, todo' = todo \ {c},
                   seenOk' = IF delivered[c].outcome = "Delivered" THEN seenOk \cup {c} ELSE seenOk,
                   seenBad' = IF delivered[c].outcome = "Undeliverable"
                                 THEN seenBad \cup {c} ELSE seenBad
            PROVE  /\ seenOk' \cup seenBad' \subseteq recorded
                   /\ todo' \subseteq Clips /\ spc' = "readDelivered"
                   /\ \A d \in kept \ todo' : Filed(d)'
        <5>1. c \in Clips /\ c \in recorded
          BY <1>4, <1>5, <3>1, <4>3 DEF Reader, Present
        <5>2. delivered[c].outcome \in {"Delivered", "Undeliverable"}
          BY <4>3, <5>1 DEF StatusInv, RecordsDecided, IInv, TypeOK, Sidecar, Outcomes
        <5>3. seenOk' \cup seenBad' = (seenOk \cup seenBad) \cup {c}
          BY <4>3, <5>2
        <5>4. Filed(c)' /\ \A d \in kept \ todo : Filed(d)'
          BY <1>3, <1>5, <3>1, <4>3, <5>2 DEF Reader, Filed
        <5>5. QED
          BY <1>5, <3>1, <4>3, <5>1, <5>3, <5>4 DEF Reader
      <4>4. QED
        BY <2>8, <4>1, <4>2, <4>3 DEF ReadDelivered
    <3>3. QED
      BY <1>3, <1>5, <3>1, <3>2 DEF Reader, Filed, DepthCounts
  <2>9. CASE Exit
    BY <1>3, <1>5, <2>9 DEF Exit, NoDepth, Reader, DepthCounts
  <2>10. QED
    BY <2>1, <2>2, <2>3, <2>4, <2>5, <2>6, <2>7, <2>8, <2>9 DEF StatusStep
<1>7. QED
  BY <1>2, <1>6 DEF StatusInv

\* Before the first step the queue is empty and nothing was read.
LEMMA StatusInitInv == StatusInit => StatusInv
<1> SUFFICES ASSUME StatusInit PROVE StatusInv
  OBVIOUS
<1>1. Present(pending) = {} /\ Present(inflight) = {} /\ Present(delivered) = {}
  BY DEF StatusInit, Init, Present, Absent
<1>2. FewInflight
  <2>1. /\ Cardinality(Present(inflight)) = 0 /\ Cardinality(Present(inflight) \ Held) = 0
        /\ faults = 0
    BY <1>1, FS_EmptySet DEF StatusInit, Init
  <2>2. QED
    BY <2>1 DEF FewInflight
<1>3. RecordsDecided /\ SettledOnce /\ TimeOrder /\ DecidedAreRanked
  BY DEF StatusInit, Init, RecordsDecided, SettledOnce, TimeOrder, Later, DecidedAreRanked, Decided, Absent,
      FinishPCs
<1>4. Reader /\ DepthCounts
  BY DEF StatusInit, NoDepth, Reader, DepthCounts
<1>5. QED
  BY <1>2, <1>3, <1>4 DEF StatusInv

\* To the station its readers are invisible.
LEMMA StatusIsQueue == StatusSpec => Spec
<1>1. StatusInit => Init
  BY DEF StatusInit
<1>2. [StatusNext]_all => [Next]_vars
  BY DEF StatusNext, StationStep, CredsSwap, all, StatusStep, CheckIdentity, LoadIdentity,
      CountFirst, CountSecond, CountSidecars, ListPending, StatPending, ListInflight,
      StatInflight, ListMedia, StatMedia, ListDelivered, ReadDelivered, Exit, Begin, Fail
<1>3. QED
  BY <1>1, <1>2, PTL DEF StatusSpec, Spec

\* The station runs undisturbed by its readers, and StatusInv holds beside its own
\* invariant.
THEOREM StatusInvariant == StatusSpec => []StatusInv
<1>1. (IInv /\ Queued /\ Counted) /\ (IInv /\ Queued /\ Counted)' /\ StatusInv
        /\ [StatusNext]_all => StatusInv'
  BY StationStepInv, ReaderStepInv DEF StatusNext
<1>2. QED
  BY <1>1, StatusIsQueue, StatusInitInv, CensusAccount, PTL DEF StatusSpec

\* queue_snapshot: the reported depth misses no clip that stayed in the queue and was
\* not put back, and counts twice only the clip in hand and those of failed calls.
THEOREM DepthIsHonest == StatusSpec => []DepthCounts
  BY StatusInvariant, PTL DEF StatusInv

\* A set of clips that is not empty has a latest one: of the sets of clips later than
\* a member, one is least by inclusion.
LEMMA LatestExists ==
    ASSUME TimeOrder, NEW S \in SUBSET Clips, S # {}
    PROVE  Latest(S) # {}
<1> DEFINE After(c) == {d \in Clips : Later(d, c)}
           Afters == {After(c) : c \in S}
<1>1. IsWellFoundedOn(StrictSubsetOrdering(Clips), FiniteSubsetsOf(Clips))
  BY FS_StrictSubsetOrderingWellFounded
<1>2. FiniteSubsetsOf(Clips) = SUBSET Clips
  BY ClipSetsFinite, FS_FiniteSubsetsOfFinite
<1>3. PICK T \in Afters : \A U \in Afters : <<U, T>> \notin StrictSubsetOrdering(Clips)
  <2>1. Afters \subseteq SUBSET Clips
    OBVIOUS
  <2>2. PICK c \in S : TRUE
    OBVIOUS
  <2>3. After(c) \in Afters
    OBVIOUS
  <2>4. Afters \subseteq FiniteSubsetsOf(Clips) /\ Afters # {}
    <3> HIDE DEF Afters
    <3>1. QED
      BY <1>2, <2>1, <2>3
  <2> HIDE DEF Afters
  <2>5. QED
    BY <1>1, <2>4, WFMin
<1>4. PICK c \in S : T = After(c)
  BY <1>3
<1>5. ASSUME NEW d \in S, Later(d, c) PROVE FALSE
  <2>1. c \in Clips /\ d \in Clips
    OBVIOUS
  <2>2. After(d) \subseteq After(c) /\ d \in After(c) /\ d \notin After(d)
    BY <1>5, <2>1 DEF TimeOrder
  <2>3. After(d) \in Afters
    OBVIOUS
  <2>4. After(d) \in SUBSET Clips /\ After(c) \in SUBSET Clips /\ After(d) # After(c)
    BY <2>2
  <2>5. <<After(d), After(c)>> \in StrictSubsetOrdering(Clips)
    <3> HIDE DEF After
    <3>1. QED
      BY <2>2, <2>4 DEF StrictSubsetOrdering
  <2>6. QED
    BY <1>3, <1>4, <2>3, <2>5
<1>6. c \in Latest(S)
  BY <1>4, <1>5 DEF Latest
<1>7. QED
  BY <1>6

\* build_recent: of two records with a place in time, the later one is not left out
\* for the earlier.
LEMMA RecentIsLatest ==
    ASSUME TimeOrder, NEW R \in SUBSET Clips, NEW c \in R, NEW r \in R, Ranked(c),
           Cardinality({d \in R : Later(d, r)}) < RecentLimit,
           ~(Cardinality({d \in R : Later(d, c)}) < RecentLimit)
    PROVE  Later(r, c)
<1> SUFFICES ASSUME ~Later(r, c) PROVE FALSE
  OBVIOUS
<1>1. c \in Clips /\ r \in Clips /\ c # r
  OBVIOUS
<1>2. Later(c, r)
  BY <1>1 DEF Ranked
<1> DEFINE A == {d \in R : Later(d, c)}
           B == {d \in R : Later(d, r)}
<1>3. A \subseteq B
  BY <1>1, <1>2 DEF TimeOrder
<1>4. IsFiniteSet(B) /\ Cardinality(A) \in Nat /\ Cardinality(B) \in Nat
  BY ClipSetsFinite
<1>5. Cardinality(A) <= Cardinality(B)
  BY <1>3, <1>4, FS_Subset
<1>6. Cardinality(B) < RecentLimit /\ ~(Cardinality(A) < RecentLimit) /\ RecentLimit \in Nat
  BY StatusConstants
<1> HIDE DEF A, B
<1>7. QED
  BY <1>4, <1>5, <1>6

\* pick_last_success, pick_last_failure, build_recent: what is shown is no older than
\* any record that was there during the whole scan, and what the recent list leaves out is
\* older than all it has.
THEOREM ShownIsLatest == StatusSpec => []LatestShown
<1>1. (IInv /\ Queued /\ Counted) /\ StatusInv => LatestShown
  <2> SUFFICES ASSUME IInv, StatusInv, spc = "done" PROVE LatestShown
    BY DEF LatestShown
  <2>1. /\ seenOk \cup seenBad \subseteq recorded /\ recorded \subseteq Clips
        /\ \A c \in kept : Filed(c)
    BY DEF StatusInv, Reader, IInv, TypeOK
  <2>2. ASSUME NEW S \in SUBSET recorded, NEW c \in S
        PROVE  \E s \in Latest(S) : s = c \/ Later(s, c)
    <3>1. PICK s \in Latest(S) : TRUE
      BY <2>1, LatestExists DEF StatusInv
    <3>2. s \in S /\ ~Later(c, s)
      BY <3>1 DEF Latest
    <3>3. Ranked(c)
      BY <2>1 DEF StatusInv, DecidedAreRanked, Decided
    <3>4. QED
      BY <2>1, <3>1, <3>2, <3>3 DEF Ranked
  <2>3. ASSUME NEW c \in kept
        PROVE  \E s \in (IF delivered[c].outcome = "Delivered" THEN LastSuccess
                                                              ELSE LastFailure) :
                 s = c \/ Later(s, c)
    BY <2>1, <2>2 DEF Filed, LastSuccess, LastFailure
  <2>4. ASSUME NEW c \in kept \ Recent, NEW r \in Recent PROVE Later(r, c)
    <3>1. seenOk \cup seenBad \in SUBSET Clips /\ c \in seenOk \cup seenBad
      BY <2>1 DEF Filed
    <3>2. /\ r \in seenOk \cup seenBad
          /\ Cardinality({d \in seenOk \cup seenBad : Later(d, r)}) < RecentLimit
          /\ ~(Cardinality({d \in seenOk \cup seenBad : Later(d, c)}) < RecentLimit)
      BY <3>1 DEF Recent
    <3>3. Ranked(c) /\ TimeOrder
      BY <2>1, <3>1 DEF StatusInv, DecidedAreRanked, Decided
    <3>4. QED
      BY <3>1, <3>2, <3>3, RecentIsLatest
  <2>5. QED
    BY <2>3, <2>4 DEF LatestShown
<1>2. QED
  BY <1>1, StatusIsQueue, StatusInvariant, CensusAccount, PTL
=============================================================================
