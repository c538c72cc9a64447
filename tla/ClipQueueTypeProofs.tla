------------------------- MODULE ClipQueueTypeProofs -------------------------
(***************************************************************************)
(* Type correctness of ClipQueue for every value of its constants: any     *)
(* number of clips, any ceiling, policy and attempt limit, any number of   *)
(* restarts, failing calls and truncated sidecars. The types hold only     *)
(* together with Control, which says which clip a task holds at each call. *)
(***************************************************************************)
EXTENDS ClipQueue, TLAPS

ClaimPCs   == {"claimMedia", "claimWrite", "claimRollback", "claimUnlink"}
RequeuePCs == {"requeueMedia", "requeueWrite", "requeueUnlink"}
FinishPCs  == {"finishWrite", "finishUnlink", "finishMove"}
OrphanPCs  == {"orphanSide", "orphanMedia"}
BootPCs    == {"sweepPending", "sweepInflight", "collect", "reconcile"}
\* Calls about one clip that is not yet settled, holding its entry in memory.
OpenPCs    == ClaimPCs \cup OrphanPCs \cup Uploading \cup RequeuePCs

\* Which calls each phase makes, and when a task holds a clip.
Control ==
    /\ phase = "down" => pc = "off"
    /\ phase = "boot" => pc \in BootPCs \cup RequeuePCs \cup FinishPCs
    /\ phase = "up" => pc \notin BootPCs \cup {"off"}
    /\ phase # "up" => ipc = "idle"
    /\ pc \in OpenPCs \cup FinishPCs \cup {"quarantineMedia"} => cur \in Clips
    /\ ipc # "idle" => iclip \in Clips /\ iclip < next

-----------------------------------------------------------------------------
USE DEF disk, runner, inbox, budget, history

\* Every way the queue makes or updates a ClipQueueEntry yields a sidecar.
LEMMA SidecarTypes ==
    /\ Absent \in Sidecar /\ NewEntry \in Sidecar
    /\ \A e \in Sidecar :
         /\ \A b \in BOOLEAN : [e EXCEPT !.backoff = b] \in Sidecar
         /\ \A o \in Outcomes : [e EXCEPT !.outcome = o] \in Sidecar
         /\ [e EXCEPT !.st = "corrupt"] \in Sidecar
BY DEF Absent, NewEntry, Sidecar, Outcomes

\* The same for the entry transition_inflight prepares.
LEMMA ClaimedType == ASSUME NEW e \in Sidecar PROVE Claimed(e) \in Sidecar
<1>1. e.attempts + 1 \in Nat
  BY DEF Sidecar
<1>2. QED
  BY <1>1 DEF Sidecar, Claimed

\* The names a census still has to look at are names of clips.
LEMMA UnreadType ==
    ASSUME TypeOK, Control, ipc # "idle", NEW c
    PROVE  Unread(c) \subseteq Clips
BY QueueConstants DEF TypeOK, Control, Unread, Clips, Census

\* Every step of every task keeps the types; Control says which clip it is about.
LEMMA TypeStep == TypeOK /\ Control /\ [Next]_vars => TypeOK'
<1> SUFFICES ASSUME TypeOK, Control, [Next]_vars PROVE TypeOK'
  OBVIOUS
<1> USE DEF TypeOK
<1>1. CASE Start
  BY <1>1 DEF Start, RunnerPCs, Fallible
<1>2. CASE SweepPending
  BY <1>2 DEF SweepPending, SweepOrphanMedia, RunnerPCs, Fallible, MediaPlaces
<1>3. CASE SweepInflight
  BY <1>3 DEF SweepInflight, SweepOrphanMedia, RunnerPCs, Fallible, MediaPlaces
<1>3a. CASE CollectSidecars
  BY <1>3a DEF CollectSidecars, Present, RunnerPCs, Fallible
<1>4. CASE ReconcileTerminal
  BY <1>4 DEF ReconcileTerminal, Oldest, Present, RunnerPCs, Fallible
<1>5. CASE ReconcileRequeue
  <2>1. PICK c \in Clips : ent' = [inflight[c] EXCEPT !.backoff = FALSE] /\
        cur' = c
    BY <1>5 DEF ReconcileRequeue
  <2>2. ent' \in Sidecar
    BY <2>1, SidecarTypes
  <2>3. QED
    BY <1>5, <2>1, <2>2 DEF ReconcileRequeue, RunnerPCs, Fallible
<1>6. CASE ReconcileAbort
  BY <1>6, SidecarTypes
    DEF ReconcileAbort, StopProcess, RunnerPCs, Fallible, InboxPCs, Census,
        NoCensus, Apart
<1>7. CASE ReconcileDone
  BY <1>7, SidecarTypes
    DEF ReconcileDone, Present, RunnerPCs, Fallible, MediaPlaces
<1>8. CASE PickOldest
  BY <1>8, ClaimedType
    DEF PickOldest, Pick, Oldest, Pickable, RunnerPCs, Fallible
<1>9. CASE PickPastFailure
  BY <1>9, ClaimedType
    DEF PickPastFailure, Pick, Fault, Oldest, Pickable, RunnerPCs, Fallible
<1>10. CASE IdleTick
  BY <1>10 DEF IdleTick, vars
<1>11. CASE QuarantineCorruptSide
  BY <1>11, SidecarTypes
    DEF QuarantineCorruptSide, Oldest, Pickable, RunnerPCs, Fallible
<1>12. CASE QuarantineCorruptMedia
  BY <1>12, SidecarTypes
    DEF QuarantineCorruptMedia, MoveMedia, Return, RunnerPCs, Fallible,
        MediaPlaces
<1>13. CASE ClaimMedia
  BY <1>13 DEF ClaimMedia, Step, RunnerPCs, Fallible, MediaPlaces
<1>14. CASE ClaimMissingMedia
  BY <1>14 DEF ClaimMissingMedia, Step, RunnerPCs, Fallible
<1>15. CASE ClaimWrite
  BY <1>15 DEF ClaimWrite, Step, RunnerPCs, Fallible
<1>16. CASE ClaimWriteFails
  BY <1>16 DEF ClaimWriteFails, Fault, RunnerPCs, Fallible
<1>17. CASE ClaimRollback
  BY <1>17, SidecarTypes
    DEF ClaimRollback, MoveMedia, Return, RunnerPCs, Fallible, MediaPlaces
<1>18. CASE ClaimUnlink
  BY <1>18, SidecarTypes DEF ClaimUnlink, Step, RunnerPCs, Fallible
<1>19. CASE OrphanSide
  BY <1>19, SidecarTypes DEF OrphanSide, Step, RunnerPCs, Fallible
<1>20. CASE OrphanMedia
  BY <1>20, SidecarTypes
    DEF OrphanMedia, MoveMedia, Return, RunnerPCs, Fallible, MediaPlaces
<1>21. CASE PreflightReject
  <2>1. ent' \in Sidecar
    BY <1>21, SidecarTypes DEF PreflightReject, Outcomes
  <2>2. faults' \in Nat /\ restarts' \in Nat /\ rots' \in Nat
    BY <1>21 DEF PreflightReject, Fault
  <2>3. pc' \in RunnerPCs
    BY <1>21 DEF PreflightReject, RunnerPCs, Fallible
  <2>4. QED
    BY <1>21, <2>1, <2>2, <2>3 DEF PreflightReject
<1>22. CASE PreflightPass
  BY <1>22 DEF PreflightPass, Step, RunnerPCs, Fallible
<1>23. CASE UploadLands
  BY <1>23
    DEF UploadLands, Step, Control, ClaimPCs, RequeuePCs, FinishPCs, OrphanPCs,
        OpenPCs, Uploading, RunnerPCs, Fallible
<1>24. CASE UploadOk
  BY <1>24, SidecarTypes DEF UploadOk, RunnerPCs, Fallible, Outcomes
<1>25. CASE UploadRetry
  BY <1>25, SidecarTypes DEF UploadRetry, RunnerPCs, Fallible
<1>26. CASE UploadExhausted
  BY <1>26, SidecarTypes DEF UploadExhausted, RunnerPCs, Fallible, Outcomes
<1>27. CASE UploadTerminal
  BY <1>27, SidecarTypes DEF UploadTerminal, RunnerPCs, Fallible, Outcomes
<1>28. CASE RequeueMedia
  BY <1>28 DEF RequeueMedia, Step, MoveMedia, RunnerPCs, Fallible, MediaPlaces
<1>29. CASE RequeueWrite
  BY <1>29 DEF RequeueWrite, Step, RunnerPCs, Fallible
<1>30. CASE RequeueUnlink
  BY <1>30, SidecarTypes DEF RequeueUnlink, Return, RunnerPCs, Fallible
<1>31. CASE FinishWrite
  BY <1>31
    DEF FinishWrite, Step, Control, ClaimPCs, RequeuePCs, FinishPCs, OrphanPCs,
        OpenPCs, Uploading, RunnerPCs, Fallible
<1>32. CASE FinishUnlink
  BY <1>32 DEF FinishUnlink, Step, MoveMedia, RunnerPCs, Fallible, MediaPlaces
<1>33. CASE FinishMove
  BY <1>33, SidecarTypes DEF FinishMove, Return, RunnerPCs, Fallible
<1>34. CASE RunnerIoError
  BY <1>34, SidecarTypes
    DEF RunnerIoError, Fault, Return, Fallible, RunnerPCs, Fallible
<1>35. CASE BootIoError
  BY <1>35, SidecarTypes
    DEF BootIoError, Fault, StopProcess, RunnerPCs, Fallible, InboxPCs, Census,
        NoCensus, Apart
<1>36. CASE CaptureClip
  <2>0. next <= NumClips
    BY <1>36 DEF CaptureClip
  <2>1. next \in Clips /\ next + 1 \in 1 .. (NumClips + 1) /\ 1 .. next \subseteq Clips
    BY <2>0, QueueConstants DEF Clips
  <2>2. PICK bytes \in {0, Size[next]} :
           /\ census' = [NoCensus EXCEPT !.incoming = bytes, !.todo = 1 .. next]
           /\ UNCHANGED budget \/ Fault
    BY <1>36 DEF CaptureClip
  <2>3. bytes \in Nat
    BY <2>1, <2>2, QueueConstants
  <2>4. census' \in Census
    BY <2>1, <2>2, <2>3 DEF NoCensus, Census
  <2>5. restarts' \in Nat /\ faults' \in Nat /\ rots' \in Nat
    BY <2>2 DEF Fault
  <2>6. media' \in [Clips -> MediaPlaces]
    BY <1>36 DEF CaptureClip, MediaPlaces
  <2>7. taken' \subseteq Clips
    BY <1>36 DEF CaptureClip, Claiming, Control, OpenPCs, ClaimPCs
  <2>8. QED
    BY <1>36, <2>1, <2>4, <2>5, <2>6, <2>7 DEF CaptureClip, InboxPCs
<1>37. CASE CensusInflight
  <2>1. PICK c \in census.todo : Unread(c) \subseteq Clips /\ 
           census' = [census EXCEPT !.todo = Unread(c),
                         !.inflight = @ \cup ({c} \cap Present(inflight))]
    BY <1>37, UnreadType DEF CensusInflight, CensusRead
  <2>2. census' \in Census
    BY <2>1 DEF Census, Present
  <2>3. QED
    BY <1>37, <2>2 DEF CensusInflight, CensusRead, InboxPCs
<1>38. CASE CensusDelivered
  <2>1. PICK c \in census.todo : Unread(c) \subseteq Clips /\ 
           census' = [census EXCEPT !.todo = Unread(c),
                   !.delivered = @ \cup (({c} \cap Present(delivered)) \ Undeliverable),
                   !.undel = @ \cup ({c} \cap Present(delivered) \cap Undeliverable)]
    BY <1>38, UnreadType DEF CensusDelivered, CensusRead
  <2>2. census' \in Census
    BY <2>1 DEF Census, Present, Undeliverable
  <2>3. QED
    BY <1>38, <2>2 DEF CensusDelivered, CensusRead, InboxPCs
<1>39. CASE CensusPending
  <2>1. PICK c \in census.todo : Unread(c) \subseteq Clips /\ 
           census' = [census EXCEPT !.todo = Unread(c),
                         !.pending = @ \cup ({c} \cap Present(pending))]
    BY <1>39, UnreadType DEF CensusPending, CensusRead
  <2>2. census' \in Census
    BY <2>1 DEF Census, Present
  <2>3. QED
    BY <1>39, <2>2 DEF CensusPending, CensusRead, InboxPCs
<1>40. CASE CensusCorrupt
  BY <1>40
    DEF CensusCorrupt, Refuse, MoveMedia, RunnerPCs, Fallible, InboxPCs,
        MediaPlaces, Census, NoCensus
<1>41. CASE PolicyAdmit
  BY <1>41
    DEF PolicyAdmit, InboxStep, NoCensus, RunnerPCs, Fallible, InboxPCs,
        Census, NoCensus
<1>42. CASE PolicyRefuse
  BY <1>42
    DEF PolicyRefuse, Refuse, MoveMedia, RunnerPCs, Fallible, InboxPCs,
        MediaPlaces, Census, NoCensus
<1>43. CASE EvictMedia
  BY <1>43
    DEF EvictMedia, InboxStep, IsVictim, Oldest, RunnerPCs, Fallible, InboxPCs,
        MediaPlaces
<1>44. CASE EvictSide
  BY <1>44, SidecarTypes
    DEF EvictSide, InboxStep, IsVictim, RunnerPCs, Fallible, InboxPCs, Census,
        NoCensus
<1>45. CASE PlaceMedia
  BY <1>45
    DEF PlaceMedia, InboxStep, MoveMedia, RunnerPCs, Fallible, InboxPCs,
        MediaPlaces
<1>46. CASE WriteSidecar
  BY <1>46, SidecarTypes
    DEF WriteSidecar, Control, RunnerPCs, Fallible, InboxPCs
<1>47. CASE WriteSidecarFails
  BY <1>47 DEF WriteSidecarFails, Fault, RunnerPCs, Fallible, InboxPCs
<1>48. CASE UnplaceMedia
  BY <1>48
    DEF UnplaceMedia, MoveMedia, Fault, RunnerPCs, Fallible, InboxPCs,
        MediaPlaces
<1>49. CASE InboxIoError
  <2>1. faults' \in Nat /\ restarts' \in Nat /\ rots' \in Nat
    BY <1>49 DEF InboxIoError, Fault
  <2>2. media' \in [Clips -> MediaPlaces]
    BY <1>49 DEF InboxIoError, Refuse, MoveMedia, MediaPlaces
  <2>3. QED
    BY <1>49, <2>1, <2>2 DEF InboxIoError, Refuse, InboxPCs, Census, NoCensus
<1>50. ASSUME NEW c \in Clips, PruneDelivered(c) PROVE TypeOK'
  BY <1>50, SidecarTypes DEF PruneDelivered
<1>51. ASSUME NEW c \in Clips, QuarantineDelivered(c) PROVE TypeOK'
  BY <1>51, SidecarTypes DEF QuarantineDelivered
<1>52. ASSUME NEW c \in Clips, BackoffElapses(c) PROVE TypeOK'
  BY <1>52, SidecarTypes DEF BackoffElapses
<1>53. CASE Shutdown
  BY <1>53, SidecarTypes
    DEF Shutdown, StopProcess, RunnerPCs, Fallible, InboxPCs, Census, NoCensus,
        Apart
<1>54. CASE Crash
  BY <1>54, SidecarTypes
    DEF Crash, StopProcess, RunnerPCs, Fallible, InboxPCs, Census, NoCensus,
        Apart
<1>55. ASSUME NEW c \in Clips, Rot(c) PROVE TypeOK'
  BY <1>55, SidecarTypes DEF Rot
<1>56. CASE UNCHANGED vars
  BY <1>56 DEF vars
<1>57. QED
  BY <1>1, <1>2, <1>3, <1>3a, <1>4, <1>5, <1>6, <1>7, <1>8, <1>9, <1>10, <1>11, <1>12,
      <1>13, <1>14, <1>15, <1>16, <1>17, <1>18, <1>19, <1>20, <1>21, <1>22,
      <1>23, <1>24, <1>25, <1>26, <1>27, <1>28, <1>29, <1>30, <1>31, <1>32,
      <1>33, <1>34, <1>35, <1>36, <1>37, <1>38, <1>39, <1>40, <1>41, <1>42,
      <1>43, <1>44, <1>45, <1>46, <1>47, <1>48, <1>49, <1>50, <1>51, <1>52,
      <1>53, <1>54, <1>55, <1>56 DEF Next, BootNext, RunnerNext, InboxNext,
      FaultNext, PollerNext, EnvNext

-----------------------------------------------------------------------------
\* Every step keeps to the calls of its phase, with a clip in hand where one
\* is needed.
LEMMA ControlStep == TypeOK /\ Control /\ [Next]_vars => Control'
<1> SUFFICES ASSUME TypeOK, Control, [Next]_vars PROVE Control'
  OBVIOUS
<1> USE DEF Control, ClaimPCs, RequeuePCs, FinishPCs, OrphanPCs, BootPCs,
      OpenPCs, Uploading
<1>1. CASE Start
  BY <1>1 DEF Start
<1>2. CASE SweepPending
  BY <1>2 DEF SweepPending, SweepOrphanMedia
<1>3. CASE SweepInflight
  BY <1>3 DEF SweepInflight, SweepOrphanMedia
<1>3a. CASE CollectSidecars
  BY <1>3a DEF CollectSidecars
<1>4. CASE ReconcileTerminal
  BY <1>4 DEF ReconcileTerminal, Oldest, Present
<1>5. CASE ReconcileRequeue
  BY <1>5 DEF ReconcileRequeue, Oldest, Present
<1>6. CASE ReconcileAbort
  BY <1>6 DEF ReconcileAbort, StopProcess
<1>7. CASE ReconcileDone
  BY <1>7 DEF ReconcileDone, Present
<1>8. CASE PickOldest
  BY <1>8 DEF PickOldest, Pick, Oldest, Pickable
<1>9. CASE PickPastFailure
  BY <1>9 DEF PickPastFailure, Pick, Fault, Oldest, Pickable
<1>10. CASE QuarantineCorruptSide
  BY <1>10 DEF QuarantineCorruptSide, Oldest, Pickable
<1>11. CASE QuarantineCorruptMedia
  BY <1>11 DEF QuarantineCorruptMedia, MoveMedia, Return
<1>12. CASE ClaimMedia
  BY <1>12 DEF ClaimMedia, Step
<1>13. CASE ClaimMissingMedia
  BY <1>13 DEF ClaimMissingMedia, Step
<1>14. CASE ClaimWrite
  BY <1>14 DEF ClaimWrite, Step
<1>15. CASE ClaimWriteFails
  BY <1>15 DEF ClaimWriteFails, Fault
<1>16. CASE ClaimRollback
  BY <1>16 DEF ClaimRollback, MoveMedia, Return
<1>17. CASE ClaimUnlink
  BY <1>17 DEF ClaimUnlink, Step
<1>18. CASE OrphanSide
  BY <1>18 DEF OrphanSide, Step
<1>19. CASE OrphanMedia
  BY <1>19 DEF OrphanMedia, MoveMedia, Return
<1>20. CASE PreflightReject
  BY <1>20 DEF PreflightReject, Fault
<1>21. CASE PreflightPass
  BY <1>21 DEF PreflightPass, Step
<1>22. CASE UploadLands
  BY <1>22 DEF UploadLands, Step
<1>23. CASE UploadOk
  BY <1>23 DEF UploadOk
<1>24. CASE UploadRetry
  BY <1>24 DEF UploadRetry
<1>25. CASE UploadExhausted
  BY <1>25 DEF UploadExhausted
<1>26. CASE UploadTerminal
  BY <1>26 DEF UploadTerminal
<1>27. CASE RequeueMedia
  BY <1>27 DEF RequeueMedia, Step, MoveMedia
<1>28. CASE RequeueWrite
  BY <1>28 DEF RequeueWrite, Step
<1>29. CASE RequeueUnlink
  BY <1>29 DEF RequeueUnlink, Return
<1>30. CASE FinishWrite
  BY <1>30 DEF FinishWrite, Step
<1>31. CASE FinishUnlink
  BY <1>31 DEF FinishUnlink, Step, MoveMedia
<1>32. CASE FinishMove
  BY <1>32 DEF FinishMove, Return
<1>33. CASE RunnerIoError
  BY <1>33 DEF RunnerIoError, Fault, Return, Fallible
<1>34. CASE BootIoError
  BY <1>34 DEF BootIoError, Fault, StopProcess
<1>35. CASE CaptureClip
  BY <1>35, QueueConstants DEF CaptureClip, TypeOK, Clips
<1>36. CASE CensusInflight
  BY <1>36 DEF CensusInflight, CensusRead
<1>37. CASE CensusDelivered
  BY <1>37 DEF CensusDelivered, CensusRead
<1>38. CASE CensusPending
  BY <1>38 DEF CensusPending, CensusRead
<1>39. CASE CensusCorrupt
  BY <1>39 DEF CensusCorrupt, Refuse, MoveMedia
<1>40. CASE PolicyAdmit
  BY <1>40 DEF PolicyAdmit, InboxStep, NoCensus
<1>41. CASE PolicyRefuse
  BY <1>41 DEF PolicyRefuse, Refuse, MoveMedia
<1>42. CASE EvictMedia
  BY <1>42 DEF EvictMedia, InboxStep, IsVictim
<1>43. CASE EvictSide
  BY <1>43 DEF EvictSide, InboxStep, IsVictim
<1>44. CASE PlaceMedia
  BY <1>44 DEF PlaceMedia, InboxStep, MoveMedia
<1>45. CASE WriteSidecar
  BY <1>45 DEF WriteSidecar
<1>46. CASE WriteSidecarFails
  BY <1>46 DEF WriteSidecarFails, Fault
<1>47. CASE UnplaceMedia
  BY <1>47 DEF UnplaceMedia, MoveMedia, Fault
<1>48. CASE InboxIoError
  BY <1>48 DEF InboxIoError, Fault, Refuse, MoveMedia
<1>49. CASE Shutdown
  BY <1>49 DEF Shutdown, StopProcess
<1>50. CASE Crash
  BY <1>50 DEF Crash, StopProcess
<1>51. CASE \/ IdleTick \/ UNCHANGED vars
            \/ (\E c \in Clips :
                   \/ PruneDelivered(c) \/ QuarantineDelivered(c)
                   \/ BackoffElapses(c) \/ Rot(c))
  <2>1. UNCHANGED <<phase, pc, cur, ipc, iclip, next>>
    BY <1>51
      DEF BackoffElapses, IdleTick, PruneDelivered, QuarantineDelivered, Rot,
          vars
  <2>2. QED
    BY <2>1
<1>52. QED
  BY <1>1, <1>2, <1>3, <1>3a, <1>4, <1>5, <1>6, <1>7, <1>8, <1>9, <1>10, <1>11, <1>12,
      <1>13, <1>14, <1>15, <1>16, <1>17, <1>18, <1>19, <1>20, <1>21, <1>22,
      <1>23, <1>24, <1>25, <1>26, <1>27, <1>28, <1>29, <1>30, <1>31, <1>32,
      <1>33, <1>34, <1>35, <1>36, <1>37, <1>38, <1>39, <1>40, <1>41, <1>42,
      <1>43, <1>44, <1>45, <1>46, <1>47, <1>48, <1>49, <1>50, <1>51 DEF Next,
      BootNext, RunnerNext, InboxNext, FaultNext, PollerNext, EnvNext

-----------------------------------------------------------------------------
\* The queue starts empty, with every task stopped.
LEMMA InitTypes == Init => TypeOK /\ Control
<1> SUFFICES ASSUME Init PROVE TypeOK /\ Control
  OBVIOUS
<1>1. TypeOK
  BY SidecarTypes, QueueConstants
    DEF Init, TypeOK, MediaPlaces, RunnerPCs, Fallible, InboxPCs, Census, NoCensus
<1>2. Control
  BY DEF Init, Control, BootPCs, RequeuePCs, FinishPCs, ClaimPCs, OrphanPCs,
         OpenPCs, Uploading
<1>3. QED
  BY <1>1, <1>2

\* Type correctness: through every interleaving, failing call and restart the
\* queue's directories hold well-formed sidecars and the tasks well-formed state.
THEOREM TypeCorrect == Spec => []TypeOK
<1>1. Init => TypeOK /\ Control
  BY InitTypes
<1>2. TypeOK /\ Control /\ [Next]_vars => (TypeOK /\ Control)'
  BY TypeStep, ControlStep
<1>3. QED
  BY <1>1, <1>2, PTL DEF Spec
=============================================================================
