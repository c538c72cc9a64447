----------------------- MODULE ClipQueueDeliveryProofs -----------------------
(***************************************************************************)
(* ClipQueue implements the safety part of ClipDelivery, for every value   *)
(* of its constants: any number of clips of any size, both ceilings, any   *)
(* number of stops and failing calls.                                      *)
(*                                                                         *)
(* That a clip waits once and leaves for good needs little more than the   *)
(* queue's invariant (Queued). That an admission finds room needs what     *)
(* the census knows of the clips that wait, name by name (Counted): a clip *)
(* that the runner has not picked since the submission began is found in   *)
(* inflight/, or else later in pending/, because a requeue writes the new  *)
(* sidecar before it removes the old one. Byte totals are sums over sets;  *)
(* SumBounds has the facts about them.                                     *)
(***************************************************************************)
EXTENDS ClipQueueProofs, ClipQueueDelivery, FiniteSetTheorems

\* Only admitted clips are in the queue, and the sidecar that a requeue or a
\* terminal write replaces is there.
Queued ==
    /\ \A c \in Clips :
         pending[c].st # "absent" \/ inflight[c].st # "absent" \/ c \in recorded => c \in admitted
    /\ pc \in OpenPCs \cup FinishPCs => cur \in admitted
    /\ pc \in {"requeueMedia", "requeueWrite", "finishWrite"} => inflight[cur].st # "absent"
    /\ faults <= MaxFaults

\* What policy.rs may take for the size of the new clip.
ReadSizes == {Size[iclip]} \cup (IF MaxFaults > 0 THEN {0} ELSE {})

\* The new clip fits under both ceilings beside those of S.
FitsBeside(S) ==
    /\ Cardinality(S) + 1 <= MaxClips
    /\ \E bytes \in ReadSizes : SumFunctionOnSet(Size, S) + bytes <= MaxBytes

CensusPCs == {"censusInflight", "censusDelivered", "censusPending"}

\* What the submission under way knows of the clips that wait and that the runner
\* has not picked since it began: once their name was looked at in inflight/ they
\* were counted or are in pending/, and there the census will count them.
Counted ==
    /\ Claiming \subseteq taken
    /\ ipc # "idle" => next = iclip + 1
    /\ ipc \in CensusPCs => evictions = {}
    /\ ipc \in CensusPCs \cup {"decide", "evictSide"} => census.incoming \in ReadSizes
    /\ ipc \in CensusPCs =>
         \A c \in Waiting \ taken :
            \/ ipc = "censusInflight" /\ c \in census.todo
            \/ c \in census.inflight \/ inflight[c].st = "absent"
    /\ ipc = "censusPending" =>
         \A c \in Waiting \ taken : c \in census.todo \cup census.inflight \cup census.pending
    /\ ipc \in {"decide", "evictSide"} =>
         (Waiting \ taken) \ evictions \subseteq census.inflight \cup census.pending
    /\ ipc \in {"place", "write"} =>
         \E S \in SUBSET Clips : (Waiting \ evictions) \ S \subseteq taken /\ FitsBeside(S)

\* Evictions happen only while the floor leaves room for the clip.
EvictsWithRoom ==
    /\ ipc \in {"censusInflight", "censusDelivered", "censusPending"} => evictions = {}
    /\ ipc = "evictSide" \/ (ipc = "decide" /\ evictions # {}) => ~RefuseNew /\ ~FloorOverCeiling

\* No clip begins to wait, and one at most stops waiting.
Quiet ==
    /\ Waiting' \subseteq Waiting
    /\ \E x \in Clips \cup {0} : Waiting \ Waiting' \subseteq {x}

\* A clip the runner has not picked is not written into inflight/ anew.
NoNewClaim ==
    \A c \in Clips \ taken : inflight[c].st = "absent" => inflight'[c].st = "absent"

\* Which steps are about the submission under way, and which about the histories.
Frame ==
    /\ \/ ipc' = "idle"
       \/ UNCHANGED <<ipc, iclip, census, evictions>>
       \/ CaptureClip \/ CensusInflight \/ CensusDelivered \/ CensusPending \/ PolicyAdmit
       \/ EvictMedia \/ EvictSide \/ PlaceMedia \/ WriteSidecarFails
    /\ WriteSidecar \/ UploadLands \/ FinishWrite \/ UNCHANGED <<admitted, accepted, recorded>>
    /\ CaptureClip \/ PickOldest \/ PickPastFailure \/ UNCHANGED taken
    /\ next' = next \/ CaptureClip
    /\ faults' \in {faults, faults + 1}

-----------------------------------------------------------------------------
USE DEF disk, runner, inbox, budget, history

\* Every subset of the clips is finite.
LEMMA ClipSetsFinite ==
    ASSUME NEW S \in SUBSET Clips
    PROVE  IsFiniteSet(S) /\ Cardinality(S) \in Nat
<1>1. IsFiniteSet(Clips)
  BY QueueConstants, FS_Interval DEF Clips
<1>2. IsFiniteSet(S)
  BY <1>1, FS_Subset
<1>3. QED
  BY <1>2, FS_CardinalityType

\* The bytes of a set of clips, one pair for each.
Bytes(S) == {p \in S \X Nat : p[2] \in 1 .. Size[p[1]]}

\* What one more clip adds to them.
LEMMA BytesOfOne ==
    ASSUME NEW S \in SUBSET Clips, NEW x \in S
    PROVE  /\ Bytes(S) = Bytes(S \ {x}) \cup ({x} \X (1 .. Size[x]))
           /\ Bytes(S \ {x}) \cap ({x} \X (1 .. Size[x])) = {}
           /\ IsFiniteSet({x} \X (1 .. Size[x]))
           /\ Cardinality({x} \X (1 .. Size[x])) = Size[x]
<1>1. Size[x] \in Nat
  BY QueueConstants
<1>2. IsFiniteSet(1 .. Size[x]) /\ Cardinality(1 .. Size[x]) = Size[x]
  BY <1>1, FS_Interval
<1>3. IsFiniteSet({x}) /\ Cardinality({x}) = 1
  BY FS_Singleton
<1>4. /\ IsFiniteSet({x} \X (1 .. Size[x]))
      /\ Cardinality({x} \X (1 .. Size[x])) = 1 * Size[x]
  BY <1>2, <1>3, FS_Product
<1>5. Bytes(S) = Bytes(S \ {x}) \cup ({x} \X (1 .. Size[x]))
  BY <1>1 DEF Bytes
<1>6. Bytes(S \ {x}) \cap ({x} \X (1 .. Size[x])) = {}
  BY DEF Bytes
<1>7. QED
  BY <1>1, <1>4, <1>5, <1>6, 1 * Size[x] = Size[x]

\* A set of clips has finitely many bytes: a least one that had not, by inclusion,
\* would lack one clip.
LEMMA BytesFinite ==
    ASSUME NEW S \in SUBSET Clips
    PROVE  IsFiniteSet(Bytes(S)) /\ Cardinality(Bytes(S)) \in Nat
<1> DEFINE Bad == {T \in SUBSET Clips : ~IsFiniteSet(Bytes(T))}
<1>1. Bad = {}
  <2> SUFFICES ASSUME Bad # {} PROVE FALSE
    OBVIOUS
  <2>1. IsWellFoundedOn(StrictSubsetOrdering(Clips), FiniteSubsetsOf(Clips))
    BY FS_StrictSubsetOrderingWellFounded
  <2>2. FiniteSubsetsOf(Clips) = SUBSET Clips
    BY ClipSetsFinite, FS_FiniteSubsetsOfFinite
  <2>3. PICK T \in Bad : \A U \in Bad : <<U, T>> \notin StrictSubsetOrdering(Clips)
    <3>1. Bad \subseteq FiniteSubsetsOf(Clips)
      BY <2>2
    <3> HIDE DEF Bad
    <3>2. QED
      BY <2>1, <3>1, WFMin
  <2>4. CASE T = {}
    BY <2>3, <2>4, FS_EmptySet DEF Bytes
  <2>5. CASE T # {}
    <3>1. PICK x : x \in T
      BY <2>5
    <3>2. T \ {x} \notin Bad
      <4>1. <<T \ {x}, T>> \in StrictSubsetOrdering(Clips)
        BY <3>1, ClipSetsFinite DEF StrictSubsetOrdering
      <4>2. QED
        BY <4>1, <2>3
    <3>3. QED
      <4>1. /\ Bytes(T) = Bytes(T \ {x}) \cup ({x} \X (1 .. Size[x]))
            /\ IsFiniteSet({x} \X (1 .. Size[x])) /\ IsFiniteSet(Bytes(T \ {x}))
        BY <3>1, <3>2, <2>3, BytesOfOne
      <4>2. IsFiniteSet(Bytes(T \ {x}) \cup ({x} \X (1 .. Size[x])))
        BY <4>1, FS_Union, Zenon
      <4>3. QED
        BY <4>1, <4>2, <2>3
  <2>6. QED
    BY <2>4, <2>5
<1>2. QED
  BY <1>1, FS_CardinalityType

\* SumFunctionOnSet counts them: census_totals adds byte sizes in any order.
LEMMA SumIsBytes ==
    ASSUME NEW S \in SUBSET Clips
    PROVE  SumFunctionOnSet(Size, S) = Cardinality(Bytes(S))
<1> DEFINE Eqn(f) == f = [s \in SUBSET S |->
                            IF s = {} THEN 0
                            ELSE Size[CHOOSE x \in s : TRUE] + f[s \ {CHOOSE x \in s : TRUE}]]
           iter == CHOOSE f : Eqn(f)
           g == [s \in SUBSET S |-> Cardinality(Bytes(s))]
<1>1. SumFunctionOnSet(Size, S) = iter[S]
  BY Zenon DEF SumFunctionOnSet, FoldFunctionOnSet, MapThenFoldSet
<1>2. Eqn(g)
  <2>1. ASSUME NEW s \in SUBSET S
        PROVE  Cardinality(Bytes(s)) =
                 IF s = {} THEN 0
                 ELSE Size[CHOOSE x \in s : TRUE] + Cardinality(Bytes(s \ {CHOOSE x \in s : TRUE}))
    <3>1. CASE s = {}
      BY <3>1, FS_EmptySet DEF Bytes
    <3>2. CASE s # {}
      <4> DEFINE x == CHOOSE x \in s : TRUE
      <4>1. x \in s
        BY <3>2
      <4> HIDE DEF x
      <4>2. Cardinality(Bytes(s)) = Cardinality(Bytes(s \ {x})) + Size[x] - Cardinality({})
        <5>1. /\ Bytes(s) = Bytes(s \ {x}) \cup ({x} \X (1 .. Size[x]))
              /\ Bytes(s \ {x}) \cap ({x} \X (1 .. Size[x])) = {}
              /\ IsFiniteSet({x} \X (1 .. Size[x]))
              /\ Cardinality({x} \X (1 .. Size[x])) = Size[x]
          BY <4>1, BytesOfOne
        <5>2. IsFiniteSet(Bytes(s \ {x}))
          BY BytesFinite
        <5>3. Cardinality(Bytes(s \ {x}) \cup ({x} \X (1 .. Size[x]))) =
                Cardinality(Bytes(s \ {x})) + Cardinality({x} \X (1 .. Size[x]))
                  - Cardinality(Bytes(s \ {x}) \cap ({x} \X (1 .. Size[x])))
          BY <5>1, <5>2, FS_Union, Zenon
        <5>4. QED
          BY <5>1, <5>3
      <4>3. Cardinality(Bytes(s \ {x})) \in Nat /\ Size[x] \in Nat
        BY <4>1, BytesFinite, QueueConstants
      <4>4. Cardinality(Bytes(s)) = Size[x] + Cardinality(Bytes(s \ {x}))
        BY <4>2, <4>3, FS_EmptySet
      <4>5. QED
        BY <3>2, <4>4 DEF x
    <3>3. QED
      BY <3>1, <3>2
  <2>2. ASSUME NEW s \in SUBSET S PROVE s \ {CHOOSE x \in s : TRUE} \in SUBSET S
    OBVIOUS
  <2>3. ASSUME NEW s \in SUBSET S
        PROVE  g[s] = IF s = {} THEN 0
                      ELSE Size[CHOOSE x \in s : TRUE] + g[s \ {CHOOSE x \in s : TRUE}]
    BY <2>1, <2>2
  <2>4. g = [s \in SUBSET S |-> g[s]]
    OBVIOUS
  <2> HIDE DEF g
  <2>5. QED
    BY <2>3, <2>4
<1>3. Eqn(iter)
  BY <1>2
<1> HIDE DEF Eqn, iter, g
<1> DEFINE Bad == {T \in SUBSET S : iter[T] # g[T]}
<1>4. Bad = {}
  <2> SUFFICES ASSUME Bad # {} PROVE FALSE
    OBVIOUS
  <2>1. IsWellFoundedOn(StrictSubsetOrdering(S), FiniteSubsetsOf(S))
    BY FS_StrictSubsetOrderingWellFounded
  <2>2. FiniteSubsetsOf(S) = SUBSET S
    BY ClipSetsFinite, FS_FiniteSubsetsOfFinite
  <2>3. PICK T \in Bad : \A U \in Bad : <<U, T>> \notin StrictSubsetOrdering(S)
    <3>1. Bad \subseteq FiniteSubsetsOf(S)
      BY <2>2
    <3> HIDE DEF Bad
    <3>2. QED
      BY <2>1, <3>1, WFMin
  <2>4. /\ iter[T] = IF T = {} THEN 0
                     ELSE Size[CHOOSE x \in T : TRUE] + iter[T \ {CHOOSE x \in T : TRUE}]
        /\ g[T] = IF T = {} THEN 0
                  ELSE Size[CHOOSE x \in T : TRUE] + g[T \ {CHOOSE x \in T : TRUE}]
    BY <1>2, <1>3, <2>3 DEF Eqn
  <2>5. CASE T # {}
    <3> DEFINE x == CHOOSE x \in T : TRUE
    <3>1. x \in T
      BY <2>5
    <3> HIDE DEF x
    <3>2. <<T \ {x}, T>> \in StrictSubsetOrdering(S)
      BY <2>3, <3>1, ClipSetsFinite DEF StrictSubsetOrdering
    <3>3. iter[T \ {x}] = g[T \ {x}]
      BY <3>2, <2>3
    <3>4. QED
      BY <2>3, <2>4, <2>5, <3>3 DEF x
  <2>6. QED
    BY <2>3, <2>4, <2>5
<1>5. iter[S] = g[S]
  BY <1>4
<1>6. g[S] = Cardinality(Bytes(S))
  BY DEF g
<1>7. QED
  BY <1>1, <1>5, <1>6

\* A census over fewer clips finds no more bytes; over two sets, no more than both.
LEMMA SumBounds ==
    ASSUME NEW S \in SUBSET Clips, NEW T \in SUBSET Clips
    PROVE  /\ SumFunctionOnSet(Size, S) \in Nat
           /\ S \subseteq T => SumFunctionOnSet(Size, S) <= SumFunctionOnSet(Size, T)
           /\ SumFunctionOnSet(Size, S \cup T) <=
                 SumFunctionOnSet(Size, S) + SumFunctionOnSet(Size, T)
<1>1. /\ IsFiniteSet(Bytes(S)) /\ Cardinality(Bytes(S)) \in Nat
      /\ IsFiniteSet(Bytes(T)) /\ Cardinality(Bytes(T)) \in Nat
  BY BytesFinite
<1>2. S \subseteq T => Bytes(S) \subseteq Bytes(T)
  BY DEF Bytes
<1>3. Bytes(S \cup T) = Bytes(S) \cup Bytes(T)
  BY DEF Bytes
<1>4. S \subseteq T => Cardinality(Bytes(S)) <= Cardinality(Bytes(T))
  BY <1>1, <1>2, FS_Subset
<1>5. Cardinality(Bytes(S) \cup Bytes(T)) <= Cardinality(Bytes(S)) + Cardinality(Bytes(T))
  <2>1. Cardinality(Bytes(S) \cap Bytes(T)) \in Nat
    BY <1>1, FS_Intersection, FS_CardinalityType
  <2>2. Cardinality(Bytes(S) \cup Bytes(T)) =
          Cardinality(Bytes(S)) + Cardinality(Bytes(T)) - Cardinality(Bytes(S) \cap Bytes(T))
    BY <1>1, FS_Union, Zenon
  <2>3. QED
    BY <1>1, <2>1, <2>2
<1>6. QED
  BY <1>1, <1>3, <1>4, <1>5, SumIsBytes

\* Only WriteSidecar, the last call of enqueue_with_id, brings a clip into the queue.
LEMMA QueuedStep == IInv /\ Queued /\ [Next]_vars => Queued'
<1> SUFFICES ASSUME IInv, Queued, [Next]_vars PROVE Queued'
  OBVIOUS
<1> USE DEF Queued, TypeOK, Control, Absent, ClaimPCs, RequeuePCs, FinishPCs, OrphanPCs,
    OpenPCs, Uploading
<1> USE QueueConstants DEF IInv
<1>1. CASE Start
  BY <1>1
    DEF Start
<1>2. CASE SweepPending
  BY <1>2
    DEF SweepPending, SweepOrphanMedia
<1>3. CASE SweepInflight
  BY <1>3
    DEF SweepInflight, SweepOrphanMedia
<1>0. CASE CollectSidecars
  BY <1>0 DEF CollectSidecars
<1>4. CASE ReconcileTerminal
  BY <1>4
    DEF ReconcileTerminal, Oldest, Present
<1>5. CASE ReconcileRequeue
  BY <1>5
    DEF ReconcileRequeue, Oldest, Present
<1>6. CASE ReconcileAbort
  BY <1>6
    DEF ReconcileAbort, StopProcess
<1>7. CASE ReconcileDone
  BY <1>7
    DEF ReconcileDone, Present
<1>8. CASE PickOldest
  BY <1>8
    DEF PickOldest, Oldest, Pickable, Claimed, Pick
<1>9. CASE PickPastFailure
  BY <1>9
    DEF PickPastFailure, Fault, Oldest, Pickable, Claimed, Pick
<1>10. CASE QuarantineCorruptSide
  BY <1>10
    DEF QuarantineCorruptSide, Oldest, Pickable
<1>11. CASE QuarantineCorruptMedia
  BY <1>11
    DEF QuarantineCorruptMedia, MoveMedia, Return
<1>12. CASE ClaimMedia
  BY <1>12
    DEF ClaimMedia, Step
<1>13. CASE ClaimMissingMedia
  BY <1>13
    DEF ClaimMissingMedia, Step
<1>14. CASE ClaimWrite
  BY <1>14
    DEF ClaimWrite, Step, EntryInMemory
<1>15. CASE ClaimWriteFails
  BY <1>15
    DEF ClaimWriteFails, Fault
<1>16. CASE ClaimRollback
  BY <1>16
    DEF ClaimRollback, MoveMedia, Return
<1>17. CASE ClaimUnlink
  BY <1>17
    DEF ClaimUnlink, Step
<1>18. CASE OrphanSide
  BY <1>18
    DEF OrphanSide, Step
<1>19. CASE OrphanMedia
  BY <1>19
    DEF OrphanMedia, MoveMedia, Return
<1>20. CASE PreflightReject
  BY <1>20
    DEF PreflightReject, Fault, ClipInHand, EntryInMemory
<1>21. CASE PreflightPass
  BY <1>21
    DEF PreflightPass, Step
<1>22. CASE UploadLands
  BY <1>22
    DEF UploadLands, Step
<1>23. CASE UploadOk
  BY <1>23
    DEF UploadOk, ClipInHand, EntryInMemory
<1>24. CASE UploadRetry
  BY <1>24
    DEF UploadRetry, ClipInHand, EntryInMemory
<1>25. CASE UploadExhausted
  BY <1>25
    DEF UploadExhausted, ClipInHand, EntryInMemory
<1>26. CASE UploadTerminal
  BY <1>26
    DEF UploadTerminal, ClipInHand, EntryInMemory
<1>27. CASE RequeueMedia
  BY <1>27
    DEF RequeueMedia, Step, MoveMedia
<1>28. CASE RequeueWrite
  BY <1>28
    DEF RequeueWrite, Step
<1>29. CASE RequeueUnlink
  BY <1>29
    DEF RequeueUnlink, Return
<1>30. CASE FinishWrite
  BY <1>30
    DEF FinishWrite, Step
<1>31. CASE FinishUnlink
  BY <1>31
    DEF FinishUnlink, Step, MoveMedia
<1>32. CASE FinishMove
  BY <1>32
    DEF FinishMove, Return
<1>33. CASE RunnerIoError
  BY <1>33
    DEF RunnerIoError, Fault, Return, Fallible
<1>34. CASE BootIoError
  BY <1>34
    DEF BootIoError, Fault, StopProcess
<1>34a. CASE CaptureClip
  BY <1>34a DEF CaptureClip, Fault
<1>35. CASE EvictSide
  BY <1>35
    DEF EvictSide, InboxStep, IsVictim
<1>36. CASE WriteSidecar
  BY <1>36
    DEF WriteSidecar, NewEntry
<1>37. CASE WriteSidecarFails
  BY <1>37
    DEF WriteSidecarFails, Fault
<1>38. CASE UnplaceMedia
  BY <1>38
    DEF UnplaceMedia, MoveMedia, Fault
<1>39. CASE InboxIoError
  BY <1>39
    DEF InboxIoError, Fault, Refuse, MoveMedia
<1>40. ASSUME NEW c \in Clips, BackoffElapses(c) PROVE Queued'
  BY <1>40, SidecarUpdates
    DEF BackoffElapses
<1>41. CASE Shutdown
  BY <1>41
    DEF Shutdown, StopProcess
<1>42. CASE Crash
  BY <1>42
    DEF Crash, StopProcess
<1>43. ASSUME NEW c \in Clips, Rot(c) PROVE Queued'
  BY <1>43, SidecarUpdates
    DEF Rot
<1>44. CASE IdleTick \/ CensusInflight \/ CensusDelivered \/ CensusPending \/
            CensusCorrupt \/ PolicyAdmit \/ PolicyRefuse \/ EvictMedia \/
            PlaceMedia \/ UNCHANGED vars \/ (\E c \in Clips : PruneDelivered(c)
            \/ QuarantineDelivered(c))
  <2>1. UNCHANGED <<pending, inflight, recorded, admitted, pc, cur, faults>>
    BY <1>44
      DEF CensusCorrupt, CensusDelivered, CensusInflight,
          CensusPending, CensusRead, EvictMedia, IdleTick, InboxStep, IsVictim,
          MoveMedia, NoCensus, PlaceMedia, PolicyAdmit, PolicyRefuse, Present,
          PruneDelivered, QuarantineDelivered, Refuse, vars
  <2>2. QED
    BY <2>1
<1>45. QED
  BY <1>0, <1>1, <1>2, <1>3, <1>4, <1>5, <1>6, <1>7, <1>8, <1>9, <1>10, <1>11, <1>12, <1>13,
      <1>14, <1>15, <1>16, <1>17, <1>18, <1>19, <1>20, <1>21, <1>22, <1>23, <1>24, <1>25,
      <1>26, <1>27, <1>28, <1>29, <1>30, <1>31, <1>32, <1>33, <1>34, <1>34a, <1>35, <1>36, <1>37,
      <1>38, <1>39, <1>40, <1>41, <1>42, <1>43, <1>44
    DEF Next, BootNext, RunnerNext, InboxNext, FaultNext, PollerNext, EnvNext

\* Every step but the admission leaves the clips that wait alone, except for one.
LEMMA WaitingStep == IInv /\ Queued /\ [Next]_vars => Quiet \/ WriteSidecar
<1> SUFFICES ASSUME IInv, Queued, [Next]_vars PROVE Quiet \/ WriteSidecar
  OBVIOUS
<1> USE DEF Quiet, Waiting, Claiming, Present, TypeOK, Control, Absent, Queued, ClaimPCs,
    RequeuePCs, FinishPCs, OrphanPCs, OpenPCs, Uploading
<1> USE DEF IInv
<1>1. CASE Start
  BY <1>1
    DEF Start
<1>2. CASE SweepPending
  BY <1>2
    DEF SweepPending, SweepOrphanMedia
<1>3. CASE SweepInflight
  BY <1>3
    DEF SweepInflight, SweepOrphanMedia
<1>0. CASE CollectSidecars
  BY <1>0 DEF CollectSidecars
<1>4. CASE ReconcileTerminal
  BY <1>4
    DEF ReconcileTerminal, Oldest
<1>5. CASE ReconcileRequeue
  BY <1>5
    DEF ReconcileRequeue, Oldest
<1>6. CASE ReconcileAbort
  BY <1>6
    DEF ReconcileAbort, StopProcess
<1>7. CASE ReconcileDone
  BY <1>7
    DEF ReconcileDone
<1>8. CASE PickOldest
  BY <1>8
    DEF PickOldest, Oldest, Pickable, Claimed, Pick
<1>9. CASE PickPastFailure
  BY <1>9
    DEF PickPastFailure, Fault, Oldest, Pickable, Claimed, Pick
<1>10. CASE QuarantineCorruptSide
  BY <1>10
    DEF QuarantineCorruptSide, Oldest, Pickable
<1>11. CASE QuarantineCorruptMedia
  BY <1>11
    DEF QuarantineCorruptMedia, MoveMedia, Return
<1>12. CASE ClaimMedia
  BY <1>12
    DEF ClaimMedia, Step
<1>13. CASE ClaimMissingMedia
  BY <1>13
    DEF ClaimMissingMedia, Step
<1>14. CASE ClaimWrite
  BY <1>14
    DEF ClaimWrite, Step
<1>15. CASE ClaimWriteFails
  BY <1>15
    DEF ClaimWriteFails, Fault
<1>16. CASE ClaimRollback
  BY <1>16
    DEF ClaimRollback, MoveMedia, Return
<1>17. CASE ClaimUnlink
  BY <1>17
    DEF ClaimUnlink, Step
<1>18. CASE OrphanSide
  BY <1>18
    DEF OrphanSide, Step
<1>19. CASE OrphanMedia
  BY <1>19
    DEF OrphanMedia, MoveMedia, Return
<1>20. CASE PreflightReject
  BY <1>20
    DEF PreflightReject, Fault
<1>21. CASE PreflightPass
  BY <1>21
    DEF PreflightPass, Step
<1>22. CASE UploadLands
  BY <1>22
    DEF UploadLands, Step
<1>23. CASE UploadOk
  BY <1>23
    DEF UploadOk
<1>24. CASE UploadRetry
  BY <1>24
    DEF UploadRetry
<1>25. CASE UploadExhausted
  BY <1>25
    DEF UploadExhausted
<1>26. CASE UploadTerminal
  BY <1>26
    DEF UploadTerminal
<1>27. CASE RequeueMedia
  BY <1>27
    DEF RequeueMedia, Step, MoveMedia
<1>28. CASE RequeueWrite
  BY <1>28
    DEF RequeueWrite, Step, EntryInMemory
<1>29. CASE RequeueUnlink
  BY <1>29
    DEF RequeueUnlink, Return
<1>30. CASE FinishWrite
  BY <1>30
    DEF FinishWrite, Step
<1>31. CASE FinishUnlink
  BY <1>31
    DEF FinishUnlink, Step, MoveMedia
<1>32. CASE FinishMove
  BY <1>32
    DEF FinishMove, Return
<1>33. CASE RunnerIoError
  BY <1>33
    DEF RunnerIoError, Fault, Return, Fallible
<1>34. CASE BootIoError
  BY <1>34
    DEF BootIoError, Fault, StopProcess
<1>35. CASE EvictSide
  <2>1. PICK v \in Clips : pending' = [pending EXCEPT ![v] = Absent] \/ UNCHANGED pending
    BY <1>35 DEF EvictSide
  <2>2. UNCHANGED <<inflight, admitted, recorded, pc, cur>>
    BY <1>35 DEF EvictSide, InboxStep
  <2>3. Waiting' \subseteq Waiting /\ Waiting \ Waiting' \subseteq {v}
    BY <2>1, <2>2
  <2>4. QED
    BY <2>3
<1>36. CASE WriteSidecar
  BY <1>36
    DEF WriteSidecar
<1>37. ASSUME NEW c \in Clips, BackoffElapses(c) PROVE Quiet \/ WriteSidecar
  BY <1>37, SidecarUpdates
    DEF BackoffElapses
<1>38. CASE Shutdown
  BY <1>38
    DEF Shutdown, StopProcess
<1>39. CASE Crash
  BY <1>39
    DEF Crash, StopProcess
<1>40. ASSUME NEW c \in Clips, Rot(c) PROVE Quiet \/ WriteSidecar
  <2>1. UNCHANGED <<admitted, recorded, pc, cur>>
    BY <1>40 DEF Rot
  <2>2. \A d \in Clips : /\ pending'[d].st = "absent" <=> pending[d].st = "absent"
                         /\ inflight'[d].st = "absent" <=> inflight[d].st = "absent"
    <3>1. CASE pending' = [pending EXCEPT ![c] = [@ EXCEPT !.st = "corrupt"]]
               /\ pending[c].st = "ok" /\ UNCHANGED inflight
      BY <1>40, <3>1, SidecarUpdates
    <3>2. CASE inflight' = [inflight EXCEPT ![c] = [@ EXCEPT !.st = "corrupt"]]
               /\ inflight[c].st = "ok" /\ UNCHANGED pending
      BY <1>40, <3>2, SidecarUpdates
    <3>3. QED
      BY <1>40, <3>1, <3>2 DEF Rot
  <2>3. Waiting' = Waiting
    BY <2>1, <2>2
  <2>4. QED
    BY <2>3
<1>41. CASE IdleTick \/ CaptureClip \/ CensusInflight \/ CensusDelivered \/ CensusPending \/
            CensusCorrupt \/ PolicyAdmit \/ PolicyRefuse \/ EvictMedia \/
            PlaceMedia \/ WriteSidecarFails \/ UnplaceMedia \/ InboxIoError \/
            UNCHANGED vars \/ (\E c \in Clips : PruneDelivered(c) \/
            QuarantineDelivered(c))
  <2>1. UNCHANGED <<pending, inflight, recorded, admitted, pc, cur>>
    BY <1>41
      DEF CaptureClip, CensusCorrupt, CensusDelivered, CensusInflight,
          CensusPending, CensusRead, EvictMedia, Fault, IdleTick, InboxIoError,
          InboxStep, IsVictim, MoveMedia, NoCensus, PlaceMedia, PolicyAdmit,
          PolicyRefuse, PruneDelivered, QuarantineDelivered, Refuse,
          UnplaceMedia, WriteSidecarFails, vars
  <2>2. QED
    BY <2>1
<1>42. QED
  BY <1>0, <1>1, <1>2, <1>3, <1>4, <1>5, <1>6, <1>7, <1>8, <1>9, <1>10, <1>11, <1>12, <1>13,
      <1>14, <1>15, <1>16, <1>17, <1>18, <1>19, <1>20, <1>21, <1>22, <1>23, <1>24, <1>25,
      <1>26, <1>27, <1>28, <1>29, <1>30, <1>31, <1>32, <1>33, <1>34, <1>35, <1>36, <1>37,
      <1>38, <1>39, <1>40, <1>41
    DEF Next, BootNext, RunnerNext, InboxNext, FaultNext, PollerNext, EnvNext

\* Only the runner's claim brings a sidecar into inflight/, and it picked the clip.
LEMMA ClaimStep == IInv /\ Queued /\ Claiming \subseteq taken /\ [Next]_vars => NoNewClaim
<1> SUFFICES ASSUME IInv, Queued, Claiming \subseteq taken, [Next]_vars,
                    NEW c \in Clips, c \notin taken, inflight[c].st = "absent"
             PROVE  inflight'[c].st = "absent"
  BY DEF NoNewClaim
<1>1. inflight \in [Clips -> Sidecar]
  BY DEF IInv, TypeOK
<1>2. CASE ClaimWrite
  BY <1>1, <1>2 DEF ClaimWrite, Step, Claiming
<1>3. CASE FinishWrite
  BY <1>1, <1>3 DEF FinishWrite, Step, Queued
<1>4. CASE RequeueUnlink \/ FinishMove
  BY <1>1, <1>4 DEF RequeueUnlink, FinishMove, Absent
<1>5. ASSUME NEW d \in Clips, Rot(d) PROVE inflight'[c].st = "absent"
  BY <1>1, <1>5 DEF Rot
<1>6. CASE \/ BootNext \/ InboxNext \/ FaultNext \/ PollerNext \/ UNCHANGED vars
           \/ CaptureClip \/ Shutdown \/ Crash \/ \E d \in Clips : BackoffElapses(d)
  <2>1. UNCHANGED inflight
    <3>1. CASE BootNext
      BY <3>1
        DEF BootNext, Start, SweepPending, SweepInflight, SweepOrphanMedia,
            CollectSidecars, ReconcileTerminal, ReconcileRequeue, ReconcileAbort,
            ReconcileDone, StopProcess
    <3>2. CASE InboxNext
      BY <3>2
        DEF InboxNext, CensusInflight, CensusDelivered, CensusPending, CensusRead,
            CensusCorrupt, PolicyAdmit, PolicyRefuse, EvictMedia, EvictSide,
            PlaceMedia, WriteSidecar, UnplaceMedia, InboxStep, Refuse
    <3>3. CASE FaultNext
      BY <3>3
        DEF FaultNext, PickPastFailure, ClaimWriteFails, RunnerIoError, BootIoError,
            WriteSidecarFails, InboxIoError, StopProcess, Refuse
    <3>4. CASE PollerNext \/ UNCHANGED vars
      BY <3>4 DEF PollerNext, PruneDelivered, QuarantineDelivered, vars
    <3>5. CASE CaptureClip \/ Shutdown \/ Crash \/ \E d \in Clips : BackoffElapses(d)
      BY <3>5 DEF CaptureClip, Shutdown, Crash, StopProcess, BackoffElapses
    <3>6. QED
      BY <1>6, <3>1, <3>2, <3>3, <3>4, <3>5
  <2>2. QED
    BY <2>1
<1>7. CASE \/ PickOldest \/ IdleTick \/ QuarantineCorruptSide \/ QuarantineCorruptMedia
           \/ ClaimMedia \/ ClaimMissingMedia \/ ClaimRollback \/ ClaimUnlink
           \/ OrphanSide \/ OrphanMedia \/ PreflightReject \/ PreflightPass
           \/ UploadLands \/ UploadOk \/ UploadRetry \/ UploadExhausted
           \/ UploadTerminal \/ RequeueMedia \/ RequeueWrite \/ FinishUnlink
  <2>1. UNCHANGED inflight
    BY <1>7
      DEF PickOldest, IdleTick, QuarantineCorruptSide, QuarantineCorruptMedia,
          ClaimMedia, ClaimMissingMedia, ClaimRollback, ClaimUnlink, OrphanSide,
          OrphanMedia, PreflightReject, PreflightPass, UploadLands, UploadOk,
          UploadRetry, UploadExhausted, UploadTerminal, RequeueMedia, RequeueWrite,
          FinishUnlink, vars
  <2>2. QED
    BY <2>1
<1>8. QED
  BY <1>2, <1>3, <1>4, <1>5, <1>6, <1>7 DEF Next, RunnerNext, EnvNext

\* Which steps touch the submission under way, the histories and the fault count.
LEMMA InboxFrame == Control /\ [Next]_vars => Frame
<1> SUFFICES ASSUME Control, [Next]_vars PROVE Frame
  OBVIOUS
<1> USE DEF Frame, Control
<1>1. CASE ReconcileAbort
  BY <1>1
    DEF ReconcileAbort, StopProcess
<1>2. CASE PickPastFailure
  BY <1>2
    DEF PickPastFailure, Pick, Fault
<1>3. CASE ClaimWriteFails
  BY <1>3
    DEF ClaimWriteFails, Fault
<1>4. CASE PreflightReject
  BY <1>4
    DEF PreflightReject, Fault
<1>5. CASE UploadLands
  BY <1>5
    DEF UploadLands, Step
<1>6. CASE FinishWrite
  BY <1>6
    DEF FinishWrite, Step
<1>7. CASE RunnerIoError
  BY <1>7
    DEF RunnerIoError, Fault, Return, Fallible
<1>8. CASE BootIoError
  BY <1>8
    DEF BootIoError, Fault, StopProcess
<1>9. CASE CaptureClip
  BY <1>9
    DEF CaptureClip, Fault
<1>10. CASE CensusInflight
  BY <1>10
    DEF CensusInflight, CensusRead
<1>11. CASE CensusDelivered
  BY <1>11
    DEF CensusDelivered, CensusRead
<1>12. CASE CensusPending
  BY <1>12
    DEF CensusPending, CensusRead
<1>13. CASE CensusCorrupt
  BY <1>13
    DEF CensusCorrupt, Refuse, MoveMedia
<1>14. CASE PolicyAdmit
  BY <1>14
    DEF PolicyAdmit, InboxStep, NoCensus
<1>15. CASE PolicyRefuse
  BY <1>15
    DEF PolicyRefuse, Refuse, MoveMedia
<1>16. CASE EvictMedia
  BY <1>16
    DEF EvictMedia, InboxStep, IsVictim
<1>17. CASE EvictSide
  BY <1>17
    DEF EvictSide, InboxStep, IsVictim
<1>18. CASE PlaceMedia
  BY <1>18
    DEF PlaceMedia, InboxStep, MoveMedia
<1>19. CASE WriteSidecar
  BY <1>19
    DEF WriteSidecar
<1>20. CASE WriteSidecarFails
  BY <1>20
    DEF WriteSidecarFails, Fault
<1>21. CASE UnplaceMedia
  BY <1>21
    DEF UnplaceMedia, MoveMedia, Fault
<1>22. CASE InboxIoError
  BY <1>22
    DEF InboxIoError, Fault, Refuse, MoveMedia
<1>23. CASE Shutdown
  BY <1>23
    DEF Shutdown, StopProcess
<1>24. CASE Crash
  BY <1>24
    DEF Crash, StopProcess
<1>24a. CASE PickOldest
  BY <1>24a DEF PickOldest, Pick
<1>25. CASE Start \/ CollectSidecars \/ SweepPending \/ SweepInflight
            \/ ReconcileTerminal \/ ReconcileRequeue \/ ReconcileDone \/ IdleTick \/ QuarantineCorruptSide
            \/ QuarantineCorruptMedia \/ ClaimMedia \/ ClaimMissingMedia \/
            ClaimWrite \/ ClaimRollback \/ ClaimUnlink \/ OrphanSide \/
            OrphanMedia \/ PreflightPass \/ UploadOk \/ UploadRetry \/
            UploadExhausted \/ UploadTerminal \/ RequeueMedia \/ RequeueWrite \/
            RequeueUnlink \/ FinishUnlink \/ FinishMove \/ UNCHANGED vars \/ (\E
            c \in Clips : PruneDelivered(c) \/ QuarantineDelivered(c) \/
            BackoffElapses(c) \/ Rot(c))
  <2>1. UNCHANGED <<ipc, iclip, next, census, evictions, faults, admitted, accepted,
                    recorded, taken>>
    BY <1>25
      DEF CollectSidecars, BackoffElapses, ClaimMedia, ClaimMissingMedia, ClaimRollback,
          ClaimUnlink, ClaimWrite, Claimed, FinishMove, FinishUnlink, IdleTick,
          MoveMedia, Oldest, OrphanMedia, OrphanSide, Pick, PickOldest,
          Pickable, PreflightPass, Present, PruneDelivered,
          QuarantineCorruptMedia, QuarantineCorruptSide, QuarantineDelivered,
          ReconcileDone, ReconcileRequeue, ReconcileTerminal, RequeueMedia,
          RequeueUnlink, RequeueWrite, Return, Rot, Start, Step, SweepInflight,
          SweepOrphanMedia, SweepPending, UploadExhausted, UploadOk,
          UploadRetry, UploadTerminal, vars
  <2>2. QED
    BY <2>1
<1>26. QED
  BY <1>1, <1>2, <1>3, <1>4, <1>5, <1>6, <1>7, <1>8, <1>9, <1>10, <1>11, <1>12, <1>13,
      <1>14, <1>15, <1>16, <1>17, <1>18, <1>19, <1>20, <1>21, <1>22, <1>23, <1>24, <1>24a, <1>25
    DEF Next, BootNext, RunnerNext, InboxNext, FaultNext, PollerNext, EnvNext


\* Clips that wait were recorded by the camera before the clip being submitted.
LEMMA WaitingNames ==
    ASSUME IInv PROVE Waiting \subseteq Clips /\ \A c \in Waiting : c < next
<1>1. Waiting \subseteq admitted /\ admitted \subseteq Clips
  BY DEF IInv, TypeOK, Waiting
<1>2. Clips \subseteq Nat
  BY QueueConstants DEF Clips
<1>3. next \in Nat
  BY QueueConstants DEF IInv, TypeOK
<1>4. \A c \in Clips : c >= next => c \notin admitted
  BY DEF IInv, UnbornClips, Unborn
<1>5. QED
  BY <1>1, <1>2, <1>3, <1>4

\* The runner's picks are noted.
LEMMA ClaimingTaken ==
    ASSUME IInv, Claiming \subseteq taken, [Next]_vars PROVE Claiming' \subseteq taken'
<1>1. CASE PickOldest \/ PickPastFailure
  BY <1>1 DEF PickOldest, PickPastFailure, Pick, Claiming
<1>2. CASE CaptureClip
  BY <1>2 DEF CaptureClip, Claiming
<1>3. CASE ~PickOldest /\ ~PickPastFailure /\ ~CaptureClip
  <2>1. taken' = taken
    BY <1>3, InboxFrame DEF Frame, IInv
  <2>2. Claiming' \subseteq Claiming
    <3>1. CASE BootNext
      BY <3>1
        DEF BootNext, Start, SweepPending, SweepInflight, SweepOrphanMedia,
            CollectSidecars, ReconcileTerminal, ReconcileRequeue, ReconcileAbort,
            ReconcileDone, StopProcess, Claiming
    <3>2. CASE RunnerNext
      BY <1>3, <3>2
        DEF RunnerNext, IdleTick, QuarantineCorruptSide, QuarantineCorruptMedia,
            ClaimMedia, ClaimMissingMedia, ClaimWrite, ClaimRollback, ClaimUnlink,
            OrphanSide, OrphanMedia, PreflightReject, PreflightPass, UploadLands,
            UploadOk, UploadRetry, UploadExhausted, UploadTerminal, RequeueMedia,
            RequeueWrite, RequeueUnlink, FinishWrite, FinishUnlink, FinishMove, Step,
            Return, Claiming, vars
    <3>3. CASE InboxNext
      BY <3>3
        DEF InboxNext, CensusInflight, CensusDelivered, CensusPending, CensusRead,
            CensusCorrupt, PolicyAdmit, PolicyRefuse, EvictMedia, EvictSide,
            PlaceMedia, WriteSidecar, UnplaceMedia, InboxStep, Refuse, Claiming
    <3>4. CASE FaultNext
      BY <1>3, <3>4
        DEF FaultNext, ClaimWriteFails, RunnerIoError, BootIoError, Return,
            WriteSidecarFails, InboxIoError, StopProcess, Refuse, Claiming
    <3>5. CASE PollerNext \/ EnvNext \/ UNCHANGED vars
      BY <1>3, <3>5
        DEF PollerNext, EnvNext, PruneDelivered, QuarantineDelivered, Shutdown, Crash,
            StopProcess, BackoffElapses, Rot, Claiming, vars
    <3>6. QED
      BY <3>1, <3>2, <3>3, <3>4, <3>5 DEF Next
  <2>3. QED
    BY <2>1, <2>2
<1>4. QED
  BY <1>1, <1>2, <1>3

\* A step of another task leaves the submission's account true: clips only stop
\* waiting, or are picked, and no other clip turns up in inflight/.
LEMMA CountedByOthers ==
    ASSUME IInv, Counted, Claiming' \subseteq taken', Quiet, NoNewClaim,
           taken \subseteq taken', UNCHANGED <<ipc, iclip, next, census, evictions>>
    PROVE  Counted'
<1>1. Waiting' \ taken' \subseteq Waiting \ taken /\ Waiting \subseteq Clips
  BY WaitingNames DEF Quiet
<1>2. ReadSizes' = ReadSizes
  BY DEF ReadSizes
<1>3. ASSUME ipc \in CensusPCs, NEW c \in Waiting' \ taken'
      PROVE  \/ ipc' = "censusInflight" /\ c \in census'.todo
             \/ c \in census'.inflight \/ inflight'[c].st = "absent"
  BY <1>1, <1>3 DEF Counted, NoNewClaim
<1>4. ipc = "censusPending" =>
        \A c \in Waiting' \ taken' :
          c \in census'.todo \cup census'.inflight \cup census'.pending
  BY <1>1 DEF Counted
<1>5. ipc \in {"decide", "evictSide"} =>
        (Waiting' \ taken') \ evictions' \subseteq census'.inflight \cup census'.pending
  BY <1>1 DEF Counted
<1>6. ASSUME ipc \in {"place", "write"}
      PROVE  \E S \in SUBSET Clips :
                (Waiting' \ evictions') \ S \subseteq taken' /\ FitsBeside(S)'
  <2>1. PICK S \in SUBSET Clips : (Waiting \ evictions) \ S \subseteq taken /\ FitsBeside(S)
    BY <1>6 DEF Counted
  <2>2. (Waiting' \ evictions') \ S \subseteq taken'
    BY <1>1, <2>1 DEF Quiet
  <2>3. FitsBeside(S)'
    BY <1>2, <2>1 DEF FitsBeside
  <2>4. QED
    BY <2>2, <2>3
<1>7. /\ ipc' # "idle" => next' = iclip' + 1
      /\ ipc' \in CensusPCs => evictions' = {}
      /\ ipc' \in CensusPCs \cup {"decide", "evictSide"} => census'.incoming \in ReadSizes'
  BY <1>2 DEF Counted
<1>8. QED
  BY <1>3, <1>4, <1>5, <1>6, <1>7 DEF Counted

\* take_census, the evictions and the decision keep the account true.
LEMMA CountedStep == IInv /\ Queued /\ Counted /\ [Next]_vars => Counted'
<1> SUFFICES ASSUME IInv, Queued, Counted, [Next]_vars PROVE Counted'
  OBVIOUS
<1>1. census \in Census /\ iclip \in Clips \cup {0} /\ Claiming' \subseteq taken'
  BY ClaimingTaken DEF IInv, TypeOK, Counted
<1>2. Frame /\ NoNewClaim /\ (Quiet \/ WriteSidecar)
  BY InboxFrame, ClaimStep, WaitingStep DEF IInv, Counted
<1>3. CASE ipc' = "idle"
  BY <1>1, <1>3 DEF Counted, CensusPCs
<1>4. CASE UNCHANGED <<ipc, iclip, census, evictions>> /\ ipc' # "idle"
  <2>1. ~WriteSidecar /\ ~CaptureClip
    BY <1>4 DEF WriteSidecar, CaptureClip
  <2>2. Quiet /\ next' = next
    BY <1>2, <2>1 DEF Frame
  <2>3. taken \subseteq taken'
    BY <1>2, <2>1 DEF Frame, PickOldest, PickPastFailure, Pick
  <2>4. QED
    BY <1>1, <1>2, <1>4, <2>2, <2>3, CountedByOthers
<1>5. CASE CaptureClip
  <2>1. /\ ipc' = "censusInflight" /\ evictions' = {} /\ iclip' = next /\ next' = next + 1
        /\ UNCHANGED <<pending, inflight, recorded, admitted, pc, cur>> /\ next \in Nat
    BY <1>5 DEF CaptureClip, IInv, TypeOK
  <2>2. PICK bytes \in {0, Size[next]} :
           /\ census' = [NoCensus EXCEPT !.incoming = bytes, !.todo = 1 .. next]
           /\ bytes = Size[next] \/ Fault
    BY <1>5 DEF CaptureClip
  <2>3. census'.incoming = bytes /\ census'.todo = 1 .. next
    BY <2>2 DEF NoCensus
  <2>4. bytes = Size[next] \/ (bytes = 0 /\ MaxFaults > 0)
    BY <2>2, QueueConstants DEF Fault, IInv, TypeOK
  <2>5. census'.incoming \in ReadSizes'
    BY <2>1, <2>3, <2>4 DEF ReadSizes
  <2>6. Waiting' = Waiting
    BY <2>1 DEF Waiting, Present, Claiming
  <2>7. \A c \in Waiting' : c \in census'.todo
    BY <2>1, <2>3, <2>6, WaitingNames DEF Clips
  <2>8. QED
    BY <1>1, <2>1, <2>5, <2>7 DEF Counted, CensusPCs
<1>6. CASE CensusInflight \/ CensusDelivered \/ CensusPending
  <2>1. /\ UNCHANGED <<pending, inflight, recorded, admitted, pc, cur, iclip, next, evictions,
                       taken>>
        /\ ipc \in CensusPCs /\ evictions = {} /\ next = iclip + 1
    BY <1>6 DEF CensusInflight, CensusDelivered, CensusPending, CensusRead, Counted, CensusPCs
  <2>2. Waiting' = Waiting /\ ReadSizes' = ReadSizes
    BY <2>1 DEF Waiting, Present, Claiming, ReadSizes
  <2>3. \A c \in Waiting : c \in 1 .. iclip
    BY <1>1, <2>1, WaitingNames DEF Clips
  <2>4. CASE CensusInflight
    <3>1. PICK c \in census.todo :
             /\ ipc = "censusInflight"
             /\ ipc' = IF census.todo = {c} THEN "censusDelivered" ELSE "censusInflight"
             /\ census' = [census EXCEPT !.todo = Unread(c),
                              !.inflight = @ \cup ({c} \cap Present(inflight))]
      BY <2>4 DEF CensusInflight, CensusRead
    <3>2. /\ census'.incoming = census.incoming /\ census'.todo = Unread(c)
          /\ census'.inflight = census.inflight \cup ({c} \cap Present(inflight))
      BY <1>1, <3>1 DEF Census
    <3>3. ASSUME NEW d \in Waiting' \ taken'
          PROVE  \/ ipc' = "censusInflight" /\ d \in census'.todo
                 \/ d \in census'.inflight \/ inflight'[d].st = "absent"
      <4>1. d \in Clips /\ d \in Waiting \ taken
        BY <2>1, <2>2, <3>3, WaitingNames
      <4>2. CASE d = c
        BY <2>1, <3>2, <4>1, <4>2 DEF Present
      <4>3. CASE d # c /\ d \in census.todo
        BY <3>1, <3>2, <4>3 DEF Unread
      <4>4. CASE d \notin census.todo
        BY <2>1, <3>1, <3>2, <4>1, <4>4 DEF Counted, CensusPCs
      <4>5. QED
        BY <4>2, <4>3, <4>4
    <3>4. /\ ipc' \in {"censusInflight", "censusDelivered"}
          /\ census'.incoming \in ReadSizes'
      BY <2>1, <2>2, <3>1, <3>2 DEF Counted
    <3>5. QED
      BY <1>1, <2>1, <3>3, <3>4 DEF Counted, CensusPCs
  <2>5. CASE CensusDelivered
    <3>1. PICK c \in census.todo :
             /\ ipc = "censusDelivered"
             /\ ipc' = IF census.todo = {c} THEN "censusPending" ELSE "censusDelivered"
             /\ census' = [census EXCEPT !.todo = Unread(c),
                   !.delivered = @ \cup (({c} \cap Present(delivered)) \ Undeliverable),
                   !.undel = @ \cup ({c} \cap Present(delivered) \cap Undeliverable)]
      BY <2>5 DEF CensusDelivered, CensusRead
    <3>2. /\ census'.incoming = census.incoming /\ census'.todo = Unread(c)
          /\ census'.inflight = census.inflight
      BY <1>1, <3>1 DEF Census
    <3>3. \A d \in Waiting' \ taken' : d \in census'.inflight \/ inflight'[d].st = "absent"
      BY <2>1, <2>2, <3>1, <3>2 DEF Counted, CensusPCs
    <3>4. /\ ipc' \in {"censusDelivered", "censusPending"}
          /\ census'.incoming \in ReadSizes'
      BY <2>1, <2>2, <3>1, <3>2 DEF Counted
    <3>5. ipc' = "censusPending" => \A d \in Waiting' \ taken' : d \in census'.todo
      BY <2>2, <2>3, <3>1, <3>2 DEF Unread
    <3>6. QED
      BY <1>1, <2>1, <3>3, <3>4, <3>5 DEF Counted, CensusPCs
  <2>6. CASE CensusPending
    <3>1. PICK c \in census.todo :
             /\ ipc = "censusPending"
             /\ ipc' = IF census.todo = {c} THEN "decide" ELSE "censusPending"
             /\ census' = [census EXCEPT !.todo = Unread(c),
                              !.pending = @ \cup ({c} \cap Present(pending))]
      BY <2>6 DEF CensusPending, CensusRead
    <3>2. /\ census'.incoming = census.incoming /\ census'.todo = Unread(c)
          /\ census'.inflight = census.inflight
          /\ census'.pending = census.pending \cup ({c} \cap Present(pending))
      BY <1>1, <3>1 DEF Census
    <3>3. \A d \in Waiting' \ taken' : d \in census'.inflight \/ inflight'[d].st = "absent"
      BY <2>1, <2>2, <3>1, <3>2 DEF Counted, CensusPCs
    <3>4. ASSUME NEW d \in Waiting' \ taken'
          PROVE  \/ d \in census'.inflight \cup census'.pending
                 \/ census.todo # {c} /\ d \in census'.todo
      <4>1. d \in Clips /\ d \in Waiting \ taken /\ Claiming \subseteq taken
        BY <2>1, <2>2, <3>4, WaitingNames DEF Counted
      <4>2. CASE d = c
        <5>1. d \in census.inflight \/ inflight[d].st = "absent"
          BY <2>1, <3>1, <4>1 DEF Counted, CensusPCs
        <5>2. inflight[d].st = "absent" => d \in Present(pending)
          BY <4>1 DEF Waiting, Present
        <5>3. QED
          BY <3>2, <4>2, <5>1, <5>2
      <4>3. CASE d # c /\ d \in census.todo
        BY <3>1, <3>2, <4>3 DEF Unread
      <4>4. CASE d \notin census.todo
        BY <3>1, <3>2, <4>1, <4>4 DEF Counted
      <4>5. QED
        BY <4>2, <4>3, <4>4
    <3>5. ipc' \in {"censusPending", "decide"} /\ census'.incoming \in ReadSizes'
      BY <2>1, <2>2, <3>1, <3>2 DEF Counted
    <3>6. ipc' = "decide" => census.todo = {c}
      BY <3>1
    <3>7. QED
      BY <1>1, <2>1, <3>3, <3>4, <3>5, <3>6 DEF Counted, CensusPCs
  <2>7. QED
    BY <1>6, <2>4, <2>5, <2>6
<1>7. CASE PolicyAdmit
  <2>1. /\ ipc = "decide" /\ ipc' = "place" /\ ~OverCeiling /\ iclip \in Clips
        /\ UNCHANGED <<pending, inflight, recorded, admitted, pc, cur, evictions, iclip, next,
                       taken>>
    BY <1>7 DEF PolicyAdmit, InboxStep, IInv, Control
  <2>2. /\ (Waiting \ taken) \ evictions \subseteq census.inflight \cup census.pending
        /\ census.incoming \in ReadSizes /\ next = iclip + 1
    BY <2>1 DEF Counted
  <2>3. /\ census.inflight \in SUBSET Clips /\ census.pending \in SUBSET Clips
        /\ census.undel \in SUBSET Clips /\ census.delivered \in SUBSET Clips
        /\ census.incoming \in Nat
    BY <1>1 DEF Census
  <2>4. PICK S \in SUBSET Clips : S = census.inflight \cup census.pending
    BY <2>3
  <2>5. Waiting' = Waiting
    BY <2>1 DEF Waiting, Present, Claiming
  <2>6. FitsBeside(S)
    <3>1. /\ Cardinality(census.inflight) \in Nat /\ Cardinality(census.pending) \in Nat
          /\ Cardinality(census.undel) \in Nat /\ Cardinality(census.delivered) \in Nat
          /\ Cardinality(S) \in Nat
      BY <2>3, <2>4, ClipSetsFinite
    <3>2. Cardinality(S) <= Cardinality(census.inflight) + Cardinality(census.pending)
      <4>1. /\ IsFiniteSet(census.inflight) /\ IsFiniteSet(census.pending)
            /\ Cardinality(census.inflight \cap census.pending) \in Nat
        BY <2>3, ClipSetsFinite
      <4>2. Cardinality(S) = Cardinality(census.inflight) + Cardinality(census.pending)
                               - Cardinality(census.inflight \cap census.pending)
        BY <2>4, <4>1, FS_Union, Zenon
      <4>3. QED
        BY <3>1, <4>1, <4>2
    <3>3. /\ SumFunctionOnSet(Size, census.inflight) \in Nat
          /\ SumFunctionOnSet(Size, census.pending) \in Nat
          /\ SumFunctionOnSet(Size, S) \in Nat
          /\ SumFunctionOnSet(Size, S) <= SumFunctionOnSet(Size, census.inflight)
                                            + SumFunctionOnSet(Size, census.pending)
      BY <2>4, <2>3, SumBounds
    <3>4. /\ ~(Cardinality(census.inflight) + Cardinality(census.delivered)
                 + Cardinality(census.undel) + Cardinality(census.pending) + 1 > MaxClips)
          /\ ~(SumFunctionOnSet(Size, census.inflight) + SumFunctionOnSet(Size, census.pending)
                 + census.incoming > MaxBytes)
      BY <2>1 DEF OverCeiling, Breaches, FloorClips, FloorBytes
    <3>5. /\ Cardinality(S) + 1 <= MaxClips
          /\ SumFunctionOnSet(Size, S) + census.incoming <= MaxBytes
      BY <2>3, <3>1, <3>2, <3>3, <3>4, QueueConstants
    <3>6. QED
      BY <2>2, <3>5 DEF FitsBeside
  <2>7. ReadSizes' = ReadSizes
    BY <2>1 DEF ReadSizes
  <2>8. FitsBeside(S)' /\ (Waiting' \ evictions') \ S \subseteq taken'
    BY <2>1, <2>2, <2>4, <2>5, <2>6, <2>7 DEF FitsBeside
  <2>9. \E T \in SUBSET Clips :
           (Waiting' \ evictions') \ T \subseteq taken' /\ FitsBeside(T)'
    BY <2>4, <2>8
  <2>10. QED
    BY <1>1, <2>1, <2>2, <2>9 DEF Counted, CensusPCs
<1>10. CASE EvictMedia
  <2>1. /\ ipc = "decide" /\ ipc' = "evictSide"
        /\ UNCHANGED <<pending, inflight, recorded, admitted, pc, cur, evictions, census, iclip,
                       next, taken>>
    BY <1>10 DEF EvictMedia, InboxStep
  <2>2. Waiting' = Waiting /\ ReadSizes' = ReadSizes
    BY <2>1 DEF Waiting, Present, Claiming, ReadSizes
  <2>3. QED
    BY <1>1, <2>1, <2>2 DEF Counted, CensusPCs
<1>11. CASE EvictSide
  <2>1. /\ ipc = "evictSide" /\ ipc' = "decide" /\ Waiting' \subseteq Waiting
        /\ UNCHANGED <<iclip, next, taken>>
    BY <1>2, <1>11 DEF EvictSide, InboxStep, WriteSidecar, Quiet
  <2>2. PICK v \in Clips : /\ evictions' = evictions \cup {v}
                           /\ census'.inflight = census.inflight
                           /\ census'.incoming = census.incoming
                           /\ census.pending \subseteq census'.pending \cup {v}
    BY <1>1, <1>11 DEF EvictSide, Census
  <2>3. /\ (Waiting \ taken) \ evictions \subseteq census.inflight \cup census.pending
        /\ census.incoming \in ReadSizes /\ next = iclip + 1
    BY <2>1 DEF Counted
  <2>4. (Waiting' \ taken') \ evictions' \subseteq census'.inflight \cup census'.pending
    BY <2>1, <2>2, <2>3
  <2>5. census'.incoming \in ReadSizes'
    BY <2>1, <2>2, <2>3 DEF ReadSizes
  <2>6. QED
    BY <1>1, <2>1, <2>3, <2>4, <2>5 DEF Counted, CensusPCs
<1>12. CASE PlaceMedia
  <2>1. /\ ipc = "place" /\ ipc' = "write"
        /\ UNCHANGED <<pending, inflight, recorded, admitted, pc, cur, evictions, iclip, next,
                       taken>>
    BY <1>12 DEF PlaceMedia, InboxStep
  <2>2. Waiting' = Waiting /\ ReadSizes' = ReadSizes
    BY <2>1 DEF Waiting, Present, Claiming, ReadSizes
  <2>3. QED
    BY <1>1, <2>1, <2>2 DEF Counted, FitsBeside, CensusPCs
<1>13. CASE WriteSidecarFails
  <2>1. ipc = "write" /\ ipc' = "unplace" /\ UNCHANGED <<iclip, next>>
    BY <1>13 DEF WriteSidecarFails
  <2>2. QED
    BY <1>1, <2>1 DEF Counted, CensusPCs
<1>14. QED
  BY <1>2, <1>3, <1>4, <1>5, <1>6, <1>7, <1>10, <1>11, <1>12, <1>13 DEF Frame

-----------------------------------------------------------------------------
\* A step that only makes a clip stop waiting is a Drop, begins anew or is a stutter.
LEMMA QuietIsDelivery ==
    ASSUME Waiting \subseteq Clips, Quiet, UNCHANGED <<admitted, accepted, recorded, taken>>,
           WrittenOff \subseteq Waiting, WrittenOff' \in {WrittenOff \cap Waiting', {}}
    PROVE  [Delivery!Next]_(Delivery!clips)
<1>1. PICK x \in Clips \cup {0} : Waiting' \subseteq Waiting /\ Waiting \ Waiting' \subseteq {x}
  BY DEF Quiet
<1>2. CASE Waiting' = Waiting
  <2>1. WrittenOff' = WrittenOff \/ WrittenOff' = {}
    BY <1>2
  <2>2. QED
    BY <1>2, <2>1 DEF Delivery!Next, Delivery!Anew, Delivery!clips
<1>3. CASE Waiting' # Waiting
  <2>1. x \in Waiting /\ x \in Clips /\ Waiting' = Waiting \ {x}
    BY <1>1, <1>3
  <2>2. WrittenOff' \in {WrittenOff \ {x}, {}}
    BY <2>1
  <2>3. (admitted' \ Waiting') \ recorded' = ((admitted \ Waiting) \ recorded) \cup {x}
    BY <2>1 DEF Waiting
  <2>4. Delivery!Drop(x)
    BY <2>1, <2>2, <2>3 DEF Delivery!Drop
  <2>5. QED
    BY <2>1, <2>4 DEF Delivery!Next
<1>4. QED
  BY <1>2, <1>3

\* ClipDelivery counts and adds with its own copies of the library's operators.
LEMMA SameCardinality == \A s : Delivery!Cardinality(s) = Cardinality(s)
  BY Zenon DEF Cardinality, Delivery!Cardinality

\* Likewise for the bytes of a set of clips.
LEMMA SameSum ==
  ASSUME NEW f, NEW s
  PROVE  Delivery!SumFunctionOnSet(f, s) = SumFunctionOnSet(f, s)
  BY Zenon
    DEF SumFunctionOnSet, Delivery!SumFunctionOnSet, FoldFunctionOnSet,
        Delivery!FoldFunctionOnSet, MapThenFoldSet, Delivery!MapThenFoldSet

\* Every step of the queue is a step of ClipDelivery, or invisible there.
LEMMA DeliveryStep ==
    IInv /\ Queued /\ Counted /\ [Next]_vars => [Delivery!Next]_(Delivery!clips)
<1> SUFFICES ASSUME IInv, Queued, Counted, [Next]_vars
             PROVE  [Delivery!Next]_(Delivery!clips)
  OBVIOUS
<1>1. /\ Waiting \subseteq Clips /\ WrittenOff \subseteq Waiting /\ recorded \subseteq admitted
  BY DEF IInv, TypeOK, Waiting, WrittenOff, Queued
<1>2. Frame /\ (Quiet \/ WriteSidecar)
  BY InboxFrame, WaitingStep DEF IInv
<1>3. CASE WriteSidecar
  <2>1. /\ ipc = "write" /\ ipc' = "idle" /\ iclip \in Clips /\ iclip \notin admitted
        /\ pending' = [pending EXCEPT ![iclip] = NewEntry] /\ admitted' = admitted \cup {iclip}
        /\ UNCHANGED <<inflight, recorded, accepted, pc, cur, taken>>
    BY <1>3 DEF WriteSidecar, IInv, Control, UnbornClips, Unborn
  <2>2. PICK S \in SUBSET Clips : (Waiting \ evictions) \ S \subseteq taken /\ FitsBeside(S)
    BY <2>1 DEF Counted
  <2> DEFINE seen == S \cap Waiting
  <2>3. Waiting' = Waiting \cup {iclip}
    BY <1>1, <2>1 DEF Waiting, Present, Claiming, NewEntry, IInv, TypeOK
  <2>4. WrittenOff' = {}
    BY <2>1 DEF WrittenOff
  <2>5. (Waiting \ WrittenOff) \ seen \subseteq taken
    BY <2>1, <2>2 DEF WrittenOff
  <2>6. Delivery!Fits(iclip, seen)
    <3>1. seen \in SUBSET S /\ seen \in SUBSET Clips
      BY <2>2
    <3>2. Cardinality(seen) <= Cardinality(S)
      BY <3>1, <2>2, ClipSetsFinite, FS_Subset
    <3>3. SumFunctionOnSet(Size, seen) <= SumFunctionOnSet(Size, S)
      BY <3>1, <2>2, SumBounds
    <3>4. /\ Cardinality(seen) \in Nat /\ Cardinality(S) \in Nat
          /\ SumFunctionOnSet(Size, seen) \in Nat /\ SumFunctionOnSet(Size, S) \in Nat
      BY <2>1, <3>1, ClipSetsFinite, SumBounds, QueueConstants
    <3>5. PICK bytes \in ReadSizes : /\ Cardinality(S) + 1 <= MaxClips
                                     /\ SumFunctionOnSet(Size, S) + bytes <= MaxBytes
      BY <2>2 DEF FitsBeside
    <3>6. bytes \in Nat
      BY <2>1, QueueConstants DEF ReadSizes
    <3> HIDE DEF seen
    <3>7. /\ Cardinality(seen) + 1 <= MaxClips
          /\ SumFunctionOnSet(Size, seen) + bytes <= MaxBytes
      BY <3>2, <3>3, <3>4, <3>5, <3>6, QueueConstants
    <3>8. bytes \in {Size[iclip]} \cup (IF MaxFaults > 0 THEN {0} ELSE {})
      BY <3>5 DEF ReadSizes
    <3>9. QED
      BY <3>7, <3>8, SameCardinality, SameSum DEF Delivery!Fits
  <2>7. (admitted' \ Waiting') \ recorded' = (admitted \ Waiting) \ recorded
    BY <2>1, <2>3
  <2>8. iclip \notin Waiting \cup recorded \cup ((admitted \ Waiting) \ recorded)
    BY <1>1, <2>1 DEF Waiting
  <2>9. \E s \in SUBSET Waiting :
           (Waiting \ WrittenOff) \ s \subseteq taken /\ Delivery!Fits(iclip, s)
    <3>1. seen \in SUBSET Waiting
      OBVIOUS
    <3> HIDE DEF seen
    <3>2. QED
      BY <3>1, <2>5, <2>6, Zenon
  <2> HIDE DEF seen
  <2>10. Delivery!Admit(iclip)
    <3>1. accepted' = accepted /\ recorded' = recorded /\ taken' = taken
      BY <2>1
    <3>2. QED
      BY <3>1, <2>3, <2>4, <2>7, <2>8, <2>9, Zenon DEF Delivery!Admit
  <2>11. QED
    BY <2>1, <2>10 DEF Delivery!Next
<1>4. CASE UploadLands
  <2>1. /\ pc = "upload" /\ pc' = "response" /\ cur \in Clips /\ accepted' = accepted \cup {cur}
        /\ UNCHANGED <<pending, inflight, recorded, admitted, cur, ipc, evictions, taken>>
    BY <1>4 DEF UploadLands, Step, IInv, Control, OpenPCs, Uploading
  <2>2. cur \in Waiting
    BY <2>1 DEF Waiting, Present, IInv, ClipInHand, EntryInMemory, Queued, OpenPCs, Uploading
  <2>3. Waiting' = Waiting
    BY <2>1 DEF Waiting, Present, Claiming
  <2>4. WrittenOff' = WrittenOff
    BY <2>1, <2>3 DEF WrittenOff
  <2>5. Delivery!Store(cur)
    BY <2>1, <2>2, <2>3, <2>4 DEF Delivery!Store
  <2>6. QED
    BY <2>1, <2>5 DEF Delivery!Next
<1>5. CASE FinishWrite
  <2>1. /\ pc = "finishWrite" /\ pc' = "finishUnlink" /\ cur \in Clips /\ cur \in admitted
        /\ inflight' = [inflight EXCEPT ![cur] = ent] /\ recorded' = recorded \cup {cur}
        /\ inflight[cur].st # "absent" /\ ent.st = "ok"
        /\ UNCHANGED <<pending, admitted, accepted, cur, ipc, evictions, taken>>
    BY <1>5 DEF FinishWrite, Step, IInv, Control, EntryInMemory, Queued, FinishPCs
  <2>2. Waiting' = Waiting \ {cur}
    BY <2>1 DEF Waiting, Present, Claiming, IInv, TypeOK
  <2>3. WrittenOff' = WrittenOff \ {cur}
    BY <2>1, <2>2 DEF WrittenOff
  <2>4. (admitted' \ Waiting') \ recorded' = (admitted \ Waiting) \ recorded
    BY <2>1, <2>2 DEF Waiting, Present
  <2>5. CASE cur \in recorded
    <3>1. cur \notin Waiting /\ cur \notin WrittenOff /\ recorded' = recorded
      BY <2>1, <2>5 DEF Waiting, WrittenOff
    <3>2. Waiting' = Waiting /\ WrittenOff' = WrittenOff
      BY <2>2, <2>3, <3>1
    <3>3. QED
      BY <2>1, <2>4, <3>1, <3>2 DEF Delivery!clips
  <2>6. CASE cur \notin recorded
    <3>1. cur \in Waiting
      BY <2>1, <2>6 DEF Waiting, Present
    <3>2. Delivery!Settle(cur)
      BY <2>1, <2>2, <2>3, <2>4, <3>1 DEF Delivery!Settle
    <3>3. QED
      BY <2>1, <3>2 DEF Delivery!Next
  <2>7. QED
    BY <2>5, <2>6
<1>6. CASE EvictSide
  <2>1. /\ ipc = "evictSide" /\ ipc' = "decide"
        /\ UNCHANGED <<inflight, admitted, accepted, recorded, pc, cur, taken>>
    BY <1>6 DEF EvictSide, InboxStep
  <2>2. PICK v \in Clips :
           /\ evictions' = evictions \cup {v}
           /\ pending' = [pending EXCEPT ![v] = Absent] \/ UNCHANGED pending
    BY <1>6 DEF EvictSide
  <2>3. Waiting' \subseteq Waiting /\ Waiting \ Waiting' \subseteq {v}
    BY <2>1, <2>2 DEF Waiting, Present, Claiming, Absent, IInv, TypeOK
  <2>4. CASE v \in Waiting'
    <3>1. Waiting' = Waiting /\ WrittenOff' = WrittenOff \cup {v}
      BY <2>1, <2>2, <2>3, <2>4 DEF WrittenOff
    <3>2. Delivery!WriteOff(v)
      BY <2>1, <2>4, <3>1 DEF Delivery!WriteOff
    <3>3. QED
      BY <3>2 DEF Delivery!Next
  <2>5. CASE v \notin Waiting'
    <3>1. WrittenOff' = WrittenOff \cap Waiting'
      BY <2>1, <2>2, <2>3, <2>5 DEF WrittenOff
    <3>2. Quiet
      BY <2>3 DEF Quiet
    <3>3. QED
      BY <1>1, <2>1, <3>1, <3>2, QuietIsDelivery
  <2>6. QED
    BY <2>4, <2>5
<1>7. CASE CaptureClip
  <2>1. /\ UNCHANGED <<pending, inflight, recorded, admitted, accepted, pc, cur>>
        /\ evictions' = {} /\ taken' = Claiming /\ Claiming \subseteq taken
    BY <1>7 DEF CaptureClip, Counted
  <2>2. Waiting' = Waiting
    BY <2>1 DEF Waiting, Present, Claiming
  <2>3. WrittenOff' = {}
    BY <2>1 DEF WrittenOff
  <2>4. Delivery!Anew
    BY <2>1, <2>2, <2>3 DEF Delivery!Anew
  <2>5. QED
    BY <2>4 DEF Delivery!Next
<1>8. CASE PickOldest \/ PickPastFailure
  <2>1. PICK c \in Clips : pending[c].st = "ok" /\ Pick(c)
    BY <1>8 DEF PickOldest, PickPastFailure, Pickable
  <2>2. /\ UNCHANGED <<pending, inflight, recorded, admitted, accepted, ipc, evictions>>
        /\ taken' = taken \cup {c} /\ pc = "idle" /\ pc' = "claimMedia" /\ cur' = c
    BY <1>8, <2>1 DEF PickOldest, PickPastFailure, Pick
  <2>3. c \in Waiting
    BY <2>1 DEF Waiting, Present, Queued, IInv, RecordedClips
  <2>4. Waiting' = Waiting
    BY <2>2, <2>3 DEF Waiting, Present, Claiming
  <2>5. WrittenOff' = WrittenOff
    BY <2>2, <2>4 DEF WrittenOff
  <2>6. Delivery!Take(c)
    BY <2>2, <2>3, <2>4, <2>5 DEF Delivery!Take
  <2>7. QED
    BY <2>1, <2>6 DEF Delivery!Next
<1>9. CASE /\ ~WriteSidecar /\ ~UploadLands /\ ~FinishWrite /\ ~EvictSide
           /\ ~CaptureClip /\ ~PickOldest /\ ~PickPastFailure
  <2>1. Quiet /\ UNCHANGED <<admitted, accepted, recorded, taken>> /\ Waiting' \subseteq Waiting
    BY <1>2, <1>9 DEF Frame, Quiet
  <2>2. WrittenOff' \in {WrittenOff \cap Waiting', {}}
    <3>1. CASE ipc' = "idle"
      BY <3>1 DEF WrittenOff
    <3>2. CASE UNCHANGED <<ipc, evictions>>
      BY <2>1, <3>2 DEF WrittenOff
    <3>3. CASE /\ ipc # "idle" /\ ipc' # "idle" /\ UNCHANGED evictions
      BY <2>1, <3>3 DEF WrittenOff
    <3>4. CASE CensusInflight \/ CensusDelivered \/ CensusPending \/ PolicyAdmit
               \/ EvictMedia \/ PlaceMedia \/ WriteSidecarFails
      BY <3>3, <3>4
        DEF CensusInflight, CensusDelivered, CensusPending, CensusRead, PolicyAdmit,
            EvictMedia, PlaceMedia, WriteSidecarFails, InboxStep
    <3>5. QED
      BY <1>2, <1>9, <3>1, <3>2, <3>4 DEF Frame
  <2>3. QED
    BY <1>1, <2>1, <2>2, QuietIsDelivery
<1>10. QED
  BY <1>3, <1>4, <1>5, <1>6, <1>7, <1>8, <1>9

\* The empty queue is the empty delivery.
LEMMA DeliveryInit == Init => Queued /\ Counted /\ Delivery!Init
<1> SUFFICES ASSUME Init PROVE Queued /\ Counted /\ Delivery!Init
  OBVIOUS
<1>1. /\ Waiting = {} /\ WrittenOff = {} /\ admitted = {} /\ recorded = {}
      /\ accepted = {} /\ taken = {} /\ Claiming = {}
  BY DEF Init, Waiting, WrittenOff, Claiming
<1>2. Queued
  BY QueueConstants DEF Init, Queued, Absent, OpenPCs, ClaimPCs, RequeuePCs, FinishPCs, OrphanPCs,
       Uploading
<1>3. QED
  BY <1>1, <1>2 DEF Init, Counted, CensusPCs, Delivery!Init

\* What take_census, name by name, and the evictions know of the queue: every clip
\* that waits has been or will be counted, unless the runner picked it since the
\* submission began.
THEOREM CensusAccount == Spec => [](IInv /\ Queued /\ Counted)
<1>1. Init => IInv /\ Queued /\ Counted
  BY InitInv, DeliveryInit
<1>2. IInv /\ Queued /\ Counted /\ [Next]_vars => (IInv /\ Queued /\ Counted)'
  BY NextInv, QueuedStep, CountedStep
<1>3. QED
  BY <1>1, <1>2, PTL DEF Spec

\* PolicyInbox, try_once and reconcile_inflight together do what ClipDelivery
\* promises: admission into room that is there but for the clips the runner
\* picked while the census or the evictions ran, and every clip leaves once.
THEOREM QueueRefinesDelivery == Spec => DeliveryImplemented
<1>1. Init => Delivery!Init
  BY DeliveryInit
<1>2. (IInv /\ Queued /\ Counted) /\ [Next]_vars => [Delivery!Next]_(Delivery!clips)
  BY DeliveryStep
<1>3. QED
  BY <1>1, <1>2, CensusAccount, PTL DEF Spec, DeliveryImplemented, Delivery!Safety

\* The floor of a census does not move while clips are evicted.
LEMMA EvictsWithRoomStep == IInv /\ EvictsWithRoom /\ [Next]_vars => EvictsWithRoom'
<1> SUFFICES ASSUME IInv, EvictsWithRoom, [Next]_vars PROVE EvictsWithRoom'
  OBVIOUS
<1> USE DEF EvictsWithRoom, FloorOverCeiling, FloorClips, FloorBytes, Breaches
<1>1. CASE ReconcileAbort
  BY <1>1
    DEF ReconcileAbort, StopProcess
<1>2. CASE BootIoError
  BY <1>2
    DEF BootIoError, Fault, StopProcess
<1>3. CASE CaptureClip
  BY <1>3
    DEF CaptureClip
<1>4. CASE CensusInflight
  BY <1>4
    DEF CensusInflight, CensusRead
<1>5. CASE CensusDelivered
  BY <1>5
    DEF CensusDelivered, CensusRead
<1>6. CASE CensusPending
  BY <1>6
    DEF CensusPending, InboxStep, Present, IInv, TypeOK, Census, CensusRead
<1>7. CASE CensusCorrupt
  BY <1>7
    DEF CensusCorrupt, Refuse, MoveMedia
<1>8. CASE PolicyAdmit
  BY <1>8
    DEF PolicyAdmit, InboxStep, NoCensus
<1>9. CASE PolicyRefuse
  BY <1>9
    DEF PolicyRefuse, Refuse, MoveMedia
<1>10. CASE EvictMedia
  BY <1>10
    DEF EvictMedia, InboxStep, IsVictim
<1>11. CASE EvictSide
  BY <1>11
    DEF EvictSide, InboxStep, IsVictim, IInv, TypeOK, Census
<1>12. CASE PlaceMedia
  BY <1>12
    DEF PlaceMedia, InboxStep, MoveMedia
<1>13. CASE WriteSidecar
  BY <1>13
    DEF WriteSidecar
<1>14. CASE WriteSidecarFails
  BY <1>14
    DEF WriteSidecarFails, Fault
<1>15. CASE UnplaceMedia
  BY <1>15
    DEF UnplaceMedia, MoveMedia, Fault
<1>16. CASE InboxIoError
  BY <1>16
    DEF InboxIoError, Fault, Refuse, MoveMedia
<1>17. CASE Shutdown
  BY <1>17
    DEF Shutdown, StopProcess
<1>18. CASE Crash
  BY <1>18
    DEF Crash, StopProcess
<1>19. CASE Start \/ CollectSidecars \/ SweepPending \/ SweepInflight
            \/ ReconcileTerminal \/ ReconcileRequeue \/ ReconcileDone \/ PickOldest \/ PickPastFailure \/ IdleTick \/
            QuarantineCorruptSide \/ QuarantineCorruptMedia \/ ClaimMedia \/
            ClaimMissingMedia \/ ClaimWrite \/ ClaimWriteFails \/ ClaimRollback
            \/ ClaimUnlink \/ OrphanSide \/ OrphanMedia \/ PreflightReject \/
            PreflightPass \/ UploadLands \/ UploadOk \/ UploadRetry \/
            UploadExhausted \/ UploadTerminal \/ RequeueMedia \/ RequeueWrite \/
            RequeueUnlink \/ FinishWrite \/ FinishUnlink \/ FinishMove \/
            RunnerIoError \/ UNCHANGED vars \/ (\E c \in Clips :
            PruneDelivered(c) \/ QuarantineDelivered(c) \/ BackoffElapses(c) \/
            Rot(c))
  <2>1. UNCHANGED <<ipc, iclip, census, evictions>>
    BY <1>19
      DEF CollectSidecars, BackoffElapses, ClaimMedia, ClaimMissingMedia, ClaimRollback,
          ClaimUnlink, ClaimWrite, ClaimWriteFails, Claimed, Fallible, Fault,
          FinishMove, FinishUnlink, FinishWrite, IdleTick, MoveMedia, Oldest,
          OrphanMedia, OrphanSide, Pick, PickOldest, PickPastFailure, Pickable,
          PreflightPass, PreflightReject, Present, PruneDelivered,
          QuarantineCorruptMedia, QuarantineCorruptSide, QuarantineDelivered,
          ReconcileDone, ReconcileRequeue, ReconcileTerminal, RequeueMedia,
          RequeueUnlink, RequeueWrite, Return, Rot, RunnerIoError, Start, Step,
          SweepInflight, SweepOrphanMedia, SweepPending, UploadExhausted,
          UploadLands, UploadOk, UploadRetry, UploadTerminal, vars
  <2>2. QED
    BY <2>1
<1>20. QED
  BY <1>1, <1>2, <1>3, <1>4, <1>5, <1>6, <1>7, <1>8, <1>9, <1>10, <1>11, <1>12, <1>13,
      <1>14, <1>15, <1>16, <1>17, <1>18, <1>19
    DEF Next, BootNext, RunnerNext, InboxNext, FaultNext, PollerNext, EnvNext


\* apply_policy: a submission that ends in QueueFull has evicted nothing.
THEOREM NoEvictionInVain == Spec => EvictionNotInVain
<1> DEFINE Spared == ipc = "decide" /\ ipc' = "idle" /\ phase' = "up" /\ faults' = faults
                       => evictions = {}
<1>1. Init => EvictsWithRoom
  BY DEF Init, EvictsWithRoom
<1>2. IInv /\ EvictsWithRoom /\ [Next]_vars => [Spared]_vars
  <2> SUFFICES ASSUME EvictsWithRoom, Next, ipc = "decide", ipc' = "idle", phase' = "up",
                      faults' = faults, faults \in Nat
               PROVE  evictions = {}
    BY DEF IInv, TypeOK
  <2>1. CASE BootNext
    BY <2>1
      DEF BootNext, CollectSidecars, BootIoError, ReconcileAbort, ReconcileDone, ReconcileRequeue,
          ReconcileTerminal, Start, StopProcess, SweepInflight, SweepOrphanMedia, SweepPending
  <2>2. CASE RunnerNext
    <3>1. UNCHANGED ipc
      BY <2>2
        DEF ClaimMedia, ClaimMissingMedia, ClaimRollback, ClaimUnlink,
            ClaimWrite, Claimed, Fallible, Fault, FinishMove, FinishUnlink,
            FinishWrite, IdleTick, MoveMedia, Oldest, OrphanMedia, OrphanSide,
            Pick, PickOldest, Pickable, PreflightPass, PreflightReject,
            Present, QuarantineCorruptMedia, QuarantineCorruptSide,
            RequeueMedia, RequeueUnlink, RequeueWrite, Return, RunnerNext,
            Step, UploadExhausted, UploadLands, UploadOk, UploadRetry,
            UploadTerminal, inbox, vars
    <3>2. QED
      BY <3>1
  <2>3. CASE InboxNext
    BY <2>3
      DEF InboxNext, CensusCorrupt, CensusDelivered, CensusInflight,
          CensusPending, EvictMedia, EvictSide, InboxStep, PlaceMedia,
          PolicyAdmit, PolicyRefuse, UnplaceMedia, WriteSidecar,
          EvictsWithRoom, Refuse, CensusRead
  <2>4. CASE FaultNext
    BY <2>4
      DEF FaultNext, Fault, PickPastFailure, ClaimWriteFails, RunnerIoError,
          BootIoError, WriteSidecarFails, InboxIoError, Pick
  <2>5. CASE PollerNext
    BY <2>5 DEF PollerNext, PruneDelivered, QuarantineDelivered, inbox
  <2>6. CASE EnvNext
    BY <2>6 DEF EnvNext, CaptureClip, Shutdown, Crash, StopProcess, BackoffElapses, Rot, inbox
  <2>7. QED
    BY <2>1, <2>2, <2>3, <2>4, <2>5, <2>6 DEF Next
<1>3. QED
  BY <1>1, <1>2, EvictsWithRoomStep, QueueInvariant, PTL DEF Spec, EvictionNotInVain
=============================================================================
