----------------------- MODULE CaptureSupervisorProofs -----------------------
(***************************************************************************)
(* The safety properties of CaptureSupervisor for every value of its       *)
(* durations, limits and bounds.                                           *)
(*                                                                         *)
(* The select! loop lets a unit of time pass only when nothing is ready.   *)
(* That is what ties the cooldown to the backlog (Backlog: while an edge   *)
(* of the handler's time is left, the cooldown has not begun to run), to   *)
(* the recordings (Spacing) and to the ticks that piled up (Ticks). Tracks *)
(* relates the tracker to the readings it has seen. The footprint is       *)
(* bounded step by step: the gate leaves it below the ceiling, and only    *)
(* then does a recording add to it (FootprintMoves, FootprintStep).        *)
(***************************************************************************)
EXTENDS CaptureSupervisor, TLAPS

\* When a file is at hand, and where files outside it come from.
Files ==
    /\ file # None <=> pc \in {"recording", "submitting"}
    /\ Running => junk <= faults

\* The cooldown and the pause since the last recording add up.
Spacing == pc = "idle" => rest + cool >= Cooldown

\* The cooldown waits for the backlog, unless the stream failed.
Backlog ==
    /\ chan = "err" => outages > 0
    /\ pc = "idle" /\ outages = 0 => \A i \in 1 .. Len(fifo) : fifo[i].stale => cool = Cooldown

\* Ticks pile up during one recording at most.
Ticks ==
    /\ pc = "idle" /\ cool = 0 => due <= 1
    /\ pc = "recording" => cool = 0 /\ due <= elapsed + 1

\* The tracker's asserted_since is the start of the unbroken readings, and a
\* full run that is not reported yet has a tick waiting.
Tracks ==
    /\ live.state = "Unavailable" => live.since = None /\ run = None
    /\ live.state = "Healthy" => run = live.since
    /\ live.state = "StuckAsserted" => live.since = Stuck /\ run = Stuck
    /\ due = 0 /\ run = Stuck => live.state = "StuckAsserted"

IInv == TypeOK /\ Files /\ Spacing /\ Backlog /\ Ticks /\ Tracks

\* How far capture-staging/ may exceed its ceiling.
Allowance == ClipBytes * (1 + blind)

-----------------------------------------------------------------------------
USE DEF sensor, tracker, staging, bounds

EdgeType == [level: Levels, stale: BOOLEAN]
Tracker  == [state: States, since: {None} \cup 0 .. Stuck]

\* Reading an edge leaves the edges behind it.
LEMMA TailEdges ==
    ASSUME NEW q \in Seq(EdgeType), q # <<>>
    PROVE  /\ Tail(q) \in Seq(EdgeType) /\ Len(Tail(q)) = Len(q) - 1
           /\ \A i \in 1 .. Len(Tail(q)) : i + 1 \in 1 .. Len(q) /\ Tail(q)[i] = q[i + 1]
           /\ Head(q) = q[1] /\ 1 \in 1 .. Len(q)
OBVIOUS

\* An edge that arrives is put behind the others.
LEMMA AppendEdge ==
    ASSUME NEW q \in Seq(EdgeType), NEW e \in EdgeType
    PROVE  /\ Append(q, e) \in Seq(EdgeType) /\ Len(Append(q, e)) = Len(q) + 1
           /\ \A i \in 1 .. Len(Append(q, e)) :
                \/ i \in 1 .. Len(q) /\ Append(q, e)[i] = q[i]
                \/ Append(q, e)[i] = e
OBVIOUS

\* A counter that is capped stays under its cap.
LEMMA CappedType ==
    ASSUME NEW max \in Nat, NEW t \in {None} \cup 0 .. max
    PROVE  /\ Capped(t, max) \in {None} \cup 0 .. max
           /\ Capped(t, max) = None <=> t = None
           /\ t # None => Capped(t, max) >= t
           /\ t # None /\ t # max => Capped(t, max) = t + 1
           /\ t = max => Capped(t, max) = max
BY DEF Capped, None

\* What a reading makes of the tracker.
LEMMA HandleTypes ==
    ASSUME NEW t \in Tracker
    PROVE  /\ HandleError(t) \in Tracker /\ HandleError(t).state = "Unavailable"
           /\ t.state # "Unavailable" => HandleError(t).since = None
           /\ t.state = "Unavailable" => HandleError(t) = t
           /\ HandleQuiescent(t) \in Tracker
           /\ HandleQuiescent(t).state = "Healthy" /\ HandleQuiescent(t).since = None
           /\ HandleAsserted(t) \in Tracker
           /\ HandleAsserted(t).state \in {"Healthy", "StuckAsserted"}
           /\ t.state = "StuckAsserted" => HandleAsserted(t) = t
           /\ t.state = "Unavailable" => HandleAsserted(t).state = "Healthy"
                                         /\ HandleAsserted(t).since = 0
           /\ t.state = "Healthy" =>
                /\ HandleAsserted(t).since = IF t.since = None THEN 0 ELSE t.since
                /\ HandleAsserted(t).state = "StuckAsserted" <=> t.since = Stuck
<1>1. HandleError(t) \in Tracker /\ HandleError(t).state = "Unavailable"
      /\ (t.state # "Unavailable" => HandleError(t).since = None)
      /\ (t.state = "Unavailable" => HandleError(t) = t)
  BY DEF Tracker, States, HandleError
<1>2. HandleQuiescent(t) \in Tracker
      /\ HandleQuiescent(t).state = "Healthy" /\ HandleQuiescent(t).since = None
  BY DEF Tracker, States, HandleQuiescent
<1>3. CASE t.state = "Unavailable"
  <2>1. HandleAsserted(t) = [state |-> "Healthy", since |-> 0]
    BY <1>3 DEF HandleAsserted
  <2>2. QED
    BY <1>1, <1>2, <1>3, <2>1, CaptureConstants DEF Tracker, States
<1>4. CASE t.state = "StuckAsserted"
  <2>1. HandleAsserted(t) = t
    BY <1>4 DEF HandleAsserted
  <2>2. QED
    BY <1>1, <1>2, <1>4, <2>1 DEF Tracker, States
<1>5. CASE t.state = "Healthy"
  <2> DEFINE started == IF t.since = None THEN 0 ELSE t.since
  <2>1. HandleAsserted(t) = [state |-> IF started >= Stuck THEN "StuckAsserted" ELSE "Healthy",
                             since |-> started]
    BY <1>5 DEF HandleAsserted
  <2>2. started \in 0 .. Stuck /\ (started >= Stuck <=> t.since = Stuck)
    BY CaptureConstants DEF Tracker, None
  <2>3. QED
    BY <1>1, <1>2, <1>5, <2>1, <2>2 DEF Tracker, States
<1>6. QED
  BY <1>3, <1>4, <1>5 DEF Tracker, States

-----------------------------------------------------------------------------
\* Every step of the supervisor, the sensor and the clock keeps the invariant.
LEMMA InvStep == IInv /\ [Next]_vars => IInv'
<1> SUFFICES ASSUME IInv, [Next]_vars PROVE IInv'
  OBVIOUS
<1> USE CaptureConstants DEF IInv
<1>a. /\ live \in Tracker /\ fifo \in Seq(EdgeType) /\ Len(fifo) <= FifoDepth
      /\ run \in {None} \cup 0 .. Stuck /\ due \in Nat /\ junk \in Nat /\ cool \in 0 .. Cooldown
      /\ rest \in 0 .. Cooldown /\ elapsed \in Nat /\ faults \in Nat /\ outages \in Nat
  BY DEF TypeOK, Tracker, EdgeType
<1>1. CASE Start
  <2>1. /\ live' \in Tracker /\ live'.state = "Healthy" /\ live'.since = None
        /\ run' = None /\ due' = 0 /\ fifo' = <<>> /\ cache' \in Levels /\ cool' = 0
        /\ rest' = Cooldown /\ blind' = 0
        /\ last' = "none" /\ shown' = "NeverObserved"
    BY <1>1 DEF Start, Fresh, OpenSensor, Tracker, States, TypeOK
  <2>0. lost' \in BOOLEAN
    BY <1>1, Zenon DEF Start, Fresh, OpenSensor
  <2>2. TypeOK'
    BY <1>1, <2>0, <2>1, <1>a
      DEF Start, PurgeStaging, TypeOK, Tracker, EdgeType, States
  <2>3. Files'
    BY <1>1, <2>1, <1>a
      DEF Start, PurgeStaging, Files, Running
  <2>4. Spacing'
    BY <1>1, <2>1, <1>a
      DEF Start, PurgeStaging, Spacing
  <2>5. Backlog'
    BY <1>1, <2>1, <1>a
      DEF Start, PurgeStaging, Backlog
  <2>6. Ticks'
    BY <1>1, <2>1, <1>a
      DEF Start, PurgeStaging, Ticks
  <2>7. Tracks'
    BY <1>1, <2>1, <1>a
      DEF Start, PurgeStaging, Tracks, None
  <2>8. QED
    BY <2>2, <2>3, <2>4, <2>5, <2>6, <2>7
<1>2. CASE StartDisabled
  <2>1. TypeOK'
    BY <1>2, <1>a
      DEF StartDisabled, PurgeStaging, PurgeFails, Fault, TypeOK, Tracker, EdgeType,
          States
  <2>2. Files'
    BY <1>2, <1>a
      DEF StartDisabled, PurgeStaging, PurgeFails, Fault, Files, Running
  <2>3. Spacing'
    BY <1>2, <1>a
      DEF StartDisabled, PurgeStaging, PurgeFails, Fault, Spacing
  <2>4. Backlog'
    BY <1>2, <1>a
      DEF StartDisabled, PurgeStaging, PurgeFails, Fault, Backlog
  <2>5. Ticks'
    BY <1>2, <1>a
      DEF StartDisabled, PurgeStaging, PurgeFails, Fault, Ticks
  <2>6. Tracks'
    BY <1>2, <1>a
      DEF StartDisabled, PurgeStaging, PurgeFails, Fault, Tracks
  <2>7. QED
    BY <2>1, <2>2, <2>3, <2>4, <2>5, <2>6
<1>3. CASE Stop
  <2>1. /\ live' \in Tracker /\ live'.state = "Healthy" /\ live'.since = None
        /\ run' = None /\ due' = 0 /\ fifo' = <<>> /\ cache' \in Levels /\ cool' = 0
        /\ rest' = Cooldown /\ blind' = 0
        /\ last' = "none" /\ shown' = "NeverObserved"
    BY <1>3 DEF Stop, Fresh, OpenSensor, Tracker, States, TypeOK
  <2>0. lost' \in BOOLEAN
    BY <1>3, Zenon DEF Stop, Fresh, OpenSensor
  <2>2. TypeOK'
    BY <1>3, <2>0, <2>1, <1>a
      DEF Stop, TypeOK, Tracker, EdgeType, States
  <2>3. Files'
    BY <1>3, <2>1, <1>a
      DEF Stop, Files, Running
  <2>4. Spacing'
    BY <1>3, <2>1, <1>a
      DEF Stop, Spacing
  <2>5. Backlog'
    BY <1>3, <2>1, <1>a
      DEF Stop, Backlog
  <2>6. Ticks'
    BY <1>3, <2>1, <1>a
      DEF Stop, Ticks
  <2>7. Tracks'
    BY <1>3, <2>1, <1>a
      DEF Stop, Tracks, None
  <2>8. QED
    BY <2>2, <2>3, <2>4, <2>5, <2>6, <2>7
<1>4. CASE Flip
  <2>0. lost' \in BOOLEAN
    <3>1. lost' = FALSE \/ lost' = Running
      BY <1>4 DEF Flip
    <3>2. Running \in BOOLEAN
      BY DEF Running
    <3>3. QED
      BY <3>1, <3>2, Zenon
  <2>1. line' \in Levels
    BY <1>4 DEF Flip, Levels
  <2>2. UNCHANGED <<pc, chan, cache, tracker, last, cool, staging, elapsed, rest, blind, bounds>>
    BY <1>4 DEF Flip
  <2>3. [level |-> line', stale |-> pc # "idle"] \in EdgeType
        /\ (pc = "idle" => ~[level |-> line', stale |-> pc # "idle"].stale)
    BY <1>4, <2>1 DEF EdgeType
  <2>4. \/ fifo' = fifo
        \/ Len(fifo) < FifoDepth /\ fifo' = Append(fifo, [level |-> line', stale |-> pc # "idle"])
    BY <1>4 DEF Flip
  <2>5. /\ fifo' \in Seq(EdgeType) /\ Len(fifo') <= FifoDepth
        /\ pc = "idle" => \A i \in 1 .. Len(fifo') : fifo'[i].stale =>
                                i \in 1 .. Len(fifo) /\ fifo'[i] = fifo[i]
    BY <1>4, <2>3, <2>4, <1>a, AppendEdge
  <2>6. TypeOK'
    BY <1>4, <2>0, <2>1, <2>2, <2>3, <2>4, <2>5, <1>a
      DEF TypeOK, Tracker, EdgeType, States
  <2>7. Files'
    BY <1>4, <2>1, <2>2, <2>3, <2>4, <2>5, <1>a
      DEF Files, Running
  <2>8. Spacing'
    BY <1>4, <2>1, <2>2, <2>3, <2>4, <2>5, <1>a
      DEF Spacing
  <2>9. Backlog'
    BY <1>4, <2>1, <2>2, <2>3, <2>4, <2>5, <1>a
      DEF Backlog
  <2>10. Ticks'
    BY <1>4, <2>1, <2>2, <2>3, <2>4, <2>5, <1>a
      DEF Ticks
  <2>11. Tracks'
    BY <1>4, <2>1, <2>2, <2>3, <2>4, <2>5, <1>a
      DEF Tracks
  <2>12. QED
    BY <2>6, <2>7, <2>8, <2>9, <2>10, <2>11
<1>5. CASE StreamFails
  <2>1. TypeOK'
    BY <1>5, <1>a
      DEF StreamFails, TypeOK, Tracker, EdgeType, States
  <2>2. Files'
    BY <1>5, <1>a
      DEF StreamFails, Files, Running
  <2>3. Spacing'
    BY <1>5, <1>a
      DEF StreamFails, Spacing
  <2>4. Backlog'
    BY <1>5, <1>a
      DEF StreamFails, Backlog
  <2>5. Ticks'
    BY <1>5, <1>a
      DEF StreamFails, Ticks
  <2>6. Tracks'
    BY <1>5, <1>a
      DEF StreamFails, Tracks
  <2>7. QED
    BY <2>1, <2>2, <2>3, <2>4, <2>5, <2>6
<1>6. CASE StreamHeals
  <2>1. TypeOK'
    BY <1>6, <1>a
      DEF StreamHeals, TypeOK, Tracker, EdgeType, States
  <2>2. Files'
    BY <1>6, <1>a
      DEF StreamHeals, Files, Running
  <2>3. Spacing'
    BY <1>6, <1>a
      DEF StreamHeals, Spacing
  <2>4. Backlog'
    BY <1>6, <1>a
      DEF StreamHeals, Backlog
  <2>5. Ticks'
    BY <1>6, <1>a
      DEF StreamHeals, Ticks
  <2>6. Tracks'
    BY <1>6, <1>a
      DEF StreamHeals, Tracks
  <2>7. QED
    BY <2>1, <2>2, <2>3, <2>4, <2>5, <2>6
<1>7. CASE RecordTick
  <2>1. Capped(Stuck, Stuck) = Stuck /\ Capped(None, Stuck) = None
    BY <1>7 DEF Capped, None
  <2>2. /\ UNCHANGED <<pc, sensor, shown, last, staging, blind, bounds>>
        /\ cool' = IF cool > 0 THEN cool - 1 ELSE 0
        /\ live' \in Tracker /\ live'.state = live.state /\ live'.since = Capped(live.since, Stuck)
        /\ run' = Capped(run, Stuck) /\ run' \in {None} \cup 0 .. Stuck
    BY <1>7, <1>a, CappedType DEF RecordTick, Advance, Tracker
  <2>3. TypeOK'
    BY <1>7, <2>1, <2>2, <1>a
      DEF RecordTick, TypeOK, Ticks, Tracker, EdgeType, States
  <2>4. Files'
    BY <1>7, <2>1, <2>2, <1>a
      DEF RecordTick, Files, Running
  <2>5. Spacing'
    BY <1>7, <2>1, <2>2, <1>a
      DEF RecordTick, Spacing
  <2>6. Backlog'
    BY <1>7, <2>1, <2>2, <1>a
      DEF RecordTick, Backlog
  <2>7. Ticks'
    BY <1>7, <2>1, <2>2, <1>a
      DEF RecordTick, Ticks
  <2>8. Tracks'
    BY <1>7, <2>1, <2>2, <1>a
      DEF RecordTick, Tracks, None
  <2>9. QED
    BY <2>3, <2>4, <2>5, <2>6, <2>7, <2>8
<1>8. CASE IdleTick
  <2>1. Capped(Stuck, Stuck) = Stuck /\ Capped(None, Stuck) = None
    BY <1>8 DEF Capped, None
  <2>2. /\ UNCHANGED <<pc, sensor, shown, last, staging, blind, bounds>>
        /\ cool' = IF cool > 0 THEN cool - 1 ELSE 0
        /\ live' \in Tracker /\ live'.state = live.state /\ live'.since = Capped(live.since, Stuck)
        /\ run' = Capped(run, Stuck) /\ run' \in {None} \cup 0 .. Stuck
    BY <1>8, <1>a, CappedType DEF IdleTick, Advance, Tracker
  <2>3. rest' \in 0 .. Cooldown /\ rest' = IF rest = Cooldown THEN rest ELSE rest + 1
    BY <1>8, <1>a DEF IdleTick, Capped, None
  <2>4. TypeOK'
    BY <1>8, <2>1, <2>2, <2>3, <1>a
      DEF IdleTick, TypeOK, Tracker, EdgeType, States
  <2>5. Files'
    BY <1>8, <2>1, <2>2, <2>3, <1>a
      DEF IdleTick, Files, Running
  <2>6. Spacing'
    BY <1>8, <2>1, <2>2, <2>3, <1>a
      DEF IdleTick, Spacing
  <2>7. Backlog'
    BY <1>8, <2>1, <2>2, <2>3, <1>a
      DEF IdleTick, Backlog
  <2>8. Ticks'
    BY <1>8, <2>1, <2>2, <2>3, <1>a
      DEF IdleTick, Ticks
  <2>9. Tracks'
    BY <1>8, <2>1, <2>2, <2>3, <1>a
      DEF IdleTick, Tracks, None
  <2>10. QED
    BY <2>4, <2>5, <2>6, <2>7, <2>8, <2>9
<1>9. CASE Probe
  <2>1. live' \in Tracker /\ run' \in {None} \cup 0 .. Stuck
    BY <1>9, <1>a, HandleTypes DEF Probe, None
  <2>2. shown' \in States \cup {"NeverObserved"}
    BY <1>9, <2>1 DEF Probe, ApplyTransition, TypeOK, Tracker
  <2>3. TypeOK'
    BY <1>9, <2>1, <2>2, <1>a
      DEF Probe, TypeOK, Tracker, EdgeType, States
  <2>4. Files'
    BY <1>9, <2>1, <2>2, <1>a
      DEF Probe, Files, Running
  <2>5. Spacing'
    BY <1>9, <2>1, <2>2, <1>a
      DEF Probe, Spacing
  <2>6. Backlog'
    BY <1>9, <2>1, <2>2, <1>a
      DEF Probe, Backlog
  <2>7. Ticks'
    BY <1>9, <2>1, <2>2, <1>a
      DEF Probe, Ticks
  <2>8. Tracks'
    BY <1>9, <2>1, <2>2, <1>a, HandleTypes
      DEF Probe, Tracks, None, Tracker, States
  <2>9. QED
    BY <2>3, <2>4, <2>5, <2>6, <2>7, <2>8
<1>10. CASE TriggerError
  <2>1. live' \in Tracker /\ live' = HandleError(live)
    BY <1>10, <1>a, HandleTypes DEF TriggerError
  <2>2. shown' \in States \cup {"NeverObserved"}
    BY <1>10, <2>1 DEF TriggerError, ApplyTransition, TypeOK, Tracker
  <2>3. TypeOK'
    BY <1>10, <2>1, <2>2, <1>a
      DEF TriggerError, TypeOK, Tracker, EdgeType, States
  <2>4. Files'
    BY <1>10, <2>1, <2>2, <1>a
      DEF TriggerError, Files, Running
  <2>5. Spacing'
    BY <1>10, <2>1, <2>2, <1>a
      DEF TriggerError, Spacing
  <2>6. Backlog'
    BY <1>10, <2>1, <2>2, <1>a
      DEF TriggerError, Backlog
  <2>7. Ticks'
    BY <1>10, <2>1, <2>2, <1>a
      DEF TriggerError, Ticks
  <2>8. Tracks'
    BY <1>10, <2>1, <2>2, <1>a, HandleTypes
      DEF TriggerError, Tracks, None
  <2>9. QED
    BY <2>3, <2>4, <2>5, <2>6, <2>7, <2>8
<1>11. CASE QuiescentEdge
  <2>1. /\ fifo' \in Seq(EdgeType) /\ Len(fifo') <= FifoDepth /\ cache' \in Levels
        /\ \A i \in 1 .. Len(fifo') : i + 1 \in 1 .. Len(fifo) /\ fifo'[i] = fifo[i + 1]
    BY <1>11, <1>a, TailEdges DEF QuiescentEdge, TakeEdge, Levels
  <2>2. TypeOK'
    BY <1>11, <2>1, <1>a
      DEF QuiescentEdge, TakeEdge, TypeOK, Tracker, EdgeType, States
  <2>3. Files'
    BY <1>11, <2>1, <1>a
      DEF QuiescentEdge, TakeEdge, Files, Running
  <2>4. Spacing'
    BY <1>11, <2>1, <1>a
      DEF QuiescentEdge, TakeEdge, Spacing
  <2>5. Backlog'
    BY <1>11, <2>1, <1>a
      DEF QuiescentEdge, TakeEdge, Backlog
  <2>6. Ticks'
    BY <1>11, <2>1, <1>a
      DEF QuiescentEdge, TakeEdge, Ticks
  <2>7. Tracks'
    BY <1>11, <2>1, <1>a
      DEF QuiescentEdge, TakeEdge, Tracks
  <2>8. QED
    BY <2>2, <2>3, <2>4, <2>5, <2>6, <2>7
<1>12. CASE CooldownSkip
  <2>1. /\ fifo' \in Seq(EdgeType) /\ Len(fifo') <= FifoDepth /\ cache' \in Levels
        /\ \A i \in 1 .. Len(fifo') : i + 1 \in 1 .. Len(fifo) /\ fifo'[i] = fifo[i + 1]
    BY <1>12, <1>a, TailEdges DEF CooldownSkip, TakeEdge, Levels
  <2>2. TypeOK'
    BY <1>12, <2>1, <1>a
      DEF CooldownSkip, TakeEdge, TypeOK, Tracker, EdgeType, States
  <2>3. Files'
    BY <1>12, <2>1, <1>a
      DEF CooldownSkip, TakeEdge, Files, Running
  <2>4. Spacing'
    BY <1>12, <2>1, <1>a
      DEF CooldownSkip, TakeEdge, Spacing
  <2>5. Backlog'
    BY <1>12, <2>1, <1>a
      DEF CooldownSkip, TakeEdge, Backlog
  <2>6. Ticks'
    BY <1>12, <2>1, <1>a
      DEF CooldownSkip, TakeEdge, Ticks
  <2>7. Tracks'
    BY <1>12, <2>1, <1>a
      DEF CooldownSkip, TakeEdge, Tracks
  <2>8. QED
    BY <2>2, <2>3, <2>4, <2>5, <2>6, <2>7
<1>13. CASE DegradedSkip
  <2>1. /\ fifo' \in Seq(EdgeType) /\ Len(fifo') <= FifoDepth /\ cache' \in Levels
        /\ \A i \in 1 .. Len(fifo') : i + 1 \in 1 .. Len(fifo) /\ fifo'[i] = fifo[i + 1]
    BY <1>13, <1>a, TailEdges DEF DegradedSkip, TakeEdge, Levels
  <2>2. TypeOK'
    BY <1>13, <2>1, <1>a
      DEF DegradedSkip, TakeEdge, StartCooldown, TypeOK, Tracker, EdgeType, States
  <2>3. Files'
    BY <1>13, <2>1, <1>a
      DEF DegradedSkip, TakeEdge, StartCooldown, Files, Running
  <2>4. Spacing'
    BY <1>13, <2>1, <1>a
      DEF DegradedSkip, TakeEdge, StartCooldown, Spacing
  <2>5. Backlog'
    BY <1>13, <2>1, <1>a
      DEF DegradedSkip, TakeEdge, StartCooldown, Backlog
  <2>6. Ticks'
    BY <1>13, <2>1, <1>a
      DEF DegradedSkip, TakeEdge, StartCooldown, Ticks
  <2>7. Tracks'
    BY <1>13, <2>1, <1>a
      DEF DegradedSkip, TakeEdge, StartCooldown, Tracks
  <2>8. QED
    BY <2>2, <2>3, <2>4, <2>5, <2>6, <2>7
<1>14. CASE DiskPressureSkip
  <2>1. /\ fifo' \in Seq(EdgeType) /\ Len(fifo') <= FifoDepth /\ cache' \in Levels
        /\ \A i \in 1 .. Len(fifo') : i + 1 \in 1 .. Len(fifo) /\ fifo'[i] = fifo[i + 1]
    BY <1>14, <1>a, TailEdges DEF DiskPressureSkip, TakeEdge, Levels
  <2>2. TypeOK'
    BY <1>14, <2>1, <1>a
      DEF DiskPressureSkip, TakeEdge, StartCooldown, TypeOK, Tracker, EdgeType, States
  <2>3. Files'
    BY <1>14, <2>1, <1>a
      DEF DiskPressureSkip, TakeEdge, StartCooldown, Files, Running
  <2>4. Spacing'
    BY <1>14, <2>1, <1>a
      DEF DiskPressureSkip, TakeEdge, StartCooldown, Spacing
  <2>5. Backlog'
    BY <1>14, <2>1, <1>a
      DEF DiskPressureSkip, TakeEdge, StartCooldown, Backlog
  <2>6. Ticks'
    BY <1>14, <2>1, <1>a
      DEF DiskPressureSkip, TakeEdge, StartCooldown, Ticks
  <2>7. Tracks'
    BY <1>14, <2>1, <1>a
      DEF DiskPressureSkip, TakeEdge, StartCooldown, Tracks
  <2>8. QED
    BY <2>2, <2>3, <2>4, <2>5, <2>6, <2>7
<1>15. CASE BeginRecording
  <2>1. /\ fifo' \in Seq(EdgeType) /\ Len(fifo') <= FifoDepth /\ cache' \in Levels
        /\ \A i \in 1 .. Len(fifo') : i + 1 \in 1 .. Len(fifo) /\ fifo'[i] = fifo[i + 1]
    BY <1>15, <1>a, TailEdges DEF BeginRecording, Levels
  <2>2. blind' \in Nat /\ file' \in 0 .. ClipBytes /\ file' # None
    BY <1>15 DEF BeginRecording, TypeOK, None
  <2>3. TypeOK'
    BY <1>15, <2>1, <2>2, <1>a
      DEF BeginRecording, Fault, TypeOK, Ticks, Tracker, EdgeType, States
  <2>4. Files'
    BY <1>15, <2>1, <2>2, <1>a
      DEF BeginRecording, Fault, Files, Running
  <2>5. Spacing'
    BY <1>15, <2>1, <2>2, <1>a
      DEF BeginRecording, Fault, Spacing
  <2>6. Backlog'
    BY <1>15, <2>1, <2>2, <1>a
      DEF BeginRecording, Fault, Backlog
  <2>7. Ticks'
    BY <1>15, <2>1, <2>2, <1>a
      DEF BeginRecording, Fault, Ticks
  <2>8. Tracks'
    BY <1>15, <2>1, <2>2, <1>a
      DEF BeginRecording, Fault, Tracks
  <2>9. QED
    BY <2>3, <2>4, <2>5, <2>6, <2>7, <2>8
<1>16. CASE RecordOk
  <2>1. TypeOK'
    BY <1>16, <1>a
      DEF RecordOk, TypeOK, Tracker, EdgeType, States
  <2>2. Files'
    BY <1>16, <1>a
      DEF RecordOk, Files, Running
  <2>3. Spacing'
    BY <1>16, <1>a
      DEF RecordOk, Spacing
  <2>4. Backlog'
    BY <1>16, <1>a
      DEF RecordOk, Backlog
  <2>5. Ticks'
    BY <1>16, <1>a
      DEF RecordOk, Ticks
  <2>6. Tracks'
    BY <1>16, <1>a
      DEF RecordOk, Tracks
  <2>7. QED
    BY <2>1, <2>2, <2>3, <2>4, <2>5, <2>6
<1>17. CASE RecordEmpty
  <2>1. TypeOK'
    BY <1>17, <1>a
      DEF RecordEmpty, Finish, StartCooldown, RemoveFile, Fault, Files, None, TypeOK, Tracker,
          EdgeType, States
  <2>2. Files'
    BY <1>17, <1>a
      DEF RecordEmpty, Finish, StartCooldown, RemoveFile, Fault, Files, Running
  <2>3. Spacing'
    BY <1>17, <1>a
      DEF RecordEmpty, Finish, StartCooldown, RemoveFile, Fault, Spacing
  <2>4. Backlog'
    BY <1>17, <1>a
      DEF RecordEmpty, Finish, StartCooldown, RemoveFile, Fault, Backlog
  <2>5. Ticks'
    BY <1>17, <1>a
      DEF RecordEmpty, Finish, StartCooldown, RemoveFile, Fault, Ticks
  <2>6. Tracks'
    BY <1>17, <1>a
      DEF RecordEmpty, Finish, StartCooldown, RemoveFile, Fault, Tracks
  <2>7. QED
    BY <2>1, <2>2, <2>3, <2>4, <2>5, <2>6
<1>18. CASE RecordFails
  <2>1. TypeOK'
    BY <1>18, <1>a
      DEF RecordFails, Finish, StartCooldown, SweepStaging, Fault, TypeOK, Tracker,
          EdgeType, States
  <2>2. Files'
    BY <1>18, <1>a
      DEF RecordFails, Finish, StartCooldown, SweepStaging, Fault, Files, Running
  <2>3. Spacing'
    BY <1>18, <1>a
      DEF RecordFails, Finish, StartCooldown, SweepStaging, Fault, Spacing
  <2>4. Backlog'
    BY <1>18, <1>a
      DEF RecordFails, Finish, StartCooldown, SweepStaging, Fault, Backlog
  <2>5. Ticks'
    BY <1>18, <1>a
      DEF RecordFails, Finish, StartCooldown, SweepStaging, Fault, Ticks
  <2>6. Tracks'
    BY <1>18, <1>a
      DEF RecordFails, Finish, StartCooldown, SweepStaging, Fault, Tracks
  <2>7. QED
    BY <2>1, <2>2, <2>3, <2>4, <2>5, <2>6
<1>19. CASE RecordHung
  <2>1. TypeOK'
    BY <1>19, <1>a
      DEF RecordHung, Finish, StartCooldown, SweepStaging, Fault, TypeOK, Tracker,
          EdgeType, States
  <2>2. Files'
    BY <1>19, <1>a
      DEF RecordHung, Finish, StartCooldown, SweepStaging, Fault, Files, Running
  <2>3. Spacing'
    BY <1>19, <1>a
      DEF RecordHung, Finish, StartCooldown, SweepStaging, Fault, Spacing
  <2>4. Backlog'
    BY <1>19, <1>a
      DEF RecordHung, Finish, StartCooldown, SweepStaging, Fault, Backlog
  <2>5. Ticks'
    BY <1>19, <1>a
      DEF RecordHung, Finish, StartCooldown, SweepStaging, Fault, Ticks
  <2>6. Tracks'
    BY <1>19, <1>a
      DEF RecordHung, Finish, StartCooldown, SweepStaging, Fault, Tracks
  <2>7. QED
    BY <2>1, <2>2, <2>3, <2>4, <2>5, <2>6
<1>20. CASE SubmitOk
  <2>1. TypeOK'
    BY <1>20, <1>a
      DEF SubmitOk, Finish, StartCooldown, RemoveFile, Fault, Files, None, TypeOK, Tracker, EdgeType,
          States
  <2>2. Files'
    BY <1>20, <1>a
      DEF SubmitOk, Finish, StartCooldown, RemoveFile, Fault, Files, Running
  <2>3. Spacing'
    BY <1>20, <1>a
      DEF SubmitOk, Finish, StartCooldown, RemoveFile, Fault, Spacing
  <2>4. Backlog'
    BY <1>20, <1>a
      DEF SubmitOk, Finish, StartCooldown, RemoveFile, Fault, Backlog
  <2>5. Ticks'
    BY <1>20, <1>a
      DEF SubmitOk, Finish, StartCooldown, RemoveFile, Fault, Ticks
  <2>6. Tracks'
    BY <1>20, <1>a
      DEF SubmitOk, Finish, StartCooldown, RemoveFile, Fault, Tracks
  <2>7. QED
    BY <2>1, <2>2, <2>3, <2>4, <2>5, <2>6
<1>21. CASE SubmitRefused
  <2>1. TypeOK'
    BY <1>21, <1>a
      DEF SubmitRefused, Finish, StartCooldown, RemoveFile, Fault, Files, None, TypeOK, Tracker,
          EdgeType, States
  <2>2. Files'
    BY <1>21, <1>a
      DEF SubmitRefused, Finish, StartCooldown, RemoveFile, Fault, Files, Running
  <2>3. Spacing'
    BY <1>21, <1>a
      DEF SubmitRefused, Finish, StartCooldown, RemoveFile, Fault, Spacing
  <2>4. Backlog'
    BY <1>21, <1>a
      DEF SubmitRefused, Finish, StartCooldown, RemoveFile, Fault, Backlog
  <2>5. Ticks'
    BY <1>21, <1>a
      DEF SubmitRefused, Finish, StartCooldown, RemoveFile, Fault, Ticks
  <2>6. Tracks'
    BY <1>21, <1>a
      DEF SubmitRefused, Finish, StartCooldown, RemoveFile, Fault, Tracks
  <2>7. QED
    BY <2>1, <2>2, <2>3, <2>4, <2>5, <2>6
<1>22. CASE UNCHANGED vars
  BY <1>22
    DEF vars, TypeOK, Files, Running, Spacing, Backlog, Ticks, Tracks
<1>23. QED
  BY <1>1, <1>2, <1>3, <1>4, <1>5, <1>6, <1>7, <1>8, <1>9, <1>10, <1>11, <1>12, <1>13,
      <1>14, <1>15, <1>16, <1>17, <1>18, <1>19, <1>20, <1>21, <1>22
    DEF Next, Edge, Submit

-----------------------------------------------------------------------------
\* The process is down and capture-staging/ is empty.
LEMMA InvInit == Init => IInv
<1> SUFFICES ASSUME Init PROVE IInv
  OBVIOUS
<1> USE CaptureConstants
<1>1. fifo \in Seq(EdgeType) /\ Len(fifo) = 0
  BY DEF Init
<1>2. blind \in Nat /\ lost \in BOOLEAN
  BY DEF Init
<1>3. live \in Tracker /\ live.state = "Healthy" /\ live.since = None /\ run = None
  BY DEF Init, Tracker, States
<1>4. TypeOK
  BY <1>1, <1>2, <1>3 DEF Init, TypeOK, Tracker, EdgeType, States, Levels
<1>5. Files /\ Spacing /\ Backlog /\ Ticks
  BY <1>1 DEF Init, Files, Running, Spacing, Backlog, Ticks
<1>6. Tracks
  BY <1>3 DEF Tracks, None
<1>7. QED
  BY <1>4, <1>5, <1>6 DEF IInv

\* The inductive invariant holds in every reachable state.
THEOREM SupervisorInvariant == Spec => []IInv
BY InvInit, InvStep, PTL DEF Spec

\* Every variable stays in its type; in particular no more than RecordLimit + 1
\* liveness ticks ever wait, and no recording outlives its time-out.
THEOREM SupervisorTypes == Spec => []TypeOK
<1>1. IInv => TypeOK
  BY CaptureConstants DEF IInv
<1>2. QED
  BY <1>1, SupervisorInvariant, PTL

\* Every file left in capture-staging/ between triggers is one failed removal.
THEOREM NoLeak == Spec => []LeftoversNeedFaults
<1>1. IInv => LeftoversNeedFaults
  BY CaptureConstants DEF IInv, Files, Running, LeftoversNeedFaults
<1>2. QED
  BY <1>1, SupervisorInvariant, PTL

\* One more recording let through unread adds one recording to the allowance.
LEMMA AllowanceGrows ==
    ASSUME NEW n \in Nat, NEW b \in Nat
    PROVE  /\ b * (1 + n) \in Nat /\ b <= b * (1 + n)
           /\ b * (1 + (n + 1)) = b * (1 + n) + b
<1>1. b * n \in Nat /\ b * (1 + n) = b * n + b /\ b * (1 + (n + 1)) = b * n + b + b
  OBVIOUS
<1>2. QED
  BY <1>1

\* Only the camera adds to capture-staging/: every other step of a running supervisor
\* removes a file, or leaves it behind for a leftover.
LEMMA FootprintMoves ==
    ASSUME IInv, Next, Running', ~Start, ~BeginRecording
    PROVE  Running /\ Footprint' <= Footprint /\ blind' = blind
<1> USE DEF Footprint, Running
<1>1. file \in {None} \cup Nat /\ held \in Nat /\ (pc \in {"recording", "submitting"} => file # None)
  BY CaptureConstants DEF IInv, TypeOK, Files
<1>2. CASE StartDisabled \/ Stop
  BY <1>2 DEF StartDisabled, Stop
<1>3. CASE Flip \/ StreamFails \/ StreamHeals \/ RecordTick \/ IdleTick \/ Probe \/ TriggerError
           \/ QuiescentEdge \/ CooldownSkip \/ DegradedSkip \/ DiskPressureSkip \/ RecordOk
  <2>1. UNCHANGED <<file, held, blind>> /\ Running
    BY <1>3 DEF Flip, StreamFails, StreamHeals, RecordTick, IdleTick, Advance, Probe,
        TriggerError, QuiescentEdge, CooldownSkip, DegradedSkip, DiskPressureSkip, TakeEdge,
        RecordOk
  <2>2. QED
    BY <1>1, <2>1, CaptureConstants DEF None
<1>4. CASE RecordEmpty \/ SubmitOk \/ SubmitRefused
  BY <1>1, <1>4 DEF RecordEmpty, SubmitOk, SubmitRefused, RemoveFile, Finish, None
<1>5. CASE RecordFails \/ RecordHung
  BY <1>1, <1>5 DEF RecordFails, RecordHung, SweepStaging, Finish, None
<1>6. QED
  BY <1>2, <1>3, <1>4, <1>5 DEF Next, Edge, Submit

\* The gate of handle_trigger keeps the footprint under the ceiling plus the allowance.
LEMMA FootprintStep ==
    ASSUME IInv, IInv', FootprintBounded, [Next]_vars PROVE FootprintBounded'
<1>1. /\ StagingCap \in Nat /\ ClipBytes \in Nat /\ ClipBytes > 0
      /\ held \in Nat /\ blind \in Nat /\ (file = None \/ file \in Nat)
      /\ held' \in Nat /\ blind' \in Nat /\ (file' = None \/ file' \in Nat)
  <2>1. /\ held \in Nat /\ blind \in Nat /\ file \in {None} \cup 0 .. ClipBytes
        /\ held' \in Nat /\ blind' \in Nat /\ file' \in {None} \cup 0 .. ClipBytes
    BY DEF IInv, TypeOK
  <2>2. StagingCap \in Nat /\ ClipBytes \in Nat /\ ClipBytes > 0
    BY CaptureConstants
  <2>3. QED
    BY <2>1, <2>2
<1>2. Footprint \in Nat
  BY <1>1 DEF Footprint
<1>3. Footprint' \in Nat
  BY <1>1 DEF Footprint
<1>4. /\ Allowance \in Nat /\ Allowance' \in Nat
      /\ ClipBytes <= Allowance'
      /\ blind' = blind => Allowance' = Allowance
      /\ blind' = blind + 1 => Allowance' = Allowance + ClipBytes
  BY <1>1, AllowanceGrows DEF Allowance
<1>5. /\ FootprintBounded <=> (Running => Footprint < StagingCap + Allowance)
      /\ FootprintBounded' <=> (Running' => Footprint' < StagingCap + Allowance')
  BY DEF FootprintBounded, Allowance
<1>6. CASE Start
  <2>1. Footprint' = 0
    BY <1>6 DEF Start, PurgeStaging, Footprint, IInv, Files
  <2>2. \A cap, b, a \in Nat : b > 0 /\ b <= a => 0 < cap + a
    OBVIOUS
  <2>3. QED
    BY <1>1, <1>4, <1>5, <2>1, <2>2, Zenon
<1>7. CASE BeginRecording
  <2>1. Running /\ Footprint = held
    BY <1>7 DEF BeginRecording, Running, Footprint, IInv, Files
  <2>2. (held < StagingCap /\ blind' = blind) \/ blind' = blind + 1
    BY <1>1, <1>7 DEF BeginRecording, UnderPressure
  <2>3. file' \in Nat /\ file' <= ClipBytes /\ held' = held
    BY <1>1, <1>7 DEF BeginRecording
  <2>4. Footprint' = held \/ Footprint' = held + file'
    BY <2>3 DEF Footprint
  <2>5. \A h, f, cap, b, a, c \in Nat :
            /\ f <= b /\ b <= c
            /\ h < cap \/ (h < cap + a /\ c = a + b)
            => h < cap + c /\ h + f < cap + c
    OBVIOUS
  <2>6. held < StagingCap \/ (held < StagingCap + Allowance /\ Allowance' = Allowance + ClipBytes)
    BY <1>4, <1>5, <2>1, <2>2, Zenon
  <2>7. held < StagingCap + Allowance' /\ held + file' < StagingCap + Allowance'
    BY <1>1, <1>4, <2>3, <2>5, <2>6, Zenon
  <2>8. QED
    BY <1>5, <2>4, <2>7, Zenon
<1>8. CASE Next /\ ~Start /\ ~BeginRecording
  <2>1. Running' => Running /\ Footprint' <= Footprint /\ blind' = blind
    BY <1>8, FootprintMoves
  <2>2. \A f, g, m \in Nat : g <= f /\ f < m => g < m
    OBVIOUS
  <2>3. StagingCap + Allowance \in Nat
    BY <1>1, <1>4
  <2>4. QED
    BY <1>2, <1>3, <1>4, <1>5, <2>1, <2>2, <2>3, Zenon
<1>9. CASE UNCHANGED vars
  BY <1>9 DEF vars, FootprintBounded, Footprint, Running
<1>10. QED
  BY <1>6, <1>7, <1>8, <1>9

\* capture-staging/ exceeds max_staging_bytes by less than one recording, and by one more
\* for every trigger let through because the footprint could not be read.
THEOREM FootprintIsBounded == Spec => []FootprintBounded
<1>1. Init => FootprintBounded
  BY DEF Init, FootprintBounded, Running
<1>2. IInv /\ IInv' /\ FootprintBounded /\ [Next]_vars => FootprintBounded'
  BY FootprintStep
<1>3. QED
  BY <1>1, <1>2, SupervisorInvariant, PTL DEF Spec

\* What a running supervisor does to the level it will have read.
LEMMA CacheStep ==
    ASSUME IInv, CacheCatchesUp, [Next]_vars PROVE CacheCatchesUp'
<1>1. fifo \in Seq(EdgeType) /\ Len(fifo) \in Nat
  BY DEF IInv, TypeOK, EdgeType
<1>2. CASE Start \/ Stop \/ StartDisabled
  BY <1>2 DEF Start, Stop, StartDisabled, Fresh, OpenSensor, CacheCatchesUp, LevelAhead, Running
<1>3. CASE Flip
  <2> DEFINE e == [level |-> line', stale |-> pc # "idle"]
  <2>1. UNCHANGED pc /\ e \in EdgeType /\ e.level = line'
    BY <1>3 DEF Flip, EdgeType, Levels
  <2>2. CASE Running /\ Len(fifo) < FifoDepth
    <3>1. fifo' = Append(fifo, e)
      BY <1>3, <2>2 DEF Flip
    <3>2. fifo' # <<>> /\ fifo'[Len(fifo')] = e
      BY <1>1, <2>1, <3>1
    <3>3. QED
      BY <2>1, <3>2 DEF CacheCatchesUp, LevelAhead
  <2>3. CASE ~(Running /\ Len(fifo) < FifoDepth)
    BY <1>3, <2>1, <2>3 DEF Flip, CacheCatchesUp, Running
  <2>4. QED
    BY <2>2, <2>3
<1>4. CASE Edge
  <2>1. /\ fifo # <<>> /\ fifo' = Tail(fifo) /\ cache' = Head(fifo).level
        /\ line' = line /\ lost' = lost /\ pc = "idle"
    BY <1>4 DEF Edge, QuiescentEdge, CooldownSkip, DegradedSkip, DiskPressureSkip, BeginRecording,
        TakeEdge
  <2>2. LevelAhead' = LevelAhead
    <3>1. CASE Len(fifo) = 1
      BY <1>1, <2>1, <3>1 DEF LevelAhead
    <3>2. CASE Len(fifo) # 1
      <4>0. /\ Tail(fifo) \in Seq(EdgeType) /\ Len(Tail(fifo)) = Len(fifo) - 1
            /\ \A i \in 1 .. Len(Tail(fifo)) : Tail(fifo)[i] = fifo[i + 1]
            /\ 1 \in 1 .. Len(fifo)
        BY <1>1, <2>1, TailEdges
      <4>1a. Len(fifo) - 1 \in 1 .. Len(fifo) - 1 /\ (Len(fifo) - 1) + 1 = Len(fifo)
        BY <1>1, <3>2, <4>0
      <4>1. Tail(fifo)[Len(Tail(fifo))] = fifo[Len(fifo)]
        BY <4>0, <4>1a
      <4>2. Tail(fifo) # <<>>
        BY <4>0, <4>1a
      <4>3. QED
        BY <2>1, <4>1, <4>2 DEF LevelAhead
    <3>3. QED
      BY <3>1, <3>2
  <2>3. QED
    BY <2>1, <2>2 DEF CacheCatchesUp, Running
<1>5. CASE \/ StreamFails \/ StreamHeals \/ RecordTick \/ IdleTick \/ Probe \/ TriggerError
           \/ RecordOk \/ RecordEmpty \/ RecordFails \/ RecordHung \/ Submit \/ UNCHANGED vars
  <2>1. UNCHANGED <<line, fifo, cache, lost>> /\ (Running' => Running)
    BY <1>5 DEF StreamFails, StreamHeals, RecordTick, IdleTick, Advance, Probe, TriggerError,
        RecordOk, RecordEmpty, RecordFails, RecordHung, Submit, SubmitOk, SubmitRefused, Finish,
        Running, vars
  <2>2. QED
    BY <2>1 DEF CacheCatchesUp, LevelAhead
<1>6. QED
  BY <1>2, <1>3, <1>4, <1>5 DEF Next

\* A stale level cache is corrected by the edges that wait, unless the FIFO was full when
\* the line last changed.
THEOREM CacheIsCorrected == Spec => []CacheCatchesUp
<1>1. Init => CacheCatchesUp
  BY DEF Init, CacheCatchesUp, Running
<1>2. IInv /\ CacheCatchesUp /\ [Next]_vars => CacheCatchesUp'
  BY CacheStep
<1>3. QED
  BY <1>1, <1>2, SupervisorInvariant, PTL DEF Spec

\* The tracker says stuck exactly after Stuck units of Asserted readings.
THEOREM StuckIsExact == Spec => []StuckExact
<1>1. IInv => StuckExact
  BY CaptureConstants DEF IInv, Tracks, StuckExact
<1>2. QED
  BY <1>1, SupervisorInvariant, PTL

\* A recording starts nowhere but at the end of handle_trigger's gates.
LEMMA OnlyBeginRecords == [Next]_vars /\ pc = "idle" /\ pc' = "recording" => BeginRecording
BY DEF Next, vars, Start, StartDisabled, Stop, Flip, StreamFails, StreamHeals, RecordTick,
       IdleTick, Advance, Probe, TriggerError, Edge, QuiescentEdge, CooldownSkip,
       DegradedSkip, DiskPressureSkip, RecordOk, RecordEmpty, RecordFails, RecordHung,
       Submit, SubmitOk, SubmitRefused, Finish

\* Two recordings of one process are a full cooldown apart.
THEOREM RecordingsAreSpaced == Spec => RecordingsSpaced
<1>1. IInv /\ [Next]_vars => [pc = "idle" /\ pc' = "recording" => rest = Cooldown]_vars
  BY OnlyBeginRecords, CaptureConstants DEF IInv, TypeOK, Spacing, BeginRecording
<1>2. QED
  BY <1>1, SupervisorInvariant, PTL DEF Spec, RecordingsSpaced

\* The edges that came while a trigger was handled never start a recording.
THEOREM StaleEdgesAreSkipped == Spec => StaleEdgesSkipped
<1>1. IInv /\ [Next]_vars =>
        [pc = "idle" /\ pc' = "recording" => ~Head(fifo).stale \/ outages > 0]_vars
  <2> SUFFICES ASSUME IInv, BeginRecording, outages = 0 PROVE ~Head(fifo).stale
    BY OnlyBeginRecords DEF IInv, TypeOK
  <2>1. fifo \in Seq(EdgeType) /\ fifo # <<>> /\ cool = 0 /\ pc = "idle"
    BY DEF IInv, TypeOK, BeginRecording, EdgeType
  <2>2. Head(fifo) = fifo[1] /\ 1 \in 1 .. Len(fifo)
    BY <2>1, TailEdges
  <2>3. QED
    BY <2>1, <2>2, CaptureConstants DEF IInv, Backlog
<1>2. QED
  BY <1>1, SupervisorInvariant, PTL DEF Spec, StaleEdgesSkipped

=============================================================================
