-------------------------- MODULE CaptureSupervisor --------------------------
(***************************************************************************)
(* The capture supervisor: one select! loop over the motion sensor's edges *)
(* and a liveness tick. A trigger that passes the cooldown, liveness and   *)
(* disk-pressure gates records a clip into capture-staging/ and submits it *)
(* to the queue. The loop awaits the whole handler, so while it records    *)
(* nothing else is looked at: edges wait in the kernel's FIFO, liveness    *)
(* ticks pile up, and the cached line level grows stale.                   *)
(*                                                                         *)
(* One unit of time is liveness_poll_secs. Deadlines are kept as the time  *)
(* left and starts as the time since, which assumes a monotonic clock. The *)
(* idle loop handles what is ready before another unit passes.             *)
(* DurationOverflow is left out: Config::validate bounds both durations,   *)
(* so the sum cannot overflow.                                             *)
(***************************************************************************)
EXTENDS Integers, Sequences

CONSTANTS
    Cooldown,      \* capture.cooldown_secs, at least 1 (Config::validate)
    RecordLimit,   \* clip_duration_secs + hang_margin_secs
    Stuck,         \* capture.liveness_stuck_secs, at least 1
    StagingCap,    \* capture.max_staging_bytes
    ClipBytes,     \* what a recording can grow to (bit rate and time-out)
    FifoDepth,     \* edges the kernel buffers for the line
    MaxFaults,     \* bound: file operations on capture-staging/ that fail
    MaxOutages,    \* bound: how often the sensor's event stream fails
    MaxStops       \* bound: how often the process stops

ASSUME CaptureConstants ==
    /\ Cooldown \in Nat \ {0} /\ RecordLimit \in Nat \ {0} /\ Stuck \in Nat \ {0}
    /\ StagingCap \in Nat /\ ClipBytes \in Nat \ {0} /\ FifoDepth \in Nat \ {0}
    /\ MaxFaults \in Nat /\ MaxOutages \in Nat /\ MaxStops \in Nat

VARIABLES
    pc,        \* "off", "disabled" (serve runs without capture), "idle", "recording", "submitting"
    line,      \* the level of the sensor's line
    fifo,      \* its buffered edges; stale: it came while a trigger was handled
    chan,      \* the event stream: "ok", or "err" while next_trigger fails
    cache,     \* GpioMotionSensor.current_level
    live,      \* SensorLivenessTracker: state and time since asserted_since
    due,       \* liveness ticks that have fired and are not yet handled
    shown,     \* CaptureState.sensor_liveness
    last,      \* CaptureState.last_failure: "none" or "failed"; the kinds are labels
    cool,      \* time until CooldownState.until
    file,      \* bytes of the file of the recording at hand, None if there is none
    junk,      \* other files in capture-staging/
    held,      \*     and their bytes
    elapsed,   \* how long the recording has run
    rest,      \* history: time since the last recording was over
    run,       \* history: time since the first of the unbroken Asserted readings
    blind,     \* history: recordings begun although the footprint was unknown
    lost,      \* history: the line's last edge was dropped
    faults, outages, stops   \* used parts of the bounds

sensor  == <<line, fifo, chan, cache, lost>>
tracker == <<live, due, shown, run>>
staging == <<file, junk, held>>
bounds  == <<faults, outages, stops>>
vars    == <<pc, sensor, tracker, last, cool, staging, elapsed, rest, blind, bounds>>

None   == -1
Levels == {"Asserted", "Quiescent"}
States == {"Healthy", "StuckAsserted", "Unavailable"}

Capped(t, max) == IF t = None \/ t = max THEN t ELSE t + 1

Init ==
    /\ pc = "off" /\ line \in Levels /\ fifo = <<>> /\ chan = "ok" /\ cache = "Quiescent"
    /\ lost = FALSE
    /\ live = [state |-> "Healthy", since |-> None] /\ due = 0
    /\ shown = "NeverObserved" /\ run = None
    /\ last = "none" /\ cool = 0 /\ file = None /\ junk = 0 /\ held = 0
    /\ elapsed = 0 /\ rest = Cooldown /\ blind = 0
    /\ faults = 0 /\ outages = 0 /\ stops = 0

\* The supervisor's task is alive.
Running == pc \in {"idle", "recording", "submitting"}

\* A file operation fails.
Fault == faults < MaxFaults /\ faults' = faults + 1

-----------------------------------------------------------------------------
(* Starting and stopping.                                                   *)

\* Mutant of OpenSensor: the cache starts as the rest level.
OpenSensorUnseeded == fifo' = <<>> /\ cache' = "Quiescent" /\ lost' = FALSE

\* GpioMotionSensor::new subscribes to edges and seeds the level cache.
OpenSensor == fifo' = <<>> /\ cache' = line /\ lost' = FALSE

\* staging::purge; it stops at the first file it cannot remove.
PurgeStaging == junk' = 0 /\ held' = 0
PurgeFails   == Fault /\ junk' \in 0 .. junk /\ held' \in 0 .. held

\* Capture::new: nothing of an earlier process is left but the files.
Fresh ==
    /\ OpenSensor
    /\ live' = [state |-> "Healthy", since |-> None] /\ due' = 0
    /\ shown' = "NeverObserved" /\ run' = None
    /\ last' = "none" /\ cool' = 0 /\ rest' = Cooldown /\ blind' = 0

\* Mutant of Start: the startup purge is forgotten.
StartUnpurged ==
    /\ pc = "off" /\ chan = "ok"
    /\ pc' = "idle" /\ Fresh
    /\ UNCHANGED <<line, chan, staging, elapsed, bounds>>

\* serve purges capture-staging/, opens the sensor and spawns the supervisor.
Start ==
    /\ pc = "off" /\ chan = "ok"
    /\ PurgeStaging /\ pc' = "idle" /\ Fresh
    /\ UNCHANGED <<line, chan, file, elapsed, bounds>>

\* The purge fails, or the sensor does not open: serve goes on without capture.
StartDisabled ==
    /\ pc = "off"
    /\ PurgeFails \/ (PurgeStaging /\ chan = "err" /\ UNCHANGED faults)
    /\ pc' = "disabled"
    /\ UNCHANGED <<sensor, tracker, last, cool, file, elapsed, rest, blind, outages, stops>>

\* Power loss, or shutdown not waiting for a handler: the file stays behind.
Stop ==
    /\ pc # "off" /\ stops < MaxStops /\ stops' = stops + 1
    /\ pc' = "off" /\ elapsed' = 0
    /\ file' = None
    /\ IF file = None THEN UNCHANGED <<junk, held>> ELSE junk' = junk + 1 /\ held' = held + file
    /\ Fresh
    /\ UNCHANGED <<line, chan, faults, outages>>

-----------------------------------------------------------------------------
(* The sensor and the clock.                                                *)

\* The line changes; an edge that finds the FIFO full is dropped.
Flip ==
    /\ line' = IF line = "Asserted" THEN "Quiescent" ELSE "Asserted"
    /\ IF Running /\ Len(fifo) < FifoDepth
          THEN fifo' = Append(fifo, [level |-> line', stale |-> pc # "idle"]) /\ lost' = FALSE
          ELSE fifo' = fifo /\ lost' = Running
    /\ UNCHANGED <<pc, chan, cache, tracker, last, cool, staging, elapsed, rest, blind, bounds>>

StreamFails ==
    /\ chan = "ok" /\ outages < MaxOutages
    /\ chan' = "err" /\ outages' = outages + 1
    /\ UNCHANGED <<pc, line, fifo, cache, lost, tracker, last, cool, staging, elapsed, rest,
                   blind, faults, stops>>

StreamHeals ==
    /\ chan = "err" /\ chan' = "ok"
    /\ UNCHANGED <<pc, line, fifo, cache, lost, tracker, last, cool, staging, elapsed, rest, blind,
                   bounds>>

\* What every unit of time does to the supervisor's deadlines.
Advance ==
    /\ cool' = IF cool > 0 THEN cool - 1 ELSE 0
    /\ live' = [live EXCEPT !.since = Capped(live.since, Stuck)]
    /\ run' = Capped(run, Stuck)
    /\ UNCHANGED <<pc, sensor, shown, last, staging, blind, bounds>>

\* Mutant of RecordTick: nothing bounds a recording.
RecordTickUnbounded ==
    /\ pc = "recording"
    /\ elapsed' = elapsed + 1 /\ due' = due + 1
    /\ Advance /\ UNCHANGED rest

\* The time-out of record_into_staging bounds a recording.
RecordTick ==
    /\ pc = "recording" /\ elapsed < RecordLimit
    /\ elapsed' = elapsed + 1 /\ due' = due + 1
    /\ Advance /\ UNCHANGED rest

\* Mutant of IdleTick: the loop sleeps the cooldown out before it reads on.
IdleTickAsleep ==
    /\ pc = "idle" /\ due = 0 /\ (fifo = <<>> \/ chan = "err" \/ cool > 0)
    /\ due' = 1 /\ rest' = Capped(rest, Cooldown)
    /\ Advance /\ UNCHANGED elapsed

\* The loop waits in select! with nothing ready.
IdleTick ==
    /\ pc = "idle" /\ due = 0 /\ (fifo = <<>> \/ chan = "err")
    /\ due' = 1 /\ rest' = Capped(rest, Cooldown)
    /\ Advance /\ UNCHANGED elapsed

-----------------------------------------------------------------------------
(* SensorLivenessTracker, and its projection.                               *)

HandleError(t) ==
    IF t.state = "Unavailable" THEN t ELSE [state |-> "Unavailable", since |-> None]

HandleAsserted(t) ==
    LET started == IF t.since = None THEN 0 ELSE t.since
    IN  CASE t.state = "Unavailable"   -> [state |-> "Healthy", since |-> 0]
          [] t.state = "StuckAsserted" -> t
          [] t.state = "Healthy"       ->
               [state |-> IF started >= Stuck THEN "StuckAsserted" ELSE "Healthy",
                since |-> started]

\* Mutant of HandleQuiescent: a healthy sensor keeps its asserted_since.
QuiescentKeepsSince(t) == IF t.state = "Healthy" THEN t ELSE [state |-> "Healthy", since |-> None]

\* Mutant of HandleQuiescent: only a stuck sensor recovers.
QuiescentUnsticks(t) == IF t.state = "Unavailable" THEN t ELSE [state |-> "Healthy", since |-> None]

HandleQuiescent(t) == [state |-> "Healthy", since |-> None]

ApplyTransition == shown' = IF live'.state = live.state THEN shown ELSE live'.state

\* update_liveness. GpioMotionSensor answers from its cache even while its
\* stream fails; another adapter may report the failure.
Probe ==
    /\ pc = "idle" /\ due > 0
    /\ due' = due - 1
    /\ \/ /\ chan = "err"
          /\ live' = HandleError(live) /\ run' = None
       \/ /\ cache = "Asserted"
          /\ live' = HandleAsserted(live) /\ run' = IF run = None THEN 0 ELSE run
       \/ /\ cache = "Quiescent"
          /\ live' = HandleQuiescent(live) /\ run' = None
    /\ ApplyTransition
    /\ UNCHANGED <<pc, sensor, last, cool, staging, elapsed, rest, blind, bounds>>

\* next_trigger fails: handle_trigger's error arm.
TriggerError ==
    /\ pc = "idle" /\ chan = "err"
    /\ live' = HandleError(live) /\ run' = None /\ ApplyTransition
    /\ UNCHANGED <<pc, sensor, due, last, cool, staging, elapsed, rest, blind, bounds>>

-----------------------------------------------------------------------------
(* handle_trigger up to the recording.                                      *)

\* next_trigger reads an edge and notes the level it leads to.
TakeEdge(level) ==
    /\ pc = "idle" /\ chan = "ok" /\ fifo # <<>> /\ Head(fifo).level = level
    /\ fifo' = Tail(fifo) /\ cache' = level
    /\ UNCHANGED <<line, chan, lost, tracker, file, elapsed, rest, outages, stops>>

StartCooldown == cool' = Cooldown

\* A quiescent edge is no trigger.
QuiescentEdge ==
    /\ TakeEdge("Quiescent")
    /\ UNCHANGED <<pc, last, cool, junk, held, blind, faults>>

CooldownSkip ==
    /\ TakeEdge("Asserted") /\ cool > 0
    /\ UNCHANGED <<pc, last, cool, junk, held, blind, faults>>

DegradedSkip ==
    /\ TakeEdge("Asserted") /\ cool = 0 /\ live.state # "Healthy"
    /\ StartCooldown
    /\ UNCHANGED <<pc, last, junk, held, blind, faults>>

\* Mutant of UnderPressure: the bound itself is still accepted.
OverPressure == held > StagingCap

\* What the clip about to be recorded will add is not counted.
UnderPressure == held >= StagingCap

DiskPressureSkip ==
    /\ TakeEdge("Asserted") /\ cool = 0 /\ live.state = "Healthy" /\ UnderPressure
    /\ last' = "failed" /\ StartCooldown
    /\ UNCHANGED <<pc, junk, held, blind, faults>>

\* Every gate passed, or the footprint could not be read: the camera starts.
BeginRecording ==
    /\ pc = "idle" /\ chan = "ok" /\ fifo # <<>> /\ Head(fifo).level = "Asserted"
    /\ cool = 0 /\ live.state = "Healthy"
    /\ \/ ~UnderPressure /\ UNCHANGED <<blind, faults>>
       \/ Fault /\ blind' = blind + 1
    /\ fifo' = Tail(fifo) /\ cache' = "Asserted"
    /\ pc' = "recording" /\ elapsed' = 0 /\ file' \in 0 .. ClipBytes
    /\ UNCHANGED <<line, chan, lost, tracker, last, cool, junk, held, rest, outages, stops>>

-----------------------------------------------------------------------------
(* record_into_staging and submit_clip.                                     *)

\* The handler returns: with a cooldown, whatever came of the trigger.
Finish(outcome) ==
    /\ pc' = "idle" /\ file' = None /\ elapsed' = 0 /\ rest' = 0
    /\ last' = outcome /\ StartCooldown
    /\ UNCHANGED <<sensor, tracker, blind, outages, stops>>

\* Removing the recording's file is best effort.
RemoveFile ==
    \/ UNCHANGED <<junk, held, faults>>
    \/ junk' = junk + 1 /\ held' = held + file /\ Fault

\* sweep_staging removes whatever lies in the directory, best effort.
SweepStaging ==
    \/ junk' = 0 /\ held' = 0 /\ UNCHANGED faults
    \/ junk' \in 1 .. junk + 1 /\ held' \in 0 .. held + file /\ Fault

RecordOk ==
    /\ pc = "recording"
    /\ pc' = "submitting" /\ elapsed' = 0
    /\ UNCHANGED <<sensor, tracker, last, cool, staging, rest, blind, bounds>>

\* The adapter says Ok and reports no bytes (EmptyClip).
RecordEmpty == pc = "recording" /\ RemoveFile /\ Finish("failed")

RecordFails == pc = "recording" /\ SweepStaging /\ Finish("failed")

\* Mutant of RecordHung: a hung adapter is waited for.
RecordHungForever == pc = "recording" /\ elapsed > RecordLimit /\ SweepStaging /\ Finish("failed")

\* The time-out drops the recording; the adapter's guard kills the camera.
RecordHung == pc = "recording" /\ elapsed = RecordLimit /\ SweepStaging /\ Finish("failed")

\* The queue has renamed the file, or copied it and then removed it.
SubmitOk == pc = "submitting" /\ RemoveFile /\ Finish("none")

\* Mutant of SubmitRefused: a refused clip starts no cooldown.
SubmitRefusedHot ==
    /\ pc = "submitting" /\ RemoveFile
    /\ pc' = "idle" /\ file' = None /\ elapsed' = 0 /\ rest' = 0 /\ last' = "failed"
    /\ UNCHANGED <<sensor, tracker, cool, blind, outages, stops>>

\* InboxError: the policy refuses the clip, or the queue's files fail.
SubmitRefused == pc = "submitting" /\ RemoveFile /\ Finish("failed")

-----------------------------------------------------------------------------
Edge == QuiescentEdge \/ CooldownSkip \/ DegradedSkip \/ DiskPressureSkip \/ BeginRecording

Submit == SubmitOk \/ SubmitRefused

Next ==
    \/ Start \/ StartDisabled \/ Stop \/ Flip \/ StreamFails \/ StreamHeals
    \/ RecordTick \/ IdleTick \/ Probe \/ TriggerError \/ Edge
    \/ RecordOk \/ RecordEmpty \/ RecordFails \/ RecordHung \/ Submit

Spec == Init /\ [][Next]_vars

\* Time passes, the runtime polls the loop (select! starts at a random branch),
\* the outer time-out fires and local submissions return. Nothing is assumed of
\* the camera, of the sensor or of the administrator.
Fairness ==
    /\ WF_vars(RecordTick) /\ WF_vars(IdleTick) /\ SF_vars(Probe) /\ WF_vars(Edge)
    /\ WF_vars(RecordHung) /\ WF_vars(Submit)

FairSpec == Spec /\ Fairness

-----------------------------------------------------------------------------
(* Properties.                                                              *)

\* Every variable stays in its type; a recording outlives no time-out.
TypeOK ==
    /\ pc \in {"off", "disabled", "idle", "recording", "submitting"}
    /\ line \in Levels /\ chan \in {"ok", "err"} /\ cache \in Levels
    /\ fifo \in Seq([level: Levels, stale: BOOLEAN]) /\ Len(fifo) <= FifoDepth
    /\ live \in [state: States, since: {None} \cup 0 .. Stuck]
    /\ run \in {None} \cup 0 .. Stuck /\ due \in 0 .. RecordLimit + 1
    /\ shown \in States \cup {"NeverObserved"}
    /\ last \in {"none", "failed"}
    /\ cool \in 0 .. Cooldown /\ rest \in 0 .. Cooldown /\ elapsed \in 0 .. RecordLimit
    /\ file \in {None} \cup 0 .. ClipBytes /\ junk \in Nat /\ held \in Nat
    /\ blind \in Nat /\ lost \in BOOLEAN
    /\ faults \in 0 .. MaxFaults /\ outages \in 0 .. MaxOutages /\ stops \in 0 .. MaxStops

\* Between triggers nothing lies in capture-staging/ but files whose removal
\* failed: no path of record_into_staging or submit_clip, and no crash, leaks one.
LeftoversNeedFaults == pc = "idle" => file = None /\ junk <= faults

\* The bytes in capture-staging/.
Footprint == IF file = None THEN held ELSE held + file

\* The gate compares what lies in capture-staging/ and not what the recording will
\* add, so max_staging_bytes may be exceeded, but by less than one recording, and
\* by one more for every trigger let through because the footprint could not be
\* read (FR-013, SC-006).
FootprintBounded ==
    Running => Footprint < StagingCap + ClipBytes * (1 + blind)

\* The level the cache will have once the buffered edges are read.
LevelAhead == IF fifo = <<>> THEN cache ELSE fifo[Len(fifo)].level

\* However far the cached level lags behind the line (during a recording, in a
\* cooldown, while the stream fails), the edges that will correct it are in the
\* FIFO, unless the line's last edge was dropped because that was full.
CacheCatchesUp == Running => lost \/ LevelAhead = line

\* Two recordings of one process are a full cooldown apart, counted from the end
\* of the first and however it ended (FR-006, SC-002).
RecordingsSpaced == [][pc = "idle" /\ pc' = "recording" => rest = Cooldown]_vars

\* An edge that came while a trigger was being handled never starts a recording:
\* the cooldown begun at the end of the handler outlives the FIFO's backlog. So
\* captured_at, read from the clock when the edge is taken, is when the bird came.
\* A failing stream may hold the backlog back for longer.
StaleEdgesSkipped ==
    [][pc = "idle" /\ pc' = "recording" => ~Head(fifo).stale \/ outages > 0]_vars

\* The sensor is called stuck exactly when every reading for Stuck units of time
\* was Asserted, ticks that piled up during a recording included.
StuckExact ==
    /\ live.state = "StuckAsserted" => run = Stuck
    /\ pc = "idle" /\ due = 0 /\ run = Stuck => live.state = "StuckAsserted"

\* A hung camera, a failing one or a refusing queue does not pin the supervisor.
HandlerReturns == pc \in {"recording", "submitting"} ~> pc \in {"idle", "off"}

\* The sensor is healthy again once its stream works, its line is quiescent and
\* the adapter has seen that; no operator action is needed (FR-010, FR-011). The
\* adapter may not see it: a full FIFO drops the edge, and level() reads the cache.
SensorRecovers ==
    <>[](/\ chan = "ok" /\ line = "Quiescent" /\ cache = "Quiescent"
         /\ pc \notin {"off", "disabled"})
        => <>[](live.state = "Healthy" \/ pc \in {"off", "disabled"})
=============================================================================
