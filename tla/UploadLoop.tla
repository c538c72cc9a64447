------------------------------ MODULE UploadLoop ------------------------------
(***************************************************************************)
(* The delivery loop in time: DeliveryRunner::run picks the oldest clip    *)
(* that is due, uploads it through PerchpubClient, and files it, gives it  *)
(* up, or puts it back with a next_attempt_after that BackoffSchedule      *)
(* computes. `serve` starts the loop only on a configuration that          *)
(* Config::ensure_runtime_ready accepts.                                   *)
(*                                                                         *)
(* Time runs in ticks, Sub of them to the second, and every instant kept   *)
(* in a sidecar is a distance from now: wait (to next_attempt_after),      *)
(* since (from first_attempt_at). So time has no bound while the states    *)
(* stay finite. A transition of the queue is one step here, with the       *)
(* places its failure leaves a clip in; ClipQueue has its calls.           *)
(***************************************************************************)
EXTENDS Integers, Sequences, FiniteSetsExt

CONSTANTS
    NumClips,      \* bound: clips, numbered in capture order
    Configs,       \* sequence of the configurations an operator may have written
    RetryAfters,   \* Retry-After headers perchpub sends
    Statuses,      \* status codes perchpub answers with
    Sub,           \* ticks per second
    Hour,          \* seconds per hour
    MaxWallclockHours, MaxRetryDelay, MaxClipSecs, MaxHangMargin,  \* config.rs limits
    MaxBackoff,    \* MAX_BACKOFF_SECS
    ChronoMax,     \* seconds a chrono::Duration holds
    DateMax,       \* seconds from now to the last DateTime
    DiskFullRetry, \* DISK_FULL_RETRY in ticks
    CertTick,      \* CERT_EXPIRED_TICK in ticks
    Cap,           \* MAX_RESPONSE_BYTES in chunks
    MaxRestarts,   \* bound: how often the process stops
    MaxFaults      \* bound: how many queue writes fail

ASSUME UploadConstants ==
    /\ NumClips \in Nat /\ Sub \in Nat \ {0} /\ Hour \in Nat \ {0}
    /\ MaxWallclockHours \in Nat /\ MaxRetryDelay \in Nat
    /\ MaxClipSecs \in Nat /\ MaxHangMargin \in Nat
    /\ {DateMax, MaxBackoff, ChronoMax} \subseteq Nat
    /\ 2 * MaxRetryDelay <= DateMax /\ DateMax <= MaxBackoff /\ MaxBackoff <= ChronoMax
    /\ DiskFullRetry \in Nat /\ CertTick \in Nat \ {0} /\ Cap \in Nat
    /\ MaxRestarts \in Nat /\ MaxFaults \in Nat

Clips == 1 .. NumClips

VARIABLES
    config,     \* which of Configs the operator has written
    proc,       \* serve: "down", "up" or "exited" (configuration refused)
    pc,         \* the loop's next step
    cur,        \* the clip in hand, 0 when none
    resp,       \* the answer's status and parsed Retry-After
    got,        \* chunks of its body read so far
    err,        \* the upload's result, as upload_clip returns it
    nap,        \* ticks the loop still sleeps
    place,      \* where each clip is
    torn,       \* clips whose media and sidecar a failed requeue separated
    attempts,   \* sidecar: attempts
    wait,       \* sidecar: ticks to next_attempt_after
    since,      \* ticks since first_attempt_at, up to the wall-clock budget
    sub,        \* the current tick within the second
    expired,    \* the certificate's not_after has passed
    panicked,   \* the delivery task has panicked
    restarts, faults,   \* used parts of the bounds
    floor,      \* history: ticks left of the pause perchpub asked for
    cut,        \* history: clips in inflight/ with such a pause when the process stopped
    acked,      \* history: clips whose 2xx was read whole in this process
    late,       \* history: attempts begun after the wall-clock budget
    jit,        \* history: clips rescheduled by jitter alone in this second
    absurd      \* history: the last answer had a Retry-After no date can hold

loop    == <<pc, cur, resp, got, err, nap>>
sidecar == <<place, torn, attempts, wait, since>>
history == <<floor, cut, acked, late, jit, absurd>>
bounds  == <<restarts, faults>>
vars    == <<config, proc, loop, sidecar, sub, expired, panicked, bounds, history>>

-----------------------------------------------------------------------------
(* config.rs: what serve accepts.                                           *)

Cfg == Configs[config]

NoLimit == -1

\* The inclusive range of every numeric field.
Limits ==
    [max_clips |-> <<1, NoLimit>>, max_bytes |-> <<1, NoLimit>>,
     delivered_retention_hours |-> <<1, MaxWallclockHours>>,
     clip_duration_secs |-> <<1, MaxClipSecs>>, hang_margin_secs |-> <<0, MaxHangMargin>>,
     cooldown_secs |-> <<1, NoLimit>>, liveness_stuck_secs |-> <<1, NoLimit>>,
     liveness_poll_secs |-> <<1, NoLimit>>,
     per_clip_max_attempts |-> <<1, NoLimit>>,
     per_clip_max_wallclock_hours |-> <<1, MaxWallclockHours>>,
     max_attempt_delay_secs |-> <<0, MaxRetryDelay>>,
     initial_delay_secs |-> <<0, NoLimit>>]

\* config.toml holds unsigned numbers; a Retry-After is seconds or a date (external).
ASSUME UploadInputs ==
    /\ \A i \in DOMAIN Configs : \A f \in DOMAIN Limits : Configs[i][f] \in Nat
    /\ RetryAfters \subseteq [form: {"none", "delta", "date"}, secs: Int]
    /\ Statuses \subseteq Nat

\* Mutant of Validate: the ceiling is not held against its limit.
ValidateLowerBounds(c) ==
    /\ \A f \in DOMAIN Limits : c[f] >= Limits[f][1]
    /\ c.initial_delay_secs <= c.max_attempt_delay_secs

Validate(c) ==
    /\ \A f \in DOMAIN Limits :
        c[f] >= Limits[f][1] /\ (Limits[f][2] = NoLimit \/ c[f] <= Limits[f][2])
    /\ c.initial_delay_secs <= c.max_attempt_delay_secs

EnsureRuntimeReady(c) == c.perchpub_url # "none" /\ Validate(c)

\* A URL is "none" (absent or empty), "bad" (it does not parse) or "ok".
DeriveUploadUrl(url) == IF url = "bad" THEN "refused" ELSE "ok"

\* An explicit upload_url is taken as it is; else perchpub_url with the port switched.
UploadBase(c) == IF c.upload_url # "none" THEN c.upload_url ELSE DeriveUploadUrl(c.perchpub_url)

-----------------------------------------------------------------------------
(* retry.rs: the schedule. Delays in ticks.                                 *)

MaxAttemptDelay == Cfg.max_attempt_delay_secs * Sub
MaxWallclock == Cfg.per_clip_max_wallclock_hours * Hour * Sub

BaseDelay(attempt) ==
    Max({0, Min({Cfg.initial_delay_secs * Sub * 2^(attempt - 1), MaxAttemptDelay, MaxBackoff * Sub})})

\* Mutant of ApplyJitter: seeded by a hash of the clip-id.
ApplyJitterHashed(base) == (base * (4 * Sub + 2 * (cur % Sub))) \div (5 * Sub)

\* 80 % of base at the start of the second, rising to 120 % at its end.
ApplyJitter(base) == (base * (4 * Sub + 2 * sub)) \div (5 * Sub)

None == -1

\* Mutant of Delay: the ceiling is applied after the Retry-After floor.
DelayCapped(attempt, after) ==
    Min({Max({ApplyJitter(BaseDelay(attempt)), after * Sub}), MaxAttemptDelay})

\* The jittered delay, or Retry-After if that is longer; max_attempt_delay if
\* the result does not fit a chrono::Duration.
Delay(attempt, after) ==
    LET delay == Max({ApplyJitter(BaseDelay(attempt)), after * Sub})
    IN  IF delay > ChronoMax * Sub THEN MaxAttemptDelay ELSE delay

Exhausted(c) ==
    attempts[c] >= Cfg.per_clip_max_attempts \/ since[c] >= MaxWallclock

TransientStatus == (200 .. 299) \cup {408, 425, 429, 500, 502, 503, 504}

\* classify_upload_error, UndecodableSuccess aside.
Transient == err = "network" \/ err = "decode" \/ (err = "http" /\ resp.status \in TransientStatus)

\* parse_retry_after: delta-seconds, or a date, which clamps to zero in the past.
ParseRetryAfter(h) ==
    CASE h.form = "delta" -> h.secs
      [] h.form = "date"  -> Max({h.secs, 0})
      [] OTHER            -> None

-----------------------------------------------------------------------------
NoResp == [status |-> 0, after |-> None]

Init ==
    /\ config \in DOMAIN Configs
    /\ proc = "down" /\ pc = "off" /\ cur = 0 /\ resp = NoResp /\ got = 0 /\ err = "none" /\ nap = 0
    /\ place = [c \in Clips |-> "none"] /\ torn = {}
    /\ attempts = [c \in Clips |-> 0] /\ wait = [c \in Clips |-> 0] /\ since = [c \in Clips |-> 0]
    /\ sub = 0 /\ expired = FALSE /\ panicked = FALSE /\ restarts = 0 /\ faults = 0
    /\ floor = [c \in Clips |-> 0] /\ cut = {} /\ acked = {} /\ late = [c \in Clips |-> 0] /\ jit = {}
    /\ absurd = FALSE

\* The loop goes to sleep, or back to its top; what the iteration held is dropped.
Sleep(ticks) ==
    /\ pc' = "nap" /\ nap' = ticks
    /\ cur' = 0 /\ resp' = NoResp /\ got' = 0 /\ err' = "none"

Again == pc' = "top" /\ nap' = 0 /\ cur' = 0 /\ resp' = NoResp /\ got' = 0 /\ err' = "none"

\* What is known of a clip is dropped once the loop is done with it.
Forget(c) ==
    /\ torn' = torn \ {c} /\ acked' = acked \ {c} /\ cut' = cut \ {c}
    /\ attempts' = [attempts EXCEPT ![c] = 0] /\ since' = [since EXCEPT ![c] = 0]
    /\ floor' = [floor EXCEPT ![c] = 0] /\ late' = [late EXCEPT ![c] = 0]

DiskFullBackoff == Min({DiskFullRetry, MaxAttemptDelay})

\* A queue write fails: a back-off if the disk is full, else the idle tick.
Fault ==
    /\ faults < MaxFaults /\ faults' = faults + 1 /\ UNCHANGED restarts
    /\ Sleep(DiskFullBackoff) \/ Sleep(1)

-----------------------------------------------------------------------------
(* serve.                                                                   *)

\* serve::run: refuse the configuration, or reconcile inflight/ and spawn the task.
ServeStarts ==
    /\ proc = "down"
    /\ IF EnsureRuntimeReady(Cfg) /\ UploadBase(Cfg) = "ok"
          THEN /\ proc' = "up" /\ pc' = "top"
               /\ place' = [c \in Clips |-> CASE place[c] = "inflight" -> "pending"
                                              [] place[c] = "recorded" -> "done"
                                              [] OTHER -> place[c]]
               /\ wait' = [c \in Clips |-> IF place[c] = "inflight" THEN 0 ELSE wait[c]]
               /\ acked' = {}
          ELSE proc' = "exited" /\ UNCHANGED <<pc, place, wait, acked>>
    /\ UNCHANGED <<config, cur, resp, got, err, nap, torn, attempts, since, sub, expired, panicked,
                   bounds, floor, cut, late, jit, absurd>>

\* A signal (the select! drops the upload, cancellable_sleep returns), or a kill.
ServeStops ==
    /\ proc = "up" /\ restarts < MaxRestarts /\ restarts' = restarts + 1
    /\ proc' = "down" /\ panicked' = FALSE
    /\ pc' = "off" /\ nap' = 0 /\ cur' = 0 /\ resp' = NoResp /\ got' = 0 /\ err' = "none"
    /\ cut' = cut \cup {c \in Clips : place[c] = "inflight" /\ floor[c] > 0}
    /\ UNCHANGED <<config, sidecar, sub, expired, faults, floor, acked, late, jit, absurd>>

\* The inbox enqueues a clip.
Arrive(c) ==
    /\ proc = "up" /\ place[c] = "none" /\ \A d \in Clips : d < c => place[d] # "none"
    /\ place' = [place EXCEPT ![c] = "pending"]
    /\ UNCHANGED <<config, proc, loop, torn, attempts, wait, since, sub, expired, panicked, bounds,
                   history>>

-----------------------------------------------------------------------------
(* DeliveryRunner::run and try_once.                                        *)

CertExpired ==
    /\ pc = "top" /\ expired
    /\ Sleep(CertTick)
    /\ UNCHANGED <<config, proc, sidecar, sub, expired, panicked, bounds, history>>

Due == {c \in Clips : place[c] = "pending" /\ wait[c] = 0}

NothingDue ==
    /\ pc = "top" /\ ~expired /\ Due = {}
    /\ Sleep(1)
    /\ UNCHANGED <<config, proc, sidecar, sub, expired, panicked, bounds, history>>

\* Mutant of Claimed: first_attempt_at is stamped by every attempt.
ClaimedAnew(c) ==
    /\ place' = [place EXCEPT ![c] = "inflight"]
    /\ attempts' = [attempts EXCEPT ![c] = @ + 1]
    /\ since' = [since EXCEPT ![c] = 0]
    /\ late' = [late EXCEPT ![c] = IF since[c] >= MaxWallclock THEN @ + 1 ELSE @]

\* The sidecar transition_inflight writes; first_attempt_at stays as it was.
Claimed(c) ==
    /\ place' = [place EXCEPT ![c] = "inflight"]
    /\ attempts' = [attempts EXCEPT ![c] = @ + 1]
    /\ since' = since
    /\ late' = [late EXCEPT ![c] = IF since[c] >= MaxWallclock THEN @ + 1 ELSE @]

Claim ==
    /\ pc = "top" /\ ~expired /\ Due # {}
    /\ LET c == Min(Due)
       IN  /\ c \notin torn
           /\ Claimed(c)
           /\ cur' = c /\ pc' = "preflight"
           /\ floor' = [floor EXCEPT ![c] = 0] /\ cut' = cut \ {c}
           /\ jit' = jit \ {c} /\ absurd' = FALSE
    /\ UNCHANGED <<config, proc, resp, got, err, nap, torn, wait, sub, expired, panicked, bounds,
                   acked>>

\* The claim fails and the media goes back, or the quarantine below fails.
ClaimFails ==
    /\ pc = "top" /\ ~expired /\ Due # {}
    /\ Fault
    /\ UNCHANGED <<config, proc, sidecar, sub, expired, panicked, history>>

\* Mutant of QuarantineOrphan: the missing media is only logged.
QuarantineLogged ==
    /\ pc = "top" /\ ~expired /\ Due # {} /\ Min(Due) \in torn
    /\ Sleep(1)
    /\ UNCHANGED <<config, proc, sidecar, sub, expired, panicked, bounds, history>>

\* MissingMedia: the sidecar is quarantined and the head advances.
QuarantineOrphan ==
    /\ pc = "top" /\ ~expired /\ Due # {} /\ Min(Due) \in torn
    /\ place' = [place EXCEPT ![Min(Due)] = "corrupt"] /\ Forget(Min(Due))
    /\ Again
    /\ UNCHANGED <<config, proc, wait, sub, expired, panicked, bounds, jit, absurd>>

PreflightOk ==
    /\ pc = "preflight"
    /\ pc' = "send"
    /\ UNCHANGED <<config, proc, cur, resp, got, err, nap, sidecar, sub, expired, panicked, bounds,
                   history>>

\* transition_delivered; or it fails before or after the terminal sidecar is written.
File ==
    /\ \/ place' = [place EXCEPT ![cur] = "done"] /\ Forget(cur) /\ Again /\ UNCHANGED bounds
       \/ /\ \E p \in {"inflight", "recorded"} : place' = [place EXCEPT ![cur] = p]
          /\ Fault /\ UNCHANGED <<torn, cut, acked, attempts, since, floor, late>>
    /\ UNCHANGED <<config, proc, wait, sub, expired, panicked, jit, absurd>>

\* Zero length, past the upload ceiling, or no metadata: undeliverable.
PreflightFails ==
    /\ pc = "preflight"
    /\ File

Wake ==
    /\ pc = "nap" /\ nap = 0
    /\ pc' = "top"
    /\ UNCHANGED <<config, proc, cur, resp, got, err, nap, sidecar, sub, expired, panicked, bounds,
                   history>>

-----------------------------------------------------------------------------
(* PerchpubClient::upload_clip.                                             *)

Result(e) ==
    /\ err' = e /\ pc' = "handle" /\ got' = 0
    /\ UNCHANGED <<config, proc, cur, nap, sidecar, sub, expired, panicked, bounds>>

\* The clip cannot be opened, or the request fails or times out.
SendFails ==
    /\ pc = "send"
    /\ \E e \in {"clip_open", "network"} : Result(e)
    /\ UNCHANGED <<resp, history>>

\* The head of an answer: status and Retry-After are read before the body; the
\* latter is kept where the schedule will use it.
Answer ==
    /\ pc = "send"
    /\ \E s \in Statuses, h \in RetryAfters :
        resp' = [status |-> s, after |-> IF s \in TransientStatus \ (200 .. 299) THEN ParseRetryAfter(h) ELSE None]
    /\ pc' = "body" /\ got' = 0
    /\ UNCHANGED <<config, proc, cur, err, nap, sidecar, sub, expired, panicked, bounds, history>>

\* Mutant of Chunk: only an advertised Content-Length is checked.
ChunkUnchecked ==
    /\ pc = "body" /\ got <= Cap
    /\ got' = got + 1
    /\ UNCHANGED <<config, proc, pc, cur, resp, err, nap, sidecar, sub, expired, panicked, bounds,
                   history>>

\* read_capped: one more chunk that still fits.
Chunk ==
    /\ pc = "body" /\ got < Cap
    /\ got' = got + 1
    /\ UNCHANGED <<config, proc, pc, cur, resp, err, nap, sidecar, sub, expired, panicked, bounds,
                   history>>

\* Content-Length (before any chunk) or the next chunk goes over the cap: Decode.
\* The connection breaks: Network. Either way status and Retry-After are lost.
BodyFails ==
    /\ pc = "body"
    /\ \E e \in {"network"} \cup (IF got \in {0, Cap} THEN {"decode"} ELSE {}) : Result(e)
    /\ resp' = NoResp
    /\ UNCHANGED history

\* Mutant of ClassifyResponse: a 2xx that does not decode is a Decode error.
ClassifyAsDecode(decodes) ==
    IF resp.status \notin 200 .. 299 THEN "http" ELSE IF decodes THEN "ok" ELSE "decode"

ClassifyResponse(decodes) ==
    IF resp.status \notin 200 .. 299 THEN "http" ELSE IF decodes THEN "ok" ELSE "undecodable"

\* The whole body was read.
BodyEnds ==
    /\ pc = "body"
    /\ \E decodes \in BOOLEAN : Result(ClassifyResponse(decodes))
    /\ IF resp.status \in 200 .. 299
          THEN acked' = acked \cup {cur} /\ resp' = NoResp /\ UNCHANGED <<floor, absurd>>
          ELSE /\ floor' = [floor EXCEPT ![cur] =
                                IF resp.after \in 0 .. DateMax THEN resp.after * Sub ELSE 0]
               /\ absurd' = (resp.after \in DateMax + 1 .. ChronoMax)
               /\ UNCHANGED <<acked, resp>>
    /\ UNCHANGED <<cut, late, jit>>

-----------------------------------------------------------------------------
(* try_once after the upload, handle_upload_error and the mark_* functions. *)

\* Delivered, with a classify task or without one (mark_delivered_undecodable).
MarkDelivered ==
    /\ pc = "handle" /\ err \in {"ok", "undecodable"}
    /\ File

MarkTerminal ==
    /\ pc = "handle" /\ err \notin {"ok", "undecodable"} /\ ~Transient
    /\ File

MarkAttemptsExhausted ==
    /\ pc = "handle" /\ Transient /\ Exhausted(cur)
    /\ File

NextDelay == Delay(attempts[cur], resp.after)

\* NextAction::Retry: next_attempt_after is written and the clip goes back.
Requeue ==
    /\ pc = "handle" /\ Transient /\ ~Exhausted(cur) /\ NextDelay <= DateMax * Sub
    /\ place' = [place EXCEPT ![cur] = "pending"]
    /\ wait' = [wait EXCEPT ![cur] = NextDelay]
    /\ jit' = IF NextDelay = ApplyJitter(BaseDelay(attempts[cur])) THEN jit \cup {cur} ELSE jit
    /\ Again
    /\ UNCHANGED <<config, proc, torn, attempts, since, sub, expired, panicked, bounds, floor, cut,
                   acked, late, absurd>>

\* transition_back_to_pending fails before or after the media has moved: the
\* sidecar stays in inflight/ until the next boot.
RequeueFails ==
    /\ pc = "handle" /\ Transient /\ ~Exhausted(cur) /\ NextDelay <= DateMax * Sub
    /\ torn' = torn \/ torn' = torn \cup {cur}
    /\ Fault
    /\ UNCHANGED <<config, proc, place, attempts, wait, since, sub, expired, panicked, history>>

\* now + delay is no DateTime: the addition panics and spawn_supervised ends the task.
SchedulePanics ==
    /\ pc = "handle" /\ Transient /\ ~Exhausted(cur) /\ NextDelay > DateMax * Sub
    /\ panicked' = TRUE
    /\ pc' = "off" /\ nap' = 0 /\ cur' = 0 /\ resp' = NoResp /\ got' = 0 /\ err' = "none"
    /\ UNCHANGED <<config, proc, sidecar, sub, expired, bounds, history>>

-----------------------------------------------------------------------------
(* Time. It passes while the loop sleeps, waits for an answer or is down.   *)

Down(n) == IF n = 0 THEN 0 ELSE n - 1

Tick ==
    /\ pc \in {"off", "nap", "send"}
    /\ pc = "nap" => nap > 0
    /\ sub' = (sub + 1) % Sub
    /\ nap' = Down(nap)
    /\ wait' = [c \in Clips |-> Down(wait[c])]
    /\ floor' = [c \in Clips |-> Down(floor[c])]
    /\ since' = [c \in Clips |-> IF attempts[c] = 0 THEN 0 ELSE Min({since[c] + 1, MaxWallclock})]
    /\ jit' = IF sub' = 0 THEN {} ELSE jit
    /\ UNCHANGED <<config, proc, pc, cur, resp, got, err, place, torn, attempts, expired, panicked,
                   bounds, cut, acked, late, absurd>>

\* The certificate passes its not_after; only the top of the loop looks.
Expire ==
    /\ pc = "top" /\ ~expired /\ expired' = TRUE
    /\ UNCHANGED <<config, proc, loop, sidecar, sub, panicked, bounds, history>>

-----------------------------------------------------------------------------
LoopStep ==
    \/ CertExpired \/ NothingDue \/ Claim \/ ClaimFails \/ QuarantineOrphan
    \/ PreflightOk \/ PreflightFails \/ Wake
    \/ SendFails \/ Answer \/ Chunk \/ BodyFails \/ BodyEnds
    \/ MarkDelivered \/ MarkTerminal \/ MarkAttemptsExhausted
    \/ Requeue \/ RequeueFails \/ SchedulePanics

Next ==
    \/ LoopStep \/ ServeStarts \/ ServeStops \/ Tick \/ Expire
    \/ \E c \in Clips : Arrive(c)

Spec == Init /\ [][Next]_vars

\* The runtime schedules the task, its timers fire (the request timeout bounds
\* an upload), the clock runs, and systemd starts serve again.
FairSpec == Spec /\ WF_vars(LoopStep) /\ WF_vars(Tick) /\ WF_vars(ServeStarts)

-----------------------------------------------------------------------------
(* Properties.                                                              *)

\* Every variable stays in its type; in particular no more of a body is
\* buffered than the cap (read_capped).
TypeOK ==
    /\ config \in DOMAIN Configs /\ proc \in {"down", "up", "exited"}
    /\ pc \in {"off", "top", "nap", "preflight", "send", "body", "handle"}
    /\ cur \in {0} \cup Clips /\ got \in 0 .. Cap /\ nap \in Nat
    /\ resp \in [status: {0} \cup Statuses, after: Int]
    /\ err \in {"none", "ok", "undecodable", "http", "network", "decode", "clip_open"}
    /\ place \in [Clips -> {"none", "pending", "inflight", "recorded", "done", "corrupt"}]
    /\ torn \subseteq Clips /\ cut \subseteq Clips /\ acked \subseteq Clips /\ jit \subseteq Clips
    /\ attempts \in [Clips -> Nat] /\ wait \in [Clips -> Nat] /\ since \in [Clips -> 0 .. MaxWallclock]
    /\ floor \in [Clips -> Nat] /\ late \in [Clips -> Nat]
    /\ sub \in 0 .. Sub - 1 /\ {expired, panicked, absurd} \subseteq BOOLEAN
    /\ restarts \in 0 .. MaxRestarts /\ faults \in 0 .. MaxFaults

\* A pause perchpub asked for in an answer that was read whole is kept: the clip
\* is not due before it is over, whatever the loop does, and across restarts once
\* it is written. It is forgotten only if the process stops while the clip is
\* still in inflight/ (the requeue not yet made, or failed), because
\* reconcile_inflight clears next_attempt_after.
HonoursRetryAfter ==
    \A c \in Clips : place[c] = "pending" => wait[c] >= floor[c] \/ c \in cut

\* A clip whose 2xx was read whole is never offered for upload again by the same
\* process, whether or not its body decoded and its record could be written.
AcceptedNotResent == \A c \in acked : place[c] # "pending"

\* The wall-clock budget is tested only after a failed attempt, so it can be
\* overrun, but by one attempt only (and one per restart that cuts one short).
OneLateAttempt == \A c \in Clips : late[c] <= 1 + restarts

\* A configuration that serve accepts never makes the loop's time arithmetic
\* panic: only a Retry-After that chrono can hold and no date can reach does.
PanicNeedsAbsurdRetryAfter == panicked => absurd

\* Clips that jitter alone reschedules within one second at the same attempt
\* come due in the order in which they were rescheduled (oldest first).
BackoffKeepsOrder ==
    [][\A c, d \in Clips :
        c \in jit /\ c # d /\ d \notin jit /\ d \in jit' /\ attempts[c] = attempts[d]
            => wait[c] <= wait'[d]]_vars

Halted == expired \/ panicked \/ proc = "exited"

\* A failed write left the clip in inflight/ until the next boot.
Stranded(c) == place[c] \in {"inflight", "recorded"} /\ cur # c

\* Every clip is delivered or given up in the end, whatever perchpub answers,
\* unless the loop is halted or a failed write left the clip for the next boot.
ClipsSettle ==
    \A c \in Clips :
        place[c] = "pending" ~> (place[c] \in {"done", "corrupt"} \/ Stranded(c) \/ Halted)
=============================================================================
