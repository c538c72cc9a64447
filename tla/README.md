# perchstation: TLA+ models and proofs

perchstation runs on a Raspberry Pi at a bird feeder. It records a clip when a
motion sensor fires, keeps it in a queue on disk, uploads it over mTLS to the
server perchpub, and follows the classification of what it uploaded. The
station loses power without warning, its network comes and goes, and nothing in
the queue is protected by a lock: what keeps footage safe is the order of single
system calls. That order is what these modules describe and check.

## 1. Inventory

| part (source) | state | operations | hard because |
|---|---|---|---|
| clip queue store (`queue/store.rs`, `queue/mod.rs`, `queue/inbox.rs`) | `pending/`, `inflight/`, `delivered/`, `corrupt/`: media `<id>.mp4`, sidecar `<id>.json` | enqueue, pick, claim, requeue, finish, quarantine, boot reconciliation | each operation is several renames, writes and unlinks; a crash or an error may fall between any two |
| queue policy (`queue/policy.rs`) | none (reads the three directories) | census, refuse, evict, prune | runs beside the runner on the same files; lists three directories one after the other and reads them file by file |
| delivery runner (`delivery/runner.rs`) | the entry in hand, a copy of the identity | try_once: pick, claim, preflight, upload, then finish or requeue | an upload may land although its answer is lost |
| retry schedule (`delivery/retry.rs`) | none | error classes, delay, jitter, exhaustion | ceilings at boundaries; the clock is both the time and the seed of the jitter |
| classify poller (`delivery/classify.rs`) | skip set, entries read by the scan | prune round, scan, poll, write back | a record is read before and written after a network round trip |
| perchpub client (`perchpub/client.rs`) | the HTTP client behind a lock | upload, get task, reload | credentials change while it runs; an answer may break off anywhere |
| configuration (`config.rs`) | the operator's values | validate, ensure_runtime_ready, upload_base | the time arithmetic of every other part relies on its ranges |
| status (`observability/status.rs`, `commands/status.rs`) | none (reads `credentials/` and the queue) | one snapshot per command | another process, reading without a lock what `serve` moves |
| enrollment (`commands/enroll.rs`, `enrollment/*.rs`) | the new key and certificate | choose key, POST with retries, validate | perchpub counts POSTs, also failed ones |
| identity (`identity.rs`) | `credentials/`, `credentials.tmp/`, `credentials.old/` | load, load_keypair, save | a directory is replaced with two renames |
| serve (`commands/serve.rs`, `supervision.rs`) | tasks, cancellation tokens | boot order, SIGHUP reload, shutdown | three tasks share the queue; shutdown drops futures at await points |
| capture supervisor (`capture/*.rs`) | staging directory, cooldown, liveness tracker, status projection | trigger gates, record, submit, liveness tick | one loop that looks at nothing else while it records; sensor errors, stuck levels, hung cameras |
| motion sensor, camera (`perchstation-hw`) | edge FIFO, level cache; the camera's subprocess | next_trigger, level, record_clip | the cache is only as fresh as the last edge read |
| tracing, TLS set-up, command line, QR camera | - | log, choose a provider, parse, drive devices | not modelled, see section 8 |

How they interact: the capture supervisor submits a staged file to `PolicyInbox`,
which takes the census, evicts and calls `StoreInbox`. The runner polls
`pending/`, moves a clip to `inflight/` and from there to `delivered/` or back.
The poller reads and rewrites records in `delivered/` and removes old ones; the
inbox evicts the Undeliverable ones there. `serve` reconciles `inflight/` before
it starts the three tasks. `enroll` is another process that replaces the
credentials `serve` has loaded, `status` a third one that reads everything.

What makes the parts correct:

* queue: no admitted clip is lost, none is uploaded after its outcome is on disk,
  `Delivered` is recorded only for clips perchpub has, no task takes a file from
  under another, every clip leaves the queue in the end, every boot succeeds and leaves the
  directories repaired;
* policy: no clip is destroyed for a submission that is then refused, the
  directories weigh what the census says;
* loop and schedule: a pause perchpub asked for is kept, an accepted clip is not sent
  again, both budgets hold, the older clip stays first, no accepted configuration makes
  the arithmetic panic, every clip settles;
* status: what it counts and calls the latest is wrong at most by what moved meanwhile;
* poller: no update is lost to a stale copy, no record is forgotten, every task
  ends, finished records go;
* capture: nothing is left in staging, its ceiling is exceeded by less than a recording,
  the level cache is corrected, recordings are a cooldown apart, a stale edge starts none, a stuck or failing sensor is
  reported exactly and recovers, no camera pins the loop;
* enrollment: the credentials are whole at every instant, the key is kept for the
  station's life, the session's POST budget suffices, a reload takes effect and never
  mixes two sets.

## 2. Modules

**`ClipQueue`** - store, policy, runner, boot and the parts of `serve` and of the
capture supervisor that touch the queue. A step is one system call. `media[c]` is the directory
that holds the clip's media; `pending`, `inflight` and `delivered` hold the sidecars
(absent, readable with the fields that matter, or corrupt). `pc`, `cur` and `ent` are
the program counter and locals of the runner (or, at boot, of `reconcile_inflight`,
which uses the same transitions, on `sidecars`, the list of `inflight/` that it collects once);
`ipc`, `iclip`, `census` and `evictions` those of the inbox. `take_census` goes through the names of
`inflight/`, then `delivered/`, then `pending/`, one a step and in any order, and counts a name if its file is
there at that moment (`read_sidecars` skips what has gone since it was listed); `census.todo` is what
it has not looked at yet. `census.incoming` is the size of the new clip, 0 if its stat fails. A clip is a number, so `<` is the filename order. Time is reduced to the flag
`backoff` (next_attempt_after lies in the future). perchpub is the set `accepted`:
`UploadLands` puts a clip there before any answer arrives, so that `UploadRetry` from
"response" is the lost answer that makes delivery at-least-once. Failures: every
call may fail (`Fault`), the process may die anywhere (`Crash`), be shut down at an
await point (`Shutdown`), and find a sidecar truncated afterwards (`Rot`; sidecars are
written without fsync). `admitted`, `recorded`, `evicted`, `torn` and `taken` are history.

**`ClipDelivery`** - what the queue promises, with none of its machinery: a clip is
admitted once and waits, perchpub may store it while it waits, and it stops waiting once (settled
with a record, or dropped) and for good. That it does stop is `QueueDrains`; `ClipDelivery` states safety
only. **`ClipQueueDelivery`** is the refinement mapping: a clip waits if it was admitted, has no terminal
record and has a sidecar in `pending/` or `inflight/` or in the hands of the runner between the two.
Three things make an admission's account of the queue less than exact, and all are in the promise.
`taken` is the price of a census that reads file by file without a lock: it may overlook any clip that the
runner picks while the submission lasts, and there may be several (one in `inflight/` while `pending/` is
read, back in `pending/` a moment later, the next one claimed before its name comes up). No other
clip is overlooked, however often calls fail. `writtenOff` is the price of evicting from a list that is
already old: the runner may have claimed the victim, whose unlinks then find nothing (`evict`
tolerates NotFound); the clip goes on waiting but has been taken off the totals (`apply_policy`).
`Misread` is the new clip whose size could not be read and counts as 0 bytes. So the ceilings can be overshot
by these clips, never by others, and the next admission counts them again. How many clips the runner
can pick during one submission is a matter of speed, and no number in the code bounds it.

**`UploadLoop`** - the delivery loop in time: configuration, schedule, HTTP answers and
sleeps. `Validate`, `EnsureRuntimeReady` and `UploadBase` decide whether `ServeStarts`
goes on; `BaseDelay`, `ApplyJitter`, `Delay` and `Exhausted` are `retry.rs` in integer ticks
(`Sub` to the second, so the jitter factor runs from 80 % at the start of a second towards
120 % at its end); `Answer`, `Chunk`, `BodyFails` and `BodyEnds` are `read_capped` and
`classify_response`. Each instant in a sidecar is kept as the distance from now, so time is unbounded
and the states finite. A transition of the queue is one step here; where it fails it leaves
the clip in the places `ClipQueue` shows. `SchedulePanics` is the one panic left in the
arithmetic. `floor`, `cut`, `acked`, `late`, `jit` and `absurd` are history; `floor` is the pause perchpub
asked for, and `cut` the clips that a stop caught in `inflight/` with such a pause: the next boot
re-queues them with `next_attempt_after` cleared, and they are due at once.

**`StationStatus`** - `perchstation status` composed with `ClipQueue` (`StationStep` is any step of the
station): identity check and load, two counts, two listings with a stat of each file, the scan of
`delivered/`, and what `pick_last_success`, `pick_last_failure` and `build_recent` choose.
A file that goes between listing and stat fails the command. `later` is the order of
`delivered_at` (a new stamp is after all others; clocks that stand still or step back are left
out); `stay`, `back` and `kept` are history of what was there throughout a scan.

**`ClassifyPoller`** - the poller loop over `delivered/` with one directory entry or one
call per step: `BeginPrune`/`PruneOne`, `BeginScan`/`Scan...`, `PollOne`/`Answer`/`Apply...`.
`held[c]` is the copy the scan read and `poll_one` writes back. The runner
(`RunnerDelivers`) and the inbox (`InboxEvicts`) change the directory meanwhile, perchpub
moves the task, and the age of a record is counted against the poll budget and
the retention time.

**`Enrollment`** - the enroll command, `identity::save` and what `serve` reads. A directory is
its key, certificate and identity file; `unsynced` holds the states a power loss may
still fall back to. The session budget is `spent`. `serve` reads the set one file at a time
while enroll may swap the directory: `ServeReadsIdentity`, `ServeReadsCert` (its
copy `sid` is the certificate whose expiry the runner checks), `ServeReadsSecrets`, then
`ReadCert`, `ReadKey` and `BuildClient` for the mTLS `client`, which `Sighup` runs again. `half` is
what `build_inner` has read so far.

**`CaptureSupervisor`** - the capture loop with its sensor and camera. `pc` is where the
loop stands; "recording" and "submitting" are the two awaits inside `handle_trigger`,
during which edges (`fifo`) and liveness ticks (`due`) pile up. `Edge` is
`next_trigger` followed by one of the gates, `Record...` are the results of
`record_into_staging`, `Submit...` those of `Inbox::submit`, `Probe` the liveness tick on
the cached level. `live` is the tracker, `shown` the projection in `CaptureState`.
Time is relative (time left, time since), one unit being `liveness_poll_secs`, so no bound on
the clock is needed. `file` is the size of the recording's own file, `junk` the number of other
files in staging and `held` their bytes; the gate compares `held` alone with the ceiling, as the code
does. A recording may have any size up to `ClipBytes`. `rest`, `run`, `blind`, `lost` and the `stale` mark of
an edge are history.

The `MC...` modules instantiate them for TLC.
The `...Proofs` modules hold the theorems (section 4). Operators marked
"Mutant of X" in the modules are faulty variants of X that take no part in the
specification: replacing X by its mutant makes TLC report the property it is paired
with, which shows that the property depends on that piece of code.

## 3. Runs

| run | question | result |
|---|---|---|
| `clip_queue_faults` | do the safety invariants hold between any two calls, with crashes, failing calls and truncated sidecars, and does a boot that ends leave a repaired queue | yes (1.5 million states) |
| `clip_queue_live` | does every admitted clip leave the queue, is no clip evicted in vain, does the queue implement `ClipDelivery` | yes (334 thousand states) |
| `clip_queue_crash_loss` | "no permanent loss of captured footage" under power loss | violated |
| `clip_queue_boot_wedge` | the station resumes without an operator after a power loss that truncates a sidecar | violated |
| `classify_poller` | stale copies, skip set and verdicts with a restart, a fault and a truncated record | hold |
| `classify_poller_live` | every record of a delivered clip goes in the end, but for undecodable answers | yes |
| `enrollment` | whole credentials, key for life outside the gap, POST budget, no mixed client | hold (2.6 million states) |
| `enrollment_key_loss` | the key is replaced only by `--force` | violated |
| `capture` | staging and its ceiling in bytes, level cache, spacing, stale edges, liveness tracker, recovery of supervisor and sensor | hold (675 thousand states) |
| `serve_reload` | a re-enrollment takes effect on SIGHUP | violated |
| `upload_loop` | Retry-After, no second upload, budgets, no panic, age order, every clip settles | hold (411 thousand states) |
| `station_status` | what a status command can miss, double or misdate while the queue runs | holds (2.2 million states) |

What the violations show:

* *crash loss.* `transition_inflight` moves the media first and writes the sidecar in
  `inflight/` second. If power goes between the two, the next boot's orphan sweep sees
  media in `inflight/` without a sidecar and deletes it, while its sidecar waits in
  `pending/`. `LossOnlyIfTorn` (proved) says this gap, here and in
  `transition_back_to_pending`, is the only way.
* *boot wedge.* `reconcile_inflight` propagates a parse error, so `serve` exits at
  every boot. The scans of `pending/` and `delivered/` quarantine such a file.
* *key loss.* An enroll stopped between the two renames leaves the only key in
  `credentials.old/`; the next plain enroll mints a new key and sweeps that directory.
* *reload.* SIGHUP replaces the client but not the runner's copy of the identity, on
  whose expiry the loop halts.

Read off the models, and not made into runs of their own:

* The disk-pressure gate (`capture/runner.rs:257`) compares the footprint without the clip about to be
  recorded: one byte below `max_staging_bytes` passes, and the directory ends up over its ceiling by up to a
  recording less one byte. Spec 002, SC-006 wants it to remain
  "within its configured ceiling"; `FootprintBounded` is what does hold.
* A Retry-After is forgotten when the process stops while the clip is still in `inflight/` (the
  requeue not made yet, or failed): `reconcile_inflight` clears `next_attempt_after` (`store.rs:360`).
  `HonoursRetryAfter` says nothing else forgets it.
* An eviction that fails after an earlier one succeeded refuses the submission although a clip was destroyed for
  it (`policy.rs:268`); `EvictionNotInVain` is about `QueueFull` only.
* `config.rs:240-245` says the ranges keep the arithmetic of all parts from overflowing;
  `cooldown_secs` and `liveness_stuck_secs` have no upper bound, and
  `chrono::Duration::seconds` panics near `i64::MAX` (`cooldown.rs:26`, `liveness.rs:79`).
* A Retry-After that fits `chrono::Duration` and no date panics in `now + chrono_delay`
  (`retry.rs:209`); the delivery task ends until `serve` is restarted.
  `PanicNeedsAbsurdRetryAfter` says nothing else leads there.
* `client.rs:361` says status and Retry-After "survive an over-limit bail"; the `Decode` and
  `Network` errors of `read_capped` drop them, and a 2xx over the cap is uploaded again although
  perchpub has it. Hence "an answer that was read whole" in the properties.
* `retry.rs:232` says jitter preserves oldest-first; it does within one second of the clock
  (`BackoffKeepsOrder`) and not across its end, where the factor falls from 120 % to 80 %.
* `status` exits with an error when a file moves between listing and stat, or
  `credentials/` between check and load; `commands/status.rs:3` calls it safe beside `serve`.
* A 2xx with an undecodable body gives a record without a task, which is neither
  pollable nor prunable: such records stay in `delivered/` (`policy.rs:411` says pruning bounds it) and
  count in the eviction floor. `OnlyUndecodableStays` says no others do.
* A reload that looks for `ca_chain.pem` between the two renames of `save` takes
  its absence for "no chain" and goes on without the operator's CA (`client.rs:130`).

### Bounds

Two clips and a queue of one are enough for every pair of tasks to meet on one clip
and for one clip to be evicted while another is uploaded; three clips of different sizes, two of which
preflight refuses, let an eviction meet a claim, a record in the floor and a census that is overtaken twice. `MaxAttempts` 2 has a retry and an exhaustion. Two faults reach
a failing rollback of a failed write; two restarts reach a crash during the
recovery from a crash. One rotten sidecar per behaviour shows each single file's
effect. The poller has two records so that one is polled while another ages, and both limits are
one tick, so that a record can be young, at and past each. Enrollment has three commands: the first, one that is caught half-way,
and the one that meets the leftovers. In capture every duration is two units, so that each deadline has a
before, an at and an after and a recording is as long as a cooldown and as the stuck
threshold; a FIFO of two edges overflows with the third; ceiling and longest recording are
two bytes, so that one failed removal leaves staging empty, partly filled (the overshoot) or full (the gate
closes), and one fault may instead blind the gate. Both in one behaviour are left to the proof. `RefuseNew` is FALSE in
the runs: refusing is the smaller behaviour (no eviction); the theorems cover both.
`upload_loop` has two clips (one waits while the other is sent), delays of 0 to 3 seconds in
half seconds (both ends of the jitter), three attempts and a budget of two ticks (an attempt before and after
it), a body cap of one chunk (below, at and over it), Retry-After absent, short, in the past,
past the last date and past `chrono::Duration`, and configurations on both sides of
`Validate`, each refused one out of range in one way. `station_status` has two clips, so that
they can finish in either order and pass each other between two counts, and a recent list
of one. Deadlock checking is off only for enrollment, where the
commands are used up and the station rests.

### Fairness

`FairSpec` of `ClipQueue` assumes weak fairness of boot, runner and inbox (the runtime
polls every ready task, and an upload returns or times out) and of the passing of
time (`BackoffElapses`). Nothing is assumed of
perchpub: an upload may fail for ever, and it is the attempt ceiling that drains the queue. A loop that halts
on an expired certificate or whose task panicked is `UploadLoop`'s subject, not this one's; and the run has no
failing calls, since a clip whose finish fails waits in `inflight/` for the next boot. `FairSpec` of `ClassifyPoller`
assumes weak fairness of the loop, of answers (a request has a timeout;
the answer may always be "transient"), of the clock and of the prune timer; not of
perchpub making progress. `FairSpec` of `CaptureSupervisor` assumes that time passes, that the
loop handles edges and submissions return (weak), that a pending tick is
handled although triggers keep arriving (strong: `select!` starts at a random branch), and
that the outer time-out fires; nothing of the camera or the sensor. `FairSpec` of `UploadLoop` assumes weak fairness of the
loop (the request timeout bounds an upload), of the clock and of a restart by systemd; nothing of
perchpub, whose answers may all be transient.

## 4. Proofs

Every invariant and action property of the passing runs is also a theorem, for every value
of the constants: any number of clips, sizes, ceilings, faults, restarts and commands, both
eviction policies, every configuration, answer and header. In each module `IInv` (or
`StatusInv`) is the inductive invariant; one lemma per conjunct or one for all of them goes
through the actions, and PTL closes the temporal step.

| module | theorem | statement |
|---|---|---|
| `ClipQueueTypeProofs` | `TypeCorrect` | `Spec => []TypeOK` |
| `ClipQueueProofs` | `QueueInvariant` | `Spec => []IInv` |
| | `UploadOwnership` | `Spec => []UploadOwnsMedia` |
| | `TerminalIsFinal` | `Spec => []RecordedIsFinal` |
| | `DeliveredIsTrue` | `Spec => []DeliveredMeansAccepted` |
| | `DeliveredIsEmpty` | `Spec => []DeliveredHoldsNoMedia` |
| | `AttemptsBounded` | `Spec => []AttemptCeiling` |
| | `LossNeedsTornClip` | `Spec => []LossOnlyIfTorn` |
| | `BootRepairsQueue` | `Spec => CleanStart` |
| `ClipQueueDeliveryProofs` | `CensusAccount` | `Spec => [](IInv /\ Queued /\ Counted)` |
| | `QueueRefinesDelivery` | `Spec => DeliveryImplemented` |
| | `NoEvictionInVain` | `Spec => EvictionNotInVain` |
| `ClassifyPollerProofs` | `PollerTypes` | `Spec => []TypeOK` |
| | `WriteBackIsFresh` | `Spec => []HeldIsFresh` |
| | `SkipSetIsSound` | `Spec => []SeenIsSettled` |
| | `VerdictIsPerchpubs` | `Spec => []RecordedVerdict` |
| `EnrollmentProofs` | `EnrollmentTypes` | `Spec => []TypeOK` |
| | `CredentialsAreWhole` | `Spec => []CredsWhole` |
| | `KeyIsKept` | `Spec => []KeyForLifeUnlessGap` |
| | `EnrollmentIsKept` | `Spec => []StaysEnrolled` |
| | `SessionSuffices` | `Spec => []FreshSessionSuffices` |
| | `ClientIsCoherent` | `Spec => []ClientCoherent` |
| `CaptureSupervisorProofs` | `SupervisorTypes` | `Spec => []TypeOK` |
| | `NoLeak` | `Spec => []LeftoversNeedFaults` |
| | `FootprintIsBounded` | `Spec => []FootprintBounded` |
| | `CacheIsCorrected` | `Spec => []CacheCatchesUp` |
| | `StuckIsExact` | `Spec => []StuckExact` |
| | `RecordingsAreSpaced` | `Spec => RecordingsSpaced` |
| | `StaleEdgesAreSkipped` | `Spec => StaleEdgesSkipped` |
| `UploadLoopProofs` | `UploadTypes` | `Spec => []TypeOK` |
| | `RetryAfterIsHonoured` | `Spec => []HonoursRetryAfter` |
| | `AcceptedIsNotResent` | `Spec => []AcceptedNotResent` |
| | `BudgetOverrunIsOneAttempt` | `Spec => []OneLateAttempt` |
| | `PanicIsAbsurd` | `Spec => []PanicNeedsAbsurdRetryAfter` |
| | `BackoffIsOrdered` | `Spec => BackoffKeepsOrder` |
| `StationStatusProofs` | `DepthIsHonest` | `StatusSpec => []DepthCounts` |
| | `ShownIsLatest` | `StatusSpec => []LatestShown` |

The assumptions are the named `ASSUME`s of the models: types and signs of the constants and,
beyond them, two facts of the code. `PostsFitSession` (`Enrollment`): one command POSTs no more often
than perchpub lets a session be used (`confirm.rs:79-84`). `UploadInputs` and
`UploadConstants` (`UploadLoop`): configuration fields are unsigned and header values integers, and
`2 * MAX_RETRY_DELAY_SECS` fits a date, a date fits the backoff clamp and that fits
`chrono::Duration` (`config.rs:328-337`, `retry.rs`).

Why the invariants need strengthening:

* *ClipQueue.* `TypeOK` needs `Control`, which ties program counters, phase and the clips in
  hand to each other. The safety invariants need `IInv`: for each program point of
  the runner, where the media and the sidecars of the clip in hand are, that a clip
  not yet recorded by the camera has no trace on disk, that records in `delivered/` have no other copy, and
  that a recorded clip has no sidecar in `pending/`. `Repaired` says what the boot has put right
  after each of its calls: media swept, and no sidecar in `inflight/` but those still on its list.
* *The refinement.* `Queued` (only admitted clips have sidecars) gives all steps but one. For an
  admission, `Counted` says what the submission knows after each name it looked at, of every waiting clip
  the runner has not picked since the submission began (`taken`): while `inflight/` is read, its name is
  still to come, or counted, or it is not in `inflight/`; while `pending/` is read, it is counted or still
  to come; then it is counted or evicted; after the decision, what was counted fits. The step that matters is a
  requeue during the census: the new sidecar in `pending/` is written before the old one in `inflight/` goes, and
  `pending/` is read last. Byte totals are
  `SumFunctionOnSet`: the library's fold over a set. `SumIsBytes` shows it to be the
  cardinality of a set of (clip, byte) pairs, from a least counterexample by
  strict inclusion (`WFMin`), so that monotonicity and additivity come from the
  theorems on cardinality.
* *NoEvictionInVain.* `EvictsWithRoom`: the floor does not change while clips are evicted, so it cannot
  come to breach a ceiling after an eviction.
* *ClassifyPoller.* `Polled`: a clip waiting for its poll is a readable, pollable record outside
  the skip set, so neither the inbox (which evicts Undeliverable records) nor the prune (settled ones)
  may touch it during the round trip.
* *Enrollment.* A power loss may bring back any state since the last fsync, so what is claimed of
  `credentials/` is claimed of all of `unsynced`, of `credentials.old/`, and of
  `credentials.tmp/` as far as it is staged; `Rotated` says what `save` owes while
  `credentials/` is away.
* *CaptureSupervisor.* `FootprintBounded` and `CacheCatchesUp` are proved step by step from `IInv`:
  `FootprintMoves` shows that no step but the start of a recording adds bytes, and that step begins below the ceiling or is
  blind; a dropped edge is the only step that parts the line from what the FIFO leads to. Time passes only when the loop has nothing to do. `Backlog`: while a stale edge
  is left the cooldown has not begun to run down; `Spacing`: cooldown left and time since
  the last recording add up; `Ticks` and `Tracks` relate piled-up ticks to the tracker.
* *UploadLoop.* `JitterBounds` and `DelayBounds` bound the schedule on an accepted configuration;
  `Jittered` compares each waiting clip with what the jitter would give now, which only rises
  within a second; `Lateness` says that a clip with a late attempt can come back
  through a restart only; `Interrupted` says that a clip found in `inflight/` by a stop has no pause or is in `cut`.
* *StationStatus.* `Reader` is what the command knows between two reads. `FewInflight`: `inflight/` holds
  at most `1 + faults` clips, which bounds what can be counted twice (the bound in `DepthCounts` was
  1, true without faults only, until the proof). `TimeOrder` and `DecidedAreRanked`: `delivered_at` orders
  the records strictly, and every record has its place; `LatestExists` then finds a latest one in any set. `SettledOnce`: a clip is filed once, so the outcome under which the reader
  filed a record is the one it still has.

Only model-checked: liveness and whatever needs fairness, which is out of the prover's reach
(`QueueDrains`, `HandlerReturns`, `SensorRecovers`, `OnlyUndecodableStays` and
`ClipsSettle`), and the four violations.

## 5. Hazards

`PROJECT.json` lists the places where this code is hard to test, each with the
property that would catch it going wrong, or the reason why there is none.

## 6. Plan

1. `ClipQueue`, `ClassifyPoller`, `Enrollment`, `CaptureSupervisor`, `UploadLoop`, `StationStatus`: models,
   runs and the proofs of their safety properties - done.
2. `ClipDelivery`: the refinement checked and proved - done.
3. To be proved next: bounds that follow from the invariants and no run states yet, such as how far
   `max_clips` itself can be overshot (`QueueRefinesDelivery` bounds what each admission
   overlooks, not the sum), and that `StationStatus` leaves the station alone (`StatusIsQueue` is that
   lemma for safety).
4. To be turned into runs: status keeps showing `NeverObserved` for a sensor that was
   probed and is healthy (spec 002, FR-015 reserves that value for "no probe performed"),
   staging over its ceiling (`FootprintBounded` bounds it), and an eviction
   that `evict` reports although the runner had just claimed the clip (`WriteOff`).

## 7. Checking it

`tlc -config <run>.cfg <module>` for the runs of `PROJECT.json`; `tlapm <module>.tla` for each of the
`...Proofs` modules. Each module's theorems are cited by those that extend it:
`ClipQueueTypeProofs`, `ClipQueueProofs`, `ClipQueueDeliveryProofs` and `StationStatusProofs`
build on one another in that order; the others stand alone.

## 8. Not modelled

TOML parsing, the rendering of the status report, logging and redaction, X.509 and QR handling (reduced
to accept or reject), the TLS handshake and set-up (`tls.rs`; a client whose key does not match is refused),
the QR camera and the device I/O below the hardware traits, the command line, leftover `*.tmp` files, the text of
clip-ids, steps of the wall clock, the grace period of a shutdown, and the supervision of tasks
other than the delivery loop (`spawn_supervised` logs a panic and does not restart the task).
