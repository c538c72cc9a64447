--------------------------- MODULE UploadLoopProofs ---------------------------
(***************************************************************************)
(* The safety properties of UploadLoop for every number of clips, every    *)
(* set of configurations, answers and Retry-After headers, and every       *)
(* number of restarts and failing writes.                                  *)
(*                                                                         *)
(* The arithmetic of the schedule comes first: on an accepted              *)
(* configuration the jittered delay stays below the dates (JitterBounds)   *)
(* and Delay keeps a Retry-After (DelayBounds). The inductive invariant    *)
(* then follows the clip in hand (InHand), the answer it got (Answers),    *)
(* its late attempts (Lateness), the clips waiting out a jitter (Jittered) *)
(* and those a stop finds in inflight/ (Interrupted).                      *)
(***************************************************************************)
EXTENDS UploadLoop, WellFoundedInduction, TLAPS

Busy == {"preflight", "send", "body", "handle"}

\* The loop runs in a process whose configuration was accepted.
Running ==
    /\ pc # "off" => proc = "up"
    /\ proc = "up" => Validate(Cfg)
    /\ panicked => pc = "off" /\ proc = "up"

\* The clip in hand is claimed, whole, and on no schedule.
InHand ==
    pc \in Busy => /\ cur \in Clips /\ place[cur] = "inflight" /\ attempts[cur] >= 1
                   /\ cur \notin torn \cup jit

\* What is remembered of the answer, and of the pause it asked for.
Answers ==
    /\ pc \notin {"body", "handle"} => resp = NoResp
    /\ pc \in Busy \ {"handle"} => floor[cur] = 0 /\ cur \notin acked
    /\ pc = "handle" =>
         /\ floor[cur] = 0 \/ (resp.after \in 0 .. DateMax /\ floor[cur] = resp.after * Sub)
         /\ resp.after \in DateMax + 1 .. ChronoMax => absurd
         /\ err \notin {"ok", "undecodable"} => cur \notin acked

\* Nothing is known of a clip that has not arrived.
Unknown == \A c \in Clips : place[c] = "none" => floor[c] = 0 /\ c \notin acked /\ late[c] = 0

\* A clip with a late attempt is past its budget for good, so only a restart
\* brings it back to pending/.
Lateness ==
    \A c \in Clips :
        /\ late[c] > 0 => since[c] >= MaxWallclock /\ attempts[c] > 0
        /\ place[c] = "pending" \/ proc # "up" => late[c] <= restarts
        /\ late[c] <= 1 + restarts

\* A clip on a jittered delay is due no later than one rescheduled now would be.
Schedule == [n \in Nat |-> ApplyJitter(BaseDelay(n))]
Jittered ==
    \A c \in jit : c \notin torn /\ attempts[c] >= 1 /\ wait[c] <= Schedule[attempts[c]]

\* While serve is down, a pause is forgotten only for the clips it was cut off with.
Interrupted ==
    proc = "down" => \A c \in Clips : place[c] = "inflight" => floor[c] = 0 \/ c \in cut

IInv ==
    /\ TypeOK /\ Running /\ InHand /\ Answers /\ Unknown /\ Lateness /\ Jittered /\ Interrupted
    /\ HonoursRetryAfter /\ AcceptedNotResent /\ PanicNeedsAbsurdRetryAfter

-----------------------------------------------------------------------------
USE DEF loop, sidecar, history, bounds

\* The larger of two numbers.
LEMMA MaxOfTwo ==
    ASSUME NEW x \in Int, NEW y \in Int
    PROVE  Max({x, y}) = IF x >= y THEN x ELSE y
BY DEF Max

\* The smaller of two numbers.
LEMMA MinOfTwo ==
    ASSUME NEW x \in Int, NEW y \in Int
    PROVE  Min({x, y}) = IF x <= y THEN x ELSE y
BY DEF Min

\* Min of three numbers is one of them and at most each.
LEMMA MinOfThree ==
    ASSUME NEW x \in Int, NEW y \in Int, NEW z \in Int
    PROVE  LET m == Min({x, y, z}) IN m \in {x, y, z} /\ m <= x /\ m <= y /\ m <= z
<1>1. \E m \in {x, y, z} : \A u \in {x, y, z} : m <= u
  OBVIOUS
<1>2. QED
  BY <1>1 DEF Min

\* The least element of a set of clips is one of them.
LEMMA MinOfClips ==
    ASSUME NEW S \in SUBSET Clips, S # {}
    PROVE  Min(S) \in S
<1>1. S \subseteq Nat
  BY UploadConstants DEF Clips
<1> DEFINE R == {p \in Nat \X Nat : p[1] < p[2]}
<1>2. IsWellFoundedOn(R, Nat)
  BY NatLessThanWellFounded, Zenon DEF OpToRel
<1> HIDE DEF R
<1>3. PICK m \in S : \A u \in S : ~(<<u, m>> \in R)
  BY <1>1, <1>2, WFMin
<1>4. ASSUME NEW u \in S PROVE m <= u
  <2>1. ~(<<u, m>>[1] < <<u, m>>[2])
    BY <1>1, <1>3, Zenon DEF R
  <2>2. QED
    BY <1>1, <2>1
<1>5. QED
  BY <1>4 DEF Min

\* The products the schedule is made of, for any tick rate.
LEMMA Products ==
    ASSUME NEW x \in Nat, NEW y \in Nat, NEW z \in Nat, x <= y
    PROVE  x * z \in Nat /\ z * x <= z * y /\ x * z <= y * z
OBVIOUS

\* Whole division by a positive number is monotonic and inverts multiplication.
LEMMA Quotients ==
    ASSUME NEW x \in Nat, NEW y \in Nat, NEW z \in Nat \ {0}
    PROVE  /\ x \div z \in Nat
           /\ x <= y => x \div z <= y \div z
           /\ x <= z * y => x \div z <= y
OBVIOUS

\* What an accepted configuration guarantees of the two durations.
LEMMA ConfigBounds ==
    ASSUME config \in DOMAIN Configs
    PROVE  /\ MaxAttemptDelay \in Nat /\ MaxWallclock \in Nat
           /\ Cfg.initial_delay_secs \in Nat
           /\ Validate(Cfg) => 2 * MaxAttemptDelay <= DateMax * Sub
<1>1. /\ Cfg.initial_delay_secs \in Nat /\ Cfg.max_attempt_delay_secs \in Nat
      /\ Cfg.per_clip_max_wallclock_hours \in Nat
  BY UploadInputs DEF Cfg, Limits
<1>2. MaxAttemptDelay \in Nat /\ MaxWallclock \in Nat
  BY <1>1, UploadConstants, Products DEF MaxAttemptDelay, MaxWallclock
<1>3. ASSUME Validate(Cfg) PROVE 2 * MaxAttemptDelay <= DateMax * Sub
  <2>1. Cfg.max_attempt_delay_secs <= MaxRetryDelay
    BY <1>3, UploadConstants DEF Validate, Limits, NoLimit
  <2>2. 2 * Cfg.max_attempt_delay_secs <= DateMax
    BY <1>1, <2>1, UploadConstants
  <2>3. (2 * Cfg.max_attempt_delay_secs) * Sub <= DateMax * Sub
    BY <1>1, <2>2, UploadConstants, Products
  <2>4. QED
    BY <1>1, <2>3, UploadConstants DEF MaxAttemptDelay
<1>4. QED
  BY <1>1, <1>2, <1>3

\* The exponential delay never exceeds the configured ceiling.
LEMMA BaseBounds ==
    ASSUME config \in DOMAIN Configs, NEW n \in Nat \ {0}
    PROVE  BaseDelay(n) \in 0 .. MaxAttemptDelay
<1> DEFINE x == Cfg.initial_delay_secs * Sub * 2^(n - 1)
           y == MaxAttemptDelay
           z == MaxBackoff * Sub
           m == Min({x, y, z})
<1>1. x \in Int /\ y \in Nat /\ z \in Int
  BY ConfigBounds, UploadConstants
<1>2. BaseDelay(n) = Max({0, m})
  BY DEF BaseDelay
<1> HIDE DEF x, y, z
<1>3. m \in Int /\ m <= y
  BY <1>1, MinOfThree
<1> HIDE DEF m
<1>4. BaseDelay(n) \in 0 .. y
  BY <1>1, <1>2, <1>3, MaxOfTwo
<1>5. QED
  BY <1>4 DEF y

\* Jitter adds a fifth at most ...
LEMMA JitterBounds ==
    ASSUME sub \in 0 .. Sub - 1, NEW base \in Nat
    PROVE  ApplyJitter(base) \in Nat /\ ApplyJitter(base) <= 2 * base
<1>1. 4 * Sub + 2 * sub \in Nat /\ 4 * Sub + 2 * sub <= 10 * Sub /\ 5 * Sub \in Nat \ {0}
  BY UploadConstants
<1>2. base * (4 * Sub + 2 * sub) \in Nat /\ base * (4 * Sub + 2 * sub) <= base * (10 * Sub)
  BY <1>1, Products, UploadConstants
<1>3. base * (10 * Sub) = (5 * Sub) * (2 * base)
  BY UploadConstants
<1>4. QED
  BY <1>1, <1>2, <1>3, Quotients DEF ApplyJitter

\* ... and more of it the later in the second.
LEMMA JitterMonotonic ==
    ASSUME sub \in 0 .. Sub - 1, NEW t \in 0 .. Sub - 1, sub <= t, NEW base \in Nat
    PROVE  LET later == (base * (4 * Sub + 2 * t)) \div (5 * Sub)
           IN  later \in Nat /\ ApplyJitter(base) <= later
<1>1. 4 * Sub + 2 * sub \in Nat /\ 4 * Sub + 2 * t \in Nat /\ 5 * Sub \in Nat \ {0}
      /\ 4 * Sub + 2 * sub <= 4 * Sub + 2 * t
  BY UploadConstants
<1>2. /\ base * (4 * Sub + 2 * sub) \in Nat /\ base * (4 * Sub + 2 * t) \in Nat
      /\ base * (4 * Sub + 2 * sub) <= base * (4 * Sub + 2 * t)
  BY <1>1, Products
<1>3. QED
  BY <1>1, <1>2, Quotients DEF ApplyJitter

\* Delay keeps a Retry-After a date can hold, and leaves the dates only for one
\* that no date can hold.
LEMMA DelayBounds ==
    ASSUME config \in DOMAIN Configs, Validate(Cfg), sub \in 0 .. Sub - 1,
           NEW n \in Nat \ {0}, NEW after \in Int
    PROVE  /\ Delay(n, after) \in Nat
           /\ after \in 0 .. DateMax => after * Sub <= Delay(n, after)
           /\ Delay(n, after) > DateMax * Sub => after \in DateMax + 1 .. ChronoMax
<1> DEFINE j == ApplyJitter(BaseDelay(n))
           delay == Max({j, after * Sub})
<1>1. MaxAttemptDelay \in Nat /\ 2 * MaxAttemptDelay <= DateMax * Sub /\ DateMax * Sub \in Nat
      /\ ChronoMax * Sub \in Nat /\ DateMax * Sub <= ChronoMax * Sub /\ after * Sub \in Int
  BY ConfigBounds, UploadConstants, Products
<1>2. j \in Nat /\ j <= DateMax * Sub
  <2>1. BaseDelay(n) \in Nat /\ BaseDelay(n) <= MaxAttemptDelay
    BY <1>1, BaseBounds
  <2>2. QED
    BY <1>1, <2>1, JitterBounds
<1>3. delay = (IF j >= after * Sub THEN j ELSE after * Sub)
  BY <1>1, <1>2, MaxOfTwo
<1>4. Delay(n, after) = IF delay > ChronoMax * Sub THEN MaxAttemptDelay ELSE delay
  BY DEF Delay
<1>5. after \in 0 .. DateMax => after * Sub <= DateMax * Sub
  BY UploadConstants, Products
<1>6. after * Sub > DateMax * Sub /\ after * Sub <= ChronoMax * Sub
        => after \in DateMax + 1 .. ChronoMax
  <2>1. after <= DateMax => after * Sub <= DateMax * Sub
    BY UploadConstants
  <2>2. after > ChronoMax => after * Sub > ChronoMax * Sub
    BY UploadConstants
  <2>3. QED
    BY <2>1, <2>2, UploadConstants, <1>1
<1> HIDE DEF j, delay
<1>7. QED
  BY <1>1, <1>2, <1>3, <1>4, <1>5, <1>6

\* A date in the past counts as no pause; whatever the header, a number results.
LEMMA RetryAfterType ==
    ASSUME NEW h \in RetryAfters PROVE ParseRetryAfter(h) \in Int
<1>1. h.form \in {"none", "delta", "date"} /\ h.secs \in Int
  BY UploadInputs
<1>2. Max({h.secs, 0}) \in Int
  BY <1>1, MaxOfTwo
<1>3. QED
  BY <1>1, <1>2 DEF ParseRetryAfter, None

-----------------------------------------------------------------------------
\* While serve is down only time passes.
LEMMA InterruptedStep ==
    ASSUME TypeOK, Running, Interrupted, [Next]_vars PROVE Interrupted'
<1>1. CASE ServeStops
  BY <1>1 DEF ServeStops, Interrupted, TypeOK
<1>2. CASE ServeStarts
  BY <1>2 DEF ServeStarts, Interrupted
<1>3. CASE Tick
  <2>1. proc' = proc /\ place' = place /\ cut' = cut /\ floor' = [c \in Clips |-> Down(floor[c])]
    BY <1>3 DEF Tick
  <2>2. \A c \in Clips : floor[c] = 0 => floor'[c] = 0
    BY <2>1 DEF Down
  <2>3. QED
    BY <2>1, <2>2 DEF Interrupted
<1>4. ASSUME LoopStep \/ Expire \/ \E c \in Clips : Arrive(c) PROVE Interrupted'
  <2>1. pc # "off" \/ proc = "up"
    BY <1>4 DEF LoopStep, CertExpired, NothingDue, Claim, ClaimFails, QuarantineOrphan,
        PreflightOk, PreflightFails, Wake, SendFails, Answer, Chunk, BodyFails, BodyEnds,
        MarkDelivered, MarkTerminal, MarkAttemptsExhausted, Requeue, RequeueFails,
        SchedulePanics, Expire, Arrive
  <2>2. proc' = proc
    BY <1>4 DEF LoopStep, CertExpired, NothingDue, Claim, ClaimFails, QuarantineOrphan,
        PreflightOk, PreflightFails, Wake, SendFails, Answer, Chunk, BodyFails, BodyEnds,
        MarkDelivered, MarkTerminal, MarkAttemptsExhausted, Requeue, RequeueFails,
        SchedulePanics, Expire, Arrive, File, Result
  <2>3. QED
    BY <2>1, <2>2 DEF Running, Interrupted
<1>5. CASE UNCHANGED vars
  BY <1>5 DEF vars, Interrupted
<1>6. QED
  BY <1>1, <1>2, <1>3, <1>4, <1>5 DEF Next

\* Every step of the loop, serve and the clock keeps the inductive invariant.
LEMMA InvStep == IInv /\ [Next]_vars => IInv'
<1> SUFFICES ASSUME IInv, [Next]_vars PROVE IInv'
  OBVIOUS
<1> USE UploadConstants DEF IInv
<1>a. /\ config \in DOMAIN Configs /\ MaxAttemptDelay \in Nat /\ MaxWallclock \in Nat
      /\ sub \in 0 .. Sub - 1 /\ restarts \in Nat
  BY ConfigBounds DEF TypeOK
<1>b. NoResp \in [status: {0} \cup Statuses, after: Int] /\ NoResp.after = None
  BY DEF NoResp, None
<1>c. config' = config => /\ MaxAttemptDelay' = MaxAttemptDelay /\ MaxWallclock' = MaxWallclock
                          /\ Validate(Cfg)' = Validate(Cfg)
  BY DEF MaxAttemptDelay, MaxWallclock, Validate, Cfg, Limits
<1>d. config' = config /\ sub' = sub => Schedule' = Schedule
  BY DEF Schedule, ApplyJitter, BaseDelay, MaxAttemptDelay, Cfg
<1>e. \A m \in Nat \ {0} : Schedule[m] \in Nat /\ Schedule[m] = ApplyJitter(BaseDelay(m))
  BY <1>a, BaseBounds, JitterBounds DEF Schedule
<1>f. Fault => /\ pc' = "nap" /\ nap' \in Nat /\ cur' = 0 /\ resp' = NoResp /\ got' = 0
               /\ err' = "none" /\ faults' \in 0 .. MaxFaults /\ restarts' = restarts
  <2>1. DiskFullBackoff \in Nat
    BY <1>a, MinOfTwo DEF DiskFullBackoff
  <2>2. QED
    BY <2>1 DEF Fault, Sleep, TypeOK
<1>g. Interrupted'
  BY InterruptedStep
<1>1. CASE ServeStarts
  <2>1. /\ UNCHANGED <<config, sub, torn, attempts, jit>>
        /\ \A c \in Clips : wait'[c] \in {wait[c], 0}
    BY <1>1 DEF ServeStarts, TypeOK
  <2>2. TypeOK'
    BY <1>1, <2>1, <1>a, <1>c, <1>b
      DEF ServeStarts, EnsureRuntimeReady, TypeOK
  <2>3. Running'
    BY <1>1, <2>1, <1>a, <1>c
      DEF ServeStarts, EnsureRuntimeReady, Running
  <2>4. InHand'
    BY <1>1, <2>1, <1>a, <1>c
      DEF ServeStarts, EnsureRuntimeReady, InHand, Busy
  <2>5. Answers'
    BY <1>1, <2>1, <1>a, <1>c, <1>b
      DEF ServeStarts, EnsureRuntimeReady, Answers, Running, Busy
  <2>6. Unknown'
    BY <1>1, <2>1, <1>a, <1>c
      DEF ServeStarts, EnsureRuntimeReady, Unknown
  <2>7. Lateness'
    BY <1>1, <2>1, <1>a, <1>c
      DEF ServeStarts, EnsureRuntimeReady, Lateness
  <2>8. Jittered'
    BY <1>1, <2>1, <1>a, <1>c, <1>d, <1>e
      DEF Jittered, TypeOK
  <2>9. HonoursRetryAfter'
    BY <1>1, <2>1, <1>a, <1>c
      DEF ServeStarts, EnsureRuntimeReady, HonoursRetryAfter, Interrupted, TypeOK
  <2>10. AcceptedNotResent'
    BY <1>1, <2>1, <1>a, <1>c
      DEF ServeStarts, EnsureRuntimeReady, AcceptedNotResent
  <2>11. PanicNeedsAbsurdRetryAfter'
    BY <1>1, <2>1, <1>a, <1>c
      DEF ServeStarts, EnsureRuntimeReady, PanicNeedsAbsurdRetryAfter, Running
  <2>12. QED
    BY <1>g, <2>2, <2>3, <2>4, <2>5, <2>6, <2>7, <2>8, <2>9, <2>10, <2>11
<1>2. CASE ServeStops
  <2>1. panicked' \in BOOLEAN
    BY <1>2 DEF ServeStops
  <2>2. TypeOK'
    BY <1>2, <2>1, <1>a, <1>c, <1>b
      DEF ServeStops, TypeOK
  <2>3. Running'
    BY <1>2, <2>1, <1>a, <1>c
      DEF ServeStops, Running
  <2>4. InHand'
    BY <1>2, <2>1, <1>a, <1>c
      DEF ServeStops, InHand, Busy
  <2>5. Answers'
    BY <1>2, <2>1, <1>a, <1>c, <1>b
      DEF ServeStops, Answers, Busy
  <2>6. Unknown'
    BY <1>2, <2>1, <1>a, <1>c
      DEF ServeStops, Unknown
  <2>7. Lateness'
    BY <1>2, <2>1, <1>a, <1>c
      DEF ServeStops, Lateness, TypeOK
  <2>8. Jittered'
    BY <1>2, <2>1, <1>a, <1>c, <1>d
      DEF ServeStops, Jittered
  <2>9. HonoursRetryAfter'
    BY <1>2, <2>1, <1>a, <1>c
      DEF ServeStops, HonoursRetryAfter
  <2>10. AcceptedNotResent'
    BY <1>2, <2>1, <1>a, <1>c
      DEF ServeStops, AcceptedNotResent
  <2>11. PanicNeedsAbsurdRetryAfter'
    BY <1>2, <2>1, <1>a, <1>c
      DEF ServeStops, PanicNeedsAbsurdRetryAfter
  <2>12. QED
    BY <1>g, <2>2, <2>3, <2>4, <2>5, <2>6, <2>7, <2>8, <2>9, <2>10, <2>11
<1>3. ASSUME NEW c \in Clips, Arrive(c) PROVE IInv'
  <2>1. \A d \in Clips : d # c => place'[d] = place[d]
    BY <1>3 DEF Arrive, TypeOK
  <2>2. TypeOK'
    BY <1>3, <2>1, <1>a, <1>c, <1>b
      DEF Arrive, TypeOK
  <2>3. Running'
    BY <1>3, <2>1, <1>a, <1>c
      DEF Arrive, Running
  <2>4. InHand'
    BY <1>3, <2>1, <1>a, <1>c
      DEF Arrive, InHand, TypeOK, Busy
  <2>5. Answers'
    BY <1>3, <2>1, <1>a, <1>c, <1>b
      DEF Arrive, Answers, Busy
  <2>6. Unknown'
    BY <1>3, <2>1, <1>a, <1>c
      DEF Arrive, Unknown, TypeOK
  <2>7. Lateness'
    BY <1>3, <2>1, <1>a, <1>c
      DEF Arrive, Lateness, Unknown, TypeOK
  <2>8. Jittered'
    BY <1>3, <2>1, <1>a, <1>c, <1>d
      DEF Arrive, Jittered
  <2>9. HonoursRetryAfter'
    BY <1>3, <2>1, <1>a, <1>c
      DEF Arrive, HonoursRetryAfter, Unknown, TypeOK
  <2>10. AcceptedNotResent'
    BY <1>3, <2>1, <1>a, <1>c
      DEF Arrive, AcceptedNotResent, Unknown, TypeOK
  <2>11. PanicNeedsAbsurdRetryAfter'
    BY <1>3, <2>1, <1>a, <1>c
      DEF Arrive, PanicNeedsAbsurdRetryAfter
  <2>12. QED
    BY <1>g, <2>2, <2>3, <2>4, <2>5, <2>6, <2>7, <2>8, <2>9, <2>10, <2>11
<1>4. CASE CertExpired
  <2>1. TypeOK'
    BY <1>4, <1>a, <1>c, <1>b
      DEF CertExpired, Sleep, TypeOK
  <2>2. Running'
    BY <1>4, <1>a, <1>c
      DEF CertExpired, Sleep, Running
  <2>3. InHand'
    BY <1>4, <1>a, <1>c
      DEF CertExpired, Sleep, InHand, Busy
  <2>4. Answers'
    BY <1>4, <1>a, <1>c, <1>b
      DEF CertExpired, Sleep, Answers, Busy
  <2>5. Unknown'
    BY <1>4, <1>a, <1>c
      DEF CertExpired, Sleep, Unknown
  <2>6. Lateness'
    BY <1>4, <1>a, <1>c
      DEF CertExpired, Sleep, Lateness
  <2>7. Jittered'
    BY <1>4, <1>a, <1>c, <1>d
      DEF CertExpired, Sleep, Jittered
  <2>8. HonoursRetryAfter'
    BY <1>4, <1>a, <1>c
      DEF CertExpired, Sleep, HonoursRetryAfter
  <2>9. AcceptedNotResent'
    BY <1>4, <1>a, <1>c
      DEF CertExpired, Sleep, AcceptedNotResent
  <2>10. PanicNeedsAbsurdRetryAfter'
    BY <1>4, <1>a, <1>c
      DEF CertExpired, Sleep, PanicNeedsAbsurdRetryAfter
  <2>11. QED
    BY <1>g, <2>1, <2>2, <2>3, <2>4, <2>5, <2>6, <2>7, <2>8, <2>9, <2>10
<1>5. CASE NothingDue
  <2>1. TypeOK'
    BY <1>5, <1>a, <1>c, <1>b
      DEF NothingDue, Sleep, TypeOK
  <2>2. Running'
    BY <1>5, <1>a, <1>c
      DEF NothingDue, Sleep, Running
  <2>3. InHand'
    BY <1>5, <1>a, <1>c
      DEF NothingDue, Sleep, InHand, Busy
  <2>4. Answers'
    BY <1>5, <1>a, <1>c, <1>b
      DEF NothingDue, Sleep, Answers, Busy
  <2>5. Unknown'
    BY <1>5, <1>a, <1>c
      DEF NothingDue, Sleep, Unknown
  <2>6. Lateness'
    BY <1>5, <1>a, <1>c
      DEF NothingDue, Sleep, Lateness
  <2>7. Jittered'
    BY <1>5, <1>a, <1>c, <1>d
      DEF NothingDue, Sleep, Jittered
  <2>8. HonoursRetryAfter'
    BY <1>5, <1>a, <1>c
      DEF NothingDue, Sleep, HonoursRetryAfter
  <2>9. AcceptedNotResent'
    BY <1>5, <1>a, <1>c
      DEF NothingDue, Sleep, AcceptedNotResent
  <2>10. PanicNeedsAbsurdRetryAfter'
    BY <1>5, <1>a, <1>c
      DEF NothingDue, Sleep, PanicNeedsAbsurdRetryAfter
  <2>11. QED
    BY <1>g, <2>1, <2>2, <2>3, <2>4, <2>5, <2>6, <2>7, <2>8, <2>9, <2>10
<1>6. CASE Wake
  <2>1. TypeOK'
    BY <1>6, <1>a, <1>c, <1>b
      DEF Wake, TypeOK
  <2>2. Running'
    BY <1>6, <1>a, <1>c
      DEF Wake, Running
  <2>3. InHand'
    BY <1>6, <1>a, <1>c
      DEF Wake, InHand, Busy
  <2>4. Answers'
    BY <1>6, <1>a, <1>c, <1>b
      DEF Wake, Answers, Busy
  <2>5. Unknown'
    BY <1>6, <1>a, <1>c
      DEF Wake, Unknown
  <2>6. Lateness'
    BY <1>6, <1>a, <1>c
      DEF Wake, Lateness
  <2>7. Jittered'
    BY <1>6, <1>a, <1>c, <1>d
      DEF Wake, Jittered
  <2>8. HonoursRetryAfter'
    BY <1>6, <1>a, <1>c
      DEF Wake, HonoursRetryAfter
  <2>9. AcceptedNotResent'
    BY <1>6, <1>a, <1>c
      DEF Wake, AcceptedNotResent
  <2>10. PanicNeedsAbsurdRetryAfter'
    BY <1>6, <1>a, <1>c
      DEF Wake, PanicNeedsAbsurdRetryAfter
  <2>11. QED
    BY <1>g, <2>1, <2>2, <2>3, <2>4, <2>5, <2>6, <2>7, <2>8, <2>9, <2>10
<1>7. CASE PreflightOk
  <2>1. TypeOK'
    BY <1>7, <1>a, <1>c, <1>b
      DEF PreflightOk, TypeOK
  <2>2. Running'
    BY <1>7, <1>a, <1>c
      DEF PreflightOk, Running
  <2>3. InHand'
    BY <1>7, <1>a, <1>c
      DEF PreflightOk, InHand, Busy
  <2>4. Answers'
    BY <1>7, <1>a, <1>c, <1>b
      DEF PreflightOk, Answers, Busy
  <2>5. Unknown'
    BY <1>7, <1>a, <1>c
      DEF PreflightOk, Unknown
  <2>6. Lateness'
    BY <1>7, <1>a, <1>c
      DEF PreflightOk, Lateness
  <2>7. Jittered'
    BY <1>7, <1>a, <1>c, <1>d
      DEF PreflightOk, Jittered
  <2>8. HonoursRetryAfter'
    BY <1>7, <1>a, <1>c
      DEF PreflightOk, HonoursRetryAfter
  <2>9. AcceptedNotResent'
    BY <1>7, <1>a, <1>c
      DEF PreflightOk, AcceptedNotResent
  <2>10. PanicNeedsAbsurdRetryAfter'
    BY <1>7, <1>a, <1>c
      DEF PreflightOk, PanicNeedsAbsurdRetryAfter
  <2>11. QED
    BY <1>g, <2>1, <2>2, <2>3, <2>4, <2>5, <2>6, <2>7, <2>8, <2>9, <2>10
<1>8. CASE Chunk
  <2>1. TypeOK'
    BY <1>8, <1>a, <1>c, <1>b
      DEF Chunk, TypeOK
  <2>2. Running'
    BY <1>8, <1>a, <1>c
      DEF Chunk, Running
  <2>3. InHand'
    BY <1>8, <1>a, <1>c
      DEF Chunk, InHand, Busy
  <2>4. Answers'
    BY <1>8, <1>a, <1>c, <1>b
      DEF Chunk, Answers, Busy
  <2>5. Unknown'
    BY <1>8, <1>a, <1>c
      DEF Chunk, Unknown
  <2>6. Lateness'
    BY <1>8, <1>a, <1>c
      DEF Chunk, Lateness
  <2>7. Jittered'
    BY <1>8, <1>a, <1>c, <1>d
      DEF Chunk, Jittered
  <2>8. HonoursRetryAfter'
    BY <1>8, <1>a, <1>c
      DEF Chunk, HonoursRetryAfter
  <2>9. AcceptedNotResent'
    BY <1>8, <1>a, <1>c
      DEF Chunk, AcceptedNotResent
  <2>10. PanicNeedsAbsurdRetryAfter'
    BY <1>8, <1>a, <1>c
      DEF Chunk, PanicNeedsAbsurdRetryAfter
  <2>11. QED
    BY <1>g, <2>1, <2>2, <2>3, <2>4, <2>5, <2>6, <2>7, <2>8, <2>9, <2>10
<1>9. CASE Expire
  <2>1. TypeOK'
    BY <1>9, <1>a, <1>c, <1>b
      DEF Expire, TypeOK
  <2>2. Running'
    BY <1>9, <1>a, <1>c
      DEF Expire, Running
  <2>3. InHand'
    BY <1>9, <1>a, <1>c
      DEF Expire, InHand, Busy
  <2>4. Answers'
    BY <1>9, <1>a, <1>c, <1>b
      DEF Expire, Answers, Busy
  <2>5. Unknown'
    BY <1>9, <1>a, <1>c
      DEF Expire, Unknown
  <2>6. Lateness'
    BY <1>9, <1>a, <1>c
      DEF Expire, Lateness
  <2>7. Jittered'
    BY <1>9, <1>a, <1>c, <1>d
      DEF Expire, Jittered
  <2>8. HonoursRetryAfter'
    BY <1>9, <1>a, <1>c
      DEF Expire, HonoursRetryAfter
  <2>9. AcceptedNotResent'
    BY <1>9, <1>a, <1>c
      DEF Expire, AcceptedNotResent
  <2>10. PanicNeedsAbsurdRetryAfter'
    BY <1>9, <1>a, <1>c
      DEF Expire, PanicNeedsAbsurdRetryAfter
  <2>11. QED
    BY <1>g, <2>1, <2>2, <2>3, <2>4, <2>5, <2>6, <2>7, <2>8, <2>9, <2>10
<1>10. CASE SendFails
  <2>1. TypeOK'
    BY <1>10, <1>a, <1>c, <1>b
      DEF SendFails, Result, TypeOK
  <2>2. Running'
    BY <1>10, <1>a, <1>c
      DEF SendFails, Result, Running
  <2>3. InHand'
    BY <1>10, <1>a, <1>c
      DEF SendFails, Result, InHand, Busy
  <2>4. Answers'
    BY <1>10, <1>a, <1>c, <1>b
      DEF SendFails, Result, Answers, None, Busy
  <2>5. Unknown'
    BY <1>10, <1>a, <1>c
      DEF SendFails, Result, Unknown
  <2>6. Lateness'
    BY <1>10, <1>a, <1>c
      DEF SendFails, Result, Lateness
  <2>7. Jittered'
    BY <1>10, <1>a, <1>c, <1>d
      DEF SendFails, Result, Jittered
  <2>8. HonoursRetryAfter'
    BY <1>10, <1>a, <1>c
      DEF SendFails, Result, HonoursRetryAfter
  <2>9. AcceptedNotResent'
    BY <1>10, <1>a, <1>c
      DEF SendFails, Result, AcceptedNotResent
  <2>10. PanicNeedsAbsurdRetryAfter'
    BY <1>10, <1>a, <1>c
      DEF SendFails, Result, PanicNeedsAbsurdRetryAfter
  <2>11. QED
    BY <1>g, <2>1, <2>2, <2>3, <2>4, <2>5, <2>6, <2>7, <2>8, <2>9, <2>10
<1>11. CASE Answer
  <2>1. TypeOK'
    BY <1>11, <1>a, <1>c, <1>b, RetryAfterType
      DEF Answer, TypeOK, None
  <2>2. Running'
    BY <1>11, <1>a, <1>c
      DEF Answer, Running
  <2>3. InHand'
    BY <1>11, <1>a, <1>c
      DEF Answer, InHand, Busy
  <2>4. Answers'
    BY <1>11, <1>a, <1>c, <1>b
      DEF Answer, Answers, Busy
  <2>5. Unknown'
    BY <1>11, <1>a, <1>c
      DEF Answer, Unknown
  <2>6. Lateness'
    BY <1>11, <1>a, <1>c
      DEF Answer, Lateness
  <2>7. Jittered'
    BY <1>11, <1>a, <1>c, <1>d
      DEF Answer, Jittered
  <2>8. HonoursRetryAfter'
    BY <1>11, <1>a, <1>c
      DEF Answer, HonoursRetryAfter
  <2>9. AcceptedNotResent'
    BY <1>11, <1>a, <1>c
      DEF Answer, AcceptedNotResent
  <2>10. PanicNeedsAbsurdRetryAfter'
    BY <1>11, <1>a, <1>c
      DEF Answer, PanicNeedsAbsurdRetryAfter
  <2>11. QED
    BY <1>g, <2>1, <2>2, <2>3, <2>4, <2>5, <2>6, <2>7, <2>8, <2>9, <2>10
<1>12. CASE BodyFails
  <2>1. TypeOK'
    BY <1>12, <1>a, <1>c, <1>b
      DEF BodyFails, Result, TypeOK
  <2>2. Running'
    BY <1>12, <1>a, <1>c
      DEF BodyFails, Result, Running
  <2>3. InHand'
    BY <1>12, <1>a, <1>c
      DEF BodyFails, Result, InHand, Busy
  <2>4. Answers'
    BY <1>12, <1>a, <1>c, <1>b
      DEF BodyFails, Result, Answers, None, Busy
  <2>5. Unknown'
    BY <1>12, <1>a, <1>c
      DEF BodyFails, Result, Unknown
  <2>6. Lateness'
    BY <1>12, <1>a, <1>c
      DEF BodyFails, Result, Lateness
  <2>7. Jittered'
    BY <1>12, <1>a, <1>c, <1>d
      DEF BodyFails, Result, Jittered
  <2>8. HonoursRetryAfter'
    BY <1>12, <1>a, <1>c
      DEF BodyFails, Result, HonoursRetryAfter
  <2>9. AcceptedNotResent'
    BY <1>12, <1>a, <1>c
      DEF BodyFails, Result, AcceptedNotResent
  <2>10. PanicNeedsAbsurdRetryAfter'
    BY <1>12, <1>a, <1>c
      DEF BodyFails, Result, PanicNeedsAbsurdRetryAfter
  <2>11. QED
    BY <1>g, <2>1, <2>2, <2>3, <2>4, <2>5, <2>6, <2>7, <2>8, <2>9, <2>10
<1>13. CASE BodyEnds
  <2>1. /\ pc = "body" /\ cur \in Clips /\ place[cur] = "inflight" /\ floor[cur] = 0
        /\ cur \notin acked
        /\ attempts[cur] >= 1 /\ cur \notin torn \cup jit /\ resp.after \in Int
    BY <1>13 DEF BodyEnds, InHand, Answers, Busy, TypeOK
  <2>2. /\ pc' = "handle" /\ cur' = cur /\ got' = 0
        /\ UNCHANGED <<config, proc, nap, sidecar, sub, expired, panicked, bounds, cut, late, jit>>
    BY <1>13 DEF BodyEnds, Result
  <2>3. \/ /\ err' \in {"ok", "undecodable"} /\ acked' = acked \cup {cur} /\ resp' = NoResp
           /\ UNCHANGED <<floor, absurd>>
        \/ /\ err' = "http" /\ UNCHANGED <<acked, resp>>
           /\ floor' = [floor EXCEPT ![cur]
                  = IF resp.after \in 0 .. DateMax THEN resp.after * Sub ELSE 0]
           /\ absurd' = (resp.after \in DateMax + 1 .. ChronoMax)
    BY <1>13 DEF BodyEnds, Result, ClassifyResponse
  <2>4. resp.after \in 0 .. DateMax => resp.after * Sub \in Nat
    BY <1>13, <2>1, Products
  <2>5. /\ floor' \in [Clips -> Nat] /\ \A d \in Clips : d # cur => floor'[d] = floor[d]
        /\ floor'[cur] = 0 \/ (resp'.after \in 0 .. DateMax /\ floor'[cur] = resp'.after * Sub)
    BY <1>13, <2>1, <2>3, <2>4 DEF TypeOK
  <2>6. absurd \in BOOLEAN /\ acked \subseteq Clips /\
            resp \in [status: {0} \cup Statuses, after: Int]
    BY <1>13 DEF TypeOK
  <2>7. absurd' \in BOOLEAN
    <3>1. CASE absurd' = (resp.after \in DateMax + 1 .. ChronoMax)
      BY <3>1, SMT
    <3>2. CASE absurd' = absurd
      BY <2>6, <3>2, SMT
    <3>3. QED
      BY <2>3, <3>1, <3>2, Zenon
  <2>8. NoResp.after \notin DateMax + 1 .. ChronoMax
    BY <1>13, <1>b DEF None
  <2>9. resp'.after \in DateMax + 1 .. ChronoMax => absurd'
    BY <1>13, <2>3, <2>8, Zenon
  <2>10. acked' \subseteq Clips /\ err' \in {"ok", "undecodable", "http"}
        /\ resp' \in [status: {0} \cup Statuses, after: Int]
    BY <1>13, <2>1, <2>3, <2>6, <1>b
  <2>11. TypeOK'
    BY <1>13, <2>1, <2>2, <2>4, <2>5, <2>6, <2>7, <2>8, <2>9, <2>10, <1>a, <1>c, <1>b
      DEF TypeOK
  <2>12. Running'
    BY <1>13, <2>1, <2>2, <2>3, <2>4, <2>5, <2>6, <2>7, <2>8, <2>9, <2>10, <1>a, <1>c
      DEF Running
  <2>13. InHand'
    BY <1>13, <2>1, <2>2, <2>3, <2>4, <2>5, <2>6, <2>7, <2>8, <2>9, <2>10, <1>a, <1>c
      DEF InHand, Busy
  <2>14. Answers'
    BY <1>13, <2>1, <2>2, <2>3, <2>4, <2>5, <2>6, <2>7, <2>8, <2>9, <2>10, <1>a, <1>c,
        <1>b
      DEF Answers, Busy
  <2>15. Unknown'
    BY <1>13, <2>1, <2>2, <2>3, <2>4, <2>5, <2>6, <2>7, <2>8, <2>9, <2>10, <1>a, <1>c
      DEF Unknown
  <2>16. Lateness'
    BY <1>13, <2>1, <2>2, <2>3, <2>4, <2>5, <2>6, <2>7, <2>8, <2>9, <2>10, <1>a, <1>c
      DEF Lateness
  <2>17. Jittered'
    BY <1>13, <2>1, <2>2, <2>3, <2>4, <2>5, <2>6, <2>7, <2>8, <2>9, <2>10, <1>a, <1>c,
        <1>d
      DEF Jittered
  <2>18. HonoursRetryAfter'
    BY <1>13, <2>1, <2>2, <2>3, <2>4, <2>5, <2>6, <2>7, <2>8, <2>9, <2>10, <1>a, <1>c
      DEF HonoursRetryAfter
  <2>19. AcceptedNotResent'
    BY <1>13, <2>1, <2>2, <2>3, <2>4, <2>5, <2>6, <2>7, <2>8, <2>9, <2>10, <1>a, <1>c
      DEF AcceptedNotResent
  <2>20. PanicNeedsAbsurdRetryAfter'
    BY <1>13, <2>1, <2>2, <2>3, <2>4, <2>5, <2>6, <2>7, <2>8, <2>9, <2>10, <1>a, <1>c
      DEF PanicNeedsAbsurdRetryAfter, Running
  <2>21. QED
    BY <1>g, <2>11, <2>12, <2>13, <2>14, <2>15, <2>16, <2>17, <2>18, <2>19, <2>20
<1>14. CASE ClaimFails
  <2>1. /\ pc' = "nap" /\ nap' \in Nat /\ cur' = 0 /\ resp' = NoResp /\ got' = 0 /\ err' = "none"
        /\ faults' \in 0 .. MaxFaults /\ restarts' = restarts
    BY <1>14, <1>f DEF ClaimFails
  <2>2. TypeOK'
    BY <1>14, <2>1, <1>a, <1>c, <1>b
      DEF ClaimFails, TypeOK
  <2>3. Running'
    BY <1>14, <2>1, <1>a, <1>c
      DEF ClaimFails, Running
  <2>4. InHand'
    BY <1>14, <2>1, <1>a, <1>c
      DEF ClaimFails, InHand, Busy
  <2>5. Answers'
    BY <1>14, <2>1, <1>a, <1>c, <1>b
      DEF ClaimFails, Answers, Busy
  <2>6. Unknown'
    BY <1>14, <2>1, <1>a, <1>c
      DEF ClaimFails, Unknown
  <2>7. Lateness'
    BY <1>14, <2>1, <1>a, <1>c
      DEF ClaimFails, Lateness
  <2>8. Jittered'
    BY <1>14, <2>1, <1>a, <1>c, <1>d
      DEF ClaimFails, Jittered
  <2>9. HonoursRetryAfter'
    BY <1>14, <2>1, <1>a, <1>c
      DEF ClaimFails, HonoursRetryAfter
  <2>10. AcceptedNotResent'
    BY <1>14, <2>1, <1>a, <1>c
      DEF ClaimFails, AcceptedNotResent
  <2>11. PanicNeedsAbsurdRetryAfter'
    BY <1>14, <2>1, <1>a, <1>c
      DEF ClaimFails, PanicNeedsAbsurdRetryAfter
  <2>12. QED
    BY <1>g, <2>2, <2>3, <2>4, <2>5, <2>6, <2>7, <2>8, <2>9, <2>10, <2>11
<1>15. CASE Claim
  <2>1. PICK c \in Clips : c = Min(Due) /\ place[c] = "pending"
    BY <1>15, MinOfClips DEF Claim, Due
  <2>2. /\ c \notin torn /\ Claimed(c) /\ cur' = c /\ pc' = "preflight"
        /\ floor' = [floor EXCEPT ![c] = 0] /\ jit' = jit \ {c} /\ ~expired
        /\ UNCHANGED <<config, proc, resp, got, err, nap, torn, wait, sub, expired, panicked,
               bounds, acked>>
        /\ cut' = cut \ {c}
    BY <1>15, <2>1 DEF Claim
  <2>3. /\ place' \in [Clips -> {"none", "pending", "inflight", "recorded", "done", "corrupt"}]
        /\ place'[c] = "inflight" /\ \A d \in Clips : d # c => place'[d] = place[d]
    BY <1>15, <2>2 DEF Claimed, TypeOK
  <2>4. /\ attempts' \in [Clips -> Nat] /\ floor' \in [Clips -> Nat]
        /\ attempts'[c] = attempts[c] + 1 /\ floor'[c] = 0
        /\ \A d \in Clips : d # c => attempts'[d] = attempts[d] /\ floor'[d] = floor[d]
    BY <1>15, <2>2 DEF Claimed, TypeOK
  <2>5. /\ late' \in [Clips -> Nat] /\ since' = since
        /\ late'[c] = (IF since[c] >= MaxWallclock THEN late[c] + 1 ELSE late[c])
        /\ \A d \in Clips : d # c => late'[d] = late[d]
    BY <1>15, <2>2 DEF Claimed, TypeOK
  <2>6. absurd' \in BOOLEAN /\ pc = "top"
    BY <1>15 DEF Claim
  <2>7. \A d \in Clips : late[d] \in Nat /\ attempts[d] \in Nat
    BY <1>15 DEF TypeOK
  <2>8. TypeOK'
    BY <1>15, <2>1, <2>2, <2>3, <2>4, <2>5, <2>6, <2>7, <1>a, <1>c, <1>b
      DEF TypeOK
  <2>9. Running'
    BY <1>15, <2>1, <2>2, <2>3, <2>4, <2>5, <2>6, <2>7, <1>a, <1>c
      DEF Running
  <2>10. InHand'
    BY <1>15, <2>1, <2>2, <2>3, <2>4, <2>5, <2>6, <2>7, <1>a, <1>c
      DEF InHand, TypeOK, Busy
  <2>11. Answers'
    BY <1>15, <2>1, <2>2, <2>3, <2>4, <2>5, <2>6, <2>7, <1>a, <1>c, <1>b
      DEF Answers, AcceptedNotResent, Busy
  <2>12. Unknown'
    BY <1>15, <2>1, <2>2, <2>3, <2>4, <2>5, <2>6, <2>7, <1>a, <1>c
      DEF Unknown
  <2>13. Lateness'
    <3>1. /\ UNCHANGED <<config, restarts, proc, since>> /\ MaxWallclock' = MaxWallclock
          /\ MaxWallclock \in Nat /\ restarts \in Nat /\ proc = "up"
      BY <2>2, <2>5, <2>6, <1>a, <1>c DEF Running
    <3>2. ASSUME NEW d \in Clips
          PROVE  /\ late'[d] > 0 => since[d] >= MaxWallclock /\ attempts'[d] > 0
                 /\ place'[d] = "pending" => late'[d] <= restarts
                 /\ late'[d] <= 1 + restarts
      <4>1. /\ late[d] > 0 => since[d] >= MaxWallclock /\ attempts[d] > 0
            /\ place[d] = "pending" => late[d] <= restarts
            /\ late[d] <= 1 + restarts /\ late[d] \in Nat /\ attempts[d] \in Nat
        BY <2>7 DEF Lateness
      <4>2. CASE d = c
        BY <3>1, <4>1, <4>2, <2>1, <2>3, <2>4, <2>5
      <4>3. CASE d # c
        BY <3>1, <4>1, <4>3, <2>3, <2>4, <2>5
      <4>4. QED
        BY <4>2, <4>3
    <3>3. QED
      BY <3>1, <3>2 DEF Lateness
  <2>14. Jittered'
    BY <1>15, <2>1, <2>2, <2>3, <2>4, <2>5, <2>6, <2>7, <1>a, <1>c, <1>d
      DEF Jittered, TypeOK
  <2>15. HonoursRetryAfter'
    BY <1>15, <2>1, <2>2, <2>3, <2>4, <2>5, <2>6, <2>7, <1>a, <1>c
      DEF HonoursRetryAfter
  <2>16. AcceptedNotResent'
    BY <1>15, <2>1, <2>2, <2>3, <2>4, <2>5, <2>6, <2>7, <1>a, <1>c
      DEF AcceptedNotResent, TypeOK
  <2>17. PanicNeedsAbsurdRetryAfter'
    BY <1>15, <2>1, <2>2, <2>3, <2>4, <2>5, <2>6, <2>7, <1>a, <1>c
      DEF PanicNeedsAbsurdRetryAfter, Running
  <2>18. QED
    BY <1>g, <2>8, <2>9, <2>10, <2>11, <2>12, <2>13, <2>14, <2>15, <2>16, <2>17
<1>16. CASE QuarantineOrphan
  <2>1. PICK c \in Clips : c = Min(Due) /\ c \in torn
    BY <1>16, MinOfClips DEF QuarantineOrphan, Due
  <2>2. /\ torn' = torn \ {c} /\ acked' = acked \ {c} /\ cut' = cut \ {c}
        /\ attempts' \in [Clips -> Nat] /\ since' \in [Clips -> 0 .. MaxWallclock]
        /\ floor' \in [Clips -> Nat] /\ late' \in [Clips -> Nat]
        /\ attempts'[c] = 0 /\ since'[c] = 0 /\ floor'[c] = 0 /\ late'[c] = 0
        /\ \A d \in Clips : d # c => /\ attempts'[d] = attempts[d] /\ since'[d] = since[d]
                                     /\ floor'[d] = floor[d] /\ late'[d] = late[d]
    BY <1>16, <2>1, <1>a DEF QuarantineOrphan, Forget, TypeOK
  <2>3. /\ place' \in [Clips -> {"none", "pending", "inflight", "recorded", "done", "corrupt"}]
        /\ place'[c] = "corrupt" /\ \A d \in Clips : d # c => place'[d] = place[d]
    BY <1>16, <2>1 DEF QuarantineOrphan, TypeOK
  <2>4. /\ pc' = "top" /\ nap' = 0 /\ cur' = 0 /\ resp' = NoResp /\ got' = 0 /\ err' = "none"
        /\ UNCHANGED <<config, proc, wait, sub, expired, panicked, bounds, jit, absurd>>
    BY <1>16 DEF QuarantineOrphan, Again
  <2>5. pc = "top" /\ proc = "up"
    BY <1>16 DEF QuarantineOrphan, Running
  <2>6. TypeOK'
    BY <1>16, <2>1, <2>2, <2>3, <2>4, <2>5, <1>a, <1>c, <1>b
      DEF TypeOK
  <2>7. Running'
    BY <1>16, <2>1, <2>2, <2>3, <2>4, <2>5, <1>a, <1>c
      DEF Running
  <2>8. InHand'
    BY <1>16, <2>1, <2>2, <2>3, <2>4, <2>5, <1>a, <1>c
      DEF InHand, Busy
  <2>9. Answers'
    BY <1>16, <2>1, <2>2, <2>3, <2>4, <2>5, <1>a, <1>c, <1>b
      DEF Answers, Busy
  <2>10. Unknown'
    BY <1>16, <2>1, <2>2, <2>3, <2>4, <2>5, <1>a, <1>c
      DEF Unknown
  <2>11. Lateness'
    BY <1>16, <2>1, <2>2, <2>3, <2>4, <2>5, <1>a, <1>c
      DEF Lateness
  <2>12. Jittered'
    BY <1>16, <2>1, <2>2, <2>3, <2>4, <2>5, <1>a, <1>c, <1>d
      DEF Jittered, TypeOK
  <2>13. HonoursRetryAfter'
    BY <1>16, <2>1, <2>2, <2>3, <2>4, <2>5, <1>a, <1>c
      DEF HonoursRetryAfter
  <2>14. AcceptedNotResent'
    BY <1>16, <2>1, <2>2, <2>3, <2>4, <2>5, <1>a, <1>c
      DEF AcceptedNotResent, TypeOK
  <2>15. PanicNeedsAbsurdRetryAfter'
    BY <1>16, <2>1, <2>2, <2>3, <2>4, <2>5, <1>a, <1>c
      DEF PanicNeedsAbsurdRetryAfter
  <2>16. QED
    BY <1>g, <2>6, <2>7, <2>8, <2>9, <2>10, <2>11, <2>12, <2>13, <2>14, <2>15
<1>17. ASSUME pc \in {"preflight", "handle"}, place' = [place EXCEPT ![cur] = "done"],
              Forget(cur), Again,
             UNCHANGED <<bounds, config, proc, wait, sub, expired, panicked, jit, absurd>>
      PROVE  IInv'
  <2>1. PICK c \in Clips : c = cur /\ place[c] = "inflight" /\ attempts[c] >= 1
            /\ c \notin torn \cup jit
    BY <1>17 DEF InHand, Busy
  <2>2. /\ torn' = torn \ {c} /\ acked' = acked \ {c} /\ cut' = cut \ {c}
        /\ attempts' \in [Clips -> Nat] /\ since' \in [Clips -> 0 .. MaxWallclock]
        /\ floor' \in [Clips -> Nat] /\ late' \in [Clips -> Nat]
        /\ attempts'[c] = 0 /\ since'[c] = 0 /\ floor'[c] = 0 /\ late'[c] = 0
        /\ \A d \in Clips : d # c => /\ attempts'[d] = attempts[d] /\ since'[d] = since[d]
                                     /\ floor'[d] = floor[d] /\ late'[d] = late[d]
    BY <1>17, <2>1, <1>a DEF Forget, TypeOK
  <2>3. /\ place' \in [Clips -> {"none", "pending", "inflight", "recorded", "done", "corrupt"}]
        /\ place'[c] = "done" /\ \A d \in Clips : d # c => place'[d] = place[d]
    BY <1>17, <2>1 DEF TypeOK
  <2>4. /\ pc' = "top" /\ nap' = 0 /\ cur' = 0 /\ resp' = NoResp /\ got' = 0 /\ err' = "none"
        /\ UNCHANGED <<config, proc, wait, sub, expired, panicked, bounds, jit, absurd>>
    BY <1>17 DEF Again
  <2>5. proc = "up"
    BY <1>17 DEF Running
  <2>6. TypeOK'
    BY <1>17, <2>1, <2>2, <2>3, <2>4, <2>5, <1>a, <1>c, <1>b
      DEF TypeOK
  <2>7. Running'
    BY <1>17, <2>1, <2>2, <2>3, <2>4, <2>5, <1>a, <1>c
      DEF Running
  <2>8. InHand'
    BY <1>17, <2>1, <2>2, <2>3, <2>4, <2>5, <1>a, <1>c
      DEF InHand, Busy
  <2>9. Answers'
    BY <1>17, <2>1, <2>2, <2>3, <2>4, <2>5, <1>a, <1>c, <1>b
      DEF Answers, Busy
  <2>10. Unknown'
    BY <1>17, <2>1, <2>2, <2>3, <2>4, <2>5, <1>a, <1>c
      DEF Unknown
  <2>11. Lateness'
    BY <1>17, <2>1, <2>2, <2>3, <2>4, <2>5, <1>a, <1>c
      DEF Lateness
  <2>12. Jittered'
    BY <1>17, <2>1, <2>2, <2>3, <2>4, <2>5, <1>a, <1>c, <1>d
      DEF Jittered, TypeOK
  <2>13. HonoursRetryAfter'
    BY <1>17, <2>1, <2>2, <2>3, <2>4, <2>5, <1>a, <1>c
      DEF HonoursRetryAfter
  <2>14. AcceptedNotResent'
    BY <1>17, <2>1, <2>2, <2>3, <2>4, <2>5, <1>a, <1>c
      DEF AcceptedNotResent, TypeOK
  <2>15. PanicNeedsAbsurdRetryAfter'
    BY <1>17, <2>1, <2>2, <2>3, <2>4, <2>5, <1>a, <1>c
      DEF PanicNeedsAbsurdRetryAfter
  <2>16. QED
    BY <1>g, <2>6, <2>7, <2>8, <2>9, <2>10, <2>11, <2>12, <2>13, <2>14, <2>15
<1>18. ASSUME pc \in {"preflight", "handle"}, NEW q \in {"inflight", "recorded"},
             place' = [place EXCEPT ![cur] = q], Fault,
             UNCHANGED <<torn, cut, acked, attempts, since, floor, late>>,
             UNCHANGED <<config, proc, wait, sub, expired, panicked, jit, absurd>>
      PROVE  IInv'
  <2>1. PICK c \in Clips : c = cur /\ place[c] = "inflight" /\ attempts[c] >= 1
            /\ c \notin torn \cup jit
    BY <1>18 DEF InHand, Busy
  <2>2. /\ pc' = "nap" /\ nap' \in Nat /\ cur' = 0 /\ resp' = NoResp /\ got' = 0 /\ err' = "none"
        /\ faults' \in 0 .. MaxFaults /\ restarts' = restarts
    BY <1>18, <1>f
  <2>3. /\ place' \in [Clips -> {"none", "pending", "inflight", "recorded", "done", "corrupt"}]
        /\ place'[c] \in {"inflight", "recorded"} /\ \A d \in Clips : d # c => place'[d] = place[d]
    BY <1>18, <2>1 DEF TypeOK
  <2>4. proc = "up"
    BY <1>18 DEF Running
  <2>5. TypeOK'
    BY <1>18, <2>1, <2>2, <2>3, <2>4, <1>a, <1>c, <1>b
      DEF TypeOK
  <2>6. Running'
    BY <1>18, <2>1, <2>2, <2>3, <2>4, <1>a, <1>c
      DEF Running
  <2>7. InHand'
    BY <1>18, <2>1, <2>2, <2>3, <2>4, <1>a, <1>c
      DEF InHand, Busy
  <2>8. Answers'
    BY <1>18, <2>1, <2>2, <2>3, <2>4, <1>a, <1>c, <1>b
      DEF Answers, Busy
  <2>9. Unknown'
    BY <1>18, <2>1, <2>2, <2>3, <2>4, <1>a, <1>c
      DEF Unknown
  <2>10. Lateness'
    BY <1>18, <2>1, <2>2, <2>3, <2>4, <1>a, <1>c
      DEF Lateness
  <2>11. Jittered'
    BY <1>18, <2>1, <2>2, <2>3, <2>4, <1>a, <1>c, <1>d
      DEF Jittered, TypeOK
  <2>12. HonoursRetryAfter'
    BY <1>18, <2>1, <2>2, <2>3, <2>4, <1>a, <1>c
      DEF HonoursRetryAfter
  <2>13. AcceptedNotResent'
    BY <1>18, <2>1, <2>2, <2>3, <2>4, <1>a, <1>c
      DEF AcceptedNotResent, TypeOK
  <2>14. PanicNeedsAbsurdRetryAfter'
    BY <1>18, <2>1, <2>2, <2>3, <2>4, <1>a, <1>c
      DEF PanicNeedsAbsurdRetryAfter
  <2>15. QED
    BY <1>g, <2>5, <2>6, <2>7, <2>8, <2>9, <2>10, <2>11, <2>12, <2>13, <2>14
<1>19. ASSUME pc \in {"preflight", "handle"}, File PROVE IInv'
  BY <1>19, <1>17, <1>18 DEF File
<1>20. CASE PreflightFails
  BY <1>20, <1>19 DEF PreflightFails
<1>21. CASE MarkDelivered
  BY <1>21, <1>19 DEF MarkDelivered
<1>22. CASE MarkTerminal
  BY <1>22, <1>19 DEF MarkTerminal
<1>23. CASE MarkAttemptsExhausted
  BY <1>23, <1>19 DEF MarkAttemptsExhausted
<1>24. CASE Requeue
  <2>1. PICK c \in Clips : c = cur /\ place[c] = "inflight" /\ attempts[c] >= 1
            /\ c \notin torn \cup jit
    BY <1>24 DEF Requeue, InHand, Busy
  <2>2. /\ pc = "handle" /\ proc = "up" /\ Validate(Cfg) /\ c \notin acked
        /\ since[c] < MaxWallclock
        /\ resp.after \in Int /\ attempts[c] \in Nat \ {0}
        /\ NextDelay = Delay(attempts[c], resp.after)
    BY <1>24, <2>1, <1>a DEF Requeue, Running, Answers, Transient, Exhausted, TypeOK, NextDelay
  <2>3. /\ NextDelay \in Nat /\ (resp.after \in 0 .. DateMax => resp.after * Sub <= NextDelay)
        /\ NextDelay > DateMax * Sub => resp.after \in DateMax + 1 .. ChronoMax
    BY <1>24, <2>2, <1>a, DelayBounds
  <2>4. /\ place' \in [Clips -> {"none", "pending", "inflight", "recorded", "done", "corrupt"}]
        /\ place'[c] = "pending" /\ \A d \in Clips : d # c => place'[d] = place[d]
    BY <1>24, <2>1 DEF Requeue, TypeOK
  <2>5. /\ wait' \in [Clips -> Nat] /\ wait'[c] = NextDelay
        /\ \A d \in Clips : d # c => wait'[d] = wait[d]
    BY <1>24, <2>1, <2>3 DEF Requeue, TypeOK
  <2>6. jit' \subseteq jit \cup {c} /\ (c \in jit' => wait'[c] = Schedule[attempts[c]])
    BY <1>24, <2>1, <2>2, <2>5, <1>e DEF Requeue
  <2>7. /\ pc' = "top" /\ nap' = 0 /\ cur' = 0 /\ resp' = NoResp /\ got' = 0 /\ err' = "none"
        /\ UNCHANGED <<config, proc, torn, attempts, since, sub, expired, panicked, bounds,
               floor, cut, acked, late, absurd>>
    BY <1>24 DEF Requeue, Again
  <2>8. late[c] = 0 /\ floor[c] <= NextDelay
    BY <1>24, <2>1, <2>2, <2>3, <1>a DEF Lateness, Answers, TypeOK
  <2>9. TypeOK'
    BY <1>24, <2>1, <2>2, <2>3, <2>4, <2>5, <2>6, <2>7, <2>8, <1>a, <1>c, <1>b
      DEF TypeOK
  <2>10. Running'
    BY <1>24, <2>1, <2>2, <2>3, <2>4, <2>5, <2>6, <2>7, <2>8, <1>a, <1>c
      DEF Running
  <2>11. InHand'
    BY <1>24, <2>1, <2>2, <2>3, <2>4, <2>5, <2>6, <2>7, <2>8, <1>a, <1>c
      DEF InHand, Busy
  <2>12. Answers'
    BY <1>24, <2>1, <2>2, <2>3, <2>4, <2>5, <2>6, <2>7, <2>8, <1>a, <1>c, <1>b
      DEF Answers, Busy
  <2>13. Unknown'
    BY <1>24, <2>1, <2>2, <2>3, <2>4, <2>5, <2>6, <2>7, <2>8, <1>a, <1>c
      DEF Unknown
  <2>14. Lateness'
    BY <1>24, <2>1, <2>2, <2>3, <2>4, <2>5, <2>6, <2>7, <2>8, <1>a, <1>c
      DEF Lateness
  <2>15. Jittered'
    BY <1>24, <2>1, <2>2, <2>3, <2>4, <2>5, <2>6, <2>7, <2>8, <1>a, <1>c, <1>d, <1>e
      DEF Jittered, TypeOK
  <2>16. HonoursRetryAfter'
    BY <1>24, <2>1, <2>2, <2>3, <2>4, <2>5, <2>6, <2>7, <2>8, <1>a, <1>c
      DEF HonoursRetryAfter, TypeOK
  <2>17. AcceptedNotResent'
    BY <1>24, <2>1, <2>2, <2>3, <2>4, <2>5, <2>6, <2>7, <2>8, <1>a, <1>c
      DEF AcceptedNotResent, TypeOK
  <2>18. PanicNeedsAbsurdRetryAfter'
    BY <1>24, <2>1, <2>2, <2>3, <2>4, <2>5, <2>6, <2>7, <2>8, <1>a, <1>c
      DEF PanicNeedsAbsurdRetryAfter
  <2>19. QED
    BY <1>g, <2>9, <2>10, <2>11, <2>12, <2>13, <2>14, <2>15, <2>16, <2>17, <2>18
<1>25. CASE RequeueFails
  <2>1. PICK c \in Clips : c = cur /\ place[c] = "inflight" /\ attempts[c] >= 1
            /\ c \notin torn \cup jit
    BY <1>25 DEF RequeueFails, InHand, Busy
  <2>2. /\ pc' = "nap" /\ nap' \in Nat /\ cur' = 0 /\ resp' = NoResp /\ got' = 0 /\ err' = "none"
        /\ faults' \in 0 .. MaxFaults /\ restarts' = restarts
    BY <1>25, <1>f DEF RequeueFails
  <2>3. /\ torn' \subseteq torn \cup {c}
        /\ UNCHANGED <<config, proc, place, attempts, wait, since, sub, expired, panicked, history>>
    BY <1>25, <2>1 DEF RequeueFails
  <2>4. pc = "handle"
    BY <1>25 DEF RequeueFails
  <2>5. TypeOK'
    BY <1>25, <2>1, <2>2, <2>3, <2>4, <1>a, <1>c, <1>b
      DEF TypeOK
  <2>6. Running'
    BY <1>25, <2>1, <2>2, <2>3, <2>4, <1>a, <1>c
      DEF Running
  <2>7. InHand'
    BY <1>25, <2>1, <2>2, <2>3, <2>4, <1>a, <1>c
      DEF InHand, Busy
  <2>8. Answers'
    BY <1>25, <2>1, <2>2, <2>3, <2>4, <1>a, <1>c, <1>b
      DEF Answers, Busy
  <2>9. Unknown'
    BY <1>25, <2>1, <2>2, <2>3, <2>4, <1>a, <1>c
      DEF Unknown
  <2>10. Lateness'
    BY <1>25, <2>1, <2>2, <2>3, <2>4, <1>a, <1>c
      DEF Lateness
  <2>11. Jittered'
    BY <1>25, <2>1, <2>2, <2>3, <2>4, <1>a, <1>c, <1>d
      DEF Jittered, TypeOK
  <2>12. HonoursRetryAfter'
    BY <1>25, <2>1, <2>2, <2>3, <2>4, <1>a, <1>c
      DEF HonoursRetryAfter
  <2>13. AcceptedNotResent'
    BY <1>25, <2>1, <2>2, <2>3, <2>4, <1>a, <1>c
      DEF AcceptedNotResent
  <2>14. PanicNeedsAbsurdRetryAfter'
    BY <1>25, <2>1, <2>2, <2>3, <2>4, <1>a, <1>c
      DEF PanicNeedsAbsurdRetryAfter
  <2>15. QED
    BY <1>g, <2>5, <2>6, <2>7, <2>8, <2>9, <2>10, <2>11, <2>12, <2>13, <2>14
<1>26. CASE SchedulePanics
  <2>1. PICK c \in Clips : c = cur
    BY <1>26  DEF SchedulePanics, InHand, Busy
  <2>2. /\ pc = "handle" /\ proc = "up" /\ Validate(Cfg) /\ c \notin acked
        /\ since[c] < MaxWallclock
        /\ resp.after \in Int /\ attempts[c] \in Nat \ {0}
        /\ NextDelay = Delay(attempts[c], resp.after)
    BY <1>26, <2>1, <1>a DEF SchedulePanics, InHand, Busy, Running, Answers, Transient,
        Exhausted, TypeOK, NextDelay
  <2>3. /\ NextDelay \in Nat /\ (resp.after \in 0 .. DateMax => resp.after * Sub <= NextDelay)
        /\ NextDelay > DateMax * Sub => resp.after \in DateMax + 1 .. ChronoMax
    BY <1>26, <2>2, <1>a, DelayBounds
  <2>4. absurd
    BY <1>26, <2>2, <2>3 DEF SchedulePanics, Answers
  <2>5. /\ pc' = "off" /\ nap' = 0 /\ cur' = 0 /\ resp' = NoResp /\ got' = 0 /\ err' = "none"
        /\ UNCHANGED <<config, proc, sidecar, sub, expired, bounds, history>>
    BY <1>26 DEF SchedulePanics
  <2>6. panicked' \in BOOLEAN
    BY <1>26 DEF SchedulePanics
  <2>7. TypeOK'
    BY <1>26, <2>1, <2>2, <2>3, <2>4, <2>5, <2>6, <1>a, <1>c, <1>b
      DEF TypeOK
  <2>8. Running'
    BY <1>26, <2>1, <2>2, <2>3, <2>4, <2>5, <2>6, <1>a, <1>c
      DEF Running
  <2>9. InHand'
    BY <1>26, <2>1, <2>2, <2>3, <2>4, <2>5, <2>6, <1>a, <1>c
      DEF InHand, Busy
  <2>10. Answers'
    BY <1>26, <2>1, <2>2, <2>3, <2>4, <2>5, <2>6, <1>a, <1>c, <1>b
      DEF Answers, Busy
  <2>11. Unknown'
    BY <1>26, <2>1, <2>2, <2>3, <2>4, <2>5, <2>6, <1>a, <1>c
      DEF Unknown
  <2>12. Lateness'
    BY <1>26, <2>1, <2>2, <2>3, <2>4, <2>5, <2>6, <1>a, <1>c
      DEF Lateness
  <2>13. Jittered'
    BY <1>26, <2>1, <2>2, <2>3, <2>4, <2>5, <2>6, <1>a, <1>c, <1>d
      DEF Jittered
  <2>14. HonoursRetryAfter'
    BY <1>26, <2>1, <2>2, <2>3, <2>4, <2>5, <2>6, <1>a, <1>c
      DEF HonoursRetryAfter
  <2>15. AcceptedNotResent'
    BY <1>26, <2>1, <2>2, <2>3, <2>4, <2>5, <2>6, <1>a, <1>c
      DEF AcceptedNotResent
  <2>16. PanicNeedsAbsurdRetryAfter'
    BY <1>26, <2>1, <2>2, <2>3, <2>4, <2>5, <2>6, <1>a, <1>c
      DEF PanicNeedsAbsurdRetryAfter
  <2>17. QED
    BY <1>g, <2>7, <2>8, <2>9, <2>10, <2>11, <2>12, <2>13, <2>14, <2>15, <2>16
<1>27. CASE Tick
  <2>1. /\ UNCHANGED <<config, proc, pc, cur, resp, got, err, place, torn, attempts, expired,
               panicked, bounds, cut, acked, late, absurd>>
    BY <1>27 DEF Tick
  <2>2. \A m \in Nat : Down(m) \in Nat /\ (m = 0 => Down(m) = 0)
            /\ \A k \in Nat : m >= k => Down(m) >= Down(k)
    BY <1>27 DEF Down
  <2>3. \A m \in Nat : Down(m) <= m
    BY <1>27 DEF Down
  <2>4. /\ wait' \in [Clips -> Nat] /\ floor' \in [Clips -> Nat] /\ nap' \in Nat
        /\ \A c \in Clips : wait'[c] = Down(wait[c]) /\ floor'[c] = Down(floor[c])
    BY <1>27, <2>2 DEF Tick, TypeOK
  <2>5. /\ since' \in [Clips -> 0 .. MaxWallclock]
        /\ \A c \in Clips : attempts[c] > 0 /\ since[c] >= MaxWallclock => since'[c] >= MaxWallclock
    <3>1. \A c \in Clips : since[c] \in 0 .. MaxWallclock /\ attempts[c] \in Nat
      BY DEF TypeOK
    <3>2. \A c \in Clips : Min({since[c] + 1, MaxWallclock})
              = IF since[c] + 1 <= MaxWallclock THEN since[c] + 1 ELSE MaxWallclock
      BY <3>1, <1>a, MinOfTwo
    <3>3. since' = [c \in Clips |->
                      IF attempts[c] = 0 THEN 0 ELSE Min({since[c] + 1, MaxWallclock})]
      BY <1>27 DEF Tick
    <3>4. since' \in [Clips -> 0 .. MaxWallclock]
      <4>1. \A c \in Clips :
              (IF attempts[c] = 0 THEN 0 ELSE Min({since[c] + 1, MaxWallclock})) \in 0 .. MaxWallclock
        BY <3>1, <3>2, <1>a
      <4>2. QED
        BY <3>3, <4>1
    <3>5. ASSUME NEW c \in Clips, attempts[c] > 0, since[c] >= MaxWallclock
          PROVE  since'[c] >= MaxWallclock
      <4>1. since'[c] = Min({since[c] + 1, MaxWallclock})
        BY <3>1, <3>3, <3>5
      <4>2. QED
        BY <3>1, <3>2, <3>5, <4>1, <1>a
    <3>6. QED
      BY <3>4, <3>5
  <2>6. /\ sub' \in 0 .. Sub - 1 /\ jit' \subseteq jit
        /\ jit' # {} => sub <= sub'
    BY <1>27, <1>a DEF Tick
  <2>7. jit' # {} => \A m \in Nat \ {0} : Schedule'[m] \in Int /\ Schedule[m] <= Schedule'[m]
    <3> SUFFICES ASSUME jit' # {}, NEW m \in Nat \ {0}
                 PROVE  Schedule'[m] \in Int /\ Schedule[m] <= Schedule'[m]
      OBVIOUS
    <3>1. BaseDelay(m) \in Nat /\ BaseDelay(m)' = BaseDelay(m)
      BY <2>1, <1>a, BaseBounds DEF BaseDelay, MaxAttemptDelay, Cfg
    <3>2. Schedule'[m] = (BaseDelay(m) * (4 * Sub + 2 * sub')) \div (5 * Sub)
      BY <3>1 DEF Schedule, ApplyJitter
    <3>3. sub \in 0 .. Sub - 1 /\ sub' \in 0 .. Sub - 1 /\ sub <= sub'
      BY <2>6, <1>a
    <3>4. Schedule[m] = ApplyJitter(BaseDelay(m))
      BY <1>e
    <3>5. ASSUME NEW base \in Nat, NEW t \in 0 .. Sub - 1, sub <= t
          PROVE  /\ (base * (4 * Sub + 2 * t)) \div (5 * Sub) \in Nat
                 /\ ApplyJitter(base) <= (base * (4 * Sub + 2 * t)) \div (5 * Sub)
      BY <3>3, <3>5, JitterMonotonic
    <3>6. /\ (BaseDelay(m) * (4 * Sub + 2 * sub')) \div (5 * Sub) \in Nat
          /\ ApplyJitter(BaseDelay(m)) <= (BaseDelay(m) * (4 * Sub + 2 * sub')) \div (5 * Sub)
      BY <3>1, <3>3, <3>5, Zenon
    <3>7. QED
      BY <3>2, <3>4, <3>6
  <2>8. pc \in {"off", "nap", "send"}
    BY <1>27 DEF Tick
  <2>9. TypeOK'
    BY <1>27, <2>1, <2>2, <2>3, <2>4, <2>5, <2>6, <2>7, <2>8, <1>a, <1>c, <1>b
      DEF TypeOK
  <2>10. Running'
    BY <1>27, <2>1, <2>2, <2>3, <2>4, <2>5, <2>6, <2>7, <2>8, <1>a, <1>c
      DEF Running
  <2>11. InHand'
    BY <1>27, <2>1, <2>2, <2>3, <2>4, <2>5, <2>6, <2>7, <2>8, <1>a, <1>c
      DEF InHand, TypeOK, Busy
  <2>12. Answers'
    BY <1>27, <2>1, <2>2, <2>3, <2>4, <2>5, <2>6, <2>7, <2>8, <1>a, <1>c, <1>b
      DEF Answers, InHand, TypeOK, Busy
  <2>13. Unknown'
    BY <1>27, <2>1, <2>2, <2>3, <2>4, <2>5, <2>6, <2>7, <2>8, <1>a, <1>c
      DEF Unknown
  <2>14. Lateness'
    BY <1>27, <2>1, <2>2, <2>3, <2>4, <2>5, <2>6, <2>7, <2>8, <1>a, <1>c
      DEF Lateness
  <2>15. Jittered'
    <3>1. ASSUME NEW c \in jit'
          PROVE  c \notin torn /\ attempts[c] >= 1 /\ wait'[c] <= Schedule'[attempts[c]]
      <4>1. c \in Clips /\ c \in jit /\ attempts[c] \in Nat /\ wait[c] \in Nat
        BY <2>6 DEF TypeOK
      <4>2. c \notin torn /\ attempts[c] >= 1 /\ wait[c] <= Schedule[attempts[c]]
        BY <4>1 DEF Jittered
      <4>3. wait'[c] <= wait[c] /\ wait'[c] \in Nat
        BY <4>1, <2>3, <2>4
      <4>4. Schedule[attempts[c]] \in Nat /\ Schedule'[attempts[c]] \in Int
                /\ Schedule[attempts[c]] <= Schedule'[attempts[c]]
        BY <4>1, <4>2, <2>7, <1>e
      <4>5. QED
        BY <4>1, <4>2, <4>3, <4>4
    <3>2. QED
      BY <3>1, <2>1 DEF Jittered
  <2>16. HonoursRetryAfter'
    BY <1>27, <2>1, <2>2, <2>3, <2>4, <2>5, <2>6, <2>7, <2>8, <1>a, <1>c
      DEF HonoursRetryAfter, TypeOK
  <2>17. AcceptedNotResent'
    BY <1>27, <2>1, <2>2, <2>3, <2>4, <2>5, <2>6, <2>7, <2>8, <1>a, <1>c
      DEF AcceptedNotResent
  <2>18. PanicNeedsAbsurdRetryAfter'
    BY <1>27, <2>1, <2>2, <2>3, <2>4, <2>5, <2>6, <2>7, <2>8, <1>a, <1>c
      DEF PanicNeedsAbsurdRetryAfter
  <2>19. QED
    BY <1>g, <2>9, <2>10, <2>11, <2>12, <2>13, <2>14, <2>15, <2>16, <2>17, <2>18
<1>28. CASE UNCHANGED vars
  BY <1>28, <1>c, <1>d, <1>g
    DEF vars, TypeOK, Running, InHand, Answers, Unknown, Lateness, Jittered, Interrupted,
        HonoursRetryAfter, AcceptedNotResent, PanicNeedsAbsurdRetryAfter
<1> QED
  BY <1>1, <1>2, <1>3, <1>4, <1>5, <1>6, <1>7, <1>8, <1>9, <1>10, <1>11, <1>12, <1>13,
      <1>14, <1>15, <1>16, <1>20, <1>21, <1>22, <1>23, <1>24, <1>25, <1>26, <1>27, <1>28
    DEF Next, LoopStep

\* It holds before the first start, whatever the configuration.
LEMMA InvInit == Init => IInv
<1> SUFFICES ASSUME Init PROVE IInv
  OBVIOUS
<1>1. MaxWallclock \in Nat
  BY ConfigBounds DEF Init
<1>2. /\ expired \in BOOLEAN /\ panicked \in BOOLEAN /\ absurd \in BOOLEAN
      /\ resp \in [status: {0} \cup Statuses, after: Int]
  <2>1. resp \in [status: {0} \cup Statuses, after: Int]
    BY DEF Init, NoResp, None
  <2>2. expired \in BOOLEAN /\ panicked \in BOOLEAN /\ absurd \in BOOLEAN
    BY Zenon DEF Init
  <2>3. QED
    BY <2>1, <2>2
<1>3. TypeOK
  BY <1>1, <1>2, UploadConstants DEF Init, TypeOK
<1>4. ~panicked
  BY DEF Init
<1>5. QED
  BY <1>1, <1>3, <1>4, UploadConstants
    DEF Init, IInv, Busy, Running, InHand, Answers, Unknown, Lateness, Jittered, Interrupted,
        HonoursRetryAfter, AcceptedNotResent, PanicNeedsAbsurdRetryAfter

\* UploadLoop's inductive invariant holds throughout every run of the loop.
THEOREM UploadInvariant == Spec => []IInv
BY InvInit, InvStep, PTL DEF Spec

\* Types: in particular read_capped never buffers more than its cap, and every
\* delay that is written to a sidecar is a number of ticks.
THEOREM UploadTypes == Spec => []TypeOK
<1>1. IInv => TypeOK
  BY DEF IInv
<1>2. QED
  BY <1>1, UploadInvariant, PTL

\* BackoffSchedule::next and next_attempt_after: a pause perchpub asked for is
\* waited out before the clip is due, for every header and configuration and
\* across restarts, unless a stop catches the clip in inflight/ (cut).
THEOREM RetryAfterIsHonoured == Spec => []HonoursRetryAfter
<1>1. IInv => HonoursRetryAfter
  BY DEF IInv
<1>2. QED
  BY <1>1, UploadInvariant, PTL

\* classify_response and mark_delivered_undecodable: no clip whose 2xx was read
\* is offered again by the same process.
THEOREM AcceptedIsNotResent == Spec => []AcceptedNotResent
<1>1. IInv => AcceptedNotResent
  BY DEF IInv
<1>2. QED
  BY <1>1, UploadInvariant, PTL

\* handle_upload_error tests the wall-clock budget after the attempt: a clip has
\* one late attempt, and one more per restart, however long the process runs.
THEOREM BudgetOverrunIsOneAttempt == Spec => []OneLateAttempt
<1>1. IInv => OneLateAttempt
  BY DEF IInv, Lateness, OneLateAttempt
<1>2. QED
  BY <1>1, UploadInvariant, PTL

\* Config::validate bounds the schedule: on an accepted configuration the delivery
\* task's date arithmetic panics on an absurd Retry-After only.
THEOREM PanicIsAbsurd == Spec => []PanicNeedsAbsurdRetryAfter
<1>1. IInv => PanicNeedsAbsurdRetryAfter
  BY DEF IInv
<1>2. QED
  BY <1>1, UploadInvariant, PTL

\* apply_jitter rises within the second, so clips it reschedules at one attempt
\* come due in the order in which they failed.
THEOREM BackoffIsOrdered == Spec => BackoffKeepsOrder
<1> DEFINE Ordered == \A c, d \in Clips :
                c \in jit /\ c # d /\ d \notin jit /\ d \in jit' /\ attempts[c] = attempts[d]
                    => wait[c] <= wait'[d]
<1>1. IInv /\ [Next]_vars => [Ordered]_vars
  <2> SUFFICES ASSUME IInv, Next, NEW c \in Clips, NEW d \in Clips, c \in jit, d \notin jit,
                      d \in jit',
                      attempts[c] = attempts[d]
               PROVE  wait[c] <= wait'[d]
    OBVIOUS
  <2>1. wait[c] <= Schedule[attempts[c]] /\ attempts[c] \in Nat \ {0} /\ wait \in [Clips -> Nat]
    BY DEF IInv, Jittered, TypeOK
  <2>2. CASE Requeue
    <3>1. d = cur /\ NextDelay = ApplyJitter(BaseDelay(attempts[cur])) /\ wait'[d] = NextDelay
      BY <2>1, <2>2 DEF Requeue
    <3>2. QED
      BY <2>1, <3>1 DEF Schedule
  <2>3. CASE ~Requeue
    <3>1. jit' \subseteq jit
      BY <2>3
        DEF Next, LoopStep, ServeStarts, ServeStops, Tick, Expire, Arrive, CertExpired, NothingDue,
            Claim, ClaimFails, QuarantineOrphan, PreflightOk, PreflightFails, Wake, SendFails,
                Answer,
            Chunk, BodyFails, BodyEnds, MarkDelivered, MarkTerminal, MarkAttemptsExhausted,
            RequeueFails, SchedulePanics, File
    <3>2. QED
      BY <3>1
  <2>4. QED
    BY <2>2, <2>3
<1>2. QED
  BY <1>1, UploadInvariant, PTL DEF Spec, BackoffKeepsOrder


=============================================================================
