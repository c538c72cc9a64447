---------------------------- MODULE MCUploadLoop ----------------------------
EXTENDS UploadLoop

\* A short schedule, scaled from the defaults of config.rs.
Plain ==
    [perchpub_url |-> "ok", upload_url |-> "none",
     max_clips |-> 2, max_bytes |-> 2, delivered_retention_hours |-> 1,
     clip_duration_secs |-> 1, hang_margin_secs |-> 1, cooldown_secs |-> 1,
     liveness_stuck_secs |-> 1, liveness_poll_secs |-> 1,
     initial_delay_secs |-> 1, max_attempt_delay_secs |-> 2,
     per_clip_max_attempts |-> 3, per_clip_max_wallclock_hours |-> 1]

\* Accepted: the plain one, one with a single attempt.
\* Refused: a field out of its range, no URL, a URL that does not parse.
MCConfigs ==
    <<Plain,
     [Plain EXCEPT !.initial_delay_secs = 0, !.max_attempt_delay_secs = 0,
                   !.per_clip_max_attempts = 1, !.upload_url = "ok"],
     [Plain EXCEPT !.initial_delay_secs = 40, !.max_attempt_delay_secs = 40],
     [Plain EXCEPT !.initial_delay_secs = 4],
     [Plain EXCEPT !.per_clip_max_attempts = 0],
     [Plain EXCEPT !.max_clips = 0],
     [Plain EXCEPT !.hang_margin_secs = 9],
     [Plain EXCEPT !.perchpub_url = "none", !.upload_url = "ok"],
     [Plain EXCEPT !.perchpub_url = "bad"]>>

MCRetryAfters ==
    {[form |-> "none", secs |-> 0], [form |-> "delta", secs |-> 3], [form |-> "date", secs |-> -1],
     [form |-> "delta", secs |-> 50], [form |-> "delta", secs |-> 200]}
=============================================================================
