------------------------------ MODULE Enrollment ------------------------------
(***************************************************************************)
(* Enrollment and the station's credentials: `perchstation enroll` obtains *)
(* a certificate for the station key from perchpub (at most three POSTs of *)
(* one session) and identity::save replaces credentials/ by staging into   *)
(* credentials.tmp/, rotating the old set to credentials.old/ and renaming *)
(* the new one into place. Meanwhile `perchstation serve` may be starting  *)
(* or running: it reads the set file by file at its start, and the mTLS    *)
(* client reads it again on SIGHUP, without a lock against the renames.    *)
(*                                                                         *)
(* A directory is its three files that matter: the key, the certificate    *)
(* (with the key it was issued for) and identity.json. Renames in data_dir *)
(* are durable only after fsync_dir(data_dir): a power loss falls back to  *)
(* any of the states passed since.                                         *)
(***************************************************************************)
EXTENDS Integers, FiniteSets

CONSTANTS
    MaxPosts,      \* TRANSIENT_BACKOFF.len() + 1
    SessionPosts,  \* POSTs perchpub counts before it closes a session
    PowerLoss,     \* TRUE: the machine may lose power
    MaxEnrolls,    \* bound: how many enroll commands are run
    MaxStops,      \* bound: how often enroll is interrupted or power is lost
    MaxFaults      \* bound: how many file operations fail

ASSUME EnrollmentConstants ==
    /\ MaxPosts \in Nat /\ SessionPosts \in Nat /\ MaxPosts >= 1
    /\ PowerLoss \in BOOLEAN
    /\ MaxEnrolls \in Nat /\ MaxStops \in Nat /\ MaxFaults \in Nat

\* TRANSIENT_BACKOFF is cut to the POSTs perchpub allows a session (LIF-1).
ASSUME PostsFitSession == MaxPosts <= SessionPosts

VARIABLES
    dirs,       \* dirs.creds, dirs.tmp, dirs.old: the three directories
    unsynced,   \* states of dirs since the last fsync of data_dir
    epc,        \* the next step of the enroll command, "idle" when none runs
    force,      \* its --force flag
    ekey, ecert,   \* the key and the certificate it holds in memory
    existed,    \* creds_existed
    posts,      \* POSTs of this command
    spent,      \* perchpub: POSTs counted on the session
    fresh,      \* this command began with an unused session
    keys,       \* how many keypairs were generated
    certs,      \* perchpub: how many certificates reached the station
    expired,    \* certificates past their not_after
    sv,         \* serve: "down", the file it reads next, or "up"
    sid,        \* serve: the certificate whose not_after the runner checks
    client,     \* serve: the mTLS client in use
    bpc,        \* build_inner: the file it reads next, "none" when it is not running
    half,       \* build_inner: what it has read
    enrolls, stops, faults,   \* used parts of the bounds
    enrolled,   \* history: an enrollment was made durable
    legit,      \* history: keys minted by a first enrollment or by --force
    gap,        \* history: a stop or a failed restore left credentials/ rotated away
    refused     \* history: a POST of a fresh session hit the session limit

enroller == <<epc, force, ekey, ecert, existed, posts, fresh>>
remote   == <<spent, certs, expired>>
serve    == <<sv, sid, client, bpc, half>>
bounds   == <<enrolls, stops, faults>>
history  == <<enrolled, legit, gap, refused>>
vars     == <<dirs, unsynced, enroller, remote, serve, keys, bounds, history>>

-----------------------------------------------------------------------------
\* A credentials directory; synced: its entries were made durable.
Dir == [is: BOOLEAN, key: Nat, cert: Nat, ckey: Nat, ident: BOOLEAN, synced: BOOLEAN]

NoDir == [is |-> FALSE, key |-> 0, cert |-> 0, ckey |-> 0, ident |-> FALSE, synced |-> FALSE]

EmptyDir == [NoDir EXCEPT !.is = TRUE]

\* A client: its certificate, the key that was issued for, and the key it signs with.
Client == [cert: Nat, ckey: Nat, key: Nat]

NoClient == [cert |-> 0, ckey |-> 0, key |-> 0]

Init ==
    /\ dirs = [creds |-> NoDir, tmp |-> NoDir, old |-> NoDir] /\ unsynced = {}
    /\ epc = "idle" /\ force = FALSE /\ ekey = 0 /\ ecert = 0 /\ existed = FALSE
    /\ posts = 0 /\ spent = 0 /\ fresh = FALSE
    /\ keys = 0 /\ certs = 0 /\ expired = {}
    /\ sv = "down" /\ sid = 0 /\ client = NoClient /\ bpc = "none" /\ half = NoClient
    /\ enrolls = 0 /\ stops = 0 /\ faults = 0
    /\ enrolled = FALSE /\ legit = {} /\ gap = FALSE /\ refused = FALSE

Fault == faults < MaxFaults /\ faults' = faults + 1 /\ UNCHANGED <<enrolls, stops>>

\* The command returns; what it held in memory is gone.
Exit ==
    /\ epc' = "idle" /\ ekey' = 0 /\ ecert' = 0 /\ existed' = FALSE /\ posts' = 0
    /\ force' = FALSE /\ fresh' = FALSE

-----------------------------------------------------------------------------
(* enroll::run up to the certificate.                                       *)

\* The operator runs enroll with a new QR code or with the one used before.
Begin ==
    /\ epc = "idle" /\ enrolls < MaxEnrolls
    /\ enrolls' = enrolls + 1 /\ UNCHANGED <<stops, faults>>
    /\ \E f \in BOOLEAN, newSession \in BOOLEAN :
        /\ force' = f /\ fresh' = newSession
        /\ spent' = IF newSession THEN 0 ELSE spent
    /\ epc' = "loadKey"
    /\ UNCHANGED <<dirs, unsynced, ekey, ecert, existed, posts, certs, expired, serve, keys, history>>

\* Mutant of ReuseKey: --force aside, the persisted key is not looked for.
MintAlways ==
    /\ epc = "loadKey"
    /\ keys' = keys + 1 /\ ekey' = keys + 1
    /\ legit' = IF force \/ ~enrolled THEN legit \cup {keys + 1} ELSE legit
    /\ epc' = "post"
    /\ UNCHANGED <<dirs, unsynced, force, ecert, existed, posts, fresh, remote, serve,
                   bounds, enrolled, gap, refused>>

\* load_keypair finds station.key: the same station gets a new certificate.
ReuseKey ==
    /\ epc = "loadKey" /\ ~force /\ dirs.creds.is
    /\ ekey' = dirs.creds.key
    /\ epc' = "post"
    /\ UNCHANGED <<dirs, unsynced, force, ecert, existed, posts, fresh, remote, serve,
                   keys, bounds, history>>

\* No station.key, or --force: csr::generate.
MintKey ==
    /\ epc = "loadKey" /\ (force \/ ~dirs.creds.is)
    /\ keys' = keys + 1 /\ ekey' = keys + 1
    /\ legit' = IF force \/ ~enrolled THEN legit \cup {keys + 1} ELSE legit
    /\ epc' = "post"
    /\ UNCHANGED <<dirs, unsynced, force, ecert, existed, posts, fresh, remote, serve,
                   bounds, enrolled, gap, refused>>

\* station.key is there and cannot be read: an error, not a new key.
LoadKeyFails ==
    /\ epc = "loadKey" /\ ~force /\ dirs.creds.is /\ Fault
    /\ Exit
    /\ UNCHANGED <<dirs, unsynced, remote, serve, keys, history>>

\* Mutant of PostAccepted: a certificate perchpub did not issue is taken as well.
PostUnvalidated ==
    /\ epc = "post" /\ spent < SessionPosts
    /\ spent' = spent + 1 /\ certs' \in {certs, certs + 1} /\ ecert' = certs + 1
    /\ epc' = "sweepTmp"
    /\ UNCHANGED <<dirs, unsynced, force, ekey, existed, posts, fresh, expired, serve, keys, bounds,
                   history>>

\* send_with_backoff: one POST. perchpub counts it if it arrives, and answers
\* with the certificate unless the session is used up.
PostAccepted ==
    /\ epc = "post" /\ spent < SessionPosts
    /\ spent' = spent + 1 /\ certs' = certs + 1 /\ ecert' = certs + 1
    /\ epc' = "sweepTmp"
    /\ UNCHANGED <<dirs, unsynced, force, ekey, existed, posts, fresh, expired, serve, keys, bounds,
                   history>>

\* Mutant of Retry: one attempt more than the schedule has.
RetryOnceMore ==
    IF posts < MaxPosts
       THEN posts' = posts + 1 /\ UNCHANGED <<epc, force, ekey, ecert, existed, fresh>>
       ELSE Exit

\* After a transient failure: sleep and try again, or TransientExhausted.
Retry ==
    IF posts + 1 < MaxPosts
       THEN posts' = posts + 1 /\ UNCHANGED <<epc, force, ekey, ecert, existed, fresh>>
       ELSE Exit

\* perchpub counts a POST that reaches it while the session is open.
Counted == spent' = IF spent < SessionPosts THEN spent + 1 ELSE spent

\* The request or its answer is lost, or the answer is a 5xx other than 502.
PostTransient ==
    /\ epc = "post"
    /\ Counted \/ UNCHANGED spent
    /\ Retry
    /\ UNCHANGED <<dirs, unsynced, certs, expired, serve, keys, bounds, history>>

\* A 502, another terminal answer, or a certificate that validate_response rejects.
PostTerminal ==
    /\ epc = "post"
    /\ Counted \/ UNCHANGED spent
    /\ Exit
    /\ UNCHANGED <<dirs, unsynced, certs, expired, serve, keys, bounds, history>>

\* 422: perchpub has closed the session.
SessionInvalid ==
    /\ epc = "post" /\ spent >= SessionPosts
    /\ refused' = (refused \/ fresh)
    /\ Exit
    /\ UNCHANGED <<dirs, unsynced, remote, serve, keys, bounds, enrolled, legit, gap>>

-----------------------------------------------------------------------------
(* identity::save. `overwrite` is always set when credentials/ exists: its  *)
(* key was reused, or --force was given.                                    *)

\* A call on data_dir: the state before it stays possible until the next fsync.
Change(here, then, after) ==
    /\ epc = here /\ epc' = then
    /\ dirs' = after /\ unsynced' = unsynced \cup {dirs}
    /\ UNCHANGED <<force, ekey, ecert, existed, posts, fresh, remote, serve, keys, bounds, history>>

SweepTmp   == Change("sweepTmp", "sweepOld", [dirs EXCEPT !.tmp = NoDir])
SweepOld   == Change("sweepOld", "stageCert", [dirs EXCEPT !.old = NoDir])
StageCert  == Change("stageCert", "stageKey",
                     [dirs EXCEPT !.tmp = [EmptyDir EXCEPT !.cert = ecert, !.ckey = ekey]])
StageKey   == Change("stageKey", "stageIdent", [dirs EXCEPT !.tmp.key = ekey])
StageIdent == Change("stageIdent", "syncTmp", [dirs EXCEPT !.tmp.ident = TRUE])

\* Mutant of SyncStaging: the staged directory entries are not synced.
SkipSyncStaging == Change("syncTmp", "rotate", dirs)

SyncStaging == Change("syncTmp", "rotate", [dirs EXCEPT !.tmp.synced = TRUE])

Rotate ==
    /\ epc = "rotate" /\ epc' = "promote"
    /\ existed' = dirs.creds.is
    /\ IF dirs.creds.is
          THEN /\ dirs' = [dirs EXCEPT !.old = dirs.creds, !.creds = NoDir]
               /\ unsynced' = unsynced \cup {dirs}
          ELSE UNCHANGED <<dirs, unsynced>>
    /\ UNCHANGED <<force, ekey, ecert, posts, fresh, remote, serve, keys, bounds, history>>

Promote == Change("promote", "syncParent", [dirs EXCEPT !.creds = dirs.tmp, !.tmp = NoDir])

\* Mutant of PromoteFails: no restore.
PromoteFailsPlain ==
    /\ epc = "promote" /\ Fault
    /\ Exit
    /\ UNCHANGED <<dirs, unsynced, remote, serve, keys, history>>

\* The second rename fails: the rotated set is to be restored.
PromoteFails ==
    /\ epc = "promote" /\ Fault
    /\ IF existed THEN epc' = "restore" /\ UNCHANGED <<force, ekey, ecert, existed, posts, fresh>>
                  ELSE Exit
    /\ UNCHANGED <<dirs, unsynced, remote, serve, keys, history>>

Restore ==
    /\ epc = "restore"
    /\ dirs' = [dirs EXCEPT !.creds = dirs.old, !.old = NoDir]
    /\ unsynced' = unsynced \cup {dirs}
    /\ Exit
    /\ UNCHANGED <<remote, serve, keys, bounds, history>>

\* What failed the promotion fails the restore too: no further fault is counted.
RestoreFails ==
    /\ epc = "restore"
    /\ gap' = TRUE
    /\ Exit
    /\ UNCHANGED <<dirs, unsynced, remote, serve, keys, bounds, enrolled, legit, refused>>

SyncParent ==
    /\ epc = "syncParent"
    /\ unsynced' = {} /\ enrolled' = TRUE
    /\ epc' = "dropOld"
    /\ UNCHANGED <<dirs, force, ekey, ecert, existed, posts, fresh, remote, serve,
                   keys, bounds, legit, gap, refused>>

DropOld ==
    /\ epc = "dropOld"
    /\ dirs' = IF existed THEN [dirs EXCEPT !.old = NoDir] ELSE dirs
    /\ unsynced' = unsynced \cup {dirs}
    /\ Exit
    /\ UNCHANGED <<remote, serve, keys, bounds, history>>

\* Any other call of save that fails ends the command; the removal of the old
\* set is best-effort, which has the same effect.
SaveFails ==
    /\ epc \in {"sweepTmp", "sweepOld", "stageCert", "stageKey", "stageIdent", "syncTmp",
                "rotate", "syncParent", "dropOld"}
    /\ Fault
    /\ Exit
    /\ UNCHANGED <<dirs, unsynced, remote, serve, keys, history>>

-----------------------------------------------------------------------------
(* serve, perchpub's clock and the failures.                                *)

\* StationIdentity::load: identity.json, then station.crt for not_after; the runner
\* keeps this copy for the process's life. A missing file ends serve.
ServeReadsIdentity ==
    /\ sv = "down" /\ dirs.creds.ident
    /\ sv' = "crt"
    /\ UNCHANGED <<dirs, unsynced, enroller, remote, sid, client, bpc, half, keys, bounds, history>>

ServeExits == sv' = "down" /\ sid' = 0 /\ client' = NoClient /\ bpc' = "none" /\ half' = NoClient

ServeReadsCert ==
    /\ sv = "crt"
    /\ IF dirs.creds.cert # 0
          THEN sv' = "secrets" /\ sid' = dirs.creds.cert /\ UNCHANGED <<client, bpc, half>>
          ELSE ServeExits
    /\ UNCHANGED <<dirs, unsynced, enroller, remote, keys, bounds, history>>

\* register_station_key_secrets reads station.key; then PerchpubClient::new begins.
ServeReadsSecrets ==
    /\ sv = "secrets"
    /\ IF dirs.creds.key # 0 THEN sv' = "init" /\ bpc' = "crt" /\ UNCHANGED <<sid, client, half>>
                              ELSE ServeExits
    /\ UNCHANGED <<dirs, unsynced, enroller, remote, keys, bounds, history>>

\* PerchpubClient::reload: await_shutdown handles one signal at a time.
Sighup ==
    /\ sv = "up" /\ bpc = "none"
    /\ bpc' = "crt"
    /\ UNCHANGED <<dirs, unsynced, enroller, remote, sv, sid, client, half, keys, bounds, history>>

\* Mutant of BuildFails: the client is rebuilt in place.
BuildFailsInPlace ==
    IF sv = "up" THEN client' = half /\ bpc' = "none" /\ half' = NoClient /\ UNCHANGED <<sv, sid>>
                 ELSE ServeExits

\* build_inner returns an error: serve exits at its start; a reload keeps the
\* previous client.
BuildFails ==
    IF sv = "up" THEN bpc' = "none" /\ half' = NoClient /\ UNCHANGED <<sv, sid, client>>
                 ELSE ServeExits

ReadCert ==
    /\ bpc = "crt"
    /\ IF dirs.creds.cert # 0
          THEN /\ half' = [cert |-> dirs.creds.cert, ckey |-> dirs.creds.ckey, key |-> 0]
               /\ bpc' = "key" /\ UNCHANGED <<sv, sid, client>>
          ELSE BuildFails
    /\ UNCHANGED <<dirs, unsynced, enroller, remote, keys, bounds, history>>

ReadKey ==
    /\ bpc = "key"
    /\ IF dirs.creds.key # 0
          THEN half' = [half EXCEPT !.key = dirs.creds.key] /\ bpc' = "build" /\ UNCHANGED <<sv, sid, client>>
          ELSE BuildFails
    /\ UNCHANGED <<dirs, unsynced, enroller, remote, keys, bounds, history>>

\* rustls refuses a certificate that is not for the key.
KeysMatch(c) == c.ckey = c.key

\* ca_chain.pem, which may be missing, and the TLS set-up.
BuildClient ==
    /\ bpc = "build"
    /\ IF KeysMatch(half)
          THEN client' = half /\ sv' = "up" /\ bpc' = "none" /\ half' = NoClient /\ UNCHANGED sid
          ELSE BuildFails
    /\ UNCHANGED <<dirs, unsynced, enroller, remote, keys, bounds, history>>

ServeStops ==
    /\ sv = "up" /\ bpc = "none"
    /\ ServeExits
    /\ UNCHANGED <<dirs, unsynced, enroller, remote, keys, bounds, history>>

\* A certificate that serve holds passes its not_after.
Expire ==
    /\ \E n \in {sid, client.cert} \ (expired \cup {0}) : expired' = expired \cup {n}
    /\ UNCHANGED <<dirs, unsynced, enroller, spent, certs, serve, keys, bounds, history>>

Stopped ==
    /\ stops < MaxStops /\ stops' = stops + 1 /\ UNCHANGED <<enrolls, faults>>
    /\ gap' = (gap \/ (enrolled /\ ~dirs'.creds.is))
    /\ Exit
    /\ UNCHANGED <<remote, keys, enrolled, legit, refused>>

\* The operator interrupts enroll.
Interrupt ==
    /\ epc # "idle"
    /\ UNCHANGED <<dirs, unsynced, serve>>
    /\ Stopped

\* What a power loss makes of a directory whose entries were not synced.
Settle(d) == IF d.is /\ ~d.synced THEN {d, EmptyDir} ELSE {d}

PowerFails ==
    /\ PowerLoss
    /\ \E was \in unsynced \cup {dirs} :
        \E c \in Settle(was.creds), t \in Settle(was.tmp), o \in Settle(was.old) :
            dirs' = [creds |-> c, tmp |-> t, old |-> o]
    /\ unsynced' = {}
    /\ ServeExits
    /\ Stopped

-----------------------------------------------------------------------------
EnrollNext ==
    \/ Begin \/ ReuseKey \/ MintKey \/ LoadKeyFails
    \/ PostAccepted \/ PostTransient \/ PostTerminal \/ SessionInvalid

SaveNext ==
    \/ SweepTmp \/ SweepOld \/ StageCert \/ StageKey \/ StageIdent \/ SyncStaging
    \/ Rotate \/ Promote \/ PromoteFails \/ Restore \/ RestoreFails
    \/ SyncParent \/ DropOld \/ SaveFails

ServeNext ==
    \/ ServeReadsIdentity \/ ServeReadsCert \/ ServeReadsSecrets
    \/ ReadCert \/ ReadKey \/ BuildClient \/ Sighup \/ ServeStops

EnvNext == Expire \/ Interrupt \/ PowerFails

Next == EnrollNext \/ SaveNext \/ ServeNext \/ EnvNext

Spec == Init /\ [][Next]_vars

-----------------------------------------------------------------------------
(* Properties.                                                              *)

\* Every variable stays in its type.
TypeOK ==
    /\ dirs \in [creds: Dir, tmp: Dir, old: Dir]
    /\ \A d \in unsynced : d \in [creds: Dir, tmp: Dir, old: Dir]
    /\ epc \in {"idle", "loadKey", "post", "sweepTmp", "sweepOld", "stageCert", "stageKey",
                "stageIdent", "syncTmp", "rotate", "promote", "restore", "syncParent", "dropOld"}
    /\ force \in BOOLEAN /\ existed \in BOOLEAN /\ fresh \in BOOLEAN
    /\ ekey \in 0 .. keys /\ ecert \in 0 .. certs
    /\ posts \in 0 .. MaxPosts /\ spent \in 0 .. SessionPosts
    /\ keys \in Nat /\ certs \in Nat /\ expired \subseteq 1 .. certs
    /\ sv \in {"down", "crt", "secrets", "init", "up"} /\ sid \in 0 .. certs
    /\ bpc \in {"none", "crt", "key", "build"} /\ {client, half} \subseteq Client
    /\ enrolls \in Nat /\ stops \in Nat /\ faults \in Nat
    /\ enrolled \in BOOLEAN /\ legit \subseteq 1 .. keys /\ gap \in BOOLEAN /\ refused \in BOOLEAN

\* credentials/ is always a whole set: all files, the certificate issued for
\* that very key, at any moment a reader or a power loss may pick.
CredsWhole ==
    dirs.creds.is => /\ dirs.creds.ident
                     /\ dirs.creds.key # 0 /\ dirs.creds.cert # 0
                     /\ dirs.creds.ckey = dirs.creds.key

\* The station's key is generated once and reused for its life: only --force
\* replaces it.
KeyForLife == dirs.creds.is => dirs.creds.key \in legit

\* ... which holds unless a stop or a failed restore caught credentials/
\* between the two renames of save, where the next enroll finds no key.
KeyForLifeUnlessGap == KeyForLife \/ gap

\* An enrolled station has its credentials in place, whatever fails in a later
\* enroll, except between the two renames.
StaysEnrolled ==
    enrolled /\ ~gap /\ epc \notin {"promote", "restore"} => dirs.creds.is

\* One command never exhausts a fresh session: its retries fit perchpub's
\* limit of POSTs (LIF-1).
FreshSessionSuffices == ~refused

\* A re-enrollment takes effect on SIGHUP without a restart: a reload that gives
\* the client a valid certificate leaves the delivery loop not halted as expired.
ReloadTakesEffect ==
    [][sv = "up" /\ sv' = "up" /\ client'.cert # client.cert /\ client'.cert \notin expired
         => sid' \notin expired]_vars

\* Whatever renames an enroll does between the reads of build_inner, and however
\* often a reload fails, the running station has a client that can authenticate:
\* a certificate and the key it was issued for (PerchpubClient::reload).
ClientCoherent == sv = "up" => client.cert # 0 /\ KeysMatch(client)
=============================================================================
