---------------------------- MODULE ClassifyPoller ----------------------------
(***************************************************************************)
(* The classify poller: it asks perchpub for the classification of every   *)
(* record in delivered/, writes what it learns into the record, and prunes *)
(* the records that are done. delivered/ is shared without a lock with the *)
(* delivery runner, which adds records, and with the inbox, which evicts   *)
(* Undeliverable ones; a record read by the scan is written back after a   *)
(* network round trip. A skip set in memory (seen_terminal) remembers the  *)
(* records that need no more reading.                                      *)
(*                                                                         *)
(* The age of a record (now - delivered_at) is counted up to the larger of *)
(* the two limits it is compared with; the clock is assumed monotonic.     *)
(***************************************************************************)
EXTENDS Integers, FiniteSets

CONSTANTS
    Clips,
    PollBudget,    \* CLASSIFY_POLL_MAX_HOURS, in ticks
    Retention,     \* queue.delivered_retention_hours, in ticks
    MaxRestarts,   \* bound: how often the process stops
    MaxFaults,     \* bound: how many file operations fail
    MaxRot         \* bound: how many sidecars come back truncated

ASSUME PollerConstants ==
    /\ PollBudget \in Nat /\ Retention \in Nat
    /\ MaxRestarts \in Nat /\ MaxFaults \in Nat /\ MaxRot \in Nat

VARIABLES
    del,        \* del[c]: the sidecar of c in delivered/
    age,        \* age[c]: time since its delivered_at
    born,       \* clips the runner has delivered or given up
    server,     \* server[c]: the state of c's classify task at perchpub
    pc,         \* where the poll loop stands, "off" when the process is down
    todo,       \* directory entries the current scan has still to look at
    batch,      \* entries scan_non_terminal returned and poll_round has to poll
    held,       \* held[c]: the copy of the record read by the scan
    cur, ans,   \* the clip being polled and the answer that arrived
    pruned,     \* what prune_delivered removed so far
    seen,       \* seen_terminal
    pruneDue,   \* next_prune has passed
    restarts, faults, rots   \* used parts of the bounds

disk   == <<del, age, born>>
budget == <<restarts, faults, rots>>
vars   == <<disk, server, pc, todo, batch, held, cur, ans, pruned, seen, pruneDue, budget>>

-----------------------------------------------------------------------------
\* ClassifyTaskStatus; Prepared, Queued and Processing are one "Running".
Statuses == {"Running", "Unknown", "Success", "Failed"}
IsTerminal(status) == status \in {"Success", "Failed"}

\* The classify fields of a ClipQueueEntry. An Undeliverable entry has no task.
Record == [st: {"absent", "ok", "corrupt"}, outcome: {"Delivered", "Undeliverable"},
           task: BOOLEAN, status: Statuses, lost: BOOLEAN]

Absent == [st |-> "absent", outcome |-> "Undeliverable", task |-> FALSE,
           status |-> "Unknown", lost |-> FALSE]

\* What the runner files: a decoded 2xx, an undecodable one, or a failure.
Tasked(s)     == [st |-> "ok", outcome |-> "Delivered", task |-> TRUE, status |-> s, lost |-> FALSE]
Undecodable   == [st |-> "ok", outcome |-> "Delivered", task |-> FALSE, status |-> "Unknown", lost |-> FALSE]
Undeliverable == [Undecodable EXCEPT !.outcome = "Undeliverable"]

Present == {c \in Clips : del[c].st # "absent"}

IsPollable(e) == e.task /\ ~e.lost /\ ~IsTerminal(e.status)

Settled(e) == e.lost \/ IsTerminal(e.status)

IsPrunable(c) ==
    /\ del[c].st = "ok" /\ del[c].outcome = "Delivered"
    /\ Settled(del[c]) /\ age[c] > Retention

\* Mutant of BudgetExhausted: an entry is polled for as long as perchpub fails.
BudgetUnlimited(c) == c \notin Clips

BudgetExhausted(c) == age[c] >= PollBudget

MaxAge == (IF PollBudget > Retention THEN PollBudget ELSE Retention) + 1

Init ==
    /\ del = [c \in Clips |-> Absent] /\ age = [c \in Clips |-> 0] /\ born = {}
    /\ server = [c \in Clips |-> "none"]
    /\ pc = "off" /\ todo = {} /\ batch = {} /\ held = [c \in Clips |-> Absent]
    /\ cur = {} /\ ans = "none" /\ pruned = {} /\ seen = {} /\ pruneDue = FALSE
    /\ restarts = 0 /\ faults = 0 /\ rots = 0

Fault == faults < MaxFaults /\ faults' = faults + 1 /\ UNCHANGED <<restarts, rots>>

-----------------------------------------------------------------------------
(* The loop: run, prune_round, poll_round.                                  *)

\* serve spawns the poller: empty skip set, a prune at once.
Start ==
    /\ pc = "off"
    /\ pc' = "loop" /\ pruneDue' = TRUE
    /\ UNCHANGED <<disk, server, todo, batch, held, cur, ans, pruned, seen, budget>>

BeginPrune ==
    /\ pc = "loop" /\ pruneDue
    /\ pc' = "prune" /\ todo' = Present /\ pruned' = {} /\ pruneDue' = FALSE
    /\ UNCHANGED <<disk, server, batch, held, cur, ans, seen, budget>>

\* prune_delivered looks at one file: unreadable and corrupt ones stay, and so
\* does one whose removal fails.
PruneOne(c) ==
    /\ pc = "prune" /\ c \in todo
    /\ todo' = todo \ {c}
    /\ IF IsPrunable(c)
          THEN \/ /\ del' = [del EXCEPT ![c] = Absent]
                  /\ pruned' = pruned \cup {c}
                  /\ UNCHANGED faults
               \/ /\ faults < MaxFaults /\ faults' = faults + 1
                  /\ UNCHANGED <<del, pruned>>
          ELSE UNCHANGED <<del, pruned, faults>>
    /\ UNCHANGED <<age, born, server, pc, batch, held, cur, ans, seen, pruneDue, restarts, rots>>

\* prune_round forgets the pruned clips; then poll_round lists the directory.
BeginScan ==
    /\ \/ pc = "loop" /\ ~pruneDue
       \/ pc = "prune" /\ todo = {}
    /\ seen' = IF pc = "prune" THEN seen \ pruned ELSE seen
    /\ pc' = "scan" /\ todo' = Present /\ batch' = {} /\ pruned' = {}
    /\ UNCHANGED <<disk, server, held, cur, ans, pruneDue, budget>>

\* A failing directory read ends the prune with its removals unreported.
PruneFails ==
    /\ pc = "prune" /\ Fault
    /\ pc' = "scan" /\ todo' = Present /\ batch' = {} /\ pruned' = {}
    /\ UNCHANGED <<disk, server, held, cur, ans, seen, pruneDue>>

-----------------------------------------------------------------------------
(* scan_non_terminal, one directory entry at a time.                        *)

\* Look at c; what is left alone besides the parts each case changes.
Look(c) ==
    /\ pc = "scan" /\ c \in todo
    /\ todo' = todo \ {c}
    /\ UNCHANGED <<age, born, server, pc, cur, ans, pruned, pruneDue>>

\* Known to be done, vanished since the listing, or not readable just now.
ScanSkip(c) ==
    /\ Look(c)
    /\ \/ (c \in seen \/ del[c].st = "absent") /\ UNCHANGED budget
       \/ Fault
    /\ UNCHANGED <<del, batch, held, seen>>

ScanQuarantine(c) ==
    /\ Look(c) /\ c \notin seen /\ del[c].st = "corrupt"
    /\ del' = [del EXCEPT ![c] = Absent]
    /\ UNCHANGED <<batch, held, seen, budget>>

ScanSettled(c) ==
    /\ Look(c) /\ c \notin seen /\ del[c].st = "ok" /\ ~IsPollable(del[c])
    /\ seen' = seen \cup {c}
    /\ UNCHANGED <<del, batch, held, budget>>

\* The poll budget is spent: the task is marked lost.
ScanGivesUp(c) ==
    /\ Look(c) /\ c \notin seen /\ del[c].st = "ok" /\ IsPollable(del[c])
    /\ BudgetExhausted(c)
    /\ del' = [del EXCEPT ![c].lost = TRUE]
    /\ seen' = seen \cup {c}
    /\ UNCHANGED <<batch, held, budget>>

ScanPollable(c) ==
    /\ Look(c) /\ c \notin seen /\ del[c].st = "ok" /\ IsPollable(del[c])
    /\ ~BudgetExhausted(c)
    /\ batch' = batch \cup {c} /\ held' = [held EXCEPT ![c] = del[c]]
    /\ UNCHANGED <<del, seen, budget>>

EndScan ==
    /\ pc = "scan" /\ todo = {}
    /\ pc' = "poll"
    /\ UNCHANGED <<disk, server, todo, batch, held, cur, ans, pruned, seen, pruneDue, budget>>

-----------------------------------------------------------------------------
(* poll_one: the request, the answer, and what is written then.             *)

PollOne(c) ==
    /\ pc = "poll" /\ c \in batch
    /\ pc' = "await" /\ cur' = {c} /\ batch' = batch \ {c}
    /\ UNCHANGED <<disk, server, todo, held, ans, pruned, seen, pruneDue, budget>>

\* perchpub reports the task's state, or that there is no such task, or the
\* request fails in a way classify_poll_error calls transient.
Answer ==
    /\ pc = "await"
    /\ \E c \in cur : ans' \in {server[c], "transient"}
    /\ pc' = "answered"
    /\ UNCHANGED <<disk, server, todo, batch, held, cur, pruned, seen, pruneDue, budget>>

Done ==
    /\ pc' = "poll" /\ cur' = {} /\ ans' = "none"
    /\ held' = [c \in Clips |-> IF c \in cur THEN Absent ELSE held[c]]
    /\ UNCHANGED <<age, born, server, todo, batch, pruned, pruneDue, budget>>

\* Mutant of ApplyStatus: every polled clip enters the skip set.
ApplyStatusSeen ==
    /\ pc = "answered" /\ ans \in Statuses
    /\ \E c \in cur :
        /\ del' = [del EXCEPT ![c] = [held[c] EXCEPT !.status = ans]]
        /\ seen' = seen \cup {c}
    /\ Done

\* The copy read by the scan, with the new status, replaces the record.
ApplyStatus ==
    /\ pc = "answered" /\ ans \in Statuses
    /\ \E c \in cur :
        /\ del' = [del EXCEPT ![c] = [held[c] EXCEPT !.status = ans]]
        /\ seen' = IF IsTerminal(ans) THEN seen \cup {c} ELSE seen
    /\ Done

\* Mutant of ApplyTransient: a failed poll is filed as a failed classification.
ApplyTransientFailed ==
    /\ pc = "answered" /\ ans = "transient"
    /\ \E c \in cur : del' = [del EXCEPT ![c] = [held[c] EXCEPT !.status = "Failed"]]
    /\ Done /\ UNCHANGED seen

ApplyTransient ==
    /\ pc = "answered" /\ ans = "transient"
    /\ Done /\ UNCHANGED <<del, seen>>

\* Mutant of ApplyLost: the error is filed as a status.
ApplyLostAsStatus ==
    /\ pc = "answered" /\ ans = "gone"
    /\ \E c \in cur :
        /\ del' = [del EXCEPT ![c] = [held[c] EXCEPT !.status = ans]]
        /\ seen' = seen \cup {c}
    /\ Done

\* 404, 422 and other terminal answers: the task is lost.
ApplyLost ==
    /\ pc = "answered" /\ ans = "gone"
    /\ \E c \in cur :
        /\ del' = [del EXCEPT ![c] = [held[c] EXCEPT !.lost = TRUE]]
        /\ seen' = seen \cup {c}
    /\ Done

EndRound ==
    /\ pc = "poll" /\ batch = {}
    /\ pc' = "loop"
    /\ UNCHANGED <<disk, server, todo, batch, held, cur, ans, pruned, seen, pruneDue, budget>>

\* A failing update_delivered_sidecar aborts the round with `?`.
RoundFails ==
    /\ (pc = "answered" /\ ans # "transient") \/ (pc = "scan" /\ todo # {})
    /\ Fault
    /\ pc' = "loop" /\ todo' = {} /\ batch' = {} /\ cur' = {} /\ ans' = "none"
    /\ held' = [c \in Clips |-> Absent]
    /\ UNCHANGED <<disk, server, pruned, seen, pruneDue>>

-----------------------------------------------------------------------------
(* The other tasks, perchpub and the environment.                           *)

\* transition_delivered moves a clip's sidecar into delivered/.
RunnerDelivers(c) ==
    /\ pc # "off" /\ c \notin born
    /\ born' = born \cup {c} /\ age' = [age EXCEPT ![c] = 0]
    /\ \E e \in {Tasked(s) : s \in Statuses} \cup {Undecodable, Undeliverable} :
        /\ del' = [del EXCEPT ![c] = e]
        /\ server' = [server EXCEPT ![c] = IF e.task THEN e.status ELSE "none"]
    /\ UNCHANGED <<pc, todo, batch, held, cur, ans, pruned, seen, pruneDue, budget>>

\* Mutant of InboxEvicts: delivered/ is evicted whatever the outcome.
InboxEvictsAny(c) ==
    /\ pc # "off" /\ del[c].st = "ok"
    /\ del' = [del EXCEPT ![c] = Absent]
    /\ UNCHANGED <<age, born, server, pc, todo, batch, held, cur, ans, pruned,
                   seen, pruneDue, budget>>

\* The queue policy evicts an Undeliverable record.
InboxEvicts(c) ==
    /\ pc # "off" /\ del[c].st = "ok" /\ del[c].outcome = "Undeliverable"
    /\ del' = [del EXCEPT ![c] = Absent]
    /\ UNCHANGED <<age, born, server, pc, todo, batch, held, cur, ans, pruned,
                   seen, pruneDue, budget>>

\* perchpub works on a task, settles it, or forgets it.
ServerMoves(c) ==
    /\ server[c] \in {"Running", "Unknown"}
    /\ server' = [server EXCEPT ![c] = "Success"] \/ server' = [server EXCEPT ![c] = "Failed"]
       \/ server' = [server EXCEPT ![c] = "Unknown"] \/ server' = [server EXCEPT ![c] = "gone"]
    /\ UNCHANGED <<disk, pc, todo, batch, held, cur, ans, pruned, seen, pruneDue, budget>>

Tick ==
    /\ age' = [c \in Clips |-> IF c \in born /\ age[c] < MaxAge THEN age[c] + 1 ELSE age[c]]
    /\ age' # age
    /\ UNCHANGED <<del, born, server, pc, todo, batch, held, cur, ans, pruned, seen, pruneDue, budget>>

PruneTimer ==
    /\ pc # "off" /\ ~pruneDue
    /\ pruneDue' = TRUE
    /\ UNCHANGED <<disk, server, pc, todo, batch, held, cur, ans, pruned, seen, budget>>

\* Shutdown or power loss. Writes are tmp + rename, so each one is whole.
Stop ==
    /\ pc # "off" /\ restarts < MaxRestarts
    /\ restarts' = restarts + 1
    /\ pc' = "off" /\ todo' = {} /\ batch' = {} /\ cur' = {} /\ ans' = "none"
    /\ held' = [c \in Clips |-> Absent] /\ pruned' = {} /\ seen' = {} /\ pruneDue' = FALSE
    /\ UNCHANGED <<disk, server, faults, rots>>

\* An unsynced sidecar is truncated by the power loss.
Rot(c) ==
    /\ pc = "off" /\ del[c].st = "ok" /\ rots < MaxRot
    /\ rots' = rots + 1
    /\ del' = [del EXCEPT ![c].st = "corrupt"]
    /\ UNCHANGED <<age, born, server, pc, todo, batch, held, cur, ans, pruned,
                   seen, pruneDue, restarts, faults>>

-----------------------------------------------------------------------------
PollerNext ==
    \/ Start \/ BeginPrune \/ BeginScan \/ EndScan \/ EndRound
    \/ ApplyStatus \/ ApplyTransient \/ ApplyLost
    \/ \E c \in Clips : \/ PruneOne(c) \/ ScanSkip(c) \/ ScanQuarantine(c) \/ ScanSettled(c)
                        \/ ScanGivesUp(c) \/ ScanPollable(c) \/ PollOne(c)

EnvNext ==
    \/ PruneFails \/ RoundFails \/ Stop
    \/ \E c \in Clips : RunnerDelivers(c) \/ InboxEvicts(c) \/ ServerMoves(c) \/ Rot(c)

Next == PollerNext \/ Answer \/ Tick \/ PruneTimer \/ EnvNext

Spec == Init /\ [][Next]_vars

\* The runtime schedules the poller, requests time out, clocks advance.
Fairness ==
    /\ WF_vars(PollerNext) /\ WF_vars(Answer) /\ WF_vars(Tick) /\ WF_vars(PruneTimer)

FairSpec == Spec /\ Fairness

-----------------------------------------------------------------------------
(* Properties.                                                              *)

\* Every variable stays in its type.
TypeOK ==
    /\ del \in [Clips -> Record] /\ held \in [Clips -> Record]
    /\ age \in [Clips -> 0 .. MaxAge] /\ born \subseteq Clips
    /\ server \in [Clips -> Statuses \cup {"none", "gone"}]
    /\ pc \in {"off", "loop", "prune", "scan", "poll", "await", "answered"}
    /\ todo \subseteq Clips /\ batch \subseteq Clips /\ cur \subseteq Clips
    /\ ans \in Statuses \cup {"none", "gone", "transient"}
    /\ pruned \subseteq Clips /\ seen \subseteq Clips /\ pruneDue \in BOOLEAN
    /\ restarts \in Nat /\ faults \in Nat /\ rots \in Nat

\* The copy of a record that poll_one writes back after the network round trip
\* is still what delivered/ holds: the unconditional write neither undoes
\* another task's change nor brings back a record removed meanwhile.
HeldIsFresh == \A c \in batch \cup cur : del[c] = held[c]

\* The skip set never hides a record that still needs polling (PS-25).
SeenIsSettled == \A c \in seen : del[c].st = "ok" => ~IsPollable(del[c])

\* A verdict in a record is the verdict perchpub reached for that clip.
RecordedVerdict ==
    \A c \in Clips : IsTerminal(del[c].status) => server[c] = del[c].status

\* prune_delivered bounds the growth of delivered/ (PS-25) for every delivered
\* clip whose 2xx answer could be decoded: even if perchpub never answers a
\* poll (PS-06), its task is settled and its record aged out. Undecodable
\* records carry no task, are never settled, and do stay for ever.
OnlyUndecodableStays ==
    \A c \in Clips :
        (del[c].st = "ok" /\ del[c].outcome = "Delivered" /\ del[c] # Undecodable)
            ~> del[c].st # "ok"
=============================================================================
