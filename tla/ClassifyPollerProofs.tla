------------------------- MODULE ClassifyPollerProofs -------------------------
(***************************************************************************)
(* The invariants of ClassifyPoller for every set of clips, poll budget,   *)
(* retention and number of restarts, failing calls and truncated sidecars. *)
(*                                                                         *)
(* None of the three is inductive. What carries them is Polled: a clip     *)
(* that is waiting for its poll is a readable, pollable record, so nobody  *)
(* else may touch it (the inbox evicts Undeliverable records only, the     *)
(* prune only settled ones), and it is not in the skip set; and Phases,    *)
(* which says when clips wait.                                             *)
(***************************************************************************)
EXTENDS ClassifyPoller, TLAPS

\* When the loop holds clips: batch from the scan to the end of the round, cur
\* for the one request in flight. No entry is both collected and still listed.
Phases ==
    /\ pc \notin {"scan", "poll", "await", "answered"} => batch = {}
    /\ pc \notin {"await", "answered"} => cur = {}
    /\ pc = "scan" => batch \cap todo = {}
    /\ batch \cap cur = {}
    /\ \A c, d \in cur : c = d

\* Only a Delivered record has a task.
TaskIsDelivered == \A c \in Clips : del[c].task => del[c].outcome = "Delivered"

\* What waits for a poll is pollable on the disk and not in the skip set.
Polled ==
    \A c \in batch \cup cur :
        c \in born \ seen /\ del[c].st = "ok" /\ IsPollable(del[c])

\* The skip set and delivered/ are about clips the runner has filed.
SeenIsBorn == seen \subseteq born
Filed      == \A c \in Clips : del[c].st # "absent" => c \in born

\* A final answer is what perchpub still says.
AnswerStands == pc = "answered" /\ IsTerminal(ans) => \A c \in cur : server[c] = ans

IInv ==
    /\ TypeOK /\ Phases /\ TaskIsDelivered /\ Polled /\ SeenIsBorn /\ Filed
    /\ AnswerStands /\ HeldIsFresh /\ SeenIsSettled /\ RecordedVerdict

-----------------------------------------------------------------------------
USE DEF disk, budget

\* Every way a record is made or updated yields a record.
LEMMA RecordTypes ==
    /\ Absent \in Record /\ Undecodable \in Record /\ Undeliverable \in Record
    /\ \A s \in Statuses : Tasked(s) \in Record
    /\ \A e \in Record :
         /\ \A s \in Statuses : [e EXCEPT !.status = s] \in Record
         /\ [e EXCEPT !.lost = TRUE] \in Record
         /\ [e EXCEPT !.st = "corrupt"] \in Record
<1>1. Absent \in Record /\ Undecodable \in Record
  BY DEF Absent, Undecodable, Record, Statuses
<1>2. \A s \in Statuses : Tasked(s) \in Record
  BY DEF Tasked, Record, Statuses
<1>3. \A e \in Record :
         /\ [e EXCEPT !.outcome = "Undeliverable"] \in Record
         /\ \A s \in Statuses : [e EXCEPT !.status = s] \in Record
         /\ [e EXCEPT !.lost = TRUE] \in Record
         /\ [e EXCEPT !.st = "corrupt"] \in Record
  BY DEF Record, Statuses
<1>4. QED
  BY <1>1, <1>2, <1>3 DEF Undeliverable

\* The ages are counted to a limit that is a number.
LEMMA MaxAgeType == MaxAge \in Nat /\ MaxAge > 0
BY PollerConstants DEF MaxAge

\* Every step keeps the types.
LEMMA TypeStep == TypeOK /\ [Next]_vars => TypeOK'
<1> SUFFICES ASSUME TypeOK, [Next]_vars PROVE TypeOK'
  OBVIOUS
<1> USE RecordTypes, MaxAgeType DEF TypeOK
<1>1. CASE Start
  BY <1>1 DEF Start
<1>2. CASE BeginPrune
  BY <1>2 DEF BeginPrune, Present
<1>3. CASE BeginScan
  BY <1>3 DEF BeginScan, Present
<1>4. CASE EndScan
  BY <1>4 DEF EndScan
<1>5. CASE EndRound
  BY <1>5 DEF EndRound
<1>6. CASE ApplyStatus
  <2>1. PICK c \in cur : del' = [del EXCEPT ![c] = [held[c] EXCEPT !.status = ans]]
                         /\ seen' \in {seen \cup {c}, seen}
    BY <1>6 DEF ApplyStatus
  <2>2. [held[c] EXCEPT !.status = ans] \in Record
    BY <1>6, RecordTypes DEF ApplyStatus
  <2>3. QED
    BY <1>6, <2>1, <2>2 DEF ApplyStatus, Done
<1>7. CASE ApplyTransient
  BY <1>7 DEF ApplyTransient, Done
<1>8. CASE ApplyLost
  <2>1. PICK c \in cur : del' = [del EXCEPT ![c] = [held[c] EXCEPT !.lost = TRUE]]
                         /\ seen' = seen \cup {c}
    BY <1>8 DEF ApplyLost
  <2>2. [held[c] EXCEPT !.lost = TRUE] \in Record
    BY RecordTypes
  <2>3. QED
    BY <1>8, <2>1, <2>2 DEF ApplyLost, Done
<1>9. CASE PruneFails
  BY <1>9 DEF PruneFails, Present, Fault
<1>10. CASE RoundFails
  BY <1>10 DEF RoundFails, Fault
<1>11. CASE Stop
  <2>1. restarts' \in Nat /\ held' \in [Clips -> Record]
    BY <1>11 DEF Stop
  <2>2. QED
    BY <1>11, <2>1 DEF Stop
<1>12. CASE Answer
  BY <1>12 DEF Answer
<1>13. CASE Tick
  BY <1>13 DEF Tick
<1>14. CASE PruneTimer
  BY <1>14 DEF PruneTimer
<1>15. CASE \E c \in Clips : PruneOne(c)
  BY <1>15 DEF PruneOne, IsPrunable
<1>16. CASE \E c \in Clips : ScanSkip(c)
  BY <1>16 DEF ScanSkip, Look, Fault
<1>17. CASE \E c \in Clips : ScanQuarantine(c)
  BY <1>17 DEF ScanQuarantine, Look
<1>18. CASE \E c \in Clips : ScanSettled(c)
  BY <1>18 DEF ScanSettled, Look
<1>19. CASE \E c \in Clips : ScanGivesUp(c)
  <2>1. PICK c \in Clips : ScanGivesUp(c)
    BY <1>19
  <2>2. [del[c] EXCEPT !.lost = TRUE] \in Record
    BY RecordTypes
  <2>3. QED
    BY <2>1, <2>2 DEF ScanGivesUp, Look
<1>20. CASE \E c \in Clips : ScanPollable(c)
  BY <1>20 DEF ScanPollable, Look
<1>21. CASE \E c \in Clips : PollOne(c)
  BY <1>21 DEF PollOne
<1>22. CASE \E c \in Clips : RunnerDelivers(c)
  <2>1. PICK c \in Clips : RunnerDelivers(c)
    BY <1>22
  <2>2. PICK e \in {Tasked(s) : s \in Statuses} \cup {Undecodable, Undeliverable} :
          /\ del' = [del EXCEPT ![c] = e]
          /\ server' = [server EXCEPT ![c] = IF e.task THEN e.status ELSE "none"]
    BY <2>1 DEF RunnerDelivers
  <2>3. e \in Record /\ e.status \in Statuses
    BY RecordTypes DEF Record
  <2>4. QED
    BY <2>1, <2>2, <2>3 DEF RunnerDelivers
<1>23. CASE \E c \in Clips : InboxEvicts(c)
  BY <1>23 DEF InboxEvicts
<1>24. CASE \E c \in Clips : ServerMoves(c)
  <2>1. PICK c \in Clips : ServerMoves(c)
    BY <1>24
  <2>2. \A s \in Statuses \cup {"gone"} :
          [server EXCEPT ![c] = s] \in [Clips -> Statuses \cup {"none", "gone"}]
    OBVIOUS
  <2>3. server' \in [Clips -> Statuses \cup {"none", "gone"}]
    BY <2>1, <2>2 DEF ServerMoves, Statuses
  <2>4. QED
    BY <2>1, <2>3 DEF ServerMoves
<1>25. CASE \E c \in Clips : Rot(c)
  <2>1. PICK c \in Clips : Rot(c)
    BY <1>25
  <2>2. [del[c] EXCEPT !.st = "corrupt"] \in Record
    BY RecordTypes
  <2>3. QED
    BY <2>1, <2>2 DEF Rot
<1>26. CASE UNCHANGED vars
  BY <1>26 DEF vars
<1>27. QED
  BY <1>1, <1>2, <1>3, <1>4, <1>5, <1>6, <1>7, <1>8, <1>9, <1>10, <1>11, <1>12, <1>13,
    <1>14, <1>15, <1>16, <1>17, <1>18, <1>19, <1>20, <1>21, <1>22, <1>23, <1>24, <1>25, <1>26
    DEF Next, PollerNext, EnvNext

\* Every step keeps the inductive invariant.
LEMMA InvStep == IInv /\ [Next]_vars => IInv'
<1> SUFFICES ASSUME IInv, [Next]_vars, TypeOK' PROVE IInv'
  BY TypeStep DEF IInv
<1> USE DEF TypeOK, IInv
<1>1. CASE Start
  BY <1>1
    DEF Start, Phases, TaskIsDelivered, Polled, SeenIsBorn,
        Filed, AnswerStands, HeldIsFresh, SeenIsSettled, RecordedVerdict
<1>2. CASE BeginPrune
  BY <1>2
    DEF BeginPrune, Phases, TaskIsDelivered, Polled, SeenIsBorn,
        Filed, AnswerStands, HeldIsFresh, SeenIsSettled, RecordedVerdict
<1>3. CASE BeginScan
  BY <1>3
    DEF BeginScan, Phases, TaskIsDelivered, Polled, SeenIsBorn,
        Filed, AnswerStands, HeldIsFresh, SeenIsSettled, RecordedVerdict
<1>4. CASE EndScan
  BY <1>4
    DEF EndScan, Phases, TaskIsDelivered, Polled, SeenIsBorn,
        Filed, AnswerStands, HeldIsFresh, SeenIsSettled, RecordedVerdict
<1>5. CASE EndRound
  BY <1>5
    DEF EndRound, Phases, TaskIsDelivered, Polled, SeenIsBorn,
        Filed, AnswerStands, HeldIsFresh, SeenIsSettled, RecordedVerdict
<1>6. CASE PruneFails
  BY <1>6
    DEF PruneFails, Fault, Phases, TaskIsDelivered, Polled, SeenIsBorn,
        Filed, AnswerStands, HeldIsFresh, SeenIsSettled, RecordedVerdict
<1>7. CASE RoundFails
  BY <1>7
    DEF RoundFails, Fault, Phases, TaskIsDelivered, Polled, SeenIsBorn,
        Filed, AnswerStands, HeldIsFresh, SeenIsSettled, RecordedVerdict
<1>8. CASE Stop
  BY <1>8
    DEF Stop, Phases, TaskIsDelivered, Polled, SeenIsBorn,
        Filed, AnswerStands, HeldIsFresh, SeenIsSettled, RecordedVerdict
<1>9. CASE Tick
  BY <1>9
    DEF Tick, Phases, TaskIsDelivered, Polled, SeenIsBorn,
        Filed, AnswerStands, HeldIsFresh, SeenIsSettled, RecordedVerdict
<1>10. CASE PruneTimer
  BY <1>10
    DEF PruneTimer, Phases, TaskIsDelivered, Polled, SeenIsBorn,
        Filed, AnswerStands, HeldIsFresh, SeenIsSettled, RecordedVerdict
<1>11. CASE ApplyTransient
  BY <1>11
    DEF ApplyTransient, Done, Phases, TaskIsDelivered, Polled, SeenIsBorn,
        Filed, AnswerStands, HeldIsFresh, SeenIsSettled, RecordedVerdict
<1>12. CASE Answer
  <2>1. Phases'
    BY <1>12
      DEF Answer, Phases
  <2>2. TaskIsDelivered'
    BY <1>12
      DEF Answer, TaskIsDelivered
  <2>3. Polled'
    BY <1>12
      DEF Answer, Polled
  <2>4. SeenIsBorn'
    BY <1>12
      DEF Answer, SeenIsBorn
  <2>5. Filed'
    BY <1>12
      DEF Answer, Filed
  <2>6. AnswerStands'
    BY <1>12
      DEF Answer, AnswerStands, Phases, IsTerminal
  <2>7. HeldIsFresh'
    BY <1>12
      DEF Answer, HeldIsFresh
  <2>8. SeenIsSettled'
    BY <1>12
      DEF Answer, SeenIsSettled
  <2>9. RecordedVerdict'
    BY <1>12
      DEF Answer, RecordedVerdict
  <2>10. QED
    BY <2>1, <2>2, <2>3, <2>4, <2>5, <2>6, <2>7, <2>8, <2>9
<1>13. CASE ApplyStatus
  <2>1. PICK c \in cur : /\ del' = [del EXCEPT ![c] = [held[c] EXCEPT !.status = ans]]
                         /\ seen' = IF IsTerminal(ans) THEN seen \cup {c} ELSE seen
    BY <1>13 DEF ApplyStatus
  <2>2. cur = {c} /\ c \in Clips /\ c \notin batch /\ held[c] = del[c] /\ c \in born \ seen
        /\ del[c].st = "ok" /\ IsPollable(del[c])
    BY <1>13, <2>1 DEF ApplyStatus, Phases, HeldIsFresh, Polled
  <2>3. /\ \A d \in Clips : d # c => del'[d] = del[d]
        /\ del'[c] = [del[c] EXCEPT !.status = ans]
    BY <2>1, <2>2
  <2>4. /\ del'[c].task = del[c].task /\ del'[c].outcome = del[c].outcome
        /\ del'[c].status = ans /\ del'[c].lost = del[c].lost
    BY <2>2, <2>3 DEF Record
  <2>5. /\ \A d \in Clips : d # c => held'[d] = held[d]
        /\ cur' = {} /\ batch' = batch /\ pc' = "poll" /\ born' = born /\ server' = server
    BY <1>13, <2>2 DEF ApplyStatus, Done
  <2>6. Phases'
    BY <2>5, <1>13 DEF Phases, ApplyStatus
  <2>7. TaskIsDelivered'
    BY <2>3, <2>4 DEF TaskIsDelivered
  <2>8. Polled'
    BY <2>1, <2>2, <2>3, <2>5 DEF Polled
  <2>9. SeenIsBorn'
    BY <2>1, <2>2, <2>5 DEF SeenIsBorn
  <2>10. AnswerStands'
    BY <2>5 DEF AnswerStands
  <2>11. HeldIsFresh'
    BY <2>2, <2>3, <2>5 DEF HeldIsFresh
  <2>12. SeenIsSettled'
    BY <2>1, <2>2, <2>3, <2>4 DEF SeenIsSettled, IsPollable
  <2>13. RecordedVerdict'
    BY <1>13, <2>2, <2>3, <2>4, <2>5 DEF ApplyStatus, RecordedVerdict, AnswerStands
  <2>14. Filed'
    BY <2>2, <2>3, <2>5 DEF Filed
  <2>15. QED
    BY <2>6, <2>7, <2>8, <2>9, <2>10, <2>11, <2>12, <2>13, <2>14
<1>14. CASE ApplyLost
  <2>1. PICK c \in cur : /\ del' = [del EXCEPT ![c] = [held[c] EXCEPT !.lost = TRUE]]
                         /\ seen' = seen \cup {c}
    BY <1>14 DEF ApplyLost
  <2>2. cur = {c} /\ c \in Clips /\ c \notin batch /\ held[c] = del[c] /\ c \in born \ seen
        /\ del[c].st = "ok" /\ IsPollable(del[c])
    BY <1>14, <2>1 DEF ApplyLost, Phases, HeldIsFresh, Polled
  <2>3. /\ \A d \in Clips : d # c => del'[d] = del[d]
        /\ del'[c] = [del[c] EXCEPT !.lost = TRUE]
    BY <2>1, <2>2
  <2>4. /\ del'[c].task = del[c].task /\ del'[c].outcome = del[c].outcome
        /\ del'[c].lost = TRUE /\ del'[c].status = del[c].status
    BY <2>2, <2>3 DEF Record
  <2>5. /\ \A d \in Clips : d # c => held'[d] = held[d]
        /\ cur' = {} /\ batch' = batch /\ pc' = "poll" /\ born' = born /\ server' = server
    BY <1>14, <2>2 DEF ApplyLost, Done
  <2>6. Phases'
    BY <2>5, <1>14 DEF Phases, ApplyLost
  <2>7. TaskIsDelivered'
    BY <2>3, <2>4 DEF TaskIsDelivered
  <2>8. Polled'
    BY <2>1, <2>2, <2>3, <2>5 DEF Polled
  <2>9. SeenIsBorn'
    BY <2>1, <2>2, <2>5 DEF SeenIsBorn
  <2>10. AnswerStands'
    BY <2>5 DEF AnswerStands
  <2>11. HeldIsFresh'
    BY <2>2, <2>3, <2>5 DEF HeldIsFresh
  <2>12. SeenIsSettled'
    BY <2>1, <2>2, <2>3, <2>4 DEF SeenIsSettled, IsPollable
  <2>13. RecordedVerdict'
    BY <1>14, <2>2, <2>3, <2>4, <2>5 DEF ApplyLost, RecordedVerdict, AnswerStands
  <2>14. Filed'
    BY <2>2, <2>3, <2>5 DEF Filed
  <2>15. QED
    BY <2>6, <2>7, <2>8, <2>9, <2>10, <2>11, <2>12, <2>13, <2>14
<1>15. ASSUME NEW c \in Clips, PruneOne(c) PROVE IInv'
  <2>1. /\ \A d \in Clips : d # c => del'[d] = del[d]
        /\ del'[c] \in {del[c], Absent}
    BY <1>15 DEF PruneOne
  <2>2. Phases'
    BY <1>15, <2>1
      DEF PruneOne, Phases
  <2>3. TaskIsDelivered'
    BY <1>15, <2>1
      DEF PruneOne, TaskIsDelivered, Absent
  <2>4. Polled'
    BY <1>15, <2>1
      DEF PruneOne, Polled, Phases
  <2>5. SeenIsBorn'
    BY <1>15, <2>1
      DEF PruneOne, SeenIsBorn
  <2>6. Filed'
    BY <1>15, <2>1
      DEF PruneOne, Filed, Absent
  <2>7. AnswerStands'
    BY <1>15, <2>1
      DEF PruneOne, AnswerStands
  <2>8. HeldIsFresh'
    BY <1>15, <2>1
      DEF PruneOne, HeldIsFresh, Phases
  <2>9. SeenIsSettled'
    BY <1>15, <2>1
      DEF PruneOne, SeenIsSettled, Absent
  <2>10. RecordedVerdict'
    BY <1>15, <2>1
      DEF PruneOne, RecordedVerdict, Absent, IsTerminal
  <2>11. QED
    BY <2>2, <2>3, <2>4, <2>5, <2>6, <2>7, <2>8, <2>9, <2>10
<1>16. ASSUME NEW c \in Clips, ScanSkip(c) PROVE IInv'
  <2>1. Phases'
    BY <1>16
      DEF ScanSkip, Look, Fault, Phases
  <2>2. TaskIsDelivered'
    BY <1>16
      DEF ScanSkip, Look, Fault, TaskIsDelivered
  <2>3. Polled'
    BY <1>16
      DEF ScanSkip, Look, Fault, Polled
  <2>4. SeenIsBorn'
    BY <1>16
      DEF ScanSkip, Look, Fault, SeenIsBorn
  <2>5. Filed'
    BY <1>16
      DEF ScanSkip, Look, Fault, Filed
  <2>6. AnswerStands'
    BY <1>16
      DEF ScanSkip, Look, Fault, AnswerStands
  <2>7. HeldIsFresh'
    BY <1>16
      DEF ScanSkip, Look, Fault, HeldIsFresh
  <2>8. SeenIsSettled'
    BY <1>16
      DEF ScanSkip, Look, Fault, SeenIsSettled
  <2>9. RecordedVerdict'
    BY <1>16
      DEF ScanSkip, Look, Fault, RecordedVerdict
  <2>10. QED
    BY <2>1, <2>2, <2>3, <2>4, <2>5, <2>6, <2>7, <2>8, <2>9
<1>17. ASSUME NEW c \in Clips, ScanQuarantine(c) PROVE IInv'
  <2>1. /\ \A d \in Clips : d # c => del'[d] = del[d]
        /\ del'[c] = Absent
    BY <1>17 DEF ScanQuarantine
  <2>2. Phases'
    BY <1>17, <2>1
      DEF ScanQuarantine, Look, Phases
  <2>3. TaskIsDelivered'
    BY <1>17, <2>1
      DEF ScanQuarantine, Look, TaskIsDelivered, Absent
  <2>4. Polled'
    BY <1>17, <2>1
      DEF ScanQuarantine, Look, Polled, Phases
  <2>5. SeenIsBorn'
    BY <1>17, <2>1
      DEF ScanQuarantine, Look, SeenIsBorn
  <2>6. Filed'
    BY <1>17, <2>1
      DEF ScanQuarantine, Look, Filed, Absent
  <2>7. AnswerStands'
    BY <1>17, <2>1
      DEF ScanQuarantine, Look, AnswerStands
  <2>8. HeldIsFresh'
    BY <1>17, <2>1
      DEF ScanQuarantine, Look, HeldIsFresh, Phases
  <2>9. SeenIsSettled'
    BY <1>17, <2>1
      DEF ScanQuarantine, Look, SeenIsSettled, Absent
  <2>10. RecordedVerdict'
    BY <1>17, <2>1
      DEF ScanQuarantine, Look, RecordedVerdict, Absent, IsTerminal
  <2>11. QED
    BY <2>2, <2>3, <2>4, <2>5, <2>6, <2>7, <2>8, <2>9, <2>10
<1>18. ASSUME NEW c \in Clips, ScanSettled(c) PROVE IInv'
  <2>1. Phases'
    BY <1>18
      DEF ScanSettled, Look, Phases
  <2>2. TaskIsDelivered'
    BY <1>18
      DEF ScanSettled, Look, TaskIsDelivered
  <2>3. Polled'
    BY <1>18
      DEF ScanSettled, Look, Polled, Phases
  <2>4. SeenIsBorn'
    BY <1>18
      DEF ScanSettled, Look, SeenIsBorn, Filed
  <2>5. Filed'
    BY <1>18
      DEF ScanSettled, Look, Filed
  <2>6. AnswerStands'
    BY <1>18
      DEF ScanSettled, Look, AnswerStands
  <2>7. HeldIsFresh'
    BY <1>18
      DEF ScanSettled, Look, HeldIsFresh
  <2>8. SeenIsSettled'
    BY <1>18
      DEF ScanSettled, Look, SeenIsSettled
  <2>9. RecordedVerdict'
    BY <1>18
      DEF ScanSettled, Look, RecordedVerdict
  <2>10. QED
    BY <2>1, <2>2, <2>3, <2>4, <2>5, <2>6, <2>7, <2>8, <2>9
<1>19. ASSUME NEW c \in Clips, ScanGivesUp(c) PROVE IInv'
  <2>1. /\ \A d \in Clips : d # c => del'[d] = del[d]
        /\ del'[c] = [del[c] EXCEPT !.lost = TRUE]
    BY <1>19 DEF ScanGivesUp
  <2>2. del'[c].lost /\ del'[c].task = del[c].task
        /\ del'[c].outcome = del[c].outcome /\ del'[c].status = del[c].status
    BY <1>19, <2>1 DEF Record
  <2>3. Phases'
    BY <1>19, <2>1, <2>2
      DEF ScanGivesUp, Look, Phases
  <2>4. TaskIsDelivered'
    BY <1>19, <2>1, <2>2
      DEF ScanGivesUp, Look, TaskIsDelivered
  <2>5. Polled'
    BY <1>19, <2>1, <2>2
      DEF ScanGivesUp, Look, Polled, Phases
  <2>6. SeenIsBorn'
    BY <1>19, <2>1, <2>2
      DEF ScanGivesUp, Look, SeenIsBorn, Filed
  <2>7. Filed'
    BY <1>19, <2>1, <2>2
      DEF ScanGivesUp, Look, Filed
  <2>8. AnswerStands'
    BY <1>19, <2>1, <2>2
      DEF ScanGivesUp, Look, AnswerStands
  <2>9. HeldIsFresh'
    BY <1>19, <2>1, <2>2
      DEF ScanGivesUp, Look, HeldIsFresh, Phases
  <2>10. SeenIsSettled'
    BY <1>19, <2>1, <2>2
      DEF ScanGivesUp, Look, SeenIsSettled, IsPollable
  <2>11. RecordedVerdict'
    BY <1>19, <2>1, <2>2
      DEF ScanGivesUp, Look, RecordedVerdict
  <2>12. QED
    BY <2>3, <2>4, <2>5, <2>6, <2>7, <2>8, <2>9, <2>10, <2>11
<1>20. ASSUME NEW c \in Clips, ScanPollable(c) PROVE IInv'
  <2>1. Phases'
    BY <1>20
      DEF ScanPollable, Look, Phases
  <2>2. TaskIsDelivered'
    BY <1>20
      DEF ScanPollable, Look, TaskIsDelivered
  <2>3. Polled'
    BY <1>20
      DEF ScanPollable, Look, Polled, Phases, Filed
  <2>4. SeenIsBorn'
    BY <1>20
      DEF ScanPollable, Look, SeenIsBorn
  <2>5. Filed'
    BY <1>20
      DEF ScanPollable, Look, Filed
  <2>6. AnswerStands'
    BY <1>20
      DEF ScanPollable, Look, AnswerStands
  <2>7. HeldIsFresh'
    BY <1>20
      DEF ScanPollable, Look, HeldIsFresh, Phases
  <2>8. SeenIsSettled'
    BY <1>20
      DEF ScanPollable, Look, SeenIsSettled
  <2>9. RecordedVerdict'
    BY <1>20
      DEF ScanPollable, Look, RecordedVerdict
  <2>10. QED
    BY <2>1, <2>2, <2>3, <2>4, <2>5, <2>6, <2>7, <2>8, <2>9
<1>21. ASSUME NEW c \in Clips, PollOne(c) PROVE IInv'
  <2>1. Phases'
    BY <1>21
      DEF PollOne, Phases
  <2>2. TaskIsDelivered'
    BY <1>21
      DEF PollOne, TaskIsDelivered
  <2>3. Polled'
    BY <1>21
      DEF PollOne, Polled, Phases
  <2>4. SeenIsBorn'
    BY <1>21
      DEF PollOne, SeenIsBorn
  <2>5. Filed'
    BY <1>21
      DEF PollOne, Filed
  <2>6. AnswerStands'
    BY <1>21
      DEF PollOne, AnswerStands
  <2>7. HeldIsFresh'
    BY <1>21
      DEF PollOne, HeldIsFresh, Phases
  <2>8. SeenIsSettled'
    BY <1>21
      DEF PollOne, SeenIsSettled
  <2>9. RecordedVerdict'
    BY <1>21
      DEF PollOne, RecordedVerdict
  <2>10. QED
    BY <2>1, <2>2, <2>3, <2>4, <2>5, <2>6, <2>7, <2>8, <2>9
<1>22. ASSUME NEW c \in Clips, RunnerDelivers(c) PROVE IInv'
  <2>1. PICK e \in {Tasked(s) : s \in Statuses} \cup {Undecodable, Undeliverable} :
          /\ del' = [del EXCEPT ![c] = e]
          /\ server' = [server EXCEPT ![c] = IF e.task THEN e.status ELSE "none"]
    BY <1>22 DEF RunnerDelivers
  <2>2. /\ e.task => e.outcome = "Delivered"
        /\ IsTerminal(e.status) => e.task
    BY <1>22, <2>1 DEF Tasked, Undecodable, Undeliverable, IsTerminal
  <2>3. /\ \A d \in Clips : d # c => del'[d] = del[d] /\ server'[d] = server[d]
        /\ del'[c] = e /\ (e.task => server'[c] = e.status)
    BY <1>22, <2>1
  <2>4. c \notin batch \cup cur \cup seen
    BY <1>22 DEF RunnerDelivers, Polled, SeenIsBorn
  <2>5. Phases'
    BY <1>22, <2>1, <2>2, <2>3, <2>4
      DEF RunnerDelivers, Phases
  <2>6. TaskIsDelivered'
    BY <1>22, <2>1, <2>2, <2>3, <2>4
      DEF RunnerDelivers, TaskIsDelivered
  <2>7. Polled'
    BY <1>22, <2>1, <2>2, <2>3, <2>4
      DEF RunnerDelivers, Polled
  <2>8. SeenIsBorn'
    BY <1>22, <2>1, <2>2, <2>3, <2>4
      DEF RunnerDelivers, SeenIsBorn
  <2>9. Filed'
    BY <1>22, <2>1, <2>2, <2>3, <2>4
      DEF RunnerDelivers, Filed
  <2>10. AnswerStands'
    BY <1>22, <2>1, <2>2, <2>3, <2>4
      DEF RunnerDelivers, AnswerStands
  <2>11. HeldIsFresh'
    BY <1>22, <2>1, <2>2, <2>3, <2>4
      DEF RunnerDelivers, HeldIsFresh
  <2>12. SeenIsSettled'
    BY <1>22, <2>1, <2>2, <2>3, <2>4
      DEF RunnerDelivers, SeenIsSettled
  <2>13. RecordedVerdict'
    BY <1>22, <2>1, <2>2, <2>3, <2>4
      DEF RunnerDelivers, RecordedVerdict
  <2>14. QED
    BY <2>5, <2>6, <2>7, <2>8, <2>9, <2>10, <2>11, <2>12, <2>13
<1>23. ASSUME NEW c \in Clips, InboxEvicts(c) PROVE IInv'
  <2>1. /\ \A d \in Clips : d # c => del'[d] = del[d]
        /\ del'[c] = Absent
    BY <1>23 DEF InboxEvicts
  <2>2. c \notin batch \cup cur
    BY <1>23 DEF InboxEvicts, Polled, TaskIsDelivered, IsPollable
  <2>3. Phases'
    BY <1>23, <2>1, <2>2
      DEF InboxEvicts, Phases
  <2>4. TaskIsDelivered'
    BY <1>23, <2>1, <2>2
      DEF InboxEvicts, TaskIsDelivered, Absent
  <2>5. Polled'
    BY <1>23, <2>1, <2>2
      DEF InboxEvicts, Polled
  <2>6. SeenIsBorn'
    BY <1>23, <2>1, <2>2
      DEF InboxEvicts, SeenIsBorn
  <2>7. Filed'
    BY <1>23, <2>1, <2>2
      DEF InboxEvicts, Filed, Absent
  <2>8. AnswerStands'
    BY <1>23, <2>1, <2>2
      DEF InboxEvicts, AnswerStands
  <2>9. HeldIsFresh'
    BY <1>23, <2>1, <2>2
      DEF InboxEvicts, HeldIsFresh
  <2>10. SeenIsSettled'
    BY <1>23, <2>1, <2>2
      DEF InboxEvicts, SeenIsSettled, Absent
  <2>11. RecordedVerdict'
    BY <1>23, <2>1, <2>2
      DEF InboxEvicts, RecordedVerdict, Absent, IsTerminal
  <2>12. QED
    BY <2>3, <2>4, <2>5, <2>6, <2>7, <2>8, <2>9, <2>10, <2>11
<1>24. ASSUME NEW c \in Clips, ServerMoves(c) PROVE IInv'
  <2>1. ~IsTerminal(server[c]) /\ \A d \in Clips : d # c => server'[d] = server[d]
    BY <1>24 DEF ServerMoves, IsTerminal
  <2>2. Phases'
    BY <1>24, <2>1
      DEF ServerMoves, Phases
  <2>3. TaskIsDelivered'
    BY <1>24, <2>1
      DEF ServerMoves, TaskIsDelivered
  <2>4. Polled'
    BY <1>24, <2>1
      DEF ServerMoves, Polled
  <2>5. SeenIsBorn'
    BY <1>24, <2>1
      DEF ServerMoves, SeenIsBorn
  <2>6. Filed'
    BY <1>24, <2>1
      DEF ServerMoves, Filed
  <2>7. AnswerStands'
    BY <1>24, <2>1
      DEF ServerMoves, AnswerStands
  <2>8. HeldIsFresh'
    BY <1>24, <2>1
      DEF ServerMoves, HeldIsFresh
  <2>9. SeenIsSettled'
    BY <1>24, <2>1
      DEF ServerMoves, SeenIsSettled
  <2>10. RecordedVerdict'
    BY <1>24, <2>1
      DEF ServerMoves, RecordedVerdict
  <2>11. QED
    BY <2>2, <2>3, <2>4, <2>5, <2>6, <2>7, <2>8, <2>9, <2>10
<1>25. ASSUME NEW c \in Clips, Rot(c) PROVE IInv'
  <2>1. /\ \A d \in Clips : d # c => del'[d] = del[d]
        /\ del'[c] = [del[c] EXCEPT !.st = "corrupt"]
    BY <1>25 DEF Rot
  <2>2. /\ del'[c].st = "corrupt" /\ del'[c].task = del[c].task
        /\ del'[c].outcome = del[c].outcome /\ del'[c].status = del[c].status
    BY <1>25, <2>1 DEF Record
  <2>3. Phases'
    BY <1>25, <2>1, <2>2
      DEF Rot, Phases
  <2>4. TaskIsDelivered'
    BY <1>25, <2>1, <2>2
      DEF Rot, TaskIsDelivered
  <2>5. Polled'
    BY <1>25, <2>1, <2>2
      DEF Rot, Polled, Phases
  <2>6. SeenIsBorn'
    BY <1>25, <2>1, <2>2
      DEF Rot, SeenIsBorn
  <2>7. Filed'
    BY <1>25, <2>1, <2>2
      DEF Rot, Filed
  <2>8. AnswerStands'
    BY <1>25, <2>1, <2>2
      DEF Rot, AnswerStands
  <2>9. HeldIsFresh'
    BY <1>25, <2>1, <2>2
      DEF Rot, HeldIsFresh, Phases
  <2>10. SeenIsSettled'
    BY <1>25, <2>1, <2>2
      DEF Rot, SeenIsSettled
  <2>11. RecordedVerdict'
    BY <1>25, <2>1, <2>2
      DEF Rot, RecordedVerdict
  <2>12. QED
    BY <2>3, <2>4, <2>5, <2>6, <2>7, <2>8, <2>9, <2>10, <2>11
<1>26. CASE UNCHANGED vars
  BY <1>26
    DEF vars, Phases, TaskIsDelivered, Polled, SeenIsBorn, Filed, AnswerStands, HeldIsFresh,
        SeenIsSettled, RecordedVerdict
<1>27. QED
  BY <1>1, <1>2, <1>3, <1>4, <1>5, <1>6, <1>7, <1>8, <1>9, <1>10, <1>11, <1>12, <1>13,
    <1>14, <1>15, <1>16, <1>17, <1>18, <1>19, <1>20, <1>21, <1>22, <1>23, <1>24, <1>25, <1>26
    DEF Next, PollerNext, EnvNext

-----------------------------------------------------------------------------
\* The poller starts with empty directories and empty sets.
LEMMA InvInit == Init => IInv
<1> SUFFICES ASSUME Init PROVE IInv
  OBVIOUS
<1>1. TypeOK
  <2>1. del \in [Clips -> Record] /\ held \in [Clips -> Record]
    BY RecordTypes DEF Init
  <2>2. age \in [Clips -> 0 .. MaxAge]
    BY MaxAgeType DEF Init
  <2>3. server \in [Clips -> Statuses \cup {"none", "gone"}]
    BY DEF Init
  <2>4. QED
    BY <2>1, <2>2, <2>3 DEF Init, TypeOK
<1>2. Phases /\ Polled /\ SeenIsBorn /\ AnswerStands /\ HeldIsFresh /\ SeenIsSettled
  BY DEF Init, Phases, Polled, SeenIsBorn, AnswerStands, HeldIsFresh, SeenIsSettled
<1>3. \A c \in Clips : del[c] = Absent
  BY DEF Init
<1>4. TaskIsDelivered /\ Filed /\ RecordedVerdict
  BY <1>3 DEF TaskIsDelivered, Filed, RecordedVerdict, Absent, IsTerminal
<1>5. QED
  BY <1>1, <1>2, <1>4 DEF IInv

\* The inductive invariant holds in every reachable state.
THEOREM PollerInvariant == Spec => []IInv
BY InvInit, InvStep, PTL DEF Spec

\* Every variable of the poller stays in its type.
THEOREM PollerTypes == Spec => []TypeOK
<1>1. IInv => TypeOK
  BY DEF IInv
<1>2. QED
  BY <1>1, PollerInvariant, PTL

\* poll_one writes back exactly what delivered/ still holds, however long the
\* round trip took and whatever the runner, the inbox and the prune did then.
THEOREM WriteBackIsFresh == Spec => []HeldIsFresh
<1>1. IInv => HeldIsFresh
  BY DEF IInv
<1>2. QED
  BY <1>1, PollerInvariant, PTL

\* seen_terminal never hides a record that still needs polling.
THEOREM SkipSetIsSound == Spec => []SeenIsSettled
<1>1. IInv => SeenIsSettled
  BY DEF IInv
<1>2. QED
  BY <1>1, PollerInvariant, PTL

\* A verdict in a record is perchpub's verdict on that clip.
THEOREM VerdictIsPerchpubs == Spec => []RecordedVerdict
<1>1. IInv => RecordedVerdict
  BY DEF IInv
<1>2. QED
  BY <1>1, PollerInvariant, PTL

=============================================================================
