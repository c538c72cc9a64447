--------------------------- MODULE EnrollmentProofs ---------------------------
(***************************************************************************)
(* The invariants of Enrollment for every number of commands, stops, power *)
(* losses and failing calls.                                               *)
(*                                                                         *)
(* A power loss may bring back any state of the directories since the last *)
(* fsync, so what is claimed of credentials/ is claimed of every state in  *)
(* unsynced too (Sets, Lawful), and of the two places a set comes from:    *)
(* credentials.old/ and, once staged, credentials.tmp/ (Staged). Rotated   *)
(* says what save still owes while credentials/ is away.                   *)
(***************************************************************************)
EXTENDS Enrollment, TLAPS

\* The directory, if it is there, is a whole set that a power loss leaves alone.
Whole(d) == d.is => /\ d.ident /\ d.synced
                    /\ d.key # 0 /\ d.cert # 0 /\ d.ckey = d.key

Sets == \A s \in unsynced \cup {dirs} : Whole(s.creds) /\ Whole(s.old)

\* Files name keys that were generated and certificates that were received.
Numbered(d) == d.key <= keys /\ d.cert <= certs

Known ==
    /\ \A s \in unsynced \cup {dirs} : Numbered(s.creds) /\ Numbered(s.tmp) /\ Numbered(s.old)
    /\ client.cert <= certs /\ half.cert <= certs

\* Every key save may put in place was minted by a first enrollment or by --force.
Lawful ==
    ~gap => /\ \A s \in unsynced \cup {dirs} :
                 /\ s.creds.is => s.creds.key \in legit
                 /\ s.old.is => s.old.key \in legit
            /\ ekey # 0 => ekey \in legit

Staging == {"stageKey", "stageIdent", "syncTmp", "rotate", "promote"}
Saving  == {"sweepTmp", "sweepOld", "stageCert"} \cup Staging

\* What the command holds and what it has staged so far.
Staged ==
    /\ epc \in {"post"} \cup Saving => ekey # 0
    /\ epc \in Saving => ecert # 0
    /\ epc \in Staging => dirs.tmp.is /\ dirs.tmp.cert = ecert /\ dirs.tmp.ckey = ekey
    /\ epc \in Staging \ {"stageKey"} => dirs.tmp.key = ekey
    /\ epc \in {"syncTmp", "rotate", "promote"} => dirs.tmp.ident
    /\ epc \in {"rotate", "promote"} => dirs.tmp.synced

\* While credentials/ is rotated away the old set is there to be restored.
Rotated ==
    /\ epc = "promote" /\ existed => dirs.old.is
    /\ epc = "restore" => dirs.old.is
    /\ epc = "promote" /\ enrolled /\ ~gap => existed
    /\ epc = "syncParent" => dirs.creds.is

\* A fresh session has seen no more POSTs than this command made.
Counting ==
    /\ epc = "idle" => posts = 0
    /\ epc \in {"loadKey", "post"} => posts < MaxPosts
    /\ epc \in {"loadKey", "post"} /\ fresh => spent <= posts

\* The certificate build_inner has read is one.
HalfRead == bpc \in {"key", "build"} => half.cert # 0

IInv ==
    /\ TypeOK /\ Sets /\ Known /\ Lawful /\ Staged /\ Rotated /\ Counting /\ HalfRead
    /\ StaysEnrolled /\ FreshSessionSuffices /\ ClientCoherent

-----------------------------------------------------------------------------
USE DEF enroller, remote, serve, bounds, history

Dirs == [creds: Dir, tmp: Dir, old: Dir]

\* The directories save makes, file by file.
LEMMA DirTypes ==
    /\ NoDir \in Dir /\ ~NoDir.is /\ NoDir.key = 0 /\ NoDir.cert = 0
    /\ EmptyDir \in Dir /\ EmptyDir.is /\ EmptyDir.key = 0 /\ EmptyDir.cert = 0
    /\ ~EmptyDir.synced /\ Whole(NoDir)
<1>1. NoDir \in Dir /\ ~NoDir.is /\ NoDir.key = 0 /\ NoDir.cert = 0 /\ ~NoDir.synced
  BY DEF NoDir, Dir
<1>2. \A d \in Dir : LET e == [d EXCEPT !.is = TRUE]
                     IN  e \in Dir /\ e.is /\ e.key = d.key /\ e.cert = d.cert
                         /\ e.synced = d.synced
  BY DEF Dir
<1>3. QED
  BY <1>1, <1>2 DEF EmptyDir, Whole

\* What the command holds after it has returned.
LEMMA AfterExit ==
    Exit => /\ epc' = "idle" /\ ekey' = 0 /\ ecert' = 0 /\ posts' = 0 /\ ~existed'
            /\ force' \in BOOLEAN /\ existed' \in BOOLEAN /\ fresh' \in BOOLEAN
BY DEF Exit

\* Replacing one directory leaves the other two.
LEMMA Replace ==
    ASSUME NEW s \in Dirs, NEW d \in Dir
    PROVE  /\ LET t == [s EXCEPT !.tmp = d]
              IN  t \in Dirs /\ t.tmp = d /\ t.creds = s.creds /\ t.old = s.old
           /\ LET t == [s EXCEPT !.old = d]
              IN  t \in Dirs /\ t.old = d /\ t.creds = s.creds /\ t.tmp = s.tmp
BY DEF Dirs

\* The two renames and the restore.
LEMMA Rename ==
    ASSUME NEW s \in Dirs, NEW d \in Dir
    PROVE  /\ LET t == [s EXCEPT !.old = s.creds, !.creds = d]
              IN  t \in Dirs /\ t.old = s.creds /\ t.creds = d /\ t.tmp = s.tmp
           /\ LET t == [s EXCEPT !.creds = s.tmp, !.tmp = d]
              IN  t \in Dirs /\ t.creds = s.tmp /\ t.tmp = d /\ t.old = s.old
           /\ LET t == [s EXCEPT !.creds = s.old, !.old = d]
              IN  t \in Dirs /\ t.creds = s.old /\ t.old = d /\ t.tmp = s.tmp
BY DEF Dirs

\* Staging creates the directory with the certificate for the command's key ...
LEMMA StagedCert ==
    ASSUME NEW k \in Nat, NEW c \in Nat
    PROVE  LET d == [EmptyDir EXCEPT !.cert = c, !.ckey = k]
           IN  d \in Dir /\ d.is /\ d.cert = c /\ d.ckey = k /\ d.key = 0
<1>1. ASSUME NEW e \in Dir, e.is, e.key = 0
      PROVE  LET d == [e EXCEPT !.cert = c, !.ckey = k]
             IN  d \in Dir /\ d.is /\ d.cert = c /\ d.ckey = k /\ d.key = 0
  BY <1>1 DEF Dir
<1>2. QED
  BY <1>1, DirTypes

\* ... adds the key ...
LEMMA StagedKey ==
    ASSUME NEW s \in Dirs, NEW k \in Nat
    PROVE  LET t == [s EXCEPT !.tmp.key = k]
           IN  /\ t \in Dirs /\ t.creds = s.creds /\ t.old = s.old
               /\ t.tmp.is = s.tmp.is /\ t.tmp.cert = s.tmp.cert /\ t.tmp.ckey = s.tmp.ckey
               /\ t.tmp.key = k
BY DEF Dirs, Dir

\* ... and identity.json, and syncs the entries; each keeps what is there.
LEMMA StagedRest ==
    ASSUME NEW s \in Dirs
    PROVE  /\ LET t == [s EXCEPT !.tmp.ident = TRUE]
              IN  /\ t \in Dirs /\ t.creds = s.creds /\ t.old = s.old
                  /\ t.tmp.is = s.tmp.is /\ t.tmp.cert = s.tmp.cert /\ t.tmp.ckey = s.tmp.ckey
                  /\ t.tmp.key = s.tmp.key /\ t.tmp.ident
           /\ LET t == [s EXCEPT !.tmp.synced = TRUE]
              IN  /\ t \in Dirs /\ t.creds = s.creds /\ t.old = s.old
                  /\ t.tmp.is = s.tmp.is /\ t.tmp.cert = s.tmp.cert /\ t.tmp.ckey = s.tmp.ckey
                  /\ t.tmp.key = s.tmp.key /\ t.tmp.ident = s.tmp.ident /\ t.tmp.synced
BY DEF Dirs, Dir

\* A call of save that writes no unknown key or certificate.
LEMMA KnownKept ==
    ASSUME Known, keys' = keys, certs' = certs, client' = client, half' = half,
           unsynced' = unsynced \cup {dirs},
           dirs'.creds.key <= keys, dirs'.tmp.key <= keys, dirs'.old.key <= keys,
           dirs'.creds.cert <= certs, dirs'.tmp.cert <= certs, dirs'.old.cert <= certs
    PROVE  Known'
BY DEF Known, Numbered

-----------------------------------------------------------------------------
\* Every step of enroll, serve and the environment keeps the inductive invariant.
LEMMA InvStep == IInv /\ [Next]_vars => IInv'
<1> SUFFICES ASSUME IInv, [Next]_vars PROVE IInv'
  OBVIOUS
<1> USE EnrollmentConstants DEF IInv
<1>a. keys \in Nat /\ certs \in Nat /\ dirs \in Dirs
  BY DEF TypeOK, Dirs
<1>1. CASE Begin
  <2>1. TypeOK'
    BY <1>1
      DEF Begin, TypeOK, Dirs
  <2>2. Sets'
    BY <1>1
      DEF Begin, Sets
  <2>3. Known'
    BY <1>1
      DEF Begin, Known, Numbered
  <2>4. Lawful'
    BY <1>1
      DEF Begin, Lawful
  <2>5. Staged'
    BY <1>1
      DEF Begin, Staged, Saving, Staging
  <2>6. Rotated'
    BY <1>1
      DEF Begin, Rotated
  <2>7. Counting'
    BY <1>1
      DEF Begin, Counting, TypeOK
  <2>8. HalfRead'
    BY <1>1
      DEF Begin, HalfRead
  <2>9. StaysEnrolled'
    BY <1>1
      DEF Begin, StaysEnrolled
  <2>10. FreshSessionSuffices'
    BY <1>1
      DEF Begin, FreshSessionSuffices
  <2>11. ClientCoherent'
    BY <1>1
      DEF Begin, ClientCoherent
  <2>12. QED
    BY <2>1, <2>2, <2>3, <2>4, <2>5, <2>6, <2>7, <2>8, <2>9, <2>10, <2>11
<1>2. CASE ReuseKey
  <2>1. dirs.creds.is /\ dirs.creds.key \in 1 .. keys
    BY <1>2 DEF ReuseKey, Sets, Whole, Known, Numbered, TypeOK, Dir
  <2>2. TypeOK'
    BY <1>2, <2>1
      DEF ReuseKey, TypeOK, Dirs
  <2>3. Sets'
    BY <1>2, <2>1
      DEF ReuseKey, Sets
  <2>4. Known'
    BY <1>2, <2>1
      DEF ReuseKey, Known, TypeOK, Numbered
  <2>5. Lawful'
    BY <1>2, <2>1
      DEF ReuseKey, Lawful
  <2>6. Staged'
    BY <1>2, <2>1
      DEF ReuseKey, Staged, Saving, Staging
  <2>7. Rotated'
    BY <1>2, <2>1
      DEF ReuseKey, Rotated
  <2>8. Counting'
    BY <1>2, <2>1
      DEF ReuseKey, Counting
  <2>9. HalfRead'
    BY <1>2, <2>1
      DEF ReuseKey, HalfRead
  <2>10. StaysEnrolled'
    BY <1>2, <2>1
      DEF ReuseKey, StaysEnrolled
  <2>11. FreshSessionSuffices'
    BY <1>2, <2>1
      DEF ReuseKey, FreshSessionSuffices
  <2>12. ClientCoherent'
    BY <1>2, <2>1
      DEF ReuseKey, ClientCoherent
  <2>13. QED
    BY <2>2, <2>3, <2>4, <2>5, <2>6, <2>7, <2>8, <2>9, <2>10, <2>11, <2>12
<1>3. CASE MintKey
  <2>1. keys' = keys + 1 /\ keys \in Nat
    BY <1>3 DEF MintKey, TypeOK
  <2>2. TypeOK'
    BY <1>3, <2>1
      DEF MintKey, TypeOK, Dirs
  <2>3. Sets'
    BY <1>3, <2>1
      DEF MintKey, Sets
  <2>4. Known'
    BY <1>3, <2>1
      DEF MintKey, Known, TypeOK, Dir, Numbered
  <2>5. Lawful'
    BY <1>3, <2>1
      DEF MintKey, Lawful, TypeOK, StaysEnrolled
  <2>6. Staged'
    BY <1>3, <2>1
      DEF MintKey, Staged, Saving, Staging
  <2>7. Rotated'
    BY <1>3, <2>1
      DEF MintKey, Rotated
  <2>8. Counting'
    BY <1>3, <2>1
      DEF MintKey, Counting
  <2>9. HalfRead'
    BY <1>3, <2>1
      DEF MintKey, HalfRead
  <2>10. StaysEnrolled'
    BY <1>3, <2>1
      DEF MintKey, StaysEnrolled
  <2>11. FreshSessionSuffices'
    BY <1>3, <2>1
      DEF MintKey, FreshSessionSuffices
  <2>12. ClientCoherent'
    BY <1>3, <2>1
      DEF MintKey, ClientCoherent
  <2>13. QED
    BY <2>2, <2>3, <2>4, <2>5, <2>6, <2>7, <2>8, <2>9, <2>10, <2>11, <2>12
<1>4. CASE LoadKeyFails
  <2>1. TypeOK'
    BY <1>4, AfterExit
      DEF LoadKeyFails, Fault, TypeOK, Dirs
  <2>2. Sets'
    BY <1>4
      DEF LoadKeyFails, Fault, Exit, Sets
  <2>3. Known'
    BY <1>4
      DEF LoadKeyFails, Fault, Exit, Known, Numbered
  <2>4. Lawful'
    BY <1>4
      DEF LoadKeyFails, Fault, Exit, Lawful
  <2>5. Staged'
    BY <1>4
      DEF LoadKeyFails, Fault, Exit, Staged, Saving, Staging
  <2>6. Rotated'
    BY <1>4
      DEF LoadKeyFails, Fault, Exit, Rotated
  <2>7. Counting'
    BY <1>4
      DEF LoadKeyFails, Fault, Exit, Counting
  <2>8. HalfRead'
    BY <1>4
      DEF LoadKeyFails, Fault, Exit, HalfRead
  <2>9. StaysEnrolled'
    BY <1>4
      DEF LoadKeyFails, Fault, Exit, StaysEnrolled
  <2>10. FreshSessionSuffices'
    BY <1>4
      DEF LoadKeyFails, Fault, Exit, FreshSessionSuffices
  <2>11. ClientCoherent'
    BY <1>4
      DEF LoadKeyFails, Fault, Exit, ClientCoherent
  <2>12. QED
    BY <2>1, <2>2, <2>3, <2>4, <2>5, <2>6, <2>7, <2>8, <2>9, <2>10, <2>11
<1>5. CASE PostAccepted
  <2>1. certs' = certs + 1 /\ certs \in Nat
    BY <1>5 DEF PostAccepted, TypeOK
  <2>2. TypeOK'
    BY <1>5, <2>1
      DEF PostAccepted, TypeOK, Dirs
  <2>3. Sets'
    BY <1>5, <2>1
      DEF PostAccepted, Sets
  <2>4. Known'
    BY <1>5, <2>1
      DEF PostAccepted, Known, TypeOK, Dir, Client, Numbered
  <2>5. Lawful'
    BY <1>5, <2>1
      DEF PostAccepted, Lawful
  <2>6. Staged'
    BY <1>5, <2>1
      DEF PostAccepted, Staged, Saving, Staging
  <2>7. Rotated'
    BY <1>5, <2>1
      DEF PostAccepted, Rotated
  <2>8. Counting'
    BY <1>5, <2>1
      DEF PostAccepted, Counting
  <2>9. HalfRead'
    BY <1>5, <2>1
      DEF PostAccepted, HalfRead
  <2>10. StaysEnrolled'
    BY <1>5, <2>1
      DEF PostAccepted, StaysEnrolled
  <2>11. FreshSessionSuffices'
    BY <1>5, <2>1
      DEF PostAccepted, FreshSessionSuffices
  <2>12. ClientCoherent'
    BY <1>5, <2>1
      DEF PostAccepted, ClientCoherent
  <2>13. QED
    BY <2>2, <2>3, <2>4, <2>5, <2>6, <2>7, <2>8, <2>9, <2>10, <2>11, <2>12
<1>6. CASE PostTransient
  <2>1. TypeOK'
    BY <1>6, AfterExit
      DEF PostTransient, Counted, Retry, TypeOK, Dirs
  <2>2. Sets'
    BY <1>6
      DEF PostTransient, Counted, Retry, Exit, Sets
  <2>3. Known'
    BY <1>6
      DEF PostTransient, Counted, Retry, Exit, Known, Numbered
  <2>4. Lawful'
    BY <1>6
      DEF PostTransient, Counted, Retry, Exit, Lawful
  <2>5. Staged'
    BY <1>6
      DEF PostTransient, Counted, Retry, Exit, Staged, Saving, Staging
  <2>6. Rotated'
    BY <1>6
      DEF PostTransient, Counted, Retry, Exit, Rotated
  <2>7. Counting'
    BY <1>6
      DEF PostTransient, Counted, Retry, Exit, Counting, TypeOK
  <2>8. HalfRead'
    BY <1>6
      DEF PostTransient, Counted, Retry, Exit, HalfRead
  <2>9. StaysEnrolled'
    BY <1>6
      DEF PostTransient, Counted, Retry, Exit, StaysEnrolled
  <2>10. FreshSessionSuffices'
    BY <1>6
      DEF PostTransient, Counted, Retry, Exit, FreshSessionSuffices
  <2>11. ClientCoherent'
    BY <1>6
      DEF PostTransient, Counted, Retry, Exit, ClientCoherent
  <2>12. QED
    BY <2>1, <2>2, <2>3, <2>4, <2>5, <2>6, <2>7, <2>8, <2>9, <2>10, <2>11
<1>7. CASE PostTerminal
  <2>1. TypeOK'
    BY <1>7, AfterExit
      DEF PostTerminal, Counted, TypeOK, Dirs
  <2>2. Sets'
    BY <1>7
      DEF PostTerminal, Counted, Exit, Sets
  <2>3. Known'
    BY <1>7
      DEF PostTerminal, Counted, Exit, Known, Numbered
  <2>4. Lawful'
    BY <1>7
      DEF PostTerminal, Counted, Exit, Lawful
  <2>5. Staged'
    BY <1>7
      DEF PostTerminal, Counted, Exit, Staged, Saving, Staging
  <2>6. Rotated'
    BY <1>7
      DEF PostTerminal, Counted, Exit, Rotated
  <2>7. Counting'
    BY <1>7
      DEF PostTerminal, Counted, Exit, Counting
  <2>8. HalfRead'
    BY <1>7
      DEF PostTerminal, Counted, Exit, HalfRead
  <2>9. StaysEnrolled'
    BY <1>7
      DEF PostTerminal, Counted, Exit, StaysEnrolled
  <2>10. FreshSessionSuffices'
    BY <1>7
      DEF PostTerminal, Counted, Exit, FreshSessionSuffices
  <2>11. ClientCoherent'
    BY <1>7
      DEF PostTerminal, Counted, Exit, ClientCoherent
  <2>12. QED
    BY <2>1, <2>2, <2>3, <2>4, <2>5, <2>6, <2>7, <2>8, <2>9, <2>10, <2>11
<1>8. CASE SessionInvalid
  <2>1. TypeOK'
    BY <1>8, AfterExit
      DEF SessionInvalid, TypeOK, Dirs
  <2>2. Sets'
    BY <1>8
      DEF SessionInvalid, Exit, Sets
  <2>3. Known'
    BY <1>8
      DEF SessionInvalid, Exit, Known, Numbered
  <2>4. Lawful'
    BY <1>8
      DEF SessionInvalid, Exit, Lawful
  <2>5. Staged'
    BY <1>8
      DEF SessionInvalid, Exit, Staged, Saving, Staging
  <2>6. Rotated'
    BY <1>8
      DEF SessionInvalid, Exit, Rotated
  <2>7. Counting'
    BY <1>8
      DEF SessionInvalid, Exit, Counting
  <2>8. HalfRead'
    BY <1>8
      DEF SessionInvalid, Exit, HalfRead
  <2>9. StaysEnrolled'
    BY <1>8
      DEF SessionInvalid, Exit, StaysEnrolled
  <2>10. FreshSessionSuffices'
    BY <1>8, PostsFitSession
      DEF SessionInvalid, Exit, FreshSessionSuffices, Counting, TypeOK
  <2>11. ClientCoherent'
    BY <1>8
      DEF SessionInvalid, Exit, ClientCoherent
  <2>12. QED
    BY <2>1, <2>2, <2>3, <2>4, <2>5, <2>6, <2>7, <2>8, <2>9, <2>10, <2>11
<1>9. CASE SweepTmp
  <2>1. dirs' \in Dirs /\ dirs \in Dirs /\ unsynced' = unsynced \cup {dirs}
        /\ dirs'.creds = dirs.creds /\ dirs'.tmp = NoDir /\ dirs'.old = dirs.old
    BY <1>9, DirTypes, Replace
      DEF SweepTmp, Change, TypeOK, Dirs
  <2>2. TypeOK'
    BY <1>9, <2>1
      DEF SweepTmp, Change, TypeOK, Dirs
  <2>3. Sets'
    BY <1>9, <2>1, DirTypes
      DEF SweepTmp, Change, Sets
  <2>4. Known'
    <3>1. dirs.creds.key <= keys /\ dirs.tmp.key <= keys /\ dirs.old.key <= keys
          /\ dirs.creds.cert <= certs /\ dirs.tmp.cert <= certs /\ dirs.old.cert <= certs
      BY DEF Known, Numbered
    <3>2. keys' = keys /\ certs' = certs /\ client' = client /\ half' = half
      BY <1>9 DEF SweepTmp, Change
    <3>3. 0 <= keys /\ 0 <= certs
      BY <1>a
    <3>4. QED
      BY <2>1, <3>1, <3>2, <3>3, DirTypes, KnownKept
  <2>5. Lawful'
    BY <1>9, <2>1, DirTypes
      DEF SweepTmp, Change, Lawful
  <2>6. Staged'
    BY <1>9, <2>1
      DEF SweepTmp, Change, Staged, Saving, Staging
  <2>7. Rotated'
    BY <1>9, <2>1
      DEF SweepTmp, Change, Rotated
  <2>8. Counting'
    BY <1>9, <2>1
      DEF SweepTmp, Change, Counting
  <2>9. HalfRead'
    BY <1>9, <2>1
      DEF SweepTmp, Change, HalfRead
  <2>10. StaysEnrolled'
    BY <1>9, <2>1
      DEF SweepTmp, Change, StaysEnrolled
  <2>11. FreshSessionSuffices'
    BY <1>9, <2>1
      DEF SweepTmp, Change, FreshSessionSuffices
  <2>12. ClientCoherent'
    BY <1>9, <2>1
      DEF SweepTmp, Change, ClientCoherent
  <2>13. QED
    BY <2>2, <2>3, <2>4, <2>5, <2>6, <2>7, <2>8, <2>9, <2>10, <2>11, <2>12
<1>10. CASE SweepOld
  <2>1. dirs' \in Dirs /\ dirs \in Dirs /\ unsynced' = unsynced \cup {dirs}
        /\ dirs'.creds = dirs.creds /\ dirs'.tmp = dirs.tmp /\ dirs'.old = NoDir
    BY <1>10, DirTypes, Replace
      DEF SweepOld, Change, TypeOK, Dirs
  <2>2. TypeOK'
    BY <1>10, <2>1
      DEF SweepOld, Change, TypeOK, Dirs
  <2>3. Sets'
    BY <1>10, <2>1, DirTypes
      DEF SweepOld, Change, Sets
  <2>4. Known'
    <3>1. dirs.creds.key <= keys /\ dirs.tmp.key <= keys /\ dirs.old.key <= keys
          /\ dirs.creds.cert <= certs /\ dirs.tmp.cert <= certs /\ dirs.old.cert <= certs
      BY DEF Known, Numbered
    <3>2. keys' = keys /\ certs' = certs /\ client' = client /\ half' = half
      BY <1>10 DEF SweepOld, Change
    <3>3. 0 <= keys /\ 0 <= certs
      BY <1>a
    <3>4. QED
      BY <2>1, <3>1, <3>2, <3>3, DirTypes, KnownKept
  <2>5. Lawful'
    BY <1>10, <2>1, DirTypes
      DEF SweepOld, Change, Lawful
  <2>6. Staged'
    BY <1>10, <2>1
      DEF SweepOld, Change, Staged, Saving, Staging
  <2>7. Rotated'
    BY <1>10, <2>1
      DEF SweepOld, Change, Rotated
  <2>8. Counting'
    BY <1>10, <2>1
      DEF SweepOld, Change, Counting
  <2>9. HalfRead'
    BY <1>10, <2>1
      DEF SweepOld, Change, HalfRead
  <2>10. StaysEnrolled'
    BY <1>10, <2>1
      DEF SweepOld, Change, StaysEnrolled
  <2>11. FreshSessionSuffices'
    BY <1>10, <2>1
      DEF SweepOld, Change, FreshSessionSuffices
  <2>12. ClientCoherent'
    BY <1>10, <2>1
      DEF SweepOld, Change, ClientCoherent
  <2>13. QED
    BY <2>2, <2>3, <2>4, <2>5, <2>6, <2>7, <2>8, <2>9, <2>10, <2>11, <2>12
<1>11. CASE StageCert
  <2>1. ekey \in Nat /\ ecert \in Nat /\ ekey <= keys /\ ecert <= certs
    BY <1>11 DEF TypeOK
  <2>2. LET d == [EmptyDir EXCEPT !.cert = ecert, !.ckey = ekey]
        IN  d \in Dir /\ d.is /\ d.cert = ecert /\ d.ckey = ekey /\ d.key = 0
    BY <1>11, <2>1, StagedCert
  <2>3. dirs' \in Dirs /\ dirs \in Dirs /\ unsynced' = unsynced \cup {dirs}
        /\ dirs'.creds = dirs.creds /\ dirs'.old = dirs.old
        /\ dirs'.tmp.is /\ dirs'.tmp.cert = ecert /\ dirs'.tmp.ckey = ekey /\ dirs'.tmp.key = 0
    BY <1>11, <2>1, <2>2, Replace
      DEF StageCert, Change, TypeOK, Dirs
  <2>4. TypeOK'
    BY <1>11, <2>1, <2>2, <2>3
      DEF StageCert, Change, TypeOK, Dirs
  <2>5. Sets'
    BY <1>11, <2>1, <2>2, <2>3
      DEF StageCert, Change, Sets
  <2>6. Known'
    <3>1. dirs.creds.key <= keys /\ dirs.tmp.key <= keys /\ dirs.old.key <= keys
          /\ dirs.creds.cert <= certs /\ dirs.tmp.cert <= certs /\ dirs.old.cert <= certs
      BY DEF Known, Numbered
    <3>2. keys' = keys /\ certs' = certs /\ client' = client /\ half' = half
      BY <1>11 DEF StageCert, Change
    <3>3. 0 <= keys /\ 0 <= certs
      BY <1>a
    <3>4. QED
      BY <2>1, <2>3, <3>1, <3>2, <3>3, DirTypes, KnownKept
  <2>7. Lawful'
    BY <1>11, <2>1, <2>2, <2>3
      DEF StageCert, Change, Lawful
  <2>8. Staged'
    BY <1>11, <2>1, <2>2, <2>3
      DEF StageCert, Change, Staged, Saving, Staging
  <2>9. Rotated'
    BY <1>11, <2>1, <2>2, <2>3
      DEF StageCert, Change, Rotated
  <2>10. Counting'
    BY <1>11, <2>1, <2>2, <2>3
      DEF StageCert, Change, Counting
  <2>11. HalfRead'
    BY <1>11, <2>1, <2>2, <2>3
      DEF StageCert, Change, HalfRead
  <2>12. StaysEnrolled'
    BY <1>11, <2>1, <2>2, <2>3
      DEF StageCert, Change, StaysEnrolled
  <2>13. FreshSessionSuffices'
    BY <1>11, <2>1, <2>2, <2>3
      DEF StageCert, Change, FreshSessionSuffices
  <2>14. ClientCoherent'
    BY <1>11, <2>1, <2>2, <2>3
      DEF StageCert, Change, ClientCoherent
  <2>15. QED
    BY <2>4, <2>5, <2>6, <2>7, <2>8, <2>9, <2>10, <2>11, <2>12, <2>13, <2>14
<1>12. CASE StageKey
  <2>1. ekey \in Nat /\ ecert \in Nat /\ ekey <= keys /\ ecert <= certs
    BY <1>12 DEF TypeOK
  <2>2. dirs' \in Dirs /\ dirs \in Dirs /\ unsynced' = unsynced \cup {dirs}
        /\ dirs'.creds = dirs.creds /\ dirs'.old = dirs.old
        /\ dirs'.tmp.is = dirs.tmp.is /\ dirs'.tmp.cert = dirs.tmp.cert
        /\ dirs'.tmp.ckey = dirs.tmp.ckey 
        /\ dirs'.tmp.key = ekey
    BY <1>12, <1>a, <2>1, StagedKey
      DEF StageKey, Change
  <2>3. TypeOK'
    BY <1>12, <2>1, <2>2
      DEF StageKey, Change, TypeOK, Dirs
  <2>4. Sets'
    BY <1>12, <2>1, <2>2
      DEF StageKey, Change, Sets
  <2>5. Known'
    <3>1. dirs.creds.key <= keys /\ dirs.tmp.key <= keys /\ dirs.old.key <= keys
          /\ dirs.creds.cert <= certs /\ dirs.tmp.cert <= certs /\ dirs.old.cert <= certs
      BY DEF Known, Numbered
    <3>2. keys' = keys /\ certs' = certs /\ client' = client /\ half' = half
      BY <1>12 DEF StageKey, Change
    <3>3. 0 <= keys /\ 0 <= certs
      BY <1>a
    <3>4. QED
      BY <2>1, <2>2, <3>1, <3>2, <3>3, DirTypes, KnownKept
  <2>6. Lawful'
    BY <1>12, <2>1, <2>2
      DEF StageKey, Change, Lawful
  <2>7. Staged'
    BY <1>12, <2>1, <2>2
      DEF StageKey, Change, Staged, Saving, Staging
  <2>8. Rotated'
    BY <1>12, <2>1, <2>2
      DEF StageKey, Change, Rotated
  <2>9. Counting'
    BY <1>12, <2>1, <2>2
      DEF StageKey, Change, Counting
  <2>10. HalfRead'
    BY <1>12, <2>1, <2>2
      DEF StageKey, Change, HalfRead
  <2>11. StaysEnrolled'
    BY <1>12, <2>1, <2>2
      DEF StageKey, Change, StaysEnrolled
  <2>12. FreshSessionSuffices'
    BY <1>12, <2>1, <2>2
      DEF StageKey, Change, FreshSessionSuffices
  <2>13. ClientCoherent'
    BY <1>12, <2>1, <2>2
      DEF StageKey, Change, ClientCoherent
  <2>14. QED
    BY <2>3, <2>4, <2>5, <2>6, <2>7, <2>8, <2>9, <2>10, <2>11, <2>12, <2>13
<1>13. CASE StageIdent
  <2>1. ekey \in Nat /\ ecert \in Nat /\ ekey <= keys /\ ecert <= certs
    BY <1>13 DEF TypeOK
  <2>2. dirs' \in Dirs /\ dirs \in Dirs /\ unsynced' = unsynced \cup {dirs}
        /\ dirs'.creds = dirs.creds /\ dirs'.old = dirs.old
        /\ dirs'.tmp.is = dirs.tmp.is /\ dirs'.tmp.cert = dirs.tmp.cert
        /\ dirs'.tmp.ckey = dirs.tmp.ckey 
        /\ dirs'.tmp.key = dirs.tmp.key /\ dirs'.tmp.ident
    BY <1>13, <1>a, <2>1, StagedRest
      DEF StageIdent, Change
  <2>3. TypeOK'
    BY <1>13, <2>1, <2>2
      DEF StageIdent, Change, TypeOK, Dirs
  <2>4. Sets'
    BY <1>13, <2>1, <2>2
      DEF StageIdent, Change, Sets
  <2>5. Known'
    <3>1. dirs.creds.key <= keys /\ dirs.tmp.key <= keys /\ dirs.old.key <= keys
          /\ dirs.creds.cert <= certs /\ dirs.tmp.cert <= certs /\ dirs.old.cert <= certs
      BY DEF Known, Numbered
    <3>2. keys' = keys /\ certs' = certs /\ client' = client /\ half' = half
      BY <1>13 DEF StageIdent, Change
    <3>3. 0 <= keys /\ 0 <= certs
      BY <1>a
    <3>4. QED
      BY <2>1, <2>2, <3>1, <3>2, <3>3, DirTypes, KnownKept
  <2>6. Lawful'
    BY <1>13, <2>1, <2>2
      DEF StageIdent, Change, Lawful
  <2>7. Staged'
    BY <1>13, <2>1, <2>2
      DEF StageIdent, Change, Staged, Saving, Staging
  <2>8. Rotated'
    BY <1>13, <2>1, <2>2
      DEF StageIdent, Change, Rotated
  <2>9. Counting'
    BY <1>13, <2>1, <2>2
      DEF StageIdent, Change, Counting
  <2>10. HalfRead'
    BY <1>13, <2>1, <2>2
      DEF StageIdent, Change, HalfRead
  <2>11. StaysEnrolled'
    BY <1>13, <2>1, <2>2
      DEF StageIdent, Change, StaysEnrolled
  <2>12. FreshSessionSuffices'
    BY <1>13, <2>1, <2>2
      DEF StageIdent, Change, FreshSessionSuffices
  <2>13. ClientCoherent'
    BY <1>13, <2>1, <2>2
      DEF StageIdent, Change, ClientCoherent
  <2>14. QED
    BY <2>3, <2>4, <2>5, <2>6, <2>7, <2>8, <2>9, <2>10, <2>11, <2>12, <2>13
<1>14. CASE SyncStaging
  <2>1. ekey \in Nat /\ ecert \in Nat /\ ekey <= keys /\ ecert <= certs
    BY <1>14 DEF TypeOK
  <2>2. dirs' \in Dirs /\ dirs \in Dirs /\ unsynced' = unsynced \cup {dirs}
        /\ dirs'.creds = dirs.creds /\ dirs'.old = dirs.old
        /\ dirs'.tmp.is = dirs.tmp.is /\ dirs'.tmp.cert = dirs.tmp.cert
        /\ dirs'.tmp.ckey = dirs.tmp.ckey 
        /\ dirs'.tmp.key = dirs.tmp.key /\ dirs'.tmp.ident = dirs.tmp.ident /\ dirs'.tmp.synced
    BY <1>14, <1>a, <2>1, StagedRest
      DEF SyncStaging, Change
  <2>3. TypeOK'
    BY <1>14, <2>1, <2>2
      DEF SyncStaging, Change, TypeOK, Dirs
  <2>4. Sets'
    BY <1>14, <2>1, <2>2
      DEF SyncStaging, Change, Sets
  <2>5. Known'
    <3>1. dirs.creds.key <= keys /\ dirs.tmp.key <= keys /\ dirs.old.key <= keys
          /\ dirs.creds.cert <= certs /\ dirs.tmp.cert <= certs /\ dirs.old.cert <= certs
      BY DEF Known, Numbered
    <3>2. keys' = keys /\ certs' = certs /\ client' = client /\ half' = half
      BY <1>14 DEF SyncStaging, Change
    <3>3. 0 <= keys /\ 0 <= certs
      BY <1>a
    <3>4. QED
      BY <2>1, <2>2, <3>1, <3>2, <3>3, DirTypes, KnownKept
  <2>6. Lawful'
    BY <1>14, <2>1, <2>2
      DEF SyncStaging, Change, Lawful
  <2>7. Staged'
    BY <1>14, <2>1, <2>2
      DEF SyncStaging, Change, Staged, Saving, Staging
  <2>8. Rotated'
    BY <1>14, <2>1, <2>2
      DEF SyncStaging, Change, Rotated
  <2>9. Counting'
    BY <1>14, <2>1, <2>2
      DEF SyncStaging, Change, Counting
  <2>10. HalfRead'
    BY <1>14, <2>1, <2>2
      DEF SyncStaging, Change, HalfRead
  <2>11. StaysEnrolled'
    BY <1>14, <2>1, <2>2
      DEF SyncStaging, Change, StaysEnrolled
  <2>12. FreshSessionSuffices'
    BY <1>14, <2>1, <2>2
      DEF SyncStaging, Change, FreshSessionSuffices
  <2>13. ClientCoherent'
    BY <1>14, <2>1, <2>2
      DEF SyncStaging, Change, ClientCoherent
  <2>14. QED
    BY <2>3, <2>4, <2>5, <2>6, <2>7, <2>8, <2>9, <2>10, <2>11, <2>12, <2>13
<1>15. CASE Promote
  <2>1. dirs' \in Dirs /\ dirs \in Dirs /\ unsynced' = unsynced \cup {dirs}
        /\ dirs'.creds = dirs.tmp /\ dirs'.tmp = NoDir /\ dirs'.old = dirs.old
    BY <1>15, DirTypes, Rename
      DEF Promote, Change, TypeOK, Dirs
  <2>2. dirs.tmp.is /\ Whole(dirs.tmp) /\ dirs.tmp.key = ekey /\ ekey # 0
    BY <1>15 DEF Promote, Change, Staged, Saving, Staging, Whole
  <2>3. TypeOK'
    BY <1>15, <2>1, <2>2
      DEF Promote, Change, TypeOK, Dirs
  <2>4. Sets'
    BY <1>15, <2>1, <2>2
      DEF Promote, Change, Sets
  <2>5. Known'
    <3>1. dirs.creds.key <= keys /\ dirs.tmp.key <= keys /\ dirs.old.key <= keys
          /\ dirs.creds.cert <= certs /\ dirs.tmp.cert <= certs /\ dirs.old.cert <= certs
      BY DEF Known, Numbered
    <3>2. keys' = keys /\ certs' = certs /\ client' = client /\ half' = half
      BY <1>15 DEF Promote, Change
    <3>3. 0 <= keys /\ 0 <= certs
      BY <1>a
    <3>4. QED
      BY <2>1, <2>2, <3>1, <3>2, <3>3, DirTypes, KnownKept
  <2>6. Lawful'
    BY <1>15, <2>1, <2>2
      DEF Promote, Change, Lawful
  <2>7. Staged'
    BY <1>15, <2>1, <2>2
      DEF Promote, Change, Staged, Saving, Staging
  <2>8. Rotated'
    BY <1>15, <2>1, <2>2
      DEF Promote, Change, Rotated
  <2>9. Counting'
    BY <1>15, <2>1, <2>2
      DEF Promote, Change, Counting
  <2>10. HalfRead'
    BY <1>15, <2>1, <2>2
      DEF Promote, Change, HalfRead
  <2>11. StaysEnrolled'
    BY <1>15, <2>1, <2>2
      DEF Promote, Change, StaysEnrolled
  <2>12. FreshSessionSuffices'
    BY <1>15, <2>1, <2>2
      DEF Promote, Change, FreshSessionSuffices
  <2>13. ClientCoherent'
    BY <1>15, <2>1, <2>2
      DEF Promote, Change, ClientCoherent
  <2>14. QED
    BY <2>3, <2>4, <2>5, <2>6, <2>7, <2>8, <2>9, <2>10, <2>11, <2>12, <2>13
<1>16. CASE Rotate
  <2>1. existed' = dirs.creds.is
    BY <1>16 DEF Rotate
  <2>2. dirs.creds.is => /\ dirs' \in Dirs /\ unsynced' = unsynced \cup {dirs}
                         /\ dirs'.creds = NoDir /\ dirs'.tmp = dirs.tmp /\ dirs'.old = dirs.creds
    BY <1>16, <1>a, DirTypes DEF Rotate, Dirs
  <2>3. ~dirs.creds.is => dirs' = dirs /\ unsynced' = unsynced
    BY <1>16 DEF Rotate
  <2>4. existed' \in BOOLEAN
    BY <1>16, <1>a DEF Rotate, Dirs, Dir
  <2>5. TypeOK'
    BY <1>16, <2>1, <2>2, <2>3, <2>4
      DEF Rotate, TypeOK, Dirs
  <2>6. Sets'
    BY <1>16, <2>1, <2>2, <2>3, <2>4, DirTypes
      DEF Rotate, Sets
  <2>7. Known'
    BY <1>16, <2>1, <2>2, <2>3, <2>4, DirTypes, <1>a
      DEF Rotate, Known, Numbered
  <2>8. Lawful'
    BY <1>16, <2>1, <2>2, <2>3, <2>4, DirTypes
      DEF Rotate, Lawful
  <2>9. Staged'
    BY <1>16, <2>1, <2>2, <2>3, <2>4
      DEF Rotate, Staged, Saving, Staging
  <2>10. Rotated'
    BY <1>16, <2>1, <2>2, <2>3, <2>4
      DEF Rotate, Rotated, StaysEnrolled
  <2>11. Counting'
    BY <1>16, <2>1, <2>2, <2>3, <2>4
      DEF Rotate, Counting
  <2>12. HalfRead'
    BY <1>16, <2>1, <2>2, <2>3, <2>4
      DEF Rotate, HalfRead
  <2>13. StaysEnrolled'
    BY <1>16, <2>1, <2>2, <2>3, <2>4
      DEF Rotate, StaysEnrolled
  <2>14. FreshSessionSuffices'
    BY <1>16, <2>1, <2>2, <2>3, <2>4
      DEF Rotate, FreshSessionSuffices
  <2>15. ClientCoherent'
    BY <1>16, <2>1, <2>2, <2>3, <2>4
      DEF Rotate, ClientCoherent
  <2>16. QED
    BY <2>5, <2>6, <2>7, <2>8, <2>9, <2>10, <2>11, <2>12, <2>13, <2>14, <2>15
<1>17. CASE PromoteFails
  <2>1. TypeOK'
    BY <1>17, AfterExit
      DEF PromoteFails, Fault, TypeOK, Dirs
  <2>2. Sets'
    BY <1>17
      DEF PromoteFails, Fault, Exit, Sets
  <2>3. Known'
    BY <1>17
      DEF PromoteFails, Fault, Exit, Known, Numbered
  <2>4. Lawful'
    BY <1>17
      DEF PromoteFails, Fault, Exit, Lawful
  <2>5. Staged'
    BY <1>17
      DEF PromoteFails, Fault, Exit, Staged, Saving, Staging
  <2>6. Rotated'
    BY <1>17
      DEF PromoteFails, Fault, Exit, Rotated
  <2>7. Counting'
    BY <1>17
      DEF PromoteFails, Fault, Exit, Counting
  <2>8. HalfRead'
    BY <1>17
      DEF PromoteFails, Fault, Exit, HalfRead
  <2>9. StaysEnrolled'
    BY <1>17
      DEF PromoteFails, Fault, Exit, StaysEnrolled, Rotated
  <2>10. FreshSessionSuffices'
    BY <1>17
      DEF PromoteFails, Fault, Exit, FreshSessionSuffices
  <2>11. ClientCoherent'
    BY <1>17
      DEF PromoteFails, Fault, Exit, ClientCoherent
  <2>12. QED
    BY <2>1, <2>2, <2>3, <2>4, <2>5, <2>6, <2>7, <2>8, <2>9, <2>10, <2>11
<1>18. CASE Restore
  <2>1. dirs' \in Dirs /\ dirs \in Dirs /\ unsynced' = unsynced \cup {dirs}
        /\ dirs'.creds = dirs.old /\ dirs'.old = NoDir /\ dirs'.tmp = dirs.tmp
    BY <1>18, <1>a, DirTypes, Rename DEF Restore
  <2>2. TypeOK'
    BY <1>18, <2>1, AfterExit
      DEF Restore, TypeOK, Dirs
  <2>3. Sets'
    BY <1>18, <2>1, DirTypes
      DEF Restore, Exit, Sets
  <2>4. Known'
    <3>1. dirs.creds.key <= keys /\ dirs.tmp.key <= keys /\ dirs.old.key <= keys
          /\ dirs.creds.cert <= certs /\ dirs.tmp.cert <= certs /\ dirs.old.cert <= certs
      BY DEF Known, Numbered
    <3>2. keys' = keys /\ certs' = certs /\ client' = client /\ half' = half
      BY <1>18 DEF Restore
    <3>3. 0 <= keys /\ 0 <= certs
      BY <1>a
    <3>4. QED
      BY <2>1, <3>1, <3>2, <3>3, DirTypes, KnownKept
  <2>5. Lawful'
    BY <1>18, <2>1, DirTypes
      DEF Restore, Exit, Lawful
  <2>6. Staged'
    BY <1>18, <2>1
      DEF Restore, Exit, Staged, Saving, Staging
  <2>7. Rotated'
    BY <1>18, <2>1
      DEF Restore, Exit, Rotated
  <2>8. Counting'
    BY <1>18, <2>1
      DEF Restore, Exit, Counting
  <2>9. HalfRead'
    BY <1>18, <2>1
      DEF Restore, Exit, HalfRead
  <2>10. StaysEnrolled'
    BY <1>18, <2>1
      DEF Restore, Exit, StaysEnrolled, Rotated
  <2>11. FreshSessionSuffices'
    BY <1>18, <2>1
      DEF Restore, Exit, FreshSessionSuffices
  <2>12. ClientCoherent'
    BY <1>18, <2>1
      DEF Restore, Exit, ClientCoherent
  <2>13. QED
    BY <2>2, <2>3, <2>4, <2>5, <2>6, <2>7, <2>8, <2>9, <2>10, <2>11, <2>12
<1>19. CASE RestoreFails
  <2>1. TypeOK'
    BY <1>19, AfterExit
      DEF RestoreFails, TypeOK, Dirs
  <2>2. Sets'
    BY <1>19
      DEF RestoreFails, Exit, Sets
  <2>3. Known'
    BY <1>19
      DEF RestoreFails, Exit, Known, Numbered
  <2>4. Lawful'
    BY <1>19
      DEF RestoreFails, Exit, Lawful
  <2>5. Staged'
    BY <1>19
      DEF RestoreFails, Exit, Staged, Saving, Staging
  <2>6. Rotated'
    BY <1>19
      DEF RestoreFails, Exit, Rotated
  <2>7. Counting'
    BY <1>19
      DEF RestoreFails, Exit, Counting
  <2>8. HalfRead'
    BY <1>19
      DEF RestoreFails, Exit, HalfRead
  <2>9. StaysEnrolled'
    BY <1>19
      DEF RestoreFails, Exit, StaysEnrolled
  <2>10. FreshSessionSuffices'
    BY <1>19
      DEF RestoreFails, Exit, FreshSessionSuffices
  <2>11. ClientCoherent'
    BY <1>19
      DEF RestoreFails, Exit, ClientCoherent
  <2>12. QED
    BY <2>1, <2>2, <2>3, <2>4, <2>5, <2>6, <2>7, <2>8, <2>9, <2>10, <2>11
<1>20. CASE SyncParent
  <2>1. TypeOK'
    BY <1>20
      DEF SyncParent, TypeOK, Dirs
  <2>2. Sets'
    BY <1>20
      DEF SyncParent, Sets
  <2>3. Known'
    BY <1>20
      DEF SyncParent, Known, Numbered
  <2>4. Lawful'
    BY <1>20
      DEF SyncParent, Lawful
  <2>5. Staged'
    BY <1>20
      DEF SyncParent, Staged, Saving, Staging
  <2>6. Rotated'
    BY <1>20
      DEF SyncParent, Rotated
  <2>7. Counting'
    BY <1>20
      DEF SyncParent, Counting
  <2>8. HalfRead'
    BY <1>20
      DEF SyncParent, HalfRead
  <2>9. StaysEnrolled'
    BY <1>20
      DEF SyncParent, StaysEnrolled, Rotated
  <2>10. FreshSessionSuffices'
    BY <1>20
      DEF SyncParent, FreshSessionSuffices
  <2>11. ClientCoherent'
    BY <1>20
      DEF SyncParent, ClientCoherent
  <2>12. QED
    BY <2>1, <2>2, <2>3, <2>4, <2>5, <2>6, <2>7, <2>8, <2>9, <2>10, <2>11
<1>21. CASE DropOld
  <2>1. /\ dirs' \in Dirs /\ unsynced' = unsynced \cup {dirs}
        /\ dirs'.creds = dirs.creds /\ dirs'.tmp = dirs.tmp /\ dirs'.old \in {dirs.old, NoDir}
    BY <1>21, <1>a, DirTypes, Replace DEF DropOld
  <2>2. TypeOK'
    BY <1>21, <2>1, AfterExit
      DEF DropOld, TypeOK, Dirs
  <2>3. Sets'
    BY <1>21, <2>1, DirTypes
      DEF DropOld, Exit, Sets
  <2>4. Known'
    <3>1. dirs.creds.key <= keys /\ dirs.tmp.key <= keys /\ dirs.old.key <= keys
          /\ dirs.creds.cert <= certs /\ dirs.tmp.cert <= certs /\ dirs.old.cert <= certs
      BY DEF Known, Numbered
    <3>2. keys' = keys /\ certs' = certs /\ client' = client /\ half' = half
      BY <1>21 DEF DropOld
    <3>3. 0 <= keys /\ 0 <= certs
      BY <1>a
    <3>4. QED
      BY <2>1, <3>1, <3>2, <3>3, DirTypes, KnownKept
  <2>5. Lawful'
    BY <1>21, <2>1, DirTypes
      DEF DropOld, Exit, Lawful
  <2>6. Staged'
    BY <1>21, <2>1
      DEF DropOld, Exit, Staged, Saving, Staging
  <2>7. Rotated'
    BY <1>21, <2>1
      DEF DropOld, Exit, Rotated
  <2>8. Counting'
    BY <1>21, <2>1
      DEF DropOld, Exit, Counting
  <2>9. HalfRead'
    BY <1>21, <2>1
      DEF DropOld, Exit, HalfRead
  <2>10. StaysEnrolled'
    BY <1>21, <2>1
      DEF DropOld, Exit, StaysEnrolled
  <2>11. FreshSessionSuffices'
    BY <1>21, <2>1
      DEF DropOld, Exit, FreshSessionSuffices
  <2>12. ClientCoherent'
    BY <1>21, <2>1
      DEF DropOld, Exit, ClientCoherent
  <2>13. QED
    BY <2>2, <2>3, <2>4, <2>5, <2>6, <2>7, <2>8, <2>9, <2>10, <2>11, <2>12
<1>22. CASE SaveFails
  <2>1. TypeOK'
    BY <1>22, AfterExit
      DEF SaveFails, Fault, TypeOK, Dirs
  <2>2. Sets'
    BY <1>22
      DEF SaveFails, Fault, Exit, Sets
  <2>3. Known'
    BY <1>22
      DEF SaveFails, Fault, Exit, Known, Numbered
  <2>4. Lawful'
    BY <1>22
      DEF SaveFails, Fault, Exit, Lawful
  <2>5. Staged'
    BY <1>22
      DEF SaveFails, Fault, Exit, Staged, Saving, Staging
  <2>6. Rotated'
    BY <1>22
      DEF SaveFails, Fault, Exit, Rotated
  <2>7. Counting'
    BY <1>22
      DEF SaveFails, Fault, Exit, Counting
  <2>8. HalfRead'
    BY <1>22
      DEF SaveFails, Fault, Exit, HalfRead
  <2>9. StaysEnrolled'
    BY <1>22
      DEF SaveFails, Fault, Exit, StaysEnrolled
  <2>10. FreshSessionSuffices'
    BY <1>22
      DEF SaveFails, Fault, Exit, FreshSessionSuffices
  <2>11. ClientCoherent'
    BY <1>22
      DEF SaveFails, Fault, Exit, ClientCoherent
  <2>12. QED
    BY <2>1, <2>2, <2>3, <2>4, <2>5, <2>6, <2>7, <2>8, <2>9, <2>10, <2>11
<1>23. CASE ServeReadsIdentity
  <2>1. TypeOK'
    BY <1>23
      DEF ServeReadsIdentity, TypeOK, Dirs
  <2>2. Sets'
    BY <1>23
      DEF ServeReadsIdentity, Sets
  <2>3. Known'
    BY <1>23
      DEF ServeReadsIdentity, Known, Numbered
  <2>4. Lawful'
    BY <1>23
      DEF ServeReadsIdentity, Lawful
  <2>5. Staged'
    BY <1>23
      DEF ServeReadsIdentity, Staged, Saving, Staging
  <2>6. Rotated'
    BY <1>23
      DEF ServeReadsIdentity, Rotated
  <2>7. Counting'
    BY <1>23
      DEF ServeReadsIdentity, Counting
  <2>8. HalfRead'
    BY <1>23
      DEF ServeReadsIdentity, HalfRead
  <2>9. StaysEnrolled'
    BY <1>23
      DEF ServeReadsIdentity, StaysEnrolled
  <2>10. FreshSessionSuffices'
    BY <1>23
      DEF ServeReadsIdentity, FreshSessionSuffices
  <2>11. ClientCoherent'
    BY <1>23
      DEF ServeReadsIdentity, ClientCoherent
  <2>12. QED
    BY <2>1, <2>2, <2>3, <2>4, <2>5, <2>6, <2>7, <2>8, <2>9, <2>10, <2>11
<1>24. CASE ServeReadsCert
  <2>1. NoClient \in Client /\ NoClient.cert = 0
    BY <1>24 DEF NoClient, Client
  <2>2. dirs.creds.cert \in 0 .. certs
    BY <1>24, <1>a DEF Known, Numbered, Dirs, Dir
  <2>3. TypeOK'
    BY <1>24, <2>1, <2>2
      DEF ServeReadsCert, ServeExits, TypeOK, Dirs
  <2>4. Sets'
    BY <1>24, <2>1, <2>2
      DEF ServeReadsCert, ServeExits, Sets
  <2>5. Known'
    BY <1>24, <2>1, <2>2, <1>a
      DEF ServeReadsCert, ServeExits, Known, Numbered
  <2>6. Lawful'
    BY <1>24, <2>1, <2>2
      DEF ServeReadsCert, ServeExits, Lawful
  <2>7. Staged'
    BY <1>24, <2>1, <2>2
      DEF ServeReadsCert, ServeExits, Staged, Saving, Staging
  <2>8. Rotated'
    BY <1>24, <2>1, <2>2
      DEF ServeReadsCert, ServeExits, Rotated
  <2>9. Counting'
    BY <1>24, <2>1, <2>2
      DEF ServeReadsCert, ServeExits, Counting
  <2>10. HalfRead'
    BY <1>24, <2>1, <2>2
      DEF ServeReadsCert, ServeExits, HalfRead
  <2>11. StaysEnrolled'
    BY <1>24, <2>1, <2>2
      DEF ServeReadsCert, ServeExits, StaysEnrolled
  <2>12. FreshSessionSuffices'
    BY <1>24, <2>1, <2>2
      DEF ServeReadsCert, ServeExits, FreshSessionSuffices
  <2>13. ClientCoherent'
    BY <1>24, <2>1, <2>2
      DEF ServeReadsCert, ServeExits, ClientCoherent
  <2>14. QED
    BY <2>3, <2>4, <2>5, <2>6, <2>7, <2>8, <2>9, <2>10, <2>11, <2>12, <2>13
<1>25. CASE ServeReadsSecrets
  <2>1. NoClient \in Client /\ NoClient.cert = 0
    BY <1>25 DEF NoClient, Client
  <2>2. TypeOK'
    BY <1>25, <2>1
      DEF ServeReadsSecrets, ServeExits, TypeOK, Dirs
  <2>3. Sets'
    BY <1>25, <2>1
      DEF ServeReadsSecrets, ServeExits, Sets
  <2>4. Known'
    BY <1>25, <2>1, <1>a
      DEF ServeReadsSecrets, ServeExits, Known, Numbered
  <2>5. Lawful'
    BY <1>25, <2>1
      DEF ServeReadsSecrets, ServeExits, Lawful
  <2>6. Staged'
    BY <1>25, <2>1
      DEF ServeReadsSecrets, ServeExits, Staged, Saving, Staging
  <2>7. Rotated'
    BY <1>25, <2>1
      DEF ServeReadsSecrets, ServeExits, Rotated
  <2>8. Counting'
    BY <1>25, <2>1
      DEF ServeReadsSecrets, ServeExits, Counting
  <2>9. HalfRead'
    BY <1>25, <2>1
      DEF ServeReadsSecrets, ServeExits, HalfRead
  <2>10. StaysEnrolled'
    BY <1>25, <2>1
      DEF ServeReadsSecrets, ServeExits, StaysEnrolled
  <2>11. FreshSessionSuffices'
    BY <1>25, <2>1
      DEF ServeReadsSecrets, ServeExits, FreshSessionSuffices
  <2>12. ClientCoherent'
    BY <1>25, <2>1
      DEF ServeReadsSecrets, ServeExits, ClientCoherent
  <2>13. QED
    BY <2>2, <2>3, <2>4, <2>5, <2>6, <2>7, <2>8, <2>9, <2>10, <2>11, <2>12
<1>26. CASE ReadCert
  <2>1. NoClient \in Client /\ NoClient.cert = 0
    BY <1>26 DEF NoClient, Client
  <2>2. dirs.creds.cert \in 0 .. certs /\ dirs.creds.ckey \in Nat
    BY <1>26, <1>a DEF Known, Numbered, Dirs, Dir
  <2>3. TypeOK'
    BY <1>26, <2>1, <2>2
      DEF ReadCert, BuildFails, ServeExits, TypeOK, Client, Dirs
  <2>4. Sets'
    BY <1>26, <2>1, <2>2
      DEF ReadCert, BuildFails, ServeExits, Sets
  <2>5. Known'
    BY <1>26, <2>1, <2>2, <1>a
      DEF ReadCert, BuildFails, ServeExits, Known, Numbered
  <2>6. Lawful'
    BY <1>26, <2>1, <2>2
      DEF ReadCert, BuildFails, ServeExits, Lawful
  <2>7. Staged'
    BY <1>26, <2>1, <2>2
      DEF ReadCert, BuildFails, ServeExits, Staged, Saving, Staging
  <2>8. Rotated'
    BY <1>26, <2>1, <2>2
      DEF ReadCert, BuildFails, ServeExits, Rotated
  <2>9. Counting'
    BY <1>26, <2>1, <2>2
      DEF ReadCert, BuildFails, ServeExits, Counting
  <2>10. HalfRead'
    BY <1>26, <2>1, <2>2
      DEF ReadCert, BuildFails, ServeExits, HalfRead
  <2>11. StaysEnrolled'
    BY <1>26, <2>1, <2>2
      DEF ReadCert, BuildFails, ServeExits, StaysEnrolled
  <2>12. FreshSessionSuffices'
    BY <1>26, <2>1, <2>2
      DEF ReadCert, BuildFails, ServeExits, FreshSessionSuffices
  <2>13. ClientCoherent'
    BY <1>26, <2>1, <2>2
      DEF ReadCert, BuildFails, ServeExits, ClientCoherent
  <2>14. QED
    BY <2>3, <2>4, <2>5, <2>6, <2>7, <2>8, <2>9, <2>10, <2>11, <2>12, <2>13
<1>27. CASE ReadKey
  <2>1. NoClient \in Client /\ NoClient.cert = 0
    BY <1>27 DEF NoClient, Client
  <2>2. LET h == [half EXCEPT !.key = dirs.creds.key] IN h \in Client /\ h.cert = half.cert
    BY <1>27, <1>a DEF TypeOK, Client, Dirs, Dir
  <2>3. half'.cert \in {half.cert, 0} /\ client' \in {client, NoClient}
    BY <1>27, <2>1, <2>2 DEF ReadKey, BuildFails, ServeExits
  <2>4. TypeOK'
    BY <1>27, <2>1, <2>2, <2>3
      DEF ReadKey, BuildFails, ServeExits, TypeOK, Dirs
  <2>5. Sets'
    BY <1>27, <2>1, <2>2, <2>3
      DEF ReadKey, BuildFails, ServeExits, Sets
  <2>6. Known'
    BY <1>27, <2>1, <2>2, <2>3, <1>a
      DEF ReadKey, BuildFails, ServeExits, Known, Numbered
  <2>7. Lawful'
    BY <1>27, <2>1, <2>2, <2>3
      DEF ReadKey, BuildFails, ServeExits, Lawful
  <2>8. Staged'
    BY <1>27, <2>1, <2>2, <2>3
      DEF ReadKey, BuildFails, ServeExits, Staged, Saving, Staging
  <2>9. Rotated'
    BY <1>27, <2>1, <2>2, <2>3
      DEF ReadKey, BuildFails, ServeExits, Rotated
  <2>10. Counting'
    BY <1>27, <2>1, <2>2, <2>3
      DEF ReadKey, BuildFails, ServeExits, Counting
  <2>11. HalfRead'
    BY <1>27, <2>1, <2>2, <2>3
      DEF ReadKey, BuildFails, ServeExits, HalfRead
  <2>12. StaysEnrolled'
    BY <1>27, <2>1, <2>2, <2>3
      DEF ReadKey, BuildFails, ServeExits, StaysEnrolled
  <2>13. FreshSessionSuffices'
    BY <1>27, <2>1, <2>2, <2>3
      DEF ReadKey, BuildFails, ServeExits, FreshSessionSuffices
  <2>14. ClientCoherent'
    BY <1>27, <2>1, <2>2, <2>3
      DEF ReadKey, BuildFails, ServeExits, ClientCoherent
  <2>15. QED
    BY <2>4, <2>5, <2>6, <2>7, <2>8, <2>9, <2>10, <2>11, <2>12, <2>13, <2>14
<1>28. CASE BuildClient
  <2>1. NoClient \in Client /\ NoClient.cert = 0
    BY <1>28 DEF NoClient, Client
  <2>2. TypeOK'
    BY <1>28, <2>1
      DEF BuildClient, BuildFails, ServeExits, TypeOK, Dirs
  <2>3. Sets'
    BY <1>28, <2>1
      DEF BuildClient, BuildFails, ServeExits, Sets
  <2>4. Known'
    BY <1>28, <2>1, <1>a
      DEF BuildClient, BuildFails, ServeExits, Known, Numbered
  <2>5. Lawful'
    BY <1>28, <2>1
      DEF BuildClient, BuildFails, ServeExits, Lawful
  <2>6. Staged'
    BY <1>28, <2>1
      DEF BuildClient, BuildFails, ServeExits, Staged, Saving, Staging
  <2>7. Rotated'
    BY <1>28, <2>1
      DEF BuildClient, BuildFails, ServeExits, Rotated
  <2>8. Counting'
    BY <1>28, <2>1
      DEF BuildClient, BuildFails, ServeExits, Counting
  <2>9. HalfRead'
    BY <1>28, <2>1
      DEF BuildClient, BuildFails, ServeExits, HalfRead
  <2>10. StaysEnrolled'
    BY <1>28, <2>1
      DEF BuildClient, BuildFails, ServeExits, StaysEnrolled
  <2>11. FreshSessionSuffices'
    BY <1>28, <2>1
      DEF BuildClient, BuildFails, ServeExits, FreshSessionSuffices
  <2>12. ClientCoherent'
    BY <1>28, <2>1
      DEF BuildClient, BuildFails, ServeExits, ClientCoherent, HalfRead
  <2>13. QED
    BY <2>2, <2>3, <2>4, <2>5, <2>6, <2>7, <2>8, <2>9, <2>10, <2>11, <2>12
<1>29. CASE Sighup
  <2>1. TypeOK'
    BY <1>29
      DEF Sighup, TypeOK, Dirs
  <2>2. Sets'
    BY <1>29
      DEF Sighup, Sets
  <2>3. Known'
    BY <1>29
      DEF Sighup, Known, Numbered
  <2>4. Lawful'
    BY <1>29
      DEF Sighup, Lawful
  <2>5. Staged'
    BY <1>29
      DEF Sighup, Staged, Saving, Staging
  <2>6. Rotated'
    BY <1>29
      DEF Sighup, Rotated
  <2>7. Counting'
    BY <1>29
      DEF Sighup, Counting
  <2>8. HalfRead'
    BY <1>29
      DEF Sighup, HalfRead
  <2>9. StaysEnrolled'
    BY <1>29
      DEF Sighup, StaysEnrolled
  <2>10. FreshSessionSuffices'
    BY <1>29
      DEF Sighup, FreshSessionSuffices
  <2>11. ClientCoherent'
    BY <1>29
      DEF Sighup, ClientCoherent
  <2>12. QED
    BY <2>1, <2>2, <2>3, <2>4, <2>5, <2>6, <2>7, <2>8, <2>9, <2>10, <2>11
<1>30. CASE ServeStops
  <2>1. NoClient \in Client /\ NoClient.cert = 0
    BY <1>30 DEF NoClient, Client
  <2>2. TypeOK'
    BY <1>30, <2>1
      DEF ServeStops, ServeExits, TypeOK, Dirs
  <2>3. Sets'
    BY <1>30, <2>1
      DEF ServeStops, ServeExits, Sets
  <2>4. Known'
    BY <1>30, <2>1, <1>a
      DEF ServeStops, ServeExits, Known, Numbered
  <2>5. Lawful'
    BY <1>30, <2>1
      DEF ServeStops, ServeExits, Lawful
  <2>6. Staged'
    BY <1>30, <2>1
      DEF ServeStops, ServeExits, Staged, Saving, Staging
  <2>7. Rotated'
    BY <1>30, <2>1
      DEF ServeStops, ServeExits, Rotated
  <2>8. Counting'
    BY <1>30, <2>1
      DEF ServeStops, ServeExits, Counting
  <2>9. HalfRead'
    BY <1>30, <2>1
      DEF ServeStops, ServeExits, HalfRead
  <2>10. StaysEnrolled'
    BY <1>30, <2>1
      DEF ServeStops, ServeExits, StaysEnrolled
  <2>11. FreshSessionSuffices'
    BY <1>30, <2>1
      DEF ServeStops, ServeExits, FreshSessionSuffices
  <2>12. ClientCoherent'
    BY <1>30, <2>1
      DEF ServeStops, ServeExits, ClientCoherent
  <2>13. QED
    BY <2>2, <2>3, <2>4, <2>5, <2>6, <2>7, <2>8, <2>9, <2>10, <2>11, <2>12
<1>31. CASE Expire
  <2>1. client.cert \in 0 .. certs
    BY <1>31, <1>a DEF Known, TypeOK, Client
  <2>2. TypeOK'
    BY <1>31, <2>1
      DEF Expire, TypeOK, Dirs
  <2>3. Sets'
    BY <1>31, <2>1
      DEF Expire, Sets
  <2>4. Known'
    BY <1>31, <2>1
      DEF Expire, Known, Numbered
  <2>5. Lawful'
    BY <1>31, <2>1
      DEF Expire, Lawful
  <2>6. Staged'
    BY <1>31, <2>1
      DEF Expire, Staged, Saving, Staging
  <2>7. Rotated'
    BY <1>31, <2>1
      DEF Expire, Rotated
  <2>8. Counting'
    BY <1>31, <2>1
      DEF Expire, Counting
  <2>9. HalfRead'
    BY <1>31, <2>1
      DEF Expire, HalfRead
  <2>10. StaysEnrolled'
    BY <1>31, <2>1
      DEF Expire, StaysEnrolled
  <2>11. FreshSessionSuffices'
    BY <1>31, <2>1
      DEF Expire, FreshSessionSuffices
  <2>12. ClientCoherent'
    BY <1>31, <2>1
      DEF Expire, ClientCoherent
  <2>13. QED
    BY <2>2, <2>3, <2>4, <2>5, <2>6, <2>7, <2>8, <2>9, <2>10, <2>11, <2>12
<1>32. CASE Interrupt
  <2>1. TypeOK'
    BY <1>32, AfterExit
      DEF Interrupt, Stopped, TypeOK, Dirs
  <2>2. Sets'
    BY <1>32
      DEF Interrupt, Stopped, Exit, Sets
  <2>3. Known'
    BY <1>32
      DEF Interrupt, Stopped, Exit, Known, Numbered
  <2>4. Lawful'
    BY <1>32
      DEF Interrupt, Stopped, Exit, Lawful
  <2>5. Staged'
    BY <1>32
      DEF Interrupt, Stopped, Exit, Staged, Saving, Staging
  <2>6. Rotated'
    BY <1>32
      DEF Interrupt, Stopped, Exit, Rotated
  <2>7. Counting'
    BY <1>32
      DEF Interrupt, Stopped, Exit, Counting
  <2>8. HalfRead'
    BY <1>32
      DEF Interrupt, Stopped, Exit, HalfRead
  <2>9. StaysEnrolled'
    BY <1>32, <1>a
      DEF Interrupt, Stopped, Exit, StaysEnrolled, Dirs, Dir
  <2>10. FreshSessionSuffices'
    BY <1>32
      DEF Interrupt, Stopped, Exit, FreshSessionSuffices
  <2>11. ClientCoherent'
    BY <1>32
      DEF Interrupt, Stopped, Exit, ClientCoherent
  <2>12. QED
    BY <2>1, <2>2, <2>3, <2>4, <2>5, <2>6, <2>7, <2>8, <2>9, <2>10, <2>11
<1>33. CASE PowerFails
  <2>1. NoClient \in Client /\ NoClient.cert = 0
    BY <1>33 DEF NoClient, Client
  <2>2. PICK was \in unsynced \cup {dirs} :
          \E c \in Settle(was.creds), t \in Settle(was.tmp), o \in Settle(was.old) :
            dirs' = [creds |-> c, tmp |-> t, old |-> o]
    BY <1>33 DEF PowerFails
  <2>3. was \in Dirs /\ Whole(was.creds) /\ Whole(was.old)
    BY <1>33, <1>a DEF Sets, TypeOK, Dirs
  <2>4. Settle(was.creds) = {was.creds} /\ Settle(was.old) = {was.old}
    BY <1>33, <2>3 DEF Whole, Settle
  <2>5. Settle(was.tmp) \subseteq {was.tmp, EmptyDir}
    BY <1>33 DEF Settle
  <2>6. /\ dirs' \in Dirs /\ dirs'.creds = was.creds /\ dirs'.old = was.old
        /\ dirs'.tmp \in {was.tmp, EmptyDir} /\ unsynced' = {}
    BY <1>33, <2>2, <2>3, <2>4, <2>5, DirTypes DEF Dirs, PowerFails
  <2>7. TypeOK'
    BY <1>33, <2>1, <2>2, <2>3, <2>4, <2>5, <2>6, AfterExit
      DEF PowerFails, Stopped, ServeExits, TypeOK, Dirs
  <2>8. Sets'
    BY <1>33, <2>1, <2>2, <2>3, <2>4, <2>5, <2>6
      DEF PowerFails, Stopped, Exit, ServeExits, Sets
  <2>9. Known'
    BY <1>33, <2>1, <2>2, <2>3, <2>4, <2>5, <2>6, <1>a, DirTypes
      DEF PowerFails, Stopped, Exit, ServeExits, Known, Numbered
  <2>10. Lawful'
    BY <1>33, <2>1, <2>2, <2>3, <2>4, <2>5, <2>6
      DEF PowerFails, Stopped, Exit, ServeExits, Lawful
  <2>11. Staged'
    BY <1>33, <2>1, <2>2, <2>3, <2>4, <2>5, <2>6
      DEF PowerFails, Stopped, Exit, ServeExits, Staged, Saving, Staging
  <2>12. Rotated'
    BY <1>33, <2>1, <2>2, <2>3, <2>4, <2>5, <2>6
      DEF PowerFails, Stopped, Exit, ServeExits, Rotated
  <2>13. Counting'
    BY <1>33, <2>1, <2>2, <2>3, <2>4, <2>5, <2>6
      DEF PowerFails, Stopped, Exit, ServeExits, Counting
  <2>14. HalfRead'
    BY <1>33, <2>1, <2>2, <2>3, <2>4, <2>5, <2>6
      DEF PowerFails, Stopped, Exit, ServeExits, HalfRead
  <2>15. StaysEnrolled'
    BY <1>33, <2>1, <2>2, <2>3, <2>4, <2>5, <2>6
      DEF PowerFails, Stopped, Exit, ServeExits, StaysEnrolled, Dirs, Dir
  <2>16. FreshSessionSuffices'
    BY <1>33, <2>1, <2>2, <2>3, <2>4, <2>5, <2>6
      DEF PowerFails, Stopped, Exit, ServeExits, FreshSessionSuffices
  <2>17. ClientCoherent'
    BY <1>33, <2>1, <2>2, <2>3, <2>4, <2>5, <2>6
      DEF PowerFails, Stopped, Exit, ServeExits, ClientCoherent
  <2>18. QED
    BY <2>7, <2>8, <2>9, <2>10, <2>11, <2>12, <2>13, <2>14, <2>15, <2>16, <2>17
<1>34. CASE UNCHANGED vars
  BY <1>34
    DEF vars, TypeOK, Sets, Known, Numbered, Lawful, Staged, Rotated, Counting, HalfRead,
        StaysEnrolled, FreshSessionSuffices, ClientCoherent
<1>35. QED
  BY <1>1, <1>2, <1>3, <1>4, <1>5, <1>6, <1>7, <1>8, <1>9, <1>10, <1>11, <1>12,
    <1>13, <1>14, <1>15, <1>16, <1>17, <1>18, <1>19, <1>20, <1>21, <1>22, <1>23, <1>24,
    <1>25, <1>26, <1>27, <1>28, <1>29, <1>30, <1>31, <1>32, <1>33, <1>34
    DEF Next, EnrollNext, SaveNext, ServeNext, EnvNext

-----------------------------------------------------------------------------
\* A station that was never enrolled satisfies the invariant.
LEMMA InvInit == Init => IInv
<1> SUFFICES ASSUME Init PROVE IInv
  OBVIOUS
<1>1. dirs \in Dirs /\ dirs.creds = NoDir /\ dirs.tmp = NoDir /\ dirs.old = NoDir
  BY DirTypes DEF Init, Dirs
<1>2. NoClient \in Client /\ NoClient.cert = 0
  BY DEF NoClient, Client
<1>3. force \in BOOLEAN /\ existed \in BOOLEAN /\ fresh \in BOOLEAN /\ enrolled \in BOOLEAN
      /\ gap \in BOOLEAN /\ refused \in BOOLEAN
  BY DEF Init
<1>4. TypeOK
  BY <1>1, <1>2, <1>3, EnrollmentConstants DEF Init, TypeOK, Dirs
<1>5. Sets /\ Known /\ Lawful
  BY <1>1, <1>2, DirTypes DEF Init, Sets, Known, Numbered, Lawful
<1>6. Staged /\ Rotated /\ Counting /\ HalfRead
  BY EnrollmentConstants DEF Init, Staged, Saving, Staging, Rotated, Counting, HalfRead
<1>7. StaysEnrolled /\ FreshSessionSuffices /\ ClientCoherent
  BY DEF Init, StaysEnrolled, FreshSessionSuffices, ClientCoherent
<1>8. QED
  BY <1>4, <1>5, <1>6, <1>7 DEF IInv

\* The inductive invariant holds in every reachable state.
THEOREM EnrollmentInvariant == Spec => []IInv
BY InvInit, InvStep, PTL DEF Spec

\* Every variable stays in its type.
THEOREM EnrollmentTypes == Spec => []TypeOK
<1>1. IInv => TypeOK
  BY DEF IInv
<1>2. QED
  BY <1>1, EnrollmentInvariant, PTL

\* A reader of credentials/ finds a whole set or none, at any moment and after
\* any power loss: identity::save never exposes or revives a partial set.
THEOREM CredentialsAreWhole == Spec => []CredsWhole
<1>1. IInv => CredsWhole
  BY DEF IInv, Sets, Whole, CredsWhole
<1>2. QED
  BY <1>1, EnrollmentInvariant, PTL

\* Without --force the station keeps its first key, unless a stop or a failed
\* restore left credentials/ rotated away.
THEOREM KeyIsKept == Spec => []KeyForLifeUnlessGap
<1>1. IInv => KeyForLifeUnlessGap
  BY DEF IInv, Lawful, KeyForLife, KeyForLifeUnlessGap
<1>2. QED
  BY <1>1, EnrollmentInvariant, PTL

\* A later enroll that fails leaves an enrolled station enrolled.
THEOREM EnrollmentIsKept == Spec => []StaysEnrolled
<1>1. IInv => StaysEnrolled
  BY DEF IInv
<1>2. QED
  BY <1>1, EnrollmentInvariant, PTL

\* One command's retries never exhaust a fresh session.
THEOREM SessionSuffices == Spec => []FreshSessionSuffices
<1>1. IInv => FreshSessionSuffices
  BY DEF IInv
<1>2. QED
  BY <1>1, EnrollmentInvariant, PTL

\* A running station always has a certificate and the key it was issued for.
THEOREM ClientIsCoherent == Spec => []ClientCoherent
<1>1. IInv => ClientCoherent
  BY DEF IInv
<1>2. QED
  BY <1>1, EnrollmentInvariant, PTL

=============================================================================
