----------------------------- MODULE DataProofs -----------------------------
(***************************************************************************)
(* Theorems about the whole of the data: how the database is published,    *)
(* for any number of seeders, failing calls, commits and readings; that a  *)
(* table is mapped to a source as its contract says; and, from the lemmas  *)
(* of RulesProofs, that whatever case is drawn the Tools show of it what   *)
(* they promise.                                                           *)
(*                                                                         *)
(* The marker alone does not make a publication safe: a seeder that owns   *)
(* it is alone with its backup (Alone), releases it only when that backup  *)
(* is gone (NoneOfItsOwn), has one when it goes back to it (HasOne), and   *)
(* links the main that a loss of power would leave there (Anchored,        *)
(* Rooted).  Each system call has its place for the mains and the WAL, on  *)
(* the disk as seen and as synced (Stage, WalPlaced), and a token's parts  *)
(* are of what was looked at before (TokenInv).                            *)
(***************************************************************************)
EXTENDS DataRules, RulesProofs

-----------------------------------------------------------------------------
(* The publication of the database.                                        *)

Files == Inodes \cup {NoFile}

Directories == [lock : BOOLEAN, dest : Files, wal : Files, backups : [Seeders -> Files]]

Places == Critical \cup {"idle", "ready", "lock", "refused", "sync_release", "ok", "failed", "killed"}

Typed ==
  /\ disk \in Directories
  /\ durable \in Directories
  /\ seeder \in [Seeders -> [at : Places, bad : BOOLEAN, prev : Files]]
  /\ writer \in [main : Files, commits : Nat]

Alone ==
  \A s \in Seeders : seeder[s].at \in Critical =>
    disk.lock /\ \A t \in Seeders \ {s} : disk.backups[t] = NoFile

NoneOfItsOwn ==
  \A s \in Seeders :
    seeder[s].at \in {"sync_lock", "look", "link", "sync_unlink", "sync_restore", "release"} => disk.backups[s] = NoFile

HasOne == \A s \in Seeders : seeder[s].at = "restore" => disk.backups[s] # NoFile

Anchored == \A s \in Seeders : seeder[s].at \in {"look", "link"} => durable.dest = disk.dest

Rooted == \A s \in Seeders : durable.backups[s] # NoFile => durable.dest # NoFile

PubInv ==
  /\ Typed /\ OnePublisher /\ FailsClosed /\ NeverMissing
  /\ Alone /\ NoneOfItsOwn /\ HasOne /\ Anchored /\ Rooted

\* No file is not a file.
Distinct == NoFile \notin Inodes

LEMMA NoFileIsNoInode == Distinct
BY PublicationAssumption DEF Distinct, Inodes

-----------------------------------------------------------------------------
\* At first there is no marker and no backup.
LEMMA PubInvHoldsAtFirst ==
  ASSUME Distinct, PubInit
  PROVE PubInv
<1>1. PICK dest \in {NoFile, Old} :
        disk = [lock |-> FALSE, dest |-> dest, wal |-> NoFile, backups |-> [s \in Seeders |-> NoFile]]
  BY DEF PubInit
<1>2. disk \in Directories /\ durable = disk
  BY <1>1 DEF PubInit, Directories, Files, Inodes
<1>3. seeder = [s \in Seeders |-> [at |-> "idle", bad |-> FALSE, prev |-> NoFile]] /\ writer = [main |-> NoFile, commits |-> 0]
  BY DEF PubInit
<1>4. \A s \in Seeders : seeder[s].at = "idle" /\ disk.backups[s] = NoFile
  BY <1>1, <1>3
<1>5. Typed
  BY <1>2, <1>3 DEF Typed, Places, Files
<1> QED
  BY <1>2, <1>4, <1>5 DEF PubInv, OnePublisher, FailsClosed, NeverMissing, Alone, NoneOfItsOwn, HasOne, Anchored,
     Rooted, Critical

-----------------------------------------------------------------------------
\* What Goes and Raises do to the seeders.
LEMMA OneGoes ==
  ASSUME Typed, NEW s \in Seeders, NEW at \in Places, Goes(s, at)
  PROVE  /\ seeder' \in [Seeders -> [at : Places, bad : BOOLEAN, prev : Files]]
         /\ seeder'[s].at = at /\ \A t \in Seeders \ {s} : seeder'[t] = seeder[t]
  BY DEF Typed, Goes

LEMMA OneRaises ==
  ASSUME Typed, NEW s \in Seeders, Raises(s)
  PROVE  /\ seeder' \in [Seeders -> [at : Places, bad : BOOLEAN, prev : Files]]
         /\ seeder'[s].at = IF disk.backups[s] # NoFile THEN "restore" ELSE "release"
         /\ \A t \in Seeders \ {s} : seeder'[t] = seeder[t]
<1>1. {"restore", "release"} \subseteq Places
  BY DEF Places, Critical
<1> QED
  BY <1>1, ZenonT(60) DEF Typed, Raises

\* A seeder that gives up, is killed or finds that it has nothing to do.
LEMMA LeavingKeepsInv ==
  ASSUME PubInv, NEW s \in Seeders, NEW at \in Places \ Critical, Goes(s, at),
         UNCHANGED <<disk, durable, writer>>
  PROVE  PubInv'
<1>1. /\ seeder' \in [Seeders -> [at : Places, bad : BOOLEAN, prev : Files]]
      /\ seeder'[s].at = at /\ \A t \in Seeders \ {s} : seeder'[t] = seeder[t]
  BY OneGoes DEF PubInv
<1>2. \A t \in Seeders : seeder'[t].at \in Critical => t # s /\ seeder[t].at = seeder'[t].at
  BY <1>1
<1> QED
  BY <1>1, <1>2 DEF PubInv, Typed, OnePublisher, FailsClosed, NeverMissing, Alone, NoneOfItsOwn, HasOne, Anchored,
     Rooted, Critical

\* An error inside the publication: what is left to undo decides where it goes on.
LEMMA RaisingKeepsInv ==
  ASSUME PubInv, NEW s \in Seeders, seeder[s].at \in Critical, Raises(s), UNCHANGED <<disk, durable, writer>>
  PROVE  PubInv'
<1>1. /\ seeder' \in [Seeders -> [at : Places, bad : BOOLEAN, prev : Files]]
      /\ seeder'[s].at = IF disk.backups[s] # NoFile THEN "restore" ELSE "release"
      /\ \A t \in Seeders \ {s} : seeder'[t] = seeder[t]
  BY OneRaises DEF PubInv
<1>2. Typed' /\ FailsClosed' /\ NeverMissing' /\ Rooted'
  BY <1>1 DEF PubInv, Typed, FailsClosed, NeverMissing, Rooted
<1>3. OnePublisher' /\ Alone'
  BY <1>1 DEF PubInv, OnePublisher, Alone, Critical
<1>4. NoneOfItsOwn' /\ HasOne' /\ Anchored'
  BY <1>1 DEF PubInv, NoneOfItsOwn, HasOne, Anchored
<1> QED
  BY <1>2, <1>3, <1>4 DEF PubInv

\* A step of the publication that looks and goes on.
LEMMA GoingOnKeepsInv ==
  ASSUME PubInv, NEW s \in Seeders, seeder[s].at \in Critical, NEW at \in Critical, Goes(s, at),
         UNCHANGED <<disk, durable, writer>>,
         at \in {"sync_lock", "look", "link", "sync_unlink", "sync_restore", "release"} => disk.backups[s] = NoFile,
         at = "restore" => disk.backups[s] # NoFile,
         at \in {"look", "link"} => durable.dest = disk.dest
  PROVE  PubInv'
<1>0. at \in Places
  BY DEF Places
<1>1. /\ seeder' \in [Seeders -> [at : Places, bad : BOOLEAN, prev : Files]]
      /\ seeder'[s].at = at /\ \A t \in Seeders \ {s} : seeder'[t] = seeder[t]
  BY <1>0, OneGoes DEF PubInv
<1>2. Typed' /\ FailsClosed' /\ NeverMissing' /\ Rooted'
  BY <1>1 DEF PubInv, Typed, FailsClosed, NeverMissing, Rooted
<1>3. OnePublisher' /\ Alone'
  BY <1>1 DEF PubInv, OnePublisher, Alone
<1>4. NoneOfItsOwn' /\ HasOne' /\ Anchored'
  BY <1>1 DEF PubInv, NoneOfItsOwn, HasOne, Anchored
<1> QED
  BY <1>2, <1>3, <1>4 DEF PubInv

\* Syncing the directory: from then on that is what comes back.
LEMMA SyncKeepsInv ==
  ASSUME PubInv, NEW s \in Seeders, NEW at, NEW next \in Places, Sync(s, at, next),
         next \in Critical => at \in Critical,
         next \in {"sync_lock", "look", "link", "sync_unlink", "sync_restore", "release"} => disk.backups[s] = NoFile,
         next # "restore"
  PROVE  PubInv'
<1>1. /\ seeder' \in [Seeders -> [at : Places, bad : BOOLEAN, prev : Files]]
      /\ seeder'[s].at = next /\ \A t \in Seeders \ {s} : seeder'[t] = seeder[t]
  BY OneGoes DEF PubInv, Sync
<1>2. disk' = disk /\ durable' = disk /\ writer' = writer /\ seeder[s].at = at
  BY DEF Sync, Rest
<1>3. Typed' /\ FailsClosed' /\ NeverMissing' /\ Rooted'
  BY <1>1, <1>2 DEF PubInv, Typed, FailsClosed, NeverMissing, Rooted
<1>4. OnePublisher' /\ Alone'
  BY <1>1, <1>2 DEF PubInv, OnePublisher, Alone
<1>5. NoneOfItsOwn' /\ HasOne' /\ Anchored'
  BY <1>1, <1>2 DEF PubInv, NoneOfItsOwn, HasOne, Anchored
<1> QED
  BY <1>3, <1>4, <1>5 DEF PubInv

\* The marker: who creates it is alone, since no backup is without one.
LEMMA CreateLockKeepsInv ==
  ASSUME PubInv, NEW s \in Seeders, CreateLock(s)
  PROVE  PubInv'
<1> USE DEF PubInv
<1>1. durable' = durable /\ writer' = writer /\ seeder[s].at = "lock"
  BY DEF CreateLock, Moves, Rest
<1>2. CASE disk.lock
  <2>1. Goes(s, "refused") /\ UNCHANGED <<disk, durable, writer>> /\ "refused" \in Places \ Critical
    BY <1>1, <1>2 DEF CreateLock, Places, Critical
  <2> QED
    BY <2>1, LeavingKeepsInv
<1>3. CASE ~disk.lock
  <2>1. Goes(s, "sync_lock") /\ disk' = [disk EXCEPT !.lock = TRUE] /\ "sync_lock" \in Places
    BY <1>3 DEF CreateLock, Places, Critical
  <2>2. /\ seeder' \in [Seeders -> [at : Places, bad : BOOLEAN, prev : Files]]
        /\ seeder'[s].at = "sync_lock" /\ \A t \in Seeders \ {s} : seeder'[t] = seeder[t]
    BY <2>1, OneGoes
  <2>3. disk' \in Directories /\ disk'.lock /\ disk'.dest = disk.dest /\ disk'.backups = disk.backups
    BY <2>1 DEF Typed, Directories
  <2>4. /\ \A t \in Seeders : seeder[t].at \notin Critical
        /\ \A t \in Seeders : disk.backups[t] = NoFile
    BY <1>3 DEF Alone, FailsClosed
  <2>5. Typed' /\ FailsClosed' /\ NeverMissing' /\ Rooted'
    BY <1>1, <2>2, <2>3 DEF Typed, FailsClosed, NeverMissing, Rooted
  <2>6. OnePublisher' /\ Alone'
    BY <2>2, <2>3, <2>4 DEF OnePublisher, Alone
  <2>7. NoneOfItsOwn' /\ HasOne' /\ Anchored'
    <3>1. \A t \in Seeders \ {s} : seeder'[t].at \notin Critical
      BY <2>2, <2>4
    <3> QED
      BY <1>1, <2>2, <2>3, <2>4, <3>1 DEF NoneOfItsOwn, HasOne, Anchored, Critical
  <2> QED
    BY <2>5, <2>6, <2>7
<1> QED
  BY <1>2, <1>3

\* The second link to the old main, the one a loss of power would leave in its place.
LEMMA LinkBackupKeepsInv ==
  ASSUME PubInv, NEW s \in Seeders, LinkBackup(s)
  PROVE  PubInv'
<1> USE DEF PubInv
<1>1. durable' = durable /\ writer' = writer /\ seeder[s].at = "link" /\ durable.dest = disk.dest
  BY DEF LinkBackup, Moves, Rest, Anchored
<1>2. /\ seeder' \in [Seeders -> [at : Places, bad : BOOLEAN, prev : Files]]
      /\ seeder'[s].at \in {"look_again", "sync_link"} /\ \A t \in Seeders \ {s} : seeder'[t] = seeder[t]
  <2>1. disk.dest \in Files /\ {"look_again", "sync_link"} \subseteq Places
    BY DEF Typed, Directories, Places, Critical
  <2> QED
    BY <2>1 DEF LinkBackup, Typed
<1>3. /\ disk' \in Directories /\ disk'.lock = disk.lock /\ disk'.dest = disk.dest
      /\ disk'.backups[s] = disk.dest /\ \A t \in Seeders \ {s} : disk'.backups[t] = disk.backups[t]
  BY DEF LinkBackup, Typed, Directories
<1>4. seeder[s].at \in Critical /\ disk.lock
  BY <1>1 DEF Alone, Critical
<1>5. Typed' /\ FailsClosed' /\ NeverMissing' /\ Rooted'
  BY <1>1, <1>2, <1>3, <1>4 DEF Typed, FailsClosed, NeverMissing, Rooted
<1>6. OnePublisher' /\ Alone'
  BY <1>2, <1>3, <1>4 DEF OnePublisher, Alone
<1>7. NoneOfItsOwn' /\ HasOne' /\ Anchored'
  BY <1>1, <1>2, <1>3, <1>4 DEF NoneOfItsOwn, HasOne, Anchored
<1> QED
  BY <1>5, <1>6, <1>7

\* The replacement: from one main to another.
LEMMA ReplaceKeepsInv ==
  ASSUME Distinct, PubInv, NEW s \in Seeders, Replace(s)
  PROVE  PubInv'
<1> USE DEF PubInv
<1>1. durable' = durable /\ writer' = writer /\ seeder[s].at = "replace" /\ seeder[s].at \in Critical
  BY DEF Replace, Moves, Rest, Critical
<1>2. /\ seeder' \in [Seeders -> [at : Places, bad : BOOLEAN, prev : Files]]
      /\ seeder'[s].at = "sync_replace" /\ \A t \in Seeders \ {s} : seeder'[t] = seeder[t]
  <2>1. Goes(s, "sync_replace") /\ "sync_replace" \in Places
    BY DEF Replace, Places, Critical
  <2> QED
    BY <2>1, OneGoes
<1>3. disk' \in Directories /\ disk'.lock = disk.lock /\ disk'.dest = s /\ disk'.backups = disk.backups
  BY DEF Replace, Typed, Directories, Files, Inodes
<1>4. disk'.dest # NoFile
  BY <1>3 DEF Distinct, Inodes
<1>5. Typed' /\ FailsClosed' /\ NeverMissing' /\ Rooted'
  BY <1>1, <1>2, <1>3, <1>4 DEF Typed, FailsClosed, NeverMissing, Rooted
<1>6. OnePublisher' /\ Alone'
  BY <1>1, <1>2, <1>3 DEF OnePublisher, Alone, Critical
<1>7. NoneOfItsOwn' /\ HasOne' /\ Anchored'
  <2>1. \A t \in Seeders \ {s} : seeder'[t].at \notin Critical
    BY <1>1, <1>2 DEF OnePublisher
  <2> QED
    BY <1>1, <1>2, <1>3, <2>1 DEF NoneOfItsOwn, HasOne, Anchored, Critical
<1> QED
  BY <1>5, <1>6, <1>7

\* The end of a backup: it is removed, or goes back in its place.
LEMMA BackupGoneKeepsInv ==
  ASSUME PubInv, NEW s \in Seeders, Unlink(s) \/ Restore(s)
  PROVE  PubInv'
<1> USE DEF PubInv
<1>1. durable' = durable /\ writer' = writer /\ seeder[s].at \in Critical
  BY DEF Unlink, Restore, Moves, Rest, Critical
<1>2. /\ seeder' \in [Seeders -> [at : Places, bad : BOOLEAN, prev : Files]]
      /\ seeder'[s].at \in {"sync_unlink", "sync_restore"} /\ \A t \in Seeders \ {s} : seeder'[t] = seeder[t]
  <2>1. PICK at \in {"sync_unlink", "sync_restore"} : Goes(s, at)
    BY DEF Unlink, Restore
  <2>2. at \in Places
    BY DEF Places, Critical
  <2> QED
    BY <2>1, <2>2, OneGoes
<1>3. /\ disk' \in Directories /\ disk'.lock = disk.lock
      /\ disk'.backups[s] = NoFile /\ \A t \in Seeders \ {s} : disk'.backups[t] = disk.backups[t]
  <2>1. disk.backups \in [Seeders -> Files] /\ disk.backups[s] \in Files /\ NoFile \in Files
    BY DEF Typed, Directories, Files
  <2>2. disk' = [disk EXCEPT !.backups = [disk.backups EXCEPT ![s] = NoFile]]
        \/ disk' = [disk EXCEPT !.dest = disk.backups[s], !.backups = [disk.backups EXCEPT ![s] = NoFile]]
    BY DEF Unlink, Restore
  <2>3. [disk.backups EXCEPT ![s] = NoFile] \in [Seeders -> Files]
    BY <2>1
  <2> QED
    BY <2>1, <2>2, <2>3, ZenonT(60) DEF Typed, Directories
<1>4. \A t \in Seeders : disk'.backups[t] = NoFile
  BY <1>1, <1>3 DEF Alone
<1>5. Typed' /\ FailsClosed' /\ NeverMissing' /\ Rooted'
  BY <1>1, <1>2, <1>3, <1>4 DEF Typed, FailsClosed, NeverMissing, Rooted
<1>6. OnePublisher' /\ Alone'
  BY <1>1, <1>2, <1>3, <1>4 DEF OnePublisher, Alone, Critical
<1>7. NoneOfItsOwn' /\ HasOne' /\ Anchored'
  <2>1. \A t \in Seeders \ {s} : seeder'[t].at \notin Critical
    BY <1>1, <1>2 DEF OnePublisher
  <2> QED
    BY <1>1, <1>2, <1>4, <2>1 DEF NoneOfItsOwn, HasOne, Anchored, Critical
<1> QED
  BY <1>5, <1>6, <1>7

\* The marker is released with no backup left.
LEMMA ReleaseKeepsInv ==
  ASSUME PubInv, NEW s \in Seeders, Release(s)
  PROVE  PubInv'
<1> USE DEF PubInv
<1>1. durable' = durable /\ writer' = writer /\ seeder[s].at = "release" /\ seeder[s].at \in Critical
  BY DEF Release, Moves, Rest, Critical
<1>2. /\ seeder' \in [Seeders -> [at : Places, bad : BOOLEAN, prev : Files]]
      /\ seeder'[s].at = "sync_release" /\ \A t \in Seeders \ {s} : seeder'[t] = seeder[t]
  <2>1. Goes(s, "sync_release") /\ "sync_release" \in Places
    BY DEF Release, Places
  <2> QED
    BY <2>1, OneGoes
<1>3. disk' \in Directories /\ disk'.dest = disk.dest /\ disk'.backups = disk.backups
  BY DEF Release, Typed, Directories
<1>4. \A t \in Seeders : disk'.backups[t] = NoFile
  BY <1>1, <1>3 DEF Alone, NoneOfItsOwn
<1>5. Typed' /\ FailsClosed' /\ NeverMissing' /\ Rooted'
  BY <1>1, <1>2, <1>3, <1>4 DEF Typed, FailsClosed, NeverMissing, Rooted
<1>6. \A t \in Seeders : seeder'[t].at \notin Critical
  <2>1. "sync_release" \notin Critical
    BY DEF Critical
  <2> QED
    BY <1>1, <1>2, <2>1 DEF OnePublisher
<1> QED
  BY <1>5, <1>6 DEF OnePublisher, Alone, NoneOfItsOwn, HasOne, Anchored, Critical

\* Fail is a step of the first three kinds above, in all but its count of faults.
LEMMA FailKeepsInv ==
  ASSUME PubInv, NEW s \in Seeders, Fail(s)
  PROVE  PubInv'
<1>1. UNCHANGED <<disk, durable, writer>>
  BY DEF Fail
<1>2. CASE Goes(s, "failed")
  <2>1. "failed" \in Places \ Critical
    BY DEF Places, Critical
  <2> QED
    BY <1>1, <1>2, <2>1, LeavingKeepsInv
<1>3. CASE seeder[s].at \in {"link", "sync_link", "replace", "sync_replace", "unlink", "sync_unlink"} /\ Raises(s)
  BY <1>1, <1>3, RaisingKeepsInv DEF Critical
<1> QED
  BY <1>2, <1>3 DEF Fail

\* Every step of a seeder.
LEMMA PublishKeepsInv ==
  ASSUME Distinct, PubInv, NEW s \in Seeders, Publish(s)
  PROVE  PubInv'
<1>1. Critical \subseteq Places /\ {"ready", "lock", "ok", "failed", "killed"} \subseteq Places \ Critical
  BY DEF Places, Critical
<1>2. CASE Begin(s)
  BY <1>1, <1>2, LeavingKeepsInv DEF Begin, Looks, Rest
<1>3. CASE Kill(s)
  BY <1>1, <1>3, LeavingKeepsInv DEF Kill, Looks, Rest
<1>4. CASE Look(s)
  <2>1. UNCHANGED <<disk, durable, writer>> /\ seeder[s].at = "look" /\ seeder[s].at \in Critical
    BY <1>4 DEF Look, Looks, Rest, Critical
  <2>2. CASE Raises(s)
    BY <2>1, <2>2, RaisingKeepsInv
  <2>3. CASE Goes(s, "link")
    <3>1. disk.backups[s] = NoFile /\ durable.dest = disk.dest /\ "link" \in Critical
      BY <2>1 DEF PubInv, NoneOfItsOwn, Anchored, Critical
    <3> QED
      BY <2>1, <2>3, <3>1, GoingOnKeepsInv
  <2> QED
    BY <1>4, <2>2, <2>3 DEF Look
<1>5. CASE LookAgain(s)
  <2>1. UNCHANGED <<disk, durable, writer>> /\ seeder[s].at \in Critical /\ "replace" \in Critical
    BY <1>5 DEF LookAgain, Looks, Rest, Critical
  <2>2. CASE Raises(s)
    BY <2>1, <2>2, RaisingKeepsInv
  <2>3. CASE Goes(s, "replace")
    BY <2>1, <2>3, GoingOnKeepsInv
  <2> QED
    BY <1>5, <2>2, <2>3 DEF LookAgain
<1>6. CASE LastLook(s)
  <2>1. UNCHANGED <<disk, durable, writer>> /\ seeder[s].at \in Critical /\ {"unlink", "release"} \subseteq Critical
    BY <1>6 DEF LastLook, Looks, Rest, Critical
  <2>2. CASE Raises(s)
    BY <2>1, <2>2, RaisingKeepsInv
  <2>3. CASE Goes(s, "unlink")
    BY <2>1, <2>3, GoingOnKeepsInv
  <2>4. CASE disk.backups[s] = NoFile /\ Goes(s, "release")
    BY <2>1, <2>4, GoingOnKeepsInv
  <2> QED
    BY <1>6, <2>2, <2>3, <2>4 DEF LastLook
<1>7. CASE Sync(s, "sync_lock", "look")
  <2>1. disk.backups[s] = NoFile /\ {"sync_lock", "look"} \subseteq Critical
    BY <1>7 DEF Sync, PubInv, NoneOfItsOwn, Critical
  <2> QED
    BY <1>1, <1>7, <2>1, SyncKeepsInv
<1>8. CASE Sync(s, "sync_link", "look_again") \/ Sync(s, "sync_replace", "last_look")
  <2>1. {"sync_link", "look_again", "sync_replace", "last_look"} \subseteq Critical
    BY DEF Critical
  <2>2. CASE Sync(s, "sync_link", "look_again")
    BY <1>1, <2>1, <2>2, SyncKeepsInv
  <2>3. CASE Sync(s, "sync_replace", "last_look")
    BY <1>1, <2>1, <2>3, SyncKeepsInv
  <2> QED
    BY <1>8, <2>2, <2>3
<1>9. CASE Sync(s, "sync_unlink", "release") \/ Sync(s, "sync_restore", "release")
  <2>1. disk.backups[s] = NoFile /\ {"sync_unlink", "sync_restore", "release"} \subseteq Critical
    BY <1>9 DEF Sync, PubInv, NoneOfItsOwn, Critical
  <2>2. CASE Sync(s, "sync_unlink", "release")
    BY <1>1, <2>1, <2>2, SyncKeepsInv
  <2>3. CASE Sync(s, "sync_restore", "release")
    BY <1>1, <2>1, <2>3, SyncKeepsInv
  <2> QED
    BY <1>9, <2>2, <2>3
<1>10. CASE Finish(s)
  <2>1. CASE Sync(s, "sync_release", "failed")
    BY <1>1, <2>1, SyncKeepsInv
  <2>2. CASE Sync(s, "sync_release", "ok")
    BY <1>1, <2>2, SyncKeepsInv
  <2> QED
    BY <1>10, <2>1, <2>2 DEF Finish
<1> QED
  BY <1>2, <1>3, <1>4, <1>5, <1>6, <1>7, <1>8, <1>9, <1>10, CreateLockKeepsInv, LinkBackupKeepsInv, ReplaceKeepsInv,
     BackupGoneKeepsInv, ReleaseKeepsInv, FailKeepsInv DEF Publish

-----------------------------------------------------------------------------
\* The machine stops: nobody is left inside a publication, and what comes back is either.
LEMMA PowerLossKeepsInv ==
  ASSUME Distinct, PubInv, PowerLoss
  PROVE  PubInv'
<1> USE DEF PubInv
<1>1. disk' \in {disk, durable} /\ durable' = disk'
  BY DEF PowerLoss
<1>2. /\ seeder' \in [Seeders -> [at : Places, bad : BOOLEAN, prev : Files]]
      /\ \A s \in Seeders : seeder'[s].at \notin Critical
  <2>1. "killed" \in Places \ Critical /\ Critical \cap {"idle", "ready", "ok", "failed", "refused", "killed"} = {}
    BY DEF Places, Critical
  <2>2. \A s \in Seeders : seeder'[s] = [seeder[s] EXCEPT !.at = IF Running(s) THEN "killed" ELSE seeder[s].at]
    BY DEF PowerLoss
  <2>3. seeder' = [s \in Seeders |-> seeder'[s]]
    BY DEF PowerLoss
  <2>4. \A s \in Seeders : /\ seeder'[s] \in [at : Places, bad : BOOLEAN, prev : Files]
                           /\ seeder'[s].at = IF Running(s) THEN "killed" ELSE seeder[s].at
    BY <2>1, <2>2, ZenonT(60) DEF Typed
  <2> QED
    BY <2>1, <2>3, <2>4 DEF Running
<1>3. writer' \in [main : Files, commits : Nat]
  <2>1. writer' = [writer EXCEPT !.main = NoFile]
    BY DEF PowerLoss
  <2> QED
    BY <2>1 DEF Typed, Files
<1>4. Typed' /\ FailsClosed' /\ NeverMissing' /\ Rooted'
  BY <1>1, <1>2, <1>3 DEF Typed, FailsClosed, NeverMissing, Rooted
<1> QED
  BY <1>2, <1>4 DEF OnePublisher, Alone, NoneOfItsOwn, HasOne, Anchored, Critical

\* The writer opens, commits and closes without a seeder knowing, and what it syncs is the directory.
LEMMA WriterKeepsInv ==
  ASSUME PubInv, OpenWriter \/ Commit \/ CloseWriter
  PROVE  PubInv'
<1> USE DEF PubInv
<1>1. seeder' = seeder
  BY DEF OpenWriter, Commit, CloseWriter, WriterSteps
<1>2. writer' \in [main : Files, commits : Nat]
  <2>1. CASE writer' = [writer EXCEPT !.main = disk.dest]
    BY <2>1 DEF Typed, Directories
  <2>2. CASE writer' = [writer EXCEPT !.commits = writer.commits + 1]
    BY <2>2 DEF Typed
  <2>3. CASE writer' = [writer EXCEPT !.main = NoFile]
    BY <2>3 DEF Typed, Files
  <2> QED
    BY <2>1, <2>2, <2>3 DEF OpenWriter, Commit, CloseWriter
<1>3. CASE UNCHANGED <<disk, durable>>
  BY <1>1, <1>2, <1>3 DEF Typed, OnePublisher, FailsClosed, NeverMissing, Alone, NoneOfItsOwn, HasOne, Anchored, Rooted
<1>4. CASE (\E wal \in Files : disk' = [disk EXCEPT !.wal = wal]) /\ durable' = disk'
  <2>1. /\ disk' \in Directories /\ durable' = disk'
        /\ disk'.lock = disk.lock /\ disk'.dest = disk.dest /\ disk'.backups = disk.backups
    BY <1>4 DEF Typed, Directories
  <2> QED
    BY <1>1, <1>2, <2>1 DEF Typed, OnePublisher, FailsClosed, NeverMissing, Alone, NoneOfItsOwn, HasOne, Anchored, Rooted
<1>5. writer.main \in Files /\ NoFile \in Files
  BY DEF Typed, Files
<1> QED
  BY <1>3, <1>4, <1>5 DEF OpenWriter, Commit, CloseWriter

\* Every step of the publication, and of those who read meanwhile.
LEMMA PubStepKeepsInv ==
  ASSUME Distinct, PubInv, [PubNext]_pubvars
  PROVE  PubInv'
<1>1. CASE \E s \in Seeders : Publish(s)
  BY <1>1, PublishKeepsInv
<1>2. CASE UNCHANGED <<disk, durable, seeder, writer>>
  BY <1>2 DEF PubInv, Typed, OnePublisher, FailsClosed, NeverMissing, Alone, NoneOfItsOwn, HasOne, Anchored, Rooted
<1>3. CASE StatBefore \/ ReadMain \/ ReadWal \/ StatAfter
  BY <1>2, <1>3 DEF StatBefore, ReadMain, ReadWal, StatAfter, ReaderSteps
<1>4. CASE UNCHANGED pubvars
  BY <1>2, <1>4 DEF pubvars
<1> QED
  BY <1>1, <1>3, <1>4, PowerLossKeepsInv, WriterKeepsInv DEF PubNext

\* Whatever calls fail and wherever a seeder or the machine stops, publications of
\* seed_database are one at a time, a backup is never left without the marker that stops
\* the next one, and while there is a backup the database is there, also after a loss of power.
THEOREM PublicationSafe ==
  PubSpec => [](OnePublisher /\ FailsClosed /\ NeverMissing)
<1>1. PubInit => PubInv
  BY NoFileIsNoInode, PubInvHoldsAtFirst
<1>2. PubInv /\ [PubNext]_pubvars => PubInv'
  BY NoFileIsNoInode, PubStepKeepsInv
<1>3. PubInv => OnePublisher /\ FailsClosed /\ NeverMissing
  BY DEF PubInv
<1> QED
  BY <1>1, <1>2, <1>3, PTL DEF PubSpec

-----------------------------------------------------------------------------
(* What the publication leaves: a WAL has its main, what a seeder is told  *)
(* is so, and a token is the digest of one state.                          *)

\* The inode of a seeder's file is a new one.
Fresh == Distinct /\ Old \notin Seeders

\* The files a directory has, and those the two directories have.
FilesOf(d) == {d.dest} \cup {d.backups[s] : s \in Seeders}
Everywhere == FilesOf(disk) \cup FilesOf(durable)

\* The file of s is nowhere, and a generation has come to stay.
Gone(s) == s \notin Everywhere
Established == disk.dest # NoFile /\ durable.dest # NoFile /\ Everywhere \subseteq Seeders \cup {NoFile}

Unplaced == {"idle", "ready", "lock", "refused", "sync_lock", "look", "link", "sync_link", "look_again", "replace"}

\* What is so at each step of a seeder, and when it is done.
Stage(s) ==
  LET at == seeder[s].at
      bad == seeder[s].bad
      prev == seeder[s].prev IN
  /\ bad => at \in {"restore", "sync_restore", "release", "sync_release", "failed", "killed"}
  /\ at \in Unplaced => Gone(s)
  /\ at \in {"sync_link", "look_again", "replace"} => disk.dest = disk.backups[s]
  /\ at \in {"sync_link", "look_again", "replace", "sync_replace", "last_look"} => disk.backups[s] = prev
  /\ at \in {"sync_replace", "last_look", "unlink", "sync_unlink"} => disk.dest = s
  /\ at \in {"last_look", "unlink", "sync_unlink"} => durable.dest = s
  /\ at = "last_look" => durable.backups = disk.backups
  /\ at \in {"unlink", "sync_unlink"} => disk.wal \in late \cup {NoFile}
  /\ at = "restore" => bad /\ disk.dest \in {s, disk.backups[s]}
  /\ at = "sync_restore" => bad /\ disk.dest # s
  /\ at \in Critical => disk.backups[s] # s
  /\ at \in {"release", "sync_release", "ok"} /\ ~bad => Established
  /\ at = "failed" \/ (at \in {"release", "sync_release"} /\ bad) => prev = NoFile \/ faults > 0 \/ Gone(s)

\* A WAL is on the disk with its first commit, and never loses its main unnoticed.
WalPlaced(d) == d.wal # NoFile => d.wal \in FilesOf(d) \cup late \cup {s \in Seeders : seeder[s].bad}

Counted == faults \in Nat /\ late \subseteq Inodes /\ durable.wal = disk.wal

StagesInv == Counted /\ WalPlaced(disk) /\ WalPlaced(durable) /\ \A s \in Seeders : Stage(s)

KeptInv == PubInv /\ StagesInv


LEMMA StagesAtFirst ==
  ASSUME Fresh, PubInit
  PROVE  StagesInv
<1>1. PICK dest \in {NoFile, Old} :
        disk = [lock |-> FALSE, dest |-> dest, wal |-> NoFile, backups |-> [s \in Seeders |-> NoFile]]
  BY DEF PubInit
<1>2. durable = disk /\ disk.dest = dest /\ disk.wal = NoFile /\ \A s \in Seeders : disk.backups[s] = NoFile
  BY <1>1 DEF PubInit
<1>3. Counted /\ WalPlaced(disk) /\ WalPlaced(durable)
  BY <1>2 DEF PubInit, Counted, WalPlaced
<1>4. ASSUME NEW s \in Seeders PROVE Gone(s)
  BY <1>2 DEF Gone, Everywhere, FilesOf, Fresh, Distinct, Inodes
<1>5. ASSUME NEW s \in Seeders PROVE seeder[s].at = "idle" /\ ~seeder[s].bad
  BY DEF PubInit
<1>6. ASSUME NEW s \in Seeders PROVE Stage(s)
  BY <1>4, <1>5 DEF Stage, Critical
<1> QED
  BY <1>3, <1>6 DEF StagesInv

\* Files are named by what is linked already, and by X.
LEMMA SpreadOut ==
  ASSUME Fresh, NEW X \in SUBSET Seeders,
         {disk'.dest, durable'.dest} \subseteq {disk.dest, durable.dest} \cup (Everywhere \ {NoFile}) \cup X,
         \A t \in Seeders : {disk'.backups[t], durable'.backups[t]} \subseteq Everywhere \cup {NoFile} \cup X
  PROVE  /\ \A t \in Seeders \ X : Gone(t) => Gone(t)'
         /\ Established => Established'
<1>1. Everywhere' \subseteq Everywhere \cup {NoFile} \cup X
  BY DEF Everywhere, FilesOf
<1>2. NoFile \notin Seeders
  BY DEF Fresh, Distinct, Inodes
<1>3. ASSUME Established PROVE Established'
  BY <1>1, <1>2, <1>3 DEF Established
<1> QED
  BY <1>1, <1>2, <1>3 DEF Gone

\* A seeder that has no part in a step.
LEMMA OthersStay ==
  ASSUME Fresh, KeptInv, NEW t \in Seeders, seeder'[t] = seeder[t], faults > 0 => faults' > 0,
         Gone(t) => Gone(t)', Established => Established',
         seeder[t].at \in Critical =>
           /\ disk'.dest = disk.dest /\ disk'.backups = disk.backups
           /\ \/ durable'.dest = durable.dest /\ durable'.backups = durable.backups
              \/ durable'.dest = disk.dest /\ durable'.backups = disk.backups
           /\ Settled(t) => disk'.wal \in late' \cup {NoFile}
  PROVE  Stage(t)'
<1>1. Stage(t)
  BY DEF KeptInv, StagesInv
<1>2. CASE seeder[t].at \notin Critical
  BY <1>1, <1>2 DEF Stage, Critical
<1>3. CASE seeder[t].at \in Critical
  BY <1>1, <1>3 DEF Stage, Critical, Settled
<1> QED
  BY <1>2, <1>3

\* The step of a seeder: alone in its publication, or one that moves nothing.
LEMMA StepOfSeeder ==
  ASSUME Fresh, KeptInv, NEW s \in Seeders,
         \A t \in Seeders \ {s} : seeder'[t] = seeder[t],
         seeder[s].bad => seeder'[s].bad,
         faults' \in Nat, faults > 0 => faults' > 0, late' = late,
         disk'.wal = disk.wal, durable'.wal = disk.wal, WalPlaced(disk)', durable' \in {durable, disk},
         \A t \in Seeders \ {s} : Gone(t) => Gone(t)', Established => Established',
         seeder[s].at \in Critical \/ (disk'.dest = disk.dest /\ disk'.backups = disk.backups),
         Stage(s)'
  PROVE  StagesInv'
<1>1. ASSUME NEW t \in Seeders \ {s} PROVE Stage(t)'
  <2>1. seeder'[t] = seeder[t] /\ Stage(t)
    BY DEF KeptInv, StagesInv
  <2>2. CASE seeder[s].at \in Critical
    <3>1. seeder[t].at \notin Critical
      BY <2>2 DEF KeptInv, PubInv, OnePublisher
    <3> QED
      BY <2>1, <3>1, OthersStay
  <2>3. CASE disk'.dest = disk.dest /\ disk'.backups = disk.backups
    <3>1. Settled(t) => disk'.wal \in late' \cup {NoFile}
      BY <2>1 DEF Stage, Settled
    <3> QED
      BY <2>1, <2>3, <3>1, OthersStay
  <2> QED
    BY <2>2, <2>3
<1>2. {t \in Seeders : seeder[t].bad} \subseteq {t \in Seeders : seeder'[t].bad}
  OBVIOUS
<1>3. WalPlaced(durable)'
  <2>1. WalPlaced(durable) /\ WalPlaced(disk)
    BY DEF KeptInv, StagesInv
  <2>2. CASE durable' = durable
    BY <1>2, <2>1, <2>2 DEF WalPlaced, FilesOf
  <2>3. CASE durable' = disk
    BY <1>2, <2>1, <2>3 DEF WalPlaced, FilesOf
  <2> QED
    BY <2>2, <2>3
<1>4. Counted'
  BY DEF KeptInv, StagesInv, Counted
<1> QED
  BY <1>1, <1>3, <1>4 DEF StagesInv

\* What Goes and Raises do to the seeder itself.
LEMMA GoesOnly ==
  ASSUME Typed, NEW s \in Seeders, NEW at, Goes(s, at)
  PROVE  /\ seeder'[s].at = at /\ seeder'[s].bad = seeder[s].bad /\ seeder'[s].prev = seeder[s].prev
         /\ \A t \in Seeders \ {s} : seeder'[t] = seeder[t]
  BY DEF Typed, Goes

LEMMA RaisesOnly ==
  ASSUME Typed, NEW s \in Seeders, Raises(s)
  PROVE  /\ seeder'[s].at = IF disk.backups[s] # NoFile THEN "restore" ELSE "release"
         /\ seeder'[s].bad /\ seeder'[s].prev = seeder[s].prev
         /\ \A t \in Seeders \ {s} : seeder'[t] = seeder[t]
  BY DEF Typed, Raises

\* A step that moves no file.
LEMMA StillSpread ==
  ASSUME Fresh, disk'.dest = disk.dest, disk'.backups = disk.backups, durable' \in {durable, disk}
  PROVE  (\A t \in Seeders : Gone(t) => Gone(t)') /\ (Established => Established')
<1>1. {disk'.dest, durable'.dest} \subseteq {disk.dest, durable.dest} \cup (Everywhere \ {NoFile}) \cup {}
  OBVIOUS
<1>2. \A t \in Seeders : {disk'.backups[t], durable'.backups[t]} \subseteq Everywhere \cup {NoFile} \cup {}
  BY DEF Everywhere, FilesOf
<1>3. {} \in SUBSET Seeders /\ \A t \in Seeders : t \in Seeders \ {}
  OBVIOUS
<1> QED
  BY <1>1, <1>2, <1>3, SpreadOut

LEMMA StillStep ==
  ASSUME Fresh, KeptInv, NEW s \in Seeders,
         \A t \in Seeders \ {s} : seeder'[t] = seeder[t],
         seeder[s].bad => seeder'[s].bad,
         faults' \in Nat, faults > 0 => faults' > 0, late' = late,
         disk'.dest = disk.dest, disk'.backups = disk.backups, disk'.wal = disk.wal, durable' \in {durable, disk},
         Stage(s)'
  PROVE  StagesInv'
<1>1. (\A t \in Seeders : Gone(t) => Gone(t)') /\ (Established => Established')
  BY StillSpread
<1>2. WalPlaced(disk)'
  <2>1. {t \in Seeders : seeder[t].bad} \subseteq {t \in Seeders : seeder'[t].bad}
    OBVIOUS
  <2> QED
    BY <2>1 DEF KeptInv, StagesInv, WalPlaced, FilesOf
<1>3. durable'.wal = disk.wal
  BY DEF KeptInv, StagesInv, Counted
<1> QED
  BY <1>1, <1>2, <1>3, StepOfSeeder

LEMMA LeavingStages ==
  ASSUME Fresh, KeptInv, NEW s \in Seeders, Begin(s) \/ Kill(s)
  PROVE  StagesInv'
<1>1. PICK at \in {"ready", "lock", "killed"} : Goes(s, at) /\ (at # "killed" => seeder[s].at = "idle")
  BY DEF Begin, Kill
<1>2. UNCHANGED <<disk, durable, late, faults>>
  BY DEF Begin, Kill, Looks, Rest
<1>3. /\ seeder'[s].at = at /\ seeder'[s].bad = seeder[s].bad /\ seeder'[s].prev = seeder[s].prev
      /\ \A t \in Seeders \ {s} : seeder'[t] = seeder[t]
  BY <1>1, GoesOnly DEF KeptInv, PubInv
<1>4. Stage(s) /\ faults \in Nat
  BY DEF KeptInv, StagesInv, Counted
<1>5. Gone(s) => Gone(s)'
  BY <1>2, StillSpread
<1>6. Stage(s)'
  BY <1>1, <1>3, <1>4, <1>5 DEF Stage, Unplaced, Critical
<1> QED
  BY <1>2, <1>3, <1>4, <1>6, StillStep

LEMMA RaisingStages ==
  ASSUME Fresh, KeptInv, NEW s \in Seeders, Raises(s), UNCHANGED <<disk, durable, late>>,
         faults' \in Nat, faults > 0 => faults' > 0,
         \/ seeder[s].at \in {"link", "sync_link", "replace", "sync_replace", "unlink", "sync_unlink"} /\ faults' > 0
         \/ seeder[s].at \in {"look", "look_again", "last_look"}
  PROVE  StagesInv'
<1>1. /\ seeder'[s].at = IF disk.backups[s] # NoFile THEN "restore" ELSE "release"
      /\ seeder'[s].bad /\ seeder'[s].prev = seeder[s].prev
      /\ \A t \in Seeders \ {s} : seeder'[t] = seeder[t]
  BY RaisesOnly DEF KeptInv, PubInv
<1>2. Stage(s)
  BY DEF KeptInv, StagesInv
<1>3. (Gone(s) => Gone(s)') /\ seeder[s].at \in Critical
  BY StillSpread DEF Critical
<1>4. CASE disk.backups[s] # NoFile
  <2>1. seeder[s].at \notin {"look", "link", "sync_unlink"}
    BY <1>4 DEF KeptInv, PubInv, NoneOfItsOwn
  <2>2. disk.dest \in {s, disk.backups[s]} /\ disk.backups[s] # s
    BY <1>2, <1>3, <2>1 DEF Stage
  <2>3. Stage(s)'
    BY <1>1, <1>4, <2>2 DEF Stage, Unplaced
  <2> QED
    BY <1>1, <2>3, StillStep
<1>5. CASE disk.backups[s] = NoFile
  <2>1. seeder[s].prev = NoFile \/ faults' > 0 \/ Gone(s)'
    BY <1>2, <1>3, <1>5 DEF Stage, Unplaced
  <2>2. NoFile # s
    BY DEF Fresh, Distinct, Inodes
  <2>3. Stage(s)'
    BY <1>1, <1>5, <2>1, <2>2 DEF Stage, Unplaced
  <2> QED
    BY <1>1, <2>3, StillStep
<1> QED
  BY <1>4, <1>5

LEMMA FailStages ==
  ASSUME Fresh, KeptInv, NEW s \in Seeders, Fail(s)
  PROVE  StagesInv'
<1>1. UNCHANGED <<disk, durable, late>> /\ faults' = faults + 1 /\ faults \in Nat
  BY DEF Fail, KeptInv, StagesInv, Counted
<1>2. faults' \in Nat /\ faults' > 0
  BY <1>1
<1>3. CASE Goes(s, "failed")
  <2>1. /\ seeder'[s].at = "failed" /\ seeder'[s].bad = seeder[s].bad
        /\ \A t \in Seeders \ {s} : seeder'[t] = seeder[t]
    BY <1>3, GoesOnly DEF KeptInv, PubInv
  <2>2. Stage(s)'
    BY <1>2, <2>1 DEF Stage, Unplaced, Critical
  <2> QED
    BY <1>1, <1>2, <2>1, <2>2, StillStep
<1>4. CASE seeder[s].at \in {"link", "sync_link", "replace", "sync_replace", "unlink", "sync_unlink"} /\ Raises(s)
  BY <1>1, <1>2, <1>4, RaisingStages
<1> QED
  BY <1>3, <1>4 DEF Fail

LEMMA LooksStages ==
  ASSUME Fresh, KeptInv, NEW s \in Seeders, Look(s) \/ LookAgain(s) \/ LastLook(s)
  PROVE  StagesInv'
<1>1. UNCHANGED <<disk, durable, late, faults>> /\ seeder[s].at \in {"look", "look_again", "last_look"}
  BY DEF Look, LookAgain, LastLook, Looks, Rest
<1>2. Stage(s) /\ faults \in Nat /\ seeder[s].at \in Critical
  BY <1>1 DEF KeptInv, StagesInv, Counted, Critical
<1>3. CASE Raises(s)
  BY <1>1, <1>2, <1>3, RaisingStages
<1>4. ASSUME NEW at, Goes(s, at),
             \/ seeder[s].at = "look" /\ at = "link"
             \/ seeder[s].at = "look_again" /\ at = "replace"
             \/ seeder[s].at = "last_look" /\ disk.wal = NoFile /\ at = IF disk.backups[s] # NoFile THEN "unlink" ELSE "release"
      PROVE  StagesInv'
  <2>1. /\ seeder'[s].at = at /\ seeder'[s].bad = seeder[s].bad /\ seeder'[s].prev = seeder[s].prev
        /\ \A t \in Seeders \ {s} : seeder'[t] = seeder[t]
    BY <1>4, GoesOnly DEF KeptInv, PubInv
  <2>2. (Gone(s) => Gone(s)') /\ (Established => Established')
    BY <1>1, StillSpread
  <2>3. CASE at \in {"link", "replace"}
    <3>1. Stage(s)'
      BY <1>1, <1>2, <1>4, <2>1, <2>2, <2>3 DEF Stage, Unplaced
    <3> QED
      BY <1>1, <1>2, <2>1, <3>1, StillStep
  <2>4. CASE at = "unlink"
    <3>1. Stage(s)'
      BY <1>1, <1>2, <1>4, <2>1, <2>4 DEF Stage, Unplaced
    <3> QED
      BY <1>1, <1>2, <2>1, <3>1, StillStep
  <2>5. CASE at = "release"
    <3>1. seeder[s].at = "last_look" /\ disk.backups[s] = NoFile
      BY <1>4, <2>5
    <3>2. Established
      <4>1. \A t \in Seeders : disk.backups[t] = NoFile
        BY <1>2, <3>1 DEF KeptInv, PubInv, Alone
      <4>2. disk.dest = s /\ durable.dest = s /\ durable.backups = disk.backups
        BY <1>2, <3>1 DEF Stage
      <4> QED
        BY <4>1, <4>2 DEF Established, Everywhere, FilesOf, Fresh, Distinct, Inodes
    <3>3. ~seeder[s].bad
      BY <1>2, <3>1 DEF Stage
    <3>4. Stage(s)'
      BY <1>1, <1>2, <2>1, <2>2, <2>5, <3>2, <3>3 DEF Stage, Unplaced
    <3> QED
      BY <1>1, <1>2, <2>1, <3>4, StillStep
  <2> QED
    BY <1>4, <2>3, <2>4, <2>5
<1> QED
  BY <1>3, <1>4 DEF Look, LookAgain, LastLook

LEMMA SyncStages ==
  ASSUME Fresh, KeptInv, NEW s \in Seeders,
         \/ Sync(s, "sync_lock", "look") \/ Sync(s, "sync_link", "look_again") \/ Sync(s, "sync_replace", "last_look")
         \/ Sync(s, "sync_unlink", "release") \/ Sync(s, "sync_restore", "release") \/ Finish(s)
  PROVE  StagesInv'
<1>1. UNCHANGED <<disk, late, faults>> /\ durable' = disk
  BY DEF Sync, Finish, Rest
<1>2. Stage(s) /\ faults \in Nat /\ NoFile # s
  BY DEF KeptInv, StagesInv, Counted, Fresh, Distinct, Inodes
<1>3. PICK at : Goes(s, at) /\
        \/ seeder[s].at = "sync_lock" /\ at = "look"
        \/ seeder[s].at = "sync_link" /\ at = "look_again"
        \/ seeder[s].at = "sync_replace" /\ at = "last_look"
        \/ seeder[s].at = "sync_unlink" /\ at = "release"
        \/ seeder[s].at = "sync_restore" /\ at = "release"
        \/ seeder[s].at = "sync_release" /\ at = IF seeder[s].bad THEN "failed" ELSE "ok"
  BY DEF Sync, Finish
<1>4. /\ seeder'[s].at = at /\ seeder'[s].bad = seeder[s].bad /\ seeder'[s].prev = seeder[s].prev
      /\ \A t \in Seeders \ {s} : seeder'[t] = seeder[t]
  BY <1>3, GoesOnly DEF KeptInv, PubInv
<1>5. (Gone(s) => Gone(s)') /\ (Established => Established')
  BY <1>1, StillSpread
<1>6. ASSUME seeder[s].at \in {"sync_unlink", "sync_restore"}
      PROVE  \A t \in Seeders : disk.backups[t] = NoFile
  BY <1>6 DEF KeptInv, PubInv, Alone, NoneOfItsOwn, Critical
<1>7. CASE at \in {"look", "look_again", "last_look"}
  <2>1. Stage(s)'
    BY <1>1, <1>2, <1>3, <1>4, <1>5, <1>7 DEF Stage, Unplaced, Critical
  <2> QED
    BY <1>1, <1>2, <1>4, <2>1, StillStep
<1>8. CASE seeder[s].at = "sync_unlink"
  <2>1. at = "release" /\ ~seeder[s].bad /\ disk.dest = s
    BY <1>2, <1>3, <1>8 DEF Stage
  <2>2. Established'
    BY <1>1, <1>2, <1>6, <1>8, <2>1 DEF Established, Everywhere, FilesOf
  <2>3. Stage(s)'
    BY <1>1, <1>2, <1>4, <1>6, <1>8, <2>1, <2>2 DEF Stage, Unplaced
  <2> QED
    BY <1>1, <1>2, <1>4, <2>3, StillStep
<1>9. CASE seeder[s].at = "sync_restore"
  <2>1. at = "release" /\ seeder[s].bad /\ disk.dest # s
    BY <1>2, <1>3, <1>9 DEF Stage
  <2>2. Gone(s)'
    BY <1>1, <1>2, <1>6, <1>9, <2>1 DEF Gone, Everywhere, FilesOf
  <2>3. Stage(s)'
    BY <1>1, <1>2, <1>4, <1>6, <1>9, <2>1, <2>2 DEF Stage, Unplaced
  <2> QED
    BY <1>1, <1>2, <1>4, <2>3, StillStep
<1>10. CASE seeder[s].at = "sync_release"
  <2>1. at = IF seeder[s].bad THEN "failed" ELSE "ok"
    BY <1>3, <1>10
  <2>2. Stage(s)'
    BY <1>1, <1>2, <1>4, <1>5, <1>10, <2>1 DEF Stage, Unplaced, Critical
  <2> QED
    BY <1>1, <1>2, <1>4, <2>2, StillStep
<1> QED
  BY <1>3, <1>7, <1>8, <1>9, <1>10

\* The marker made, or found; and released.
LEMMA MarkerStages ==
  ASSUME Fresh, KeptInv, NEW s \in Seeders, CreateLock(s) \/ Release(s)
  PROVE  StagesInv'
<1>1. /\ UNCHANGED <<durable, late, faults>>
      /\ disk'.dest = disk.dest /\ disk'.backups = disk.backups /\ disk'.wal = disk.wal
  BY DEF CreateLock, Release, Moves, Rest, KeptInv, PubInv, Typed, Directories
<1>2. Stage(s) /\ faults \in Nat /\ NoFile # s
  BY DEF KeptInv, StagesInv, Counted, Fresh, Distinct, Inodes
<1>3. (Gone(s) => Gone(s)') /\ (Established => Established')
  BY <1>1, StillSpread
<1>4. PICK at \in {"refused", "sync_lock", "sync_release"} :
        /\ Goes(s, at)
        /\ at = "sync_lock" => ~disk.lock
        /\ IF at = "sync_release" THEN seeder[s].at = "release" ELSE seeder[s].at = "lock"
  BY DEF CreateLock, Release
<1>5. /\ seeder'[s].at = at /\ seeder'[s].bad = seeder[s].bad /\ seeder'[s].prev = seeder[s].prev
      /\ \A t \in Seeders \ {s} : seeder'[t] = seeder[t]
  BY <1>4, GoesOnly DEF KeptInv, PubInv
<1>6. at = "sync_lock" => disk.backups[s] = NoFile
  BY <1>4 DEF KeptInv, PubInv, FailsClosed
<1>7. Stage(s)'
  <2>1. CASE at = "refused"
    BY <1>2, <1>3, <1>4, <1>5, <2>1 DEF Stage, Unplaced, Critical
  <2>2. CASE at = "sync_lock"
    BY <1>1, <1>2, <1>3, <1>4, <1>5, <1>6, <2>2 DEF Stage, Unplaced
  <2>3. CASE at = "sync_release"
    BY <1>1, <1>2, <1>3, <1>4, <1>5, <2>3 DEF Stage, Unplaced, Critical
  <2> QED
    BY <2>1, <2>2, <2>3
<1> QED
  BY <1>1, <1>2, <1>5, <1>7, StillStep

LEMMA LinkBackupStages ==
  ASSUME Fresh, KeptInv, NEW s \in Seeders, LinkBackup(s)
  PROVE  StagesInv'
<1>1. UNCHANGED <<durable, late, faults>> /\ seeder[s].at = "link" /\ seeder[s].at \in Critical
  BY DEF LinkBackup, Moves, Rest, Critical
<1>2. /\ disk'.dest = disk.dest /\ disk'.wal = disk.wal /\ disk'.backups[s] = disk.dest
      /\ \A t \in Seeders \ {s} : disk'.backups[t] = disk.backups[t]
  BY DEF LinkBackup, KeptInv, PubInv, Typed, Directories
<1>3. /\ seeder'[s].at \in {"look_again", "sync_link"} /\ seeder'[s].prev = disk.dest
      /\ seeder'[s].bad = seeder[s].bad /\ \A t \in Seeders \ {s} : seeder'[t] = seeder[t]
  BY DEF LinkBackup, KeptInv, PubInv, Typed
<1>4. /\ Stage(s) /\ faults \in Nat /\ durable.wal = disk.wal /\ WalPlaced(disk)
  BY DEF KeptInv, StagesInv, Counted
<1>5. Gone(s) /\ ~seeder[s].bad
  BY <1>1, <1>4 DEF Stage, Unplaced
<1>6. (\A t \in Seeders : Gone(t) => Gone(t)') /\ (Established => Established')
  <2>1. {disk'.dest, durable'.dest} \subseteq {disk.dest, durable.dest} \cup (Everywhere \ {NoFile}) \cup {}
    BY <1>1, <1>2
  <2>2. \A t \in Seeders : {disk'.backups[t], durable'.backups[t]} \subseteq Everywhere \cup {NoFile} \cup {}
    BY <1>1, <1>2 DEF Everywhere, FilesOf
  <2>3. {} \in SUBSET Seeders /\ \A t \in Seeders : t \in Seeders \ {}
    OBVIOUS
  <2> QED
    BY <2>1, <2>2, <2>3, SpreadOut
<1>7. WalPlaced(disk)'
  <2>1. disk.backups[s] = NoFile
    BY <1>1 DEF KeptInv, PubInv, NoneOfItsOwn
  <2>2. FilesOf(disk) \ {NoFile} \subseteq FilesOf(disk')
    BY <1>2, <2>1 DEF FilesOf
  <2>3. \A t \in Seeders : seeder[t].bad => seeder'[t].bad
    BY <1>3
  <2>4. \A t \in Seeders : seeder[t].bad <=> seeder'[t].bad
    BY <1>3
  <2>5. {t \in Seeders : seeder[t].bad} = {t \in Seeders : seeder'[t].bad}
    BY <2>4
  <2> QED
    BY <1>1, <1>2, <1>4, <2>2, <2>5 DEF WalPlaced, FilesOf
<1>8. Stage(s)'
  <2>1. Gone(s)' /\ disk.dest # s
    BY <1>5, <1>6 DEF Gone, Everywhere, FilesOf
  <2> QED
    BY <1>2, <1>3, <1>5, <2>1 DEF Stage, Unplaced
<1> QED
  BY <1>1, <1>2, <1>3, <1>4, <1>6, <1>7, <1>8, StepOfSeeder

LEMMA ReplaceStages ==
  ASSUME Fresh, KeptInv, NEW s \in Seeders, Replace(s)
  PROVE  StagesInv'
<1>1. UNCHANGED <<durable, late, faults>> /\ seeder[s].at = "replace" /\ seeder[s].at \in Critical
  BY DEF Replace, Moves, Rest, Critical
<1>2. disk'.dest = s /\ disk'.wal = disk.wal /\ disk'.backups = disk.backups
  BY DEF Replace, KeptInv, PubInv, Typed, Directories
<1>3. /\ seeder'[s].at = "sync_replace" /\ seeder'[s].bad = seeder[s].bad /\ seeder'[s].prev = seeder[s].prev
      /\ \A t \in Seeders \ {s} : seeder'[t] = seeder[t]
  BY GoesOnly DEF Replace, KeptInv, PubInv
<1>4. /\ Stage(s) /\ faults \in Nat /\ durable.wal = disk.wal /\ WalPlaced(disk)
  BY DEF KeptInv, StagesInv, Counted
<1>5. (\A t \in Seeders \ {s} : Gone(t) => Gone(t)') /\ (Established => Established')
  <2>1. {disk'.dest, durable'.dest} \subseteq {disk.dest, durable.dest} \cup (Everywhere \ {NoFile}) \cup {s}
    BY <1>1, <1>2
  <2>2. \A t \in Seeders : {disk'.backups[t], durable'.backups[t]} \subseteq Everywhere \cup {NoFile} \cup {s}
    BY <1>1, <1>2 DEF Everywhere, FilesOf
  <2>3. {s} \in SUBSET Seeders
    OBVIOUS
  <2> QED
    BY <2>1, <2>2, <2>3, SpreadOut
<1>6. WalPlaced(disk)'
  <2>1. disk.dest = disk.backups[s]
    BY <1>1, <1>4 DEF Stage
  <2>2. FilesOf(disk) \subseteq FilesOf(disk')
    BY <1>2, <2>1 DEF FilesOf
  <2>3. \A t \in Seeders : seeder[t].bad <=> seeder'[t].bad
    BY <1>3
  <2>4. {t \in Seeders : seeder[t].bad} = {t \in Seeders : seeder'[t].bad}
    BY <2>3
  <2> QED
    BY <1>1, <1>2, <1>4, <2>2, <2>4 DEF WalPlaced, FilesOf
<1>7. Stage(s)'
  <2>1. ~seeder[s].bad /\ disk.backups[s] # s /\ disk.backups[s] = seeder[s].prev
    BY <1>1, <1>4 DEF Stage, Critical
  <2> QED
    BY <1>2, <1>3, <2>1 DEF Stage, Unplaced
<1> QED
  BY <1>1, <1>2, <1>3, <1>4, <1>5, <1>6, <1>7, StepOfSeeder

LEMMA UnlinkStages ==
  ASSUME Fresh, KeptInv, NEW s \in Seeders, Unlink(s)
  PROVE  StagesInv'
<1>1. UNCHANGED <<durable, late, faults>> /\ seeder[s].at = "unlink" /\ seeder[s].at \in Critical
  BY DEF Unlink, Moves, Rest, Critical
<1>2. /\ disk'.dest = disk.dest /\ disk'.wal = disk.wal /\ disk'.backups[s] = NoFile
      /\ \A t \in Seeders \ {s} : disk'.backups[t] = disk.backups[t]
  BY DEF Unlink, KeptInv, PubInv, Typed, Directories
<1>3. /\ seeder'[s].at = "sync_unlink" /\ seeder'[s].bad = seeder[s].bad /\ seeder'[s].prev = seeder[s].prev
      /\ \A t \in Seeders \ {s} : seeder'[t] = seeder[t]
  BY GoesOnly DEF Unlink, KeptInv, PubInv
<1>4. /\ Stage(s) /\ faults \in Nat /\ durable.wal = disk.wal /\ NoFile # s
  BY DEF KeptInv, StagesInv, Counted, Fresh, Distinct, Inodes
<1>5. (\A t \in Seeders : Gone(t) => Gone(t)') /\ (Established => Established')
  <2>1. {disk'.dest, durable'.dest} \subseteq {disk.dest, durable.dest} \cup (Everywhere \ {NoFile}) \cup {}
    BY <1>1, <1>2
  <2>2. \A t \in Seeders : {disk'.backups[t], durable'.backups[t]} \subseteq Everywhere \cup {NoFile} \cup {}
    BY <1>1, <1>2 DEF Everywhere, FilesOf
  <2>3. {} \in SUBSET Seeders /\ \A t \in Seeders : t \in Seeders \ {}
    OBVIOUS
  <2> QED
    BY <2>1, <2>2, <2>3, SpreadOut
<1>6. /\ ~seeder[s].bad /\ disk.dest = s /\ durable.dest = s /\ disk.wal \in late \cup {NoFile}
  BY <1>1, <1>4 DEF Stage
<1>7. WalPlaced(disk)'
  BY <1>1, <1>2, <1>6 DEF WalPlaced
<1>8. Stage(s)'
  BY <1>1, <1>2, <1>3, <1>4, <1>6 DEF Stage, Unplaced
<1> QED
  BY <1>1, <1>2, <1>3, <1>4, <1>5, <1>7, <1>8, StepOfSeeder

LEMMA RestoreStages ==
  ASSUME Fresh, KeptInv, NEW s \in Seeders, Restore(s)
  PROVE  StagesInv'
<1>1. UNCHANGED <<durable, late, faults>> /\ seeder[s].at = "restore" /\ seeder[s].at \in Critical
  BY DEF Restore, Moves, Rest, Critical
<1>2. /\ disk'.dest = disk.backups[s] /\ disk'.wal = disk.wal /\ disk'.backups[s] = NoFile
      /\ \A t \in Seeders \ {s} : disk'.backups[t] = disk.backups[t]
  <2>1. disk.backups \in [Seeders -> Files]
    BY DEF KeptInv, PubInv, Typed, Directories
  <2>2. disk' = [disk EXCEPT !.dest = disk.backups[s], !.backups = [disk.backups EXCEPT ![s] = NoFile]]
    BY DEF Restore
  <2> QED
    BY <2>1, <2>2 DEF KeptInv, PubInv, Typed, Directories
<1>3. /\ seeder'[s].at = "sync_restore" /\ seeder'[s].bad = seeder[s].bad /\ seeder'[s].prev = seeder[s].prev
      /\ \A t \in Seeders \ {s} : seeder'[t] = seeder[t]
  BY GoesOnly DEF Restore, KeptInv, PubInv
<1>4. /\ Stage(s) /\ faults \in Nat /\ durable.wal = disk.wal /\ NoFile # s /\ WalPlaced(disk)
      /\ disk.backups[s] # NoFile
  BY <1>1 DEF KeptInv, StagesInv, Counted, Fresh, Distinct, Inodes, PubInv, HasOne
<1>5. (\A t \in Seeders : Gone(t) => Gone(t)') /\ (Established => Established')
  <2>1. {disk'.dest, durable'.dest} \subseteq {disk.dest, durable.dest} \cup (Everywhere \ {NoFile}) \cup {}
    BY <1>1, <1>2, <1>4 DEF Everywhere, FilesOf
  <2>2. \A t \in Seeders : {disk'.backups[t], durable'.backups[t]} \subseteq Everywhere \cup {NoFile} \cup {}
    BY <1>1, <1>2 DEF Everywhere, FilesOf
  <2>3. {} \in SUBSET Seeders /\ \A t \in Seeders : t \in Seeders \ {}
    OBVIOUS
  <2> QED
    BY <2>1, <2>2, <2>3, SpreadOut
<1>6. seeder[s].bad /\ disk.dest \in {s, disk.backups[s]} /\ disk.backups[s] # s
  BY <1>1, <1>4 DEF Stage, Critical
<1>7. WalPlaced(disk)'
  <2>1. FilesOf(disk) \subseteq FilesOf(disk') \cup {s}
    BY <1>2, <1>6 DEF FilesOf
  <2>2. \A t \in Seeders : seeder[t].bad <=> seeder'[t].bad
    BY <1>3
  <2>3. s \in {t \in Seeders : seeder'[t].bad} /\ {t \in Seeders : seeder[t].bad} = {t \in Seeders : seeder'[t].bad}
    BY <1>6, <2>2
  <2> QED
    BY <1>1, <1>2, <1>4, <2>1, <2>3 DEF WalPlaced, FilesOf
<1>8. Stage(s)'
  BY <1>1, <1>2, <1>3, <1>4, <1>6 DEF Stage, Unplaced
<1> QED
  BY <1>1, <1>2, <1>3, <1>4, <1>5, <1>7, <1>8, StepOfSeeder

\* The machine stops: no seeder is left on the way, and either directory comes back.
LEMMA PowerLossStages ==
  ASSUME Fresh, KeptInv, PowerLoss
  PROVE  StagesInv'
<1>1. disk' \in {disk, durable} /\ durable' = disk' /\ UNCHANGED <<late, faults>>
  BY DEF PowerLoss
<1>2. ASSUME NEW s \in Seeders
      PROVE  /\ seeder'[s].bad = seeder[s].bad /\ seeder'[s].prev = seeder[s].prev
             /\ \/ seeder'[s].at = seeder[s].at /\ seeder[s].at \in {"idle", "ready", "ok", "failed", "refused", "killed"}
                \/ seeder'[s].at = "killed"
  BY DEF PowerLoss, Running, KeptInv, PubInv, Typed
<1>3. WalPlaced(disk) /\ WalPlaced(durable) /\ Counted
  BY DEF KeptInv, StagesInv
<1>4. \A s \in Seeders : seeder[s].bad <=> seeder'[s].bad
  BY <1>2
<1>5. {t \in Seeders : seeder[t].bad} = {t \in Seeders : seeder'[t].bad}
  BY <1>4
<1>6. WalPlaced(disk)' /\ WalPlaced(durable)'
  BY <1>1, <1>3, <1>5 DEF WalPlaced, FilesOf
<1>7. Counted'
  BY <1>1, <1>3 DEF Counted
<1>8. (\A t \in Seeders : Gone(t) => Gone(t)') /\ (Established => Established')
  <2>1. {disk'.dest, durable'.dest} \subseteq {disk.dest, durable.dest} \cup (Everywhere \ {NoFile}) \cup {}
    BY <1>1
  <2>2. \A t \in Seeders : {disk'.backups[t], durable'.backups[t]} \subseteq Everywhere \cup {NoFile} \cup {}
    BY <1>1 DEF Everywhere, FilesOf
  <2>3. {} \in SUBSET Seeders /\ \A t \in Seeders : t \in Seeders \ {}
    OBVIOUS
  <2> QED
    BY <2>1, <2>2, <2>3, SpreadOut
<1>9. ASSUME NEW s \in Seeders PROVE Stage(s)'
  <2>1. Stage(s)
    BY DEF KeptInv, StagesInv
  <2> QED
    BY <1>1, <1>2, <1>8, <2>1 DEF Stage, Unplaced, Critical
<1> QED
  BY <1>6, <1>7, <1>9 DEF StagesInv

\* A writer that knows of nothing moves no file, and tells of its commits when it is too late.
LEMMA CommitStages ==
  ASSUME Fresh, KeptInv, Commit
  PROVE  StagesInv'
<1>1. UNCHANGED <<seeder, faults>> /\ writer.main # NoFile
  BY DEF Commit, WriterSteps
<1>2. disk'.dest = disk.dest /\ disk'.backups = disk.backups /\ disk'.wal = writer.main /\ durable' = disk'
  BY DEF Commit, KeptInv, PubInv, Typed, Directories
<1>3. late \subseteq late' /\ (late' \subseteq late \cup {writer.main})
      /\ ((\E s \in Seeders : Settled(s)) \/ writer.main \notin FilesOf(disk) => writer.main \in late')
  BY DEF Commit, FilesOf
<1>4. (\A t \in Seeders : Gone(t) => Gone(t)') /\ (Established => Established')
  <2>1. {disk'.dest, durable'.dest} \subseteq {disk.dest, durable.dest} \cup (Everywhere \ {NoFile}) \cup {}
    BY <1>2
  <2>2. \A t \in Seeders : {disk'.backups[t], durable'.backups[t]} \subseteq Everywhere \cup {NoFile} \cup {}
    BY <1>2 DEF Everywhere, FilesOf
  <2>3. {} \in SUBSET Seeders /\ \A t \in Seeders : t \in Seeders \ {}
    OBVIOUS
  <2> QED
    BY <2>1, <2>2, <2>3, SpreadOut
<1>5. ASSUME NEW t \in Seeders PROVE Stage(t)'
  BY <1>1, <1>2, <1>3, <1>4, OthersStay
<1>6. WalPlaced(disk)' /\ WalPlaced(durable)'
  <2>1. FilesOf(disk') = FilesOf(disk)
    BY <1>2 DEF FilesOf
  <2>2. disk'.wal \in FilesOf(disk') \cup late'
    BY <1>2, <1>3, <2>1
  <2>3. durable'.wal \in FilesOf(durable') \cup late'
    BY <1>2, <2>2
  <2> QED
    BY <2>2, <2>3 DEF WalPlaced, FilesOf
<1>7. Counted'
  <2>1. writer.main \in Inodes
    BY <1>1 DEF KeptInv, PubInv, Typed, Files
  <2> QED
    BY <1>1, <1>2, <1>3, <2>1 DEF KeptInv, StagesInv, Counted
<1> QED
  BY <1>5, <1>6, <1>7 DEF StagesInv

LEMMA CloseWriterStages ==
  ASSUME Fresh, KeptInv, CloseWriter
  PROVE  StagesInv'
<1>1. UNCHANGED <<seeder, faults, late>>
  BY DEF CloseWriter, WriterSteps
<1>2. CASE UNCHANGED <<disk, durable>>
  BY <1>1, <1>2 DEF KeptInv, StagesInv, Counted, WalPlaced, FilesOf, Stage, Gone, Established, Everywhere
<1>3. CASE disk' = [disk EXCEPT !.wal = NoFile] /\ durable' = disk'
  <2>1. disk'.dest = disk.dest /\ disk'.backups = disk.backups /\ disk'.wal = NoFile /\ durable' = disk'
    BY <1>3 DEF KeptInv, PubInv, Typed, Directories
  <2>2. (\A t \in Seeders : Gone(t) => Gone(t)') /\ (Established => Established')
    <3>1. {disk'.dest, durable'.dest} \subseteq {disk.dest, durable.dest} \cup (Everywhere \ {NoFile}) \cup {}
      BY <2>1
    <3>2. \A t \in Seeders : {disk'.backups[t], durable'.backups[t]} \subseteq Everywhere \cup {NoFile} \cup {}
      BY <2>1 DEF Everywhere, FilesOf
    <3>3. {} \in SUBSET Seeders /\ \A t \in Seeders : t \in Seeders \ {}
      OBVIOUS
    <3> QED
      BY <3>1, <3>2, <3>3, SpreadOut
  <2>3. ASSUME NEW t \in Seeders PROVE Stage(t)'
    BY <1>1, <2>1, <2>2, OthersStay
  <2>4. WalPlaced(disk)' /\ WalPlaced(durable)' /\ Counted'
    BY <1>1, <2>1 DEF WalPlaced, Counted, KeptInv, StagesInv
  <2> QED
    BY <2>3, <2>4 DEF StagesInv
<1> QED
  BY <1>2, <1>3 DEF CloseWriter

LEMMA StagesStep ==
  ASSUME Fresh, KeptInv, [PubNext]_pubvars
  PROVE  StagesInv'
<1>1. ASSUME NEW s \in Seeders, Publish(s) PROVE StagesInv'
  BY <1>1, LeavingStages, FailStages, LooksStages, SyncStages, MarkerStages, LinkBackupStages, ReplaceStages,
     UnlinkStages, RestoreStages DEF Publish
<1>2. CASE UNCHANGED <<disk, durable, seeder, late, faults>>
  BY <1>2 DEF KeptInv, StagesInv, Counted, WalPlaced, FilesOf, Stage, Gone, Established, Everywhere
<1>3. CASE OpenWriter \/ StatBefore \/ ReadMain \/ ReadWal \/ StatAfter \/ UNCHANGED pubvars
  BY <1>2, <1>3 DEF OpenWriter, WriterSteps, StatBefore, ReadMain, ReadWal, StatAfter, ReaderSteps, pubvars
<1> QED
  BY <1>1, <1>3, PowerLossStages, CommitStages, CloseWriterStages DEF PubNext

\* A WAL keeps its main beside it or as its backup, unless it was written after the last look
\* or for a generation that was taken back; and a seeder that is told of a success, of a
\* refusal or of a failure is told what the directory shows, and will show after a loss of power.
THEOREM PublicationKeeps ==
  PubSpec => [](WalKept /\ ToldRight)
<1>0. Fresh
  BY NoFileIsNoInode, PublicationAssumption DEF Fresh
<1>1. PubInit => KeptInv
  BY <1>0, PubInvHoldsAtFirst, StagesAtFirst DEF KeptInv, Fresh
<1>2. KeptInv /\ [PubNext]_pubvars => KeptInv'
  BY <1>0, PubStepKeepsInv, StagesStep DEF KeptInv, Fresh
<1>3. ASSUME KeptInv PROVE WalKept /\ ToldRight
  <2>1. WalKept
    BY <1>3 DEF KeptInv, StagesInv, WalPlaced, WalKept, Linked, FilesOf
  <2>2. ASSUME NEW s \in Seeders
        PROVE  /\ seeder[s].at = "ok" => {disk.dest, durable.dest} \subseteq Seeders
               /\ seeder[s].at = "refused" => disk.dest # s
               /\ seeder[s].at = "failed" /\ disk.dest = s => seeder[s].prev = NoFile \/ faults > 0
    <3>1. Stage(s)
      BY <1>3 DEF KeptInv, StagesInv
    <3>2. {disk.dest, durable.dest} \subseteq Everywhere
      BY DEF Everywhere, FilesOf
    <3>3. CASE seeder[s].at = "ok"
      <4>1. Established
        BY <3>1, <3>3 DEF Stage
      <4> QED
        BY <3>2, <3>3, <4>1 DEF Established
    <3>4. CASE seeder[s].at = "refused"
      BY <3>1, <3>2, <3>4 DEF Stage, Unplaced, Gone
    <3>5. CASE seeder[s].at = "failed"
      BY <3>1, <3>2, <3>5 DEF Stage, Gone
    <3> QED
      BY <3>3, <3>4, <3>5
  <2> QED
    BY <2>1, <2>2 DEF ToldRight
<1> QED
  BY <1>1, <1>2, <1>3, PTL DEF PubSpec

-----------------------------------------------------------------------------
(* Tokens.  A main that came back would have been touched on its way, and  *)
(* a WAL only grows by commits, which are counted.                         *)

\* What a reader has found is still so.
SameMain == reader.before[2] = files[reader.before[1]]
SameWal == reader.before[4] = writer.commits

\* What it has read is what there was, if nothing has changed since.
ReaderStages ==
  LET d == reader.before[1]
      f == reader.before[2]
      w == reader.before[3]
      c == reader.before[4] IN
  /\ reader.before = <<d, f, w, c>>
  /\ d \in Inodes /\ f \in [commits : Nat, touched : Nat]
  /\ f.commits <= files[d].commits /\ f.touched <= files[d].touched
  /\ f.touched = files[d].touched => disk.dest = d
  /\ w # NoFile => c \in Nat /\ c <= writer.commits /\ (SameWal => disk.wal \in {w, NoFile})
  /\ reader.was = <<<<d, f.commits>>, IF w = NoFile THEN <<NoFile, 0>> ELSE <<w, c>>>>

HasMain == SameMain => reader.main = reader.was[1]

HasDigest ==
  /\ reader.digest = <<reader.digest[1], reader.digest[2]>>
  /\ SameMain => reader.digest[1] = reader.was[1]
  /\ reader.before[3] = NoFile \/ SameWal => reader.digest[2] = reader.was[2]

TokenInv ==
  /\ files \in [Inodes -> [commits : Nat, touched : Nat]]
  /\ \A i \in Inodes : files[i].commits <= writer.commits
  /\ reader.at \in {"main", "wal", "after"} => ReaderStages
  /\ reader.at = "wal" => HasMain
  /\ reader.at = "after" => HasDigest
  /\ TokenTrue

\* The files may have been linked elsewhere, moved or grown since.
LEMMA FilesChange ==
  ASSUME TokenInv, UNCHANGED reader, writer'.commits = writer.commits,
         files' \in [Inodes -> [commits : Nat, touched : Nat]],
         \A i \in Inodes : /\ files'[i].touched >= files[i].touched
                           /\ files'[i].commits >= files[i].commits /\ files'[i].commits <= writer.commits
                           /\ files'[i].touched = files[i].touched /\ disk.dest = i => disk'.dest = i,
         disk'.wal \in {disk.wal, NoFile}
  PROVE  TokenInv'
<1>1. ASSUME reader.at \in {"main", "wal", "after"} PROVE ReaderStages' /\ (SameMain' => SameMain) /\ (SameWal' <=> SameWal)
  <2> DEFINE d == reader.before[1]
             f == reader.before[2]
             w == reader.before[3]
             c == reader.before[4]
  <2>1. /\ reader.before = <<d, f, w, c>> /\ d \in Inodes /\ f \in [commits : Nat, touched : Nat]
        /\ f.commits <= files[d].commits /\ f.touched <= files[d].touched
        /\ f.touched = files[d].touched => disk.dest = d
        /\ w # NoFile => c \in Nat /\ c <= writer.commits /\ (SameWal => disk.wal \in {w, NoFile})
        /\ reader.was = <<<<d, f.commits>>, IF w = NoFile THEN <<NoFile, 0>> ELSE <<w, c>>>>
    BY <1>1 DEF TokenInv, ReaderStages
  <2>2. /\ files[d] \in [commits : Nat, touched : Nat] /\ files'[d] \in [commits : Nat, touched : Nat]
        /\ files'[d].touched >= files[d].touched /\ files'[d].commits >= files[d].commits
        /\ files'[d].touched = files[d].touched /\ disk.dest = d => disk'.dest = d
    BY <2>1 DEF TokenInv
  <2>. HIDE DEF d, f, w, c
  <2>3. f.commits <= files'[d].commits /\ f.touched <= files'[d].touched
    BY <2>1, <2>2
  <2>n. /\ f.touched \in Nat /\ files[d].touched \in Nat /\ files'[d].touched \in Nat
        /\ f.commits \in Nat /\ files[d].commits \in Nat /\ files'[d].commits \in Nat
    BY <2>1, <2>2
  <2>4. ASSUME f.touched = files'[d].touched PROVE f.touched = files[d].touched /\ disk'.dest = d
    <3>1. f.touched = files[d].touched /\ files'[d].touched = files[d].touched
      <4>1. f.touched <= files[d].touched /\ files'[d].touched >= files[d].touched
        BY <2>1, <2>2
      <4> QED
        BY <2>n, <2>4, <4>1
    <3> QED
      BY <2>1, <2>2, <3>1
  <2>5. ASSUME f = files'[d] PROVE f = files[d]
    <3>1. f.touched = files'[d].touched /\ f.commits = files'[d].commits
      BY <2>5
    <3>2. f.touched <= files[d].touched /\ files'[d].touched >= files[d].touched
          /\ f.commits <= files[d].commits /\ files'[d].commits >= files[d].commits
      BY <2>1, <2>2
    <3>3. f.touched = files[d].touched /\ f.commits = files[d].commits
      BY <2>n, <3>1, <3>2
    <3> QED
      BY <2>1, <2>2, <3>3
  <2>6. SameMain' => SameMain
    BY <2>5 DEF SameMain, d, f
  <2>7. SameWal' <=> SameWal
    BY DEF SameWal
  <2>8. w # NoFile => c \in Nat /\ c <= writer'.commits /\ (SameWal' => disk'.wal \in {w, NoFile})
    BY <2>1, <2>7
  <2>9. ReaderStages'
    BY <2>1, <2>3, <2>4, <2>8 DEF ReaderStages, d, f, w, c
  <2> QED
    BY <2>6, <2>7, <2>9
<1>2. reader.at = "wal" => HasMain'
  BY <1>1 DEF TokenInv, HasMain
<1>3. reader.at = "after" => HasDigest'
  BY <1>1 DEF TokenInv, HasDigest
<1> QED
  BY <1>1, <1>2, <1>3 DEF TokenInv, TokenTrue

\* A step of a seeder: every file whose links it changes is touched.
LEMMA MovesToken ==
  ASSUME Distinct, Typed, TokenInv, NEW X, Touched(X), UNCHANGED <<writer, reader>>, disk'.wal = disk.wal,
         disk'.dest = disk.dest \/ disk.dest \in X \/ disk.dest = NoFile
  PROVE  TokenInv'
<1>1. \A i \in Inodes : files[i] \in [commits : Nat, touched : Nat] /\ files[i].commits <= writer.commits
  BY DEF TokenInv
<1>2. \A i \in Inodes : files'[i] = IF i \in X THEN [files[i] EXCEPT !.touched = files[i].touched + 1] ELSE files[i]
  BY DEF Touched
<1>3. ASSUME NEW i \in Inodes
      PROVE  /\ files'[i] \in [commits : Nat, touched : Nat] /\ files'[i].commits = files[i].commits
             /\ files'[i].touched = IF i \in X THEN files[i].touched + 1 ELSE files[i].touched
  <2>1. files[i] \in [commits : Nat, touched : Nat] /\ files[i].touched + 1 \in Nat
    BY <1>1
  <2>2. CASE i \in X
    <3>1. files'[i] = [files[i] EXCEPT !.touched = files[i].touched + 1]
      BY <1>2, <2>2
    <3> QED
      BY <2>1, <2>2, <3>1
  <2>3. CASE i \notin X
    BY <1>2, <2>1, <2>3
  <2> QED
    BY <2>2, <2>3
<1>4. files' \in [Inodes -> [commits : Nat, touched : Nat]]
  <2>1. files' = [i \in Inodes |-> files'[i]]
    BY DEF Touched
  <2> QED
    BY <1>3, <2>1
<1>5. ASSUME NEW i \in Inodes
      PROVE  /\ files'[i].touched >= files[i].touched
             /\ files'[i].commits >= files[i].commits /\ files'[i].commits <= writer.commits
             /\ files'[i].touched = files[i].touched /\ disk.dest = i => disk'.dest = i
  <2>1. /\ files[i].touched \in Nat /\ files[i].commits \in Nat /\ files[i].commits <= writer.commits
    BY <1>1
  <2>2. files'[i].touched >= files[i].touched /\ (files'[i].touched = files[i].touched => i \notin X)
    BY <1>3, <2>1
  <2>3. files'[i].commits >= files[i].commits /\ files'[i].commits <= writer.commits
    BY <1>3, <2>1
  <2>4. i # NoFile
    BY DEF Distinct
  <2> QED
    BY <2>2, <2>3, <2>4
<1>6. writer'.commits = writer.commits /\ UNCHANGED reader /\ disk'.wal \in {disk.wal, NoFile}
  OBVIOUS
<1> QED
  BY <1>4, <1>5, <1>6, FilesChange

\* Nothing of it is changed.
LEMMA StillToken ==
  ASSUME TokenInv, UNCHANGED <<disk, files, reader>>, writer'.commits = writer.commits
  PROVE  TokenInv'
BY DEF TokenInv, ReaderStages, HasMain, HasDigest, TokenTrue, SameMain, SameWal

LEMMA SeederToken ==
  ASSUME Distinct, Typed, TokenInv, NEW s \in Seeders, Publish(s)
  PROVE  TokenInv'
<1>t. s \in Inodes /\ NoFile \notin Inodes /\ disk \in Directories
  BY DEF Inodes, Distinct, Typed
<1>1. CASE UNCHANGED <<disk, files, reader, writer>>
  BY <1>1, StillToken
<1>2. CASE CreateLock(s)
  <2>1. Touched({}) /\ UNCHANGED <<writer, reader>> /\ disk'.wal = disk.wal /\ disk'.dest = disk.dest
    BY <1>2, <1>t DEF CreateLock, Moves, Rest, Directories
  <2> QED
    BY <2>1, MovesToken
<1>3. CASE Release(s)
  <2>1. Touched({}) /\ UNCHANGED <<writer, reader>> /\ disk'.wal = disk.wal /\ disk'.dest = disk.dest
    BY <1>3, <1>t DEF Release, Moves, Rest, Directories
  <2> QED
    BY <2>1, MovesToken
<1>4. CASE LinkBackup(s)
  <2>1. Touched({disk.dest}) /\ UNCHANGED <<writer, reader>> /\ disk'.wal = disk.wal /\ disk'.dest = disk.dest
    BY <1>4, <1>t DEF LinkBackup, Moves, Rest, Directories
  <2> QED
    BY <2>1, MovesToken
<1>5. CASE Replace(s)
  <2>1. Touched({disk.dest, s}) /\ UNCHANGED <<writer, reader>> /\ disk'.wal = disk.wal
    BY <1>5, <1>t DEF Replace, Moves, Rest, Directories
  <2>2. disk.dest \in {disk.dest, s}
    OBVIOUS
  <2> QED
    BY <2>1, <2>2, MovesToken
<1>6. CASE Unlink(s)
  <2>1. Touched({disk.backups[s]}) /\ UNCHANGED <<writer, reader>> /\ disk'.wal = disk.wal /\ disk'.dest = disk.dest
    BY <1>6, <1>t DEF Unlink, Moves, Rest, Directories
  <2> QED
    BY <2>1, MovesToken
<1>7. CASE Restore(s)
  <2>1. Touched({disk.dest, disk.backups[s]}) /\ UNCHANGED <<writer, reader>> /\ disk'.wal = disk.wal
    BY <1>7, <1>t DEF Restore, Moves, Rest, Directories
  <2>2. disk.dest \in {disk.dest, disk.backups[s]}
    OBVIOUS
  <2> QED
    BY <2>1, <2>2, MovesToken
<1> QED
  BY <1>1, <1>2, <1>3, <1>4, <1>5, <1>6, <1>7
  DEF Publish, Begin, Look, LookAgain, LastLook, Finish, Fail, Kill, Sync, Looks, Rest

\* After a commit no WAL is as it was found, and the mains are as they were.
LEMMA CommitToken ==
  ASSUME Typed, TokenInv, Commit
  PROVE  TokenInv'
<1>1. /\ writer.commits \in Nat /\ writer'.commits = writer.commits + 1
      /\ disk'.dest = disk.dest /\ UNCHANGED <<files, reader>>
  BY DEF Typed, Commit, WriterSteps, Directories
<1>2. \A i \in Inodes : files'[i].commits <= writer'.commits
  <2>1. \A i \in Inodes : files[i].commits \in Nat /\ files[i].commits <= writer.commits
    BY DEF TokenInv
  <2> QED
    BY <1>1, <2>1
<1>3. ASSUME reader.at \in {"main", "wal", "after"}
      PROVE  ReaderStages' /\ (SameMain' <=> SameMain) /\ (reader.before[3] # NoFile => ~SameWal')
  <2>1. ReaderStages
    BY <1>3 DEF TokenInv
  <2>2. reader.before[3] # NoFile =>
        reader.before[4] \in Nat /\ reader.before[4] <= writer'.commits /\ reader.before[4] # writer'.commits
    <3>1. reader.before[3] # NoFile => reader.before[4] \in Nat /\ reader.before[4] <= writer.commits
      BY <2>1 DEF ReaderStages
    <3> QED
      BY <1>1, <3>1
  <2>3. (SameMain' <=> SameMain) /\ (reader.before[3] # NoFile => ~SameWal')
    BY <1>1, <2>2 DEF SameMain, SameWal
  <2> QED
    BY <1>1, <2>1, <2>2, <2>3 DEF ReaderStages
<1>4. reader'.at = "wal" => HasMain'
  BY <1>1, <1>3 DEF TokenInv, HasMain
<1>5. reader'.at = "after" => HasDigest'
  BY <1>1, <1>3 DEF TokenInv, HasDigest
<1> QED
  BY <1>1, <1>2, <1>3, <1>4, <1>5 DEF TokenInv, TokenTrue

\* The WAL goes, into a main whose content may have been counted before.
LEMMA CloseWriterToken ==
  ASSUME Distinct, Typed, TokenInv, CloseWriter
  PROVE  TokenInv'
<1>1. writer'.commits = writer.commits /\ UNCHANGED reader /\ writer.commits \in Nat /\ writer.main \in Inodes
  BY DEF Typed, CloseWriter, WriterSteps, Files
<1>2. CASE UNCHANGED <<disk, durable, files>>
  BY <1>1, <1>2, StillToken
<1>3. CASE disk' = [disk EXCEPT !.wal = NoFile] /\ files' = [files EXCEPT ![writer.main].commits = writer.commits]
  <2>1. disk'.dest = disk.dest /\ disk'.wal = NoFile
    BY <1>3 DEF Typed, Directories
  <2>2. files \in [Inodes -> [commits : Nat, touched : Nat]] /\ \A i \in Inodes : files[i].commits <= writer.commits
    BY DEF TokenInv
  <2>3. files' \in [Inodes -> [commits : Nat, touched : Nat]]
    BY <1>1, <1>3, <2>2
  <2>4. ASSUME NEW i \in Inodes
        PROVE  /\ files'[i].touched = files[i].touched
               /\ files'[i].commits \in {files[i].commits, writer.commits}
    BY <1>1, <1>3, <2>2
  <2>5. ASSUME NEW i \in Inodes
        PROVE  /\ files'[i].touched >= files[i].touched
               /\ files'[i].commits >= files[i].commits /\ files'[i].commits <= writer.commits
    <3>1. /\ files[i].touched \in Nat /\ files[i].commits \in Nat /\ files[i].commits <= writer.commits
      BY <2>2
    <3> QED
      BY <1>1, <2>4, <3>1
  <2> QED
    BY <1>1, <2>1, <2>3, <2>5, FilesChange
<1> QED
  BY <1>2, <1>3 DEF CloseWriter

\* A loss of power ends the reading.
LEMMA PowerLossToken ==
  ASSUME Typed, TokenInv, PowerLoss
  PROVE  TokenInv'
<1>1. UNCHANGED files /\ writer'.commits = writer.commits /\ reader'.at = "idle"
  BY DEF Typed, PowerLoss
<1> QED
  BY <1>1 DEF TokenInv, TokenTrue

\* The reading itself: what it took in between is what was there at first, if that is what is there at last.
LEMMA ReaderToken ==
  ASSUME Distinct, Typed, TokenInv, StatBefore \/ ReadMain \/ ReadWal \/ StatAfter
  PROVE  TokenInv'
<1>1. UNCHANGED <<disk, files, writer>> /\ writer.commits \in Nat /\ NoFile \notin Inodes /\ disk.dest \in Inodes \cup {NoFile}
  BY DEF StatBefore, ReadMain, ReadWal, StatAfter, ReaderSteps, Typed, Distinct, Directories, Files
<1>2. files \in [Inodes -> [commits : Nat, touched : Nat]] /\ \A i \in Inodes : files[i].commits <= writer.commits
  BY DEF TokenInv
<1>3. CASE StatBefore
  <2>1. disk.dest \in Inodes /\ disk.dest # NoFile
    BY <1>1, <1>3 DEF StatBefore
  <2>2. /\ reader'.at = "main"
        /\ reader'.before = <<disk.dest, files[disk.dest], disk.wal, IF disk.wal = NoFile THEN NoFile ELSE writer.commits>>
        /\ reader'.was = <<<<disk.dest, files[disk.dest].commits>>, <<disk.wal, IF disk.wal = NoFile THEN 0 ELSE writer.commits>>>>
    BY <1>3, <2>1 DEF StatBefore, Stat, Main, Wal
  <2>3. files[disk.dest] \in [commits : Nat, touched : Nat]
    BY <1>2, <2>1
  <2>4. ReaderStages'
    BY <1>1, <2>1, <2>2, <2>3 DEF ReaderStages
  <2> QED
    BY <1>1, <1>2, <2>2, <2>4 DEF TokenInv, TokenTrue
<1>4. CASE ReadMain
  <2>1. reader.at = "main" /\ ReaderStages
    BY <1>4 DEF ReadMain, TokenInv
  <2>2. reader'.at = "wal" /\ reader'.before = reader.before /\ reader'.was = reader.was /\ reader'.main = Main
    BY <1>4 DEF ReadMain
  <2>3. ReaderStages' /\ (SameMain' <=> SameMain)
    BY <1>1, <2>1, <2>2 DEF ReaderStages, SameMain, SameWal
  <2>4. ASSUME SameMain PROVE Main = reader.was[1]
    <3>1. /\ reader.before[2].touched = files[reader.before[1]].touched /\ reader.before[1] \in Inodes
          /\ reader.was[1] = <<reader.before[1], reader.before[2].commits>>
      BY <2>1, <2>4 DEF ReaderStages, SameMain
    <3>2. disk.dest = reader.before[1] /\ disk.dest # NoFile
      BY <1>1, <2>1, <3>1 DEF ReaderStages
    <3> QED
      BY <2>4, <3>1, <3>2 DEF Main, SameMain
  <2>5. HasMain'
    BY <2>2, <2>3, <2>4 DEF HasMain
  <2> QED
    BY <1>1, <1>2, <2>2, <2>3, <2>5 DEF TokenInv, TokenTrue
<1>5. CASE ReadWal
  <2>1. reader.at = "wal" /\ ReaderStages /\ HasMain
    BY <1>5 DEF ReadWal, TokenInv
  <2>2. CASE reader' = [at |-> "idle"]
    BY <1>1, <1>2, <2>2 DEF TokenInv, TokenTrue
  <2>3. CASE ~(reader.before[3] # NoFile /\ disk.wal = NoFile)
    <3>1. /\ reader'.at = "after" /\ reader'.before = reader.before /\ reader'.was = reader.was
          /\ reader'.digest = <<reader.main, IF reader.before[3] = NoFile THEN <<NoFile, 0>> ELSE Wal>>
      BY <1>5, <2>3 DEF ReadWal
    <3>2. ReaderStages' /\ (SameMain' <=> SameMain) /\ (SameWal' <=> SameWal)
      BY <1>1, <2>1, <3>1 DEF ReaderStages, SameMain, SameWal
    <3>3. SameMain => reader'.digest[1] = reader.was[1]
      BY <2>1, <3>1 DEF HasMain
    <3>4. reader.before[3] = NoFile => reader'.digest[2] = reader.was[2]
      BY <2>1, <3>1 DEF ReaderStages
    <3>5. reader.before[3] # NoFile /\ SameWal => reader'.digest[2] = reader.was[2]
      <4>1. SUFFICES ASSUME reader.before[3] # NoFile, SameWal PROVE reader'.digest[2] = reader.was[2]
        OBVIOUS
      <4>2. disk.wal = reader.before[3] /\ reader.was[2] = <<reader.before[3], reader.before[4]>>
        BY <2>1, <2>3, <4>1 DEF ReaderStages
      <4>3. Wal = <<reader.before[3], reader.before[4]>>
        BY <4>1, <4>2 DEF Wal, SameWal
      <4> QED
        BY <3>1, <4>1, <4>2, <4>3
    <3>6. HasDigest'
      BY <3>1, <3>2, <3>3, <3>4, <3>5 DEF HasDigest
    <3> QED
      BY <1>1, <1>2, <3>1, <3>2, <3>6 DEF TokenInv, TokenTrue
  <2> QED
    BY <1>5, <2>2, <2>3 DEF ReadWal
<1>6. CASE StatAfter
  <2>1. reader.at = "after" /\ ReaderStages /\ HasDigest
    BY <1>6 DEF StatAfter, TokenInv
  <2>2. CASE reader' = [at |-> "idle"]
    BY <1>1, <1>2, <2>2 DEF TokenInv, TokenTrue
  <2>3. CASE Stat = reader.before
    <3>1. reader'.at = "token" /\ reader'.was = reader.was /\ reader'.digest = reader.digest
      BY <1>6, <2>3 DEF StatAfter
    <3>2. /\ reader.before[1] = disk.dest /\ disk.dest # NoFile /\ reader.before[2] = files[disk.dest]
          /\ reader.before[3] = disk.wal /\ (disk.wal # NoFile => reader.before[4] = writer.commits)
      <4>1. /\ reader.before[1] = disk.dest
            /\ reader.before[2] = IF disk.dest = NoFile THEN NoFile ELSE files[disk.dest]
            /\ reader.before[3] = disk.wal /\ reader.before[4] = IF disk.wal = NoFile THEN NoFile ELSE writer.commits
        BY <2>3 DEF Stat
      <4>2. reader.before[1] \in Inodes
        BY <2>1 DEF ReaderStages
      <4> QED
        BY <1>1, <4>1, <4>2
    <3>3. SameMain /\ (reader.before[3] = NoFile \/ SameWal)
      BY <3>2 DEF SameMain, SameWal
    <3>4. reader.digest[1] = reader.was[1] /\ reader.digest[2] = reader.was[2]
      BY <2>1, <3>3 DEF HasDigest
    <3>5. reader.digest = <<reader.digest[1], reader.digest[2]>>
      BY <2>1 DEF HasDigest
    <3>6. reader.was = <<reader.was[1], reader.was[2]>>
      BY <2>1 DEF ReaderStages
    <3>7. reader'.digest = reader'.was
      BY <3>1, <3>4, <3>5, <3>6
    <3> QED
      BY <1>1, <1>2, <3>1, <3>7 DEF TokenInv, TokenTrue
  <2> QED
    BY <1>6, <2>2, <2>3 DEF StatAfter
<1> QED
  BY <1>3, <1>4, <1>5, <1>6

LEMMA TokenStep ==
  ASSUME Distinct, Typed, TokenInv, [PubNext]_pubvars
  PROVE  TokenInv'
<1>1. ASSUME OpenWriter PROVE TokenInv'
  <2>1. UNCHANGED <<disk, files, reader>> /\ writer'.commits = writer.commits
    BY <1>1 DEF Typed, OpenWriter, WriterSteps
  <2> QED
    BY <2>1, StillToken
<1>2. ASSUME UNCHANGED pubvars PROVE TokenInv'
  BY <1>2, StillToken DEF pubvars
<1> QED
  BY <1>1, <1>2, SeederToken, PowerLossToken, CommitToken, CloseWriterToken, ReaderToken DEF PubNext

\* A token is the digest of a main and a WAL that were there together, whatever is
\* published, committed or lost while they are read.
THEOREM TokensAreTrue ==
  PubSpec => []TokenTrue
<1>1. PubInit => PubInv /\ TokenInv
  <2>1. PubInit => TokenInv
    BY DEF PubInit, TokenInv, TokenTrue
  <2> QED
    BY <2>1, NoFileIsNoInode, PubInvHoldsAtFirst
<1>2. PubInv /\ TokenInv /\ [PubNext]_pubvars => PubInv' /\ TokenInv'
  BY NoFileIsNoInode, PubStepKeepsInv, TokenStep DEF PubInv
<1>3. PubInv /\ TokenInv => TokenTrue
  BY DEF TokenInv
<1> QED
  BY <1>1, <1>2, <1>3, PTL DEF PubSpec

\* All that the run checks of a publication, for any number of seeders, of failing calls, of
\* commits and of readings.
THEOREM GenerationIsSafe ==
  PubSpec => []GenerationSafe
<1>1. PubSpec => []PubInv
  <2>1. PubInit => PubInv
    BY NoFileIsNoInode, PubInvHoldsAtFirst
  <2>2. PubInv /\ [PubNext]_pubvars => PubInv'
    BY NoFileIsNoInode, PubStepKeepsInv
  <2> QED
    BY <2>1, <2>2, PTL DEF PubSpec
<1>2. PubSpec => [](WalKept /\ ToldRight)
  BY PublicationKeeps
<1>3. PubSpec => []TokenTrue
  BY TokensAreTrue
<1>4. PubInv /\ WalKept /\ ToldRight /\ TokenTrue => GenerationSafe
  BY DEF PubInv, GenerationSafe
<1> QED
  BY <1>1, <1>2, <1>3, <1>4, PTL

-----------------------------------------------------------------------------
(* The mapping of a table to a source.                                     *)

\* As many numbers as a sequence has, one is the largest.
LEMMA LargestNumber ==
  ASSUME NEW n \in Nat \ {0}, NEW f \in [1..n -> Nat]
  PROVE  \E i \in 1..n : \A j \in 1..n : f[j] <= f[i]
<1> DEFINE S == {m \in Nat : m + 1 <= n => \E i \in 1..(m + 1) : \A j \in 1..(m + 1) : f[j] <= f[i]}
<1>1. 0 \in S
  <2>1. 1 \in 1..(0 + 1) /\ 1 \in 1..n /\ f[1] \in Nat /\ \A j \in 1..(0 + 1) : j = 1
    OBVIOUS
  <2>2. \A j \in 1..(0 + 1) : f[j] <= f[1]
    BY <2>1
  <2> QED
    BY <2>1, <2>2
<1>2. ASSUME NEW m \in S PROVE m + 1 \in S
  <2> SUFFICES ASSUME m + 1 + 1 <= n
               PROVE  \E i \in 1..(m + 1 + 1) : \A j \in 1..(m + 1 + 1) : f[j] <= f[i]
    OBVIOUS
  <2>1. m \in Nat /\ m + 1 <= n
    OBVIOUS
  <2>2. PICK i \in 1..(m + 1) : \A j \in 1..(m + 1) : f[j] <= f[i]
    BY <2>1
  <2> HIDE DEF S
  <2>3. /\ i \in 1..(m + 1 + 1) /\ m + 2 \in 1..(m + 1 + 1) /\ i \in 1..n /\ m + 2 \in 1..n
        /\ \A j \in 1..(m + 1 + 1) : (j \in 1..(m + 1) \/ j = m + 2) /\ j \in 1..n
    BY <2>1
  <2>4. f[i] \in Nat /\ f[m + 2] \in Nat /\ \A j \in 1..n : f[j] \in Nat
    BY <2>3
  <2>5. CASE f[m + 2] <= f[i]
    BY <2>2, <2>3, <2>5
  <2>6. CASE f[i] <= f[m + 2]
    <3>1. ASSUME NEW j \in 1..(m + 1) PROVE f[j] <= f[m + 2]
      <4>1. j \in 1..n
        BY <2>1
      <4>2. f[j] <= f[i] /\ f[j] \in Nat
        BY <2>2, <2>4, <4>1
      <4> QED
        BY <2>4, <2>6, <4>2
    <3>2. f[m + 2] <= f[m + 2]
      BY <2>4
    <3> QED
      BY <2>3, <3>1, <3>2
  <2> QED
    BY <2>4, <2>5, <2>6
<1>3. S = Nat
  <2> HIDE DEF S
  <2>1. S \in SUBSET Nat
    BY DEF S
  <2> QED
    BY <1>1, <1>2, <2>1, SetInduction
<1>4. n - 1 \in Nat /\ n - 1 + 1 = n /\ n <= n
  OBVIOUS
<1>5. n - 1 \in S
  <2> HIDE DEF S
  <2> QED
    BY <1>3, <1>4
<1>6. n - 1 + 1 <= n => \E i \in 1..(n - 1 + 1) : \A j \in 1..(n - 1 + 1) : f[j] <= f[i]
  BY Zenon, <1>5
<1> QED
  BY <1>4, <1>6

LEMMA SmallestIs ==
  ASSUME NEW n \in Nat \ {0}, NEW f \in [1..n -> Nat], NEW S, S = {f[i] : i \in 1..n}
  PROVE  /\ Sources!Smallest(S) \in Nat /\ Sources!Largest(S) \in Nat
         /\ \A i \in 1..n : Sources!Smallest(S) <= f[i] /\ f[i] < Sources!Largest(S) + 1
<1>1. S \in SUBSET Nat /\ S # {}
  <2>1. 1 \in 1..n
    OBVIOUS
  <2> QED
    BY <2>1
<1>2. \E x \in S : \A y \in S : x <= y
  BY <1>1, LeastNumber
<1>3. Sources!Smallest(S) \in S /\ \A y \in S : Sources!Smallest(S) <= y
  BY <1>2 DEF Sources!Smallest
<1>4. PICK i \in 1..n : \A j \in 1..n : f[j] <= f[i]
  BY LargestNumber
<1>5. \E x \in S : \A y \in S : x >= y
  <2>1. f[i] \in S /\ \A j \in 1..n : f[j] \in Nat
    OBVIOUS
  <2>2. \A y \in S : f[i] >= y
    BY <1>4, <2>1
  <2> QED
    BY <2>1, <2>2
<1>6. Sources!Largest(S) \in S /\ \A y \in S : Sources!Largest(S) >= y
  BY <1>5 DEF Sources!Largest
<1> DEFINE lo == Sources!Smallest(S)
           hi == Sources!Largest(S)
<1>7. lo \in Nat /\ hi \in Nat
  BY <1>1, <1>3, <1>6
<1>8. ASSUME NEW j \in 1..n PROVE lo <= f[j] /\ f[j] < hi + 1
  <2>1. f[j] \in S /\ f[j] \in Nat
    OBVIOUS
  <2>2. lo <= f[j] /\ hi >= f[j]
    BY <1>3, <1>6, <2>1
  <2> HIDE DEF lo, hi
  <2> QED
    BY <1>7, <2>1, <2>2
<1> QED
  BY <1>7, <1>8

-----------------------------------------------------------------------------
(* A table as a source.                                                    *)

MapsTable(a) ==
  /\ a.kind = "table" /\ a.rows \in Seq(ToSet(a.rows))
  /\ DOMAIN a.spec.dimensions \cap DOMAIN a.spec.measures = {}
  /\ \A m \in DOMAIN a.spec.measures : a.spec.measures[m].semantic \in {"integer", "number"}
  /\ \A row \in ToSet(a.rows) : row.at # Null /\ row.at.form = "moment" => row.at.text \in Nat

\* The event of a row.
RowFits(spec, e) ==
  /\ e.source = spec.source /\ e.at \in Nat /\ e.identities # {}
  /\ \A i \in e.identities : i[1] = spec.namespace
  /\ DOMAIN e.dimensions = DOMAIN spec.dimensions /\ DOMAIN e.measures \subseteq DOMAIN spec.measures
  /\ \A d \in DOMAIN e.dimensions : e.dimensions[d] # Null =>
       e.dimensions[d].form = IF spec.dimensions[d].semantic = "boolean" THEN "boolean" ELSE "string"
  /\ \A m \in DOMAIN e.measures : e.measures[m].form \in {"integer", spec.measures[m].semantic}

LEMMA ProjectedRow ==
  ASSUME NEW a, MapsTable(a), NEW n \in DOMAIN a.rows, NEW e, e = Sources!ProjectRow(a.spec, n, a.rows[n]), e # Bad
  PROVE  RowFits(a.spec, e)
<1> DEFINE spec == a.spec
           row == a.rows[n]
           dims == [d \in DOMAIN spec.dimensions |-> Sources!DimensionOf(spec.dimensions[d], row[d])]
           meas == [m \in {x \in DOMAIN spec.measures : row[x] # Null} |-> Sources!MeasureOf(spec.measures[m], row[m])]
           id == spec.ids[n]
           word(f) == Sources!ApplyRule(spec.rules[f], row)
           bad == \/ row.at = Null \/ row.at.form # "moment" \/ row.customer = Null
                  \/ Bad \in {word("type"), word("topic")}
                  \/ \E d \in DOMAIN dims : dims[d] = Bad
                  \/ \E m \in DOMAIN meas : meas[m] = Bad
           event == [id |-> id, evidence |-> Append(spec.prefix, id), source |-> spec.source, key |-> 100 * row.at.text + id,
                     at |-> row.at.text, customer |-> row.customer.text, type |-> word("type"), topic |-> word("topic"),
                     dimensions |-> dims, measures |-> meas, identities |-> {<<spec.namespace, row.customer.text>>}]
<1>1. e = IF bad THEN Bad ELSE event
  BY Zenon DEF Sources!ProjectRow
<1>2. ~bad /\ e = event
  <2> HIDE DEF bad, event
  <2> QED
    BY <1>1
<1>3. /\ e.source = spec.source /\ e.at = row.at.text /\ e.dimensions = dims /\ e.measures = meas
      /\ e.identities = {<<spec.namespace, row.customer.text>>}
  <2> HIDE DEF bad, word, dims, meas, id, spec, row
  <2> QED
    BY <1>2
<1>4. row \in ToSet(a.rows)
  BY DEF ToSet
<1>5. e.at \in Nat
  BY <1>2, <1>3, <1>4 DEF MapsTable
<1>6. e.identities # {} /\ \A i \in e.identities : i[1] = spec.namespace
  BY <1>3
<1>7. ASSUME NEW d \in DOMAIN dims, dims[d] # Null
      PROVE  dims[d].form = IF spec.dimensions[d].semantic = "boolean" THEN "boolean" ELSE "string"
  <2>1. dims[d] = Sources!DimensionOf(spec.dimensions[d], row[d]) /\ dims[d] # Bad
    BY <1>2
  <2> HIDE DEF dims, spec, row, bad, event
  <2>2. dims[d] = IF spec.dimensions[d].semantic = "boolean" THEN Sources!AsBool(row[d])
                  ELSE [form |-> "string", text |-> row[d].text]
    BY <1>7, <2>1 DEF Sources!DimensionOf
  <2>3. CASE spec.dimensions[d].semantic = "boolean"
    <3>1. dims[d] = Sources!AsBool(row[d])
      BY <2>2, <2>3
    <3>2. dims[d] = [form |-> "boolean", text |-> row[d].text \in Truthy]
      BY Zenon, <2>1, <3>1 DEF Sources!AsBool
    <3> QED
      BY <2>3, <3>2
  <2>4. CASE spec.dimensions[d].semantic # "boolean"
    BY <2>2, <2>4
  <2> QED
    BY <2>3, <2>4
<1>8. ASSUME NEW m \in DOMAIN meas PROVE meas[m].form \in {"integer", spec.measures[m].semantic}
  <2>1. meas[m] = Sources!MeasureOf(spec.measures[m], row[m]) /\ meas[m] # Bad /\ m \in DOMAIN spec.measures
    BY <1>2
  <2>2. spec.measures[m].semantic \in {"integer", "number"}
    BY <2>1 DEF MapsTable
  <2> HIDE DEF meas, spec, row, bad, event
  <2>3. CASE spec.measures[m].semantic = "integer"
    <3>1. meas[m] = Sources!AsInteger(row[m])
      BY <2>1, <2>3 DEF Sources!MeasureOf
    <3>2. meas[m] = [form |-> "integer", text |-> row[m].text]
      BY Zenon, <2>1, <3>1 DEF Sources!AsInteger
    <3> QED
      BY <3>2
  <2>4. CASE spec.measures[m].semantic = "number"
    <3>1. meas[m] = Sources!AsNumber(row[m])
      BY <2>1, <2>4 DEF Sources!MeasureOf
    <3>2. meas[m] = [form |-> "number", text |-> row[m].text]
      BY Zenon, <2>1, <3>1 DEF Sources!AsNumber
    <3> QED
      BY <2>4, <3>2
  <2> QED
    BY <2>2, <2>3, <2>4
<1>9. DOMAIN dims = DOMAIN spec.dimensions /\ DOMAIN meas \subseteq DOMAIN spec.measures
  OBVIOUS
<1> HIDE DEF dims, meas, row, event, bad
<1> QED
  BY <1>3, <1>5, <1>6, <1>7, <1>8, <1>9 DEF RowFits

\* A mapping and its table give a manifest that takes every event of the table and shows no
\* personal field, or no source at all.
LEMMA MappingHolds ==
  ASSUME NEW a, MapsTable(a)
  PROVE  Sources!MappingSound(a)
<1> DEFINE spec == a.spec
           rows == Sources!RowsOf(a)
           events == Sources!ToSet(rows)
           ats == {e.at : e \in events}
           personal == {d \in DOMAIN spec.dimensions : spec.dimensions[d].pii}
           m == Sources!ManifestOf(a)
           manifest == [source |-> spec.source, from |-> Sources!Smallest(ats), until |-> Sources!Largest(ats) + 1,
                        types |-> {e.type : e \in events}, topics |-> {e.topic : e \in events},
                        dimensions |-> spec.dimensions, measures |-> spec.measures,
                        masked |-> personal, namespace |-> spec.namespace]
           n == Len(a.rows)
           columns == {"at", "customer"} \cup DOMAIN spec.dimensions \cup DOMAIN spec.measures
                        \cup {spec.rules[f].column : f \in {g \in DOMAIN spec.rules : spec.rules[g].const = Null}}
           short == a.rows = << >> \/ ~columns \subseteq DOMAIN a.rows[1]
           wrong == Bad \in events \/ Sources!Cardinality({e.topic : e \in events}) > TopicsMax
           Right == /\ Sources!PolicyConsistent(m) /\ Sources!PublicFields(m) \cap m.masked = {}
                    /\ Bad \notin events /\ \A e \in events : Sources!ManifestAccepts(m, e)
<1> SUFFICES ASSUME m # Bad PROVE Right
  <2>1. ASSUME m # Bad => Right PROVE Sources!MappingSound(a)
    <3>1. \A x \in {m} \ {Bad} : x = m /\ Right
      BY <2>1
    <3> HIDE DEF m, events
    <3>2. \A x \in {m} \ {Bad} : /\ Sources!PolicyConsistent(x) /\ Sources!PublicFields(x) \cap x.masked = {}
                                 /\ a.kind = "table" => Bad \notin events /\ \A e \in events : Sources!ManifestAccepts(x, e)
      BY <3>1
    <3> QED
      BY <3>2 DEF Sources!MappingSound, m, events
  <2> QED
    BY <2>1
<1>1. a.rows # << >> /\ Bad \notin events /\ m = manifest
  <2>1. m = Sources!BuildManifest(a)
    BY DEF Sources!ManifestOf, MapsTable
  <2>2. Sources!BuildManifest(a) = IF short THEN Bad ELSE IF wrong THEN Bad ELSE manifest
    BY Zenon DEF Sources!BuildManifest
  <2>3. ~short /\ ~wrong /\ m = manifest
    <3> HIDE DEF m, short, wrong, manifest
    <3> QED
      BY <2>1, <2>2
  <2> QED
    BY <2>3
<1>2. n \in Nat \ {0} /\ DOMAIN a.rows = 1..n
  BY <1>1 DEF MapsTable
<1>3. DOMAIN rows = 1..n /\ \A i \in 1..n : rows[i] = Sources!ProjectRow(a.spec, i, a.rows[i])
  BY <1>2 DEF Sources!RowsOf
<1> HIDE DEF rows, m
<1>4. events = {rows[i] : i \in 1..n}
  BY <1>3 DEF Sources!ToSet
<1>5. /\ m.source = spec.source /\ m.from = Sources!Smallest(ats) /\ m.until = Sources!Largest(ats) + 1
      /\ m.types = {e.type : e \in events} /\ m.topics = {e.topic : e \in events}
      /\ m.dimensions = spec.dimensions /\ m.measures = spec.measures
      /\ m.masked = personal /\ m.namespace = spec.namespace
  <2> HIDE DEF ats, events, spec, personal
  <2> QED
    BY <1>1
<1> HIDE DEF manifest
<1>6. DOMAIN spec.dimensions \cap DOMAIN spec.measures = {}
  BY DEF MapsTable
<1>7. Sources!PolicyConsistent(m)
  BY <1>5, <1>6 DEF Sources!PolicyConsistent
<1>8. Sources!PublicFields(m) \cap m.masked = {}
  BY <1>5, <1>6 DEF Sources!PublicFields
<1> DEFINE at == [i \in 1..n |-> rows[i].at]
<1>9. ASSUME NEW i \in 1..n PROVE RowFits(spec, rows[i])
  <2>1. i \in DOMAIN a.rows /\ rows[i] = Sources!ProjectRow(a.spec, i, a.rows[i]) /\ rows[i] # Bad
    BY <1>1, <1>2, <1>3, <1>4
  <2> QED
    BY <2>1, ProjectedRow
<1>10. at \in [1..n -> Nat] /\ ats = {at[i] : i \in 1..n}
  <2>1. \A i \in 1..n : rows[i].at \in Nat
    BY <1>9 DEF RowFits
  <2>2. ats = {rows[i].at : i \in 1..n}
    <3> HIDE DEF events
    <3> QED
      BY <1>4
  <2> HIDE DEF ats
  <2> QED
    BY <2>1, <2>2
<1>11. \A i \in 1..n : m.from <= at[i] /\ at[i] < m.until
  <2> HIDE DEF at, ats
  <2> QED
    BY <1>2, <1>5, <1>10, SmallestIs
<1>12. ASSUME NEW i \in 1..n PROVE Sources!ManifestAccepts(m, rows[i])
  <2>1. m.from <= rows[i].at /\ rows[i].at < m.until
    BY <1>11
  <2>2. rows[i] \in events /\ rows[i].type \in m.types /\ rows[i].topic \in m.topics
    BY <1>4, <1>5
  <2> HIDE DEF events, spec
  <2> QED
    BY <1>5, <1>9, <2>1, <2>2 DEF Sources!ManifestAccepts, RowFits
<1> QED
  BY <1>1, <1>4, <1>7, <1>8, <1>12

LEMMA AdapterHolds ==
  ASSUME NEW adapters \in Adapters, NEW a \in ToSet(adapters)
  PROVE  Sources!MappingSound(a)
<1>1. CASE MapsTable(a)
  BY <1>1, MappingHolds
<1>2. CASE a.kind = "database" /\ Sources!PolicyConsistent(a.manifest)
  <2>1. Sources!ManifestOf(a) = a.manifest
    BY <1>2 DEF Sources!ManifestOf
  <2>2. Sources!PublicFields(a.manifest) \cap a.manifest.masked = {}
    BY <1>2 DEF Sources!PublicFields, Sources!PolicyConsistent
  <2> QED
    BY <1>2, <2>1, <2>2 DEF Sources!MappingSound
<1> QED
  BY <1>1, <1>2, AdaptersAssumption DEF MapsTable

-----------------------------------------------------------------------------
(* What is drawn.                                                          *)

\* A case is drawn of the kind that was chosen.
DrawnOf(kind, Cases) == input.kind = kind /\ input' = [kind |-> kind, case |-> input'.case] /\ input'.case \in Cases

QueryCases == {<<events, q>> : events \in Timelines, q \in Queries}
EdgeCases == {<<a, b>> : a, b \in SUBSET Edges}
SpreadCases == {<<n, m, limit>> : n \in 0..7, m \in 1..3, limit \in 1..3}

\* What a step of the whole draws of the kinds above, or leaves of another kind.
LEMMA DrawsAre ==
  ASSUME DataNext
  PROVE  \/ DrawnOf("query", QueryCases) \/ DrawnOf("pages", Chains)
         \/ DrawnOf("edges", EdgeCases) \/ DrawnOf("spread", SpreadCases)
         \/ input' = input
         \/ input.kind \in {"steps", "risk", "sources"} /\ input'.kind = input.kind
<1>1. CASE DrawQuery
  BY <1>1 DEF DrawQuery, Chosen, Drawn, DrawnOf, QueryCases
<1>2. CASE DrawPages
  BY <1>2 DEF DrawPages, Chosen, Drawn, DrawnOf
<1>3. CASE DrawEdges
  BY <1>3 DEF DrawEdges, Chosen, Drawn, DrawnOf, EdgeCases
<1>4. CASE DrawSpread
  BY <1>4 DEF DrawSpread, Chosen, Drawn, DrawnOf, SpreadCases
<1>5. CASE Analyses!DrawSteps
  BY <1>5 DEF Analyses!DrawSteps
<1>6. CASE Risks!DrawRisk
  BY <1>6 DEF Risks!DrawRisk
<1>7. CASE Sources!DrawSources
  BY <1>7 DEF Sources!DrawSources
<1>8. CASE UNCHANGED input
  BY <1>8
<1>9. Draws \/ UNCHANGED input
  BY DEF DataNext
<1>10. CASE Draws
  BY <1>1, <1>2, <1>3, <1>4, <1>5, <1>6, <1>7, <1>10 DEF Draws
<1> QED
  BY <1>8, <1>9, <1>10

LEMMA DrawnFirst ==
  ASSUME DataInit
  PROVE  input.case = Null
BY DEF DataInit, Init, Chosen

\* What the Tools let in from a source and what of it they show is right, of any pages
\* of any source, any edges of any two sources and the spreads that are drawn.
THEOREM PagesAreSound == DataSpec => []PagesAsDefined
<1>1. DataInit => PagesAsDefined
  BY DrawnFirst DEF PagesAsDefined, On
<1>2. PagesAsDefined /\ [DataNext]_<<vars, pubvars>> => PagesAsDefined'
  <2> SUFFICES ASSUME PagesAsDefined, [DataNext]_<<vars, pubvars>> PROVE PagesAsDefined'
    OBVIOUS
  <2>1. CASE UNCHANGED input
    BY <2>1 DEF PagesAsDefined, On
  <2>2. CASE DrawnOf("query", QueryCases)
    BY <2>2 DEF PagesAsDefined, On, DrawnOf
  <2>3. CASE DrawnOf("pages", Chains)
    <3>1. ChainSound(input'.case)
      BY <2>3, ChainHolds DEF DrawnOf
    <3> QED
      BY <2>3, <3>1 DEF PagesAsDefined, On, DrawnOf
  <2>4. CASE DrawnOf("edges", EdgeCases)
    <3>1. EdgesSound(input'.case)
      BY <2>4, EdgesHold DEF DrawnOf, EdgeCases
    <3> QED
      BY <2>4, <3>1 DEF PagesAsDefined, On, DrawnOf
  <2>5. CASE DrawnOf("spread", SpreadCases)
    <3>1. SpreadSound(input'.case)
      <4>1. PICK n \in 0..7, m \in 1..3, limit \in 1..3 : input'.case = <<n, m, limit>>
        BY <2>5 DEF DrawnOf, SpreadCases
      <4>2. SpreadSound(<<n, m, limit>>)
        BY SpreadHolds
      <4> QED
        BY <4>1, <4>2
    <3> QED
      BY <2>5, <3>1 DEF PagesAsDefined, On, DrawnOf
  <2>6. CASE input.kind \in {"steps", "risk", "sources"} /\ input'.kind = input.kind
    BY <2>6 DEF PagesAsDefined, On
  <2> QED
    BY <2>1, <2>2, <2>3, <2>4, <2>5, <2>6, DrawsAre DEF vars
<1> QED
  BY <1>1, <1>2, PTL DEF DataSpec

\* The sources that are drawn are among those there may be.
LEMMA SourcesDrawn ==
  ASSUME DataNext
  PROVE  input' = input \/ input'.kind # "sources" \/ input'.case.adapters \in Adapters
<1>1. CASE DrawQuery \/ DrawPages \/ DrawEdges \/ DrawSpread
  BY <1>1 DEF DrawQuery, DrawPages, DrawEdges, DrawSpread, Chosen, Drawn
<1>2. CASE Analyses!DrawSteps
  BY <1>2 DEF Analyses!DrawSteps
<1>3. CASE Risks!DrawRisk
  BY <1>3 DEF Risks!DrawRisk
<1>4. CASE Sources!DrawSources
  <2>1. PICK adapters \in Adapters, scope \in Scopes, read \in Reads :
          input' = [input EXCEPT !.case = [adapters |-> adapters, scope |-> scope, size |-> read.size, max |-> read.max]]
    BY <1>4 DEF Sources!DrawSources
  <2>2. input = [kind |-> "sources", case |-> Null]
    BY <1>4 DEF Sources!DrawSources
  <2>3. input'.case = [adapters |-> adapters, scope |-> scope, size |-> read.size, max |-> read.max]
    BY <2>1, <2>2
  <2> QED
    BY <2>3
<1>5. CASE UNCHANGED input
  BY <1>5
<1>6. Draws \/ UNCHANGED input
  BY DEF DataNext
<1>7. CASE Draws
  BY <1>1, <1>2, <1>3, <1>4, <1>7 DEF Draws
<1> QED
  BY <1>5, <1>6, <1>7

MappingsAsDefined == On("sources", Sources!MappingsSound)

\* What comes in from a source is what its contracts and the pages' say: of any adapters
\* that keep their own contracts, every row of a table that is mapped at all satisfies the
\* manifest made of it and no personal field is public; of any pages of any source, any
\* edges of any two sources and the spreads that are drawn, nothing is lost or made up.
THEOREM InputsAreSound == DataSpec => []InputsAsDefined
<1>1. DataInit => MappingsAsDefined
  BY DrawnFirst DEF MappingsAsDefined, On
<1>2. MappingsAsDefined /\ [DataNext]_<<vars, pubvars>> => MappingsAsDefined'
  <2> SUFFICES ASSUME MappingsAsDefined, [DataNext]_<<vars, pubvars>> PROVE MappingsAsDefined'
    OBVIOUS
  <2>1. CASE input' = input
    BY <2>1 DEF MappingsAsDefined, On
  <2>2. CASE input'.kind # "sources"
    BY <2>2 DEF MappingsAsDefined, On
  <2>3. CASE input'.case.adapters \in Adapters
    <3>1. Sources!MappingsSound(input'.case)
      BY <2>3, AdapterHolds DEF Sources!MappingsSound, Sources!ToSet, ToSet
    <3> QED
      BY <3>1 DEF MappingsAsDefined, On
  <2> QED
    BY <2>1, <2>2, <2>3, SourcesDrawn DEF vars
<1>3. PagesAsDefined /\ MappingsAsDefined => InputsAsDefined
  BY DEF InputsAsDefined, MappingsAsDefined
<1> QED
  BY <1>1, <1>2, <1>3, PagesAreSound, PTL DEF DataSpec

\* The results of a query are what its documentation promises, of any timeline and any
\* query of the modes the Tools know: summaries, repetitions, sequences and funnels, what
\* is inspected of the fields, and the evidence around an anchor.
THEOREM ResultsAreSound == DataSpec => []ResultsAsDefined
<1>1. DataInit => ResultsAsDefined
  BY DrawnFirst DEF ResultsAsDefined, On
<1>2. ResultsAsDefined /\ [DataNext]_<<vars, pubvars>> => ResultsAsDefined'
  <2> SUFFICES ASSUME ResultsAsDefined, [DataNext]_<<vars, pubvars>> PROVE ResultsAsDefined'
    OBVIOUS
  <2>1. CASE UNCHANGED input
    BY <2>1 DEF ResultsAsDefined, On
  <2>2. CASE DrawnOf("query", QueryCases)
    <3>1. PICK events \in Timelines, q \in Queries : input'.case = <<events, q>>
      BY <2>2 DEF DrawnOf, QueryCases
    <3>2. QuerySound(<<events, q>>)
      BY QueriesHold
    <3>3. QuerySound(input'.case)
      BY <3>1, <3>2
    <3> QED
      BY <2>2, <3>3 DEF ResultsAsDefined, On, DrawnOf
  <2>3. CASE DrawnOf("pages", Chains) \/ DrawnOf("edges", EdgeCases) \/ DrawnOf("spread", SpreadCases)
    BY <2>3 DEF ResultsAsDefined, On, DrawnOf
  <2>4. CASE input.kind \in {"steps", "risk", "sources"} /\ input'.kind = input.kind
    BY <2>4 DEF ResultsAsDefined, On
  <2> QED
    BY <2>1, <2>2, <2>3, <2>4, DrawsAre DEF vars
<1> QED
  BY <1>1, <1>2, PTL DEF DataSpec

LEMMA PubStep ==
  ASSUME [DataNext]_<<vars, pubvars>>
  PROVE  [PubNext]_pubvars
BY DEF DataNext, vars, pubvars

\* A behaviour of all the data is one of the publication, whatever else is drawn: no backup
\* without its marker or its database, no WAL without its main, no token of two states.
THEOREM PublicationOfAll == DataSpec => PubSpec /\ []GenerationSafe
<1>1. DataInit => PubInit
  BY DEF DataInit
<1>2. [DataNext]_<<vars, pubvars>> => [PubNext]_pubvars
  BY PubStep
<1>3. DataSpec => PubSpec
  BY <1>1, <1>2, PTL DEF DataSpec, PubSpec
<1> QED
  BY <1>3, GenerationIsSafe, PTL
=============================================================================
