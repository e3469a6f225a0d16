------------------------- MODULE DatabasePublication -------------------------
(***************************************************************************)
(* Publishing the managed database (data/database.py): a seeder writes a   *)
(* new main file beside the destination and puts it in its place, under an *)
(* exclusive marker and with a second link to the old main to go back to;  *)
(* a DuckDB writer nobody told may have the old main open, a reader takes  *)
(* the digest of what it sees (snapshot_token of data/repository.py), any  *)
(* system call of the publication may fail, a seeder may be killed and the *)
(* machine may lose what was not synced.                                   *)
(*                                                                         *)
(* A file is named by its inode: the seeder that wrote it, or Old.         *)
(***************************************************************************)
EXTENDS Integers, FiniteSets

CONSTANTS
  NoFile,       \* no inode: the name is not there
  Old,          \* the main file there at first, of an earlier schema
  Seeders,      \* the seeders: their names are the inodes they write
  Starters,     \* the seeders that seed only if the database is not ready
  MaxFaults,    \* system calls that fail
  MaxCommits,   \* commits of the writer
  MaxReads      \* reads of a token

\* Every seeder writes an inode of its own, which is not the one that was there.
ASSUME PublicationAssumption ==
  NoFile \notin Seeders \cup {Old} /\ Old \notin Seeders /\ Starters \subseteq Seeders

VARIABLES
  disk,      \* [lock, dest, wal, backups]: the directory
  durable,   \* the directory as it was last synced
  seeder,    \* [Seeders -> [at, bad, prev]]: the next step, an error met, what was linked
  files,     \* [inode -> [commits, touched]]: content, and the changes of its links
  writer,    \* [main, commits]: the main the writer has open
  late,      \* mains whose WAL was written after the last look of a publication
  reader,    \* [at, before, db, wal, seen]
  faults, reads

pubvars == <<disk, durable, seeder, files, writer, late, reader, faults, reads>>

Inodes == Seeders \cup {Old}

Critical == {"sync_lock", "look", "link", "sync_link", "look_again", "replace", "sync_replace", "last_look", "unlink",
             "sync_unlink", "restore", "sync_restore", "release"}

Running(s) == seeder[s].at \notin {"idle", "ready", "ok", "failed", "refused", "killed"}

\* Those past the last look of their publication.
Settled(s) == seeder[s].at \in {"unlink", "sync_unlink"}

PubInit ==
  /\ \E dest \in {NoFile, Old} : disk = [lock |-> FALSE, dest |-> dest, wal |-> NoFile, backups |-> [s \in Seeders |-> NoFile]]
  /\ durable = disk
  /\ seeder = [s \in Seeders |-> [at |-> "idle", bad |-> FALSE, prev |-> NoFile]]
  /\ files = [i \in Inodes |-> [commits |-> 0, touched |-> 0]]
  /\ writer = [main |-> NoFile, commits |-> 0]
  /\ late = {} /\ faults = 0 /\ reads = 0
  /\ reader = [at |-> "idle"]

-----------------------------------------------------------------------------
(* The steps of a seeder.                                                  *)

Goes(s, at) == seeder' = [seeder EXCEPT ![s].at = at]

\* An exception: the backup, if there is one, is restored before the marker is released.
Raises(s) == seeder' = [seeder EXCEPT ![s].at = IF disk.backups[s] # NoFile THEN "restore" ELSE "release", ![s].bad = TRUE]

Touched(inodes) == files' = [i \in Inodes |-> IF i \in inodes THEN [files[i] EXCEPT !.touched = @ + 1] ELSE files[i]]

Rest == UNCHANGED <<writer, late, reader, faults, reads>>
Looks == UNCHANGED <<disk, durable, files>> /\ Rest
Moves(inodes) == Touched(inodes) /\ UNCHANGED durable /\ Rest

\* is_database_ready, of the current generation and with its rows: a writer that has the main
\* open keeps a reader out, and what was committed may have changed the number of rows.
Readable == disk.dest \in Seeders /\ writer.main # disk.dest
Unchanged == files[disk.dest].commits = 0 /\ disk.wal = NoFile

\* seed_database, for a starting API only if is_database_ready says no.
Begin(s) ==
  /\ seeder[s].at = "idle"
  /\ \/ s \in Starters /\ Readable /\ Goes(s, "ready")
     \/ ~(s \in Starters /\ Readable /\ Unchanged) /\ Goes(s, "lock")
  /\ Looks

\* _create_publication_lock: O_EXCL.
CreateLock(s) ==
  /\ seeder[s].at = "lock"
  /\ IF disk.lock THEN Goes(s, "refused") /\ UNCHANGED disk ELSE Goes(s, "sync_lock") /\ disk' = [disk EXCEPT !.lock = TRUE]
  /\ Moves({})

\* _sync_directory, and what comes next.
Sync(s, at, next) ==
  /\ seeder[s].at = at /\ durable' = disk /\ Goes(s, next)
  /\ UNCHANGED <<disk, files>> /\ Rest

Look(s) ==
  /\ seeder[s].at = "look"
  /\ IF disk.wal # NoFile \/ \E t \in Seeders : disk.backups[t] # NoFile THEN Raises(s) ELSE Goes(s, "link")
  /\ Looks

LinkBackup(s) ==
  /\ seeder[s].at = "link"
  /\ seeder' = [seeder EXCEPT ![s].at = IF disk.dest = NoFile THEN "look_again" ELSE "sync_link", ![s].prev = disk.dest]
  /\ disk' = [disk EXCEPT !.backups[s] = disk.dest]
  /\ Moves({disk.dest})

LookAgain(s) ==
  /\ seeder[s].at = "look_again"
  /\ IF disk.wal # NoFile THEN Raises(s) ELSE Goes(s, "replace")
  /\ Looks

Replace(s) ==
  /\ seeder[s].at = "replace"
  /\ disk' = [disk EXCEPT !.dest = s] /\ Goes(s, "sync_replace")
  /\ Moves({disk.dest, s})

\* Mutant of LastLook: once it is in its place the new main is not looked at again.
LastLookSkipped(s) ==
  /\ seeder[s].at = "last_look"
  /\ Goes(s, IF disk.backups[s] # NoFile THEN "unlink" ELSE "release")
  /\ Looks

LastLook(s) ==
  /\ seeder[s].at = "last_look"
  /\ IF disk.wal # NoFile THEN Raises(s) ELSE Goes(s, IF disk.backups[s] # NoFile THEN "unlink" ELSE "release")
  /\ Looks

Unlink(s) ==
  /\ seeder[s].at = "unlink"
  /\ disk' = [disk EXCEPT !.backups[s] = NoFile] /\ Goes(s, "sync_unlink")
  /\ Moves({disk.backups[s]})

\* _restore_publication_backup: the second link goes, or goes back in its place.
Restore(s) ==
  /\ seeder[s].at = "restore"
  /\ disk' = [disk EXCEPT !.dest = disk.backups[s], !.backups[s] = NoFile] /\ Goes(s, "sync_restore")
  /\ Moves({disk.dest, disk.backups[s]})

Release(s) ==
  /\ seeder[s].at = "release"
  /\ disk' = [disk EXCEPT !.lock = FALSE] /\ Goes(s, "sync_release")
  /\ Moves({})

Finish(s) == Sync(s, "sync_release", IF seeder[s].bad THEN "failed" ELSE "ok")

\* A system call that fails: on the way the publication is given up, in the rollback
\* the marker and the backup stay, before the marker is owned and after it is gone
\* there is nothing left to undo.
Fail(s) ==
  /\ faults < MaxFaults /\ faults' = faults + 1
  /\ CASE seeder[s].at \in {"lock", "sync_lock", "sync_release", "release", "restore", "sync_restore"} -> Goes(s, "failed")
       [] seeder[s].at \in {"link", "sync_link", "replace", "sync_replace", "unlink", "sync_unlink"} -> Raises(s)
       [] OTHER -> FALSE
  /\ UNCHANGED <<disk, durable, files, writer, late, reader, reads>>

Kill(s) == Running(s) /\ Goes(s, "killed") /\ Looks

Publish(s) ==
  \/ Begin(s) \/ CreateLock(s) \/ Look(s) \/ LinkBackup(s) \/ LookAgain(s) \/ Replace(s) \/ LastLook(s)
  \/ Unlink(s) \/ Restore(s) \/ Release(s) \/ Finish(s) \/ Fail(s) \/ Kill(s)
  \/ Sync(s, "sync_lock", "look") \/ Sync(s, "sync_link", "look_again") \/ Sync(s, "sync_replace", "last_look")
  \/ Sync(s, "sync_unlink", "release") \/ Sync(s, "sync_restore", "release")

\* The machine stops: a change of the directory that was not synced may be lost.
PowerLoss ==
  /\ \E s \in Seeders : Running(s)
  /\ disk' \in {disk, durable} /\ durable' = disk'
  /\ seeder' = [s \in Seeders |-> [seeder[s] EXCEPT !.at = IF Running(s) THEN "killed" ELSE @]]
  /\ writer' = [writer EXCEPT !.main = NoFile] /\ reader' = [at |-> "idle"]
  /\ UNCHANGED <<files, late, faults, reads>>

-----------------------------------------------------------------------------
(* A writer that knows nothing of the marker, and a reader.                *)

WriterSteps == UNCHANGED <<seeder, reader, faults, reads>>

\* It opens the main, with the WAL beside it.
OpenWriter ==
  /\ writer.main = NoFile /\ disk.dest # NoFile /\ disk.wal \in {NoFile, disk.dest}
  /\ writer.commits < MaxCommits /\ writer' = [writer EXCEPT !.main = disk.dest]
  /\ UNCHANGED <<disk, durable, files, late>> /\ WriterSteps

\* A commit is in the WAL and synced, and with it all that was done to its directory before.
Commit ==
  /\ writer.main # NoFile /\ writer.commits < MaxCommits /\ writer' = [writer EXCEPT !.commits = @ + 1]
  /\ disk' = [disk EXCEPT !.wal = writer.main] /\ durable' = disk'
  /\ late' = late \cup (IF \/ \E s \in Seeders : Settled(s)
                           \/ writer.main \notin {disk.dest} \cup {disk.backups[s] : s \in Seeders}
                        THEN {writer.main} ELSE {})
  /\ UNCHANGED files /\ WriterSteps

\* It closes: the WAL goes into the main it was opened with.
CloseWriter ==
  /\ writer.main # NoFile /\ writer' = [writer EXCEPT !.main = NoFile]
  /\ IF disk.wal = writer.main
     THEN /\ disk' = [disk EXCEPT !.wal = NoFile] /\ durable' = disk'
          /\ files' = [files EXCEPT ![writer.main].commits = writer.commits]
     ELSE UNCHANGED <<disk, durable, files>>
  /\ UNCHANGED late /\ WriterSteps

\* Device, inode, size and times: the times change with the content and with the links.
Stat == <<disk.dest, IF disk.dest = NoFile THEN NoFile ELSE files[disk.dest],
          disk.wal, IF disk.wal = NoFile THEN NoFile ELSE writer.commits>>

\* What a digest tells apart.
Main == <<disk.dest, IF disk.dest = NoFile THEN 0 ELSE files[disk.dest].commits>>
Wal == <<disk.wal, IF disk.wal = NoFile THEN 0 ELSE writer.commits>>

ReaderSteps == UNCHANGED <<disk, durable, seeder, files, writer, late, faults>>

StatBefore ==
  /\ reader.at = "idle" /\ reads < MaxReads /\ reads' = reads + 1 /\ disk.dest # NoFile
  /\ reader' = [at |-> "main", before |-> Stat, was |-> <<Main, Wal>>] /\ ReaderSteps

ReadMain ==
  /\ reader.at = "main" /\ UNCHANGED reads
  /\ reader' = [at |-> "wal", before |-> reader.before, was |-> reader.was, main |-> Main] /\ ReaderSteps

\* A WAL that was there and is gone starts the reading anew.
ReadWal ==
  /\ reader.at = "wal" /\ UNCHANGED reads
  /\ reader' = IF reader.before[3] # NoFile /\ disk.wal = NoFile THEN [at |-> "idle"]
               ELSE [at |-> "after", before |-> reader.before, was |-> reader.was,
                     digest |-> <<reader.main, IF reader.before[3] = NoFile THEN <<NoFile, 0>> ELSE Wal>>]
  /\ ReaderSteps

\* The same state as before: the digest is the token.
StatAfter ==
  /\ reader.at = "after" /\ UNCHANGED reads
  /\ reader' = IF Stat = reader.before THEN [at |-> "token", was |-> reader.was, digest |-> reader.digest] ELSE [at |-> "idle"]
  /\ ReaderSteps

PubNext ==
  \/ \E s \in Seeders : Publish(s)
  \/ PowerLoss \/ OpenWriter \/ Commit \/ CloseWriter \/ StatBefore \/ ReadMain \/ ReadWal \/ StatAfter

PubSpec == PubInit /\ [][PubNext]_pubvars

-----------------------------------------------------------------------------
Linked == {disk.dest} \cup {disk.backups[s] : s \in Seeders}

\* One publication at a time, from the marker on.
OnePublisher == \A s, t \in Seeders : seeder[s].at \in Critical /\ seeder[t].at \in Critical => s = t

\* A backup is never left without the marker that stops the next seeder, on the disk as it would come back.
FailsClosed == \A d \in {disk, durable} : (\E s \in Seeders : d.backups[s] # NoFile) => d.lock

\* A WAL never loses the main it was written for, unless it came after the last look or
\* was written for a generation that was then taken back.
WalKept == disk.wal # NoFile => disk.wal \in Linked \cup late \cup {s \in Seeders : seeder[s].bad}

\* While there is a backup to go back to, the database is there, and is after a loss of power.
NeverMissing == \A s \in Seeders : disk.backups[s] # NoFile => disk.dest # NoFile /\ durable.dest # NoFile

\* What a seeder is told: the new generation is there to stay, or the one before it,
\* unless a call of the very publication failed as well.
ToldRight ==
  \A s \in Seeders :
    /\ seeder[s].at = "ok" => {disk.dest, durable.dest} \subseteq Seeders
    /\ seeder[s].at = "refused" => disk.dest # s
    /\ seeder[s].at = "failed" /\ disk.dest = s => seeder[s].prev = NoFile \/ faults > 0

\* A token is the digest of a main and a WAL that were there together.
TokenTrue == reader.at = "token" => reader.digest = reader.was

\* A publication is one at a time, fails closed, loses no commit it could have seen and says
\* what it did; a token is of a state the database was in.
GenerationSafe == OnePublisher /\ FailsClosed /\ WalKept /\ NeverMissing /\ ToldRight /\ TokenTrue
=============================================================================
