---------------------------- MODULE BackupStore ----------------------------
(***************************************************************************)
(* The snapshots a node keeps of one container's data                      *)
(* (internal/server/backups_store.go): the job that archives the data to   *)
(* <uuid>.tar.gz.part, renames it to <uuid>.tar.gz and reports to the      *)
(* panel, the deletion of a snapshot, and the restores of snapshots into   *)
(* the data root (extractReaderToHost in internal/server/backups.go).      *)
(*                                                                         *)
(* An archive has up to MaxBlocks blocks; a block is named after the job   *)
(* that wrote it, so the whole archive of a job is a run of its name.  The *)
(* mounts a job or a restore works on are the leases of MountLease.        *)
(***************************************************************************)
EXTENDS Naturals, FiniteSets

CONSTANTS Jobs,         \* snapshot jobs, each is started once
          Restores,     \* restores that may run side by side
          Uuids,
          MaxBlocks,    \* bound: blocks of an archive
          MaxRestarts,  \* bound: number of restarts
          None,         \* no block, no file, no uuid
          Own           \* a block of the server's own data

Blocks == 1..MaxBlocks

Ext == {"stored", "part"}
Names == Uuids \X Ext
Inodes == 1..(Cardinality(Names) + Cardinality(Jobs) + Cardinality(Restores))
Nothing == [b \in Blocks |-> None]
INSTANCE Files WITH NoFile <- None, Empty <- Nothing

ASSUME JobsAssumption ==
  /\ None \notin Jobs \cup Uuids \cup Inodes
  /\ IsFiniteSet(Jobs) /\ IsFiniteSet(Uuids) /\ IsFiniteSet(Restores)
ASSUME BoundsAssumption == MaxBlocks \in Nat \ {0} /\ MaxRestarts \in Nat

VARIABLES
  disk,      \* the backup directory of the container
  pc,        \* where a job is
  uuid,      \* the snapshot a job makes
  size,      \* the blocks of its archive
  wrote,     \* the blocks it has written
  fd,        \* the .part file it has open
  told,      \* what became of its report: none, ok, failed, undelivered
  restorer,  \* where a restore is: idle, reading
  src,       \* the file it has open
  pos,       \* the blocks it has extracted
  data,      \* the data root: the job a block was restored from
  life,      \* number of restarts
  latest,    \* observer: the job whose success the panel was told last
  source,    \* observer: the snapshot a restore opened
  mixing,    \* observer: restores that another one ran beside
  clashed    \* observer: snapshots two jobs were making at one time

job     == <<pc, uuid, size, wrote, fd, told>>
restore == <<restorer, src, pos, data, source, mixing>>
vars    == <<disk, job, restore, life, latest, clashed>>

Init ==
  /\ disk = [name |-> [n \in Names |-> None], data |-> [i \in Inodes |-> Nothing]]
  /\ pc = [j \in Jobs |-> "idle"]
  /\ uuid = [j \in Jobs |-> None]
  /\ size \in [Jobs -> Blocks]
  /\ wrote = [j \in Jobs |-> 0]
  /\ fd = [j \in Jobs |-> None]
  /\ told = [j \in Jobs |-> "none"]
  /\ restorer = [q \in Restores |-> "idle"]
  /\ src = [q \in Restores |-> None]
  /\ pos = [q \in Restores |-> 0]
  /\ data = [b \in Blocks |-> Own]
  /\ source = [q \in Restores |-> None]
  /\ mixing = {}
  /\ life = 0
  /\ latest = [u \in Uuids |-> None]
  /\ clashed = {}

goto(j, label) == pc' = [pc EXCEPT ![j] = label]

jobFds == {fd[j] : j \in Jobs}
srcFds == {src[q] : q \in Restores}
openFds == jobFds \cup srcFds

\* The descriptors that stay open when job j or restore q closes its own.
othersFds(j) == {fd[i] : i \in Jobs \ {j}} \cup srcFds
othersSrc(q) == jobFds \cup {src[o] : o \in Restores \ {q}}

Working(j) == pc[j] \in {"lease", "create", "tar", "hung", "rename", "reportOk", "reportFailed"}

-----------------------------------------------------------------------------
(* runBackupSnapshot *)

\* POST {uuid} is answered with 202, and the job starts.
Accept(j, u) ==
  /\ pc[j] = "idle"
  /\ uuid' = [uuid EXCEPT ![j] = u]
  /\ clashed' = IF \E i \in Jobs : Working(i) /\ uuid[i] = u THEN clashed \cup {u} ELSE clashed
  /\ goto(j, "lease")
  /\ UNCHANGED <<disk, size, wrote, fd, told, restore, life, latest>>

\* ensureDataRoot: there is a data root, or the job fails.
Lease(j) ==
  /\ pc[j] = "lease"
  /\ goto(j, "create") \/ goto(j, "reportFailed")
  /\ UNCHANGED <<disk, uuid, size, wrote, fd, told, restore, life, latest, clashed>>

\* Mutant: the archive is written in its place.
target_InPlace(j) == <<uuid[j], "stored">>

target(j) == <<uuid[j], "part">>

\* Mutant: the error of os.Create is ignored.
Create_Unchecked(j) ==
  /\ pc[j] = "create"
  /\ goto(j, "tar")
  /\ \/ /\ disk' = create(disk, target(j), unused(disk, openFds))
        /\ fd' = [fd EXCEPT ![j] = disk'.name[target(j)]]
     \/ UNCHANGED <<disk, fd>>
  /\ UNCHANGED <<uuid, size, wrote, told, restore, life, latest, clashed>>

\* The directory and the .part file are made, or the job fails.
Create(j) ==
  /\ pc[j] = "create"
  /\ \/ /\ disk' = create(disk, target(j), unused(disk, openFds))
        /\ fd' = [fd EXCEPT ![j] = disk'.name[target(j)]]
        /\ goto(j, "tar")
     \/ /\ goto(j, "reportFailed")
        /\ UNCHANGED <<disk, fd>>
  /\ UNCHANGED <<uuid, size, wrote, told, restore, life, latest, clashed>>

\* tar writes the next block, at the offset of this job's descriptor.
TarBlock(j) ==
  LET b == wrote[j] + 1 IN
  /\ pc[j] = "tar"
  /\ b <= size[j]
  /\ disk' = write(disk, fd[j], [disk.data[fd[j]] EXCEPT ![b] = j])
  /\ wrote' = [wrote EXCEPT ![j] = b]
  /\ UNCHANGED <<pc, uuid, size, fd, told, restore, life, latest, clashed>>

\* The file is closed.
close(j) == fd' = [fd EXCEPT ![j] = None]

TarDone(j) ==
  /\ pc[j] = "tar"
  /\ wrote[j] = size[j]
  /\ close(j)
  /\ disk' = freed(disk, othersFds(j))
  /\ goto(j, "rename")
  /\ UNCHANGED <<uuid, size, wrote, told, restore, life, latest, clashed>>

\* Mutant: the job returns without a word.
TarFails_Silent(j) ==
  /\ pc[j] = "tar"
  /\ close(j)
  /\ disk' = freed(remove(disk, target(j)), othersFds(j))
  /\ goto(j, "done")
  /\ UNCHANGED <<uuid, size, wrote, told, restore, life, latest, clashed>>

\* What was written is thrown away, and the failure is reported.
throwAway(j) ==
  /\ close(j)
  /\ disk' = freed(remove(disk, target(j)), othersFds(j))
  /\ goto(j, "reportFailed")
  /\ UNCHANGED <<uuid, size, wrote, told, restore, life, latest, clashed>>

\* tar fails, or a block cannot be written and the rest fits into tar's pipe.
TarFails(j) ==
  /\ pc[j] = "tar"
  /\ throwAway(j)

\* A block cannot be written and io.Copy returns; nobody reads the pipe of tar any
\* more, and cmd.Wait waits for tar, which waits for room in its pipe.  The job
\* keeps its .part file and its lease.
DiskFull(j) ==
  /\ pc[j] = "tar"
  /\ wrote[j] < size[j]
  /\ goto(j, "hung")
  /\ UNCHANGED <<disk, uuid, size, wrote, fd, told, restore, life, latest, clashed>>

\* Somebody kills that tar by hand, and the job goes on.
TarKilled(j) ==
  /\ pc[j] = "hung"
  /\ throwAway(j)

\* Mutant: the error of the rename is ignored.
Rename_Unchecked(j) ==
  /\ pc[j] = "rename"
  /\ disk' \in {freed(remove(disk, target(j)), openFds)}
               \cup (IF exists(disk, target(j))
                     THEN {freed(rename(disk, target(j), <<uuid[j], "stored">>), openFds)} ELSE {})
  /\ goto(j, "reportOk")
  /\ UNCHANGED <<uuid, size, wrote, fd, told, restore, life, latest, clashed>>

\* The snapshot is stored, or the rename fails, as it does when another job of
\* this uuid has taken the .part file away.
Rename(j) ==
  /\ pc[j] = "rename"
  /\ \/ /\ exists(disk, target(j))
        /\ disk' = freed(rename(disk, target(j), <<uuid[j], "stored">>), openFds)
        /\ goto(j, "reportOk")
     \/ /\ disk' = freed(remove(disk, target(j)), openFds)
        /\ goto(j, "reportFailed")
  /\ UNCHANGED <<uuid, size, wrote, fd, told, restore, life, latest, clashed>>

\* reportBackupStatus: one attempt, which fails without a panel link or when the
\* panel does not answer.
Report(j) ==
  /\ pc[j] \in {"reportOk", "reportFailed"}
  /\ goto(j, "done")
  /\ \/ /\ told' = [told EXCEPT ![j] = IF pc[j] = "reportOk" THEN "ok" ELSE "failed"]
        /\ latest' = IF pc[j] = "reportOk" THEN [latest EXCEPT ![uuid[j]] = j] ELSE latest
     \/ /\ told' = [told EXCEPT ![j] = "undelivered"]
        /\ UNCHANGED latest
  /\ UNCHANGED <<disk, uuid, size, wrote, fd, restore, life, clashed>>

-----------------------------------------------------------------------------
(* The other requests *)

\* DELETE ?uuid=
Delete(u) ==
  /\ exists(disk, <<u, "stored">>)
  /\ disk' = freed(remove(disk, <<u, "stored">>), openFds)
  /\ UNCHANGED <<job, restore, life, latest, clashed>>

\* The data root after entries of it are removed.
without(S) == [b \in Blocks |-> IF b \in S THEN None ELSE data[b]]

reading == {q \in Restores : restorer[q] = "reading"}

\* POST {backup_uuid}: the snapshot is opened; with clean the data root is emptied
\* first, which may fail half way.  No lock keeps two restores apart.
Restore(q, u, clean) ==
  /\ restorer[q] = "idle"
  /\ exists(disk, <<u, "stored">>)
  /\ \/ /\ restorer' = [restorer EXCEPT ![q] = "reading"]
        /\ src' = [src EXCEPT ![q] = disk.name[<<u, "stored">>]]
        /\ source' = [source EXCEPT ![q] = u]
        /\ data' = IF clean THEN without(Blocks) ELSE data
        /\ mixing' = IF reading = {} THEN {} ELSE reading \cup {q}
     \/ /\ clean
        /\ \E S \in SUBSET Blocks : data' = without(S)
        /\ mixing' = reading
        /\ UNCHANGED <<restorer, src, source>>
  /\ UNCHANGED <<disk, job, pos, life, latest, clashed>>

atEnd(q) == pos[q] = MaxBlocks \/ disk.data[src[q]][pos[q] + 1] = None

ExtractBlock(q) ==
  /\ restorer[q] = "reading"
  /\ ~atEnd(q)
  /\ data' = [data EXCEPT ![pos[q] + 1] = disk.data[src[q]][pos[q] + 1]]
  /\ pos' = [pos EXCEPT ![q] = @ + 1]
  /\ UNCHANGED <<disk, job, restorer, src, source, mixing, life, latest, clashed>>

\* The archive is at its end, or extractTarGz returns an error: the request is
\* answered, and the data root stays as it is.
ExtractEnd(q) ==
  /\ restorer[q] = "reading"
  /\ restorer' = [restorer EXCEPT ![q] = "idle"]
  /\ src' = [src EXCEPT ![q] = None]
  /\ pos' = [pos EXCEPT ![q] = 0]
  /\ source' = [source EXCEPT ![q] = None]
  /\ mixing' = mixing \ {q}
  /\ disk' = freed(disk, othersSrc(q))
  /\ UNCHANGED <<data, job, life, latest, clashed>>

\* The process dies and starts again: the jobs are gone, the files stay.
RestartDaemon ==
  /\ life < MaxRestarts
  /\ life' = life + 1
  /\ pc' = [j \in Jobs |-> IF Working(j) THEN "lost" ELSE pc[j]]
  /\ fd' = [j \in Jobs |-> None]
  /\ restorer' = [q \in Restores |-> "idle"]
  /\ src' = [q \in Restores |-> None]
  /\ pos' = [q \in Restores |-> 0]
  /\ source' = [q \in Restores |-> None]
  /\ mixing' = {}
  /\ disk' = freed(disk, {})
  /\ UNCHANGED <<uuid, size, wrote, told, data, latest, clashed>>

Job(j) ==
  \/ Lease(j) \/ Create(j) \/ Rename(j) \/ Report(j)
  \/ TarBlock(j) \/ TarDone(j) \/ TarFails(j) \/ DiskFull(j)

Next ==
  \/ \E j \in Jobs : Job(j) \/ TarKilled(j) \/ \E u \in Uuids : Accept(j, u)
  \/ \E u \in Uuids : Delete(u)
  \/ \E q \in Restores :
       ExtractBlock(q) \/ ExtractEnd(q) \/ \E u \in Uuids, clean \in BOOLEAN : Restore(q, u, clean)
  \/ RestartDaemon

Spec == Init /\ [][Next]_vars

\* The goroutine of a job runs, tar writes and ends while its pipe is read, and the
\* report has a timeout.  A tar that nobody reads from is not assumed to end.
Fairness == \A j \in Jobs : WF_vars(Job(j))

FairSpec == Spec /\ Fairness
-----------------------------------------------------------------------------
\* The whole archive of a job.
whole(j) == [b \in Blocks |-> IF b <= size[j] THEN j ELSE None]

Stored(u) == exists(disk, <<u, "stored">>)
stored(u) == disk.data[disk.name[<<u, "stored">>]]

TypeOK ==
  /\ disk.name \in [Names -> Inodes \cup {None}]
  /\ disk.data \in [Inodes -> [Blocks -> Jobs \cup {None}]]
  /\ pc \in [Jobs -> {"idle", "lease", "create", "tar", "hung", "rename", "reportOk",
                      "reportFailed", "done", "lost"}]
  /\ uuid \in [Jobs -> Uuids \cup {None}]
  /\ size \in [Jobs -> Blocks]
  /\ \A j \in Jobs : wrote[j] \in 0..size[j]
  /\ fd \in [Jobs -> Inodes \cup {None}]
  /\ \A j \in Jobs : fd[j] # None <=> pc[j] \in {"tar", "hung"}
  /\ told \in [Jobs -> {"none", "ok", "failed", "undelivered"}]
  /\ restorer \in [Restores -> {"idle", "reading"}]
  /\ src \in [Restores -> Inodes \cup {None}]
  /\ pos \in [Restores -> 0..MaxBlocks]
  /\ data \in [Blocks -> Jobs \cup {None, Own}]
  /\ source \in [Restores -> Uuids \cup {None}]
  /\ mixing \subseteq Restores
  /\ life \in 0..MaxRestarts
  /\ latest \in [Uuids -> Jobs \cup {None}]
  /\ clashed \subseteq Uuids

\* A snapshot that can be downloaded or restored is the whole archive of a job,
\* also after a job failed or was killed in the middle, unless two jobs made it
\* at one time.
StoredIsWhole ==
  \A u \in Uuids \ clashed : Stored(u) => \E j \in Jobs : uuid[j] = u /\ stored(u) = whole(j)

\* What the panel was told last is true: the snapshot that is stored has the
\* checksum of that report, unless a newer one has still to be reported, or its
\* report was lost.
ReportIsTrue ==
  \A u \in Uuids \ clashed : Stored(u) /\ latest[u] # None =>
    \E j \in Jobs : /\ stored(u) = whole(j)
                    /\ j = latest[u] \/ (uuid[j] = u /\ told[j] \in {"none", "undelivered"})

\* Every restore reads one whole archive, although its snapshot may be deleted or
\* made again while it reads, and what it has extracted is that archive's, unless
\* another restore ran beside it: their blocks mix in the data root.
RestoreReadsOneArchive ==
  \A q \in Restores : restorer[q] = "reading" /\ source[q] \notin clashed =>
    \E j \in Jobs : /\ disk.data[src[q]] = whole(j)
                    /\ q \notin mixing => \A b \in 1..pos[q] : data[b] = j

\* Every job that was accepted reports to the panel, once, unless it is killed or
\* the disk fills up under its tar.
JobsReport ==
  \A j \in Jobs : pc[j] = "lease" ~> told[j] # "none" \/ pc[j] \in {"lost", "hung"}
=============================================================================
