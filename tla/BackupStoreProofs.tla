------------------------- MODULE BackupStoreProofs --------------------------
(***************************************************************************)
(* The snapshots of BackupStore, for any jobs, snapshots and sizes of      *)
(* archive.  Two jobs write into one file only when they make one snapshot *)
(* at one time; else the .part file is the job's own until it has the name *)
(* of the snapshot, and what has that name is not written to any more,     *)
(* which is also why a restore may go on reading it.                       *)
(***************************************************************************)
EXTENDS BackupStore, FiniteSetTheorems, TLAPS

\* The .part file of a snapshot.
part(u) == disk.name[<<u, "part">>]

\* The first n blocks of the archive of job j.
blocks(j, n) == [b \in Blocks |-> IF b <= n THEN j ELSE None]

Labels == {"idle", "lease", "create", "tar", "hung", "rename", "reportOk", "reportFailed", "done", "lost"}

\* A job that has its file open.
Open(j) == pc[j] \in {"tar", "hung"}

\* A step of a job, also of one whose tar is killed by hand.
Acts(j) == Job(j) \/ TarKilled(j)

\* What a job and a restore hold at each place; restores that run side by side
\* are noticed.
Shape ==
  /\ TypeOK
  /\ wrote \in [Jobs -> Nat]
  /\ \A j \in Jobs : /\ pc[j] # "idle" => uuid[j] \in Uuids
                     /\ pc[j] \in {"idle", "lease", "create"} => wrote[j] = 0
                     /\ Working(j) \/ pc[j] = "idle" => told[j] = "none"
  /\ \A q \in Restores : IF restorer[q] = "reading" THEN src[q] \in Inodes /\ source[q] \in Uuids
                                                   ELSE src[q] = None /\ source[q] = None /\ pos[q] = 0
  /\ \A q, o \in reading : q # o => q \in mixing

\* At most one job is making a snapshot whose jobs never met.
Solo ==
  \A i, j \in Jobs :
    Working(i) /\ Working(j) /\ uuid[i] = uuid[j] /\ uuid[i] \notin clashed => i = j

\* Two names never stand for one file; a file that a job has open keeps to the
\* names of its snapshot, and is the .part file unless two jobs met there.
NamesApart ==
  /\ \A m, n \in Names : exists(disk, m) /\ disk.name[m] = disk.name[n] => m = n
  /\ \A j \in Jobs, n \in Names : Open(j) /\ disk.name[n] = fd[j] => n[1] = uuid[j]
  /\ \A j \in Jobs : Open(j) /\ uuid[j] \notin clashed => fd[j] = part(uuid[j])

\* The file a restore reads is the stored one of its snapshot or has no name any
\* more, and no job writes into it.
SourceApart ==
  \A q \in reading :
    /\ \A n \in Names : disk.name[n] = src[q] => n = <<source[q], "stored">>
    /\ \A j \in Jobs : fd[j] = src[q] => source[q] \in clashed

\* What a job has written is in the .part file.
Written ==
  \A j \in Jobs : uuid[j] \notin clashed =>
    /\ pc[j] = "tar" => disk.data[fd[j]] = blocks(j, wrote[j])
    /\ pc[j] = "rename" => part(uuid[j]) # None /\ disk.data[part(uuid[j])] = whole(j)

\* A job whose archive can be the stored one, and what the panel knows of it.
Source(u, j) ==
  /\ uuid[j] = u
  /\ pc[j] \in {"reportOk", "done", "lost"}
  /\ stored(u) = whole(j)
  /\ told[j] \in {"none", "undelivered"} \/ latest[u] = j

\* What is stored has such a job; a job that has yet to report its success is it.
StoredHasSource ==
  \A u \in Uuids \ clashed : Stored(u) =>
    /\ \E j \in Jobs : Source(u, j)
    /\ \A j \in Jobs : pc[j] = "reportOk" /\ uuid[j] = u => stored(u) = whole(j)

\* The inductive invariant.
BackupInv ==
  Shape /\ Solo /\ NamesApart /\ SourceApart /\ Written /\ StoredHasSource /\ RestoreReadsOneArchive

-----------------------------------------------------------------------------
\* The directory is well formed.
DiskType ==
  /\ disk.name \in [Names -> Inodes \cup {None}]
  /\ disk.data \in [Inodes -> [Blocks -> Jobs \cup {None}]]

\* A step leaves the data of the files in S and of those that have a name.
Kept(S) ==
  \A i \in Inodes : i \in S \/ (\E n \in Names : disk'.name[n] = i) => disk'.data[i] = disk.data[i]

\* No name is given to a file by a step.
NoNewName == \A n \in Names : disk'.name[n] \in {disk.name[n], None}

\* A file that was just created is a file, and no file is None.
LEMMA NothingType == Nothing \in [Blocks -> Jobs \cup {None}] /\ None \notin Inodes
BY JobsAssumption DEF Nothing

\* The two names of a snapshot.
LEMMA PathTypes == \A u \in Uuids : <<u, "part">> \in Names /\ <<u, "stored">> \in Names
BY DEF Names, Ext

\* Closing a file.
LEMMA FreedEffect ==
  ASSUME DiskType, NEW S, disk' = freed(disk, S)
  PROVE  DiskType' /\ disk'.name = disk.name /\ Kept(S)
BY NothingType DEF DiskType, freed, Kept

\* Removing a name.
LEMMA RemoveEffect ==
  ASSUME DiskType, NEW S, NEW n \in Names, disk' = freed(remove(disk, n), S)
  PROVE  DiskType' /\ disk'.name = [disk.name EXCEPT ![n] = None] /\ Kept(S)
<1>1. disk'.name = [disk.name EXCEPT ![n] = None]
  BY DEF freed, remove
<1>2. disk'.data = [i \in Inodes |-> IF i \in S \/ \E m \in Names : disk'.name[m] = i
                                     THEN disk.data[i] ELSE Nothing]
  BY <1>1 DEF freed, remove
<1> QED
  BY <1>1, <1>2, NothingType DEF DiskType, Kept

\* Renaming a file.
LEMMA RenameEffect ==
  ASSUME DiskType, NEW S, NEW a \in Names, NEW b \in Names, disk' = freed(rename(disk, a, b), S)
  PROVE  /\ DiskType'
         /\ disk'.name = [disk.name EXCEPT ![b] = disk.name[a], ![a] = None]
         /\ Kept(S)
<1>1. disk'.name = [disk.name EXCEPT ![b] = disk.name[a], ![a] = None]
  BY DEF freed, rename
<1>2. disk'.data = [i \in Inodes |-> IF i \in S \/ \E m \in Names : disk'.name[m] = i
                                     THEN disk.data[i] ELSE Nothing]
  BY <1>1 DEF freed, rename
<1> QED
  BY <1>1, <1>2, NothingType DEF DiskType, Kept

\* Every job but one may have a file open, the restore another, every name may
\* stand for one, and a file is left.
LEMMA OneIsUnused ==
  ASSUME Shape, NEW j \in Jobs, fd[j] = None
  PROVE  LET i == unused(disk, openFds)
         IN i \in Inodes /\ i \notin openFds /\ \A n \in Names : disk.name[n] # i
<1> DEFINE named == {disk.name[n] : n \in Names}
           used == openFds \cup named
<1> USE DEF Shape, TypeOK
<1>1. /\ IsFiniteSet(Jobs) /\ Cardinality(Jobs) \in Nat
      /\ IsFiniteSet(Restores) /\ Cardinality(Restores) \in Nat
  BY JobsAssumption, FS_CardinalityType
<1>2. IsFiniteSet(Names) /\ Cardinality(Names) \in Nat
  <2>1. IsFiniteSet({"stored"}) /\ IsFiniteSet({"part"})
    BY FS_Singleton
  <2>2. Ext = {"stored"} \cup {"part"}
    BY DEF Ext
  <2>3. IsFiniteSet(Ext)
    BY <2>1, <2>2, FS_Union
  <2> QED
    BY <2>3, JobsAssumption, FS_Product, FS_CardinalityType DEF Names
<1>3. /\ IsFiniteSet(jobFds) /\ Cardinality(jobFds) <= Cardinality(Jobs)
      /\ IsFiniteSet(srcFds) /\ Cardinality(srcFds) <= Cardinality(Restores)
  <2>1. [i \in Jobs |-> fd[i]] \in Surjection(Jobs, jobFds)
    BY DEF Surjection, jobFds
  <2>2. [q \in Restores |-> src[q]] \in Surjection(Restores, srcFds)
    BY DEF Surjection, srcFds
  <2> QED
    BY <1>1, <2>1, <2>2, FS_Surjection
<1>4. IsFiniteSet(named) /\ Cardinality(named) <= Cardinality(Names)
  <2>1. [n \in Names |-> disk.name[n]] \in Surjection(Names, named)
    BY DEF Surjection
  <2> QED
    BY <1>2, <2>1, FS_Surjection
<1>5. IsFiniteSet(openFds) /\ Cardinality(openFds) <= Cardinality(Jobs) + Cardinality(Restores)
  <2>1. /\ IsFiniteSet(openFds)
        /\ Cardinality(openFds) = Cardinality(jobFds) + Cardinality(srcFds) - Cardinality(jobFds \cap srcFds)
    BY <1>3, FS_Union DEF openFds
  <2>2. Cardinality(jobFds \cap srcFds) \in Nat
    BY <1>3, FS_Intersection, FS_CardinalityType
  <2>3. Cardinality(jobFds) \in Nat /\ Cardinality(srcFds) \in Nat
    BY <1>3, FS_CardinalityType
  <2> QED
    BY <1>1, <1>3, <2>1, <2>2, <2>3
<1>6. IsFiniteSet(used) /\ Cardinality(used) <= Cardinality(Jobs) + Cardinality(Restores) + Cardinality(Names)
  <2>1. /\ IsFiniteSet(used)
        /\ Cardinality(used) = Cardinality(openFds) + Cardinality(named) - Cardinality(openFds \cap named)
    BY <1>4, <1>5, FS_Union
  <2>2. Cardinality(openFds \cap named) \in Nat
    BY <1>5, FS_Intersection, FS_CardinalityType
  <2>3. Cardinality(openFds) \in Nat /\ Cardinality(named) \in Nat
    BY <1>4, <1>5, FS_CardinalityType
  <2> QED
    BY <1>1, <1>2, <1>4, <1>5, <2>1, <2>2, <2>3
<1>7. IsFiniteSet(Inodes) /\ Cardinality(Inodes) = Cardinality(Names) + Cardinality(Jobs) + Cardinality(Restores)
  <2> DEFINE n == Cardinality(Names) + Cardinality(Jobs) + Cardinality(Restores)
  <2>1. n \in Nat /\ Inodes = 1..n
    BY <1>1, <1>2 DEF Inodes
  <2> HIDE DEF n
  <2>2. IsFiniteSet(1..n) /\ Cardinality(1..n) = n
    BY <2>1, FS_Interval
  <2> QED
    BY <2>1, <2>2 DEF n
<1>8. \E i \in Inodes : i \notin used
  <2>1. ASSUME Inodes \subseteq used PROVE FALSE
    <3>1. None \in used
      BY DEF openFds, jobFds
    <3>2. IsFiniteSet(used \ {None}) /\ Cardinality(used \ {None}) = Cardinality(used) - 1
      BY <1>6, <3>1, FS_RemoveElement
    <3>3. Inodes \subseteq used \ {None}
      BY <2>1, NothingType
    <3>4. Cardinality(Inodes) <= Cardinality(used \ {None})
      BY <3>2, <3>3, FS_Subset
    <3>5. Cardinality(used) \in Nat
      BY <1>6, FS_CardinalityType
    <3> QED
      BY <1>1, <1>2, <1>6, <1>7, <3>2, <3>4, <3>5
  <2> QED
    BY <2>1
<1>9. \E i \in Inodes : i \notin openFds /\ \A n \in Names : disk.name[n] # i
  BY <1>8
<1> QED
  BY <1>9 DEF unused

\* Opening the .part file of a job: it is the one of that name, emptied, or a new
\* one.
LEMMA CreateEffect ==
  ASSUME Shape, NEW j \in Jobs, pc[j] = "create",
         disk' = create(disk, target(j), unused(disk, openFds)),
         fd' = [fd EXCEPT ![j] = disk'.name[target(j)]]
  PROVE  LET k == fd'[j] IN
         /\ DiskType'
         /\ k \in Inodes
         /\ disk'.name = [disk.name EXCEPT ![<<uuid[j], "part">>] = k]
         /\ disk'.data = [disk.data EXCEPT ![k] = Nothing]
         /\ k = part(uuid[j]) \/ (k \notin openFds /\ \A n \in Names : disk.name[n] # k)
<1> DEFINE i == unused(disk, openFds)
           t == target(j)
           k == IF exists(disk, t) THEN disk.name[t] ELSE i
<1>1. uuid[j] \in Uuids /\ fd[j] = None /\ t = <<uuid[j], "part">> /\ t \in Names
  BY PathTypes DEF Shape, TypeOK, target
<1>2. i \in Inodes /\ i \notin openFds /\ \A n \in Names : disk.name[n] # i
  BY <1>1, OneIsUnused
<1>3. disk.name \in [Names -> Inodes \cup {None}] /\ disk.data \in [Inodes -> [Blocks -> Jobs \cup {None}]]
  BY DEF Shape, TypeOK
<1>4. k \in Inodes /\ (k = part(uuid[j]) \/ k = i)
  BY <1>1, <1>2, <1>3 DEF exists, part
<1>5. disk'.name = [disk.name EXCEPT ![t] = k] /\ disk'.data = [disk.data EXCEPT ![k] = Nothing]
  BY DEF create
<1>6. fd'[j] = k
  BY <1>1, <1>3, <1>5 DEF Shape, TypeOK
<1> HIDE DEF i, k, t
<1>7. DiskType'
  BY <1>1, <1>3, <1>4, <1>5, NothingType DEF DiskType
<1> QED
  BY <1>1, <1>2, <1>4, <1>5, <1>6, <1>7

\* Writing a block.
LEMMA WriteEffect ==
  ASSUME Shape, NEW j \in Jobs, TarBlock(j)
  PROVE  /\ DiskType'
         /\ fd[j] \in Inodes
         /\ disk'.name = disk.name
         /\ disk'.data = [disk.data EXCEPT ![fd[j]] = [@ EXCEPT ![wrote[j] + 1] = j]]
<1>1. fd[j] \in Inodes /\ wrote[j] + 1 \in Blocks
  BY BoundsAssumption DEF Shape, TypeOK, TarBlock, Blocks
<1>2. disk'.name = disk.name /\ disk'.data = [disk.data EXCEPT ![fd[j]] = [@ EXCEPT ![wrote[j] + 1] = j]]
  BY DEF TarBlock, write
<1>3. DiskType
  BY DEF Shape, TypeOK, DiskType
<1> QED
  BY <1>1, <1>2, <1>3 DEF DiskType

-----------------------------------------------------------------------------
(* Which steps give a file a name or write to one *)

\* os.Create succeeds.
Opens(j) == Create(j) /\ pc'[j] = "tar"

\* os.Rename succeeds.
Stores(j) == Rename(j) /\ pc'[j] = "reportOk"

\* Neither of them, and no block is written.
Quiet == [Next]_vars /\ \A j \in Jobs : ~TarBlock(j) /\ ~Opens(j) /\ ~Stores(j)

\* Any other step leaves alone what has a name or is open after it, and gives no
\* name to a file.
LEMMA QuietStep ==
  ASSUME Shape, Quiet
  PROVE  DiskType' /\ NoNewName /\ Kept(openFds')
<1> DEFINE Goal == DiskType' /\ NoNewName /\ Kept(openFds')
<1>0. DiskType
  BY DEF Shape, TypeOK, DiskType
<1>1. UNCHANGED disk => Goal
  BY <1>0 DEF DiskType, NoNewName, Kept
<1>2. ASSUME NEW j \in Jobs, Acts(j) PROVE Goal
  <2>0. pc \in [Jobs -> Labels]
        /\ fd \in [Jobs -> Inodes \cup {None}]
    BY DEF Labels, Shape, TypeOK
  <2>1. fd' = [fd EXCEPT ![j] = None] /\ src' = src => openFds' \subseteq othersFds(j) \cup {None}
    BY <2>0 DEF openFds, othersFds, jobFds, srcFds
  <2>2. fd' = fd /\ src' = src => openFds' = openFds
    BY DEF openFds, jobFds, srcFds
  <2>3. pc[j] # "idle" => uuid[j] \in Uuids /\ target(j) \in Names
    BY PathTypes DEF Shape, target
  <2>4. CASE TarDone(j)
    <3>1. DiskType' /\ disk'.name = disk.name /\ Kept(othersFds(j))
      BY <1>0, <2>4, FreedEffect DEF TarDone
    <3>2. openFds' \subseteq othersFds(j) \cup {None}
      BY <2>1, <2>4 DEF TarDone, close, restore
    <3> QED
      BY <3>1, <3>2, NothingType DEF NoNewName, Kept
  <2>5. CASE TarFails(j) \/ TarKilled(j)
    <3>1. DiskType' /\ disk'.name = [disk.name EXCEPT ![target(j)] = None] /\ Kept(othersFds(j))
      BY <1>0, <2>3, <2>5, RemoveEffect DEF TarFails, TarKilled, throwAway
    <3>2. openFds' \subseteq othersFds(j) \cup {None}
      BY <2>1, <2>5 DEF TarFails, TarKilled, throwAway, close, restore
    <3> QED
      BY <1>0, <3>1, <3>2, NothingType DEF NoNewName, Kept, DiskType
  <2>6. CASE Rename(j)
    <3>1. disk' = freed(remove(disk, target(j)), openFds)
      BY <2>0, <2>6 DEF Rename, Quiet, Stores, goto
    <3>2. DiskType' /\ disk'.name = [disk.name EXCEPT ![target(j)] = None] /\ Kept(openFds)
      BY <1>0, <2>3, <2>6, <3>1, RemoveEffect DEF Rename
    <3>3. openFds' = openFds
      BY <2>2, <2>6 DEF Rename, restore
    <3> QED
      BY <1>0, <3>2, <3>3 DEF NoNewName, DiskType
  <2>7. CASE Create(j)
    BY <1>1, <2>0, <2>7 DEF Create, Quiet, Opens, goto
  <2>8. CASE Lease(j) \/ Report(j) \/ DiskFull(j)
    BY <1>1, <2>8 DEF Lease, Report, DiskFull
  <2> QED
    BY <1>2, <2>4, <2>5, <2>6, <2>7, <2>8 DEF Acts, Job, Quiet
<1>3. ASSUME NEW u \in Uuids, Delete(u) PROVE Goal
  <2>1. <<u, "stored">> \in Names
    BY PathTypes
  <2>2. DiskType' /\ disk'.name = [disk.name EXCEPT ![<<u, "stored">>] = None] /\ Kept(openFds)
    BY <1>0, <1>3, <2>1, RemoveEffect DEF Delete
  <2>3. openFds' = openFds
    BY <1>3 DEF Delete, openFds, jobFds, srcFds, job, restore
  <2> QED
    BY <1>0, <2>1, <2>2, <2>3 DEF NoNewName, DiskType
<1>4. ASSUME NEW q \in Restores, ExtractEnd(q) PROVE Goal
  <2>1. DiskType' /\ disk'.name = disk.name /\ Kept(othersSrc(q))
    BY <1>0, <1>4, FreedEffect DEF ExtractEnd
  <2>2. openFds' \subseteq othersSrc(q) \cup {None}
    BY <1>4 DEF ExtractEnd, openFds, jobFds, srcFds, othersSrc, job, Shape, TypeOK
  <2> QED
    BY <2>1, <2>2, NothingType DEF NoNewName, Kept
<1>5. ASSUME RestartDaemon PROVE Goal
  <2>1. DiskType' /\ disk'.name = disk.name /\ Kept({})
    BY <1>0, <1>5, FreedEffect DEF RestartDaemon
  <2>2. openFds' \subseteq {None}
    BY <1>5 DEF RestartDaemon, openFds, jobFds, srcFds
  <2> QED
    BY <2>1, <2>2, NothingType DEF NoNewName, Kept
<1>6. ASSUME NEW j \in Jobs, NEW u \in Uuids, Accept(j, u) PROVE Goal
  BY <1>1, <1>6 DEF Accept
<1>7. ASSUME NEW q \in Restores, NEW u \in Uuids, NEW clean \in BOOLEAN, Restore(q, u, clean) PROVE Goal
  BY <1>1, <1>7 DEF Restore
<1>8. ASSUME NEW q \in Restores, ExtractBlock(q) PROVE Goal
  BY <1>1, <1>8 DEF ExtractBlock
<1>9. UNCHANGED vars => Goal
  BY <1>1 DEF vars
<1> QED
  BY <1>2, <1>3, <1>4, <1>5, <1>6, <1>7, <1>8, <1>9 DEF Acts, Quiet, Next

\* The disk stays well formed.
LEMMA DiskPreserved == ASSUME Shape, [Next]_vars PROVE DiskType'
<1>1. ASSUME NEW j \in Jobs, TarBlock(j) PROVE DiskType'
  BY <1>1, WriteEffect
<1>2. ASSUME NEW j \in Jobs, Opens(j) PROVE DiskType'
  <2>1. /\ pc[j] = "create"
        /\ disk' = create(disk, target(j), unused(disk, openFds))
        /\ fd' = [fd EXCEPT ![j] = disk'.name[target(j)]]
    BY <1>2 DEF Opens, Create, goto, Shape, TypeOK
  <2> QED
    BY <2>1, CreateEffect
<1>3. ASSUME NEW j \in Jobs, Stores(j) PROVE DiskType'
  <2>1. disk' = freed(rename(disk, target(j), <<uuid[j], "stored">>), openFds) /\ uuid[j] \in Uuids
    BY <1>3 DEF Stores, Rename, goto, Shape, TypeOK
  <2>2. DiskType /\ target(j) \in Names /\ <<uuid[j], "stored">> \in Names
    BY <2>1, PathTypes DEF Shape, TypeOK, DiskType, target
  <2> QED
    BY <2>1, <2>2, RenameEffect
<1> QED
  BY <1>1, <1>2, <1>3, QuietStep DEF Quiet

-----------------------------------------------------------------------------
(* The invariant, conjunct by conjunct *)

\* The job labels, counters and descriptors keep their shape.
LEMMA ShapePreserved == ASSUME Shape, [Next]_vars PROVE Shape'
<1> DEFINE Rest ==
      /\ pc \in [Jobs -> Labels]
      /\ uuid \in [Jobs -> Uuids \cup {None}]
      /\ size \in [Jobs -> Blocks]
      /\ wrote \in [Jobs -> Nat]
      /\ \A j \in Jobs : wrote[j] \in 0..size[j]
      /\ fd \in [Jobs -> Inodes \cup {None}]
      /\ \A j \in Jobs : fd[j] # None <=> pc[j] \in {"tar", "hung"}
      /\ told \in [Jobs -> {"none", "ok", "failed", "undelivered"}]
      /\ \A j \in Jobs : /\ pc[j] # "idle" => uuid[j] \in Uuids
                         /\ pc[j] \in {"idle", "lease", "create"} => wrote[j] = 0
                         /\ Working(j) \/ pc[j] = "idle" => told[j] = "none"
    Reads ==
      /\ restorer \in [Restores -> {"idle", "reading"}]
      /\ src \in [Restores -> Inodes \cup {None}]
      /\ pos \in [Restores -> 0..MaxBlocks]
      /\ data \in [Blocks -> Jobs \cup {None, Own}]
      /\ source \in [Restores -> Uuids \cup {None}]
      /\ mixing \subseteq Restores
      /\ \A q \in Restores : IF restorer[q] = "reading" THEN src[q] \in Inodes /\ source[q] \in Uuids
                                                       ELSE src[q] = None /\ source[q] = None /\ pos[q] = 0
      /\ \A q, o \in reading : q # o => q \in mixing
    Seen ==
      /\ life \in 0..MaxRestarts
      /\ latest \in [Uuids -> Jobs \cup {None}]
      /\ clashed \subseteq Uuids
<1>1. DiskType'
  BY DiskPreserved
<1>2. Rest /\ Reads /\ Seen /\ DiskType
  BY DEF Labels, Shape, TypeOK, DiskType
<1>3. Rest' /\ Reads' /\ Seen'
  <2>1. ASSUME NEW j \in Jobs, Acts(j) PROVE Rest' /\ Reads' /\ Seen'
    <3>1. CASE Lease(j)
      BY <1>2, <3>1 DEF Labels, reading, Lease, goto, restore, Working
    <3>2. CASE Create(j)
      <4>1. CASE Opens(j)
        <5>1. /\ pc[j] = "create" /\ goto(j, "tar")
              /\ disk' = create(disk, target(j), unused(disk, openFds))
              /\ fd' = [fd EXCEPT ![j] = disk'.name[target(j)]]
              /\ UNCHANGED <<uuid, size, wrote, told, restore, life, latest, clashed>>
          BY <1>2, <4>1 DEF Opens, Create, goto
        <5>2. fd'[j] \in Inodes
          BY <5>1, CreateEffect
        <5>3. fd' = [fd EXCEPT ![j] = fd'[j]]
          BY <1>2, <5>1
        <5> QED
          BY <1>2, <5>1, <5>2, <5>3, NothingType DEF Labels, reading, goto, restore, Working
      <4>2. CASE ~Opens(j)
        <5>1. goto(j, "reportFailed") /\ pc[j] = "create"
              /\ UNCHANGED <<disk, uuid, size, wrote, fd, told, restore, life, latest, clashed>>
          BY <1>2, <3>2, <4>2 DEF Opens, Create, goto
        <5> QED
          BY <1>2, <5>1 DEF Labels, reading, goto, restore, Working
      <4> QED
        BY <4>1, <4>2
    <3>3. CASE TarBlock(j)
      <4>1. wrote' = [wrote EXCEPT ![j] = wrote[j] + 1] /\ pc[j] = "tar" /\ wrote[j] + 1 <= size[j]
            /\ UNCHANGED <<pc, uuid, size, fd, told, restore, life, latest, clashed>>
        BY <3>3 DEF TarBlock
      <4>2. \A i \in Jobs : size[i] \in Nat
        BY <1>2, BoundsAssumption DEF Blocks
      <4>3. \A i \in Jobs : wrote'[i] \in 0..size'[i]
        <5>1. SUFFICES ASSUME NEW i \in Jobs PROVE wrote'[i] \in 0..size[i]
          BY <4>1
        <5>2. wrote[j] \in 0..size[j] /\ wrote[i] \in 0..size[i] /\ (wrote'[i] = wrote[i] \/ (i = j /\ wrote'[j] = wrote[j] + 1))
          BY <1>2, <4>1
        <5> QED
          BY <4>1, <4>2, <5>2
      <4>4. \A i \in Jobs : pc[i] \in {"idle", "lease", "create"} => wrote'[i] = 0
        BY <1>2, <4>1
      <4> QED
        BY <1>2, <4>1, <4>3, <4>4 DEF Labels, reading, restore, Working
    <3>4. CASE TarDone(j)
      BY <1>2, <3>4 DEF Labels, reading, TarDone, close, goto, restore, Working
    <3>5. CASE TarFails(j) \/ TarKilled(j)
      BY <1>2, <3>5 DEF Labels, reading, TarFails, TarKilled, throwAway, close, goto, restore, Working
    <3>6. CASE Rename(j)
      <4>1. /\ pc[j] = "rename" /\ \E label \in {"reportOk", "reportFailed"} : pc' = [pc EXCEPT ![j] = label]
            /\ UNCHANGED <<uuid, size, wrote, fd, told, restore, life, latest, clashed>>
        BY <3>6 DEF Rename, goto
      <4> QED
        BY <1>2, <4>1 DEF Labels, reading, restore, Working
    <3>7. CASE Report(j)
      BY <1>2, <3>7 DEF Labels, reading, Report, goto, restore, Working
    <3>8. CASE DiskFull(j)
      BY <1>2, <3>8 DEF Labels, reading, DiskFull, goto, restore, Working
    <3> QED
      BY <2>1, <3>1, <3>2, <3>3, <3>4, <3>5, <3>6, <3>7, <3>8 DEF Acts, Job
  <2>2. ASSUME NEW j \in Jobs, NEW u \in Uuids, Accept(j, u) PROVE Rest' /\ Reads' /\ Seen'
    BY <1>2, <2>2 DEF Labels, reading, Accept, goto, restore, Working
  <2>3. ASSUME NEW u \in Uuids, Delete(u) PROVE Rest' /\ Reads' /\ Seen'
    BY <1>2, <2>3 DEF Labels, reading, Delete, job, restore, Working
  <2>4. ASSUME NEW q \in Restores, NEW u \in Uuids, NEW clean \in BOOLEAN, Restore(q, u, clean)
        PROVE  Rest' /\ Reads' /\ Seen'
    <3>1. Rest' /\ Seen'
      BY <1>2, <2>4 DEF Restore, job, Working
    <3>2. disk.name[<<u, "stored">>] \in Inodes
      BY <1>2, <2>4, PathTypes DEF Restore, exists, DiskType
    <3>3. \A S \in SUBSET Blocks : without(S) \in [Blocks -> Jobs \cup {None, Own}]
      BY <1>2 DEF without
    <3>4. data' \in [Blocks -> Jobs \cup {None, Own}]
      <4>1. \/ data' = data
            \/ \E S \in SUBSET Blocks : data' = without(S)
        BY <2>4 DEF Restore
      <4> QED
        BY <1>2, <3>3, <4>1
    <3>5. /\ pos' = pos
          /\ \/ /\ restorer' = [restorer EXCEPT ![q] = "reading"] /\ source' = [source EXCEPT ![q] = u]
                /\ src' = [src EXCEPT ![q] = disk.name[<<u, "stored">>]]
                /\ mixing' = IF reading = {} THEN {} ELSE reading \cup {q}
             \/ UNCHANGED <<restorer, src, source>> /\ mixing' = reading
      BY <2>4 DEF Restore
    <3>6. \A r \in Restores : IF restorer'[r] = "reading" THEN src'[r] \in Inodes /\ source'[r] \in Uuids
                                                        ELSE src'[r] = None /\ source'[r] = None /\ pos'[r] = 0
      BY <1>2, <3>2, <3>5
    <3>7. mixing' \subseteq Restores /\ \A r, o \in reading' : r # o => r \in mixing'
      BY <1>2, <3>5 DEF reading
    <3> QED
      BY <1>2, <3>1, <3>2, <3>4, <3>5, <3>6, <3>7
  <2>5. ASSUME NEW q \in Restores, ExtractBlock(q) PROVE Rest' /\ Reads' /\ Seen'
    <3>1. Rest' /\ Seen'
      BY <1>2, <2>5 DEF ExtractBlock, job, Working
    <3>2. pos[q] # MaxBlocks /\ pos[q] + 1 \in Blocks /\ pos[q] + 1 \in 0..MaxBlocks
      BY <1>2, <2>5, BoundsAssumption DEF ExtractBlock, atEnd, Blocks
    <3>3. disk.data[src[q]][pos[q] + 1] \in Jobs \cup {None}
      BY <1>2, <2>5, <3>2 DEF DiskType, ExtractBlock
    <3>4. /\ UNCHANGED <<restorer, src, source, mixing>>
          /\ data' \in [Blocks -> Jobs \cup {None, Own}]
          /\ pos' = [pos EXCEPT ![q] = pos[q] + 1]
      BY <1>2, <2>5, <3>2, <3>3 DEF ExtractBlock
    <3>5. reading' = reading /\ restorer[q] = "reading"
      BY <2>5, <3>4 DEF reading, ExtractBlock
    <3>6. pos' \in [Restores -> 0..MaxBlocks] /\ \A r \in Restores : r # q => pos'[r] = pos[r]
      BY <1>2, <3>2, <3>4
    <3>7. Reads'
      BY <1>2, <3>4, <3>5, <3>6
    <3> QED
      BY <1>2, <2>5, <3>1, <3>7 DEF ExtractBlock
  <2>6. ASSUME NEW q \in Restores, ExtractEnd(q) PROVE Rest' /\ Reads' /\ Seen'
    <3>1. Rest' /\ Seen'
      BY <1>2, <2>6 DEF ExtractEnd, job, Working
    <3> QED
      BY <1>2, <2>6, <3>1, BoundsAssumption DEF ExtractEnd, reading
  <2>7. ASSUME RestartDaemon PROVE Rest' /\ Reads' /\ Seen'
    <3>1. Rest'
      BY <1>2, <2>7 DEF Labels, reading, RestartDaemon, Working
    <3> QED
      BY <1>2, <2>7, <3>1, BoundsAssumption DEF RestartDaemon, reading
  <2>8. CASE UNCHANGED vars
    BY <1>2, <2>8 DEF vars, job, restore, reading, Working
  <2> QED
    BY <2>1, <2>2, <2>3, <2>4, <2>5, <2>6, <2>7, <2>8 DEF Acts, Next
<1> QED
  BY <1>1, <1>3 DEF Labels, Shape, TypeOK, DiskType

\* Whoever makes a snapshot with another job makes it a clash.
LEMMA SoloPreserved == ASSUME Shape, Solo, [Next]_vars PROVE Solo'
<1> USE DEF Shape, TypeOK, Solo
<1>1. (\A j \in Jobs : uuid'[j] = uuid[j] /\ (Working(j)' => Working(j))) /\ clashed' = clashed => Solo'
  OBVIOUS
<1>2. ASSUME NEW j \in Jobs, Acts(j) PROVE Solo'
  <2>1. pc[j] \notin {"idle", "done", "lost"} /\ clashed' = clashed /\ uuid' = uuid
    BY <1>2 DEF Acts, Job, Lease, Create, TarBlock, TarDone, TarFails, TarKilled, DiskFull, throwAway, Rename, Report
  <2>2. \A i \in Jobs \ {j} : pc'[i] = pc[i]
    BY <1>2 DEF Acts, Job, Lease, Create, TarBlock, TarDone, TarFails, TarKilled, DiskFull, throwAway, Rename, Report, goto
  <2>3. \A i \in Jobs : Working(i)' => Working(i)
    BY <2>1, <2>2 DEF Working
  <2> QED
    BY <1>1, <2>1, <2>3
<1>3. ASSUME NEW j \in Jobs, NEW u \in Uuids, Accept(j, u) PROVE Solo'
  <2>1. /\ uuid' = [uuid EXCEPT ![j] = u] /\ pc' = [pc EXCEPT ![j] = "lease"]
        /\ clashed \subseteq clashed'
        /\ (\E i \in Jobs : Working(i) /\ uuid[i] = u) => u \in clashed'
        /\ pc[j] = "idle"
    BY <1>3 DEF Accept, goto
  <2>2. \A i \in Jobs \ {j} : uuid'[i] = uuid[i] /\ (Working(i)' <=> Working(i))
    BY <2>1 DEF Working
  <2>3. uuid'[j] = u
    BY <2>1
  <2> QED
    BY <2>1, <2>2, <2>3
<1>4. ASSUME NEW u \in Uuids, Delete(u) PROVE Solo'
  BY <1>4 DEF Delete, job, Working
<1>5. ASSUME NEW q \in Restores, NEW u \in Uuids, NEW clean \in BOOLEAN, Restore(q, u, clean) PROVE Solo'
  BY <1>5 DEF Restore, job, Working
<1>6. ASSUME (\E q \in Restores : ExtractBlock(q) \/ ExtractEnd(q)) \/ UNCHANGED vars PROVE Solo'
  BY <1>6 DEF ExtractBlock, ExtractEnd, vars, job, Working
<1>7. ASSUME RestartDaemon PROVE Solo'
  BY <1>7 DEF RestartDaemon, Working
<1> QED
  BY <1>2, <1>3, <1>4, <1>5, <1>6, <1>7 DEF Next, Acts

\* The job and its file: a step that opens, writes, or renames one touches no
\* other job's, unless they make one snapshot.
Frame ==
  /\ size' = size /\ clashed \subseteq clashed'
  /\ \A j \in Jobs :
       /\ pc[j] # "idle" => uuid'[j] = uuid[j]
       /\ fd'[j] \in {fd[j], None}
       /\ pc'[j] = "tar" => pc[j] = "tar" /\ wrote'[j] = wrote[j]
       /\ Open(j)' => Open(j) /\ fd'[j] = fd[j]
       /\ pc'[j] = "rename" => pc[j] = "rename" \/ (pc[j] = "tar" /\ wrote[j] = size[j])
       /\ pc'[j] \in {"tar", "hung", "rename"} /\ uuid'[j] \notin clashed' => part(uuid[j])' = part(uuid[j])

\* Framed steps keep the names apart.
LEMMA NamesFramed ==
  ASSUME Shape, NamesApart, Frame, NoNewName, Shape' PROVE NamesApart'
<1> USE DEF NamesApart, Frame, NoNewName
<1>1. \A m, n \in Names : exists(disk, m)' /\ disk'.name[m] = disk'.name[n] => m = n
  BY DEF exists
<1>2. ASSUME NEW j \in Jobs, NEW n \in Names, Open(j)', disk'.name[n] = fd'[j]
      PROVE  n[1] = uuid'[j]
  <2>1. fd'[j] # None /\ Open(j) /\ fd'[j] = fd[j] /\ uuid'[j] = uuid[j]
    BY <1>2 DEF Shape, TypeOK, Open
  <2>2. disk.name[n] = fd[j]
    BY <1>2, <2>1
  <2> QED
    BY <2>1, <2>2
<1>3. ASSUME NEW j \in Jobs, Open(j)', uuid'[j] \notin clashed'
      PROVE  fd'[j] = part(uuid[j])' /\ uuid'[j] = uuid[j]
  BY <1>3 DEF Shape, TypeOK, Open
<1> QED
  BY <1>1, <1>2, <1>3 DEF part

\* Framed steps keep what every job has written; a job whose tar ended has written
\* its whole archive.
LEMMA WrittenFramed ==
  ASSUME Shape, NamesApart, Written, Frame, Kept(openFds'), Shape', [Next]_vars
  PROVE  Written'
<1> SUFFICES ASSUME NEW j \in Jobs, uuid'[j] \notin clashed'
             PROVE  /\ pc'[j] = "tar" => disk'.data[fd'[j]] = blocks(j, wrote'[j])
                    /\ pc'[j] = "rename" => part(uuid[j])' # None /\ disk'.data[part(uuid[j])'] = whole(j)' /\ uuid'[j] = uuid[j]
  BY DEF Written, part
<1>1. CASE pc'[j] = "tar"
  <2>1. pc[j] = "tar" /\ fd'[j] = fd[j] /\ wrote'[j] = wrote[j] /\ uuid[j] \notin clashed
    BY <1>1 DEF Frame, Shape, TypeOK, Open
  <2>2. fd'[j] \in Inodes /\ fd'[j] \in openFds'
    BY <1>1 DEF Shape, TypeOK, openFds, jobFds
  <2>3. disk'.data[fd[j]] = disk.data[fd[j]]
    BY <2>1, <2>2 DEF Kept
  <2> QED
    BY <1>1, <2>1, <2>3 DEF Written
<1>2. CASE pc'[j] = "rename"
  <2>1. uuid'[j] = uuid[j] /\ uuid[j] \notin clashed /\ uuid[j] \in Uuids /\ part(uuid[j])' = part(uuid[j])
    BY <1>2 DEF Frame, Shape
  <2>2. part(uuid[j]) \in Inodes /\ disk.data[part(uuid[j])] = whole(j)
    <3>1. part(uuid[j]) \in Inodes \cup {None}
      BY <2>1, PathTypes DEF Shape, TypeOK, part
    <3>2. CASE pc[j] = "rename"
      BY <2>1, <3>1, <3>2 DEF Written
    <3>3. CASE pc[j] = "tar" /\ wrote[j] = size[j]
      <4>1. fd[j] = part(uuid[j]) /\ fd[j] # None
        BY <2>1, <3>3 DEF NamesApart, Shape, TypeOK, Open
      <4>2. blocks(j, size[j]) = whole(j)
        BY DEF blocks, whole
      <4> QED
        BY <2>1, <3>1, <3>3, <4>1, <4>2 DEF Written
    <3> QED
      BY <1>2, <3>2, <3>3 DEF Frame
  <2>3. disk'.data[part(uuid[j])] = disk.data[part(uuid[j])]
    BY <2>1, <2>2, PathTypes DEF Kept, part
  <2>4. whole(j)' = whole(j)
    BY DEF whole, Frame
  <2> QED
    BY <1>2, <2>1, <2>2, <2>3, <2>4, NothingType
<1> QED
  BY <1>1, <1>2

\* Every quiet step is framed.
LEMMA QuietFrame ==
  ASSUME Shape, Solo, Quiet PROVE Frame
<1> USE DEF Shape, TypeOK
<1>1. ASSUME NEW j \in Jobs, Acts(j) PROVE Frame
  <2>1. /\ size' = size /\ clashed' = clashed /\ uuid' = uuid /\ wrote' = wrote
        /\ \A i \in Jobs \ {j} : pc'[i] = pc[i] /\ fd'[i] = fd[i]
        /\ fd'[j] \in {fd[j], None}
        /\ pc'[j] = "rename" => pc[j] = "tar" /\ wrote[j] = size[j]
        /\ pc'[j] # "tar"
        /\ pc'[j] = "hung" => pc[j] = "tar" /\ fd'[j] = fd[j]
    BY <1>1 DEF Acts, Job, Lease, Create, TarDone, TarFails, TarKilled, DiskFull, throwAway, Rename, Report,
                goto, close, Quiet, Opens, Stores
  <2>2. \A n \in Names : n # target(j) => disk'.name[n] = disk.name[n]
    <3>1. TarFails(j) \/ TarKilled(j) \/ Rename(j) => disk'.name = [disk.name EXCEPT ![target(j)] = None]
      <4>1. TarFails(j) \/ TarKilled(j) => \E S : disk' = freed(remove(disk, target(j)), S)
        BY DEF TarFails, TarKilled, throwAway
      <4>2. Rename(j) => disk' = freed(remove(disk, target(j)), openFds)
        BY DEF Rename, Quiet, Stores, goto
      <4>3. \A S : freed(remove(disk, target(j)), S).name = [disk.name EXCEPT ![target(j)] = None]
        BY DEF freed, remove
      <4> QED
        BY <4>1, <4>2, <4>3
    <3>2. TarDone(j) => disk'.name = disk.name
      BY DEF TarDone, freed
    <3>3. Lease(j) \/ Create(j) \/ Report(j) \/ DiskFull(j) => disk' = disk
      BY DEF Lease, Create, Report, DiskFull, Quiet, Opens, goto
    <3> QED
      BY <1>1, <3>1, <3>2, <3>3 DEF Acts, Job, Quiet
  <2>3. pc'[j] \in {"rename", "hung"} => disk'.name = disk.name
    <3>1. TarDone(j) \/ DiskFull(j) => disk'.name = disk.name
      BY DEF TarDone, DiskFull, freed
    <3>2. ~TarDone(j) /\ ~DiskFull(j) => pc'[j] \notin {"rename", "hung"}
      BY <1>1 DEF Acts, Job, Lease, Create, TarFails, TarKilled, throwAway, Rename, Report, Quiet, goto
    <3> QED
      BY <3>1, <3>2
  <2>4. Working(j)
    BY <1>1 DEF Acts, Job, Lease, Create, TarDone, TarFails, TarKilled, DiskFull, Rename, Report, Working, Quiet
  <2>5. ASSUME NEW i \in Jobs, pc'[i] \in {"tar", "hung", "rename"}, uuid[i] \notin clashed
        PROVE  part(uuid[i])' = part(uuid[i])
    <3>1. CASE i = j
      BY <2>1, <2>3, <2>5, <3>1 DEF part
    <3>2. CASE i # j
      <4>1. Working(i) /\ uuid[i] # uuid[j] /\ uuid[i] \in Uuids
        BY <2>1, <2>4, <2>5, <3>2 DEF Solo, Working
      <4>2. <<uuid[i], "part">> # target(j) /\ <<uuid[i], "part">> \in Names
        BY <4>1, PathTypes DEF target
      <4> QED
        BY <2>1, <2>2, <4>2 DEF part
    <3> QED
      BY <3>1, <3>2
  <2> QED
    BY <2>1, <2>5 DEF Frame, Open
<1>2. ASSUME NEW j \in Jobs, NEW u \in Uuids, Accept(j, u) PROVE Frame
  BY <1>2 DEF Accept, goto, Frame, Open, part
<1>3. ASSUME NEW u \in Uuids, Delete(u) PROVE Frame
  <2>1. \A v \in Uuids : disk'.name[<<v, "part">>] = disk.name[<<v, "part">>]
    BY <1>3, PathTypes DEF Delete, freed, remove
  <2> QED
    BY <1>3, <2>1 DEF Delete, job, Frame, Open, part
<1>4. ASSUME NEW q \in Restores, NEW u \in Uuids, NEW clean \in BOOLEAN, Restore(q, u, clean) PROVE Frame
  BY <1>4 DEF Restore, job, Frame, Open, part
<1>5. ASSUME (\E q \in Restores : ExtractBlock(q)) \/ UNCHANGED vars PROVE Frame
  BY <1>5 DEF ExtractBlock, vars, job, Frame, Open, part
<1>6. ASSUME NEW q \in Restores, ExtractEnd(q) PROVE Frame
  BY <1>6 DEF ExtractEnd, job, Frame, Open, part, freed
<1>7. ASSUME RestartDaemon PROVE Frame
  BY <1>7 DEF RestartDaemon, Frame, Open, part, freed, Working
<1> QED
  BY <1>1, <1>2, <1>3, <1>4, <1>5, <1>6, <1>7 DEF Quiet, Next, Acts

\* The part of the invariant that speaks of the jobs and their files.
Files == Shape /\ Solo /\ NamesApart /\ Written

\* What a job does to the disk when it opens its .part file, or stores it.
LEMMA OpensEffect ==
  ASSUME Shape, NEW j \in Jobs, Opens(j)
  PROVE  LET k == fd'[j] IN
         /\ pc[j] = "create" /\ pc' = [pc EXCEPT ![j] = "tar"]
         /\ uuid[j] \in Uuids /\ wrote[j] = 0
         /\ UNCHANGED <<uuid, size, wrote, told, restore, life, latest, clashed>>
         /\ k \in Inodes /\ \A i \in Jobs : i # j => fd'[i] = fd[i]
         /\ disk'.name = [disk.name EXCEPT ![<<uuid[j], "part">>] = k]
         /\ disk'.data = [disk.data EXCEPT ![k] = Nothing]
         /\ k = part(uuid[j]) \/ (k \notin openFds /\ \A n \in Names : disk.name[n] # k)
<1>1. /\ pc[j] = "create" /\ pc' = [pc EXCEPT ![j] = "tar"]
      /\ disk' = create(disk, target(j), unused(disk, openFds))
      /\ fd' = [fd EXCEPT ![j] = disk'.name[target(j)]]
      /\ UNCHANGED <<uuid, size, wrote, told, restore, life, latest, clashed>>
  BY DEF Opens, Create, goto, Shape, TypeOK
<1>2. uuid[j] \in Uuids /\ wrote[j] = 0
  BY <1>1 DEF Shape
<1>3. \A i \in Jobs : i # j => fd'[i] = fd[i]
  BY <1>1 DEF Shape, TypeOK
<1>4. LET k == fd'[j] IN
      /\ k \in Inodes
      /\ disk'.name = [disk.name EXCEPT ![<<uuid[j], "part">>] = k]
      /\ disk'.data = [disk.data EXCEPT ![k] = Nothing]
      /\ k = part(uuid[j]) \/ (k \notin openFds /\ \A n \in Names : disk.name[n] # k)
  BY <1>1, CreateEffect
<1> QED
  BY <1>1, <1>2, <1>3, <1>4

\* The rename gives the file of the .part name to the stored one.
LEMMA StoresEffect ==
  ASSUME Shape, NEW j \in Jobs, Stores(j)
  PROVE  LET p == <<uuid[j], "part">>
             s == <<uuid[j], "stored">>
         IN
         /\ pc[j] = "rename" /\ pc' = [pc EXCEPT ![j] = "reportOk"]
         /\ uuid[j] \in Uuids /\ p \in Names /\ s \in Names /\ p # s
         /\ UNCHANGED <<uuid, size, wrote, fd, told, restore, life, latest, clashed>>
         /\ disk.name[p] \in Inodes
         /\ disk'.name = [disk.name EXCEPT ![s] = disk.name[p], ![p] = None]
         /\ Kept(openFds')
<1> DEFINE p == <<uuid[j], "part">>
           s == <<uuid[j], "stored">>
<1>1. /\ pc[j] = "rename" /\ pc' = [pc EXCEPT ![j] = "reportOk"]
      /\ exists(disk, target(j))
      /\ disk' = freed(rename(disk, target(j), s), openFds)
      /\ UNCHANGED <<uuid, size, wrote, fd, told, restore, life, latest, clashed>>
  BY DEF Stores, Rename, goto, Shape, TypeOK
<1>2. uuid[j] \in Uuids /\ p \in Names /\ s \in Names /\ p # s /\ target(j) = p
  BY <1>1, PathTypes DEF Shape, target
<1>3. disk.name[p] \in Inodes /\ DiskType
  BY <1>1, <1>2 DEF Shape, TypeOK, exists, DiskType
<1>4. disk'.name = [disk.name EXCEPT ![s] = disk.name[p], ![p] = None] /\ Kept(openFds)
  <2>1. disk' = freed(rename(disk, p, s), openFds)
    BY <1>1, <1>2
  <2> HIDE DEF p, s
  <2> QED
    BY <1>2, <1>3, <2>1, RenameEffect
<1>5. openFds' = openFds
  BY <1>1 DEF openFds, jobFds, srcFds, restore
<1> QED
  BY <1>1, <1>2, <1>3, <1>4, <1>5

\* A job that opens its .part file disturbs no other job's, unless they make one
\* snapshot: the file is new, or it has the name of this snapshot alone.
LEMMA FilesWhenOpened ==
  ASSUME Files, NEW j \in Jobs, Opens(j), Shape' PROVE NamesApart' /\ Written'
<1> DEFINE k == fd'[j]
           p == <<uuid[j], "part">>
<1> USE DEF Files
<1>1. /\ pc[j] = "create" /\ pc' = [pc EXCEPT ![j] = "tar"]
      /\ uuid[j] \in Uuids /\ wrote[j] = 0
      /\ UNCHANGED <<uuid, size, wrote, clashed>>
      /\ k \in Inodes /\ \A i \in Jobs : i # j => fd'[i] = fd[i]
      /\ disk'.name = [disk.name EXCEPT ![p] = k]
      /\ disk'.data = [disk.data EXCEPT ![k] = Nothing]
      /\ k = disk.name[p] \/ (k \notin openFds /\ \A n \in Names : disk.name[n] # k)
  BY OpensEffect DEF part
<1> HIDE DEF k
<1>2. /\ disk.name \in [Names -> Inodes \cup {None}] /\ disk.data \in [Inodes -> [Blocks -> Jobs \cup {None}]]
      /\ p \in Names /\ p[1] = uuid[j]
      /\ \A i \in Jobs : fd[i] \in Inodes \cup {None} /\ (fd[i] # None <=> Open(i))
      /\ pc \in [Jobs -> Labels]
      /\ \A i \in Jobs : pc[i] # "idle" => uuid[i] \in Uuids
  <2>1. p \in Names /\ p[1] = uuid[j]
    BY <1>1, PathTypes
  <2>2. disk.name \in [Names -> Inodes \cup {None}] /\ disk.data \in [Inodes -> [Blocks -> Jobs \cup {None}]]
    BY DEF Shape, TypeOK
  <2>3. pc \in [Jobs -> Labels]
    BY DEF Shape, TypeOK, Labels
  <2>4. /\ \A i \in Jobs : fd[i] \in Inodes \cup {None} /\ (fd[i] # None <=> Open(i))
        /\ \A i \in Jobs : pc[i] # "idle" => uuid[i] \in Uuids
    BY DEF Shape, TypeOK, Open
  <2> QED
    BY <2>1, <2>2, <2>3, <2>4
<1>3. \A n \in Names : disk'.name[n] = IF n = p THEN k ELSE disk.name[n]
  BY <1>1, <1>2
<1>4. \A n \in Names : disk'.name[n] = k => n = p
  BY <1>1, <1>2, <1>3, NothingType DEF NamesApart, exists
<1>5. \A m, n \in Names : exists(disk, m)' /\ disk'.name[m] = disk'.name[n] => m = n
  BY <1>3, <1>4 DEF NamesApart, exists
<1>6. \A i \in Jobs : i # j /\ pc'[i] \in {"tar", "hung", "rename"} /\ uuid[i] \notin clashed => uuid[i] # uuid[j]
  BY <1>1, <1>2 DEF Solo, Working
<1>7. \A i \in Jobs : i # j /\ Open(i) /\ fd[i] = k => uuid[i] = uuid[j]
  <2>1. ASSUME NEW i \in Jobs, i # j, Open(i), fd[i] = k PROVE uuid[i] = uuid[j]
    <3>1. k \in openFds
      BY <2>1 DEF openFds, jobFds
    <3> QED
      BY <1>1, <1>2, <2>1, <3>1 DEF NamesApart
  <2> QED
    BY <2>1
<1>8. ASSUME NEW i \in Jobs, NEW n \in Names, Open(i)', disk'.name[n] = fd'[i]
      PROVE  n[1] = uuid'[i]
  <2>1. CASE i = j
    BY <1>1, <1>2, <1>4, <1>8, <2>1 DEF k
  <2>2. CASE i # j
    <3>1. Open(i) /\ fd'[i] = fd[i] /\ fd[i] \in Inodes /\ uuid'[i] = uuid[i]
      BY <1>1, <1>2, <1>8, <2>2 DEF Open
    <3>2. CASE n = p
      BY <1>2, <1>3, <1>7, <1>8, <2>2, <3>1, <3>2
    <3>3. CASE n # p
      BY <1>3, <1>8, <3>1, <3>3 DEF NamesApart
    <3> QED
      BY <3>2, <3>3
  <2> QED
    BY <2>1, <2>2
<1>9. ASSUME NEW i \in Jobs, uuid[i] \notin clashed, pc'[i] \in {"tar", "hung", "rename"}, i # j
      PROVE  /\ part(uuid[i])' = part(uuid[i]) /\ pc'[i] = pc[i] /\ fd'[i] = fd[i] /\ uuid[i] # uuid[j]
             /\ uuid[i] \in Uuids /\ part(uuid[i]) \in Inodes \cup {None} /\ part(uuid[i]) # k
  <2>1. uuid[i] # uuid[j] /\ pc'[i] = pc[i] /\ fd'[i] = fd[i] /\ uuid[i] \in Uuids
    BY <1>1, <1>2, <1>6, <1>9
  <2>2. <<uuid[i], "part">> \in Names /\ <<uuid[i], "part">> # p
    BY <2>1, PathTypes
  <2>3. disk'.name[<<uuid[i], "part">>] # k
    BY <1>4, <2>2
  <2> QED
    BY <1>1, <1>2, <1>3, <2>1, <2>2, <2>3 DEF part
<1>10. ASSUME NEW i \in Jobs, Open(i)', uuid'[i] \notin clashed' PROVE fd'[i] = disk'.name[<<uuid'[i], "part">>]
  <2>1. CASE i = j
    BY <1>1, <1>2, <1>3, <2>1 DEF k
  <2>2. CASE i # j
    BY <1>1, <1>2, <1>9, <1>10, <2>2 DEF NamesApart, Open, part
  <2> QED
    BY <2>1, <2>2
<1>11. ASSUME NEW i \in Jobs, pc'[i] = "tar", uuid'[i] \notin clashed'
       PROVE  disk'.data[fd'[i]] = blocks(i, wrote'[i])
  <2>1. CASE i = j
    <3>1. blocks(j, 0) = Nothing
      BY DEF blocks, Nothing, Blocks
    <3> QED
      BY <1>1, <1>2, <2>1, <3>1 DEF k
  <2>2. CASE i # j
    <3>1. fd[i] # k /\ fd[i] \in Inodes /\ fd'[i] = fd[i] /\ pc[i] = "tar"
      BY <1>1, <1>2, <1>9, <1>11, <2>2 DEF NamesApart, Open
    <3> QED
      BY <1>1, <1>2, <1>11, <3>1 DEF Written
  <2> QED
    BY <2>1, <2>2
<1>12. ASSUME NEW i \in Jobs, pc'[i] = "rename", uuid'[i] \notin clashed'
       PROVE  disk'.name[<<uuid'[i], "part">>] # None /\ disk'.data[disk'.name[<<uuid'[i], "part">>]] = whole(i)'
  <2>1. i # j
    BY <1>1, <1>2, <1>12
  <2>2. whole(i)' = whole(i)
    BY <1>1 DEF whole
  <2>3. pc'[i] = pc[i] /\ uuid'[i] = uuid[i] /\ clashed' = clashed /\ part(uuid[i])' = part(uuid[i])
        /\ part(uuid[i]) \in Inodes \cup {None} /\ part(uuid[i]) # k
    BY <1>1, <1>9, <1>12, <2>1
  <2>4. part(uuid[i]) # None /\ disk.data[part(uuid[i])] = whole(i)
    BY <1>12, <2>3 DEF Written
  <2>5. disk'.data[part(uuid[i])] = disk.data[part(uuid[i])]
    BY <1>1, <1>2, <2>3, <2>4
  <2> QED
    BY <2>2, <2>3, <2>4, <2>5 DEF part
<1> QED
  BY <1>5, <1>8, <1>10, <1>11, <1>12 DEF NamesApart, Written, part

\* A block goes to the file of this job, after those it has written.
LEMMA FilesWhenWritten ==
  ASSUME Files, NEW j \in Jobs, TarBlock(j), Shape' PROVE NamesApart' /\ Written'
<1> DEFINE b == wrote[j] + 1
<1> USE DEF Files
<1>1. /\ pc[j] = "tar" /\ pc' = pc /\ b <= size[j]
      /\ wrote' = [wrote EXCEPT ![j] = b]
      /\ UNCHANGED <<uuid, size, fd, clashed>>
  BY DEF TarBlock
<1>2. fd[j] \in Inodes /\ disk'.name = disk.name /\ disk'.data = [disk.data EXCEPT ![fd[j]] = [@ EXCEPT ![b] = j]]
  BY WriteEffect
<1>3. disk.data \in [Inodes -> [Blocks -> Jobs \cup {None}]] /\ wrote \in [Jobs -> Nat]
  BY DEF Shape, TypeOK
<1>4. NamesApart'
  BY <1>1, <1>2 DEF NamesApart, Open, exists, part
<1>5. ASSUME NEW i \in Jobs, uuid[i] \notin clashed, i # j
      PROVE  /\ pc[i] = "tar" => fd[i] # fd[j] /\ fd[i] \in Inodes
             /\ pc[i] = "rename" /\ part(uuid[i]) # None => part(uuid[i]) # fd[j] /\ part(uuid[i]) \in Inodes
  <2>1. ASSUME pc[i] \in {"tar", "rename"}, part(uuid[i]) = fd[j] PROVE FALSE
    <3>1. uuid[i] \in Uuids /\ <<uuid[i], "part">> \in Names
      BY <2>1, PathTypes DEF Shape
    <3>2. uuid[i] = uuid[j]
      BY <1>1, <2>1, <3>1 DEF NamesApart, Open, part
    <3> QED
      BY <1>1, <1>5, <2>1, <3>2 DEF Solo, Working
  <2>2. pc[i] = "tar" => fd[i] = part(uuid[i]) /\ fd[i] \in Inodes
    BY <1>5 DEF NamesApart, Open, Shape, TypeOK
  <2>3. pc[i] = "rename" => part(uuid[i]) \in Inodes \cup {None}
    BY PathTypes DEF Shape, TypeOK, part
  <2> QED
    BY <2>1, <2>2, <2>3
<1>6. ASSUME NEW i \in Jobs, uuid'[i] \notin clashed', pc'[i] = "tar"
      PROVE  disk'.data[fd'[i]] = blocks(i, wrote'[i])
  <2>1. CASE i # j
    BY <1>1, <1>2, <1>3, <1>5, <1>6, <2>1 DEF Written
  <2>2. CASE i = j
    <3>1. disk.data[fd[j]] = blocks(j, wrote[j])
      BY <1>1, <1>6, <2>2 DEF Written
    <3>2. disk'.data[fd[j]] = [blocks(j, wrote[j]) EXCEPT ![b] = j]
      BY <1>2, <1>3, <3>1
    <3>3. [blocks(j, wrote[j]) EXCEPT ![b] = j] = blocks(j, b)
      <4>1. wrote[j] \in Nat /\ MaxBlocks \in Nat
        BY <1>3, BoundsAssumption
      <4>2. \A x \in Blocks : x <= b <=> x <= wrote[j] \/ x = b
        BY <4>1 DEF Blocks
      <4> HIDE DEF b
      <4> QED
        BY <4>2 DEF blocks
    <3> QED
      BY <1>1, <1>3, <2>2, <3>2, <3>3
  <2> QED
    BY <2>1, <2>2
<1>7. ASSUME NEW i \in Jobs, uuid'[i] \notin clashed', pc'[i] = "rename"
      PROVE  disk'.name[<<uuid'[i], "part">>] # None /\ disk'.data[disk'.name[<<uuid'[i], "part">>]] = whole(i)'
  <2>1. i # j /\ disk'.name[<<uuid'[i], "part">>] = part(uuid[i]) /\ whole(i)' = whole(i) /\ uuid[i] \notin clashed /\ pc[i] = "rename"
    BY <1>1, <1>2, <1>7 DEF part, whole
  <2>2. part(uuid[i]) # None /\ disk.data[part(uuid[i])] = whole(i)
    BY <2>1 DEF Written
  <2> QED
    BY <1>2, <1>3, <1>5, <2>1, <2>2
<1> QED
  BY <1>4, <1>6, <1>7 DEF Written, part

\* The rename takes the .part name of this job's snapshot alone.
LEMMA FilesWhenStored ==
  ASSUME Files, NEW j \in Jobs, Stores(j), Shape', [Next]_vars PROVE NamesApart' /\ Written'
<1> DEFINE p == <<uuid[j], "part">>
           s == <<uuid[j], "stored">>
<1> USE DEF Files
<1>1. /\ pc[j] = "rename" /\ pc' = [pc EXCEPT ![j] = "reportOk"]
      /\ uuid[j] \in Uuids /\ p \in Names /\ s \in Names /\ p # s
      /\ UNCHANGED <<uuid, size, wrote, fd, clashed>>
      /\ disk.name[p] \in Inodes
      /\ disk'.name = [disk.name EXCEPT ![s] = disk.name[p], ![p] = None]
      /\ Kept(openFds')
  BY StoresEffect
<1>2. disk.name \in [Names -> Inodes \cup {None}]
      /\ pc \in [Jobs -> Labels]
  BY DEF Labels, Shape, TypeOK
<1>3. \A n \in Names : disk'.name[n] = IF n = p THEN None ELSE IF n = s THEN disk.name[p] ELSE disk.name[n]
  BY <1>1, <1>2
<1>4. \A m, n \in Names : exists(disk, m)' /\ disk'.name[m] = disk'.name[n] => m = n
  BY <1>1, <1>3 DEF NamesApart, exists
<1>5. ASSUME NEW i \in Jobs, NEW n \in Names, Open(i)', disk'.name[n] = fd'[i]
      PROVE  n[1] = uuid'[i]
  <2>1. Open(i) /\ fd'[i] = fd[i] /\ fd[i] # None /\ uuid'[i] = uuid[i]
    BY <1>1, <1>2, <1>5 DEF Open, Shape, TypeOK
  <2>2. p[1] = uuid[j] /\ s[1] = uuid[j]
    OBVIOUS
  <2> QED
    BY <1>1, <1>3, <1>5, <2>1, <2>2 DEF NamesApart
<1>6. Frame
  <2>1. ASSUME NEW i \in Jobs, pc'[i] \in {"tar", "hung", "rename"}, uuid'[i] \notin clashed'
        PROVE  part(uuid[i])' = part(uuid[i])
    <3>1. i # j /\ Working(i) /\ Working(j) /\ uuid[i] \notin clashed /\ uuid[i] \in Uuids
      BY <1>1, <1>2, <2>1 DEF Working, Shape
    <3>2. uuid[i] # uuid[j]
      BY <3>1 DEF Solo
    <3>3. <<uuid[i], "part">> \in Names /\ <<uuid[i], "part">> # p /\ <<uuid[i], "part">> # s
      BY <3>1, <3>2, PathTypes
    <3> QED
      BY <1>1, <1>3, <3>3 DEF part
  <2> QED
    BY <1>1, <1>2, <2>1 DEF Frame, Open
<1>7. Written'
  BY <1>1, <1>6, WrittenFramed
<1>8. ASSUME NEW i \in Jobs, Open(i)', uuid'[i] \notin clashed' PROVE fd'[i] = disk'.name[<<uuid'[i], "part">>]
  <2>1. uuid'[i] = uuid[i] /\ Open(i) /\ fd'[i] = fd[i] /\ uuid[i] \notin clashed
    BY <1>1, <1>2, <1>8 DEF Open
  <2>2. part(uuid[i])' = part(uuid[i])
    BY <1>6, <1>8 DEF Frame, Open
  <2> QED
    BY <2>1, <2>2 DEF NamesApart, part
<1> QED
  BY <1>4, <1>5, <1>7, <1>8 DEF NamesApart, part

\* Names, files and jobs agree after every step.
LEMMA FilesPreserved ==
  ASSUME Files, [Next]_vars PROVE Files'
<1>1. Shape' /\ Solo'
  BY ShapePreserved, SoloPreserved DEF Files
<1>2. Quiet => NamesApart' /\ Written'
  BY <1>1, QuietStep, QuietFrame, NamesFramed, WrittenFramed DEF Files
<1> QED
  BY <1>1, <1>2, FilesWhenOpened, FilesWhenWritten, FilesWhenStored DEF Files, Quiet

\* Restore q reads one whole archive; alone, it has extracted blocks of it only.
ReadsOne(q) ==
  source[q] \notin clashed =>
    \E j \in Jobs : /\ disk.data[src[q]] = whole(j)
                    /\ q \notin mixing => \A b \in 1..pos[q] : data[b] = j

\* The file of restore q is its own to read.
ReadsApart(q) ==
  /\ \A n \in Names : disk.name[n] = src[q] => n = <<source[q], "stored">>
  /\ \A j \in Jobs : fd[j] = src[q] => source[q] \in clashed

\* A step that leaves the file of restore q, and what it has extracted, unless
\* another restore is beside it.
LEMMA ReadingFramed ==
  ASSUME Shape, SourceApart, RestoreReadsOneArchive,
         NEW q \in reading, src'[q] = src[q], pos'[q] = pos[q], source'[q] = source[q],
         q \in mixing' \/ (q \notin mixing /\ data' = data),
         clashed \subseteq clashed', size' = size,
         disk'.data[src[q]] = disk.data[src[q]] \/ source[q] \in clashed',
         \A n \in Names : disk'.name[n] \in {disk.name[n], None} \/ disk'.name[n] # src[q],
         \A j \in Jobs : fd'[j] \in {fd[j], None} \/ fd'[j] # src[q]
  PROVE  ReadsApart(q)' /\ ReadsOne(q)'
<1>1. src[q] \in Inodes /\ src[q] # None /\ q \in Restores /\ restorer[q] = "reading"
  BY NothingType DEF Shape, reading
<1>2. \A j \in Jobs : whole(j)' = whole(j)
  BY DEF whole
<1>3. ReadsApart(q)'
  BY <1>1 DEF SourceApart, ReadsApart
<1>4. ASSUME source'[q] \notin clashed'
      PROVE  \E j \in Jobs : /\ disk'.data[src'[q]] = whole(j)'
                             /\ q \notin mixing' => \A b \in 1..pos'[q] : data'[b] = j
  <2>1. PICK j \in Jobs : /\ disk.data[src[q]] = whole(j)
                          /\ q \notin mixing => \A b \in 1..pos[q] : data[b] = j
    BY <1>1, <1>4 DEF RestoreReadsOneArchive
  <2> QED
    BY <1>2, <1>4, <2>1
<1> QED
  BY <1>3, <1>4 DEF ReadsOne

\* What the names and the files of a restore are after a step.
LEMMA ReadingPreserved ==
  ASSUME Files, SourceApart, StoredHasSource, RestoreReadsOneArchive, [Next]_vars, Files'
  PROVE  SourceApart' /\ RestoreReadsOneArchive'
<1> SUFFICES ASSUME NEW q \in Restores, restorer'[q] = "reading"
             PROVE  ReadsApart(q)' /\ ReadsOne(q)'
  BY DEF SourceApart, RestoreReadsOneArchive, ReadsApart, ReadsOne, reading
<1> DEFINE Goal == ReadsApart(q)' /\ ReadsOne(q)'
<1>0. Shape /\ Shape' /\ Solo /\ NamesApart /\ Written
  BY DEF Files
<1>1. ASSUME NEW u \in Uuids, NEW clean \in BOOLEAN, Restore(q, u, clean) PROVE Goal
  <2>1. /\ restorer[q] = "idle" /\ exists(disk, <<u, "stored">>)
        /\ UNCHANGED <<disk, fd, size, clashed, pos>>
    BY <1>1 DEF Restore, job
  <2>2. /\ src'[q] = disk.name[<<u, "stored">>] /\ source'[q] = u
    BY <1>0, <1>1, <2>1 DEF Restore, Shape, TypeOK
  <2> DEFINE s == <<u, "stored">>
             i == src'[q]
  <2>3. s \in Names /\ <<u, "part">> \in Names /\ i # None /\ i = disk.name[s]
    BY <2>1, <2>2, PathTypes DEF exists
  <2>4. \A n \in Names : disk'.name[n] = i => n = s
    BY <1>0, <2>1, <2>3 DEF NamesApart, exists
  <2>5. ASSUME NEW j \in Jobs, fd'[j] = i, u \notin clashed PROVE FALSE
    <3>1. Open(j) /\ fd[j] = disk.name[s]
      BY <1>0, <2>1, <2>3, <2>5 DEF Shape, TypeOK, Open
    <3>2. uuid[j] = u
      BY <1>0, <2>3, <3>1 DEF NamesApart
    <3>3. disk.name[<<u, "part">>] = disk.name[s]
      BY <1>0, <2>5, <3>1, <3>2 DEF NamesApart, part
    <3>4. <<u, "part">> = s
      BY <1>0, <2>1, <2>3, <3>3 DEF NamesApart, exists
    <3> QED
      BY <3>4
  <2>6. ASSUME u \notin clashed
        PROVE  \E j \in Jobs : disk.data[i] = whole(j)
    <3>1. Stored(u) /\ stored(u) = disk.data[i]
      BY <2>1, <2>2 DEF Stored, stored
    <3> QED
      BY <2>6, <3>1 DEF StoredHasSource, Source
  <2>7. \A j \in Jobs : whole(j)' = whole(j)
    BY <2>1 DEF whole
  <2>8. ReadsApart(q)'
    BY <2>1, <2>2, <2>4, <2>5 DEF ReadsApart
  <2>9. pos'[q] = 0
    BY <1>0, <2>1 DEF Shape
  <2>10. \A b \in 1..pos'[q] : FALSE
    BY <2>9
  <2>11. ReadsOne(q)'
    BY <2>1, <2>2, <2>6, <2>7, <2>10 DEF ReadsOne
  <2> QED
    BY <2>8, <2>11
<1>2. ASSUME ExtractBlock(q) PROVE Goal
  <2>1. /\ restorer[q] = "reading" /\ ~atEnd(q)
        /\ data' = [data EXCEPT ![pos[q] + 1] = disk.data[src[q]][pos[q] + 1]]
        /\ pos' = [pos EXCEPT ![q] = @ + 1]
        /\ UNCHANGED <<disk, fd, size, src, source, clashed, mixing>>
    BY <1>2 DEF ExtractBlock, job
  <2>2. \A j \in Jobs : whole(j)' = whole(j)
    BY <2>1 DEF whole
  <2>3. pos'[q] = pos[q] + 1 /\ pos[q] \in Nat /\ pos[q] + 1 \in Blocks /\ DOMAIN data = Blocks
    BY <1>0, <2>1, BoundsAssumption DEF Shape, TypeOK, atEnd, Blocks
  <2>4. ASSUME NEW j \in Jobs, disk.data[src[q]] = whole(j), \A b \in 1..pos[q] : data[b] = j
        PROVE  \A b \in 1..pos'[q] : data'[b] = j
    <3>1. disk.data[src[q]][pos[q] + 1] # None
      BY <2>1, <2>3 DEF atEnd
    <3>2. disk.data[src[q]][pos[q] + 1] = j
      BY <2>3, <2>4, <3>1 DEF whole
    <3>3. \A b \in 1..pos'[q] : b = pos[q] + 1 \/ b \in 1..pos[q]
      BY <2>3
    <3>4. \A b \in 1..pos[q] : b # pos[q] + 1
      BY <2>3
    <3>5. 1..pos[q] \subseteq Blocks
      BY <2>3, BoundsAssumption DEF Blocks
    <3> QED
      BY <2>1, <2>3, <2>4, <3>2, <3>3, <3>4, <3>5
  <2>5. q \in reading /\ ReadsOne(q)
    BY <2>1 DEF reading, RestoreReadsOneArchive, ReadsOne
  <2>6. ReadsApart(q)'
    BY <2>1, <2>5 DEF SourceApart, ReadsApart
  <2>7. ASSUME source'[q] \notin clashed'
        PROVE  \E j \in Jobs : /\ disk'.data[src'[q]] = whole(j)'
                               /\ q \notin mixing' => \A b \in 1..pos'[q] : data'[b] = j
    <3>1. PICK j \in Jobs : /\ disk.data[src[q]] = whole(j)
                            /\ q \notin mixing => \A b \in 1..pos[q] : data[b] = j
      BY <2>1, <2>5, <2>7 DEF ReadsOne
    <3>2. q \notin mixing => \A b \in 1..pos'[q] : data'[b] = j
      BY <2>4, <3>1
    <3> QED
      BY <2>1, <2>2, <3>1, <3>2
  <2> QED
    BY <2>6, <2>7 DEF ReadsOne
<1>3. ASSUME NEW o \in Restores, o # q,
             ExtractBlock(o) \/ ExtractEnd(o) \/ \E u \in Uuids, clean \in BOOLEAN : Restore(o, u, clean)
      PROVE  Goal
  <2>0. /\ restorer \in [Restores -> {"idle", "reading"}] /\ src \in [Restores -> Inodes \cup {None}]
        /\ pos \in [Restores -> 0..MaxBlocks] /\ source \in [Restores -> Uuids \cup {None}]
    BY <1>0 DEF Shape, TypeOK
  <2>1. /\ restorer[q] = "reading" /\ src'[q] = src[q] /\ pos'[q] = pos[q] /\ source'[q] = source[q]
        /\ UNCHANGED <<clashed, size, fd>> /\ disk'.name = disk.name
    <3>1. CASE ExtractBlock(o)
      BY <1>3, <2>0, <3>1 DEF ExtractBlock, job
    <3>2. CASE ExtractEnd(o)
      BY <1>3, <2>0, <3>2 DEF ExtractEnd, job, freed
    <3>3. CASE \E u \in Uuids, clean \in BOOLEAN : Restore(o, u, clean)
      BY <1>3, <2>0, <3>3 DEF Restore, job
    <3> QED
      BY <1>3, <3>1, <3>2, <3>3
  <2>2. q \in reading /\ src[q] \in Inodes
    BY <1>0, <2>1 DEF reading, Shape
  <2>3. disk'.data[src[q]] = disk.data[src[q]]
    <3>1. CASE ExtractEnd(o)
      <4>1. src[q] \in othersSrc(o)
        BY <1>3 DEF othersSrc
      <4> QED
        BY <2>2, <3>1, <4>1 DEF ExtractEnd, freed
    <3>2. CASE ~ExtractEnd(o)
      BY <1>3, <3>2 DEF ExtractBlock, Restore
    <3> QED
      BY <3>1, <3>2
  <2>4. q \in mixing' \/ (q \notin mixing /\ data' = data)
    <3>1. CASE ExtractBlock(o)
      BY <1>0, <1>3, <2>2, <3>1 DEF ExtractBlock, Shape, reading
    <3>2. CASE ExtractEnd(o)
      BY <1>3, <3>2 DEF ExtractEnd
    <3>3. CASE \E u \in Uuids, clean \in BOOLEAN : Restore(o, u, clean)
      BY <2>2, <3>3 DEF Restore
    <3> QED
      BY <1>3, <3>1, <3>2, <3>3
  <2> QED
    BY <1>0, <2>1, <2>2, <2>3, <2>4, ReadingFramed
<1>4. ASSUME UNCHANGED restore, clashed \subseteq clashed', size' = size,
             disk'.data[src[q]] = disk.data[src[q]] \/ source[q] \in clashed',
             \A n \in Names : disk'.name[n] \in {disk.name[n], None} \/ disk'.name[n] # src[q],
             \A j \in Jobs : fd'[j] \in {fd[j], None} \/ fd'[j] # src[q]
      PROVE  Goal
  <2>1. q \in reading /\ UNCHANGED <<src, pos, data, source, mixing>>
    BY <1>4 DEF reading, restore
  <2> QED
    BY <1>0, <1>4, <2>1, ReadingFramed
<1>5. ASSUME UNCHANGED restore
      PROVE  q \in reading /\ src[q] \in Inodes /\ src[q] \in openFds /\ src'[q] = src[q] /\ src[q] \in openFds'
  BY <1>0, <1>5 DEF reading, restore, openFds, srcFds, Shape
<1>6. ASSUME NEW j \in Jobs, TarBlock(j) PROVE Goal
  <2>1. UNCHANGED <<restore, clashed, size, fd>> /\ disk'.name = disk.name
        /\ disk'.data = [disk.data EXCEPT ![fd[j]] = [@ EXCEPT ![wrote[j] + 1] = j]]
    BY <1>0, <1>6, WriteEffect DEF TarBlock
  <2>2. disk'.data[src[q]] = disk.data[src[q]] \/ source[q] \in clashed'
    BY <1>0, <1>5, <2>1 DEF SourceApart, Shape, TypeOK
  <2> QED
    BY <1>4, <2>1, <2>2
<1>7. ASSUME NEW j \in Jobs, Opens(j) PROVE Goal
  <2> DEFINE k == fd'[j]
             p == <<uuid[j], "part">>
  <2>1. /\ uuid[j] \in Uuids
        /\ UNCHANGED <<restore, clashed, size>>
        /\ k \in Inodes /\ \A i \in Jobs : i # j => fd'[i] = fd[i]
        /\ disk'.name = [disk.name EXCEPT ![p] = k]
        /\ disk'.data = [disk.data EXCEPT ![k] = Nothing]
        /\ k = disk.name[p] \/ (k \notin openFds /\ \A n \in Names : disk.name[n] # k)
    BY <1>0, <1>7, OpensEffect DEF part
  <2>2. p \in Names /\ p # <<source[q], "stored">>
    BY <2>1, PathTypes
  <2>3. k # src[q]
    BY <1>5, <2>1, <2>2 DEF SourceApart
  <2>4. disk'.data[src[q]] = disk.data[src[q]]
    BY <1>0, <1>5, <2>1, <2>3 DEF Shape, TypeOK
  <2>5. \A n \in Names : disk'.name[n] = IF n = p THEN k ELSE disk.name[n]
    BY <1>0, <2>1, <2>2 DEF Shape, TypeOK
  <2> HIDE DEF k
  <2>6. \A i \in Jobs : fd'[i] \in {fd[i], None} \/ fd'[i] # src[q]
    BY <2>1, <2>3 DEF k
  <2>7. \A n \in Names : disk'.name[n] \in {disk.name[n], None} \/ disk'.name[n] # src[q]
    BY <2>3, <2>5
  <2> QED
    BY <1>4, <2>1, <2>4, <2>6, <2>7
<1>8. ASSUME NEW j \in Jobs, Stores(j) PROVE Goal
  <2> DEFINE p == <<uuid[j], "part">>
             s == <<uuid[j], "stored">>
  <2>1. /\ uuid[j] \in Uuids /\ p \in Names /\ s \in Names /\ p # s
        /\ UNCHANGED <<restore, clashed, size, fd>>
        /\ disk'.name = [disk.name EXCEPT ![s] = disk.name[p], ![p] = None]
        /\ Kept(openFds')
    BY <1>0, <1>8, StoresEffect
  <2>2. p # <<source[q], "stored">>
    OBVIOUS
  <2> HIDE DEF p, s
  <2>3. \A n \in Names : disk'.name[n] = IF n = p THEN None ELSE IF n = s THEN disk.name[p] ELSE disk.name[n]
    BY <1>0, <2>1 DEF Shape, TypeOK
  <2>4. disk.name[p] # src[q]
    BY <1>5, <2>1, <2>2 DEF SourceApart
  <2>5. disk'.data[src[q]] = disk.data[src[q]]
    BY <1>5, <2>1 DEF Kept
  <2> QED
    BY <1>4, <2>1, <2>3, <2>4, <2>5
<1>9. ASSUME Quiet, UNCHANGED restore PROVE Goal
  <2>1. NoNewName /\ Kept(openFds') /\ Frame
    BY <1>0, <1>9, QuietStep, QuietFrame
  <2>2. disk'.data[src[q]] = disk.data[src[q]]
    BY <1>5, <1>9, <2>1 DEF Kept
  <2> QED
    BY <1>4, <1>9, <2>1, <2>2 DEF Frame, NoNewName
<1>10. CASE ExtractEnd(q) \/ RestartDaemon
  BY <1>0, <1>10 DEF ExtractEnd, RestartDaemon, Shape, TypeOK
<1>11. \/ UNCHANGED restore \/ RestartDaemon
       \/ \E o \in Restores : \/ ExtractBlock(o) \/ ExtractEnd(o)
                              \/ \E u \in Uuids, clean \in BOOLEAN : Restore(o, u, clean)
  BY DEF Next, Job, Lease, Create, TarBlock, TarDone, TarFails, TarKilled, DiskFull, throwAway, Rename,
         Report, Accept, Delete, vars
<1> QED
  BY <1>1, <1>2, <1>3, <1>6, <1>7, <1>8, <1>9, <1>10, <1>11 DEF Quiet

\* A step that leaves a stored snapshot and its reports alone.
GoesOn ==
  /\ UNCHANGED <<told, latest, size>> /\ clashed \subseteq clashed'
  /\ \A j \in Jobs : /\ pc[j] \in {"reportOk", "done", "lost"} =>
                          pc'[j] \in {"reportOk", "done", "lost"} /\ uuid'[j] = uuid[j]
                     /\ pc'[j] = "reportOk" => pc[j] = "reportOk"

\* What is stored stays a whole archive that the panel knows of, or has still to
\* be told of.
LEMMA StoredFramed ==
  ASSUME StoredHasSource, GoesOn,
         \A u \in Uuids \ clashed' : Stored(u)' => Stored(u) /\ stored(u)' = stored(u)
  PROVE  StoredHasSource'
<1> SUFFICES ASSUME NEW u \in Uuids \ clashed', Stored(u)'
             PROVE  /\ \E j \in Jobs : Source(u, j)'
                    /\ \A j \in Jobs : pc'[j] = "reportOk" /\ uuid'[j] = u => stored(u)' = whole(j)'
  BY DEF StoredHasSource
<1>1. u \in Uuids \ clashed /\ Stored(u) /\ stored(u)' = stored(u)
  BY DEF GoesOn
<1>2. \A j \in Jobs : whole(j)' = whole(j)
  BY DEF GoesOn, whole
<1>3. \A j \in Jobs : Source(u, j) => Source(u, j)'
  BY <1>1, <1>2 DEF Source, GoesOn
<1>4. \A j \in Jobs : pc'[j] = "reportOk" => pc[j] = "reportOk" /\ uuid'[j] = uuid[j]
  BY DEF GoesOn
<1> QED
  BY <1>1, <1>2, <1>3, <1>4 DEF StoredHasSource

\* The stored archives after every step: only Report tells the panel, and only the
\* rename brings a new one.
LEMMA StoredPreserved ==
  ASSUME Files, StoredHasSource, [Next]_vars, Files'
  PROVE  StoredHasSource'
<1>0. Shape /\ Shape' /\ Solo /\ NamesApart /\ Written
  BY DEF Files
<1> DEFINE Same == \A u \in Uuids \ clashed' : Stored(u)' => Stored(u) /\ stored(u)' = stored(u)
<1>1. ASSUME Quiet PROVE Same
  <2>1. NoNewName /\ Kept(openFds')
    BY <1>0, <1>1, QuietStep
  <2> SUFFICES ASSUME NEW u \in Uuids, Stored(u)' PROVE Stored(u) /\ stored(u)' = stored(u)
    OBVIOUS
  <2>2. <<u, "stored">> \in Names
    BY PathTypes
  <2>3. disk'.name[<<u, "stored">>] = disk.name[<<u, "stored">>] /\ disk.name[<<u, "stored">>] \in Inodes
    BY <1>0, <2>1, <2>2 DEF NoNewName, Stored, exists, Shape, TypeOK
  <2>4. disk'.data[disk.name[<<u, "stored">>]] = disk.data[disk.name[<<u, "stored">>]]
    BY <2>1, <2>2, <2>3 DEF Kept
  <2> QED
    BY <2>3, <2>4, NothingType DEF Stored, stored, exists
<1>2. ASSUME NEW j \in Jobs, Report(j) PROVE StoredHasSource'
  <2>1. /\ pc[j] \in {"reportOk", "reportFailed"} /\ pc' = [pc EXCEPT ![j] = "done"]
        /\ UNCHANGED <<disk, uuid, size, clashed>> /\ uuid[j] \in Uuids
        /\ \A i \in Jobs : i # j => told'[i] = told[i]
        /\ told'[j] \in {"ok", "failed", "undelivered"}
        /\ told'[j] = "ok" /\ pc[j] = "reportOk" => latest' = [latest EXCEPT ![uuid[j]] = j]
        /\ told'[j] # "ok" \/ pc[j] # "reportOk" => latest' = latest
        /\ pc[j] = "reportOk" => told'[j] # "failed"
    BY <1>0, <1>2 DEF Report, goto, Shape, TypeOK
  <2>2. \A i \in Jobs : whole(i)' = whole(i)
    BY <2>1 DEF whole
  <2> SUFFICES ASSUME NEW u \in Uuids \ clashed', Stored(u)'
               PROVE  /\ \E i \in Jobs : Source(u, i)'
                      /\ \A i \in Jobs : pc'[i] = "reportOk" /\ uuid'[i] = u => stored(u)' = whole(i)'
    BY DEF StoredHasSource
  <2>3. u \notin clashed /\ Stored(u) /\ stored(u)' = stored(u)
    BY <2>1 DEF Stored, stored, exists
  <2>4. \A i \in Jobs : pc'[i] = "reportOk" /\ uuid'[i] = u => stored(u)' = whole(i)'
    BY <1>0, <2>1, <2>2, <2>3 DEF StoredHasSource, Shape, TypeOK
  <2>5. CASE pc[j] = "reportOk" /\ uuid[j] = u
    <3>1. stored(u) = whole(j)
      BY <2>3, <2>5 DEF StoredHasSource
    <3>2. told'[j] = "ok" => latest'[u] = j
      BY <1>0, <2>1, <2>5 DEF Shape, TypeOK
    <3>3. pc'[j] = "done"
      BY <1>0, <2>1 DEF Shape, TypeOK
    <3>4. Source(u, j)'
      BY <2>1, <2>2, <2>3, <2>5, <3>1, <3>2, <3>3 DEF Source
    <3> QED
      BY <2>4, <3>4
  <2>6. CASE ~(pc[j] = "reportOk" /\ uuid[j] = u)
    <3>1. PICK i \in Jobs : Source(u, i)
      BY <2>3 DEF StoredHasSource
    <3>2. i # j
      BY <2>1, <2>6, <3>1 DEF Source
    <3>3. latest'[u] = latest[u]
      BY <1>0, <2>1, <2>6 DEF Shape, TypeOK
    <3>4. Source(u, i)'
      BY <1>0, <2>1, <2>2, <2>3, <3>1, <3>2, <3>3 DEF Source, Shape, TypeOK
    <3> QED
      BY <2>4, <3>4
  <2> QED
    BY <2>5, <2>6
<1>3. ASSUME Quiet, \A j \in Jobs : ~Report(j) PROVE GoesOn
  <2>1. ASSUME NEW j \in Jobs, Acts(j) PROVE GoesOn
    <3>1. /\ UNCHANGED <<uuid, told, latest, size, clashed>> /\ pc[j] \in {"lease", "create", "tar", "hung", "rename"}
          /\ \A i \in Jobs : i # j => pc'[i] = pc[i]
          /\ pc'[j] # "reportOk"
      <4>1. Rename(j) => pc[j] = "rename" /\ pc' = [pc EXCEPT ![j] = "reportFailed"]
                         /\ UNCHANGED <<uuid, told, latest, size, clashed>>
        <5>1. pc \in [Jobs -> Labels]
          BY <1>0 DEF Shape, TypeOK, Labels
        <5>2. ~Stores(j)
          BY <1>3 DEF Quiet
        <5> QED
          BY <5>1, <5>2 DEF Rename, Stores, goto
      <4>2. Lease(j) \/ Create(j) \/ TarDone(j) \/ TarFails(j) \/ TarKilled(j) \/ DiskFull(j) =>
              /\ UNCHANGED <<uuid, told, latest, size, clashed>> /\ pc[j] \in {"lease", "create", "tar", "hung"}
              /\ \E label \in {"create", "tar", "hung", "rename", "reportFailed"} : pc' = [pc EXCEPT ![j] = label]
        BY DEF Lease, Create, TarDone, TarFails, TarKilled, DiskFull, throwAway, goto
      <4>3. pc \in [Jobs -> Labels]
        BY <1>0 DEF Labels, Shape, TypeOK
      <4> QED
        BY <1>3, <2>1, <4>1, <4>2, <4>3 DEF Acts, Job, Labels, Quiet
    <3> QED
      BY <3>1 DEF GoesOn
  <2>2. ASSUME NEW j \in Jobs, NEW u \in Uuids, Accept(j, u) PROVE GoesOn
    BY <1>0, <2>2 DEF Accept, goto, GoesOn, Shape, TypeOK
  <2>3. ASSUME NEW u \in Uuids, Delete(u) PROVE GoesOn
    BY <2>3 DEF Delete, job, GoesOn
  <2>4. ASSUME NEW q \in Restores, NEW u \in Uuids, NEW clean \in BOOLEAN, Restore(q, u, clean) PROVE GoesOn
    BY <2>4 DEF Restore, job, GoesOn
  <2>5. CASE (\E q \in Restores : ExtractBlock(q) \/ ExtractEnd(q)) \/ UNCHANGED vars
    BY <2>5 DEF ExtractBlock, ExtractEnd, vars, job, GoesOn
  <2>6. CASE RestartDaemon
    BY <1>0, <2>6 DEF RestartDaemon, GoesOn, Working, Shape, TypeOK
  <2> QED
    BY <2>1, <2>2, <2>3, <2>4, <2>5, <2>6 DEF Next, Acts
<1>4. ASSUME NEW j \in Jobs, TarBlock(j) PROVE StoredHasSource'
  <2>1. /\ pc[j] = "tar" /\ UNCHANGED <<pc, uuid, told, latest, size, clashed>> /\ disk'.name = disk.name
        /\ disk'.data = [disk.data EXCEPT ![fd[j]] = [@ EXCEPT ![wrote[j] + 1] = j]]
    BY <1>0, <1>4, WriteEffect DEF TarBlock
  <2>2. ASSUME NEW u \in Uuids, u \notin clashed, Stored(u) PROVE disk.name[<<u, "stored">>] # fd[j]
    <3>1. <<u, "stored">> \in Names /\ <<u, "part">> \in Names /\ <<u, "stored">> # <<u, "part">>
      BY PathTypes
    <3> QED
      BY <1>0, <2>1, <2>2, <3>1 DEF NamesApart, Open, part, Stored, exists
  <2>3. Same
    BY <1>0, <2>1, <2>2, PathTypes DEF Stored, stored, exists, Shape, TypeOK
  <2>4. GoesOn
    BY <2>1 DEF GoesOn
  <2> QED
    BY <2>3, <2>4, StoredFramed
<1>5. ASSUME NEW j \in Jobs, Opens(j) PROVE StoredHasSource'
  <2> DEFINE k == fd'[j]
             p == <<uuid[j], "part">>
  <2>1. /\ pc[j] = "create" /\ pc' = [pc EXCEPT ![j] = "tar"]
        /\ uuid[j] \in Uuids
        /\ UNCHANGED <<uuid, told, latest, clashed, size>>
        /\ k \in Inodes
        /\ disk'.name = [disk.name EXCEPT ![p] = k]
        /\ disk'.data = [disk.data EXCEPT ![k] = Nothing]
        /\ k = disk.name[p] \/ (\A n \in Names : disk.name[n] # k)
    BY <1>0, <1>5, OpensEffect DEF part
  <2> HIDE DEF k
  <2>2. ASSUME NEW u \in Uuids, Stored(u)' PROVE Stored(u) /\ stored(u)' = stored(u)
    <3> DEFINE s == <<u, "stored">>
    <3>1. s \in Names /\ p \in Names /\ s # p
      BY <2>1, PathTypes
    <3>2. disk'.name[s] = disk.name[s]
      BY <1>0, <2>1, <3>1 DEF Shape, TypeOK
    <3>3. disk.name[s] # None /\ disk.name[s] \in Inodes
      BY <1>0, <2>2, <3>1, <3>2 DEF Stored, exists, Shape, TypeOK
    <3>4. disk.name[s] # k
      BY <1>0, <2>1, <3>1, <3>3 DEF NamesApart, exists
    <3>5. disk'.data[disk.name[s]] = disk.data[disk.name[s]]
      BY <1>0, <2>1, <3>3, <3>4 DEF Shape, TypeOK
    <3> QED
      BY <3>2, <3>3, <3>5 DEF Stored, stored, exists
  <2>3. GoesOn
    BY <1>0, <2>1 DEF GoesOn, Shape, TypeOK
  <2> QED
    BY <2>2, <2>3, StoredFramed
<1>6. ASSUME NEW j \in Jobs, Stores(j) PROVE StoredHasSource'
  <2> DEFINE p == <<uuid[j], "part">>
             s == <<uuid[j], "stored">>
  <2>1. /\ pc[j] = "rename" /\ pc' = [pc EXCEPT ![j] = "reportOk"]
        /\ uuid[j] \in Uuids /\ p \in Names /\ s \in Names /\ p # s
        /\ UNCHANGED <<uuid, size, told, latest, clashed>>
        /\ disk.name[p] \in Inodes
        /\ disk'.name = [disk.name EXCEPT ![s] = disk.name[p], ![p] = None]
        /\ Kept(openFds')
    BY <1>0, <1>6, StoresEffect
  <2>2. \A n \in Names : disk'.name[n] = IF n = p THEN None ELSE IF n = s THEN disk.name[p] ELSE disk.name[n]
    <3>1. disk.name \in [Names -> Inodes \cup {None}]
      BY <1>0 DEF Shape, TypeOK
    <3> QED
      BY <2>1, <3>1
  <2>3. \A i \in Jobs : whole(i)' = whole(i)
    BY <2>1 DEF whole
  <2>4. \A i \in Jobs : pc'[i] = IF i = j THEN "reportOk" ELSE pc[i]
    BY <1>0, <2>1 DEF Shape, TypeOK
  <2> SUFFICES ASSUME NEW u \in Uuids \ clashed', Stored(u)'
               PROVE  /\ \E i \in Jobs : Source(u, i)'
                      /\ \A i \in Jobs : pc'[i] = "reportOk" /\ uuid'[i] = u => stored(u)' = whole(i)'
    BY DEF StoredHasSource
  <2>5. CASE u = uuid[j]
    <3>1. disk'.data[disk.name[p]] = disk.data[disk.name[p]] /\ disk'.name[s] = disk.name[p]
      BY <2>1, <2>2 DEF Kept
    <3>2. disk.data[disk.name[p]] = whole(j)
      BY <1>0, <2>1, <2>5 DEF Written, part
    <3>3. stored(u)' = whole(j)'
      BY <2>3, <2>5, <3>1, <3>2 DEF stored
    <3>4. told[j] = "none"
      BY <1>0, <2>1 DEF Shape, Working
    <3>5. Source(u, j)'
      BY <2>1, <2>4, <2>5, <3>3, <3>4 DEF Source
    <3>6. \A i \in Jobs : pc'[i] = "reportOk" /\ uuid'[i] = u => i = j
      BY <1>0, <2>1, <2>4, <2>5 DEF Solo, Working
    <3> QED
      BY <3>3, <3>5, <3>6
  <2>6. CASE u # uuid[j]
    <3> DEFINE t == <<u, "stored">>
    <3>1. t \in Names /\ t # s /\ t # p
      BY <2>6, PathTypes
    <3>2. disk'.name[t] = disk.name[t] /\ disk.name[t] # None /\ disk.name[t] \in Inodes
      BY <1>0, <2>2, <3>1 DEF Stored, exists, Shape, TypeOK
    <3>3. disk'.data[disk.name[t]] = disk.data[disk.name[t]]
      BY <2>1, <3>1, <3>2 DEF Kept
    <3>4. Stored(u) /\ stored(u)' = stored(u) /\ u \in Uuids \ clashed
      BY <2>1, <3>2, <3>3 DEF Stored, stored, exists
    <3>5. PICK i \in Jobs : Source(u, i)
      BY <3>4 DEF StoredHasSource
    <3>6. Source(u, i)'
      BY <2>1, <2>3, <2>4, <3>4, <3>5 DEF Source
    <3>7. ASSUME NEW m \in Jobs, pc'[m] = "reportOk", uuid'[m] = u PROVE stored(u)' = whole(m)'
      <4>1. pc[m] = "reportOk" /\ uuid[m] = u
        BY <2>1, <2>4, <2>6, <3>7
      <4> QED
        BY <2>3, <3>4, <3>7, <4>1 DEF StoredHasSource
    <3> QED
      BY <3>6, <3>7
  <2> QED
    BY <2>5, <2>6
<1> QED
  BY <1>1, <1>2, <1>3, <1>4, <1>5, <1>6, StoredFramed DEF Quiet

-----------------------------------------------------------------------------
\* An empty directory satisfies the invariant.
LEMMA Initial == Init => BackupInv
<1> SUFFICES ASSUME Init PROVE BackupInv
  OBVIOUS
<1>1. DiskType
  BY NothingType DEF Init, DiskType
<1>2. \A j \in Jobs : size[j] \in Nat
  BY BoundsAssumption DEF Init, Blocks
<1>3. \A j \in Jobs : wrote[j] \in 0..size[j]
  BY <1>2 DEF Init
<1>4. Shape
  BY <1>1, <1>3, BoundsAssumption DEF Init, Shape, TypeOK, DiskType, Labels, Open, reading, Working
<1> QED
  BY <1>4 DEF Init, BackupInv, Solo, NamesApart, SourceApart, Written, StoredHasSource,
              RestoreReadsOneArchive, Open, reading, Working, Stored, exists, Names, Ext

\* The invariant is inductive.
LEMMA Inductive == BackupInv /\ [Next]_vars => BackupInv'
BY FilesPreserved, ReadingPreserved, StoredPreserved DEF BackupInv, Files

\* Jobs and files keep to their places, whatever happens: two names never stand for
\* one file, a job that met no other of its snapshot writes to the .part file
\* alone, and nothing writes to what a restore reads (runBackupSnapshot and the
\* handlers of backups_store.go).
THEOREM BackupInvariant == Spec => []BackupInv
<1>1. Init => BackupInv
  BY Initial
<1>2. BackupInv /\ [Next]_vars => BackupInv'
  BY Inductive
<1> QED
  BY <1>1, <1>2, PTL DEF Spec

\* Every reachable state of the jobs, the directory and the restore is well formed.
THEOREM TypeCorrect == Spec => []TypeOK
<1>1. BackupInv => TypeOK
  BY DEF BackupInv, Shape
<1> QED
  BY <1>1, BackupInvariant, PTL

\* What GET and restore find under <uuid>.tar.gz is the whole archive of one job,
\* also when jobs failed, were killed or were deleted in the middle, as long as no
\* two jobs made that snapshot at one time.
THEOREM WholeArchives == Spec => []StoredIsWhole
<1>1. BackupInv => StoredIsWhole
  BY DEF BackupInv, StoredHasSource, Source, StoredIsWhole
<1> QED
  BY <1>1, BackupInvariant, PTL

\* The checksum the panel was told last is that of the stored snapshot, unless a
\* newer report is outstanding or was lost on the way (reportBackupStatus makes a
\* single attempt).
THEOREM ReportsAreTrue == Spec => []ReportIsTrue
<1>1. BackupInv => ReportIsTrue
  BY DEF BackupInv, StoredHasSource, Source, ReportIsTrue
<1> QED
  BY <1>1, BackupInvariant, PTL

\* Every restore reads one whole archive, although its snapshot may be deleted or
\* made again while extractReaderToHost reads the open file, and what it has put
\* into the data root is that archive's, unless another restore ran beside it
\* (handleBackupStoredRestore takes no lock).
THEOREM RestoresOneArchive == Spec => []RestoreReadsOneArchive
<1>1. BackupInv => RestoreReadsOneArchive
  BY DEF BackupInv
<1> QED
  BY <1>1, BackupInvariant, PTL
=============================================================================
